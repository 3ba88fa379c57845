CONSTANTS
  Others <- OneOther
  Guards <- TwoEachAndOthers
  Channels = {"c1", "c2", "c3"}
  NoChannel = "none"
  Threads = {"t1"}
  Chunks = 2
  max_retry = 3
SPECIFICATION UploadSpec
INVARIANTS
  TypeOK
  Exclusive
  ChannelsBounded
  UploadTypeOK
  ReturnedIsStored
  ThrownAfterLast
PROPERTIES
  UploadEnds
