CONSTANTS
  N = 2
  InputOf <- RawInputs
  Sizes = {0, 2, 4, 6}
  submit_batch_size = 3
  message_overhead = 1
  data_chunk_max_size = 6
  Failures = {"metadata", "upload", "submit", "create"}
SPECIFICATION Spec
INVARIANTS
  TypeOK
  RequestsFit
  TasksAreReady
  AllOrNone
  LocalsOutliveRequests
