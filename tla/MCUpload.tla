------------------------------ MODULE MCUpload ------------------------------
(* Two guards for every thread, and one of other requests.                 *)
EXTENDS Upload
OneOther == {<<"other", "request">>}
TwoEachAndOthers == (Threads \X {"stream", "delete"}) \cup Others
=============================================================================
