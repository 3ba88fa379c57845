---------------------------- MODULE MCSubmission ----------------------------
(* Two tasks with a raw input each, one of them with a second one.         *)
EXTENDS Submission
RawInputs == <<1, 2, 1>>
=============================================================================
