------------------------------- MODULE Upload -------------------------------
(***************************************************************************)
(* upload_large_result: the data of a result is streamed to the control    *)
(* plane, at most max_retry times, by threads that share the channel pool. *)
(* An attempt streams through the channel of one guard; when the control   *)
(* plane has not got all of the data, the attempt deletes what was stored  *)
(* through a second guard, nested in the first.                            *)
(*                                                                         *)
(* The data is a number of chunks.  The control plane is external: a       *)
(* stream that fails may have stored something or nothing; deletions take  *)
(* effect when they are called or never.                                   *)
(***************************************************************************)
EXTENDS ChannelPool

CONSTANTS
  Threads,    \* threads, each with one result to upload
  Others,     \* guards of other requests that share the pool
  Chunks,     \* the number of chunks of a result
  max_retry   \* attempts (3 in the code)

Stream(t) == <<t, "stream">>
Delete(t) == <<t, "delete">>

ASSUME UploadAssumption ==
  /\ Chunks \in Nat /\ max_retry \in Nat \ {0}
  /\ Guards = (Threads \X {"stream", "delete"}) \cup Others
  /\ Others \cap (Threads \X {"stream", "delete"}) = {}

VARIABLES
  at,      \* at[t]: "attempt", "stream", "mismatch", "cleanup", "unwind",
           \* "good"; "returned" or "thrown"
  retry,   \* retry[t]: the number of the attempt, from 0
  eptr,    \* eptr[t]: an exception is kept
  sent,    \* sent[t]: chunks written in this attempt
  stored   \* stored[t]: chunks that the control plane has

uploadVars == <<at, retry, eptr, sent, stored>>
vars == <<poolVars, uploadVars>>

UploadInit ==
  /\ Init
  /\ at = [t \in Threads |-> "attempt"]
  /\ retry = [t \in Threads |-> 0] /\ eptr = [t \in Threads |-> FALSE]
  /\ sent = [t \in Threads |-> 0] /\ stored = [t \in Threads |-> 0]

Become(t, label) == at' = [at EXCEPT ![t] = label]

(* An exception leaves the try block: its guards are destroyed, then it is *)
(* caught and kept.                                                        *)
Throw(t) == Become(t, "unwind") /\ eptr' = [eptr EXCEPT ![t] = TRUE]

-----------------------------------------------------------------------------
(* Mutant: the exception of the attempt before is kept.                    *)
KeepException(t) == UNCHANGED eptr
ResetException(t) == eptr' = [eptr EXCEPT ![t] = FALSE]

Attempt(t) ==
  /\ at[t] = "attempt"
  /\ ResetException(t)
  /\ sent' = [sent EXCEPT ![t] = 0]
  /\ Pop(Stream(t))
  /\ Become(t, "stream")
  /\ UNCHANGED <<retry, stored>>

Using(g) == pc[g] = "use"

NoStreamChannel(t) ==
  /\ at[t] = "stream" /\ CreateThrows(Stream(t))
  /\ Throw(t)
  /\ UNCHANGED <<retry, sent, stored>>

WriteChunk(t) ==
  /\ at[t] = "stream" /\ Using(Stream(t)) /\ sent[t] < Chunks
  /\ sent' = [sent EXCEPT ![t] = @ + 1]
  /\ UNCHANGED <<poolVars, at, retry, eptr, stored>>

(* A write, WritesDone or Finish fails.                                    *)
StreamFails(t) ==
  /\ at[t] = "stream" /\ Using(Stream(t))
  /\ Throw(t)
  /\ \E n \in {stored[t]} \cup 0..sent[t] : stored' = [stored EXCEPT ![t] = n]
  /\ UNCHANGED <<poolVars, retry, sent>>

(* The stream ends well, and the response has the size that was stored.    *)
(* Mutant: the size of the response is not looked at.                      *)
AnySize(n) == TRUE
RightSize(n) == n = Chunks

Finish(t) ==
  /\ at[t] = "stream" /\ Using(Stream(t)) /\ sent[t] = Chunks
  /\ \E n \in 0..Chunks :
       /\ stored' = [stored EXCEPT ![t] = n]
       /\ Become(t, IF RightSize(n) THEN "good" ELSE "mismatch")
  /\ UNCHANGED <<poolVars, retry, eptr, sent>>

(* The data is deleted, with a channel of its own; no failure of that is   *)
(* an error.  Then the attempt throws.                                     *)
Cleanup(t) ==
  /\ at[t] = "mismatch"
  /\ Pop(Delete(t))
  /\ Become(t, "cleanup")
  /\ UNCHANGED <<retry, eptr, sent, stored>>

NoDeleteChannel(t) ==
  /\ at[t] = "cleanup" /\ CreateThrows(Delete(t))
  /\ Throw(t)
  /\ UNCHANGED <<retry, sent, stored>>

DeleteData(t) ==
  /\ at[t] = "cleanup" /\ Release(Delete(t))
  /\ Throw(t)
  /\ \E n \in {0, stored[t]} : stored' = [stored EXCEPT ![t] = n]
  /\ UNCHANGED <<retry, sent>>

(* The guard of the stream is destroyed after that of the deletion.        *)
LeaveTry(t) ==
  /\ at[t] \in {"good", "unwind"} /\ pc[Delete(t)] = "out"
  /\ Release(Stream(t))
  /\ UNCHANGED uploadVars

(* The end of the loop: break after a good upload, else the next attempt;  *)
(* an exception that was kept is thrown in the end.                        *)
(* Mutant: attempts are not counted.                                       *)
NotCounted(t) == retry[t]
Counted(t) == retry[t] + 1

(* Mutant: the guard of the stream outlives the attempt.                   *)
SettledButStream(t) == pc[Delete(t)] = "out"
Settled(t) == pc[Stream(t)] = "out" /\ pc[Delete(t)] = "out"

Outcome(t) == IF eptr[t] THEN "thrown" ELSE "returned"

Break(t) ==
  /\ at[t] = "good" /\ Settled(t)
  /\ Become(t, Outcome(t))
  /\ UNCHANGED <<poolVars, retry, eptr, sent, stored>>

Again(t) ==
  /\ at[t] = "unwind" /\ Settled(t)
  /\ retry' = [retry EXCEPT ![t] = Counted(t)]
  /\ Become(t, IF Counted(t) < max_retry THEN "attempt" ELSE Outcome(t))
  /\ UNCHANGED <<poolVars, eptr, sent, stored>>

-----------------------------------------------------------------------------
PoolStep(g) == (Check(g) \/ Create(g) \/ Push(g)) /\ UNCHANGED uploadVars

Thread(t) ==
  \/ Attempt(t) \/ NoStreamChannel(t) \/ WriteChunk(t) \/ StreamFails(t)
  \/ Finish(t) \/ Cleanup(t) \/ NoDeleteChannel(t) \/ DeleteData(t)
  \/ LeaveTry(t) \/ Break(t) \/ Again(t)
  \/ PoolStep(Stream(t)) \/ PoolStep(Delete(t))

Ended == \A t \in Threads : at[t] \in {"returned", "thrown"}

UploadNext ==
  \/ \E t \in Threads : Thread(t)
  \/ \E g \in Others : Guard(g) /\ UNCHANGED uploadVars
  \/ \E c \in Live : Change(c) /\ UNCHANGED uploadVars
  \/ Ended /\ UNCHANGED vars

(* Threads are scheduled fairly and every call of gRPC returns.            *)
UploadSpec == UploadInit /\ [][UploadNext]_vars /\ \A t \in Threads : WF_vars(Thread(t))

-----------------------------------------------------------------------------
(* The variables are of their types; between attempts, and when it is      *)
(* over, an upload holds no channel.                                       *)
UploadTypeOK ==
  /\ at \in [Threads -> {"attempt", "stream", "mismatch", "cleanup", "unwind", "good",
                         "returned", "thrown"}]
  /\ retry \in [Threads -> 0..max_retry] /\ eptr \in [Threads -> BOOLEAN]
  /\ sent \in [Threads -> 0..Chunks] /\ stored \in [Threads -> 0..Chunks]
  /\ \A t \in Threads : at[t] \in {"attempt", "returned", "thrown"} =>
       pc[Stream(t)] = "out" /\ pc[Delete(t)] = "out"

(* An upload that returns has left all of the data in the control plane,   *)
(* whatever earlier attempts stored, deleted or failed to delete.          *)
ReturnedIsStored == \A t \in Threads : at[t] = "returned" => stored[t] = Chunks

(* An upload throws only when it has used all of its attempts: one that    *)
(* recovers is not reported as failed.                                     *)
ThrownAfterLast == \A t \in Threads : at[t] = "thrown" => retry[t] = max_retry

(* Every upload ends, whatever fails.                                      *)
UploadEnds == \A t \in Threads : <>(at[t] \in {"returned", "thrown"})
=============================================================================
