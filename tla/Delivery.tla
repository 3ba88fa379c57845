------------------------------ MODULE Delivery ------------------------------
(***************************************************************************)
(* What the client promises for the result of a task that was submitted    *)
(* with a handler: the result stays registered until one caller claims it; *)
(* a claimed result is answered (its handler is called) by that caller and *)
(* by nobody else; a registered result may also be discarded, and then no  *)
(* handler is called for it any more.                                      *)
(***************************************************************************)
CONSTANT Results

VARIABLE stage

Stages == {"new", "registered", "claimed", "answered", "discarded"}

Init == stage = [r \in Results |-> "new"]

Move(r, from, to) == stage[r] = from /\ stage' = [stage EXCEPT ![r] = to]

(* A submission registers its results together.                            *)
Register ==
  \E R \in SUBSET Results :
    /\ R # {} /\ \A r \in R : stage[r] = "new"
    /\ stage' = [r \in Results |-> IF r \in R THEN "registered" ELSE stage[r]]

Claim(r) == Move(r, "registered", "claimed")

Answer(r) == Move(r, "claimed", "answered")

(* The session is dropped or tasks are cleaned up.                         *)
Discard ==
  \E R \in SUBSET Results :
    /\ R # {} /\ \A r \in R : stage[r] = "registered"
    /\ stage' = [r \in Results |-> IF r \in R THEN "discarded" ELSE stage[r]]

Next == Register \/ Discard \/ \E r \in Results : Claim(r) \/ Answer(r)

Spec == Init /\ [][Next]_stage /\ \A r \in Results : WF_stage(Answer(r))
=============================================================================
