-------------------------- MODULE MCSessionResults --------------------------
(* Two submissions whose results two threads wait for, in overlapping      *)
(* calls of every kind.                                                    *)
EXTENDS SessionResults, TLC

OneEach == [s \in Submitters |-> IF s = "s1" THEN {1} ELSE {2}]

CallOf(ids, any, break, limited) == [ids |-> ids, any |-> any, break |-> break, limited |-> limited]
WaitAll == CallOf({}, FALSE, FALSE, FALSE)
EveryKind == {WaitAll, CallOf({2}, FALSE, FALSE, FALSE),
              CallOf({}, TRUE, FALSE, FALSE), CallOf({}, FALSE, TRUE, TRUE)}
Plain == {WaitAll, CallOf({1}, FALSE, FALSE, FALSE)}
=============================================================================
