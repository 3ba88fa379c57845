----------------------------- MODULE MCDispatch -----------------------------
EXTENDS Dispatch
CONSTANTS c1, c2, p1, p2, q1

SomeConfigs == {c1, c2}
SomePlanes == {p1, p2}
SomeComputePlanes == {q1}
SomeTexts == {Junk, 0, 3}

(* A library that is found by its path, one that is uploaded, one whose    *)
(* symbol was forgotten.                                                   *)
Some == {[path |-> "path", symbol |-> "f"], [path |-> None, symbol |-> "f"],
         [path |-> "path", symbol |-> None]}
(* No method, the symbol of the libraries, and another method.             *)
SomeMethods == {None, "f", "g"}
Inputs == LET Raw(d) == <<"data", d>> IN
  {[x |-> Raw("a"), y |-> Raw("b")], [x |-> Raw("bin")], [x |-> <<"existing">>, y |-> Raw("a")]}
FewPayloads == {[method |-> m, arguments |-> a] :
   m \in {<<2>>, <<1, 0>>}, a \in {<<>>, <<0, 1, 2>>, <<2, 2, 0, 1, 0>>}}
=============================================================================
