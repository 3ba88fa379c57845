------------------------- MODULE Submission_proofs -------------------------
(***************************************************************************)
(* Theorems about submission, for any number of tasks and of raw inputs,   *)
(* any sizes and batches, and whatever requests fail.                      *)
(***************************************************************************)
EXTENDS Submission, Induction, SequenceTheorems, TLAPS

USE DEF vars, control

Outputs == {"output"} \X Tasks
TaskItems == {"task"} \X Tasks
Items == Data \cup Outputs \cup TaskItems

LEMMA SetOfSeq ==
  ASSUME NEW X, NEW s \in Seq(X)
  PROVE  ToSet(s) = {s[i] : i \in 1..Len(s)}
  BY DEF ToSet

LEMMA SetOfAppend ==
  ASSUME NEW X, NEW s \in Seq(X), NEW x \in X
  PROVE  /\ Append(s, x) \in Seq(X) /\ Append(s, x) # <<>>
         /\ ToSet(Append(s, x)) = ToSet(s) \cup {x}
<1>1. /\ Append(s, x) \in Seq(X) /\ Len(Append(s, x)) = Len(s) + 1
      /\ \A i \in 1..Len(s) : Append(s, x)[i] = s[i]
      /\ Append(s, x)[Len(s) + 1] = x
  OBVIOUS
<1>2. Len(s) \in Nat OBVIOUS
<1>3. ToSet(s) = {s[i] : i \in 1..Len(s)} BY DEF ToSet
<1>4. ToSet(Append(s, x)) = {Append(s, x)[i] : i \in 1..(Len(s) + 1)} BY <1>1 DEF ToSet
<1>5. 1..(Len(s) + 1) = (1..Len(s)) \cup {Len(s) + 1} BY <1>2
<1>6. ToSet(Append(s, x)) = ToSet(s) \cup {x} BY <1>1, <1>3, <1>4, <1>5
<1> QED BY <1>1, <1>2, <1>6

LEMMA SetOfTail ==
  ASSUME NEW X, NEW s \in Seq(X), s # <<>>
  PROVE  /\ Head(s) \in X /\ Tail(s) \in Seq(X)
         /\ ToSet(s) = {Head(s)} \cup ToSet(Tail(s))
<1>1. /\ Len(s) \in Nat /\ Len(s) > 0
      /\ Head(s) = s[1] /\ Head(s) \in X
      /\ Tail(s) \in Seq(X) /\ Len(Tail(s)) = Len(s) - 1
      /\ \A i \in 1..(Len(s) - 1) : Tail(s)[i] = s[i + 1]
  OBVIOUS
<1>2. ToSet(s) = {s[i] : i \in 1..Len(s)} BY DEF ToSet
<1>3. ToSet(Tail(s)) = {s[i + 1] : i \in 1..(Len(s) - 1)}
  <2>1. ToSet(Tail(s)) = {Tail(s)[i] : i \in 1..Len(Tail(s))} BY <1>1, SetOfSeq
  <2> QED BY <1>1, <2>1
<1>4. ASSUME NEW i \in 1..Len(s) PROVE s[i] \in {Head(s)} \cup ToSet(Tail(s))
  <2>1. CASE i = 1 BY <1>1, <2>1
  <2>2. CASE i # 1
    <3>1. i - 1 \in 1..(Len(s) - 1) /\ (i - 1) + 1 = i BY <1>1, <2>2
    <3> QED BY <1>3, <3>1
  <2> QED BY <2>1, <2>2
<1>5. {Head(s)} \cup ToSet(Tail(s)) \subseteq ToSet(s) BY <1>1, <1>2, <1>3
<1>6. ToSet(s) \subseteq {Head(s)} \cup ToSet(Tail(s)) BY <1>2, <1>4
<1> QED BY <1>1, <1>5, <1>6

LEMMA SetOfEmpty == ToSet(<<>>) = {}
  BY DEF ToSet

LEMMA SetOfFunction ==
  ASSUME NEW X, NEW n \in Nat, NEW f \in [1..n -> X]
  PROVE  f \in Seq(X) /\ ToSet(f) = {f[i] : i \in 1..n}
<1>1. f \in Seq(X) BY IsASeq
<1> QED BY <1>1 DEF ToSet

LEMMA LoopsOfItems ==
  /\ Loop("inputs") \in Seq(Items) /\ ToSet(Loop("inputs")) = {"input"} \X Inputs
  /\ Loop("payloads") \in Seq(Items)
  /\ ToSet(Loop("payloads")) = Outputs \cup ({"payload"} \X Tasks)
  /\ Loop("submit") \in Seq(Items) /\ ToSet(Loop("submit")) = TaskItems
<1>1. N \in Nat /\ Inputs = 1..Len(InputOf) /\ Len(InputOf) \in Nat
  BY SizeAssumption DEF Inputs
<1>2. Loop("inputs") \in Seq(Items) /\ ToSet(Loop("inputs")) = {"input"} \X Inputs
  <2> DEFINE f == [j \in Inputs |-> <<"input", j>>]
  <2>1. f \in [1..Len(InputOf) -> Items] BY <1>1 DEF Items, Data
  <2>2. f \in Seq(Items) /\ ToSet(f) = {f[i] : i \in 1..Len(InputOf)}
    <3> HIDE DEF f
    <3>1. Len(InputOf) \in Nat BY <1>1
    <3> QED BY <2>1, <3>1, SetOfFunction
  <2>3. ToSet(f) = {"input"} \X Inputs BY <1>1, <2>2
  <2>4. Loop("inputs") = f BY DEF Loop
  <2> QED BY <2>2, <2>3, <2>4
<1>3. Loop("submit") \in Seq(Items) /\ ToSet(Loop("submit")) = TaskItems
  <2> DEFINE f == [i \in Tasks |-> <<"task", i>>]
  <2>1. f \in [1..N -> Items] BY <1>1 DEF Items, TaskItems, Tasks
  <2>2. f \in Seq(Items) /\ ToSet(f) = {f[i] : i \in 1..N}
    <3> HIDE DEF f
    <3>1. N \in Nat BY <1>1
    <3> QED BY <2>1, <3>1, SetOfFunction
  <2>3. ToSet(f) = TaskItems BY <1>1, <2>2 DEF TaskItems, Tasks
  <2>4. Loop("submit") = f BY DEF Loop
  <2> QED BY <2>2, <2>3, <2>4
<1>4. /\ Loop("payloads") \in Seq(Items)
      /\ ToSet(Loop("payloads")) = Outputs \cup ({"payload"} \X Tasks)
  <2> DEFINE f == [n \in 1..2 * N |-> IF n % 2 = 1 THEN <<"output", (n + 1) \div 2>>
                                                   ELSE <<"payload", n \div 2>>]
  <2>1. ASSUME NEW n \in 1..2 * N
        PROVE  /\ n % 2 = 1 => (n + 1) \div 2 \in Tasks
               /\ n % 2 # 1 => n \div 2 \in Tasks
    BY <1>1, <2>1 DEF Tasks
  <2>2. ASSUME NEW n \in 1..2 * N
        PROVE  f[n] \in Outputs \cup ({"payload"} \X Tasks)
    BY <2>1 DEF Outputs
  <2>3. f \in [1..2 * N -> Items] BY <2>2 DEF Items, Data
  <2>4. f \in Seq(Items) /\ ToSet(f) = {f[i] : i \in 1..2 * N}
    <3> HIDE DEF f
    <3>1. 2 * N \in Nat BY <1>1
    <3> QED BY <2>3, <3>1, SetOfFunction
  <2>5. ASSUME NEW i \in Tasks
        PROVE  <<"output", i>> \in ToSet(f) /\ <<"payload", i>> \in ToSet(f)
    <3>1. /\ 2 * i - 1 \in 1..2 * N /\ (2 * i - 1) % 2 = 1
          /\ ((2 * i - 1) + 1) \div 2 = i
          /\ 2 * i \in 1..2 * N /\ (2 * i) % 2 = 0 /\ (2 * i) \div 2 = i
      BY <1>1 DEF Tasks
    <3>2. f[2 * i - 1] = <<"output", i>> /\ f[2 * i] = <<"payload", i>> BY <3>1
    <3> HIDE DEF f
    <3> QED BY <2>4, <3>1, <3>2
  <2>6. ToSet(f) = Outputs \cup ({"payload"} \X Tasks)
    <3>1. ToSet(f) \subseteq Outputs \cup ({"payload"} \X Tasks) BY <2>2, <2>4
    <3>2. Outputs \cup ({"payload"} \X Tasks) \subseteq ToSet(f)
      <4> HIDE DEF f
      <4>1. ASSUME NEW r \in Outputs PROVE r \in ToSet(f)
        <5>1. PICK i \in Tasks : r = <<"output", i>> BY <4>1 DEF Outputs
        <5> QED BY <2>5, <5>1
      <4>2. ASSUME NEW r \in {"payload"} \X Tasks PROVE r \in ToSet(f)
        <5>1. PICK i \in Tasks : r = <<"payload", i>> BY <4>2
        <5> QED BY <2>5, <5>1
      <4> QED BY <4>1, <4>2
    <3> HIDE DEF f
    <3> QED BY <3>1, <3>2
  <2>7. Loop("payloads") = f BY DEF Loop
  <2> QED BY <2>4, <2>6, <2>7
<1> QED BY <1>2, <1>3, <1>4

(* Where items may be, at each stage.                                      *)
Ended == stage \in {"returned", "thrown"}

Shape ==
  /\ stage \in {"inputs", "payloads", "submit", "returned", "thrown"}
  /\ todo \in Seq(Items)
  /\ pending \in [BatcherKinds -> Seq(Items)]
  /\ submitted \in [Tasks -> Nat]
  /\ waiting \in BOOLEAN
  /\ waiting \/ Ended => todo = <<>> /\ \A k \in BatcherKinds : pending[k] = <<>>
  /\ Ended => requests = {} /\ ~waiting
  /\ \A q \in requests : q.kind \in RequestKinds /\ Results(q) \subseteq Items

(* Tasks are submitted by the last stage only, and it submits tasks only.  *)
Sorted ==
  /\ stage = "submit" => ToSet(todo) \subseteq TaskItems
  /\ stage # "submit" => ToSet(todo) \cap TaskItems = {}
  /\ ToSet(pending["submit"]) \subseteq TaskItems
  /\ pending["submit"] # <<>> => stage = "submit"
  /\ \A q \in requests :
       /\ q.kind = "submit" => Results(q) \subseteq TaskItems /\ stage = "submit"
       /\ q.kind = "upload" => Results(q) \subseteq Data

LEMMA RequestOf ==
  ASSUME NEW k, NEW b
  PROVE  /\ \A q \in Request(k, b) : q.kind = k /\ Results(q) = ToSet(b)
         /\ \A p, q \in Request(k, b) : p = q
         /\ b # <<>> => \E q \in Request(k, b) : q.kind = k /\ Results(q) = ToSet(b)
<1> DEFINE new == [kind |-> k, batch |-> b]
<1>1. new.kind = k /\ Results(new) = ToSet(b) BY DEF Results
<1> HIDE DEF new
<1>2. Request(k, b) = IF b = <<>> THEN {} ELSE {new} BY DEF Request, new
<1> QED BY <1>1, <1>2

LEMMA Routes ==
  ASSUME NEW r \in Items
  PROVE  /\ Route(r) \in BatcherKinds
         /\ Route(r) = "submit" <=> r \in TaskItems
  BY DEF Route, Items, Data, Outputs, TaskItems, BatcherKinds

LEMMA AddMoves ==
  ASSUME Shape, Add, NEW r, r = Head(todo), NEW k, k = Route(r)
  PROVE  /\ r \in Items /\ k \in BatcherKinds
         /\ todo' \in Seq(Items) /\ ToSet(todo) = {r} \cup ToSet(todo')
         /\ todo' = Tail(todo) /\ todo # <<>>
         /\ pending' \in [BatcherKinds -> Seq(Items)]
         /\ \A b \in BatcherKinds \ {k} : pending'[b] = pending[b]
         /\ ToSet(pending'[k]) \subseteq ToSet(pending[k]) \cup {r}
         /\ requests \subseteq requests'
         /\ \A q \in requests' \ requests :
              q.kind = k /\ Results(q) \subseteq ToSet(pending[k]) \cup {r}
         /\ \A x \in ToSet(pending[k]) \cup {r} :
              \/ x \in ToSet(pending'[k])
              \/ \E q \in requests' : q.kind = k /\ x \in Results(q)
         /\ k = "submit" =>
              \/ requests' = requests /\ ToSet(pending'[k]) = ToSet(pending[k]) \cup {r}
              \/ /\ pending'[k] = <<>>
                 /\ \E q : /\ q.kind = k /\ Results(q) = ToSet(pending[k]) \cup {r}
                           /\ requests' = requests \cup {q}
<1>1. /\ todo # <<>> /\ todo \in Seq(Items) /\ todo' = Tail(todo)
      /\ pending \in [BatcherKinds -> Seq(Items)]
  BY DEF Add, Shape
<1>2. r \in Items /\ todo' \in Seq(Items) /\ ToSet(todo) = {r} \cup ToSet(todo')
  BY <1>1, SetOfTail
<1>3. k \in BatcherKinds BY <1>2, Routes
<1> DEFINE early == k = "create" /\ Overflows(r) /\ pending[k] # <<>>
           kept  == IF early THEN <<>> ELSE pending[k]
           batch == Append(kept, r)
<1>4. /\ pending' = [pending EXCEPT ![k] = IF Full(batch) THEN <<>> ELSE batch]
      /\ requests' = requests \cup (IF early THEN Request(k, pending[k]) ELSE {})
                              \cup (IF Full(batch) THEN Request(k, batch) ELSE {})
  BY DEF Add
<1>5. kept \in Seq(Items) /\ ToSet(kept) = IF early THEN {} ELSE ToSet(pending[k])
  <2>1. pending[k] \in Seq(Items) /\ <<>> \in Seq(Items) BY <1>1, <1>3
  <2> HIDE DEF early
  <2> QED BY <2>1, SetOfEmpty
<1>6. /\ batch \in Seq(Items) /\ batch # <<>> /\ ToSet(batch) = ToSet(kept) \cup {r}
  <2> HIDE DEF kept
  <2> QED BY <1>2, <1>5, SetOfAppend
<1>7. k = "submit" => ~early OBVIOUS
<1> HIDE DEF early, kept, batch
<1>8. /\ pending' \in [BatcherKinds -> Seq(Items)]
      /\ \A b \in BatcherKinds \ {k} : pending'[b] = pending[b]
      /\ pending'[k] = IF Full(batch) THEN <<>> ELSE batch
  BY <1>1, <1>3, <1>4, <1>6
<1>9. ToSet(pending'[k]) \subseteq ToSet(pending[k]) \cup {r}
  BY <1>5, <1>6, <1>8, SetOfEmpty
<1>10. \A q \in requests' \ requests :
         q.kind = k /\ Results(q) \subseteq ToSet(pending[k]) \cup {r}
  BY <1>4, <1>5, <1>6, RequestOf
<1>11. ASSUME NEW x \in ToSet(pending[k]) \cup {r}
       PROVE  \/ x \in ToSet(pending'[k])
              \/ \E q \in requests' : q.kind = k /\ x \in Results(q)
  <2>1. CASE x \in ToSet(batch)
    <3>1. CASE Full(batch)
      <4>1. \E q \in Request(k, batch) : q.kind = k /\ Results(q) = ToSet(batch)
        BY <1>6, RequestOf
      <4> QED BY <1>4, <2>1, <3>1, <4>1
    <3>2. CASE ~Full(batch) BY <1>8, <2>1, <3>2
    <3> QED BY <3>1, <3>2
  <2>2. CASE x \notin ToSet(batch)
    <3>1. early /\ x \in ToSet(pending[k]) BY <1>5, <1>6, <2>2
    <3>2. pending[k] # <<>> BY <3>1 DEF early
    <3>3. \E q \in Request(k, pending[k]) : q.kind = k /\ Results(q) = ToSet(pending[k])
      <4> DEFINE old == pending[k]
      <4>1. old # <<>> BY <3>2
      <4> HIDE DEF old
      <4>2. \E q \in Request(k, old) : q.kind = k /\ Results(q) = ToSet(old)
        BY <4>1, RequestOf
      <4> QED BY <4>2 DEF old
    <3> QED BY <1>4, <3>1, <3>3
  <2> QED BY <2>1, <2>2
<1>12. ASSUME k = "submit"
       PROVE  \/ requests' = requests /\ ToSet(pending'[k]) = ToSet(pending[k]) \cup {r}
              \/ /\ pending'[k] = <<>>
                 /\ \E q : /\ q.kind = k /\ Results(q) = ToSet(pending[k]) \cup {r}
                           /\ requests' = requests \cup {q}
  <2>1. ToSet(batch) = ToSet(pending[k]) \cup {r} BY <1>5, <1>6, <1>7, <1>12
  <2>2. CASE Full(batch)
    <3> DEFINE q == [kind |-> k, batch |-> batch]
    <3>1. requests' = requests \cup {q} BY <1>4, <1>6, <1>7, <1>12, <2>2 DEF Request
    <3>2. q.kind = k /\ Results(q) = ToSet(batch) BY DEF Results
    <3> HIDE DEF q
    <3>3. pending'[k] = <<>> BY <1>8, <2>2
    <3> QED BY <2>1, <3>1, <3>2, <3>3
  <2>3. CASE ~Full(batch) BY <1>4, <1>7, <1>8, <1>12, <2>1, <2>3
  <2> QED BY <2>2, <2>3
<1> QED BY <1>1, <1>2, <1>3, <1>4, <1>8, <1>9, <1>10, <1>11, <1>12

LEMMA FlushMoves ==
  ASSUME Shape, Flush
  PROVE  /\ requests \subseteq requests'
         /\ \A q \in requests' \ requests :
              q.kind \in BatcherKinds /\ Results(q) = ToSet(pending[q.kind])
         /\ \A p, q \in requests' \ requests : p.kind = q.kind => p = q
         /\ \A k \in BatcherKinds : \A x \in ToSet(pending[k]) :
              \E q \in requests' : q.kind = k /\ x \in Results(q)
         /\ pending' = [k \in BatcherKinds |-> <<>>]
         /\ todo = <<>> /\ ~Ended /\ waiting' = TRUE
         /\ UNCHANGED <<size, stage, todo, exception, control, registered>>
<1>1. requests' = requests \cup UNION {Request(k, pending[k]) : k \in BatcherKinds}
  BY DEF Flush, FlushedKinds
<1>2. ASSUME NEW k \in BatcherKinds, NEW q \in Request(k, pending[k])
      PROVE  q.kind = k /\ Results(q) = ToSet(pending[k])
  BY <1>2, RequestOf
<1>3. ASSUME NEW p \in requests' \ requests, NEW q \in requests' \ requests,
             p.kind = q.kind
      PROVE  p = q
  <2>1. PICK k \in BatcherKinds : p \in Request(k, pending[k]) BY <1>1
  <2>2. PICK j \in BatcherKinds : q \in Request(j, pending[j]) BY <1>1
  <2>3. k = j BY <1>2, <1>3, <2>1, <2>2
  <2> QED BY <2>1, <2>2, <2>3, RequestOf
<1>4. ASSUME NEW k \in BatcherKinds, NEW x \in ToSet(pending[k])
      PROVE  \E q \in requests' : q.kind = k /\ x \in Results(q)
  <2> DEFINE old == pending[k]
  <2>1. old # <<>> BY <1>4, SetOfEmpty
  <2> HIDE DEF old
  <2>2. \E q \in Request(k, old) : q.kind = k /\ Results(q) = ToSet(old)
    BY <2>1, RequestOf
  <2>3. PICK q \in Request(k, pending[k]) : q.kind = k /\ Results(q) = ToSet(pending[k])
    BY <2>2 DEF old
  <2>4. q \in requests' BY <1>1, <2>3
  <2> QED BY <1>4, <2>3, <2>4
<1>5. /\ pending' = [k \in BatcherKinds |-> <<>>]
      /\ todo = <<>> /\ ~Ended /\ waiting' = TRUE
      /\ UNCHANGED <<size, stage, todo, exception, control, registered>>
  BY DEF Flush, Emptied, Ended
<1>6. \A q \in requests' \ requests :
        q.kind \in BatcherKinds /\ Results(q) = ToSet(pending[q.kind])
  BY <1>1, <1>2
<1> QED BY <1>1, <1>3, <1>4, <1>5, <1>6

(* A request ends; one for metadata starts the uploads of its data.        *)
LEMMA RunMoves ==
  ASSUME NEW q \in requests, Run(q)
  PROVE  /\ UNCHANGED <<size, stage, todo, waiting, pending, registered>>
         /\ \A p \in requests \ {q} : p \in requests'
         /\ \A p \in requests' \ requests :
              p.kind = "upload" /\ Results(p) \subseteq Results(q) \cap Data
         /\ CreateMetadata(q) =>
              \A r \in Results(q) \cap Data : \E p \in requests' : r \in Results(p)
         /\ ~CreateMetadata(q) => requests' = requests \ {q}
<1>1. CASE CreateMetadata(q)
  <2> DEFINE upload(r) == [kind |-> "upload", batch |-> <<r>>]
  <2>1. ASSUME NEW r PROVE upload(r).kind = "upload" /\ Results(upload(r)) = {r}
    <3>1. ToSet(<<r>>) = {r} BY DEF ToSet
    <3> QED BY <3>1 DEF Results
  <2>2. requests' = (requests \ {q}) \cup {upload(r) : r \in Results(q) \cap Data}
    BY <1>1 DEF CreateMetadata
  <2> HIDE DEF upload
  <2>3. ASSUME NEW r \in Results(q) \cap Data PROVE \E p \in requests' : r \in Results(p)
    BY <2>1, <2>2
  <2> QED BY <1>1, <2>1, <2>2, <2>3 DEF Run
<1>2. CASE ~CreateMetadata(q)
  BY <1>2 DEF Run, CreateData, UploadData, SubmitTasks, Fail
<1> QED BY <1>1, <1>2

ShapeInv == Shape /\ Sorted

LEMMA ShapeInit == Init => ShapeInv
<1> SUFFICES ASSUME Init PROVE ShapeInv
  OBVIOUS
<1>1. stage \in {"inputs", "payloads"} /\ todo = Loop(stage) BY DEF Init
<1>2. todo \in Seq(Items) /\ ToSet(todo) \cap TaskItems = {}
  BY <1>1, LoopsOfItems DEF TaskItems, Outputs
<1>3. ToSet(pending["submit"]) = {} /\ pending["submit"] = <<>>
  BY SetOfEmpty DEF Init, BatcherKinds
<1>4. pending \in [BatcherKinds -> Seq(Items)] BY DEF Init
<1>5. Shape BY <1>1, <1>2, <1>4 DEF Init, Shape, Ended
<1>6. Sorted BY <1>1, <1>2, <1>3 DEF Init, Sorted
<1> QED BY <1>5, <1>6 DEF ShapeInv

LEMMA ShapeNext == Shape /\ Sorted /\ [Next]_vars => Shape'
<1> SUFFICES ASSUME Shape, Sorted, [Next]_vars PROVE Shape'
  OBVIOUS
<1>1. CASE Add
  <2> DEFINE r == Head(todo)
             k == Route(r)
  <2>1. /\ r \in Items /\ k \in BatcherKinds
        /\ todo' \in Seq(Items) /\ todo # <<>>
        /\ pending' \in [BatcherKinds -> Seq(Items)]
        /\ \A q \in requests' \ requests :
             q.kind = k /\ Results(q) \subseteq ToSet(pending[k]) \cup {r}
    BY <1>1, AddMoves
  <2> HIDE DEF r, k
  <2>2. ToSet(pending[k]) \subseteq Items
    <3>1. pending[k] \in Seq(Items) BY <2>1 DEF Shape
    <3> QED BY <3>1, SetOfSeq
  <2>3. \A q \in requests' : q.kind \in RequestKinds /\ Results(q) \subseteq Items
    BY <2>1, <2>2 DEF Shape, BatcherKinds, RequestKinds
  <2>4. ~waiting /\ ~Ended /\ UNCHANGED <<stage, waiting, submitted>>
    BY <1>1, <2>1 DEF Add, Shape
  <2> QED BY <2>1, <2>3, <2>4 DEF Shape, Ended
<1>2. CASE Flush
  <2>1. /\ \A q \in requests' \ requests :
             q.kind \in BatcherKinds /\ Results(q) = ToSet(pending[q.kind])
        /\ pending' = [k \in BatcherKinds |-> <<>>]
        /\ todo = <<>> /\ ~Ended /\ waiting' = TRUE
        /\ UNCHANGED <<stage, todo, submitted>>
    BY <1>2, FlushMoves
  <2>2. \A k \in BatcherKinds : ToSet(pending[k]) \subseteq Items
    <3>1. \A k \in BatcherKinds : pending[k] \in Seq(Items) BY DEF Shape
    <3> QED BY <3>1, SetOfSeq
  <2>3. \A q \in requests' : q.kind \in RequestKinds /\ Results(q) \subseteq Items
    BY <2>1, <2>2 DEF Shape, BatcherKinds, RequestKinds
  <2> QED BY <2>1, <2>3 DEF Shape, Ended
<1>3. CASE NextStage
  <2>1. /\ stage' \in {"payloads", "submit"} /\ todo' = Loop(stage') /\ waiting' = FALSE
        /\ UNCHANGED <<pending, requests, submitted>>
    BY <1>3 DEF NextStage, Enter
  <2>2. todo' \in Seq(Items) BY <2>1, LoopsOfItems
  <2> QED BY <2>1, <2>2 DEF Shape, Ended
<1>4. CASE Register \/ Unwind
  BY <1>4 DEF Register, Unwind, Joined, Shape, Ended
<1>5. ASSUME NEW q \in requests, Run(q) PROVE Shape'
  <2>1. /\ UNCHANGED <<size, stage, todo, waiting, pending, registered>>
        /\ \A p \in requests' \ requests :
             p.kind = "upload" /\ Results(p) \subseteq Results(q) \cap Data
    BY <1>5, RunMoves
  <2>2. submitted' \in [Tasks -> Nat]
    BY <1>5 DEF Run, CreateMetadata, CreateData, UploadData, SubmitTasks, Fail, CountSubmitted,
                Shape
  <2>3. \A p \in requests' : p.kind \in RequestKinds /\ Results(p) \subseteq Items
    BY <2>1 DEF Shape, RequestKinds
  <2>4. ~Ended BY DEF Shape
  <2> QED BY <2>1, <2>2, <2>3, <2>4 DEF Shape, Ended
<1>6. CASE UNCHANGED vars BY <1>6 DEF Shape, Ended, Results
<1> QED BY <1>1, <1>2, <1>3, <1>4, <1>5, <1>6 DEF Next, Caller, Pool, Done

LEMMA SortedNext == Shape /\ Sorted /\ [Next]_vars => Sorted'
<1> SUFFICES ASSUME Shape, Sorted, [Next]_vars PROVE Sorted'
  OBVIOUS
<1>1. CASE Add
  <2> DEFINE r == Head(todo)
             k == Route(r)
  <2>1. /\ r \in Items /\ k \in BatcherKinds /\ ToSet(todo) = {r} \cup ToSet(todo')
        /\ \A b \in BatcherKinds \ {k} : pending'[b] = pending[b]
        /\ ToSet(pending'[k]) \subseteq ToSet(pending[k]) \cup {r}
        /\ \A q \in requests' \ requests :
             q.kind = k /\ Results(q) \subseteq ToSet(pending[k]) \cup {r}
    BY <1>1, AddMoves
  <2>2. k = "submit" <=> r \in TaskItems BY <2>1, Routes
  <2>3. stage' = stage BY <1>1 DEF Add
  <2> HIDE DEF r, k
  <2>4. k = "submit" => stage = "submit" BY <2>1, <2>2 DEF Sorted
  <2>5. k # "upload" /\ "submit" \in BatcherKinds BY <2>1 DEF BatcherKinds
  <2>6. /\ ToSet(pending'["submit"]) \subseteq TaskItems
        /\ pending'["submit"] # <<>> => stage = "submit"
    BY <2>1, <2>2, <2>4, <2>5 DEF Sorted
  <2>7. \A q \in requests' \ requests :
          q.kind = "submit" => Results(q) \subseteq TaskItems /\ stage = "submit"
    BY <2>1, <2>2, <2>4 DEF Sorted
  <2> QED BY <2>1, <2>3, <2>5, <2>6, <2>7 DEF Sorted
<1>2. CASE Flush
  <2>1. /\ \A q \in requests' \ requests :
             q.kind \in BatcherKinds /\ Results(q) = ToSet(pending[q.kind])
        /\ pending' = [k \in BatcherKinds |-> <<>>] /\ UNCHANGED <<stage, todo>>
    BY <1>2, FlushMoves
  <2>2. pending'["submit"] = <<>> BY <2>1 DEF BatcherKinds
  <2>3. ASSUME NEW q \in requests' \ requests, q.kind = "submit"
        PROVE  Results(q) \subseteq TaskItems /\ stage = "submit"
    <3>1. Results(q) = ToSet(pending["submit"]) BY <2>1, <2>3
    <3>2. pending["submit"] # <<>>
      <4>1. requests' = requests \cup UNION {Request(j, pending[j]) : j \in BatcherKinds}
        BY <1>2 DEF Flush, FlushedKinds
      <4>2. PICK j \in BatcherKinds : q \in Request(j, pending[j]) BY <4>1
      <4>3. j = "submit" BY <2>3, <4>2, RequestOf
      <4>4. pending[j] # <<>> BY <4>2 DEF Request
      <4> QED BY <4>3, <4>4
    <3> QED BY <3>1, <3>2 DEF Sorted
  <2>4. \A q \in requests' \ requests : q.kind # "upload" BY <2>1 DEF BatcherKinds
  <2> QED BY <2>1, <2>2, <2>3, <2>4, SetOfEmpty DEF Sorted
<1>3. CASE NextStage
  <2>1. /\ stage' \in {"payloads", "submit"} /\ todo' = Loop(stage')
        /\ UNCHANGED <<pending, requests>> /\ requests = {} /\ waiting
    BY <1>3 DEF NextStage, Enter, Joined
  <2>2. /\ stage' = "submit" => ToSet(todo') \subseteq TaskItems
        /\ stage' # "submit" => ToSet(todo') \cap TaskItems = {}
    BY <2>1, LoopsOfItems DEF TaskItems, Outputs
  <2>3. pending["submit"] = <<>> BY <2>1 DEF Shape, BatcherKinds
  <2> QED BY <2>1, <2>2, <2>3, SetOfEmpty DEF Sorted
<1>4. CASE Register \/ Unwind
  <2>1. waiting /\ requests = {} /\ UNCHANGED <<todo, pending, requests>>
    BY <1>4 DEF Register, Unwind, Joined
  <2>2. todo = <<>> /\ pending["submit"] = <<>> BY <2>1 DEF Shape, BatcherKinds
  <2> QED BY <2>1, <2>2, SetOfEmpty DEF Sorted
<1>5. ASSUME NEW q \in requests, Run(q) PROVE Sorted'
  <2>1. /\ UNCHANGED <<stage, todo, pending>>
        /\ \A p \in requests' \ requests :
             p.kind = "upload" /\ Results(p) \subseteq Results(q) \cap Data
    BY <1>5, RunMoves
  <2> QED BY <2>1 DEF Sorted
<1>6. CASE UNCHANGED vars BY <1>6 DEF Sorted, Results
<1> QED BY <1>1, <1>2, <1>3, <1>4, <1>5, <1>6 DEF Next, Caller, Pool, Done

LEMMA ShapeAlways == Spec => []ShapeInv
<1>1. ShapeInv /\ [Next]_vars => ShapeInv' BY ShapeNext, SortedNext DEF ShapeInv
<1> QED BY <1>1, ShapeInit, PTL DEF Spec

(* When a call returns or throws, none of its requests still runs: they    *)
(* refer to its local variables (SessionServiceImpl.cpp:155, 271, 280).    *)
THEOREM RequestsEndBeforeTheCall == Spec => []LocalsOutliveRequests
<1>1. ShapeInv => LocalsOutliveRequests
  BY DEF ShapeInv, Shape, Ended, LocalsOutliveRequests
<1> QED BY <1>1, ShapeAlways, PTL

-----------------------------------------------------------------------------
(* What is needed before the tasks are submitted is on its way, in the     *)
(* loop, a batcher or a request, until it has arrived.                     *)
Needed == Data \cup Outputs
InputItems == {"input"} \X Inputs

Arrived(r) == IF r \in Data THEN r \in stored ELSE r \in ids
Moving(r) ==
  \/ r \in ToSet(todo)
  \/ \E k \in BatcherKinds : r \in ToSet(pending[k])
  \/ \E q \in requests : r \in Results(q)
  \/ Arrived(r)

Ready ==
  /\ stage \in {"inputs", "payloads"} => \A i \in Tasks : submitted[i] = 0
  /\ stage = "inputs" => exception \/ \A r \in InputItems : Moving(r)
  /\ stage = "payloads" =>
       /\ \A r \in InputItems : Arrived(r)
       /\ exception \/ \A r \in Needed : Moving(r)
  /\ stage \in {"submit", "returned"} => \A r \in Needed : Arrived(r)
  /\ TasksAreReady

LEMMA ArrivedStays ==
  ASSUME [Next]_vars, NEW r, Arrived(r) PROVE Arrived(r)'
<1>1. ids \subseteq ids' /\ stored \subseteq stored'
  BY DEF Next, Caller, Pool, Done, Add, Flush, NextStage, Enter, Register, Unwind, Run,
         CreateMetadata, CreateData, UploadData, SubmitTasks, Fail
<1> QED BY <1>1 DEF Arrived

LEMMA MovingStays ==
  ASSUME Shape, Sorted, [Next]_vars, ~NextStage, NEW r \in Needed, Moving(r)
  PROVE  Moving(r)' \/ exception'
<1>1. CASE Arrived(r) BY <1>1, ArrivedStays DEF Moving
<1>2. ASSUME ~Arrived(r), Add PROVE Moving(r)'
  <2> DEFINE h == Head(todo)
             k == Route(h)
  <2>1. /\ k \in BatcherKinds /\ ToSet(todo) = {h} \cup ToSet(todo')
        /\ \A b \in BatcherKinds \ {k} : pending'[b] = pending[b]
        /\ requests \subseteq requests'
        /\ \A x \in ToSet(pending[k]) \cup {h} :
             \/ x \in ToSet(pending'[k])
             \/ \E q \in requests' : q.kind = k /\ x \in Results(q)
    BY <1>2, AddMoves
  <2> HIDE DEF h, k
  <2>2. CASE r \in ToSet(pending[k]) \cup {h} BY <2>1, <2>2 DEF Moving, Results
  <2>3. CASE r \in ToSet(todo') BY <2>3 DEF Moving
  <2>4. CASE \E b \in BatcherKinds \ {k} : r \in ToSet(pending[b])
    BY <2>1, <2>4 DEF Moving
  <2>5. CASE \E q \in requests : r \in Results(q) BY <2>1, <2>5 DEF Moving, Results
  <2> QED BY <1>2, <2>1, <2>2, <2>3, <2>4, <2>5 DEF Moving
<1>3. ASSUME ~Arrived(r), Flush PROVE Moving(r)'
  <2>1. /\ requests \subseteq requests' /\ todo = <<>>
        /\ \A k \in BatcherKinds : \A x \in ToSet(pending[k]) :
             \E q \in requests' : q.kind = k /\ x \in Results(q)
    BY <1>3, FlushMoves
  <2>2. r \notin ToSet(todo) BY <2>1, SetOfEmpty
  <2>3. \E q \in requests' : r \in Results(q) BY <1>3, <2>1, <2>2 DEF Moving
  <2> QED BY <2>3 DEF Moving, Results
<1>4. CASE Register \/ Unwind BY <1>4 DEF Register, Unwind, Moving, Arrived, Results
<1>5. ASSUME ~Arrived(r), NEW q \in requests, Run(q) PROVE Moving(r)' \/ exception'
  <2>1. /\ UNCHANGED <<todo, pending>>
        /\ \A p \in requests \ {q} : p \in requests'
        /\ CreateMetadata(q) =>
             \A x \in Results(q) \cap Data : \E p \in requests' : x \in Results(p)
    BY <1>5, RunMoves
  <2>2. CASE r \in Results(q)
    <3>1. CASE CreateMetadata(q)
      <4>1. CASE r \in Data BY <2>1, <2>2, <3>1, <4>1 DEF Moving, Results
      <4>2. CASE r \notin Data BY <2>2, <3>1, <4>2 DEF Moving, Arrived, CreateMetadata
      <4> QED BY <4>1, <4>2
    <3>2. CASE CreateData(q) BY <2>2, <3>2 DEF Moving, Arrived, CreateData
    <3>3. CASE UploadData(q)
      <4>1. r \in Data BY <2>2, <3>3 DEF Sorted, UploadData
      <4> QED BY <2>2, <3>3, <4>1 DEF Moving, Arrived, UploadData
    <3>4. CASE SubmitTasks(q)
      <4>1. r \in TaskItems BY <2>2, <3>4 DEF Sorted, SubmitTasks
      <4> QED BY <4>1 DEF Needed, Data, Outputs, TaskItems
    <3>5. CASE Fail(q) BY <3>5 DEF Fail
    <3> QED BY <1>5, <3>1, <3>2, <3>3, <3>4, <3>5 DEF Run
  <2>3. CASE r \notin Results(q)
    <3>1. CASE \E p \in requests : r \in Results(p)
      BY <2>1, <2>3, <3>1 DEF Moving, Results
    <3>2. CASE ~\E p \in requests : r \in Results(p)
      BY <1>5, <2>1, <3>2 DEF Moving
    <3> QED BY <3>1, <3>2
  <2> QED BY <2>2, <2>3
<1>6. CASE UNCHANGED vars BY <1>6 DEF Moving, Arrived, Results
<1> QED BY <1>1, <1>2, <1>3, <1>4, <1>5, <1>6 DEF Next, Caller, Pool, Done

(* When the caller is woken, what was on its way has arrived.              *)
LEMMA JoinedMeansArrived ==
  ASSUME Shape, waiting, requests = {}, NEW r, Moving(r) PROVE Arrived(r)
<1>1. todo = <<>> /\ \A k \in BatcherKinds : pending[k] = <<>> BY DEF Shape
<1> QED BY <1>1, SetOfEmpty DEF Moving

LEMMA ReadyInit == Init => Ready
<1> SUFFICES ASSUME Init PROVE Ready
  OBVIOUS
<1>1. stage = (IF Inputs = {} THEN "payloads" ELSE "inputs") /\ todo = Loop(stage)
  BY DEF Init
<1>2. \A i \in Tasks : submitted[i] = 0 BY DEF Init
<1>3. CASE stage = "inputs"
  <2>1. ToSet(todo) = InputItems BY <1>1, <1>3, LoopsOfItems DEF InputItems
  <2> QED BY <1>2, <1>3, <2>1 DEF Ready, Moving, TasksAreReady
<1>4. CASE stage = "payloads"
  <2>1. Inputs = {} BY <1>1, <1>4
  <2>2. ToSet(todo) = Outputs \cup ({"payload"} \X Tasks) BY <1>1, <1>4, LoopsOfItems
  <2>3. ToSet(todo) = Needed /\ InputItems = {} BY <2>1, <2>2 DEF Needed, Data, InputItems
  <2> QED BY <1>2, <1>4, <2>3 DEF Ready, Moving, TasksAreReady
<1> QED BY <1>1, <1>3, <1>4

LEMMA AllArrivedIsReady ==
  ASSUME \A r \in Needed : Arrived(r) PROVE TasksAreReady
<1>1. SUFFICES ASSUME NEW i \in Tasks
               PROVE  /\ <<"output", i>> \in ids /\ <<"payload", i>> \in stored
                      /\ \A j \in Inputs : <<"input", j>> \in stored
  BY DEF TasksAreReady
<1>2. <<"output", i>> \in Needed /\ <<"output", i>> \notin Data
  BY DEF Needed, Data, Outputs
<1>3. <<"payload", i>> \in Data BY DEF Data
<1>4. \A j \in Inputs : <<"input", j>> \in Data BY DEF Data
<1> QED BY <1>2, <1>3, <1>4 DEF Needed, Arrived

LEMMA AllArrivedIsReadyNext ==
  ASSUME \A r \in Needed : Arrived(r)' PROVE TasksAreReady'
<1>1. SUFFICES ASSUME NEW i \in Tasks
               PROVE  /\ <<"output", i>> \in ids' /\ <<"payload", i>> \in stored'
                      /\ \A j \in Inputs : <<"input", j>> \in stored'
  BY DEF TasksAreReady
<1>2. <<"output", i>> \in Needed /\ <<"output", i>> \notin Data
  BY DEF Needed, Data, Outputs
<1>3. <<"payload", i>> \in Data BY DEF Data
<1>4. \A j \in Inputs : <<"input", j>> \in Data BY DEF Data
<1> QED BY <1>2, <1>3, <1>4 DEF Needed, Arrived

LEMMA ReadyNext == Shape /\ Sorted /\ Ready /\ [Next]_vars => Ready'
<1> SUFFICES ASSUME Shape, Sorted, Ready, [Next]_vars PROVE Ready'
  OBVIOUS
<1>1. InputItems \subseteq Needed BY DEF InputItems, Needed, Data
<1>2. CASE NextStage
  <2>1. /\ waiting /\ requests = {} /\ ~exception /\ UNCHANGED <<submitted, ids, stored>>
        /\ todo' = Loop(stage')
        /\ \/ stage = "inputs" /\ stage' = "payloads"
           \/ stage = "payloads" /\ stage' = "submit"
    BY <1>2 DEF NextStage, Enter, Joined
  <2>2. \A r : Arrived(r)' <=> Arrived(r) BY <2>1 DEF Arrived
  <2>3. TasksAreReady' BY <2>1 DEF Ready, TasksAreReady
  <2>4. CASE stage = "inputs"
    <3>1. \A r \in InputItems : Arrived(r)
      BY <2>1, <2>4, JoinedMeansArrived DEF Ready
    <3>2. ToSet(todo') = Outputs \cup ({"payload"} \X Tasks) BY <2>1, <2>4, LoopsOfItems
    <3>3. Needed = InputItems \cup ToSet(todo') BY <3>2 DEF Needed, InputItems, Data
    <3>4. \A r \in Needed : Moving(r)' BY <2>2, <3>1, <3>3 DEF Moving
    <3> QED BY <2>1, <2>2, <2>3, <2>4, <3>1, <3>4 DEF Ready
  <2>5. CASE stage = "payloads"
    <3>1. \A r \in Needed : Arrived(r) BY <2>1, <2>5, JoinedMeansArrived DEF Ready
    <3> QED BY <2>1, <2>2, <2>3, <2>5, <3>1 DEF Ready
  <2> QED BY <2>1, <2>4, <2>5
<1>3. CASE ~NextStage
  <2>1. stage' = stage \/ (stage = "submit" /\ stage' = "returned") \/ stage' = "thrown"
    BY <1>3 DEF Next, Caller, Pool, Done, Add, Flush, Register, Unwind, Run
  <2>2. exception => exception'
    BY DEF Next, Caller, Pool, Done, Add, Flush, NextStage, Enter, Register, Unwind, Run,
           CreateMetadata, CreateData, UploadData, SubmitTasks, Fail
  <2>3. submitted' = submitted \/ stage = "submit"
    <3>1. ASSUME NEW q \in requests, Run(q), q.kind = "submit" PROVE stage = "submit"
      BY <3>1 DEF Sorted
    <3>2. ASSUME NEW q \in requests, Run(q), q.kind # "submit" PROVE submitted' = submitted
      BY <3>2 DEF Run, CreateMetadata, CreateData, UploadData, SubmitTasks, Fail
    <3>3. ASSUME ~\E q \in requests : Run(q) PROVE submitted' = submitted
      BY <3>3 DEF Next, Caller, Pool, Done, Add, Flush, NextStage, Enter, Register, Unwind
    <3> QED BY <3>1, <3>2, <3>3
  <2>4. \A r : Arrived(r) => Arrived(r)' BY ArrivedStays
  <2>5. \A r \in Needed : Moving(r) => Moving(r)' \/ exception' BY <1>3, MovingStays
  <2>6. TasksAreReady'
    <3>1. CASE submitted' = submitted
      <4>1. ids \subseteq ids' /\ stored \subseteq stored'
        BY DEF Next, Caller, Pool, Done, Add, Flush, NextStage, Enter, Register, Unwind, Run,
               CreateMetadata, CreateData, UploadData, SubmitTasks, Fail
      <4> QED BY <3>1, <4>1 DEF Ready, TasksAreReady
    <3>2. CASE stage = "submit" BY <2>4, <3>2, AllArrivedIsReadyNext DEF Ready
    <3> QED BY <2>3, <3>1, <3>2
  <2>7. CASE stage' = "inputs" /\ stage = "inputs"
    BY <1>1, <2>2, <2>3, <2>5, <2>6, <2>7 DEF Ready
  <2>8. CASE stage' = "payloads" /\ stage = "payloads"
    BY <2>2, <2>3, <2>4, <2>5, <2>6, <2>8 DEF Ready
  <2>9. CASE stage \in {"submit", "returned"} /\ stage' \in {"submit", "returned"}
    BY <2>4, <2>6, <2>9 DEF Ready
  <2>10. CASE stage' = "thrown" BY <2>6, <2>10 DEF Ready
  <2> QED BY <2>1, <2>7, <2>8, <2>9, <2>10 DEF Shape
<1> QED BY <1>2, <1>3

(* No task is submitted before its output exists and its payload and raw   *)
(* inputs have been uploaded, whatever fails: the call waits for the       *)
(* requests of a stage before the next (SessionServiceImpl.cpp:271, 420).  *)
THEOREM NothingIsSubmittedEarly == Spec => []TasksAreReady
<1>1. Init => ShapeInv /\ Ready BY ShapeInit, ReadyInit
<1>2. ShapeInv /\ Ready /\ [Next]_vars => (ShapeInv /\ Ready)'
  BY ShapeNext, SortedNext, ReadyNext DEF ShapeInv
<1>3. Ready => TasksAreReady BY DEF Ready
<1> QED BY <1>1, <1>2, <1>3, PTL DEF Spec

-----------------------------------------------------------------------------
(* A task is in one place: not yet in the batcher of submissions, in it,   *)
(* in one request, or submitted; it leaves them only when a request fails. *)
Item(i) == <<"task", i>>
Added == N - Len(todo)
Batched(i) == Item(i) \in ToSet(pending["submit"])
Sent(i) == \E q \in requests : q.kind = "submit" /\ Item(i) \in Results(q)

InOnePlace(i) ==
  /\ submitted[i] <= 1
  /\ i > Added => ~Batched(i) /\ ~Sent(i) /\ submitted[i] = 0
  /\ Batched(i) => ~Sent(i) /\ submitted[i] = 0
  /\ Sent(i) => submitted[i] = 0
  /\ \A p, q \in requests :
       /\ p.kind = "submit" /\ Item(i) \in Results(p)
       /\ q.kind = "submit" /\ Item(i) \in Results(q)
       => p = q
  /\ exception \/ i > Added \/ Batched(i) \/ Sent(i) \/ submitted[i] = 1

Counted ==
  /\ stage = "submit" =>
       /\ Len(todo) <= N
       /\ \A a \in 1..Len(todo) : todo[a] = Item(Added + a)
       /\ \A i \in Tasks : InOnePlace(i)
  /\ AllOrNone

LEMMA CountedInit == Init => Counted
  BY DEF Init, Counted, AllOrNone

LEMMA SubmitLoop ==
  /\ Len(Loop("submit")) = N
  /\ \A a \in 1..N : Loop("submit")[a] = Item(a)
<1>1. N \in Nat BY SizeAssumption
<1>2. Loop("submit") = [i \in 1..N |-> Item(i)] BY DEF Loop, Tasks, Item
<1> DEFINE f == [i \in 1..N |-> Item(i)]
<1>3. Len(f) = N BY <1>1
<1>4. \A a \in 1..N : f[a] = Item(a) OBVIOUS
<1> HIDE DEF f
<1> QED BY <1>2, <1>3, <1>4 DEF f

LEMMA ItemsDiffer == \A i, j : Item(i) = Item(j) => i = j
  BY DEF Item

(* Starting the last stage: every task is still to be added.               *)
LEMMA CountedEnter ==
  ASSUME Shape, Sorted, Ready, Counted, NextStage PROVE Counted'
<1>1. /\ waiting /\ requests = {} /\ ~exception
      /\ UNCHANGED <<submitted, requests, pending, exception, registered>>
      /\ stage' \in {"payloads", "submit"} /\ todo' = Loop(stage')
      /\ stage \in {"inputs", "payloads"}
  BY DEF NextStage, Enter, Joined
<1>2. AllOrNone' BY <1>1 DEF Counted, AllOrNone
<1>3. CASE stage' = "submit"
  <2>1. N \in Nat /\ Len(todo') = N BY <1>1, <1>3, SubmitLoop, SizeAssumption
  <2>2. Added' = 0 BY <2>1 DEF Added
  <2>3. \A a \in 1..N : todo'[a] = Item(a) BY <1>1, <1>3, SubmitLoop
  <2>4. \A i \in Tasks : i > 0 /\ i > Added' BY <2>1, <2>2 DEF Tasks
  <2>5. pending'["submit"] = <<>> BY <1>1 DEF Shape, BatcherKinds
  <2>6. \A i \in Tasks : ~Batched(i)' BY <2>5, SetOfEmpty DEF Batched
  <2>7. \A i \in Tasks : ~Sent(i)' BY <1>1 DEF Sent
  <2>8. \A i \in Tasks : submitted'[i] = 0 BY <1>1 DEF Ready
  <2>9. \A i \in Tasks : InOnePlace(i)'
    BY <1>1, <2>4, <2>6, <2>7, <2>8 DEF InOnePlace
  <2>10. /\ Len(todo') <= N
         /\ \A a \in 1..Len(todo') : todo'[a] = Item(Added' + a)
    BY <2>1, <2>2, <2>3
  <2> QED BY <1>2, <2>9, <2>10 DEF Counted
<1> QED BY <1>1, <1>2, <1>3 DEF Counted

(* A task is added: it goes into the batcher, or into a request with those *)
(* that were in it.                                                        *)
LEMMA CountedAdd ==
  ASSUME Shape, Sorted, Counted, Add, stage = "submit"
  PROVE  Counted'
<1> DEFINE r == Head(todo)
           k == Route(r)
<1>1. /\ r \in Items /\ todo # <<>> /\ todo \in Seq(Items) /\ todo' = Tail(todo)
      /\ ToSet(todo) = {r} \cup ToSet(todo')
      /\ k = "submit" =>
           \/ requests' = requests /\ ToSet(pending'[k]) = ToSet(pending[k]) \cup {r}
           \/ /\ pending'[k] = <<>>
              /\ \E q : /\ q.kind = k /\ Results(q) = ToSet(pending[k]) \cup {r}
                        /\ requests' = requests \cup {q}
  BY AddMoves DEF Shape
<1>2. k = "submit" BY <1>1, Routes DEF Sorted
<1>3. UNCHANGED <<stage, submitted, exception, registered>> BY DEF Add
<1>4. /\ N \in Nat /\ Len(todo) \in 1..N /\ Added \in Nat
      /\ Len(todo') = Len(todo) - 1 /\ Added' = Added + 1
      /\ \A a \in 1..(Len(todo) - 1) : todo'[a] = todo[a + 1]
      /\ r = todo[1]
  <2>1. /\ Len(todo) \in Nat /\ Len(todo) > 0 /\ Len(todo') = Len(todo) - 1
        /\ \A a \in 1..(Len(todo) - 1) : todo'[a] = todo[a + 1]
        /\ r = todo[1]
    BY <1>1
  <2>2. N \in Nat /\ Len(todo) <= N BY SizeAssumption DEF Counted
  <2> HIDE DEF r
  <2> QED BY <2>1, <2>2 DEF Added
<1>5. r = Item(Added + 1) /\ Added + 1 \in Tasks
  BY <1>4 DEF Counted, Tasks, Added
<1>6. /\ Len(todo') <= N
      /\ \A a \in 1..Len(todo') : todo'[a] = Item(Added' + a)
  <2>1. ASSUME NEW a \in 1..Len(todo') PROVE todo'[a] = Item(Added' + a)
    <3>1. a + 1 \in 1..Len(todo) /\ todo'[a] = todo[a + 1] BY <1>4
    <3>2. todo[a + 1] = Item(Added + (a + 1)) BY <3>1 DEF Counted
    <3>3. Added + (a + 1) = Added' + a BY <1>4
    <3> QED BY <3>1, <3>2, <3>3
  <2> QED BY <1>4, <2>1
<1> HIDE DEF r, k
<1>7. ASSUME NEW i \in Tasks PROVE InOnePlace(i)'
  <2> DEFINE mine == Item(i) = r
  <2>1. InOnePlace(i) BY DEF Counted
  <2>2. mine <=> i = Added + 1 BY <1>5, ItemsDiffer
  <2>3. i > Added' <=> i > Added /\ ~mine BY <1>4, <2>2 DEF Tasks
  <2>4. mine => i > Added BY <1>4, <2>2 DEF Tasks
  <2>5. CASE requests' = requests /\ ToSet(pending'[k]) = ToSet(pending[k]) \cup {r}
    <3>1. Batched(i)' <=> Batched(i) \/ mine BY <1>2, <2>5 DEF Batched
    <3>2. Sent(i)' <=> Sent(i) BY <2>5 DEF Sent, Results
    <3>3. \A q : Results(q)' = Results(q) BY DEF Results
    <3> HIDE DEF mine
    <3> QED BY <1>3, <2>1, <2>3, <2>4, <2>5, <3>1, <3>2, <3>3 DEF InOnePlace
  <2>6. CASE /\ pending'[k] = <<>>
             /\ \E q : /\ q.kind = k /\ Results(q) = ToSet(pending[k]) \cup {r}
                       /\ requests' = requests \cup {q}
    <3>1. PICK new : /\ new.kind = "submit" /\ Results(new) = ToSet(pending["submit"]) \cup {r}
                     /\ requests' = requests \cup {new}
      BY <1>2, <2>6
    <3>2. ~Batched(i)' BY <1>2, <2>6, SetOfEmpty DEF Batched
    <3>3. Item(i) \in Results(new) <=> Batched(i) \/ mine BY <3>1 DEF Batched
    <3>4. Sent(i)' <=> Sent(i) \/ Batched(i) \/ mine
      BY <3>1, <3>3 DEF Sent, Results
    <3>5. \A q : Results(q)' = Results(q) BY DEF Results
    <3>6. Item(i) \in Results(new) => ~Sent(i) /\ submitted[i] = 0
      BY <2>1, <2>4, <3>3 DEF InOnePlace
    <3>7. ASSUME NEW p \in requests', NEW q \in requests',
                 p.kind = "submit", Item(i) \in Results(p),
                 q.kind = "submit", Item(i) \in Results(q)
          PROVE  p = q
      <4>1. CASE Item(i) \in Results(new)
        BY <3>1, <3>6, <3>7, <4>1 DEF Sent
      <4>2. CASE Item(i) \notin Results(new)
        BY <2>1, <3>1, <3>7, <4>2 DEF InOnePlace
      <4> QED BY <4>1, <4>2
    <3> HIDE DEF mine
    <3>8. i > Added' => ~Sent(i)' /\ submitted'[i] = 0
      BY <1>3, <2>1, <2>3, <3>4 DEF InOnePlace
    <3>9. Sent(i)' => submitted'[i] = 0 BY <1>3, <2>1, <2>4, <3>4 DEF InOnePlace
    <3>10. exception' \/ i > Added' \/ Batched(i)' \/ Sent(i)' \/ submitted'[i] = 1
      BY <1>3, <2>1, <2>3, <3>4 DEF InOnePlace
    <3>11. submitted'[i] <= 1 BY <1>3, <2>1 DEF InOnePlace
    <3> QED BY <3>2, <3>5, <3>7, <3>8, <3>9, <3>10, <3>11 DEF InOnePlace
  <2> QED BY <1>1, <1>2, <2>5, <2>6
<1>8. AllOrNone' BY <1>3 DEF Counted, AllOrNone
<1> QED BY <1>6, <1>7, <1>8 DEF Counted

(* What is left in the batcher goes into one request.                      *)
LEMMA CountedFlush ==
  ASSUME Shape, Sorted, Counted, Flush, stage = "submit"
  PROVE  Counted'
<1>1. /\ requests \subseteq requests'
      /\ \A q \in requests' \ requests :
           q.kind \in BatcherKinds /\ Results(q) = ToSet(pending[q.kind])
      /\ \A p, q \in requests' \ requests : p.kind = q.kind => p = q
      /\ \A k \in BatcherKinds : \A x \in ToSet(pending[k]) :
           \E q \in requests' : q.kind = k /\ x \in Results(q)
      /\ pending' = [k \in BatcherKinds |-> <<>>]
      /\ todo = <<>> /\ UNCHANGED <<stage, todo, exception, submitted, registered>>
  BY FlushMoves
<1>2. AllOrNone' BY <1>1 DEF Counted, AllOrNone
<1>3. Added' = Added BY <1>1 DEF Added
<1>4. "submit" \in BatcherKinds /\ pending'["submit"] = <<>> BY <1>1 DEF BatcherKinds
<1>5. ASSUME NEW i \in Tasks PROVE InOnePlace(i)'
  <2>1. InOnePlace(i) BY DEF Counted
  <2>2. ~Batched(i)' BY <1>4, SetOfEmpty DEF Batched
  <2>3. \A q \in requests' \ requests :
          q.kind = "submit" => (Item(i) \in Results(q) <=> Batched(i))
    BY <1>1 DEF Batched
  <2>4. \A q : Results(q)' = Results(q) BY DEF Results
  <2>5. Sent(i)' <=> Sent(i) \/ Batched(i)
    <3>1. Sent(i) => Sent(i)' BY <1>1, <2>4 DEF Sent
    <3>2. Batched(i) => Sent(i)' BY <1>1, <1>4, <2>4 DEF Sent, Batched
    <3>3. Sent(i)' => Sent(i) \/ Batched(i) BY <2>3, <2>4 DEF Sent
    <3> QED BY <3>1, <3>2, <3>3
  <2>6. ASSUME NEW p \in requests', NEW q \in requests',
               p.kind = "submit", Item(i) \in Results(p),
               q.kind = "submit", Item(i) \in Results(q)
        PROVE  p = q
    <3>1. CASE Batched(i)
      <4>1. ~Sent(i) BY <2>1, <3>1 DEF InOnePlace
      <4>2. p \notin requests /\ q \notin requests BY <2>6, <4>1 DEF Sent
      <4> QED BY <1>1, <2>6, <4>2
    <3>2. CASE ~Batched(i)
      <4>1. p \in requests /\ q \in requests BY <2>3, <2>6, <3>2
      <4> QED BY <2>1, <2>6, <4>1 DEF InOnePlace
    <3> QED BY <3>1, <3>2
  <2>7. i > Added' => ~Sent(i)' /\ submitted'[i] = 0
    BY <1>1, <1>3, <2>1, <2>5 DEF InOnePlace
  <2>8. Sent(i)' => submitted'[i] = 0 BY <1>1, <2>1, <2>5 DEF InOnePlace
  <2>9. exception' \/ i > Added' \/ Batched(i)' \/ Sent(i)' \/ submitted'[i] = 1
    BY <1>1, <1>3, <2>1, <2>5 DEF InOnePlace
  <2>10. submitted'[i] <= 1 BY <1>1, <2>1 DEF InOnePlace
  <2> QED BY <2>2, <2>4, <2>6, <2>7, <2>8, <2>9, <2>10 DEF InOnePlace
<1>6. /\ Len(todo') <= N
      /\ \A a \in 1..Len(todo') : todo'[a] = Item(Added' + a)
  BY <1>1, <1>3 DEF Counted
<1> QED BY <1>2, <1>5, <1>6 DEF Counted

LEMMA CountedRun ==
  ASSUME Shape, Sorted, Counted, NEW q \in requests, Run(q)
  PROVE  Counted'
<1>1. /\ UNCHANGED <<stage, todo, pending, registered>>
      /\ \A p \in requests \ {q} : p \in requests'
      /\ \A p \in requests' \ requests : p.kind = "upload"
      /\ ~CreateMetadata(q) => requests' = requests \ {q}
  BY RunMoves
<1>2. \A p : Results(p)' = Results(p) BY DEF Results
<1>3. q.kind = "submit" => requests' = requests \ {q}
  BY <1>1 DEF CreateMetadata
<1>4. \/ submitted' = submitted
      \/ CountSubmitted(q) /\ q.kind = "submit"
  BY DEF Run, CreateMetadata, CreateData, UploadData, SubmitTasks, Fail
<1>5. exception' \/ (exception' = exception /\ (q.kind = "submit" => CountSubmitted(q)))
  BY DEF Run, CreateMetadata, CreateData, UploadData, SubmitTasks, Fail
<1>6. exception => exception'
  BY DEF Run, CreateMetadata, CreateData, UploadData, SubmitTasks, Fail
<1>7. Added' = Added BY <1>1 DEF Added
<1>8. submitted \in [Tasks -> Nat] BY DEF Shape
<1>9. ASSUME stage = "submit", NEW i \in Tasks PROVE InOnePlace(i)'
  <2>1. InOnePlace(i) BY <1>9 DEF Counted
  <2>2. Batched(i)' <=> Batched(i) BY <1>1 DEF Batched
  <2> DEFINE served == q.kind = "submit" /\ Item(i) \in Results(q)
  <2>3. served => Sent(i) BY DEF Sent
  <2>4. \A p \in requests' : p.kind = "submit" => p \in requests BY <1>1
  <2>5. Sent(i)' => Sent(i) BY <1>2, <2>4 DEF Sent
  <2>6. served => ~Sent(i)' BY <1>2, <1>3, <2>1, <2>4 DEF Sent, InOnePlace
  <2>7. ~served => (Sent(i) => Sent(i)') BY <1>1, <1>2 DEF Sent
  <2>8. CountSubmitted(q) =>
          submitted'[i] = IF i \in SubmittedBy(q) THEN submitted[i] + 1 ELSE submitted[i]
    BY DEF CountSubmitted
  <2>9. ASSUME q.kind = "submit" PROVE i \in SubmittedBy(q) <=> Item(i) \in Results(q)
    <3>1. Results(q) \subseteq TaskItems BY <2>9 DEF Sorted
    <3>2. \A x \in TaskItems : x = Item(x[2]) BY DEF TaskItems, Item
    <3>3. Item(i)[2] = i BY DEF Item
    <3> QED BY <3>1, <3>2, <3>3 DEF SubmittedBy
  <2>10. ~served => submitted'[i] = submitted[i]
    <3>1. CASE submitted' = submitted BY <3>1
    <3>2. CASE CountSubmitted(q) /\ q.kind = "submit" BY <2>8, <2>9, <3>2
    <3> QED BY <1>4, <3>1, <3>2
  <2>11. served => submitted[i] = 0 /\ ~Batched(i) /\ ~(i > Added)
    BY <2>1, <2>3 DEF InOnePlace
  <2>12. served => submitted'[i] \in {0, 1}
    <3>1. CASE submitted' = submitted BY <2>11, <3>1
    <3>2. CASE CountSubmitted(q) BY <2>8, <2>11, <3>2
    <3> QED BY <1>4, <3>1, <3>2
  <2>13. served => exception' \/ submitted'[i] = 1
    BY <1>5, <2>8, <2>9, <2>11
  <2>14. \A p, s \in requests' :
           /\ p.kind = "submit" /\ Item(i) \in Results(p)
           /\ s.kind = "submit" /\ Item(i) \in Results(s)
           => p = s
    BY <2>1, <2>4 DEF InOnePlace
  <2> HIDE DEF served
  <2>15. CASE served
    <3>1. submitted'[i] <= 1 BY <2>12, <2>15
    <3> QED BY <1>2, <1>7, <2>2, <2>6, <2>11, <2>13, <2>14, <2>15, <3>1 DEF InOnePlace
  <2>16. CASE ~served
    <3>1. Sent(i)' <=> Sent(i) BY <2>5, <2>7, <2>16
    <3>2. submitted'[i] = submitted[i] BY <2>10, <2>16
    <3> QED BY <1>2, <1>6, <1>7, <2>1, <2>2, <2>14, <3>1, <3>2 DEF InOnePlace
  <2> QED BY <2>15, <2>16
<1>10. AllOrNone'
  <2>1. stage # "returned" /\ stage # "thrown" BY DEF Shape, Ended
  <2>2. ASSUME NEW i \in Tasks PROVE submitted'[i] <= 1
    <3>1. CASE stage = "submit" BY <1>9, <3>1 DEF InOnePlace
    <3>2. CASE stage # "submit"
      <4>1. submitted' = submitted BY <1>4, <3>2 DEF Sorted
      <4> QED BY <4>1 DEF Counted, AllOrNone
    <3> QED BY <3>1, <3>2
  <2> QED BY <1>1, <2>1, <2>2 DEF Counted, AllOrNone
<1>11. stage = "submit" =>
         /\ Len(todo') <= N
         /\ \A a \in 1..Len(todo') : todo'[a] = Item(Added' + a)
  BY <1>1, <1>7 DEF Counted
<1> QED BY <1>1, <1>9, <1>10, <1>11 DEF Counted

LEMMA CountedNext == Shape /\ Sorted /\ Ready /\ Counted /\ [Next]_vars => Counted'
<1> SUFFICES ASSUME Shape, Sorted, Ready, Counted, [Next]_vars PROVE Counted'
  OBVIOUS
<1>1. CASE NextStage BY <1>1, CountedEnter
<1>2. CASE Add
  <2>1. CASE stage = "submit" BY <1>2, <2>1, CountedAdd
  <2>2. CASE stage # "submit" BY <1>2, <2>2 DEF Add, Counted, AllOrNone
  <2> QED BY <2>1, <2>2
<1>3. CASE Flush
  <2>1. CASE stage = "submit" BY <1>3, <2>1, CountedFlush
  <2>2. CASE stage # "submit" BY <1>3, <2>2 DEF Flush, Counted, AllOrNone
  <2> QED BY <2>1, <2>2
<1>4. CASE Register
  <2>1. /\ waiting /\ requests = {} /\ ~exception /\ stage = "submit"
        /\ stage' = "returned" /\ registered' = Tasks /\ submitted' = submitted
    BY <1>4 DEF Register, Joined
  <2>2. todo = <<>> /\ pending["submit"] = <<>> BY <2>1 DEF Shape, BatcherKinds
  <2>3. ASSUME NEW i \in Tasks PROVE submitted[i] = 1
    <3>1. ~Batched(i) BY <2>2, SetOfEmpty DEF Batched
    <3>2. ~Sent(i) BY <2>1 DEF Sent
    <3>3. ~(i > Added) BY <2>2, SizeAssumption DEF Added, Tasks
    <3> QED BY <2>1, <3>1, <3>2, <3>3 DEF Counted, InOnePlace
  <2> QED BY <2>1, <2>3 DEF Counted, AllOrNone
<1>5. CASE Unwind
  <2>1. ~Ended BY <1>5 DEF Unwind, Shape
  <2> QED BY <1>5, <2>1 DEF Unwind, Counted, AllOrNone, Ended
<1>6. ASSUME NEW q \in requests, Run(q) PROVE Counted' BY <1>6, CountedRun
<1>7. CASE UNCHANGED vars
  BY <1>7 DEF Counted, AllOrNone, InOnePlace, Batched, Sent, Results, Added
<1> QED BY <1>1, <1>2, <1>3, <1>4, <1>5, <1>6, <1>7 DEF Next, Caller, Pool, Done

(* No task is submitted twice; a call that returns has submitted and       *)
(* registered each of its tasks, one that throws has registered none       *)
(* (SessionServiceImpl.cpp:273-292).                                       *)
THEOREM TasksAreSubmittedOnce == Spec => []AllOrNone
<1> DEFINE Inv == ShapeInv /\ Ready /\ Counted
<1>1. Init => Inv BY ShapeInit, ReadyInit, CountedInit
<1>2. Inv /\ [Next]_vars => Inv'
  BY ShapeNext, SortedNext, ReadyNext, CountedNext DEF ShapeInv
<1>3. Inv => AllOrNone BY DEF Counted
<1> QED BY <1>1, <1>2, <1>3, PTL DEF Spec
-----------------------------------------------------------------------------
(* The sums of the first costs of a batch, up to n of them.                *)
IsSum(f, b, n) ==
  f = [m \in 0..n |-> IF m = 0 THEN 0 ELSE f[m - 1] + Cost(b[m])]

LEMMA SumRecurs ==
  ASSUME NEW b, NEW n \in Nat, NEW f, IsSum(f, b, n)
  PROVE  /\ f[0] = 0 /\ \A m \in 1..n : f[m] = f[m - 1] + Cost(b[m])
         /\ f = [m \in 0..n |-> f[m]]
<1> DEFINE Step(m) == IF m = 0 THEN 0 ELSE f[m - 1] + Cost(b[m])
<1>1. f = [m \in 0..n |-> Step(m)] BY DEF IsSum
<1>2. Step(0) = 0 /\ \A m \in 1..n : Step(m) = f[m - 1] + Cost(b[m]) OBVIOUS
<1>3. 0 \in 0..n /\ \A m \in 1..n : m \in 0..n OBVIOUS
<1> HIDE DEF Step
<1>4. \A m \in 0..n : f[m] = Step(m) BY <1>1
<1>5. f = [m \in 0..n |-> f[m]] BY <1>1, <1>4
<1> QED BY <1>2, <1>3, <1>4, <1>5

LEMMA SumIs ==
  ASSUME NEW b, NEW n \in Nat, NEW f, f = [m \in 0..n |-> f[m]],
         f[0] = 0, \A m \in 1..n : f[m] = f[m - 1] + Cost(b[m])
  PROVE  IsSum(f, b, n)
<1> DEFINE Step(m) == IF m = 0 THEN 0 ELSE f[m - 1] + Cost(b[m])
<1>1. Step(0) = 0 /\ \A m \in 1..n : Step(m) = f[m - 1] + Cost(b[m]) OBVIOUS
<1>2. \A m \in 0..n : m = 0 \/ m \in 1..n OBVIOUS
<1> HIDE DEF Step
<1>3. \A m \in 0..n : f[m] = Step(m) BY <1>1, <1>2
<1>4. f = [m \in 0..n |-> Step(m)] BY <1>3
<1> QED BY <1>4 DEF IsSum, Step

LEMMA OneSum ==
  ASSUME NEW b, NEW n \in Nat, NEW f, IsSum(f, b, n), NEW g, IsSum(g, b, n)
  PROVE  f = g
<1>1. /\ f[0] = 0 /\ \A m \in 1..n : f[m] = f[m - 1] + Cost(b[m])
      /\ f = [m \in 0..n |-> f[m]]
  BY SumRecurs
<1>2. /\ g[0] = 0 /\ \A m \in 1..n : g[m] = g[m - 1] + Cost(b[m])
      /\ g = [m \in 0..n |-> g[m]]
  BY SumRecurs
<1>3. \A m \in 1..n : f[m - 1] = g[m - 1] => f[m] = g[m] BY <1>1, <1>2
<1>4. f[0] = g[0] BY <1>1, <1>2
<1>5. Alike(f, g, n) BY <1>1, <1>2, <1>3, <1>4 DEF Alike
<1> QED BY <1>5, RecursionUnique

LEMMA BytesIsSum ==
  ASSUME NEW b, Len(b) \in Nat, NEW f, IsSum(f, b, Len(b))
  PROVE  Bytes(b) = f[Len(b)]
<1> DEFINE g == CHOOSE sum : IsSum(sum, b, Len(b))
<1>1. Bytes(b) = g[Len(b)] BY DEF Bytes, IsSum
<1>2. IsSum(g, b, Len(b)) OBVIOUS
<1> HIDE DEF g
<1> QED BY <1>1, <1>2, OneSum

LEMMA SumExists ==
  ASSUME NEW b, NEW n \in Nat, \A i \in 1..n : Cost(b[i]) \in Nat
  PROVE  \E f \in [0..n -> Nat] : IsSum(f, b, n)
<1> DEFINE Row(m) == [total \in Nat |-> total + Cost(b[m])]
           step == [m \in 1..n |-> Row(m)]
<1>1. step \in [1..n -> [Nat -> Nat]]
  <2>1. ASSUME NEW m \in 1..n PROVE Row(m) \in [Nat -> Nat]
    <3>1. Cost(b[m]) \in Nat OBVIOUS
    <3> QED BY <3>1
  <2> HIDE DEF Row
  <2> QED BY <2>1
<1>2. \A m \in 1..n, total \in Nat : step[m][total] = total + Cost(b[m]) OBVIOUS
<1> HIDE DEF step
<1>3. PICK f \in [0..n -> Nat] : Recurs(f, 0, step, n)
  BY <1>1, RecursionExists
<1>4. ASSUME NEW m \in 1..n PROVE f[m] = f[m - 1] + Cost(b[m])
  <2>1. m - 1 \in 0..n OBVIOUS
  <2>2. f[m - 1] \in Nat /\ f[m] = step[m][f[m - 1]] BY <1>3, <2>1 DEF Recurs
  <2> QED BY <1>2, <2>2
<1>5. f = [m \in 0..n |-> f[m]] OBVIOUS
<1>6. f[0] = 0 BY <1>3 DEF Recurs
<1> QED BY <1>3, <1>4, <1>5, <1>6, SumIs

(* What the bytes of a batch are: none, and those of one more element.     *)
LEMMA BytesOfEmpty == Bytes(<<>>) = 0
<1> DEFINE f == [m \in 0..0 |-> 0]
<1>1. IsSum(f, <<>>, 0) /\ f[0] = 0 BY DEF IsSum
<1> HIDE DEF f
<1>2. Len(<<>>) = 0 OBVIOUS
<1> QED BY <1>1, <1>2, BytesIsSum

LEMMA BytesType ==
  ASSUME NEW X, NEW b \in Seq(X), \A i \in 1..Len(b) : Cost(b[i]) \in Nat
  PROVE  Bytes(b) \in Nat
<1>1. Len(b) \in Nat OBVIOUS
<1>2. PICK f \in [0..Len(b) -> Nat] : IsSum(f, b, Len(b)) BY <1>1, SumExists
<1>3. Bytes(b) = f[Len(b)] BY <1>1, <1>2, BytesIsSum
<1> QED BY <1>1, <1>2, <1>3

LEMMA BytesOfAppend ==
  ASSUME NEW X, NEW b \in Seq(X), NEW r \in X,
         \A i \in 1..Len(b) : Cost(b[i]) \in Nat, Cost(r) \in Nat
  PROVE  Bytes(Append(b, r)) = Bytes(b) + Cost(r)
<1> DEFINE c == Append(b, r)
           n == Len(b)
<1>1. n \in Nat /\ Len(c) = n + 1 /\ c[n + 1] = r /\ \A i \in 1..n : c[i] = b[i]
  OBVIOUS
<1>2. Len(b) = n OBVIOUS
<1> HIDE DEF c, n
<1>3. \A i \in 1..(n + 1) : Cost(c[i]) \in Nat
  <2>1. \A i \in 1..(n + 1) : i \in 1..n \/ i = n + 1 BY <1>1
  <2> QED BY <1>1, <1>2, <2>1
<1>4. PICK g : IsSum(g, c, n + 1)
  <2>1. n + 1 \in Nat BY <1>1
  <2> QED BY <1>3, <2>1, SumExists
<1>5. g[0] = 0 /\ \A m \in 1..(n + 1) : g[m] = g[m - 1] + Cost(c[m])
  <2>1. PICK k \in Nat : k = n + 1 BY <1>1
  <2>2. IsSum(g, c, k) BY <1>4, <2>1
  <2>3. /\ g[0] = 0 /\ \A m \in 1..k : g[m] = g[m - 1] + Cost(c[m])
        /\ g = [m \in 0..k |-> g[m]]
    BY <2>2, SumRecurs
  <2> QED BY <2>1, <2>3
<1> DEFINE f == [m \in 0..n |-> g[m]]
<1>6. f[0] = 0 BY <1>1, <1>5
<1>7. ASSUME NEW m \in 1..n PROVE f[m] = f[m - 1] + Cost(b[m])
  <2>1. m \in 0..n /\ m - 1 \in 0..n /\ m \in 1..(n + 1) BY <1>1
  <2>2. g[m] = g[m - 1] + Cost(c[m]) /\ c[m] = b[m] BY <1>1, <1>5, <2>1
  <2>3. f[m] = g[m] /\ f[m - 1] = g[m - 1] BY <2>1
  <2> QED BY <2>2, <2>3
<1>8. f[n] = g[n] BY <1>1
<1>9. f = [m \in 0..n |-> f[m]] OBVIOUS
<1> HIDE DEF f
<1>10. IsSum(f, b, n) BY <1>1, <1>6, <1>7, <1>9, SumIs
<1>11. Bytes(b) = g[n] BY <1>1, <1>2, <1>8, <1>10, BytesIsSum
<1>12. Bytes(c) = g[n + 1] BY <1>1, <1>4, BytesIsSum
<1>13. g[n + 1] = g[n] + Cost(r)
  <2>1. n + 1 \in 1..(n + 1) /\ (n + 1) - 1 = n BY <1>1
  <2> QED BY <1>1, <1>5, <2>1
<1> QED BY <1>11, <1>12, <1>13 DEF c

(* What is pending for creation fits a message, and so does what is sent.  *)
Fit ==
  /\ size \in [Data -> Sizes]
  /\ \A k \in BatcherKinds : pending[k] = <<>> \/ Len(pending[k]) < submit_batch_size
  /\ \A r \in ToSet(pending["create"]) : Route(r) = "create"
  /\ data_batched = Bytes(pending["create"])
  /\ pending["create"] = <<>> \/ data_batched < data_chunk_max_size
  /\ RequestsFit

LEMMA BytesStay ==
  ASSUME size' = size, NEW b PROVE Bytes(b)' = Bytes(b)
  BY DEF Bytes, Cost

LEMMA SmallData ==
  ASSUME size \in [Data -> Sizes], NEW r \in Items, Route(r) = "create"
  PROVE  r \in Data /\ Cost(r) \in Nat /\ Cost(r) < data_chunk_max_size
<1>1. r \in Data /\ ~Large(r)
  BY DEF Route, Items, Data, Outputs, TaskItems
<1>2. size[r] \in Nat BY <1>1, SizeAssumption
<1>3. Cost(r) \in Nat BY <1>2, OptionAssumption DEF Cost
<1> QED BY <1>1, <1>3, OptionAssumption DEF Large

LEMMA FitInit == Init => Fit
<1> SUFFICES ASSUME Init PROVE Fit
  OBVIOUS
<1>1. /\ size \in [Data -> Sizes] /\ data_batched = 0 /\ requests = {}
      /\ \A k \in BatcherKinds : pending[k] = <<>>
      /\ pending["create"] = <<>>
  BY DEF Init, BatcherKinds
<1> QED BY <1>1, BytesOfEmpty, SetOfEmpty DEF Fit, RequestsFit

(* The small data that is pending has costs that can be summed.            *)
LEMMA PendingCosts ==
  ASSUME Shape, Fit
  PROVE  /\ pending["create"] \in Seq(Items)
         /\ \A i \in 1..Len(pending["create"]) : Cost(pending["create"][i]) \in Nat
         /\ data_batched \in Nat
<1> DEFINE b == pending["create"]
<1>1. b \in Seq(Items) BY DEF Shape, BatcherKinds
<1>2. ASSUME NEW i \in 1..Len(b) PROVE Cost(b[i]) \in Nat
  <2> HIDE DEF b
  <2>1. b[i] \in Items /\ b[i] \in ToSet(b) BY <1>1, <1>2, SetOfSeq
  <2>2. Route(b[i]) = "create" BY <2>1 DEF Fit, b
  <2> QED BY <2>1, <2>2, SmallData DEF Fit
<1>3. data_batched = Bytes(b) BY DEF Fit
<1> HIDE DEF b
<1>4. Bytes(b) \in Nat BY <1>1, <1>2, BytesType
<1> QED BY <1>1, <1>2, <1>3, <1>4 DEF b

(* The batch that Add makes, before it is sent if it is full.              *)
LEMMA BatchFits ==
  ASSUME Shape, Fit, NEW r \in Items, NEW k \in BatcherKinds, k = Route(r),
         NEW early \in BOOLEAN, early = (k = "create" /\ Overflows(r) /\ pending[k] # <<>>),
         NEW batch, batch = Append(IF early THEN <<>> ELSE pending[k], r)
  PROVE  /\ batch \in Seq(Items) /\ batch # <<>>
         /\ Len(batch) \in Nat /\ (Len(batch) = 1 \/ Len(batch) <= submit_batch_size)
         /\ k = "create" =>
              /\ Bytes(batch) = (IF early THEN 0 ELSE data_batched) + Cost(r)
              /\ Bytes(batch) \in Nat /\ Bytes(batch) < data_chunk_max_size
<1> DEFINE kept == IF early THEN <<>> ELSE pending[k]
<1>1. pending[k] \in Seq(Items) /\ kept \in Seq(Items) /\ batch = Append(kept, r)
  BY DEF Shape
<1>2. kept = <<>> \/ Len(kept) < submit_batch_size BY DEF Fit
<1>3. ASSUME k = "create"
      PROVE  /\ \A i \in 1..Len(kept) : Cost(kept[i]) \in Nat
             /\ Bytes(kept) = IF early THEN 0 ELSE data_batched
             /\ (IF early THEN 0 ELSE data_batched) + Cost(r) < data_chunk_max_size
             /\ Cost(r) \in Nat /\ Bytes(kept) \in Nat
  <2>1. Cost(r) \in Nat /\ Cost(r) < data_chunk_max_size BY <1>3, SmallData DEF Fit
  <2>2. /\ \A i \in 1..Len(pending[k]) : Cost(pending[k][i]) \in Nat
        /\ data_batched \in Nat /\ data_batched = Bytes(pending[k])
    BY <1>3, PendingCosts DEF Fit
  <2>3. CASE early BY <2>1, <2>2, <2>3, BytesOfEmpty
  <2>4. CASE ~early
    <3>1. CASE pending[k] = <<>> BY <2>1, <2>2, <2>4, <3>1, BytesOfEmpty
    <3>2. CASE pending[k] # <<>>
      <4>1. ~Overflows(r) BY <1>3, <2>4, <3>2
      <4> QED BY <2>1, <2>2, <2>4, <4>1, OptionAssumption DEF Overflows
    <3> QED BY <3>1, <3>2
  <2> QED BY <2>3, <2>4
<1> HIDE DEF kept
<1>4. Len(batch) = Len(kept) + 1 /\ Len(kept) \in Nat /\ batch \in Seq(Items) /\ batch # <<>>
  BY <1>1
<1>5. Len(batch) = 1 \/ Len(batch) <= submit_batch_size
  <2>1. kept = <<>> => Len(kept) = 0 OBVIOUS
  <2> QED BY <1>2, <1>4, <2>1, OptionAssumption
<1>6. k = "create" => Bytes(batch) = Bytes(kept) + Cost(r) BY <1>1, <1>3, BytesOfAppend
<1> QED BY <1>3, <1>4, <1>5, <1>6

LEMMA FitAdd == ASSUME Shape, Fit, Add PROVE Fit'
<1>0. PICK r \in Items, k \in BatcherKinds, early \in BOOLEAN :
        /\ r = Head(todo) /\ k = Route(r)
        /\ early = (k = "create" /\ Overflows(r) /\ pending[k] # <<>>)
  BY AddMoves
<1>1. PICK batch : batch = Append(IF early THEN <<>> ELSE pending[k], r)
  OBVIOUS
<1>2. /\ pending' = [pending EXCEPT ![k] = IF Full(batch) THEN <<>> ELSE batch]
      /\ requests' = requests \cup (IF early THEN Request(k, pending[k]) ELSE {})
                              \cup (IF Full(batch) THEN Request(k, batch) ELSE {})
      /\ data_batched' = IF k = "create"
                         THEN BytesLeft((IF early THEN 0 ELSE data_batched) + Cost(r), Full(batch))
                         ELSE data_batched
      /\ size' = size
  BY <1>0, <1>1 DEF Add
<1>3. /\ batch \in Seq(Items) /\ batch # <<>>
      /\ Len(batch) \in Nat /\ (Len(batch) = 1 \/ Len(batch) <= submit_batch_size)
      /\ k = "create" =>
           /\ Bytes(batch) = (IF early THEN 0 ELSE data_batched) + Cost(r)
           /\ Bytes(batch) \in Nat /\ Bytes(batch) < data_chunk_max_size
  BY <1>0, <1>1, BatchFits
<1>4. /\ pending \in [BatcherKinds -> Seq(Items)]
      /\ \A b \in BatcherKinds : pending'[b] =
           IF b = k THEN (IF Full(batch) THEN <<>> ELSE batch) ELSE pending[b]
  BY <1>2 DEF Shape
<1>5. \A b : Bytes(b)' = Bytes(b) BY <1>2, BytesStay
<1>6. \A x : Route(x)' = Route(x) BY <1>2 DEF Route, Large, Cost
<1>7. "create" \in BatcherKinds BY DEF BatcherKinds
<1>8. \A b \in BatcherKinds : pending'[b] = <<>> \/ Len(pending'[b]) < submit_batch_size
  BY <1>3, <1>4, OptionAssumption DEF Fit, Full
<1>9. \A x \in ToSet(pending'["create"]) : Route(x)' = "create"
  <2>1. CASE k = "create"
    <3>1. ToSet(pending'[k]) \subseteq ToSet(pending[k]) \cup {r} BY <1>0, <1>1, AddMoves
    <3> QED BY <1>0, <1>1, <1>6, <2>1, <3>1 DEF Fit
  <2>2. CASE k # "create" BY <1>4, <1>6, <1>7, <2>2 DEF Fit
  <2> QED BY <2>1, <2>2
<1>10. /\ data_batched' = Bytes(pending'["create"])
       /\ pending'["create"] = <<>> \/ data_batched' < data_chunk_max_size
  <2>1. CASE k = "create"
    BY <1>2, <1>3, <1>4, <1>7, <2>1, BytesOfEmpty DEF BytesLeft
  <2>2. CASE k # "create" BY <1>2, <1>4, <1>7, <2>2 DEF Fit
  <2> QED BY <2>1, <2>2
<1>11. ASSUME NEW q \in requests'
       PROVE  /\ q.kind = "create" => Bytes(q.batch) < data_chunk_max_size
              /\ Len(q.batch) <= submit_batch_size \/ Len(q.batch) = 1
  <2>1. CASE q \in requests BY <2>1 DEF Fit, RequestsFit
  <2>2. CASE early /\ q \in Request(k, pending[k])
    <3>1. pending[k] \in Seq(Items) /\ pending[k] # <<>> /\ k = "create" BY <1>0, <1>1, <1>4, <2>2
    <3>2. q = [kind |-> k, batch |-> pending[k]] BY <2>2, <3>1 DEF Request
    <3>3. q.batch = pending[k] BY <3>2
    <3>4. Bytes(pending[k]) < data_chunk_max_size BY <3>1 DEF Fit
    <3>5. Len(pending[k]) \in Nat /\ Len(pending[k]) < submit_batch_size BY <1>7, <3>1 DEF Fit
    <3> QED BY <3>3, <3>4, <3>5, OptionAssumption
  <2>3. CASE Full(batch) /\ q \in Request(k, batch)
    <3>1. q = [kind |-> k, batch |-> batch] BY <1>3, <2>3 DEF Request
    <3>2. q.kind = k /\ q.batch = batch BY <3>1
    <3> QED BY <1>3, <3>2
  <2> QED BY <1>2, <2>1, <2>2, <2>3
<1>12. RequestsFit' BY <1>5, <1>11 DEF RequestsFit
<1>13. size' \in [Data -> Sizes] BY <1>2 DEF Fit
<1> QED BY <1>5, <1>8, <1>9, <1>10, <1>12, <1>13 DEF Fit

LEMMA FitNext == Shape /\ Fit /\ [Next]_vars => Fit'
<1> SUFFICES ASSUME Shape, Fit, [Next]_vars PROVE Fit'
  OBVIOUS
<1>1. CASE Add BY <1>1, FitAdd
<1>2. CASE Flush
  <2>1. /\ requests' = requests \cup UNION {Request(k, pending[k]) : k \in BatcherKinds}
        /\ pending' = [k \in BatcherKinds |-> <<>>] /\ data_batched' = 0 /\ size' = size
    BY <1>2 DEF Flush, FlushedKinds, Emptied
  <2>2. \A b : Bytes(b)' = Bytes(b) BY <2>1, BytesStay
  <2>3. pending'["create"] = <<>> BY <2>1 DEF BatcherKinds
  <2>4. ASSUME NEW q \in requests'
        PROVE  /\ q.kind = "create" => Bytes(q.batch) < data_chunk_max_size
               /\ Len(q.batch) <= submit_batch_size \/ Len(q.batch) = 1
    <3>1. CASE q \in requests BY <3>1 DEF Fit, RequestsFit
    <3>2. CASE q \notin requests
      <4>1. PICK k \in BatcherKinds : q \in Request(k, pending[k]) BY <2>1, <3>2
      <4>2. q = [kind |-> k, batch |-> pending[k]] /\ pending[k] # <<>>
        BY <4>1 DEF Request
      <4>3. q.kind = k /\ q.batch = pending[k] /\ pending[k] \in Seq(Items)
        BY <4>2 DEF Shape
      <4>4. Len(pending[k]) \in Nat /\ Len(pending[k]) < submit_batch_size
        BY <4>2, <4>3 DEF Fit
      <4>5. k = "create" => Bytes(pending[k]) < data_chunk_max_size BY <4>2 DEF Fit
      <4> QED BY <4>3, <4>4, <4>5, OptionAssumption
    <3> QED BY <3>1, <3>2
  <2>5. RequestsFit' BY <2>2, <2>4 DEF RequestsFit
  <2>6. /\ \A k \in BatcherKinds : pending'[k] = <<>>
        /\ ToSet(pending'["create"]) = {} /\ Bytes(<<>>)' = 0
    BY <2>1, <2>2, <2>3, SetOfEmpty, BytesOfEmpty
  <2> QED BY <2>1, <2>3, <2>5, <2>6 DEF Fit
<1>3. CASE UNCHANGED <<size, pending, data_batched, requests>>
  <2>1. /\ \A b : Bytes(b)' = Bytes(b)
        /\ \A x : Route(x)' = Route(x)
    BY <1>3, BytesStay DEF Route, Large, Cost
  <2>2. RequestsFit' BY <1>3, <2>1 DEF Fit, RequestsFit
  <2>3. Bytes(pending["create"])' = Bytes(pending["create"])
    BY <1>3 DEF Bytes, Cost
  <2> QED BY <1>3, <2>1, <2>2, <2>3 DEF Fit
<1>4. ASSUME NEW q \in requests, Run(q) PROVE Fit'
  <2>1. UNCHANGED <<size, pending, data_batched>> BY <1>4 DEF Run
  <2>2. /\ \A b : Bytes(b)' = Bytes(b)
        /\ \A x : Route(x)' = Route(x)
    BY <2>1, BytesStay DEF Route, Large, Cost
  <2>3. \A p \in requests' :
          p \in requests \/ (p.kind = "upload" /\ Len(p.batch) = 1)
    BY <1>4 DEF Run, CreateMetadata, CreateData, UploadData, SubmitTasks, Fail
  <2>4. RequestsFit' BY <2>2, <2>3 DEF Fit, RequestsFit
  <2>5. Bytes(pending["create"])' = Bytes(pending["create"])
    BY <2>1 DEF Bytes, Cost
  <2> QED BY <2>1, <2>2, <2>4, <2>5 DEF Fit
<1> QED
  BY <1>1, <1>2, <1>3, <1>4 DEF Next, Caller, Pool, Done, NextStage, Enter, Register, Unwind

LEMMA FitAlways == Spec => []Fit
<1>1. Init => ShapeInv /\ Fit BY ShapeInit, FitInit
<1>2. ShapeInv /\ Fit /\ [Next]_vars => (ShapeInv /\ Fit)'
  BY ShapeNext, SortedNext, FitNext DEF ShapeInv
<1> QED BY <1>1, <1>2, PTL DEF Spec

(* No request that creates results with data is as large as the largest    *)
(* message, whatever the sizes and their order, and no batch has more      *)
(* elements than the batch size (SessionServiceImpl.cpp:258-264).          *)
THEOREM RequestsFitMessages == Spec => []RequestsFit
<1>1. Fit => RequestsFit BY DEF Fit
<1> QED BY <1>1, FitAlways, PTL

-----------------------------------------------------------------------------
(* No request is empty, and data is uploaded to ids that are known.        *)
Known ==
  /\ \A q \in requests : q.batch # <<>>
  /\ \A q \in requests : q.kind = "upload" => Results(q) \subseteq ids
  /\ exception \/ stored \subseteq ids
  /\ exception \in BOOLEAN /\ registered \subseteq Tasks

LEMMA RequestsNotEmpty == \A k, b : \A q \in Request(k, b) : q.batch # <<>> /\ q.kind = k
<1> TAKE k, b
<1>1. CASE b = <<>> BY <1>1 DEF Request
<1>2. CASE b # <<>>
  <2> DEFINE new == [kind |-> k, batch |-> b]
  <2>1. new.batch = b /\ new.kind = k OBVIOUS
  <2>2. Request(k, b) = {new} BY <1>2 DEF Request
  <2> HIDE DEF new
  <2> QED BY <1>2, <2>1, <2>2
<1> QED BY <1>1, <1>2

LEMMA KnownNext == Shape /\ Known /\ [Next]_vars => Known'
<1> SUFFICES ASSUME Shape, Known, [Next]_vars PROVE Known'
  OBVIOUS
<1>0. \A q : Results(q)' = Results(q) BY DEF Results
<1>1. CASE Add
  <2>1. \A q \in requests' \ requests : q.batch # <<>> /\ q.kind \in BatcherKinds
    <3>1. PICK k \in BatcherKinds : k = Route(Head(todo)) BY <1>1, AddMoves
    <3>2. \E b : requests' \subseteq requests \cup Request(k, pending[k]) \cup Request(k, b)
      BY <1>1, <3>1 DEF Add
    <3> QED BY <3>2, RequestsNotEmpty
  <2>2. UNCHANGED <<exception, ids, stored, registered>> BY <1>1 DEF Add
  <2> QED BY <1>0, <2>1, <2>2 DEF Known, BatcherKinds
<1>2. CASE Flush
  <2>1. \A q \in requests' \ requests : q.batch # <<>> /\ q.kind \in BatcherKinds
    <3>1. requests' = requests \cup UNION {Request(k, pending[k]) : k \in BatcherKinds}
      BY <1>2 DEF Flush, FlushedKinds
    <3> QED BY <3>1, RequestsNotEmpty
  <2>2. UNCHANGED <<exception, ids, stored, registered>> BY <1>2 DEF Flush
  <2> QED BY <1>0, <2>1, <2>2 DEF Known, BatcherKinds
<1>3. CASE Register BY <1>0, <1>3 DEF Register, Known
<1>4. CASE UNCHANGED <<requests, exception, ids, stored, registered>>
  BY <1>0, <1>4 DEF Known
<1>5. ASSUME NEW q \in requests, Run(q) PROVE Known'
  <2>1. registered' = registered BY <1>5 DEF Run
  <2>2. CASE CreateMetadata(q)
    <3>1. /\ ids' = ids \cup Results(q) /\ UNCHANGED <<stored, exception>>
          /\ \A p \in requests' :
               \/ p \in requests
               \/ /\ p.kind = "upload" /\ p.batch # <<>>
                  /\ Results(p) \subseteq Results(q)
      <4> DEFINE upload(r) == [kind |-> "upload", batch |-> <<r>>]
      <4>1. ASSUME NEW r
            PROVE upload(r).kind = "upload" /\ upload(r).batch # <<>> /\ Results(upload(r)) = {r}
        <5>1. ToSet(<<r>>) = {r} BY DEF ToSet
        <5> QED BY <5>1 DEF Results
      <4>2. /\ requests' = (requests \ {q}) \cup {upload(r) : r \in Results(q) \cap Data}
            /\ ids' = ids \cup Results(q) /\ UNCHANGED <<stored, exception>>
        BY <2>2 DEF CreateMetadata
      <4> HIDE DEF upload
      <4> QED BY <4>1, <4>2
    <3> QED BY <1>0, <2>1, <3>1 DEF Known
  <2>3. CASE ~CreateMetadata(q)
    <3>1. requests' \subseteq requests BY <1>5, <2>3, RunMoves
    <3>2. ids \subseteq ids' /\ exception' \in BOOLEAN
      BY <1>5 DEF Run, CreateMetadata, CreateData, UploadData, SubmitTasks, Fail, Known
    <3>3. exception' \/ stored' \subseteq ids'
      BY <1>5, <2>3 DEF Run, CreateData, UploadData, SubmitTasks, Fail, Known
    <3> QED BY <1>0, <2>1, <3>1, <3>2, <3>3 DEF Known
  <2> QED BY <2>2, <2>3
<1> QED
  BY <1>1, <1>2, <1>3, <1>4, <1>5 DEF Next, Caller, Pool, Done, NextStage, Enter, Unwind

(* The variables are of their types; the bytes counted are those pending,  *)
(* and what is stored has an id, unless a request failed: its answer may   *)
(* have been lost (SessionServiceImpl.cpp:195-216, 258-261, 355-380).      *)
THEOREM SubmissionTypeOK == Spec => []TypeOK
<1> DEFINE Inv == ShapeInv /\ Fit /\ Known
<1>1. Init => Inv
  <2>1. Init => Known BY DEF Init, Known
  <2> QED BY <2>1, ShapeInit, FitInit
<1>2. Inv /\ [Next]_vars => Inv'
  BY ShapeNext, SortedNext, FitNext, KnownNext DEF ShapeInv
<1>3. Inv => TypeOK
  <2> SUFFICES ASSUME Shape, Fit, Known PROVE TypeOK
    BY DEF ShapeInv
  <2>1. data_batched \in Nat BY PendingCosts
  <2> QED BY <2>1 DEF TypeOK, Shape, Fit, Known
<1> QED BY <1>1, <1>2, <1>3, PTL DEF Spec
=============================================================================
