-------------------------- MODULE Dispatch_proofs --------------------------
(***************************************************************************)
(* Theorems about the configuration objects, for any number of them, any   *)
(* addresses and any texts; and about the way of a request to user code,   *)
(* for any definitions, payloads, libraries, base and width of the digits. *)
(***************************************************************************)
EXTENDS Dispatch, Induction, FiniteSetTheorems, SequenceTheorems, TLAPS

Contents == [Keys -> Texts \cup {None}]

TypeOK ==
  /\ impl \in [Objects -> Cells \cup {Null}]
  /\ memory \in [Cells -> Contents \cup {None}]
  /\ DOMAIN sizes = Planes

USE DEF configVars

LEMMA EmptyIsContents == Empty \in Contents
  BY DEF Empty, Contents

LEMMA ContentsAreNotNone == None \notin Contents
  BY ObjectAssumption DEF Contents

(* A cell that an object owns is allocated, and no other object owns it.   *)
LEMMA Owned ==
  ASSUME TypeOK, OwnedOnce, NEW o \in Objects, impl[o] # Null
  PROVE  /\ impl[o] \in Cells /\ memory[impl[o]] \in Contents
         /\ \A s \in Objects \ {o} : impl[s] # impl[o]
<1>1. impl[o] \in Cells BY DEF TypeOK
<1>2. ~IsFree(impl[o]) BY <1>1 DEF OwnedOnce
<1>3. memory[impl[o]] \in Contents BY <1>1, <1>2 DEF TypeOK, IsFree
<1> QED BY <1>1, <1>3 DEF OwnedOnce

(* The operations on impl and memory that all the actions are made of.     *)
LEMMA CopyKeepsOwnership ==
  ASSUME TypeOK, OwnedOnce, NEW o \in Objects, NEW s \in Objects, impl[s] # Null,
         CopyImpl(o, s)
  PROVE  /\ impl' \in [Objects -> Cells \cup {Null}]
         /\ memory' \in [Cells -> Contents \cup {None}]
         /\ OwnedOnce'
         /\ \A r \in Objects \ {o} : Value(r)' = Value(r)
<1>0. PICK cell \in Cells :
        /\ IsFree(cell)
        /\ memory' = Freed([memory EXCEPT ![cell] = memory[impl[s]]], o)
        /\ impl' = [impl EXCEPT ![o] = cell]
  BY DEF CopyImpl
<1>1. memory[impl[s]] \in Contents /\ memory[impl[s]] # None
  BY Owned, ContentsAreNotNone
<1>2. cell # Null /\ \A r \in Objects : impl[r] # cell
  BY <1>0, ObjectAssumption DEF OwnedOnce
<1>3. \A n \in Cells : memory'[n] = IF n = impl[o] THEN None
                                    ELSE IF n = cell THEN memory[impl[s]] ELSE memory[n]
  BY <1>0 DEF Freed, TypeOK
<1>4. impl' \in [Objects -> Cells \cup {Null}] /\ memory' \in [Cells -> Contents \cup {None}]
  <2>1. DOMAIN memory' = Cells /\ memory' = [n \in Cells |-> memory'[n]] BY <1>0 DEF Freed
  <2> QED BY <1>0, <1>1, <1>3, <2>1 DEF TypeOK
<1>5. impl'[o] = cell /\ \A r \in Objects \ {o} : impl'[r] = impl[r]
  BY <1>0 DEF TypeOK
<1>6. OwnedOnce'
  <2> SUFFICES ASSUME NEW n \in Cells
               PROVE  /\ (\E r \in Objects : impl'[r] = n) <=> memory'[n] # None
                      /\ \A r, t \in Objects : impl'[r] = n /\ impl'[t] = n => r = t
    BY DEF OwnedOnce, IsFree
  <2>0. /\ (\E r \in Objects : impl[r] = n) <=> memory[n] # None
        /\ \A r, t \in Objects : impl[r] = n /\ impl[t] = n => r = t
    BY DEF OwnedOnce, IsFree
  <2>1. CASE n = cell BY <1>1, <1>2, <1>3, <1>5, <2>1
  <2>2. CASE n = impl[o] BY <1>2, <1>3, <1>5, <2>0, <2>2
  <2>3. CASE n # cell /\ n # impl[o] BY <1>2, <1>3, <1>5, <2>0, <2>3
  <2> QED BY <2>1, <2>2, <2>3
<1>7. ASSUME NEW r \in Objects \ {o}
      PROVE  Value(r)' = Value(r)
  <2>1. CASE impl[r] = Null BY <1>5, <2>1 DEF Value
  <2>2. CASE impl[r] # Null
    <3>1. impl[r] \in Cells /\ impl[r] # impl[o] /\ impl[r] # cell BY <1>2, <2>2, Owned
    <3>2. memory'[impl[r]] = memory[impl[r]] BY <1>3, <3>1
    <3> QED BY <1>5, <2>2, <3>2 DEF Value
  <2> QED BY <2>1, <2>2
<1> QED BY <1>4, <1>6, <1>7

LEMMA MoveKeepsOwnership ==
  ASSUME TypeOK, OwnedOnce, NEW o \in Objects, NEW s \in Objects, o # s,
         MoveImpl(o, s)
  PROVE  /\ impl' \in [Objects -> Cells \cup {Null}]
         /\ memory' \in [Cells -> Contents \cup {None}]
         /\ OwnedOnce'
         /\ impl'[o] = impl[s] /\ impl'[s] = Null
         /\ \A r \in Objects \ {o, s} : Value(r)' = Value(r)
<1>1. /\ impl'[o] = impl[s] /\ impl'[s] = Null
      /\ \A r \in Objects \ {o, s} : impl'[r] = impl[r]
      /\ impl' \in [Objects -> Cells \cup {Null}]
  BY DEF MoveImpl, TypeOK
<1>2. \A n \in Cells : memory'[n] = IF n = impl[o] THEN None ELSE memory[n]
  BY DEF MoveImpl, Freed
<1>3. memory' \in [Cells -> Contents \cup {None}]
  <2>1. memory' = [n \in Cells |-> memory'[n]] BY DEF MoveImpl, Freed
  <2> QED BY <1>2, <2>1 DEF TypeOK
<1>4. OwnedOnce'
  <2> SUFFICES ASSUME NEW n \in Cells
               PROVE  /\ (\E r \in Objects : impl'[r] = n) <=> memory'[n] # None
                      /\ \A r, t \in Objects : impl'[r] = n /\ impl'[t] = n => r = t
    BY DEF OwnedOnce, IsFree
  <2>0. /\ (\E r \in Objects : impl[r] = n) <=> memory[n] # None
        /\ \A r, t \in Objects : impl[r] = n /\ impl[t] = n => r = t
        /\ n # Null
    BY ObjectAssumption DEF OwnedOnce, IsFree
  <2>1. CASE n = impl[o] BY <1>1, <1>2, <2>0, <2>1
  <2>2. CASE n = impl[s] /\ n # impl[o] BY <1>1, <1>2, <2>0, <2>2
  <2>3. CASE n # impl[s] /\ n # impl[o] BY <1>1, <1>2, <2>0, <2>3
  <2> QED BY <2>1, <2>2, <2>3
<1>5. ASSUME NEW r \in Objects \ {o, s}
      PROVE  Value(r)' = Value(r)
  <2>1. CASE impl[r] = Null BY <1>1, <2>1 DEF Value
  <2>2. CASE impl[r] # Null
    <3>1. impl[r] \in Cells /\ impl[r] # impl[o] BY <2>2, Owned
    <3>2. memory'[impl[r]] = memory[impl[r]] BY <1>2, <3>1
    <3> QED BY <1>1, <2>2, <3>2 DEF Value
  <2> QED BY <2>1, <2>2
<1> QED BY <1>1, <1>3, <1>4, <1>5

(* A value is written through the impl of o, which it may just have got.   *)
LEMMA WriteKeepsOwnership ==
  ASSUME TypeOK, OwnedOnce, NEW o \in Objects, NEW cell \in Cells, NEW c \in Contents,
         impl' = [impl EXCEPT ![o] = cell],
         memory' = [memory EXCEPT ![cell] = c],
         impl[o] = cell \/ (impl[o] = Null /\ IsFree(cell))
  PROVE  /\ impl' \in [Objects -> Cells \cup {Null}]
         /\ memory' \in [Cells -> Contents \cup {None}]
         /\ OwnedOnce'
         /\ \A r \in Objects \ {o} : Value(r)' = Value(r)
<1>1. /\ impl'[o] = cell /\ \A r \in Objects \ {o} : impl'[r] = impl[r]
      /\ impl' \in [Objects -> Cells \cup {Null}]
  BY DEF TypeOK
<1>2. /\ memory' \in [Cells -> Contents \cup {None}]
      /\ \A n \in Cells : memory'[n] = IF n = cell THEN c ELSE memory[n]
  BY DEF TypeOK
<1>3. \A r \in Objects \ {o} : impl[r] # cell
  BY DEF OwnedOnce, IsFree
<1>4. OwnedOnce'
  <2> SUFFICES ASSUME NEW n \in Cells
               PROVE  /\ (\E r \in Objects : impl'[r] = n) <=> memory'[n] # None
                      /\ \A r, t \in Objects : impl'[r] = n /\ impl'[t] = n => r = t
    BY DEF OwnedOnce, IsFree
  <2>0. /\ (\E r \in Objects : impl[r] = n) <=> memory[n] # None
        /\ \A r, t \in Objects : impl[r] = n /\ impl[t] = n => r = t
        /\ n # Null
    BY ObjectAssumption DEF OwnedOnce, IsFree
  <2>1. CASE n = cell BY <1>1, <1>2, <1>3, <2>1, ContentsAreNotNone
  <2>2. CASE n # cell BY <1>1, <1>2, <2>0, <2>2
  <2> QED BY <2>1, <2>2
<1>5. ASSUME NEW r \in Objects \ {o}
      PROVE  Value(r)' = Value(r)
  <2>1. CASE impl[r] = Null BY <1>1, <2>1 DEF Value
  <2>2. CASE impl[r] # Null
    <3>1. impl[r] \in Cells /\ impl[r] # cell BY <1>3, <2>2, Owned
    <3>2. memory'[impl[r]] = memory[impl[r]] BY <1>2, <3>1
    <3> QED BY <1>1, <2>2, <3>2 DEF Value
  <2> QED BY <2>1, <2>2
<1> QED BY <1>1, <1>2, <1>4, <1>5

-----------------------------------------------------------------------------
LEMMA SetStep ==
  ASSUME TypeOK, OwnedOnce, NEW c \in Configs, Set(c)
  PROVE  TypeOK' /\ OwnedOnce' /\ \A r \in Objects \ {c} : Value(r)' = Value(r)
<1>0. c \in Objects /\ DOMAIN sizes' = Planes BY DEF Set, Objects, TypeOK
<1>1. PICK k \in SetKeys, v \in Texts :
        \/ /\ impl[c] # Null
           /\ memory' = [memory EXCEPT ![impl[c]] = [@ EXCEPT ![k] = v]]
           /\ UNCHANGED impl
        \/ /\ impl[c] = Null
           /\ \E cell \in {n \in Cells : IsFree(n)} :
                /\ memory' = [memory EXCEPT ![cell] = [Empty EXCEPT ![k] = v]]
                /\ impl' = [impl EXCEPT ![c] = cell]
  BY DEF Set
<1>2. CASE impl[c] # Null
  <2>1. impl[c] \in Cells /\ memory[impl[c]] \in Contents BY <1>0, <1>2, Owned
  <2>2. [memory[impl[c]] EXCEPT ![k] = v] \in Contents BY <2>1 DEF Contents
  <2>3. /\ impl' = [impl EXCEPT ![c] = impl[c]]
        /\ memory' = [memory EXCEPT ![impl[c]] = [memory[impl[c]] EXCEPT ![k] = v]]
    BY <1>1, <1>2 DEF TypeOK
  <2> QED BY <1>0, <2>1, <2>2, <2>3, WriteKeepsOwnership DEF TypeOK
<1>3. CASE impl[c] = Null
  <2>1. PICK cell \in Cells : /\ IsFree(cell)
                              /\ memory' = [memory EXCEPT ![cell] = [Empty EXCEPT ![k] = v]]
                              /\ impl' = [impl EXCEPT ![c] = cell]
    BY <1>1, <1>3
  <2>2. [Empty EXCEPT ![k] = v] \in Contents BY EmptyIsContents DEF Contents
  <2> QED BY <1>0, <1>3, <2>1, <2>2, WriteKeepsOwnership DEF TypeOK
<1> QED BY <1>2, <1>3

LEMMA SetAddressStep ==
  ASSUME TypeOK, OwnedOnce, NEW p \in ComputePlanes, SetAddress(p)
  PROVE  TypeOK' /\ OwnedOnce' /\ \A r \in Objects \ {p} : Value(r)' = Value(r)
<1>0. p \in Objects /\ DOMAIN sizes' = Planes BY DEF SetAddress, Objects, Planes, TypeOK
<1>1. PICK k \in SetKeys, v \in Texts :
        memory' = [memory EXCEPT ![impl[p]] = [@ EXCEPT ![k] = v]]
  BY DEF SetAddress
<1>2. impl[p] \in Cells /\ memory[impl[p]] \in Contents BY <1>0, Owned DEF SetAddress
<1>3. [memory[impl[p]] EXCEPT ![k] = v] \in Contents BY <1>2 DEF Contents
<1>4. /\ impl' = [impl EXCEPT ![p] = impl[p]]
      /\ memory' = [memory EXCEPT ![impl[p]] = [memory[impl[p]] EXCEPT ![k] = v]]
  BY <1>1 DEF SetAddress, TypeOK
<1> QED BY <1>0, <1>2, <1>3, <1>4, WriteKeepsOwnership DEF TypeOK

(* Every step of the program keeps what is owned, and changes one object.  *)
LEMMA NextKeepsOwnership ==
  ASSUME TypeOK, OwnedOnce, ConfigNext
  PROVE  TypeOK' /\ OwnedOnce' /\ OneObjectChanges
<1>1. ASSUME NEW c \in Configs, Set(c)
      PROVE  TypeOK' /\ OwnedOnce' /\ OneObjectChanges
  BY <1>1, SetStep DEF OneObjectChanges, Objects
<1>2. ASSUME NEW p \in ComputePlanes, SetAddress(p)
      PROVE  TypeOK' /\ OwnedOnce' /\ OneObjectChanges
  BY <1>2, SetAddressStep DEF OneObjectChanges, Objects, Planes
<1>3. ASSUME NEW o \in Objects, NEW s \in Objects, impl[s] # Null,
             CopyImpl(o, s), DOMAIN sizes' = Planes
      PROVE  TypeOK' /\ OwnedOnce' /\ OneObjectChanges
  BY <1>3, CopyKeepsOwnership DEF OneObjectChanges, TypeOK
<1>4. ASSUME NEW o \in Objects, NEW s \in Objects, o # s,
             MoveImpl(o, s), DOMAIN sizes' = Planes
      PROVE  TypeOK' /\ OwnedOnce' /\ OneObjectChanges
  <2>1. TypeOK' /\ OwnedOnce' BY <1>4, MoveKeepsOwnership DEF TypeOK
  <2>2. \A r \in Objects \ {o} :
          Value(r)' = Value(r) \/ (impl'[r] = Null /\ impl'[o] = impl[r])
    BY <1>4, MoveKeepsOwnership
  <2> QED BY <2>1, <2>2 DEF OneObjectChanges
<1>5. ASSUME NEW s \in Objects, UseOfNothing(s)
      PROVE  TypeOK' /\ OwnedOnce' /\ OneObjectChanges
  BY <1>5 DEF UseOfNothing, OneObjectChanges, TypeOK, OwnedOnce, IsFree, Value
<1>6. DOMAIN sizes = Planes /\ Configs \subseteq Objects /\ Planes \subseteq Objects
      /\ ControlPlanes \subseteq Planes /\ ComputePlanes \subseteq Planes
  BY DEF TypeOK, Objects, Planes
<1>7. ASSUME NEW c \in Configs, NEW d \in Configs, CopyConfig(c, d) \/ MoveConfig(c, d)
      PROVE  TypeOK' /\ OwnedOnce' /\ OneObjectChanges
  BY <1>3, <1>4, <1>6, <1>7 DEF CopyConfig, MoveConfig
<1>8. ASSUME NEW p \in Planes, NEW c \in Configs, GetControlPlane(p, c) \/ GetComputePlane(p, c)
      PROVE  TypeOK' /\ OwnedOnce' /\ OneObjectChanges
  BY <1>3, <1>6, <1>8 DEF GetControlPlane, GetComputePlane
<1>9. ASSUME NEW p \in Planes, NEW q \in Planes, CopyPlane(p, q) \/ MovePlane(p, q)
      PROVE  TypeOK' /\ OwnedOnce' /\ OneObjectChanges
  BY <1>3, <1>4, <1>6, <1>9 DEF CopyPlane, MovePlane
<1> QED BY <1>1, <1>2, <1>5, <1>6, <1>7, <1>8, <1>9 DEF ConfigNext

-----------------------------------------------------------------------------
LEMMA ConfigInitOwns == ConfigInit => TypeOK /\ OwnedOnce
<1> SUFFICES ASSUME ConfigInit PROVE TypeOK /\ OwnedOnce
  OBVIOUS
<1>1. PICK f \in [Configs -> Cells] :
        /\ \A c, d \in Configs : f[c] = f[d] => c = d
        /\ impl = [o \in Objects |-> IF o \in Configs THEN f[o] ELSE Null]
        /\ memory = [cell \in Cells |-> IF \E c \in Configs : f[c] = cell THEN Empty ELSE None]
  BY DEF ConfigInit
<1>2. TypeOK BY <1>1, EmptyIsContents DEF TypeOK, ConfigInit
<1>3. Configs \subseteq Objects BY DEF Objects
<1>4. OwnedOnce
  <2> SUFFICES ASSUME NEW n \in Cells
               PROVE  /\ (\E o \in Objects : impl[o] = n) <=> memory[n] # None
                      /\ \A o, s \in Objects : impl[o] = n /\ impl[s] = n => o = s
    BY DEF OwnedOnce, IsFree
  <2>1. n # Null /\ Empty # None
    BY ObjectAssumption, EmptyIsContents, ContentsAreNotNone
  <2>2. \A o \in Objects : impl[o] = n <=> o \in Configs /\ f[o] = n BY <1>1, <2>1
  <2>3. memory[n] # None <=> \E c \in Configs : f[c] = n BY <1>1, <2>1
  <2> QED BY <1>1, <1>3, <2>2, <2>3
<1> QED BY <1>2, <1>4

LEMMA LeaveScopeOwns == LeaveScope => TypeOK' /\ OwnedOnce'
<1> SUFFICES ASSUME LeaveScope PROVE TypeOK' /\ OwnedOnce'
  OBVIOUS
<1>1. TypeOK' BY DEF LeaveScope, TypeOK
<1>2. OwnedOnce' BY ObjectAssumption DEF LeaveScope, OwnedOnce, IsFree
<1> QED BY <1>1, <1>2

(* What is owned is allocated once and for one object: nothing dangles,    *)
(* nothing is shared and nothing is lost, in any order of sets, copies,    *)
(* moves and assignments.                                                  *)
THEOREM OwnershipIsExact == ConfigSpec => [](TypeOK /\ OwnedOnce)
<1>1. TypeOK /\ OwnedOnce /\ [ConfigNext \/ LeaveScope]_configVars => (TypeOK /\ OwnedOnce)'
  <2>1. ASSUME TypeOK, OwnedOnce, UNCHANGED configVars PROVE (TypeOK /\ OwnedOnce)'
    BY <2>1 DEF TypeOK, OwnedOnce, IsFree
  <2> QED BY <2>1, NextKeepsOwnership, LeaveScopeOwns
<1> QED BY <1>1, ConfigInitOwns, PTL DEF ConfigSpec

(* A step changes what one object returns, or empties another one into it. *)
THEOREM ObjectsAreIndependent == ConfigSpec => OthersUntouched
<1>1. TypeOK /\ OwnedOnce /\ [ConfigNext \/ LeaveScope]_configVars
        => [scope' # "left" => OneObjectChanges]_configVars
  <2>1. ASSUME LeaveScope PROVE scope' = "left" BY <2>1 DEF LeaveScope
  <2> QED BY <2>1, NextKeepsOwnership
<1> QED BY <1>1, OwnershipIsExact, PTL DEF ConfigSpec, OthersUntouched

-----------------------------------------------------------------------------
Usable(s) ==
  /\ \A k \in {"WaitBatchSize", "SubmitBatchSize"} : s[k] \in 1..IntMax
  /\ \A k \in {"ThreadPoolSize", "OverrideMessageSize"} : s[k] \in 0..IntMax

LEMMA ReadSizesAreUsable == ASSUME NEW values PROVE Usable(SizesOf(values))
<1>1. \A v, default : IntOrDefault(v, default) \in 1..IntMax \/ IntOrDefault(v, default) = default
  <2> TAKE v, default
  <2>1. CASE v \notin Numbers BY <2>1 DEF IntOrDefault
  <2>2. CASE v \in Numbers
    <3>1. v \in Int /\ IntMax \in Int BY <2>2, ObjectAssumption
    <3> QED BY <2>2, <3>1 DEF IntOrDefault
  <2> QED BY <2>1, <2>2
<1>2. /\ DefaultSize["WaitBatchSize"] = 200 /\ DefaultSize["SubmitBatchSize"] = 200
      /\ DefaultSize["ThreadPoolSize"] = 0 /\ DefaultSize["OverrideMessageSize"] = 0
      /\ Keys = {"WaitBatchSize", "SubmitBatchSize", "ThreadPoolSize", "OverrideMessageSize"}
  BY DEF DefaultSize, Keys
<1>3. \A k \in Keys : SizesOf(values)[k] \in 1..IntMax \/ SizesOf(values)[k] = DefaultSize[k]
  BY <1>1 DEF SizesOf
<1>4. IntMax \in Nat /\ IntMax >= 200 BY ObjectAssumption
<1> QED BY <1>2, <1>3, <1>4 DEF Usable

(* Whatever the texts, the sizes of a control plane are usable: batches    *)
(* have room, and no size is negative.                                     *)
THEOREM SizesAreUsable == ConfigSpec => []SizesUsable
<1> DEFINE Sized == DOMAIN sizes = Planes /\ \A p \in ControlPlanes : sizes[p] # None => Usable(sizes[p])
<1>1. ConfigInit => Sized BY DEF ConfigInit, Planes
<1>2. Sized /\ [ConfigNext \/ LeaveScope]_configVars => Sized'
  <2> SUFFICES ASSUME Sized, [ConfigNext \/ LeaveScope]_configVars PROVE Sized'
    OBVIOUS
  <2>0. ControlPlanes \cap ComputePlanes = {} /\ ControlPlanes \subseteq Planes
        /\ ComputePlanes \subseteq Planes
    BY ObjectAssumption DEF Planes
  <2>1. CASE UNCHANGED sizes BY <2>1
  <2>2. ASSUME NEW p \in ControlPlanes, NEW c \in Configs, GetControlPlane(p, c) PROVE Sized'
    <3>1. sizes' = [sizes EXCEPT ![p] = SizesOf(memory[impl[c]])] BY <2>2 DEF GetControlPlane
    <3>2. Usable(SizesOf(memory[impl[c]])) BY ReadSizesAreUsable
    <3> QED BY <2>0, <3>1, <3>2
  <2>3. ASSUME NEW p \in ComputePlanes, NEW c \in Configs, GetComputePlane(p, c) PROVE Sized'
    BY <2>0, <2>3 DEF GetComputePlane
  <2>4. ASSUME NEW p \in Planes, NEW q \in Planes, p \in ControlPlanes <=> q \in ControlPlanes,
               CopyPlane(p, q) \/ MovePlane(p, q)
        PROVE  Sized'
    <3>1. sizes' = [sizes EXCEPT ![p] = sizes[q]] /\ sizes[q] # None
      BY <2>4 DEF CopyPlane, MovePlane
    <3> QED BY <2>0, <2>4, <3>1
  <2>5. CASE LeaveScope BY <2>0, <2>5 DEF LeaveScope
  <2>6. CASE ConfigNext
    <3>1. ASSUME NEW c \in Configs, NEW d \in Configs, Set(c) \/ CopyConfig(c, d) \/ MoveConfig(c, d)
          PROVE  UNCHANGED sizes
      BY <3>1 DEF Set, CopyConfig, MoveConfig
    <3>2. ASSUME NEW p \in ComputePlanes, SetAddress(p) PROVE UNCHANGED sizes
      BY <3>2 DEF SetAddress
    <3>3. ASSUME NEW s \in Objects, UseOfNothing(s) PROVE UNCHANGED sizes
      BY <3>3 DEF UseOfNothing
    <3> QED BY <2>1, <2>2, <2>3, <2>4, <2>6, <3>1, <3>2, <3>3 DEF ConfigNext
  <2> QED BY <2>1, <2>5, <2>6
<1>3. Sized => SizesUsable BY DEF SizesUsable, Usable
<1> QED BY <1>1, <1>2, <1>3, PTL DEF ConfigSpec

-----------------------------------------------------------------------------
(* The weights of the digits.                                              *)
IsWeight(f) == f = [k \in 0..Width |-> IF k = 0 THEN 1 ELSE Base * f[k - 1]]

LEMMA WeightGoesOn ==
  ASSUME NEW f, IsWeight(f)
  PROVE  f[0] = 1 /\ \A k \in 1..Width : f[k] = Base * f[k - 1]
<1> DEFINE Step(k) == IF k = 0 THEN 1 ELSE Base * f[k - 1]
<1>1. f = [k \in 0..Width |-> Step(k)] BY DEF IsWeight
<1>2. Step(0) = 1 /\ \A k \in 1..Width : Step(k) = Base * f[k - 1] OBVIOUS
<1>3. 0 \in 0..Width /\ \A k \in 1..Width : k \in 0..Width BY FormatAssumption
<1> HIDE DEF Step
<1>4. \A k \in 0..Width : f[k] = Step(k) BY <1>1
<1> QED BY <1>2, <1>3, <1>4

LEMMA WeightExists == \E f : IsWeight(f)
<1> DEFINE Row == [w \in Nat |-> Base * w]
           step == [k \in 1..Width |-> Row]
<1>1. Width \in Nat /\ Base \in Nat BY FormatAssumption
<1>2. Row \in [Nat -> Nat] /\ \A w \in Nat : Row[w] = Base * w BY <1>1
<1> HIDE DEF Row
<1>3. step \in [1..Width -> [Nat -> Nat]] /\ \A k \in 1..Width : step[k] = Row BY <1>2
<1> HIDE DEF step
<1>4. PICK f \in [0..Width -> Nat] : Recurs(f, 1, step, Width)
  BY <1>1, <1>3, RecursionExists
<1>5. ASSUME NEW k \in 0..Width PROVE f[k] = IF k = 0 THEN 1 ELSE Base * f[k - 1]
  <2>1. CASE k = 0 BY <1>4, <2>1 DEF Recurs
  <2>2. CASE k # 0
    <3>1. k \in 1..Width /\ k - 1 \in 0..Width BY <1>1, <2>2
    <3>2. f[k - 1] \in Nat /\ f[k] = step[k][f[k - 1]] BY <1>4, <3>1 DEF Recurs
    <3> QED BY <1>2, <1>3, <2>2, <3>1, <3>2
  <2> QED BY <2>1, <2>2
<1>6. f = [k \in 0..Width |-> f[k]] OBVIOUS
<1>7. [k \in 0..Width |-> f[k]] = [k \in 0..Width |-> IF k = 0 THEN 1 ELSE Base * f[k - 1]]
  BY <1>5
<1>8. IsWeight(f) BY <1>6, <1>7 DEF IsWeight
<1> QED BY <1>8

LEMMA WeightIs ==
  /\ Weight[0] = 1 /\ \A k \in 1..Width : Weight[k] = Base * Weight[k - 1]
  /\ \A k \in 0..Width : Weight[k] \in Nat \ {0}
<1>1. Weight = CHOOSE f : IsWeight(f) BY DEF Weight, IsWeight
<1>2. IsWeight(Weight) BY <1>1, WeightExists
<1>3. Weight[0] = 1 /\ \A k \in 1..Width : Weight[k] = Base * Weight[k - 1]
  BY <1>2, WeightGoesOn
<1> DEFINE S == {k \in 0..Width : Weight[k] \in Nat \ {0}}
<1>4. Width \in Nat /\ Base \in Nat \ {0} BY FormatAssumption
<1>5. 0 \in S BY <1>3, <1>4
<1>6. ASSUME NEW k \in 1..Width, k - 1 \in S PROVE k \in S
  <2>1. Weight[k - 1] \in Nat \ {0} BY <1>6
  <2>2. Weight[k] = Base * Weight[k - 1] BY <1>3
  <2>3. PICK w \in Nat \ {0} : w = Weight[k - 1] BY <2>1
  <2>4. Base * w \in Nat \ {0} BY <1>4, <2>3
  <2>5. Weight[k] \in Nat \ {0} BY <2>2, <2>3, <2>4
  <2>6. k \in 0..Width OBVIOUS
  <2> QED BY <2>5, <2>6
<1>7. 0..Width \subseteq S
  <2> HIDE DEF S
  <2> QED BY <1>4, <1>5, <1>6, InductionUpTo
<1> QED BY <1>3, <1>7

(* The digits of a size, and what is read from them (hex_to_int).          *)
LEMMA IntToHexType ==
  ASSUME NEW n \in Nat
  PROVE  /\ IntToHex(n) \in Seq(Nat) /\ Len(IntToHex(n)) = Width
         /\ \A k \in 1..Width : IntToHex(n)[k] \in 0..(Base - 1)
                                /\ IntToHex(n)[k] = (n \div Weight[Width - k]) % Base
<1>1. Width \in Nat /\ Base \in Nat \ {0} BY FormatAssumption
<1> DEFINE digit(k) == (n \div Weight[Width - k]) % Base
<1>2. ASSUME NEW k \in 1..Width PROVE digit(k) \in 0..(Base - 1)
  <2>1. Width - k \in 0..Width BY <1>1
  <2>2. PICK w \in Nat \ {0} : w = Weight[Width - k] BY <2>1, WeightIs
  <2>3. n \div w \in Nat BY <2>2, Division
  <2>4. (n \div w) % Base \in 0..(Base - 1) BY <1>1, <2>3, Division
  <2> QED BY <2>2, <2>4
<1>3. IntToHex(n) = [k \in 1..Width |-> digit(k)] BY DEF IntToHex
<1>4. \A k \in 1..Width : IntToHex(n)[k] = digit(k) BY <1>3
<1>5. \A k \in 1..Width : digit(k) \in Nat BY <1>1, <1>2
<1> HIDE DEF digit
<1>6. IntToHex(n) \in Seq(Nat) /\ Len(IntToHex(n)) = Width BY <1>1, <1>3, <1>5
<1> QED BY <1>2, <1>4, <1>6 DEF digit

IsValue(f, digits) ==
  f = [k \in 0..Len(digits) |-> IF k = 0 THEN 0 ELSE f[k - 1] * Base + digits[k]]

LEMMA ValueGoesOn ==
  ASSUME NEW digits, Len(digits) \in Nat, NEW f, IsValue(f, digits)
  PROVE  /\ f[0] = 0 /\ \A k \in 1..Len(digits) : f[k] = f[k - 1] * Base + digits[k]
         /\ f = [k \in 0..Len(digits) |-> f[k]]
<1> DEFINE Step(k) == IF k = 0 THEN 0 ELSE f[k - 1] * Base + digits[k]
<1>1. f = [k \in 0..Len(digits) |-> Step(k)] BY DEF IsValue
<1>2. Step(0) = 0 /\ \A k \in 1..Len(digits) : Step(k) = f[k - 1] * Base + digits[k] OBVIOUS
<1>3. 0 \in 0..Len(digits) /\ \A k \in 1..Len(digits) : k \in 0..Len(digits) OBVIOUS
<1> HIDE DEF Step
<1>4. \A k \in 0..Len(digits) : f[k] = Step(k) BY <1>1
<1>5. f = [k \in 0..Len(digits) |-> f[k]] BY <1>1, <1>4
<1> QED BY <1>2, <1>3, <1>4, <1>5

(* A size that fits its field is read as it was written                    *)
(* (TaskPayload.cpp:30-47).                                                *)
LEMMA SizesAreRead ==
  ASSUME NEW n \in 0..MaxSize
  PROVE  HexToInt(IntToHex(n)) = n
<1> DEFINE digits == IntToHex(n)
           f == [k \in 0..Width |-> n \div Weight[Width - k]]
           g == CHOOSE value : IsValue(value, digits)
<1>1. /\ Width \in Nat /\ Base \in Nat /\ Base # 0 /\ n \in Nat /\ n < Weight[Width]
      /\ Weight[Width] \in Nat \ {0}
  <2>1. Width \in Nat /\ Base \in Nat /\ Base # 0 BY FormatAssumption
  <2>2. Weight[Width] \in Nat \ {0} BY <2>1, WeightIs
  <2> QED BY <2>1, <2>2 DEF MaxSize
<1>2. Len(digits) = Width /\ \A k \in 1..Width : digits[k] = (n \div Weight[Width - k]) % Base
  BY <1>1, IntToHexType
<1>3. HexToInt(digits) = g[Width] BY <1>2 DEF HexToInt, IsValue
<1> HIDE DEF digits
<1>4. f[0] = 0
  <2>1. n = Weight[Width] * 0 + n BY <1>1
  <2>2. n \div Weight[Width] = 0 BY <1>1, <2>1, OneQuotient
  <2>3. 0 \in 0..Width /\ Width - 0 = Width BY <1>1
  <2> QED BY <2>2, <2>3
<1>5. f[Width] = n
  <2>1. Width \in 0..Width /\ Width - Width = 0 BY <1>1
  <2>2. n \div 1 = n BY <1>1
  <2> QED BY <2>1, <2>2, WeightIs
<1>6. ASSUME NEW k \in 1..Width PROVE f[k] = f[k - 1] * Base + digits[k]
  <2>1. k \in 0..Width /\ k - 1 \in 0..Width /\ Width - k \in 0..Width
        /\ Width - (k - 1) \in 1..Width /\ (Width - (k - 1)) - 1 = Width - k
    BY <1>1
  <2>2. PICK w \in Nat : w # 0 /\ w = Weight[Width - k] BY <2>1, WeightIs
  <2>3. Weight[Width - (k - 1)] = Base * w BY <2>1, <2>2, WeightIs
  <2>4. f[k] = n \div w /\ f[k - 1] = n \div (Base * w) /\ digits[k] = (n \div w) % Base
    BY <1>2, <2>1, <2>2, <2>3
  <2>5. n \div (Base * w) = (n \div w) \div Base BY <1>1, <2>2, DivisionTwice
  <2>6. PICK q \in Nat : q = n \div w BY <1>1, <2>2, Division
  <2>7. q \div Base \in Nat /\ q % Base \in 0..(Base - 1) /\ q = Base * (q \div Base) + (q % Base)
    BY <1>1, Division
  <2>8. Base * (q \div Base) = (q \div Base) * Base BY <1>1, <2>7
  <2> QED BY <2>4, <2>5, <2>6, <2>7, <2>8
<1>7. f = [k \in 0..Width |-> f[k]] OBVIOUS
<1> HIDE DEF f
<1>8. IsValue(f, digits)
  <2>1. \A k \in 0..Width : k = 0 \/ k \in 1..Width BY <1>1
  <2> DEFINE Step(k) == IF k = 0 THEN 0 ELSE f[k - 1] * Base + digits[k]
  <2>2. \A k \in 0..Width : f[k] = Step(k)
    <3>1. Step(0) = 0 /\ \A k \in 1..Width : Step(k) = f[k - 1] * Base + digits[k] OBVIOUS
    <3> HIDE DEF Step
    <3> QED BY <1>4, <1>6, <2>1, <3>1
  <2> HIDE DEF Step
  <2>3. f = [k \in 0..Width |-> Step(k)] BY <1>7, <2>2
  <2> QED BY <1>2, <2>3 DEF IsValue, Step
<1>9. IsValue(g, digits) BY <1>8
<1> HIDE DEF g
<1>10. /\ g[0] = 0 /\ \A k \in 1..Len(digits) : g[k] = g[k - 1] * Base + digits[k]
       /\ g = [k \in 0..Len(digits) |-> g[k]]
  <2>1. Len(digits) \in Nat BY <1>1, <1>2
  <2> QED BY <1>9, <2>1, ValueGoesOn
<1>11. Alike(f, g, Width) BY <1>2, <1>4, <1>6, <1>7, <1>10 DEF Alike
<1>12. f = g BY <1>1, <1>11, RecursionUnique
<1> QED BY <1>3, <1>5, <1>12 DEF digits

-----------------------------------------------------------------------------
(* The field of v (Serialize), and what is read where it stands.           *)
Field(v) == IntToHex(Len(v)) \o v
IsReadAt(v, s, a) == FieldAt(s, a + 1) = [ok |-> TRUE, value |-> v, next |-> a + Len(Field(v)) + 1]

LEMMA FieldType ==
  ASSUME NEW v \in Seq(Nat)
  PROVE  Field(v) \in Seq(Nat) /\ Len(Field(v)) = Width + Len(v) /\ Len(v) \in Nat
<1>1. Len(v) \in Nat OBVIOUS
<1>2. IntToHex(Len(v)) \in Seq(Nat) /\ Len(IntToHex(Len(v))) = Width BY <1>1, IntToHexType
<1> QED BY <1>1, <1>2 DEF Field

LEMMA FieldIsRead ==
  ASSUME NEW s \in Seq(Nat), NEW v \in Seq(Nat), Len(v) <= MaxSize, NEW a \in Nat,
         Occurs(Field(v), s, a)
  PROVE  IsReadAt(v, s, a)
<1> DEFINE d == IntToHex(Len(v))
           n == Len(v)
           p == a + 1
           digits == SubSeq(s, p, p + Width - 1)
           first == p + Width
           next == first + HexToInt(digits)
<1>1. n \in Nat /\ Width \in Nat /\ Len(s) \in Nat /\ n <= MaxSize BY FormatAssumption
<1>2. d \in Seq(Nat) /\ Len(d) = Width /\ \A k \in 1..Width : d[k] \in 0..(Base - 1)
  BY <1>1, IntToHexType
<1> HIDE DEF d
<1>3. Field(v) = d \o v BY DEF Field, d
<1>4. Field(v) \in Seq(Nat) /\ Len(Field(v)) = Width + n BY FieldType
<1>5. Occurs(d, s, a)
  <2>1. Occurs(d, Field(v), 0) BY <1>2, <1>3, OccursFirst
  <2>2. Occurs(d, s, a + 0) BY <1>2, <1>4, <2>1, OccursIn
  <2> QED BY <2>2
<1>6. Occurs(v, s, a + Width)
  <2>1. Occurs(v, Field(v), Width) BY <1>2, <1>3, OccursLast
  <2> QED BY <1>1, <1>4, <2>1, OccursIn
<1>7. digits = d
  <2>1. p + Width - 1 = a + Len(d) BY <1>1, <1>2
  <2>2. SubSeq(s, a + 1, a + Len(d)) = d BY <1>2, <1>5, OccursIsSubSeq
  <2> QED BY <2>1, <2>2
<1>0. FieldAt(s, p) = IF first > Len(s) + 1 \/ ~IsHex(digits) \/ next > Len(s) + 1 THEN NoField(p)
                      ELSE [ok |-> TRUE, value |-> SubSeq(s, first, next - 1), next |-> next]
  BY DEF FieldAt
<1> HIDE DEF digits
<1>8. HexToInt(digits) = n
  <2>1. n \in 0..MaxSize
    <3>1. MaxSize \in Int
      <4>1. Weight[Width] \in Nat BY <1>1, WeightIs
      <4> QED BY <4>1 DEF MaxSize
    <3> QED BY <1>1, <3>1
  <2> QED BY <1>7, <2>1, SizesAreRead DEF d
<1>9. SubSeq(s, first, next - 1) = v
  <2>1. first = (a + Width) + 1 /\ next - 1 = (a + Width) + Len(v) BY <1>1, <1>7, <1>8
  <2>2. a + Width \in Nat BY <1>1
  <2>3. SubSeq(s, (a + Width) + 1, (a + Width) + Len(v)) = v BY <1>6, <2>2, OccursIsSubSeq
  <2> QED BY <2>1, <2>3
<1>10. IsHex(digits)
  <2>1. DOMAIN d = 1..Width BY <1>1, <1>2
  <2>2. Base \in Nat BY FormatAssumption
  <2> QED BY <1>2, <1>7, <2>1, <2>2 DEF IsHex
<1>11. first <= Len(s) + 1 /\ next <= Len(s) + 1
  <2>1. a + (Width + n) <= Len(s) BY <1>4 DEF Occurs
  <2> QED BY <1>1, <1>7, <1>8, <2>1
<1>12. next = a + Len(Field(v)) + 1 BY <1>1, <1>4, <1>7, <1>8
<1>13. first \in Int /\ next \in Int BY <1>1, <1>8
<1> HIDE DEF first, next
<1>14. ~(first > Len(s) + 1 \/ ~IsHex(digits) \/ next > Len(s) + 1)
  BY <1>1, <1>10, <1>11, <1>13
<1>15. FieldAt(s, p) = [ok |-> TRUE, value |-> SubSeq(s, first, next - 1), next |-> next]
  BY <1>0, <1>14
<1> QED BY <1>9, <1>12, <1>15 DEF IsReadAt

LEMMA NoFieldAtEnd ==
  ASSUME NEW s \in Seq(Nat) PROVE FieldAt(s, Len(s) + 1).next = Len(s) + 1
<1>1. Len(s) \in Nat /\ Width \in Nat \ {0} BY FormatAssumption
<1>2. (Len(s) + 1) + Width > Len(s) + 1 BY <1>1
<1>3. FieldAt(s, Len(s) + 1) = NoField(Len(s) + 1) BY <1>2 DEF FieldAt
<1> QED BY <1>3 DEF NoField

(* Where the parsing of the dependencies is after n of them.               *)
IsAfter(f, s, start) ==
  f = [n \in 0..Len(s) |-> IF n = 0 THEN start ELSE FieldAt(s, f[n - 1]).next]

After(s, start) == CHOOSE after : IsAfter(after, s, start)
GoesOn(f, s, start) ==
  /\ f[0] = start /\ \A n \in 1..Len(s) : f[n] = FieldAt(s, f[n - 1]).next
  /\ f = [n \in 0..Len(s) |-> f[n]]

LEMMA AfterGoesOn ==
  ASSUME NEW s, Len(s) \in Nat, NEW start, NEW f, IsAfter(f, s, start)
  PROVE  GoesOn(f, s, start)
<1> DEFINE Step(n) == IF n = 0 THEN start ELSE FieldAt(s, f[n - 1]).next
<1>1. f = [n \in 0..Len(s) |-> Step(n)] BY DEF IsAfter
<1>2. Step(0) = start /\ \A n \in 1..Len(s) : Step(n) = FieldAt(s, f[n - 1]).next OBVIOUS
<1>3. 0 \in 0..Len(s) /\ \A n \in 1..Len(s) : n \in 0..Len(s) OBVIOUS
<1> HIDE DEF Step
<1>4. \A n \in 0..Len(s) : f[n] = Step(n) BY <1>1
<1>5. f = [n \in 0..Len(s) |-> f[n]] BY <1>1, <1>4
<1>6. f[0] = start BY <1>2, <1>3, <1>4
<1>7. \A n \in 1..Len(s) : f[n] = FieldAt(s, f[n - 1]).next BY <1>2, <1>3, <1>4
<1> QED BY <1>5, <1>6, <1>7 DEF GoesOn

LEMMA AfterIs ==
  ASSUME NEW s, Len(s) \in Nat, NEW start, NEW f, GoesOn(f, s, start)
  PROVE  f = After(s, start)
<1> DEFINE Step(n) == IF n = 0 THEN start ELSE FieldAt(s, f[n - 1]).next
           g == After(s, start)
<1>1. Step(0) = start /\ \A n \in 1..Len(s) : Step(n) = FieldAt(s, f[n - 1]).next OBVIOUS
<1>2. \A n \in 0..Len(s) : n = 0 \/ n \in 1..Len(s) OBVIOUS
<1> HIDE DEF Step
<1>3. \A n \in 0..Len(s) : f[n] = Step(n) BY <1>1, <1>2 DEF GoesOn
<1>4. f = [n \in 0..Len(s) |-> Step(n)] BY <1>3 DEF GoesOn
<1>5. IsAfter(f, s, start) BY <1>4 DEF IsAfter, Step
<1>6. IsAfter(g, s, start) BY <1>5 DEF After
<1> HIDE DEF g
<1>7. GoesOn(g, s, start) BY <1>6, AfterGoesOn
<1>8. \A n \in 1..Len(s) : f[n - 1] = g[n - 1] => f[n] = g[n] BY <1>7 DEF GoesOn
<1>9. f[0] = g[0] BY <1>7 DEF GoesOn
<1>10. Alike(f, g, Len(s)) BY <1>7, <1>8, <1>9 DEF Alike, GoesOn
<1>11. f = g BY <1>10, RecursionUnique
<1> QED BY <1>11 DEF g

LEMMA DeserializeIs ==
  ASSUME NEW s, NEW method, method = FieldAt(s, 1), NEW arguments, arguments = FieldAt(s, method.next)
  PROVE  Deserialize(s) = IF method.ok /\ arguments.ok /\ After(s, arguments.next)[Len(s)] = Len(s) + 1
                          THEN [ok |-> TRUE, method |-> method.value, arguments |-> arguments.value]
                          ELSE [ok |-> FALSE]
  BY DEF Deserialize, After, IsAfter

(* n fields after each other have n characters at least.                   *)
LEMMA FieldsHaveLength ==
  ASSUME NEW fields \in Seq(Seq(Nat)), \A k \in 1..Len(fields) : Len(fields[k]) >= 1,
         NEW parts \in [0..Len(fields) -> Seq(Nat)], Grows(parts, fields, Len(fields))
  PROVE  Len(parts[Len(fields)]) >= Len(fields)
<1> DEFINE n == Len(fields)
           S == {k \in 0..n : Len(parts[k]) >= k}
<1>1. n \in Nat /\ \A k \in 1..n : fields[k] \in Seq(Nat) OBVIOUS
<1>2. 0 \in S
  <2>1. parts[0] = <<>> /\ Len(<<>>) = 0 BY DEF Grows
  <2> QED BY <1>1, <2>1
<1>3. ASSUME NEW k \in 1..n, k - 1 \in S PROVE k \in S
  <2>1. k - 1 \in 0..n /\ k \in 0..n BY <1>1
  <2>2. parts[k - 1] \in Seq(Nat) /\ fields[k] \in Seq(Nat) BY <1>1, <2>1
  <2>3. parts[k] = parts[k - 1] \o fields[k] BY DEF Grows
  <2>4. Len(parts[k]) = Len(parts[k - 1]) + Len(fields[k]) BY <2>2, <2>3
  <2>5. Len(parts[k - 1]) \in Nat /\ Len(fields[k]) \in Nat BY <2>2
  <2>6. Len(parts[k - 1]) >= k - 1 BY <1>3
  <2>7. Len(fields[k]) >= 1 BY <1>1
  <2>8. PICK x \in Nat, y \in Nat : x = Len(parts[k - 1]) /\ y = Len(fields[k]) BY <2>5
  <2>9. x + y >= k
    <3>1. x >= k - 1 /\ y >= 1 /\ k \in Int BY <2>6, <2>7, <2>8
    <3> QED BY <3>1
  <2>10. Len(parts[k]) >= k BY <2>4, <2>8, <2>9
  <2> QED BY <2>1, <2>10
<1>4. 0..n \subseteq S
  <2> HIDE DEF S
  <2> QED BY <1>1, <1>2, <1>3, InductionUpTo
<1>5. n \in S
  <2>1. n \in 0..n BY <1>1
  <2> HIDE DEF S
  <2> QED BY <1>4, <2>1
<1> QED BY <1>5

(* A payload whose fields fit their sizes is read as it was written, the   *)
(* dependencies included, whatever characters its fields have              *)
(* (TaskPayload.cpp:63-90).                                                *)
THEOREM PayloadsAreRead ==
  ASSUME NEW m \in Seq(Nat), NEW a \in Seq(Nat), NEW ds \in Seq(Seq(Nat)),
         Len(m) <= MaxSize, Len(a) <= MaxSize, \A k \in 1..Len(ds) : Len(ds[k]) <= MaxSize
  PROVE  Deserialize(Serialize([method |-> m, arguments |-> a, dependencies |-> ds]))
           = [ok |-> TRUE, method |-> m, arguments |-> a]
<1> DEFINE n == Len(ds)
           fields == [k \in 1..n |-> Field(ds[k])]
           head == Field(m) \o Field(a)
           s == head \o FlattenSeq(fields)
<1>1. n \in Nat /\ Width \in Nat \ {0} /\ \A k \in 1..n : ds[k] \in Seq(Nat)
  BY FormatAssumption
<1>2. Serialize([method |-> m, arguments |-> a, dependencies |-> ds]) = s
  <2>1. DOMAIN ds = 1..n OBVIOUS
  <2> QED BY <2>1 DEF Serialize, Field
<1>3. fields \in Seq(Seq(Nat)) /\ Len(fields) = n /\ \A k \in 1..n : fields[k] = Field(ds[k])
  <2>1. \A k \in 1..n : Field(ds[k]) \in Seq(Nat) BY <1>1, FieldType
  <2> HIDE DEF n
  <2> QED BY <1>1, <2>1
<1> HIDE DEF n, fields
<1>4. PICK parts \in [0..n -> Seq(Nat)] : Grows(parts, fields, n) /\ FlattenSeq(fields) = parts[n]
  BY <1>3, FlattenSeqGrows
<1>5. /\ Field(m) \in Seq(Nat) /\ Field(a) \in Seq(Nat) /\ head \in Seq(Nat)
      /\ Len(head) = Len(Field(m)) + Len(Field(a)) /\ Len(head) \in Nat
      /\ Len(Field(m)) \in Nat /\ Len(Field(a)) \in Nat
  <2>1. Field(m) \in Seq(Nat) /\ Field(a) \in Seq(Nat) BY FieldType
  <2> QED BY <2>1
<1>6. Occurs(Field(m), head, 0) /\ Occurs(Field(a), head, Len(Field(m)))
  BY <1>5, OccursFirst, OccursLast
<1> HIDE DEF head
<1>7. /\ \A k \in 0..n : parts[k] \in Seq(Nat) /\ Len(parts[k]) \in Nat
      /\ s = head \o parts[n] /\ s \in Seq(Nat) /\ Len(s) = Len(head) + Len(parts[n]) /\ Len(s) \in Nat
  <2>1. \A k \in 0..n : parts[k] \in Seq(Nat) OBVIOUS
  <2>2. \A k \in 0..n : Len(parts[k]) \in Nat BY <2>1
  <2>3. parts[n] \in Seq(Nat)  BY <1>1, <2>1
  <2>4. s = head \o parts[n] BY <1>4
  <2>5. s \in Seq(Nat) /\ Len(s) = Len(head) + Len(parts[n])
    <3>1. PICK h \in Seq(Nat), t \in Seq(Nat) : h = head /\ t = parts[n] BY <1>5, <2>3
    <3>2. h \o t \in Seq(Nat) /\ Len(h \o t) = Len(h) + Len(t) OBVIOUS
    <3> HIDE DEF s
    <3> QED BY <2>4, <3>1, <3>2
  <2> HIDE DEF s
  <2>6. Len(s) \in Nat BY <2>5
  <2> QED BY <2>1, <2>2, <2>4, <2>5, <2>6
<1>8. Occurs(head, s, 0) /\ Occurs(parts[n], s, Len(head))
  <2>1. parts[n] \in Seq(Nat) BY <1>1, <1>7
  <2> QED BY <1>5, <1>7, <2>1, OccursFirst, OccursLast
<1> HIDE DEF s
<1>9. FieldAt(s, 1) = [ok |-> TRUE, value |-> m, next |-> Len(Field(m)) + 1]
  <2>1. Occurs(Field(m), s, 0 + 0) BY <1>5, <1>6, <1>7, <1>8, OccursIn
  <2>2. Occurs(Field(m), s, 0) /\ 0 \in Nat /\ s \in Seq(Nat) BY <1>7, <2>1
  <2>3. IsReadAt(m, s, 0) BY <2>2, FieldIsRead
  <2> QED BY <1>5, <2>3 DEF IsReadAt
<1>10. FieldAt(s, Len(Field(m)) + 1) = [ok |-> TRUE, value |-> a, next |-> Len(head) + 1]
  <2>1. Occurs(Field(a), s, 0 + Len(Field(m))) BY <1>5, <1>6, <1>7, <1>8, OccursIn
  <2>2. Occurs(Field(a), s, Len(Field(m))) BY <1>5, <2>1
  <2>3. IsReadAt(a, s, Len(Field(m))) BY <1>5, <1>7, <2>2, FieldIsRead
  <2> QED BY <1>5, <2>3 DEF IsReadAt
<1>11. ASSUME NEW k \in 1..n
       PROVE  FieldAt(s, Len(head) + Len(parts[k - 1]) + 1).next = Len(head) + Len(parts[k]) + 1
  <2>1. k - 1 \in 0..n /\ k \in 0..n BY <1>1
  <2>2. ds[k] \in Seq(Nat) /\ Len(ds[k]) <= MaxSize BY <1>1 DEF n
  <2>3. Field(ds[k]) \in Seq(Nat) /\ Len(Field(ds[k])) \in Nat
    <3>1. Field(ds[k]) \in Seq(Nat) BY <2>2, FieldType
    <3> QED BY <3>1
  <2>4. Occurs(Field(ds[k]), parts[n], Len(parts[k - 1]))
    <3>1. Occurs(fields[k], parts[n], Len(parts[k - 1])) BY <1>3, <1>4, PartsOccur
    <3> QED BY <1>3, <3>1
  <2>5. PICK j \in Nat : j = Len(head) + Len(parts[k - 1]) BY <1>5, <1>7, <2>1
  <2>6. Occurs(Field(ds[k]), s, j)
    <3>1. parts[n] \in Seq(Nat) /\ Len(parts[k - 1]) \in Nat BY <1>1, <1>7, <2>1
    <3>2. PICK x \in Nat, y \in Nat : x = Len(head) /\ y = Len(parts[k - 1]) BY <1>5, <3>1
    <3>3. PICK t \in Seq(Nat) : t = parts[n] BY <3>1
    <3>4. Occurs(t, s, x) /\ Occurs(Field(ds[k]), t, y) /\ s \in Seq(Nat)
      BY <1>7, <1>8, <2>4, <3>2, <3>3
    <3>5. Occurs(Field(ds[k]), s, x + y) BY <2>3, <3>4, OccursIn
    <3> QED BY <2>5, <3>2, <3>5
  <2>7. FieldAt(s, j + 1).next = j + Len(Field(ds[k])) + 1
    <3>1. IsReadAt(ds[k], s, j) BY <1>7, <2>2, <2>6, FieldIsRead
    <3> QED BY <3>1 DEF IsReadAt
  <2>8. Len(parts[k]) = Len(parts[k - 1]) + Len(Field(ds[k]))
    <3>1. parts[k] = parts[k - 1] \o Field(ds[k]) BY <1>3, <1>4 DEF Grows
    <3> QED BY <1>7, <2>1, <2>3, <3>1
  <2> QED BY <1>5, <1>7, <2>1, <2>3, <2>5, <2>7, <2>8
<1>12. Len(parts[n]) >= n
  <2>1. \A k \in 1..n : Len(fields[k]) >= 1
    <3> TAKE k \in 1..n
    <3>1. Len(Field(ds[k])) = Width + Len(ds[k]) /\ Len(ds[k]) \in Nat BY <1>1, FieldType
    <3>2. PICK x \in Nat : x = Len(ds[k]) BY <3>1
    <3>3. Width + x >= 1 BY <1>1
    <3> QED BY <1>3, <3>1, <3>2, <3>3
  <2> QED BY <1>3, <1>4, <2>1, FieldsHaveLength
<1>13. n <= Len(s) BY <1>1, <1>5, <1>7, <1>12
<1>14. FieldAt(s, Len(s) + 1).next = Len(s) + 1 BY <1>7, NoFieldAtEnd
<1> DEFINE f == [k \in 0..Len(s) |-> IF k <= n THEN Len(head) + Len(parts[k]) + 1 ELSE Len(s) + 1]
<1>15. f[0] = Len(head) + 1
  <2>1. parts[0] = <<>> /\ Len(<<>>) = 0 BY <1>4 DEF Grows
  <2>2. 0 \in 0..Len(s) /\ 0 <= n BY <1>1, <1>7
  <2>3. f[0] = Len(head) + Len(parts[0]) + 1 BY <2>2
  <2> QED BY <1>5, <2>1, <2>3
<1>16. f[Len(s)] = Len(s) + 1
  <2>1. Len(s) \in 0..Len(s) BY <1>7
  <2>2. CASE Len(s) <= n
    <3>1. Len(s) = n BY <1>1, <1>7, <1>13, <2>2
    <3> QED BY <1>7, <2>1, <2>2, <3>1
  <2>3. CASE ~(Len(s) <= n) BY <2>1, <2>3
  <2> QED BY <2>2, <2>3
<1>17. ASSUME NEW k \in 1..Len(s) PROVE f[k] = FieldAt(s, f[k - 1]).next
  <2>1. k \in 0..Len(s) /\ k - 1 \in 0..Len(s) BY <1>7
  <2>2. CASE k <= n
    <3>1. k \in 1..n /\ k - 1 <= n BY <1>1, <2>2
    <3>2. f[k] = Len(head) + Len(parts[k]) + 1 /\ f[k - 1] = Len(head) + Len(parts[k - 1]) + 1
      BY <2>1, <2>2, <3>1
    <3> QED BY <1>11, <3>1, <3>2
  <2>3. CASE k > n
    <3>1. f[k] = Len(s) + 1 BY <1>1, <2>1, <2>3
    <3>2. f[k - 1] = Len(s) + 1
      <4>1. CASE k - 1 = n BY <1>7, <2>1, <4>1
      <4>2. CASE k - 1 # n
        <5>1. ~(k - 1 <= n) BY <1>1, <2>1, <2>3, <4>2
        <5> QED BY <2>1, <5>1
      <4> QED BY <4>1, <4>2
    <3> QED BY <1>14, <3>1, <3>2
  <2> QED BY <1>1, <2>1, <2>2, <2>3
<1>18. f = [k \in 0..Len(s) |-> f[k]] OBVIOUS
<1> HIDE DEF f
<1>19. f = After(s, Len(head) + 1)
  <2>1. GoesOn(f, s, Len(head) + 1) BY <1>15, <1>17, <1>18 DEF GoesOn
  <2> QED BY <1>7, <2>1, AfterIs
<1> DEFINE method == FieldAt(s, 1)
           arguments == FieldAt(s, method.next)
<1>20. method.ok /\ method.value = m /\ arguments.ok /\ arguments.value = a
       /\ arguments.next = Len(head) + 1
  BY <1>9, <1>10
<1> HIDE DEF arguments
<1>21. Deserialize(s) = [ok |-> TRUE, method |-> m, arguments |-> a]
  BY <1>16, <1>19, <1>20, DeserializeIs DEF arguments
<1> QED BY <1>2, <1>21

-----------------------------------------------------------------------------
(* The program configures before it opens a session, and a session leaves  *)
(* the configurations alone.                                               *)
THEOREM DispatchConfigures == Spec => ConfigSpec
<1>1. Init => ConfigInit BY DEF Init
<1>2. [Next]_vars => [ConfigNext \/ LeaveScope]_configVars
  <2> SUFFICES ASSUME [Next]_vars PROVE [ConfigNext \/ LeaveScope]_configVars
    OBVIOUS
  <2>1. CASE Configure BY <2>1 DEF Configure
  <2>2. CASE OpenSession BY <2>2 DEF OpenSession
  <2>3. CASE DescribeLibrary \/ UploadLibrary \/ SetDynamicLibrary
    BY <2>3 DEF DescribeLibrary, UploadLibrary, SetDynamicLibrary
  <2>4. CASE Submit \/ OtherClient \/ Execute BY <2>4 DEF Submit, OtherClient, Execute
  <2>5. CASE UNCHANGED vars BY <2>5 DEF vars
  <2> QED BY <2>1, <2>2, <2>3, <2>4, <2>5 DEF Next
<1> QED BY <1>1, <1>2, PTL DEF Spec, ConfigSpec

(* Whatever the program does before its session, and for as long as it     *)
(* runs, the sizes it reads are usable (Configuration.cpp:58-75) ...       *)
THEOREM DispatchSizesAreUsable == Spec => []SizesUsable
  BY DispatchConfigures, SizesAreUsable

(* ... and no two of its objects write to the same values.                 *)
THEOREM DispatchObjectsAreIndependent == Spec => OthersUntouched
  BY DispatchConfigures, ObjectsAreIndependent

-----------------------------------------------------------------------------
(* Sequences that grow.                                                    *)
IsSequence(s) == \E X : s \in Seq(X)

LEMMA SequenceIs ==
  ASSUME NEW s, IsSequence(s) PROVE Len(s) \in Nat /\ DOMAIN s = 1..Len(s)
<1>1. PICK X : s \in Seq(X) BY DEF IsSequence
<1> QED BY <1>1

LEMMA ListIsSequence ==
  ASSUME NEW n \in Nat, NEW s, s = [k \in 1..n |-> s[k]] PROVE IsSequence(s) /\ Len(s) = n
<1> DEFINE X == {s[k] : k \in 1..n}
<1>1. \A k \in 1..n : s[k] \in X OBVIOUS
<1> HIDE DEF X
<1>2. s \in [1..n -> X] BY <1>1
<1>3. s \in Seq(X) /\ Len(s) = n BY <1>2
<1> QED BY <1>3 DEF IsSequence

LEMMA SequencesJoin ==
  ASSUME NEW s, IsSequence(s), NEW t, IsSequence(t)
  PROVE  /\ IsSequence(s \o t) /\ Len(s \o t) = Len(s) + Len(t)
         /\ \A k \in 1..Len(s) : (s \o t)[k] = s[k]
         /\ \A k \in 1..Len(t) : (s \o t)[Len(s) + k] = t[k]
<1>1. PICK X : s \in Seq(X) BY DEF IsSequence
<1>2. PICK Y : t \in Seq(Y) BY DEF IsSequence
<1> DEFINE Z == X \cup Y
<1>3. s \in Seq(Z) /\ t \in Seq(Z)
  <2>1. \A k \in 1..Len(s) : s[k] \in X BY <1>1
  <2>2. \A k \in 1..Len(t) : t[k] \in Y BY <1>2
  <2> QED BY <1>1, <1>2, <2>1, <2>2
<1> HIDE DEF Z
<1>4. s \o t \in Seq(Z) /\ Len(s \o t) = Len(s) + Len(t) BY <1>3
<1>5. \A k \in 1..Len(s) : (s \o t)[k] = s[k] BY <1>3
<1>6. \A k \in 1..Len(t) : (s \o t)[Len(s) + k] = t[k] BY <1>3
<1> QED BY <1>4, <1>5, <1>6 DEF IsSequence

LEMMA SequenceAppended ==
  ASSUME NEW s, IsSequence(s), NEW x
  PROVE  /\ IsSequence(Append(s, x)) /\ Len(Append(s, x)) = Len(s) + 1
         /\ \A k \in 1..Len(s) : Append(s, x)[k] = s[k]
         /\ Append(s, x)[Len(s) + 1] = x
<1>1. PICK X : s \in Seq(X) BY DEF IsSequence
<1> DEFINE Z == X \cup {x}
<1>2. s \in Seq(Z) /\ x \in Z
  <2>1. \A k \in 1..Len(s) : s[k] \in X BY <1>1
  <2> QED BY <1>1, <2>1
<1> HIDE DEF Z
<1>3. Append(s, x) \in Seq(Z) BY <1>2
<1>4. Len(Append(s, x)) = Len(s) + 1 /\ Append(s, x)[Len(s) + 1] = x BY <1>2
<1>5. \A k \in 1..Len(s) : Append(s, x)[k] = s[k] BY <1>2
<1> QED BY <1>3, <1>4, <1>5 DEF IsSequence

Listed(raw, ds, n) ==
  /\ IsSequence(raw)
  /\ \A i \in 1..n : \A name \in RawNames(ds[i]) : \E j \in DOMAIN raw : raw[j] = <<i, name>>

(* Every raw input of every definition is in the list that ids are given   *)
(* to (SessionServiceImpl.cpp:332-350).                                    *)
LEMMA RawInputsAreListed ==
  ASSUME NEW n \in Nat, NEW ds, DOMAIN ds = 1..n, \A i \in 1..n : IsFiniteSet(DOMAIN ds[i])
  PROVE  Listed(RawInputs(ds), ds, n)
<1> DEFINE Own(i) == {<<i, name>> : name \in RawNames(ds[i])}
           X == UNION {Own(i) : i \in 1..n}
           lists == [i \in 1..n |-> SetToSeq(Own(i))]
<1>1. ASSUME NEW i \in 1..n
      PROVE  /\ SetToSeq(Own(i)) \in Seq(X)
             /\ \A x \in Own(i) : \E j \in 1..Len(SetToSeq(Own(i))) : SetToSeq(Own(i))[j] = x
  <2>1. IsFiniteSet(RawNames(ds[i]))
    <3>1. RawNames(ds[i]) \subseteq DOMAIN ds[i] BY DEF RawNames
    <3> QED BY <3>1, FS_Subset
  <2> DEFINE f == [name \in RawNames(ds[i]) |-> <<i, name>>]
  <2>2. f \in Surjection(RawNames(ds[i]), Own(i)) BY DEF Surjection
  <2>3. IsFiniteSet(Own(i))
    <3> HIDE DEF f, Own
    <3> QED BY <2>1, <2>2, FS_Surjection
  <2>4. Own(i) \subseteq X OBVIOUS
  <2> HIDE DEF Own, X
  <2>5. SetToSeq(Own(i)) \in Seq(Own(i))
        /\ \A x \in Own(i) : \E j \in 1..Len(SetToSeq(Own(i))) : SetToSeq(Own(i))[j] = x
    BY <2>3, SetToSeqIsAll
  <2>6. SetToSeq(Own(i)) \in Seq(X)
    <3>1. PICK q : q = SetToSeq(Own(i)) OBVIOUS
    <3>2. q \in Seq(Own(i)) BY <2>5, <3>1
    <3>3. \A k \in 1..Len(q) : q[k] \in X BY <2>4, <3>2
    <3>4. q \in Seq(X) BY <3>2, <3>3
    <3> QED BY <3>1, <3>4
  <2> QED BY <2>5, <2>6
<1>2. RawInputs(ds) = FlattenSeq(lists) BY DEF RawInputs
<1> HIDE DEF Own, X
<1>3. lists \in Seq(Seq(X)) /\ Len(lists) = n /\ \A i \in 1..n : lists[i] = SetToSeq(Own(i))
  BY <1>1
<1> HIDE DEF lists
<1>4. /\ FlattenSeq(lists) \in Seq(X)
      /\ \A i \in 1..n : \E a \in Nat : Occurs(lists[i], FlattenSeq(lists), a)
  BY <1>3, FlattenSeqHasAll
<1>5. ASSUME NEW i \in 1..n, NEW name \in RawNames(ds[i])
      PROVE  \E j \in DOMAIN FlattenSeq(lists) : FlattenSeq(lists)[j] = <<i, name>>
  <2>1. PICK q \in Seq(X), r \in Seq(X) : q = lists[i] /\ r = FlattenSeq(lists) BY <1>1, <1>3, <1>4
  <2>2. PICK a \in Nat : Occurs(q, r, a) BY <1>4, <2>1
  <2>3. <<i, name>> \in Own(i) BY DEF Own
  <2>4. PICK k \in 1..Len(q) : q[k] = <<i, name>>
    <3>1. PICK x : x = <<i, name>> OBVIOUS
    <3>2. PICK k \in 1..Len(SetToSeq(Own(i))) : SetToSeq(Own(i))[k] = x BY <1>1, <2>3, <3>1
    <3>3. q = SetToSeq(Own(i)) BY <1>3, <2>1
    <3> QED BY <3>1, <3>2, <3>3
  <2>5. r[a + k] = q[k] BY <2>2, <2>4 DEF Occurs
  <2>6. a + k \in DOMAIN r
    <3>1. Len(q) \in Nat /\ Len(r) \in Nat /\ DOMAIN r = 1..Len(r) OBVIOUS
    <3>2. a + Len(q) <= Len(r) BY <2>2 DEF Occurs
    <3>3. a + k \in 1..Len(r) BY <2>4, <3>1, <3>2
    <3> QED BY <3>1, <3>3
  <2> QED BY <2>1, <2>4, <2>5, <2>6
<1>6. IsSequence(FlattenSeq(lists)) BY <1>4 DEF IsSequence
<1> QED BY <1>2, <1>5, <1>6 DEF Listed

-----------------------------------------------------------------------------
(* The options of a client name the library they were last given, unless   *)
(* an id was left in them, and the ids in them are those of blobs.         *)
OptionsOK(o, blobs) ==
  /\ o.path = o.meant.path /\ o.symbol = o.meant.symbol
  /\ o.blob \in {None} \cup DOMAIN blobs /\ o.meant.blob \in {None} \cup DOMAIN blobs
  /\ o.stale \in BOOLEAN /\ (o.stale = FALSE => o.blob = o.meant.blob)

ClientOK ==
  /\ IsSequence(store)
  /\ taskOptions # None => OptionsOK(taskOptions, store)
  /\ OptionsOK(options, store)
  /\ lib # None => "blob" \in DOMAIN lib /\ lib.blob \in {None} \cup DOMAIN store

LEMMA NoOptionsOK == ASSUME NEW blobs PROVE OptionsOK(NoOptions, blobs)
  BY DEF OptionsOK, NoOptions, NoLibrary

LEMMA WithLibraryOK ==
  ASSUME NEW blobs, NEW o, OptionsOK(o, blobs), NEW l, l.blob \in {None} \cup DOMAIN blobs
  PROVE  OptionsOK(WithLibrary(o, l), blobs)
<1> DEFINE w == WithLibrary(o, l)
<1>1. /\ w.path = l.path /\ w.symbol = l.symbol /\ w.meant = l
      /\ w.blob = IF l.blob = None THEN o.blob ELSE l.blob
  BY DEF WithLibrary
<1>2. w.stale = (l.blob = None /\ o.blob # None) BY DEF WithLibrary
<1>3. w.stale \in BOOLEAN BY <1>2
<1>4. ASSUME w.stale = FALSE PROVE w.blob = l.blob
  <2>1. ~(l.blob = None /\ o.blob # None) BY <1>2, <1>4
  <2> QED BY <1>1, <2>1
<1>5. o.blob \in {None} \cup DOMAIN blobs BY DEF OptionsOK
<1> HIDE DEF w
<1>6. w.path = w.meant.path /\ w.symbol = w.meant.symbol BY <1>1
<1>7. w.blob \in {None} \cup DOMAIN blobs /\ w.meant.blob \in {None} \cup DOMAIN blobs BY <1>1, <1>5
<1>8. w.stale = FALSE => w.blob = w.meant.blob BY <1>1, <1>4
<1>9. OptionsOK(w, blobs) BY <1>3, <1>6, <1>7, <1>8 DEF OptionsOK
<1> QED BY <1>9 DEF w

LEMMA OptionsStayOK ==
  ASSUME NEW o, NEW blobs, OptionsOK(o, blobs), NEW more, DOMAIN blobs \subseteq DOMAIN more
  PROVE  OptionsOK(o, more)
  BY DEF OptionsOK

(* What the control plane stores stays as it is.                           *)
Grown(more, blobs) ==
  IsSequence(more) /\ DOMAIN blobs \subseteq DOMAIN more /\ \A n \in DOMAIN blobs : more[n] = blobs[n]

LEMMA ClientStaysOK ==
  ASSUME ClientOK, UNCHANGED <<taskOptions, options, lib>>, Grown(store', store)
  PROVE  ClientOK'
<1>1. OptionsOK(options', store') BY OptionsStayOK DEF ClientOK, Grown
<1>2. taskOptions' # None => OptionsOK(taskOptions', store') BY OptionsStayOK DEF ClientOK, Grown
<1>3. lib' # None => "blob" \in DOMAIN lib' /\ lib'.blob \in {None} \cup DOMAIN store'
  BY DEF ClientOK, Grown
<1> QED BY <1>1, <1>2, <1>3 DEF ClientOK, Grown

LEMMA BlobIsCreated ==
  ASSUME IsSequence(store), NEW content, CreateBlob(content)
  PROVE  Grown(store', store) /\ Len(store) + 1 \in DOMAIN store'
<1>1. store' = Append(store, content) BY DEF CreateBlob
<1>2. Len(store) \in Nat /\ DOMAIN store = 1..Len(store) BY SequenceIs
<1>3. /\ IsSequence(store') /\ Len(store') = Len(store) + 1
      /\ \A k \in 1..Len(store) : store'[k] = store[k]
  BY <1>1, SequenceAppended
<1>4. DOMAIN store' = 1..Len(store') BY <1>3, SequenceIs
<1> QED BY <1>2, <1>3, <1>4 DEF Grown

LEMMA ClientInit == Init => ClientOK
<1> SUFFICES ASSUME Init PROVE ClientOK
  OBVIOUS
<1>1. IsSequence(store)
  <2>1. <<>> \in Seq({}) OBVIOUS
  <2> QED BY <2>1 DEF Init, IsSequence
<1> QED BY <1>1, NoOptionsOK DEF Init, ClientOK

LEMMA ClientPrepares ==
  ASSUME ClientOK, OpenSession \/ DescribeLibrary \/ UploadLibrary \/ SetDynamicLibrary
  PROVE  ClientOK'
<1>1. CASE OpenSession
  <2>1. UNCHANGED <<lib, store>> /\ options' = taskOptions' BY <1>1 DEF OpenSession
  <2>2. OptionsOK(taskOptions', store)
    <3>1. PICK d \in Descriptions \cup {None} :
            taskOptions' = IF d = None THEN NoOptions
              ELSE WithLibrary(NoOptions, [path |-> d.path, symbol |-> d.symbol, blob |-> None])
      BY <1>1 DEF OpenSession
    <3> DEFINE l == [path |-> d.path, symbol |-> d.symbol, blob |-> None]
    <3>2. OptionsOK(NoOptions, store) BY NoOptionsOK
    <3>3. l.blob \in {None} \cup DOMAIN store OBVIOUS
    <3>4. OptionsOK(WithLibrary(NoOptions, l), store)
      <4> HIDE DEF l
      <4> QED BY <3>2, <3>3, WithLibraryOK
    <3> QED BY <3>1, <3>2, <3>4
  <2> QED BY <2>1, <2>2 DEF ClientOK
<1>2. CASE DescribeLibrary
  <2>1. UNCHANGED <<taskOptions, options, store>> /\ "blob" \in DOMAIN lib' /\ lib'.blob = None
    BY <1>2 DEF DescribeLibrary
  <2> QED BY <2>1 DEF ClientOK
<1>3. CASE UploadLibrary
  <2>1. UNCHANGED <<taskOptions, options>> /\ lib # None BY <1>3 DEF UploadLibrary
  <2>2. ASSUME NEW content \in Libraries, CreateBlob(<<"data", content>>),
               lib' = [lib EXCEPT !.blob = Len(store) + 1]
        PROVE  ClientOK'
    <3>1. Grown(store', store) /\ Len(store) + 1 \in DOMAIN store' BY <2>2, BlobIsCreated DEF ClientOK
    <3>2. "blob" \in DOMAIN lib' /\ lib'.blob = Len(store) + 1 BY <2>1, <2>2 DEF ClientOK
    <3> QED BY <2>1, <3>1, <3>2, OptionsStayOK DEF ClientOK, Grown
  <2>3. ASSUME CreateBlob(None), UNCHANGED lib PROVE ClientOK'
    <3>1. Grown(store', store) BY <2>3, BlobIsCreated DEF ClientOK
    <3> QED BY <2>1, <2>3, <3>1, ClientStaysOK
  <2> QED BY <1>3, <2>2, <2>3 DEF UploadLibrary
<1>4. CASE SetDynamicLibrary
  <2>1. UNCHANGED <<taskOptions, store>> /\ lib # None /\ options' = WithLibrary(options, lib) /\ lib' = None
    BY <1>4 DEF SetDynamicLibrary
  <2>2. OptionsOK(options', store) BY <2>1, WithLibraryOK DEF ClientOK
  <2> QED BY <2>1, <2>2 DEF ClientOK
<1> QED BY <1>1, <1>2, <1>3, <1>4

-----------------------------------------------------------------------------
(* What the worker finds for a task, when blobs are stored: a task that    *)
(* was prepared is called with what was asked for.  Nothing of this        *)
(* changes once the task is submitted.                                     *)
LibraryIn(t, blobs) == IF t.options.blob = None THEN t.options.path ELSE blobs[t.options.blob]
InputsIn(t, blobs) ==
  LET inputs == t.payload.inputs
  IN  [name \in DOMAIN inputs |->
         IF inputs[name][1] = "id" /\ inputs[name][2] \in t.dependencies
         THEN blobs[inputs[name][2]] ELSE inputs[name]]

Loadable(o, dependencies) ==
  /\ o.version = ConventionVersion /\ o.blob \in dependencies \cup {None}
  /\ o.symbol # None /\ ~(o.path = None /\ o.blob = None)

Served(t, blobs) ==
  /\ t.asked.kind = IF IsJson(t) THEN "convention" ELSE "legacy"
  /\ Prepared(t) /\ IsJson(t) =>
       /\ Loadable(t.options, t.dependencies)
       /\ t.options.symbol = t.options.meant.symbol
       /\ t.asked = [kind |-> "convention", library |-> LibraryIn(t, blobs),
                     method |-> t.asked.method, inputs |-> InputsIn(t, blobs)]
  /\ Prepared(t) /\ ~IsJson(t) =>
       /\ t.options.version = None
       /\ t.asked = [kind |-> "legacy", method |-> t.asked.method, arguments |-> t.asked.arguments]
       /\ Deserialize(t.payload.characters)
            = [ok |-> TRUE, method |-> t.asked.method, arguments |-> t.asked.arguments]

Fields == {"options", "asked", "dependencies", "payload", "attempts", "status", "causes"}
Submitted(t, blobs) == Fields \subseteq DOMAIN t /\ Served(t, blobs) /\ t.causes = {}

(* The inputs of a definition: data, or the ids of blobs that have data.   *)
LEMMA GivenInputsAre ==
  ASSUME NEW ins \in GivenInputs
  PROVE  /\ IsFiniteSet(DOMAIN ins)
         /\ \A name \in DOMAIN ins :
              \/ ins[name] = <<"data", ins[name][2]>>
              \/ \E k \in Uploaded : ins[name] = <<"id", k>>
<1>1. CASE ins \in InputSets /\ RawNames(ins) = DOMAIN ins
  <2>1. IsFiniteSet(DOMAIN ins) BY <1>1, InputAssumption
  <2>2. ASSUME NEW name \in DOMAIN ins PROVE ins[name] = <<"data", ins[name][2]>>
    <3>1. ins[name] = <<"existing">> \/ ins[name] = <<"data", ins[name][2]>>
      BY <1>1, InputAssumption
    <3>2. ins[name][1] = "data" BY <1>1 DEF RawNames
    <3>3. <<"existing">>[1] = "existing" OBVIOUS
    <3> QED BY <3>1, <3>2, <3>3
  <2> QED BY <2>1, <2>2
<1>2. ASSUME NEW given \in InputSets, NEW n \in Uploaded,
             ins = [name \in DOMAIN given |->
                      IF given[name] = <<"existing">> THEN <<"id", n>> ELSE given[name]]
      PROVE  /\ IsFiniteSet(DOMAIN ins)
             /\ \A name \in DOMAIN ins :
                  \/ ins[name] = <<"data", ins[name][2]>>
                  \/ \E k \in Uploaded : ins[name] = <<"id", k>>
  <2>1. IsFiniteSet(DOMAIN ins)
    <3>1. DOMAIN ins = DOMAIN given BY <1>2
    <3> QED BY <3>1, InputAssumption
  <2>2. ASSUME NEW name \in DOMAIN ins
        PROVE  \/ ins[name] = <<"data", ins[name][2]>>
               \/ \E k \in Uploaded : ins[name] = <<"id", k>>
    <3>1. name \in DOMAIN given BY <1>2
    <3>2. CASE given[name] = <<"existing">>
      <4>1. ins[name] = <<"id", n>> BY <1>2, <3>1, <3>2
      <4> QED BY <4>1
    <3>3. CASE given[name] # <<"existing">>
      <4>1. given[name] = <<"data", given[name][2]>> BY <3>1, <3>3, InputAssumption
      <4>2. ins[name] = given[name] BY <1>2, <3>1, <3>3
      <4> QED BY <4>1, <4>2
    <3> QED BY <3>2, <3>3
  <2> QED BY <2>1, <2>2
<1>3. \/ ins \in InputSets /\ RawNames(ins) = DOMAIN ins
      \/ \E given \in InputSets : \E n \in Uploaded :
           ins = [name \in DOMAIN given |->
                    IF given[name] = <<"existing">> THEN <<"id", n>> ELSE given[name]]
  <2> DEFINE With(given, n) ==
        [name \in DOMAIN given |->
           IF given[name] = <<"existing">> THEN <<"id", n>> ELSE given[name]]
  <2>1. GivenInputs = (UNION {{With(given, n) : n \in Uploaded} : given \in InputSets})
                      \cup {given \in InputSets : RawNames(given) = DOMAIN given}
    BY DEF GivenInputs
  <2>2. \/ ins \in InputSets /\ RawNames(ins) = DOMAIN ins
        \/ \E given \in InputSets : \E n \in Uploaded : ins = With(given, n)
    <3> HIDE DEF With
    <3> QED BY <2>1
  <2> QED BY <2>2
<1> QED BY <1>1, <1>2, <1>3

WithRawData(more, blobs, ins) ==
  LET raw == RawInputs(ins)
  IN  more = blobs \o [j \in DOMAIN raw |-> ins[raw[j][1]][raw[j][2]]]

InputLists(n) == [1..n -> GivenInputs]
Found(more, blobs, dependencies, given, payload) ==
  \A name \in DOMAIN given :
    /\ payload[name][1] = "id" /\ payload[name][2] \in dependencies
    /\ more[payload[name][2]] = Data(blobs, given)[name]

(* Each input of a submitted definition is found under its name, where the *)
(* submission has put it (SessionServiceImpl.cpp:332-464).                 *)
LEMMA InputsAreFound ==
  ASSUME IsSequence(store), NEW o, NEW n \in Nat, NEW ins \in InputLists(n),
         WithRawData(store', store, ins), NEW i \in 1..n,
         NEW payload, payload = PayloadInputs(RawInputs(ins), i, ins[i])
  PROVE  Found(store', store, Dependencies(o, payload), ins[i], payload)
<1> SUFFICES ASSUME NEW name \in DOMAIN ins[i]
             PROVE  /\ payload[name][1] = "id" /\ payload[name][2] \in Dependencies(o, payload)
                    /\ store'[payload[name][2]] = Data(store, ins[i])[name]
  BY DEF Found
<1> USE DEF InputLists
<1> DEFINE raw == RawInputs(ins)
           new == [j \in DOMAIN raw |-> ins[raw[j][1]][raw[j][2]]]
<1>1. store' = store \o new BY DEF WithRawData
<1>2. ins[i] \in GivenInputs /\ \A k \in 1..n : IsFiniteSet(DOMAIN ins[k]) BY GivenInputsAre
<1>3. Listed(raw, ins, n)
  <2>1. DOMAIN ins = 1..n OBVIOUS
  <2> QED BY <1>2, <2>1, RawInputsAreListed
<1> HIDE DEF raw
<1>4. Len(raw) \in Nat /\ DOMAIN raw = 1..Len(raw) BY <1>3, SequenceIs DEF Listed
<1>5. \A j \in DOMAIN raw : new[j] = ins[raw[j][1]][raw[j][2]] OBVIOUS
<1>6. new = [j \in 1..Len(raw) |-> new[j]] BY <1>4
<1> HIDE DEF new
<1>7. IsSequence(new) /\ Len(new) = Len(raw) BY <1>4, <1>6, ListIsSequence
<1>8. /\ \A k \in 1..Len(store) : store'[k] = store[k]
      /\ \A k \in 1..Len(raw) : store'[Len(store) + k] = new[k]
  BY <1>1, <1>7, SequencesJoin
<1>9. payload = [x \in DOMAIN ins[i] |->
                  IF x \in RawNames(ins[i]) THEN <<"id", IdOf(raw, i, x)>> ELSE ins[i][x]]
  BY DEF PayloadInputs, raw
<1>10. payload[name][2] \in Dependencies(o, payload)
  <2>1. name \in DOMAIN payload BY <1>9
  <2> QED BY <2>1 DEF Dependencies
<1>11. Data(store, ins[i])[name]
         = IF ins[i][name][1] = "id" THEN store[ins[i][name][2]] ELSE ins[i][name]
  BY DEF Data
<1>12. CASE ins[i][name] = <<"data", ins[i][name][2]>>
  <2>1. ins[i][name][1] = "data" BY <1>12
  <2>2. name \in RawNames(ins[i]) BY <2>1 DEF RawNames
  <2> DEFINE j == CHOOSE k \in DOMAIN raw : raw[k] = <<i, name>>
  <2>3. j \in DOMAIN raw /\ raw[j] = <<i, name>> BY <1>3, <2>2 DEF Listed
  <2>4. IdOf(raw, i, name) = Len(store) + j BY DEF IdOf, NewId
  <2> HIDE DEF j
  <2>5. payload[name] = <<"id", Len(store) + j>> BY <1>9, <2>2, <2>4
  <2>6. store'[Len(store) + j] = new[j] BY <1>4, <1>8, <2>3
  <2>7. new[j] = ins[i][name]
    <3>1. raw[j][1] = i /\ raw[j][2] = name BY <2>3
    <3> QED BY <1>5, <2>3, <3>1
  <2> QED BY <1>10, <1>11, <2>1, <2>5, <2>6, <2>7
<1>13. ASSUME NEW k \in Uploaded, ins[i][name] = <<"id", k>>
       PROVE  payload[name][1] = "id" /\ store'[payload[name][2]] = Data(store, ins[i])[name]
  <2>1. ins[i][name][1] = "id" /\ ins[i][name][2] = k BY <1>13
  <2>2. name \notin RawNames(ins[i]) BY <2>1 DEF RawNames
  <2>3. payload[name] = ins[i][name] BY <1>9, <2>2
  <2>4. k \in 1..Len(store) BY SequenceIs DEF Uploaded
  <2> QED BY <1>8, <1>11, <2>1, <2>3, <2>4
<1> QED BY <1>2, <1>10, <1>12, <1>13, GivenInputsAre
LEMMA NewTaskIs ==
  ASSUME NEW o, NEW asked, NEW dependencies, NEW payload,
         NEW t, t = NewTask(o, asked, dependencies, payload)
  PROVE  /\ Fields \subseteq DOMAIN t /\ t.causes = {}
         /\ t.options = o /\ t.asked = asked
         /\ t.dependencies = dependencies /\ t.payload = payload
  BY DEF NewTask, Fields

(* A task of the convention whose inputs are found, and whose library is   *)
(* among the blobs it depends on, is called with what was asked for.       *)
LEMMA ConventionIsServed ==
  ASSUME NEW o, OptionsOK(o, store), NEW definition, NEW dependencies, NEW method, NEW payload,
         NEW more, Grown(more, store), NEW t,
         t = NewTask(o, Asked(o, definition), dependencies, ToJson(method, payload)),
         o.blob \in dependencies \cup {None},
         InputsIn(t, more) = Data(store, definition.inputs)
  PROVE  Submitted(t, more)
<1>1. /\ Fields \subseteq DOMAIN t /\ t.causes = {}
      /\ t.options = o /\ t.asked = Asked(o, definition)
      /\ t.dependencies = dependencies /\ t.payload = ToJson(method, payload)
  BY NewTaskIs
<1>2. /\ t.asked.kind = "convention" /\ t.asked.library = Meant(o)
      /\ t.asked = [kind |-> "convention", library |-> Meant(o), method |-> t.asked.method,
                    inputs |-> Data(store, definition.inputs)]
  BY <1>1 DEF Asked
<1>3. IsJson(t)
  <2>1. t.payload.format = "json" BY <1>1 DEF ToJson
  <2> QED BY <2>1 DEF IsJson
<1>4. ASSUME Prepared(t) PROVE o.version = ConventionVersion /\ o.stale # TRUE /\ Meant(o) # None /\ o.meant.symbol # None
  <2>1. t.asked.kind # "legacy" BY <1>2
  <2>2. t.options.version = ConventionVersion /\ ~t.options.stale
        /\ None \notin {t.asked.library, t.options.meant.symbol}
    BY <1>4, <2>1 DEF Prepared
  <2> QED BY <1>1, <1>2, <2>2
<1>5. ASSUME Prepared(t)
      PROVE  /\ o.blob = o.meant.blob /\ o.path = o.meant.path /\ o.symbol = o.meant.symbol
             /\ o.blob \in {None} \cup DOMAIN store
  BY <1>4, <1>5 DEF OptionsOK
<1>6. ASSUME Prepared(t) PROVE Loadable(t.options, t.dependencies)
  <2>1. ~(o.path = None /\ o.blob = None) BY <1>4, <1>5, <1>6 DEF Meant
  <2> QED BY <1>1, <1>4, <1>5, <1>6, <2>1 DEF Loadable
<1>7. ASSUME Prepared(t) PROVE LibraryIn(t, more) = Meant(o)
  <2>1. CASE o.blob = None BY <1>1, <1>5, <1>7, <2>1 DEF LibraryIn, Meant
  <2>2. CASE o.blob # None
    <3>1. more[o.blob] = store[o.blob] BY <1>5, <1>7, <2>2 DEF Grown
    <3> QED BY <1>1, <1>5, <1>7, <2>2, <3>1 DEF LibraryIn, Meant
  <2> QED BY <2>1, <2>2
<1>8. ASSUME Prepared(t)
      PROVE  t.asked = [kind |-> "convention", library |-> LibraryIn(t, more),
                        method |-> t.asked.method, inputs |-> InputsIn(t, more)]
  BY <1>1, <1>2, <1>5, <1>7, <1>8
<1>9. t.asked.kind = IF IsJson(t) THEN "convention" ELSE "legacy" BY <1>2, <1>3
<1> QED BY <1>1, <1>3, <1>5, <1>6, <1>8, <1>9 DEF Submitted, Served

(* A submission of definitions (SessionServiceImpl.cpp:302-464).           *)
LEMMA DefinitionsAreServed ==
  ASSUME IsSequence(store), tasks = <<>>, NEW o, OptionsOK(o, store),
         NEW n \in Nat, NEW ds \in [1..n -> Definitions], SubmitDefinitions(o, ds)
  PROVE  Grown(store', store) /\ \A i \in DOMAIN tasks' : Submitted(tasks'[i], store')
<1> DEFINE ins == [i \in DOMAIN ds |-> ds[i].inputs]
           raw == RawInputs(ins)
           new == [j \in DOMAIN raw |-> ins[raw[j][1]][raw[j][2]]]
           given(i) == PayloadInputs(raw, i, ins[i])
           list == [i \in DOMAIN ds |->
                      NewTask(o, Asked(o, ds[i]), Dependencies(o, given(i)),
                              ToJson(ds[i].method_name, given(i)))]
<1>1. DOMAIN ds = 1..n /\ DOMAIN ins = 1..n /\ ins \in [1..n -> GivenInputs]
  <2>1. \A i \in 1..n : ds[i] \in Definitions OBVIOUS
  <2>2. \A i \in 1..n : ds[i].inputs \in GivenInputs BY <2>1 DEF Definitions
  <2> QED BY <2>2
<1>2. store' = store \o new /\ tasks' = tasks \o list BY DEF SubmitDefinitions
<1>3. Grown(store', store)
  <2>1. \A k \in 1..n : IsFiniteSet(DOMAIN ins[k]) BY <1>1, GivenInputsAre
  <2>2. IsSequence(raw) BY <1>1, <2>1, RawInputsAreListed DEF Listed
  <2> HIDE DEF raw
  <2>3. Len(raw) \in Nat /\ DOMAIN raw = 1..Len(raw) BY <2>2, SequenceIs
  <2>4. new = [j \in 1..Len(raw) |-> new[j]] BY <2>3
  <2> HIDE DEF new
  <2>5. IsSequence(new) /\ Len(new) = Len(raw) BY <2>3, <2>4, ListIsSequence
  <2>6. /\ IsSequence(store') /\ Len(store') = Len(store) + Len(new)
        /\ \A k \in 1..Len(store) : store'[k] = store[k]
    BY <1>2, <2>5, SequencesJoin
  <2>7. /\ Len(store) \in Nat /\ DOMAIN store = 1..Len(store)
        /\ DOMAIN store' = 1..Len(store')
    BY <2>6, SequenceIs
  <2> QED BY <2>3, <2>5, <2>6, <2>7 DEF Grown
<1>4. DOMAIN tasks' = 1..n /\ \A i \in 1..n : tasks'[i] = list[i]
  <2>1. list = [i \in 1..n |-> list[i]] BY <1>1
  <2> HIDE DEF list, new
  <2>2. IsSequence(list) /\ Len(list) = n BY <2>1, ListIsSequence
  <2>3. <<>> \in Seq({}) /\ Len(<<>>) = 0 OBVIOUS
  <2>4. IsSequence(tasks) /\ Len(tasks) = 0 BY <2>3 DEF IsSequence
  <2>5. /\ IsSequence(tasks') /\ Len(tasks') = 0 + n
        /\ \A k \in 1..n : tasks'[0 + k] = list[k]
    BY <1>2, <2>2, <2>4, SequencesJoin
  <2>6. DOMAIN tasks' = 1..Len(tasks') BY <2>5, SequenceIs
  <2> QED BY <2>5, <2>6
<1>5. WithRawData(store', store, ins) BY <1>2 DEF WithRawData
<1>6. ASSUME NEW i \in 1..n PROVE Submitted(tasks'[i], store')
  <2> DEFINE payload == given(i)
             t == tasks'[i]
  <2>1. t = NewTask(o, Asked(o, ds[i]), Dependencies(o, payload), ToJson(ds[i].method_name, payload))
    BY <1>1, <1>4
  <2>2. payload = PayloadInputs(RawInputs(ins), i, ins[i]) OBVIOUS
  <2>3. DOMAIN payload = DOMAIN ins[i] BY DEF PayloadInputs
  <2>10. ins[i] = ds[i].inputs BY <1>1
  <2> HIDE DEF payload, t, given, list, ins, raw, new
  <2>4. t.dependencies = Dependencies(o, payload) /\ t.payload = ToJson(ds[i].method_name, payload)
    BY <2>1, NewTaskIs
  <2>5. t.payload.inputs = payload BY <2>4 DEF ToJson
  <2>6. \A name \in DOMAIN ins[i] :
          /\ payload[name][1] = "id" /\ payload[name][2] \in Dependencies(o, payload)
          /\ store'[payload[name][2]] = Data(store, ins[i])[name]
    <3>1. ins \in InputLists(n) BY <1>1 DEF InputLists
    <3>2. Found(store', store, Dependencies(o, payload), ins[i], payload)
      BY <1>5, <2>2, <3>1, InputsAreFound
    <3> QED BY <3>2 DEF Found
  <2>7. InputsIn(t, store') = Data(store, ins[i])
    <3>1. InputsIn(t, store') = [name \in DOMAIN ins[i] |-> store'[payload[name][2]]]
      BY <2>3, <2>4, <2>5, <2>6 DEF InputsIn
    <3>2. Data(store, ins[i])
            = [name \in DOMAIN ins[i] |->
                 IF ins[i][name][1] = "id" THEN store[ins[i][name][2]] ELSE ins[i][name]]
      BY DEF Data
    <3> QED BY <2>6, <3>1, <3>2
  <2>8. o.blob \in Dependencies(o, payload) \cup {None} BY DEF Dependencies
  <2>9. Submitted(t, store') BY <1>3, <2>1, <2>7, <2>8, <2>10, ConventionIsServed
  <2> QED BY <2>9 DEF t
<1> QED BY <1>3, <1>4, <1>6
LEMMA FirstTask ==
  ASSUME tasks = <<>>, NEW t, tasks' = Append(tasks, t)
  PROVE  DOMAIN tasks' = {1} /\ tasks'[1] = t
<1>1. <<>> \in Seq({}) /\ Len(<<>>) = 0 OBVIOUS
<1>2. IsSequence(tasks) /\ Len(tasks) = 0 BY <1>1 DEF IsSequence
<1>3. /\ IsSequence(tasks') /\ Len(tasks') = 0 + 1 /\ tasks'[0 + 1] = t
  BY <1>2, SequenceAppended
<1> QED BY <1>3, SequenceIs

(* A request of a client whose inputs are in the payload.                  *)
LEMMA ForeignIsServed ==
  ASSUME IsSequence(store), tasks = <<>>, SubmitForeign
  PROVE  Grown(store', store) /\ \A i \in DOMAIN tasks' : Submitted(tasks'[i], store')
<1>1. PICK d \in Descriptions, version \in {ConventionVersion, "v2"},
           inputs \in {ins \in InputSets : RawNames(ins) = DOMAIN ins /\ IsText(ins)} :
        LET l == [path |-> d.path, symbol |-> d.symbol, blob |-> None]
            o == [WithLibrary(NoOptions, l) EXCEPT !.version = version]
            definition == [method_name |-> None, inputs |-> inputs]
        IN  tasks' = Append(tasks, NewTask(o, Asked(o, definition), {}, ToJson(None, inputs)))
  BY DEF SubmitForeign
<1> DEFINE l == [path |-> d.path, symbol |-> d.symbol, blob |-> None]
           w == WithLibrary(NoOptions, l)
           o == [w EXCEPT !.version = version]
           definition == [method_name |-> None, inputs |-> inputs]
           t == NewTask(o, Asked(o, definition), {}, ToJson(None, inputs))
<1>2. DOMAIN tasks' = {1} /\ tasks'[1] = t BY <1>1, FirstTask
<1>3. Grown(store, store) /\ store' = store BY DEF Grown, SubmitForeign
<1>4. OptionsOK(o, store) /\ o.blob = None
  <2>1. /\ o.path = d.path /\ o.symbol = d.symbol /\ o.meant = l /\ o.blob = None /\ o.stale = FALSE
    BY DEF WithLibrary, NoOptions
  <2>2. l.path = d.path /\ l.symbol = d.symbol /\ l.blob = None OBVIOUS
  <2> HIDE DEF l, o
  <2> QED BY <2>1, <2>2 DEF OptionsOK
<1>5. \A name \in DOMAIN inputs : inputs[name][1] = "data" BY DEF RawNames
<1>6. t.dependencies = {} /\ t.payload.inputs = inputs BY DEF NewTask, ToJson
<1> HIDE DEF l, w, o
<1>7. InputsIn(t, store) = Data(store, inputs)
  <2> HIDE DEF t
  <2>1. InputsIn(t, store) = [name \in DOMAIN inputs |-> inputs[name]] BY <1>5, <1>6 DEF InputsIn
  <2>2. Data(store, inputs) = [name \in DOMAIN inputs |-> inputs[name]] BY <1>5 DEF Data
  <2> QED BY <2>1, <2>2
<1>8. t = NewTask(o, Asked(o, definition), {}, ToJson(None, inputs)) /\ definition.inputs = inputs OBVIOUS
<1> HIDE DEF t, definition
<1>9. Submitted(t, store) BY <1>3, <1>4, <1>7, <1>8, ConventionIsServed
<1> QED BY <1>2, <1>3, <1>9

LEMMA MaxSizeIsUsable == MaxSize \in Nat /\ MaxSize >= 1
<1>1. Width \in Nat /\ Width \in 0..Width /\ Width - 1 \in 0..Width /\ Width # 0 BY FormatAssumption
<1>2. Weight[Width] = Base * Weight[Width - 1] /\ Weight[Width - 1] \in Nat \ {0}
  BY <1>1, WeightIs
<1>3. PICK w \in Nat \ {0} : w = Weight[Width - 1] BY <1>2
<1>4. Base \in Nat /\ Base >= 2 BY FormatAssumption
<1>5. Base * w \in Nat /\ Base * w >= 2 BY <1>4
<1> QED BY <1>2, <1>3, <1>5 DEF MaxSize

(* A legacy payload, whose dependencies are in it as well.                 *)
LEMMA PayloadIsServed ==
  ASSUME IsSequence(store), tasks = <<>>, NEW o, NEW p \in LegacyPayloads, SubmitPayload(o, p)
  PROVE  Grown(store', store) /\ \A i \in DOMAIN tasks' : Submitted(tasks'[i], store')
<1>1. Grown(store', store) BY DEF Grown, SubmitPayload
<1>2. PICK dependencies \in {<<>>} \cup {<<k>> : k \in DOMAIN store} :
        tasks' = Append(tasks,
          NewTask(o, [kind |-> "legacy", method |-> p.method, arguments |-> p.arguments],
                  ToSet(dependencies), ToBinary(LegacyPayload(p, dependencies))))
  BY DEF SubmitPayload
<1> DEFINE asked == [kind |-> "legacy", method |-> p.method, arguments |-> p.arguments]
           payload == ToBinary(LegacyPayload(p, dependencies))
           t == NewTask(o, asked, ToSet(dependencies), payload)
           fields == [k \in DOMAIN dependencies |-> <<Base + dependencies[k]>>]
<1>3. DOMAIN tasks' = {1} /\ tasks'[1] = t BY <1>2, FirstTask
<1>4. /\ Fields \subseteq DOMAIN t /\ t.causes = {} /\ t.options = o /\ t.asked = asked
      /\ t.payload = payload
  <2>1. t = NewTask(o, asked, ToSet(dependencies), payload) OBVIOUS
  <2> HIDE DEF t, asked, payload
  <2> QED BY <2>1, NewTaskIs
<1>5. /\ asked.kind = "legacy" /\ asked.method = p.method /\ asked.arguments = p.arguments
      /\ asked = [kind |-> "legacy", method |-> asked.method, arguments |-> asked.arguments]
  OBVIOUS
<1>6. payload.format = "binary" /\ payload.characters = Serialize(LegacyPayload(p, dependencies))
  BY DEF ToBinary
<1>7. LegacyPayload(p, dependencies)
        = [method |-> p.method, arguments |-> p.arguments, dependencies |-> fields]
  BY DEF LegacyPayload
<1>8. fields \in Seq(Seq(Nat)) /\ \A k \in 1..Len(fields) : Len(fields[k]) = 1
  <2>1. CASE dependencies = <<>>
    <3>1. fields = <<>> BY <2>1
    <3> HIDE DEF fields
    <3> QED BY <3>1
  <2>2. ASSUME NEW j \in DOMAIN store, dependencies = <<j>>
        PROVE  fields \in Seq(Seq(Nat)) /\ \A k \in 1..Len(fields) : Len(fields[k]) = 1
    <3>1. Base + j \in Nat
      <4>1. j \in Nat BY SequenceIs
      <4> QED BY <4>1, FormatAssumption
    <3>2. <<Base + j>> \in Seq(Nat) /\ Len(<<Base + j>>) = 1 BY <3>1
    <3>3. DOMAIN dependencies = 1..1 /\ dependencies[1] = j BY <2>2
    <3>4. fields = [k \in 1..1 |-> <<Base + j>>] BY <3>3
    <3> HIDE DEF fields
    <3>5. fields \in [1..1 -> Seq(Nat)] BY <3>2, <3>4
    <3>6. fields \in Seq(Seq(Nat)) /\ Len(fields) = 1
      <4>1. PICK n : n = 1 OBVIOUS
      <4>2. n \in Nat BY <4>1
      <4> DEFINE X == Seq(Nat)
      <4>3. fields \in [1..n -> X] BY <3>5, <4>1
      <4> HIDE DEF X
      <4>4. fields \in Seq(X) /\ Len(fields) = n BY <4>2, <4>3
      <4> QED BY <4>1, <4>4 DEF X
    <3>7. \A k \in 1..1 : fields[k] = <<Base + j>> BY <3>4
    <3> QED BY <3>2, <3>6, <3>7
  <2> QED BY <2>1, <2>2
<1> HIDE DEF t, asked, payload, fields
<1>9. ~IsJson(t)
  <2>1. t.payload.format = "binary" BY <1>4, <1>6
  <2> QED BY <2>1 DEF IsJson
<1>10. ASSUME Prepared(t)
       PROVE  o.version = None /\ Len(p.method) <= MaxSize /\ Len(p.arguments) <= MaxSize
  BY <1>4, <1>5, <1>10 DEF Prepared
<1>11. ASSUME Prepared(t)
       PROVE  Deserialize(payload.characters)
                = [ok |-> TRUE, method |-> p.method, arguments |-> p.arguments]
  <2>1. p.method \in Seq(Nat) /\ p.arguments \in Seq(Nat) BY InputAssumption
  <2>2. \A k \in 1..Len(fields) : Len(fields[k]) <= MaxSize BY <1>8, MaxSizeIsUsable
  <2>3. Deserialize(Serialize([method |-> p.method, arguments |-> p.arguments,
                               dependencies |-> fields]))
          = [ok |-> TRUE, method |-> p.method, arguments |-> p.arguments]
    BY <1>8, <1>10, <1>11, <2>1, <2>2, PayloadsAreRead
  <2> QED BY <1>6, <1>7, <2>3
<1>12. Submitted(t, store')
  <2>1. t.asked.kind = IF IsJson(t) THEN "convention" ELSE "legacy" BY <1>4, <1>5, <1>9
  <2>2. ASSUME Prepared(t)
        PROVE  /\ t.options.version = None
               /\ t.asked = [kind |-> "legacy", method |-> t.asked.method,
                             arguments |-> t.asked.arguments]
               /\ Deserialize(t.payload.characters)
                    = [ok |-> TRUE, method |-> t.asked.method, arguments |-> t.asked.arguments]
    BY <1>4, <1>5, <1>10, <1>11, <2>2
  <2> QED BY <1>4, <1>9, <2>1, <2>2 DEF Submitted, Served
<1> QED BY <1>1, <1>3, <1>12
-----------------------------------------------------------------------------
(* What the worker makes of a task (DynamicWorker.cpp:100-186).            *)
LEMMA CausesAre ==
  ASSUME NEW t
  PROVE  /\ Permanent(t) \subseteq {"version", "library", "blob", "payload", "symbol"}
         /\ "version" \in Permanent(t) => IsConvention(t) /\ t.options.version # ConventionVersion
         /\ "library" \in Permanent(t)
              => IsConvention(t) /\ t.options.path = None /\ t.options.blob = None
         /\ "blob" \in Permanent(t)
              => IsConvention(t) /\ t.options.blob \notin t.dependencies \cup {None}
         /\ "payload" \in Permanent(t) <=> IsConvention(t) /\ ~IsJson(t)
         /\ "symbol" \in Permanent(t) => IsConvention(t) /\ t.options.symbol = None
         /\ Transient(t) \subseteq {"payload", "errno", "text"}
         /\ "payload" \in Transient(t)
              <=> ~IsConvention(t) /\ (IsJson(t) \/ ~Deserialize(t.payload.characters).ok)
<1>1. PICK v \in BOOLEAN, l \in BOOLEAN, b \in BOOLEAN, p \in BOOLEAN, s \in BOOLEAN :
        /\ v = (t.options.version # ConventionVersion)
        /\ l = (t.options.path = None /\ t.options.blob = None)
        /\ b = (t.options.blob \notin t.dependencies \cup {None})
        /\ p = ~IsJson(t) /\ s = (t.options.symbol = None)
  OBVIOUS
<1> DEFINE wrong == [version |-> v, library |-> l, blob |-> b, payload |-> p, symbol |-> s]
<1>2. Permanent(t) = {c \in DOMAIN wrong : IsConvention(t) /\ wrong[c]} BY <1>1 DEF Permanent
<1>3. /\ DOMAIN wrong = {"version", "library", "blob", "payload", "symbol"}
      /\ wrong["version"] = v /\ wrong["library"] = l /\ wrong["blob"] = b
      /\ wrong["payload"] = p /\ wrong["symbol"] = s
  OBVIOUS
<1> HIDE DEF wrong
<1>4. /\ Permanent(t) \subseteq {"version", "library", "blob", "payload", "symbol"}
      /\ "version" \in Permanent(t) <=> IsConvention(t) /\ v
      /\ "library" \in Permanent(t) <=> IsConvention(t) /\ l
      /\ "blob" \in Permanent(t) <=> IsConvention(t) /\ b
      /\ "payload" \in Permanent(t) <=> IsConvention(t) /\ p
      /\ "symbol" \in Permanent(t) <=> IsConvention(t) /\ s
  BY <1>2, <1>3
<1>5. PICK q \in BOOLEAN, e \in BOOLEAN, x \in BOOLEAN :
        /\ q = (~IsConvention(t) /\ (IsJson(t) \/ ~Deserialize(t.payload.characters).ok))
        /\ e = (~IsConvention(t) /\ errno)
        /\ x = (IsConvention(t) /\ IsJson(t) /\ ~IsText(Resolved(t)))
  OBVIOUS
<1> DEFINE failed == [payload |-> q, errno |-> e, text |-> x]
<1>6. Transient(t) = {c \in DOMAIN failed : failed[c]} BY <1>5 DEF Transient
<1>7. DOMAIN failed = {"payload", "errno", "text"} /\ failed["payload"] = q OBVIOUS
<1> HIDE DEF failed
<1>8. Transient(t) \subseteq {"payload", "errno", "text"} /\ ("payload" \in Transient(t) <=> q)
  BY <1>6, <1>7
<1> QED BY <1>1, <1>4, <1>5, <1>8

LEMMA WorkerFinds ==
  ASSUME NEW t, Served(t, store)
  PROVE  /\ Prepared(t) => Permanent(t) = {} /\ Transient(t) \subseteq {"errno", "text"}
         /\ (Permanent(t) = {} /\ Transient(t) = {})
              => Called(t).kind = t.asked.kind /\ (Prepared(t) => Answers(t, Called(t)))
<1>1. t.asked.kind = IF IsJson(t) THEN "convention" ELSE "legacy" BY DEF Served
<1>2. None # ConventionVersion BY InputAssumption
<1>3. ASSUME Prepared(t), IsJson(t)
      PROVE  /\ IsConvention(t) /\ Loadable(t.options, t.dependencies)
             /\ Permanent(t) = {} /\ Transient(t) \subseteq {"errno", "text"}
  <2>1. Loadable(t.options, t.dependencies) BY <1>3 DEF Served
  <2>2. IsConvention(t) BY <1>2, <2>1 DEF Loadable, IsConvention
  <2>3. Permanent(t) = {} BY <1>3, <2>1, CausesAre DEF Loadable
  <2>4. Transient(t) \subseteq {"errno", "text"} BY <2>2, CausesAre
  <2> QED BY <2>1, <2>2, <2>3, <2>4
<1>4. ASSUME Prepared(t), ~IsJson(t)
      PROVE  /\ ~IsConvention(t)
             /\ Permanent(t) = {} /\ Transient(t) \subseteq {"errno", "text"}
  <2>1. /\ t.options.version = None
        /\ Deserialize(t.payload.characters)
             = [ok |-> TRUE, method |-> t.asked.method, arguments |-> t.asked.arguments]
    BY <1>4 DEF Served
  <2>2. ~IsConvention(t) BY <2>1 DEF IsConvention
  <2>3. Permanent(t) = {} BY <2>2, CausesAre
  <2>4. Deserialize(t.payload.characters).ok BY <2>1
  <2>5. Transient(t) \subseteq {"errno", "text"} BY <1>4, <2>4, CausesAre
  <2> QED BY <2>2, <2>3, <2>5
<1>5. ASSUME Permanent(t) = {}, Transient(t) = {}
      PROVE  (IsConvention(t) <=> IsJson(t)) /\ Called(t).kind = t.asked.kind
  <2>1. IsConvention(t) <=> IsJson(t) BY <1>5, CausesAre
  <2>2. Called(t).kind = IF IsConvention(t) THEN "convention" ELSE "legacy" BY DEF Called
  <2> QED BY <1>1, <2>1, <2>2
<1>6. ASSUME Prepared(t), IsJson(t) PROVE Answers(t, Called(t))
  <2>1. /\ IsConvention(t) /\ t.options.blob \in t.dependencies \cup {None} BY <1>3, <1>6 DEF Loadable
  <2>2. Library(t) = LibraryIn(t, store) BY <2>1 DEF Library, Available, LibraryIn
  <2>3. Resolved(t) = InputsIn(t, store)
    <3> DEFINE inputs == t.payload.inputs
    <3>1. \A n \in t.dependencies : Available(t)[n] = store[n] BY DEF Available
    <3>2. Resolved(t) = [name \in DOMAIN inputs |->
                           IF inputs[name][1] = "id" /\ inputs[name][2] \in t.dependencies
                           THEN Available(t)[inputs[name][2]] ELSE inputs[name]]
      BY DEF Resolved
    <3>3. InputsIn(t, store) = [name \in DOMAIN inputs |->
                           IF inputs[name][1] = "id" /\ inputs[name][2] \in t.dependencies
                           THEN store[inputs[name][2]] ELSE inputs[name]]
      BY DEF InputsIn
    <3> HIDE DEF inputs
    <3> QED BY <3>1, <3>2, <3>3
  <2>4. Received(ToJson(t.options.symbol, Resolved(t))) = Resolved(t) BY DEF Received, ToJson
  <2>5. Called(t) = [kind |-> "convention", library |-> Library(t), method |-> t.options.symbol,
                     inputs |-> Resolved(t)]
    BY <2>1, <2>4 DEF Called
  <2>6. t.asked = [kind |-> "convention", library |-> LibraryIn(t, store),
                   method |-> t.asked.method, inputs |-> InputsIn(t, store)]
        /\ t.options.symbol = t.options.meant.symbol
    BY <1>6 DEF Served
  <2>7. t.asked.kind = "convention" BY <2>6
  <2>8. Called(t) = [kind |-> "convention", library |-> LibraryIn(t, store),
                     method |-> t.options.symbol, inputs |-> InputsIn(t, store)]
    BY <2>2, <2>3, <2>5
  <2>9. CASE NamesAnother(t)
    <3>1. Called(t) = [t.asked EXCEPT !.method = Called(t).method] BY <2>6, <2>8
    <3> QED BY <2>9, <3>1 DEF Answers
  <2>10. CASE ~NamesAnother(t)
    <3>1. t.asked.method = t.options.symbol BY <2>6, <2>7, <2>10 DEF NamesAnother
    <3>2. Called(t) = t.asked BY <2>6, <2>8, <3>1
    <3> QED BY <2>10, <3>2 DEF Answers
  <2> QED BY <2>9, <2>10
<1>7. ASSUME Prepared(t), ~IsJson(t) PROVE Answers(t, Called(t))
  <2>1. /\ t.asked = [kind |-> "legacy", method |-> t.asked.method, arguments |-> t.asked.arguments]
        /\ Deserialize(t.payload.characters)
             = [ok |-> TRUE, method |-> t.asked.method, arguments |-> t.asked.arguments]
    BY <1>7 DEF Served
  <2> DEFINE p == Deserialize(t.payload.characters)
  <2>2. Called(t) = [kind |-> "legacy", method |-> p.method, arguments |-> p.arguments]
    BY <1>4, <1>7 DEF Called
  <2>3. p.method = t.asked.method /\ p.arguments = t.asked.arguments
    <3> HIDE DEF p
    <3>1. p = [ok |-> TRUE, method |-> t.asked.method, arguments |-> t.asked.arguments] BY <2>1 DEF p
    <3> QED BY <3>1
  <2> HIDE DEF p
  <2>4. Called(t) = t.asked BY <2>1, <2>2, <2>3
  <2>5. ~NamesAnother(t) BY <1>1, <1>7 DEF NamesAnother
  <2> QED BY <2>4, <2>5 DEF Answers
<1> QED BY <1>3, <1>4, <1>5, <1>6, <1>7
-----------------------------------------------------------------------------
(* The invariant: what was submitted stays as it was, with the blobs it    *)
(* refers to, and what user code was called with is what the task says.    *)
Harmless(t) == Prepared(t) => t.causes \subseteq {"errno", "text"}
Kept(t, blobs) == Fields \subseteq DOMAIN t /\ Served(t, blobs) /\ Harmless(t)
AsAsked(t, what) == what.kind = t.asked.kind /\ (Prepared(t) => Answers(t, what))

DispatchInv ==
  /\ ClientOK
  /\ \A i \in DOMAIN tasks : Kept(tasks[i], store)
  /\ \A c \in calls : c.task \in DOMAIN tasks /\ AsAsked(tasks[c.task], c.what)

(* Trying a task changes how often it was tried, its status and causes.    *)
LEMMA TriedTask ==
  ASSUME NEW t, Served(t, store), NEW u, Fields \subseteq DOMAIN u,
         u.options = t.options, u.asked = t.asked,
         u.dependencies = t.dependencies, u.payload = t.payload
  PROVE  /\ Served(u, store) /\ (Prepared(u) <=> Prepared(t))
         /\ \A what : AsAsked(u, what) <=> AsAsked(t, what)
<1>1. Prepared(u) <=> Prepared(t) BY DEF Prepared
<1>2. IsJson(u) <=> IsJson(t) BY DEF IsJson
<1>3. LibraryIn(u, store) = LibraryIn(t, store) BY DEF LibraryIn
<1>4. InputsIn(u, store) = InputsIn(t, store) BY DEF InputsIn
<1>5. Served(u, store) BY <1>1, <1>2, <1>3, <1>4 DEF Served
<1>6. \A what : Answers(u, what) <=> Answers(t, what) BY DEF Answers, NamesAnother
<1> QED BY <1>1, <1>5, <1>6 DEF AsAsked

LEMMA TriedIs ==
  ASSUME NEW t, Fields \subseteq DOMAIN t, NEW outcome, NEW u, u = Ended(t, outcome)
  PROVE  /\ DOMAIN u = DOMAIN t /\ u.options = t.options /\ u.asked = t.asked
         /\ u.dependencies = t.dependencies /\ u.payload = t.payload /\ u.causes = t.causes
<1>1. PICK a, s : u = [t EXCEPT !.attempts = a, !.status = s] BY DEF Ended
<1> QED BY <1>1 DEF Fields

LEMMA DispatchStarts == Init => DispatchInv
<1> SUFFICES ASSUME Init PROVE DispatchInv
  OBVIOUS
<1>1. ClientOK BY ClientInit
<1>2. tasks = <<>> /\ calls = {} BY DEF Init
<1>3. DOMAIN <<>> = {} OBVIOUS
<1>4. \A i \in DOMAIN tasks : Kept(tasks[i], store) BY <1>2, <1>3
<1>5. \A c \in calls : c.task \in DOMAIN tasks /\ AsAsked(tasks[c.task], c.what) BY <1>2
<1> QED BY <1>1, <1>4, <1>5 DEF DispatchInv

(* Before there is a task, no user code was called.                        *)
LEMMA NoCallsYet == ASSUME DispatchInv, tasks = <<>> PROVE calls = {}
<1>1. DOMAIN <<>> = {} OBVIOUS
<1> QED BY <1>1 DEF DispatchInv

LEMMA PreparationKeeps ==
  ASSUME DispatchInv, OpenSession \/ DescribeLibrary \/ UploadLibrary \/ SetDynamicLibrary
  PROVE  DispatchInv'
<1>1. ClientOK' BY ClientPrepares DEF DispatchInv
<1>2. UNCHANGED <<tasks, calls>> /\ (tasks = <<>> \/ UNCHANGED store)
  BY DEF OpenSession, DescribeLibrary, UploadLibrary, SetDynamicLibrary, OneRequest
<1>3. \A i \in DOMAIN tasks' : Kept(tasks'[i], store')
  <2>1. CASE tasks = <<>>
    <3>1. DOMAIN <<>> = {} OBVIOUS
    <3> QED BY <1>2, <2>1, <3>1
  <2>2. CASE UNCHANGED store
    <3>1. \A i \in DOMAIN tasks : Kept(tasks[i], store) BY DEF DispatchInv
    <3>2. store' = store /\ tasks' = tasks BY <1>2, <2>2
    <3> QED BY <3>1, <3>2
  <2> QED BY <1>2, <2>1, <2>2
<1>4. \A c \in calls' : c.task \in DOMAIN tasks' /\ AsAsked(tasks'[c.task], c.what)
  BY <1>2 DEF DispatchInv
<1> QED BY <1>1, <1>3, <1>4 DEF DispatchInv

LEMMA RequestsKeep ==
  ASSUME DispatchInv, Submit \/ OtherClient
  PROVE  DispatchInv'
<1>1. /\ tasks = <<>> /\ taskOptions # None /\ UNCHANGED <<taskOptions, options, lib, calls>>
  BY DEF Submit, OtherClient, OneRequest
<1>2. /\ IsSequence(store) /\ OptionsOK(options, store) /\ OptionsOK(taskOptions, store)
  BY <1>1 DEF DispatchInv, ClientOK
<1>3. Grown(store', store) /\ \A i \in DOMAIN tasks' : Submitted(tasks'[i], store')
  <2>1. CASE Submit
    <3>1. PICK o \in {options, taskOptions} :
            \/ \E n \in 1..MaxTasks : \E ds \in [1..n -> Definitions] : SubmitDefinitions(o, ds)
            \/ \E p \in LegacyPayloads : SubmitPayload(o, p)
      BY <2>1 DEF Submit
    <3>2. OptionsOK(o, store) BY <1>2
    <3>3. ASSUME NEW n \in 1..MaxTasks, NEW ds \in [1..n -> Definitions], SubmitDefinitions(o, ds)
          PROVE  Grown(store', store) /\ \A i \in DOMAIN tasks' : Submitted(tasks'[i], store')
      <4>1. n \in Nat OBVIOUS
      <4> QED BY <1>1, <1>2, <3>2, <3>3, <4>1, DefinitionsAreServed
    <3>4. ASSUME NEW p \in LegacyPayloads, SubmitPayload(o, p)
          PROVE  Grown(store', store) /\ \A i \in DOMAIN tasks' : Submitted(tasks'[i], store')
      BY <1>1, <1>2, <3>4, PayloadIsServed
    <3> QED BY <3>1, <3>3, <3>4
  <2>2. CASE OtherClient BY <1>1, <1>2, <2>2, ForeignIsServed DEF OtherClient
  <2> QED BY <2>1, <2>2
<1>4. ClientOK' BY <1>1, <1>3, ClientStaysOK DEF DispatchInv
<1>5. \A i \in DOMAIN tasks' : Kept(tasks'[i], store') BY <1>3 DEF Submitted, Kept, Harmless
<1>6. calls' = {} BY <1>1, NoCallsYet
<1> QED BY <1>4, <1>5, <1>6 DEF DispatchInv

LEMMA ExecutionKeeps ==
  ASSUME DispatchInv, Execute
  PROVE  DispatchInv'
<1>1. UNCHANGED <<taskOptions, lib, options, store>> BY DEF Execute
<1>2. ClientOK' BY <1>1 DEF DispatchInv, ClientOK
<1>3. PICK i \in DOMAIN tasks : Refuse(i) \/ Call(i) BY DEF Execute
<1>4. PICK t : t = tasks[i] OBVIOUS
<1>5. Fields \subseteq DOMAIN t /\ Served(t, store) /\ Harmless(t)
  BY <1>3, <1>4 DEF DispatchInv, Kept
<1>6. \E u : /\ tasks' = [tasks EXCEPT ![i] = u]
             /\ Fields \subseteq DOMAIN u /\ u.options = t.options /\ u.asked = t.asked
             /\ u.dependencies = t.dependencies /\ u.payload = t.payload /\ Harmless(u)
  <2>1. CASE Refuse(i)
    <3>1. PICK outcome : tasks' = [tasks EXCEPT ![i] =
            [Ended(t, outcome) EXCEPT !.causes = @ \cup Permanent(t) \cup Transient(t)]]
      BY <1>4, <2>1 DEF Refuse
    <3> DEFINE e == Ended(t, outcome)
               more == e.causes \cup Permanent(t) \cup Transient(t)
               u == [e EXCEPT !.causes = more]
    <3>2. /\ DOMAIN e = DOMAIN t /\ e.options = t.options /\ e.asked = t.asked
          /\ e.dependencies = t.dependencies /\ e.payload = t.payload /\ e.causes = t.causes
      BY <1>5, TriedIs
    <3> HIDE DEF e
    <3>3. tasks' = [tasks EXCEPT ![i] = u] BY <3>1 DEF e
    <3> HIDE DEF more
    <3>4. /\ DOMAIN u = DOMAIN t /\ u.options = t.options /\ u.asked = t.asked
          /\ u.dependencies = t.dependencies /\ u.payload = t.payload /\ u.causes = more
      BY <1>5, <3>2 DEF Fields
    <3> HIDE DEF u
    <3>5. Prepared(u) <=> Prepared(t) BY <3>4 DEF Prepared
    <3>6. Harmless(u)
      <4>1. ASSUME Prepared(t) PROVE more \subseteq {"errno", "text"}
        <5>1. Permanent(t) = {} /\ Transient(t) \subseteq {"errno", "text"}
          BY <1>5, <4>1, WorkerFinds
        <5> QED BY <1>5, <3>2, <4>1, <5>1 DEF Harmless, more
      <4> QED BY <3>4, <3>5, <4>1 DEF Harmless
    <3> QED BY <1>5, <3>3, <3>4, <3>6
  <2>2. CASE Call(i)
    <3>1. PICK outcome : tasks' = [tasks EXCEPT ![i] = Ended(t, outcome)] BY <1>4, <2>2 DEF Call
    <3> DEFINE u == Ended(t, outcome)
    <3>2. /\ DOMAIN u = DOMAIN t /\ u.options = t.options /\ u.asked = t.asked
          /\ u.dependencies = t.dependencies /\ u.payload = t.payload /\ u.causes = t.causes
      BY <1>5, TriedIs
    <3>3. tasks' = [tasks EXCEPT ![i] = u] BY <3>1
    <3> HIDE DEF u
    <3>4. Prepared(u) <=> Prepared(t) BY <3>2 DEF Prepared
    <3>5. Harmless(u) BY <1>5, <3>2, <3>4 DEF Harmless
    <3> QED BY <1>5, <3>2, <3>3, <3>5
  <2> QED BY <1>3, <2>1, <2>2
<1>7. PICK u : /\ tasks' = [tasks EXCEPT ![i] = u]
               /\ Fields \subseteq DOMAIN u /\ u.options = t.options /\ u.asked = t.asked
               /\ u.dependencies = t.dependencies /\ u.payload = t.payload /\ Harmless(u)
  BY <1>6
<1>8. Served(u, store) /\ \A what : AsAsked(u, what) <=> AsAsked(t, what)
  BY <1>5, <1>7, TriedTask
<1>9. /\ DOMAIN tasks' = DOMAIN tasks /\ tasks'[i] = u
      /\ \A j \in DOMAIN tasks : j # i => tasks'[j] = tasks[j]
  BY <1>3, <1>7
<1>10. \A j \in DOMAIN tasks' : Kept(tasks'[j], store')
  BY <1>1, <1>7, <1>8, <1>9 DEF DispatchInv, Kept
<1>11. ASSUME NEW c \in calls' PROVE c.task \in DOMAIN tasks' /\ AsAsked(tasks'[c.task], c.what)
  <2>1. CASE c \in calls
    <3>1. c.task \in DOMAIN tasks /\ AsAsked(tasks[c.task], c.what) BY <2>1 DEF DispatchInv
    <3> QED BY <1>4, <1>8, <1>9, <3>1
  <2>2. CASE c \notin calls
    <3>1. Call(i)
      <4>1. Refuse(i) => calls' = calls BY DEF Refuse
      <4> QED BY <1>3, <2>2, <4>1
    <3>2. /\ calls' = calls \cup {[task |-> i, what |-> Called(t)]}
          /\ Permanent(t) \cup Transient(t) = {}
      BY <1>4, <3>1 DEF Call
    <3>3. c = [task |-> i, what |-> Called(t)] BY <2>2, <3>2
    <3>4. c.task = i /\ c.what = Called(t) BY <3>3
    <3>5. AsAsked(t, Called(t)) BY <1>5, <3>2, WorkerFinds DEF AsAsked
    <3> QED BY <1>3, <1>8, <1>9, <3>4, <3>5
  <2> QED BY <2>1, <2>2
<1> QED BY <1>2, <1>10, <1>11 DEF DispatchInv

LEMMA NextKeeps == DispatchInv /\ [Next]_vars => DispatchInv'
<1> SUFFICES ASSUME DispatchInv, [Next]_vars PROVE DispatchInv'
  OBVIOUS
<1>1. ASSUME UNCHANGED <<taskOptions, lib, options, store, tasks, calls>> PROVE DispatchInv'
  <2>1. ClientOK' BY <1>1 DEF DispatchInv, ClientOK
  <2>2. store' = store /\ tasks' = tasks /\ calls' = calls BY <1>1
  <2>3. \A i \in DOMAIN tasks' : Kept(tasks'[i], store') BY <2>2 DEF DispatchInv
  <2>4. \A c \in calls' : c.task \in DOMAIN tasks' /\ AsAsked(tasks'[c.task], c.what)
    BY <2>2 DEF DispatchInv
  <2> QED BY <2>1, <2>3, <2>4 DEF DispatchInv
<1>2. CASE Configure BY <1>1, <1>2 DEF Configure
<1>3. CASE OpenSession \/ DescribeLibrary \/ UploadLibrary \/ SetDynamicLibrary
  BY <1>3, PreparationKeeps
<1>4. CASE Submit \/ OtherClient BY <1>4, RequestsKeep
<1>5. CASE Execute BY <1>5, ExecutionKeeps
<1>6. CASE UNCHANGED vars BY <1>1, <1>6 DEF vars
<1> QED BY <1>2, <1>3, <1>4, <1>5, <1>6 DEF Next

LEMMA DispatchInvariant == Spec => []DispatchInv
<1>1. Init => DispatchInv BY DispatchStarts
<1>2. DispatchInv /\ [Next]_vars => DispatchInv' BY NextKeeps
<1> QED BY <1>1, <1>2, PTL DEF Spec

(* User code is called with what the client asked for, whatever way the    *)
(* request took, and never with a payload of the other format              *)
(* (DynamicWorker.cpp:100-186).                                            *)
THEOREM PreparedTasksAreCalledAsAsked == Spec => []CalledAsAsked
<1>1. DispatchInv => CalledAsAsked BY DEF DispatchInv, CalledAsAsked, AsAsked
<1> QED BY <1>1, DispatchInvariant, PTL

(* A task that was prepared as the guide says is not refused for good.     *)
THEOREM PreparedTasksAreNotRefused == Spec => []RefusedForCause
<1>1. DispatchInv => RefusedForCause BY DEF DispatchInv, RefusedForCause, Kept, Harmless
<1> QED BY <1>1, DispatchInvariant, PTL
=============================================================================
