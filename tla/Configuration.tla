--------------------------- MODULE Configuration ---------------------------
(***************************************************************************)
(* The objects a program configures a session or a worker with:            *)
(* Configuration, and ControlPlane and ComputePlane, which are made of     *)
(* one.  All own what they proxy through a unique_ptr impl, which is null  *)
(* after a move; get and set of a Configuration cope with that, copies,    *)
(* get_control_plane and the accessors of the planes dereference it.       *)
(* Memory is modelled, so that what an object owns is a fact and not an    *)
(* assumption.                                                             *)
(*                                                                         *)
(* The value of a key is what std::stoi makes of it: a number, or Junk for *)
(* a text that is none (it throws); None when the key is not set.  The     *)
(* planes of the API are kept as the values they were made of.             *)
(***************************************************************************)
EXTENDS Integers

CONSTANTS
  Configs, ControlPlanes, ComputePlanes, \* the objects of the program
  Cells,       \* addresses
  Texts,       \* what a key may be set to: numbers and Junk
  SetKeys,     \* the keys the program sets (bound)
  IntMax,      \* the largest int
  Junk, None, Null

Planes == ControlPlanes \cup ComputePlanes
Objects == Configs \cup Planes

(* The sizes of a control plane, with their defaults; 0 is for "not given".*)
DefaultSize == [WaitBatchSize |-> 200, SubmitBatchSize |-> 200,
                ThreadPoolSize |-> 0, OverrideMessageSize |-> 0]
Keys == DOMAIN DefaultSize
Numbers == Texts \ {Junk}
Empty == [k \in Keys |-> None]

ASSUME ObjectAssumption ==
  /\ Configs \cap Planes = {} /\ ControlPlanes \cap ComputePlanes = {} /\ Null \notin Cells
  /\ Numbers \subseteq Int /\ None \notin Texts /\ IntMax \in Nat /\ IntMax >= 200
  /\ SetKeys \subseteq Keys /\ None \notin [Keys -> Texts \cup {None}]

VARIABLES
  impl,    \* impl[o]: the cell that o owns, or Null
  memory,  \* memory[cell]: the values by key; None: not allocated
  sizes,   \* the sizes a plane has read; None: it is not constructed
  scope    \* "open"; "left": the objects are gone; "crashed": a null
           \* pointer was dereferenced and the program has ended

configVars == <<impl, memory, sizes, scope>>

ConfigInit ==
  /\ \E f \in [Configs -> Cells] :
       /\ \A c, d \in Configs : f[c] = f[d] => c = d
       /\ impl = [o \in Objects |-> IF o \in Configs THEN f[o] ELSE Null]
       /\ memory = [cell \in Cells |-> IF \E c \in Configs : f[c] = cell THEN Empty ELSE None]
  /\ sizes = [p \in Planes |-> None] /\ scope = "open"

-----------------------------------------------------------------------------
(* getIntFromConfig: what is no int or not positive is the default.        *)
(* Mutant: zero is taken.                                                  *)
IntNotNegative(v, default) == IF v \in Numbers /\ v >= 0 /\ v <= IntMax THEN v ELSE default
IntOrDefault(v, default) == IF v \in Numbers /\ v > 0 /\ v <= IntMax THEN v ELSE default
SizesOf(values) == [k \in Keys |-> IntOrDefault(values[k], DefaultSize[k])]

IsFree(cell) == memory[cell] = None
Freed(m, o) == [cell \in Cells |-> IF cell = impl[o] THEN None ELSE m[cell]]

(* set_impl: a moved-from object gets a new and empty configuration.       *)
Set(c) ==
  /\ \E k \in SetKeys, v \in Texts :
       \/ /\ impl[c] # Null
          /\ memory' = [memory EXCEPT ![impl[c]] = [@ EXCEPT ![k] = v]]
          /\ UNCHANGED impl
       \/ /\ impl[c] = Null
          /\ \E cell \in {n \in Cells : IsFree(n)} :
               /\ memory' = [memory EXCEPT ![cell] = [Empty EXCEPT ![k] = v]]
               /\ impl' = [impl EXCEPT ![c] = cell]
  /\ UNCHANGED <<sizes, scope>>

(* The new impl of o is a copy of that of s; the old one is freed after it *)
(* was made.                                                               *)
(* Mutant: the pointer is copied.                                          *)
SharesImpl(o, s) ==
  /\ impl' = [impl EXCEPT ![o] = impl[s]] /\ UNCHANGED memory
CopyImpl(o, s) ==
  \E cell \in {n \in Cells : IsFree(n)} :
    /\ memory' = Freed([memory EXCEPT ![cell] = memory[impl[s]]], o)
    /\ impl' = [impl EXCEPT ![o] = cell]

MoveImpl(o, s) ==
  /\ memory' = Freed(memory, o)
  /\ impl' = [impl EXCEPT ![o] = impl[s], ![s] = Null]

(* Assignments, and the constructors that they stand for.                  *)
CopyConfig(c, d) ==
  /\ impl[d] # Null /\ CopyImpl(c, d)
  /\ UNCHANGED <<sizes, scope>>

(* A unique_ptr that is moved to itself stays as it is.                    *)
MoveConfig(c, d) ==
  /\ c # d /\ MoveImpl(c, d)
  /\ UNCHANGED <<sizes, scope>>

(* The constructors of the planes; a ComputePlane has no sizes.            *)
GetControlPlane(p, c) ==
  /\ impl[c] # Null /\ CopyImpl(p, c)
  /\ sizes' = [sizes EXCEPT ![p] = SizesOf(memory[impl[c]])]
  /\ UNCHANGED scope

GetComputePlane(p, c) ==
  /\ impl[c] # Null /\ CopyImpl(p, c)
  /\ sizes' = [sizes EXCEPT ![p] = <<>>]
  /\ UNCHANGED scope

(* set_worker_address and set_agent_address; bound: an address is a key    *)
(* like the others.                                                        *)
SetAddress(p) ==
  /\ sizes[p] # None /\ impl[p] # Null
  /\ \E k \in SetKeys, v \in Texts : memory' = [memory EXCEPT ![impl[p]] = [@ EXCEPT ![k] = v]]
  /\ UNCHANGED <<impl, sizes, scope>>

CopyPlane(p, q) ==
  /\ sizes[q] # None /\ impl[q] # Null /\ CopyImpl(p, q)
  /\ sizes' = [sizes EXCEPT ![p] = sizes[q]]
  /\ UNCHANGED scope

(* The sizes are integers: a move leaves them in the source as well.       *)
MovePlane(p, q) ==
  /\ p # q /\ sizes[q] # None /\ MoveImpl(p, q)
  /\ sizes' = [sizes EXCEPT ![p] = sizes[q]]
  /\ UNCHANGED scope

(* A moved-from object is copied, or read as a plane.                      *)
UseOfNothing(s) ==
  /\ impl[s] = Null /\ (s \in Planes => sizes[s] # None)
  /\ scope' = "crashed"
  /\ UNCHANGED <<impl, memory, sizes>>

ConfigNext ==
  /\ scope = "open"
  /\ \/ \E c \in Configs : Set(c)
     \/ \E c, d \in Configs : CopyConfig(c, d) \/ MoveConfig(c, d)
     \/ \E p \in ControlPlanes, c \in Configs : GetControlPlane(p, c)
     \/ \E p \in ComputePlanes, c \in Configs : GetComputePlane(p, c)
     \/ \E p \in ComputePlanes : SetAddress(p)
     \/ \E p, q \in Planes :
          /\ p \in ControlPlanes <=> q \in ControlPlanes
          /\ CopyPlane(p, q) \/ MovePlane(p, q)
     \/ \E s \in Objects : UseOfNothing(s)

LeaveScope ==
  /\ scope = "open" /\ scope' = "left"
  /\ impl' = [o \in Objects |-> Null] /\ memory' = [cell \in Cells |-> None]
  /\ sizes' = [p \in Planes |-> None]

ConfigSpec == ConfigInit /\ [][ConfigNext \/ LeaveScope]_configVars

-----------------------------------------------------------------------------
(* What get returns of an object, moved-from or not.                       *)
Value(o) == IF impl[o] = Null THEN Empty ELSE memory[impl[o]]

(* A step changes what one object returns; another one changes only when   *)
(* it gives its impl to the first and is left empty.  Whatever was copied, *)
(* moved and assigned before, no two objects write to the same values.     *)
OneObjectChanges ==
  \E t \in Objects : \A o \in Objects \ {t} :
    Value(o)' = Value(o) \/ (impl'[o] = Null /\ impl'[t] = impl[o])
OthersUntouched == [][scope' # "left" => OneObjectChanges]_configVars

(* What is owned is allocated, and what is allocated is owned by one       *)
(* object: nothing dangles and nothing is lost.                            *)
OwnedOnce ==
  \A cell \in Cells :
    /\ (\E o \in Objects : impl[o] = cell) <=> ~IsFree(cell)
    /\ \A o, s \in Objects : impl[o] = cell /\ impl[s] = cell => o = s

(* Batches have room for one element at least, and the sizes that may be   *)
(* absent are not negative, whatever the texts: a session can always be    *)
(* run with them.                                                          *)
SizesUsable ==
  \A p \in ControlPlanes : sizes[p] # None =>
    /\ \A k \in {"WaitBatchSize", "SubmitBatchSize"} : sizes[p][k] \in 1..IntMax
    /\ \A k \in {"ThreadPoolSize", "OverrideMessageSize"} : sizes[p][k] \in 0..IntMax
=============================================================================
