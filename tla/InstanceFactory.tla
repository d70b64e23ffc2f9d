--------------------------- MODULE InstanceFactory ---------------------------
(***************************************************************************)
(* The instances of one model drawn with GPU instancing                    *)
(* (src/frontend/src/3d/InstanceFactory.js).  An instance is a slot of     *)
(* pre-allocated matrices; the number of the slot is also its id, and the  *)
(* slots of removed instances are used again.  A transform is a model      *)
(* value; Hidden is the matrix of scale zero a removed instance leaves.    *)
(***************************************************************************)
EXTENDS Naturals

CONSTANTS
  MaxCount,    \* maxCount
  Transforms,
  Hidden

ASSUME MaxCountAssumption == MaxCount \in Nat
ASSUME HiddenAssumption == Hidden \notin Transforms

VARIABLES
  instances,  \* instanceData: the transform kept for each live id
  free,       \* freeIndices; which of them is used next does not matter
  count,      \* instanceCount, and the number of slots the meshes draw
  built,      \* there are instanced meshes: dispose has not been called
  matrix,     \* their matrices
  uploaded,   \* those the GPU has
  dirty       \* _needsUpdate

factoryVars == <<instances, free, count, built, matrix, uploaded, dirty>>

Slots == 0 .. MaxCount - 1
Live == DOMAIN instances
NoInstances == [i \in {} |-> Hidden]
Without(f, i) == [j \in DOMAIN f \ {i} |-> f[j]]
With(f, i, t) == [j \in DOMAIN f \cup {i} |-> IF j = i THEN t ELSE f[j]]

FactoryInit ==
  /\ instances = NoInstances
  /\ free = {}
  /\ count = 0
  /\ built = TRUE
  /\ matrix = [i \in Slots |-> Hidden]
  /\ uploaded = [i \in Slots |-> Hidden]
  /\ dirty = FALSE

(* _updateInstanceMatrix, in every mesh there is. *)
Write(i, t) ==
  /\ matrix' = IF built THEN [matrix EXCEPT ![i] = t] ELSE matrix
  /\ dirty' = TRUE
  /\ UNCHANGED <<built, uploaded>>

(* Mutant: a recycled slot stays in the list of free ones. *)
AddKeepsFree(t) ==
  \E i \in Slots :
    /\ IF free # {} THEN i \in free ELSE i = count
    /\ instances' = With(instances, i, t)
    /\ count' = IF i + 1 > count THEN i + 1 ELSE count
    /\ Write(i, t)
    /\ UNCHANGED free

(* addInstance: a recycled slot first, then a new one, while there is room; *)
(* when there is none it returns -1 and changes nothing.                    *)
AddInstance(t) ==
  \E i \in Slots :
    /\ IF free # {} THEN i \in free ELSE i = count
    /\ free' = free \ {i}
    /\ instances' = With(instances, i, t)
    /\ count' = IF i + 1 > count THEN i + 1 ELSE count
    /\ Write(i, t)

RemoveInstance(i) ==
  /\ i \in Live
  /\ free' = free \cup {i}
  /\ instances' = Without(instances, i)
  /\ Write(i, Hidden)
  /\ UNCHANGED count

SetTransform(i, t) ==
  /\ i \in Live
  /\ instances' = With(instances, i, t)
  /\ Write(i, t)
  /\ UNCHANGED <<free, count>>

(* update: the GPU gets the matrices, when any has changed since. *)
Update ==
  /\ dirty
  /\ uploaded' = matrix
  /\ dirty' = FALSE
  /\ UNCHANGED <<instances, free, count, built, matrix>>

(* dispose: the meshes and all that is known of the instances go; what the  *)
(* GPU had of them is not drawn any more.                                   *)
DisposeFactory ==
  /\ instances' = NoInstances
  /\ free' = {}
  /\ count' = 0
  /\ built' = FALSE
  /\ UNCHANGED <<matrix, uploaded, dirty>>

FactoryUse ==
  \/ \E t \in Transforms : AddInstance(t)
  \/ \E i \in Slots : RemoveInstance(i)
  \/ \E i \in Slots, t \in Transforms : SetTransform(i, t)
  \/ Update

FactoryNext == FactoryUse \/ DisposeFactory

FactorySpec == FactoryInit /\ [][FactoryNext]_factoryVars
-----------------------------------------------------------------------------
(* The types of the factory's variables. *)
FactoryTypeOK ==
  /\ Live \subseteq Slots
  /\ instances \in [Live -> Transforms]
  /\ free \subseteq Slots
  /\ count \in 0 .. MaxCount
  /\ built \in BOOLEAN
  /\ matrix \in [Slots -> Transforms \cup {Hidden}]
  /\ uploaded \in [Slots -> Transforms \cup {Hidden}]
  /\ dirty \in BOOLEAN

(* Every slot below the count is either some instance's or free, and none   *)
(* is both: the id of a live instance is never handed out again, and no     *)
(* slot is lost to recycling.                                               *)
SlotsAccounted ==
  /\ Live \cap free = {}
  /\ Live \cup free = 0 .. count - 1

(* The meshes have each live instance where it was put last and nothing in  *)
(* the slots of removed ones, and the GPU has what they have once update    *)
(* was called after the last change.                                        *)
DrawnIsLive ==
  built =>
    /\ \A i \in Slots : matrix[i] = IF i \in Live THEN instances[i] ELSE Hidden
    /\ ~dirty => uploaded = matrix

(* Ids, slots, matrices and the GPU agree, through any sequence of calls.   *)
FactorySound == SlotsAccounted /\ DrawnIsLive
=============================================================================
