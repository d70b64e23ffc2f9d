--------------------------- MODULE SharedResources ---------------------------
(***************************************************************************)
(* What the clones of one model share on the GPU                           *)
(* (src/frontend/src/3d/dispose.js, with cloneShared of InstanceFactory.js)*)
(* The clones are made as 3d/index.js tells: cloneShared, then             *)
(* acquireResources; disposeObject3D gives everything back.  The geometry  *)
(* and the material of each mesh of the model are counted once per mesh    *)
(* and clone; a material's texture is a property of the one material that  *)
(* all clones share.                                                       *)
(***************************************************************************)
EXTENDS Naturals, FiniteSets

CONSTANTS
  Clones,
  Meshes,
  Geometry(_),  \* of a mesh
  Material(_),  \* of a mesh
  Texture(_)    \* of a material

ASSUME SizesAssumption == IsFiniteSet(Clones) /\ IsFiniteSet(Meshes)
ASSUME KindsAssumption ==
  \A m, n \in Meshes : Texture(Material(m)) \notin {Geometry(n), Material(n)}

VARIABLES
  clones,    \* those that were made and not disposed of
  refs,      \* refCounter: the count of each resource, 0 when it is not tracked
  textured   \* the materials that still have their texture

resourceVars == <<clones, refs, textured>>

Geometries == {Geometry(m) : m \in Meshes}
Materials == {Material(m) : m \in Meshes}
Textures == {Texture(x) : x \in Materials}
Resources == Geometries \cup Materials \cup Textures

(* How often one clone uses a resource. *)
Uses(r) ==
  IF r \in Geometries THEN Cardinality({m \in Meshes : Geometry(m) = r})
  ELSE Cardinality({m \in Meshes : Material(m) = r})

ResourcesInit ==
  /\ clones = {}
  /\ refs = [r \in Resources |-> 0]
  /\ textured = Materials

(* The number of times traversing one clone meets texture t: at each mesh   *)
(* of a material that still has it.                                         *)
TexturesMet(t) == Cardinality({m \in Meshes : Material(m) \in textured /\ Texture(Material(m)) = t})

(* Mutant: a resource that several meshes of a clone use is counted once. *)
AcquireOnce(c) ==
  /\ c \notin clones
  /\ clones' = clones \cup {c}
  /\ refs' = [r \in Resources |->
       refs[r] + (IF r \in Textures THEN TexturesMet(r) ELSE 1)]
  /\ UNCHANGED textured

(* cloneShared and acquireResources. *)
MakeClone(c) ==
  /\ c \notin clones
  /\ clones' = clones \cup {c}
  /\ refs' = [r \in Resources |->
       refs[r] + (IF r \in Textures THEN TexturesMet(r) ELSE Uses(r))]
  /\ UNCHANGED textured

(* release, n times: a resource whose count has reached 0 is disposed of    *)
(* and forgotten, and releasing it again does nothing.                      *)
Left(r, n) == IF refs[r] > n THEN refs[r] - n ELSE 0

(* disposeObject3D: each mesh releases its geometry and material; a texture *)
(* is released by the first mesh that meets it, which takes it out of the   *)
(* material, for all clones.                                                *)
TexturesTaken(t) == Cardinality({x \in textured : Texture(x) = t})
DisposeClone(c) ==
  /\ c \in clones
  /\ clones' = clones \ {c}
  /\ refs' = [r \in Resources |->
       Left(r, IF r \in Textures THEN TexturesTaken(r) ELSE Uses(r))]
  /\ textured' = {}

ResourcesNext == \E c \in Clones : MakeClone(c) \/ DisposeClone(c)

ResourcesSpec == ResourcesInit /\ [][ResourcesNext]_resourceVars
-----------------------------------------------------------------------------
(* The types of the resources' variables. *)
ResourcesTypeOK ==
  /\ clones \subseteq Clones
  /\ refs \in [Resources -> Nat]
  /\ textured \subseteq Materials

(* A geometry or a material is counted once for each use in a live clone:   *)
(* none is disposed of while one uses it, and none outlives the last.  A    *)
(* texture is counted so too, but only until the first clone is disposed    *)
(* of: that one takes it off the material of all clones, and what the       *)
(* others counted is never given back (dispose.js).                         *)
CountsExact ==
  /\ \A r \in Geometries \cup Materials : refs[r] = Cardinality(clones) * Uses(r)
  /\ textured = Materials =>
       \A t \in Textures : refs[t] = Cardinality(clones) * TexturesMet(t)
=============================================================================
