--------------------------- MODULE Scene3D_proofs ---------------------------
(***************************************************************************)
(* Proofs about the 3D toolkit, for any number of slots, transforms,       *)
(* clones and meshes: the instances drawn are the live ones, the counts of *)
(* shared resources are exact, and the panel's timer runs while the panel  *)
(* can be seen.  Then proofs about the racks of the hall (RackModels) and  *)
(* the model cache they share, for any racks, addresses and loads.         *)
(***************************************************************************)
EXTENDS Scene3D, RackModels, FiniteSetTheorems, TLAPS

-----------------------------------------------------------------------------
(* The instance factory: its own types and properties are inductive         *)
(* together.                                                                *)
FactoryInv == FactoryTypeOK /\ FactorySound

LEMMA FactoryBegins == FactoryInit => FactoryInv
<1> SUFFICES ASSUME FactoryInit PROVE FactoryInv
  OBVIOUS
<1>1. Live = {}
  BY DEF FactoryInit, Live, NoInstances
<1>2. FactoryTypeOK
  <2>1. instances \in [Live -> Transforms]
    BY <1>1 DEF FactoryInit, Live, NoInstances
  <2>2. count \in 0 .. MaxCount
    BY MaxCountAssumption DEF FactoryInit
  <2> QED
    BY <1>1, <2>1, <2>2 DEF FactoryInit, FactoryTypeOK
<1>3. FactorySound
  BY <1>1, MaxCountAssumption DEF FactoryInit, FactorySound, SlotsAccounted, DrawnIsLive
<1> QED
  BY <1>2, <1>3 DEF FactoryInv

(* What Without does to the domain and to the values.                      *)
LEMMA WithoutFacts ==
  ASSUME NEW f, NEW i, NEW S, f \in [DOMAIN f -> S]
  PROVE /\ DOMAIN Without(f, i) = DOMAIN f \ {i}
        /\ Without(f, i) \in [DOMAIN Without(f, i) -> S]
        /\ \A j \in DOMAIN f \ {i} : Without(f, i)[j] = f[j]
  BY DEF Without

(* Writing a slot whose instance has changed leaves the meshes in agreement *)
(* with the instances.                                                      *)
LEMMA WriteDraws ==
  ASSUME FactoryInv, NEW i \in Slots, NEW t \in Transforms \cup {Hidden}, Write(i, t),
         i \in Live' => instances'[i] = t,
         i \notin Live' => t = Hidden,
         Live' \ {i} = Live \ {i},
         \A j \in Live \ {i} : instances'[j] = instances[j]
  PROVE /\ matrix' \in [Slots -> Transforms \cup {Hidden}]
        /\ uploaded' \in [Slots -> Transforms \cup {Hidden}]
        /\ built' \in BOOLEAN /\ dirty' \in BOOLEAN
        /\ DrawnIsLive'
<1>1. /\ matrix \in [Slots -> Transforms \cup {Hidden}]
      /\ uploaded \in [Slots -> Transforms \cup {Hidden}] /\ built \in BOOLEAN
  BY DEF FactoryInv, FactoryTypeOK
<1>2. matrix' = IF built THEN [matrix EXCEPT ![i] = t] ELSE matrix
  BY DEF Write
<1>3. dirty' = TRUE /\ built' = built /\ uploaded' = uploaded
  BY DEF Write
<1>4. matrix' \in [Slots -> Transforms \cup {Hidden}]
  BY <1>1, <1>2
<1>5. ASSUME built, NEW j \in Slots
      PROVE matrix'[j] = IF j \in Live' THEN instances'[j] ELSE Hidden
  <2>1. CASE j = i
    BY <1>1, <1>2, <1>5, <2>1
  <2>2. CASE j # i
    <3>1. matrix'[j] = matrix[j]
      BY <1>1, <1>2, <2>2
    <3>2. matrix[j] = IF j \in Live THEN instances[j] ELSE Hidden
      BY <1>5 DEF FactoryInv, FactorySound, DrawnIsLive
    <3> QED
      BY <2>2, <3>1, <3>2
  <2> QED
    BY <2>1, <2>2
<1> QED
  BY <1>1, <1>3, <1>4, <1>5 DEF DrawnIsLive

LEMMA AddKeeps == ASSUME FactoryInv, NEW t \in Transforms, AddInstance(t) PROVE FactoryInv'
<1> PICK i \in Slots :
      /\ IF free # {} THEN i \in free ELSE i = count
      /\ free' = free \ {i}
      /\ instances' = With(instances, i, t)
      /\ count' = IF i + 1 > count THEN i + 1 ELSE count
      /\ Write(i, t)
  BY DEF AddInstance
<1>1. instances \in [DOMAIN instances -> Transforms] /\ Live \subseteq Slots /\ count \in 0 .. MaxCount
      /\ Live \cap free = {} /\ Live \cup free = 0 .. count - 1
  BY DEF FactoryInv, FactoryTypeOK, FactorySound, SlotsAccounted, Live
<1>2. /\ Live' = Live \cup {i}
      /\ instances' \in [Live' -> Transforms]
      /\ instances'[i] = t
      /\ \A j \in Live \ {i} : instances'[j] = instances[j]
  <2>1. /\ DOMAIN With(instances, i, t) = DOMAIN instances \cup {i}
        /\ With(instances, i, t) \in [DOMAIN instances \cup {i} -> Transforms]
        /\ With(instances, i, t)[i] = t
        /\ \A j \in DOMAIN instances \ {i} : With(instances, i, t)[j] = instances[j]
    BY <1>1 DEF With
  <2> QED
    BY <1>1, <2>1 DEF Live
<1>3. DrawnIsLive' /\ matrix' \in [Slots -> Transforms \cup {Hidden}]
      /\ uploaded' \in [Slots -> Transforms \cup {Hidden}] /\ built' \in BOOLEAN /\ dirty' \in BOOLEAN
  BY <1>2, WriteDraws
<1>4. i \notin Live /\ count' \in 0 .. MaxCount /\ Live' \cup free' = 0 .. count' - 1
  <2>1. CASE free # {}
    <3>1. i \in 0 .. count - 1
      BY <1>1, <2>1
    <3>2. count' = count
      BY <1>1, <3>1
    <3> QED
      BY <1>1, <1>2, <2>1, <3>2
  <2>2. CASE free = {}
    <3>1. i = count /\ count \in Slots
      BY <2>2
    <3>2. count' = count + 1
      BY <1>1, <3>1
    <3> QED
      BY <1>1, <1>2, <2>2, <3>1, <3>2, MaxCountAssumption DEF Slots
  <2> QED
    BY <2>1, <2>2
<1>5. free' \subseteq Slots /\ Live' \subseteq Slots /\ Live' \cap free' = {}
  BY <1>1, <1>2 DEF FactoryInv, FactoryTypeOK
<1> QED
  BY <1>2, <1>3, <1>4, <1>5 DEF FactoryInv, FactoryTypeOK, FactorySound, SlotsAccounted

LEMMA RemoveKeeps == ASSUME FactoryInv, NEW i \in Slots, RemoveInstance(i) PROVE FactoryInv'
<1> USE DEF RemoveInstance
<1>1. instances \in [DOMAIN instances -> Transforms] /\ Live \subseteq Slots /\ i \in Live
      /\ Live \cap free = {} /\ Live \cup free = 0 .. count - 1 /\ free \subseteq Slots
      /\ count \in 0 .. MaxCount
  BY DEF FactoryInv, FactoryTypeOK, FactorySound, SlotsAccounted, Live
<1>2. /\ Live' = Live \ {i}
      /\ instances' \in [Live' -> Transforms]
      /\ \A j \in Live \ {i} : instances'[j] = instances[j]
  BY <1>1, WithoutFacts DEF Live
<1>3. DrawnIsLive' /\ matrix' \in [Slots -> Transforms \cup {Hidden}]
      /\ uploaded' \in [Slots -> Transforms \cup {Hidden}] /\ built' \in BOOLEAN /\ dirty' \in BOOLEAN
  BY <1>2, WriteDraws
<1>4. free' \subseteq Slots /\ Live' \subseteq Slots /\ Live' \cap free' = {}
      /\ Live' \cup free' = 0 .. count' - 1 /\ count' \in 0 .. MaxCount
  BY <1>1, <1>2
<1> QED
  BY <1>2, <1>3, <1>4 DEF FactoryInv, FactoryTypeOK, FactorySound, SlotsAccounted

LEMMA SetKeeps ==
  ASSUME FactoryInv, NEW i \in Slots, NEW t \in Transforms, SetTransform(i, t) PROVE FactoryInv'
<1> USE DEF SetTransform
<1>1. instances \in [DOMAIN instances -> Transforms] /\ i \in Live
  BY DEF FactoryInv, FactoryTypeOK, Live
<1>2. /\ Live' = Live
      /\ instances' \in [Live' -> Transforms]
      /\ instances'[i] = t
      /\ \A j \in Live \ {i} : instances'[j] = instances[j]
  <2>1. /\ DOMAIN With(instances, i, t) = DOMAIN instances \cup {i}
        /\ With(instances, i, t) \in [DOMAIN instances \cup {i} -> Transforms]
        /\ With(instances, i, t)[i] = t
        /\ \A j \in DOMAIN instances \ {i} : With(instances, i, t)[j] = instances[j]
    BY <1>1 DEF With
  <2> QED
    BY <1>1, <2>1 DEF Live
<1>3. DrawnIsLive' /\ matrix' \in [Slots -> Transforms \cup {Hidden}]
      /\ uploaded' \in [Slots -> Transforms \cup {Hidden}] /\ built' \in BOOLEAN /\ dirty' \in BOOLEAN
  BY <1>1, <1>2, WriteDraws
<1> QED
  BY <1>2, <1>3 DEF FactoryInv, FactoryTypeOK, FactorySound, SlotsAccounted

LEMMA FactoryKeeps == FactoryInv /\ [FactoryNext]_factoryVars => FactoryInv'
<1> SUFFICES ASSUME FactoryInv, [FactoryNext]_factoryVars PROVE FactoryInv'
  OBVIOUS
<1>1. ASSUME NEW t \in Transforms, AddInstance(t) PROVE FactoryInv'
  BY <1>1, AddKeeps
<1>2. ASSUME NEW i \in Slots, RemoveInstance(i) PROVE FactoryInv'
  BY <1>2, RemoveKeeps
<1>3. ASSUME NEW i \in Slots, NEW t \in Transforms, SetTransform(i, t) PROVE FactoryInv'
  BY <1>3, SetKeeps
<1>4. CASE Update
  BY <1>4 DEF Update, FactoryInv, FactoryTypeOK, FactorySound, SlotsAccounted, DrawnIsLive, Live
<1>5. CASE DisposeFactory
  <2>1. Live' = {} /\ instances' \in [Live' -> Transforms] /\ count' = 0 /\ free' = {} /\ ~built'
    BY <1>5 DEF DisposeFactory, NoInstances, Live
  <2>2. 0 \in 0 .. MaxCount /\ 0 .. 0 - 1 = {}
    BY MaxCountAssumption
  <2> QED
    BY <1>5, <2>1, <2>2 DEF DisposeFactory, FactoryInv, FactoryTypeOK, FactorySound, SlotsAccounted, DrawnIsLive
<1>6. CASE UNCHANGED factoryVars
  BY <1>6 DEF factoryVars, FactoryInv, FactoryTypeOK, FactorySound, SlotsAccounted, DrawnIsLive, Live
<1> QED
  BY <1>1, <1>2, <1>3, <1>4, <1>5, <1>6 DEF FactoryNext, FactoryUse

-----------------------------------------------------------------------------
(* The shared resources.                                                    *)
Shared == Geometries \cup Materials

ResourcesInv == ResourcesTypeOK /\ CountsExact

LEMMA UsesNat == ASSUME NEW r PROVE Uses(r) \in Nat
<1>1. /\ {m \in Meshes : Geometry(m) = r} \in SUBSET Meshes
      /\ {m \in Meshes : Material(m) = r} \in SUBSET Meshes
  OBVIOUS
<1> QED
  BY <1>1, SizesAssumption, FS_Subset, FS_CardinalityType DEF Uses

LEMMA ClonesCounted ==
  ASSUME NEW S \in SUBSET Clones PROVE IsFiniteSet(S) /\ Cardinality(S) \in Nat
  BY SizesAssumption, FS_Subset, FS_CardinalityType

(* A texture is neither a geometry nor a material.                          *)
LEMMA SharedIsNoTexture == Shared \subseteq Resources /\ Shared \cap Textures = {}
  BY KindsAssumption DEF Shared, Geometries, Materials, Textures, Resources

(* The products of the counts.                                              *)
LEMMA Products ==
  ASSUME NEW n \in Nat, NEW u \in Nat
  PROVE /\ n * u \in Nat
        /\ (n + 1) * u = n * u + u
        /\ 0 * u = 0
        /\ n > 0 => (n - 1) * u \in Nat /\ n * u = (n - 1) * u + u
  OBVIOUS

LEMMA MetNat == ASSUME NEW t PROVE TexturesMet(t) \in Nat
<1>1. {m \in Meshes : Material(m) \in textured /\ Texture(Material(m)) = t} \in SUBSET Meshes
  OBVIOUS
<1> QED
  BY <1>1, SizesAssumption, FS_Subset, FS_CardinalityType DEF TexturesMet

LEMMA ResourcesBegin == ResourcesInit => ResourcesInv
<1> SUFFICES ASSUME ResourcesInit PROVE ResourcesInv
  OBVIOUS
<1>1. ResourcesTypeOK
  BY DEF ResourcesInit, ResourcesTypeOK
<1>2. Cardinality(clones) = 0
  BY FS_EmptySet DEF ResourcesInit
<1>3. \A r \in Shared : refs[r] = Cardinality(clones) * Uses(r)
  BY <1>2, UsesNat, Products, SharedIsNoTexture DEF ResourcesInit, Shared
<1>4. \A t \in Textures : refs[t] = Cardinality(clones) * TexturesMet(t)
  <2>1. \A t \in Textures : refs[t] = 0
    BY DEF ResourcesInit, Resources
  <2> QED
    BY <1>2, <2>1, MetNat, Products
<1> QED
  BY <1>1, <1>3, <1>4 DEF ResourcesInv, CountsExact, Shared

LEMMA MaterialsFinite == IsFiniteSet(Materials)
<1> DEFINE f == [m \in Meshes |-> Material(m)]
<1>1. f \in Surjection(Meshes, Materials)
  BY DEF Surjection, Materials
<1> QED
  BY <1>1, SizesAssumption, FS_Surjection

LEMMA TakenNat == ASSUME ResourcesTypeOK, NEW t PROVE TexturesTaken(t) \in Nat
<1>1. {x \in textured : Texture(x) = t} \in SUBSET Materials
  BY DEF ResourcesTypeOK
<1> QED
  BY <1>1, MaterialsFinite, FS_Subset, FS_CardinalityType DEF TexturesTaken

LEMMA LeftNat ==
  ASSUME ResourcesTypeOK, NEW r \in Resources, NEW n \in Nat PROVE Left(r, n) \in Nat
<1>1. refs[r] \in Nat
  BY DEF ResourcesTypeOK
<1> QED
  BY <1>1 DEF Left

LEMMA MakeKeeps == ASSUME ResourcesInv, NEW c \in Clones, MakeClone(c) PROVE ResourcesInv'
<1>1. clones \in SUBSET Clones /\ refs \in [Resources -> Nat] /\ textured \subseteq Materials
  BY DEF ResourcesInv, ResourcesTypeOK
<1>2. refs' \in [Resources -> Nat]
  <2>1. \A r \in Resources : refs[r] + (IF r \in Textures THEN TexturesMet(r) ELSE Uses(r)) \in Nat
    BY <1>1, UsesNat, MetNat
  <2> QED
    BY <2>1 DEF MakeClone
<1>3. Cardinality(clones') = Cardinality(clones) + 1 /\ Cardinality(clones) \in Nat
  BY <1>1, ClonesCounted, FS_AddElement DEF MakeClone
<1>4. ASSUME NEW r \in Shared PROVE refs'[r] = Cardinality(clones') * Uses(r)
  <2>1. r \in Resources /\ r \notin Textures
    BY SharedIsNoTexture
  <2>2. refs'[r] = refs[r] + Uses(r)
    BY <2>1 DEF MakeClone
  <2>3. refs[r] = Cardinality(clones) * Uses(r)
    BY DEF ResourcesInv, CountsExact, Shared
  <2> QED
    BY <1>3, <2>2, <2>3, UsesNat, Products
<1>5. ASSUME textured = Materials, NEW t \in Textures
      PROVE refs'[t] = Cardinality(clones') * TexturesMet(t)'
  <2>1. t \in Resources /\ textured' = textured
    BY DEF Resources, MakeClone
  <2>2. refs'[t] = refs[t] + TexturesMet(t)
    BY <2>1 DEF MakeClone
  <2>3. refs[t] = Cardinality(clones) * TexturesMet(t)
    BY <1>5 DEF ResourcesInv, CountsExact
  <2>4. TexturesMet(t)' = TexturesMet(t)
    BY <2>1 DEF TexturesMet
  <2> QED
    BY <1>3, <2>2, <2>3, <2>4, MetNat, Products
<1>6. textured' = textured /\ clones' \subseteq Clones
  BY <1>1 DEF MakeClone
<1> QED
  BY <1>1, <1>2, <1>4, <1>5, <1>6 DEF ResourcesInv, ResourcesTypeOK, CountsExact, Shared

LEMMA DisposeKeeps == ASSUME ResourcesInv, NEW c \in Clones, DisposeClone(c) PROVE ResourcesInv'
<1>1. clones \in SUBSET Clones /\ refs \in [Resources -> Nat] /\ ResourcesTypeOK
  BY DEF ResourcesInv, ResourcesTypeOK
<1>2. refs' \in [Resources -> Nat]
  <2>1. \A r \in Resources : Left(r, IF r \in Textures THEN TexturesTaken(r) ELSE Uses(r)) \in Nat
    BY <1>1, UsesNat, TakenNat, LeftNat
  <2> QED
    BY <2>1 DEF DisposeClone
<1>3. /\ Cardinality(clones) \in Nat /\ Cardinality(clones') \in Nat
      /\ Cardinality(clones') = Cardinality(clones) - 1
  <2>1. clones' = clones \ {c} /\ c \in clones /\ clones' \in SUBSET Clones
    BY <1>1 DEF DisposeClone
  <2> QED
    BY <1>1, <2>1, ClonesCounted, FS_RemoveElement
<1>4. ASSUME NEW r \in Shared PROVE refs'[r] = Cardinality(clones') * Uses(r)
  <2>1. r \in Resources /\ r \notin Textures
    BY SharedIsNoTexture
  <2>2. refs'[r] = IF refs[r] > Uses(r) THEN refs[r] - Uses(r) ELSE 0
    BY <2>1 DEF DisposeClone, Left
  <2>3. refs[r] = Cardinality(clones) * Uses(r)
    BY DEF ResourcesInv, CountsExact, Shared
  <2>4. refs[r] = Cardinality(clones') * Uses(r) + Uses(r) /\ Cardinality(clones') * Uses(r) \in Nat
    BY <1>3, <2>3, UsesNat, Products
  <2> QED
    BY <2>2, <2>4, UsesNat
<1>5. textured' = {} /\ (textured' = Materials => Textures = {})
  BY DEF DisposeClone, Textures
<1>6. clones' \subseteq Clones
  BY <1>1 DEF DisposeClone
<1> QED
  BY <1>2, <1>4, <1>5, <1>6 DEF ResourcesInv, ResourcesTypeOK, CountsExact, Shared

LEMMA DisposeSceneKeeps == ASSUME ResourcesInv, DisposeScene PROVE ResourcesInv'
<1>1. clones \in SUBSET Clones /\ refs \in [Resources -> Nat] /\ ResourcesTypeOK
      /\ Cardinality(clones) \in Nat
  BY ClonesCounted DEF ResourcesInv, ResourcesTypeOK
<1>2. refs' \in [Resources -> Nat]
  <2>1. ASSUME NEW r \in Resources
        PROVE Left(r, IF r \in Textures
                      THEN IF clones # {} \/ drawn THEN TexturesTaken(r) ELSE 0
                      ELSE (Cardinality(clones) + 1) * Uses(r)) \in Nat
    <3>1. (Cardinality(clones) + 1) * Uses(r) \in Nat /\ TexturesTaken(r) \in Nat
      BY <1>1, UsesNat, TakenNat
    <3> QED
      BY <1>1, <3>1, LeftNat
  <2> QED
    BY <2>1 DEF DisposeScene
<1>3. Cardinality(clones') = 0
  BY FS_EmptySet DEF DisposeScene
<1>4. ASSUME NEW r \in Shared PROVE refs'[r] = 0 /\ Cardinality(clones') * Uses(r) = 0
  <2>1. r \in Resources /\ r \notin Textures
    BY SharedIsNoTexture
  <2>2. refs'[r] = Left(r, (Cardinality(clones) + 1) * Uses(r))
    BY <2>1 DEF DisposeScene
  <2>3. refs[r] = Cardinality(clones) * Uses(r)
    BY DEF ResourcesInv, CountsExact, Shared
  <2>4. ~(refs[r] > (Cardinality(clones) + 1) * Uses(r))
    BY <1>1, <2>3, UsesNat, Products
  <2> QED
    BY <1>3, <2>2, <2>4, UsesNat, Products DEF Left
<1>5. textured' \subseteq Materials
  BY <1>1 DEF DisposeScene, ResourcesTypeOK
<1>6. ASSUME textured' = Materials, NEW t \in Textures
      PROVE refs'[t] = Cardinality(clones') * TexturesMet(t)'
  <2>1. clones = {} /\ ~drawn /\ textured = Materials /\ t \in Resources
    BY <1>6 DEF DisposeScene, Textures, Resources
  <2>2. refs[t] = 0
    <3>1. refs[t] = Cardinality(clones) * TexturesMet(t)
      BY <2>1 DEF ResourcesInv, CountsExact
    <3> QED
      BY <2>1, <3>1, FS_EmptySet, MetNat, Products
  <2>3. refs'[t] = Left(t, 0)
    BY <2>1 DEF DisposeScene
  <2>4. refs'[t] = 0
    BY <2>2, <2>3 DEF Left
  <2>5. TexturesMet(t)' \in Nat
    <3>1. {m \in Meshes : Material(m) \in textured' /\ Texture(Material(m)) = t} \in SUBSET Meshes
      OBVIOUS
    <3> QED
      BY <3>1, SizesAssumption, FS_Subset, FS_CardinalityType DEF TexturesMet
  <2> QED
    BY <1>3, <2>4, <2>5, Products
<1>7. clones' \subseteq Clones
  BY DEF DisposeScene
<1> QED
  BY <1>2, <1>4, <1>5, <1>6, <1>7 DEF ResourcesInv, ResourcesTypeOK, CountsExact, Shared

-----------------------------------------------------------------------------
(* The panel.                                                               *)
PanelSafe == element \in BOOLEAN /\ shown \in BOOLEAN /\ timer \in BOOLEAN /\ TimerIsVisible

LEMMA PanelBegins == PanelInit => PanelSafe
  BY DEF PanelInit, PanelSafe, TimerIsVisible

LEMMA PanelKeeps == PanelSafe /\ [PanelNext]_panelVars => PanelSafe'
  BY DEF PanelSafe, TimerIsVisible, PanelNext, panelVars, Show, Hide, Frame, Tick, DisposePanel

-----------------------------------------------------------------------------
SceneInv == FactoryInv /\ ResourcesInv /\ PanelSafe

LEMMA SceneBegins == SceneInit => SceneInv
  BY FactoryBegins, ResourcesBegin, PanelBegins DEF SceneInit, SceneInv

LEMMA ResourcesStay == ResourcesInv /\ UNCHANGED resourceVars => ResourcesInv'
  BY DEF ResourcesInv, ResourcesTypeOK, CountsExact, TexturesMet, resourceVars

LEMMA SceneKeeps == SceneInv /\ [SceneNext]_sceneVars => SceneInv'
<1> SUFFICES ASSUME SceneInv, [SceneNext]_sceneVars PROVE SceneInv'
  OBVIOUS
<1> USE DEF SceneInv
<1>1. FactoryInv'
  <2>1. [FactoryNext]_factoryVars
    BY DEF SceneNext, sceneVars, AddToScene, RemoveFromScene, FactoryStep, CloneStep, PanelStep,
           DisposeScene, FactoryNext
  <2> QED
    BY <2>1, FactoryKeeps
<1>2. PanelSafe'
  <2>1. [PanelNext]_panelVars
    BY DEF SceneNext, sceneVars, AddToScene, RemoveFromScene, FactoryStep, CloneStep, PanelStep,
           DisposeScene
  <2> QED
    BY <2>1, PanelKeeps
<1>3. ResourcesInv'
  <2>1. CASE DisposeScene
    BY <2>1, DisposeSceneKeeps
  <2>2. CASE CloneStep
    BY <2>2, MakeKeeps, DisposeKeeps DEF CloneStep, ResourcesNext
  <2>3. CASE UNCHANGED resourceVars
    BY <2>3, ResourcesStay
  <2> QED
    BY <2>1, <2>2, <2>3 DEF SceneNext, sceneVars, AddToScene, RemoveFromScene, FactoryStep, PanelStep
<1> QED
  BY <1>1, <1>2, <1>3

LEMMA SceneInvariant == SceneSpec => []SceneInv
  BY SceneBegins, SceneKeeps, PTL DEF SceneSpec

(* Ids, slots, matrices and the GPU agree through any calls of the factory, *)
(* whatever else uses the scene (InstanceFactory.js).                       *)
THEOREM InstancesDrawn == SceneSpec => []FactorySound
<1>1. SceneInv => FactorySound
  BY DEF SceneInv, FactoryInv
<1> QED
  BY <1>1, SceneInvariant, PTL

(* The count of a geometry or a material is the number of its uses in live  *)
(* clones (dispose.js), for any sharing between the meshes of a model; that *)
(* of a texture is so as long as no clone was disposed of.                  *)
THEOREM ResourcesCounted == SceneSpec => []CountsExact
<1>1. SceneInv => CountsExact
  BY DEF SceneInv, ResourcesInv
<1> QED
  BY <1>1, SceneInvariant, PTL

(* The panel's timer runs exactly while its element is on the page and it   *)
(* is shown (debugPanel.js).                                                *)
THEOREM TimerStops == SceneSpec => []TimerIsVisible
<1>1. SceneInv => TimerIsVisible
  BY DEF SceneInv, PanelSafe
<1> QED
  BY <1>1, SceneInvariant, PTL
-----------------------------------------------------------------------------
(* The model cache.                                                         *)
(* The entries that were used have an address.                              *)
Addressed(s) == \A e \in Loads : s.entry[e].st = "unused" <=> s.entry[e].url = None

CacheInv(s) == s \in Store /\ Usable(s) /\ Addressed(s)

SameAddresses(s, t) == \A e \in Loads : t.entry[e].url = s.entry[e].url

LEMMA StartSafe ==
  ASSUME NEW s, CacheInv(s), NEW u \in Urls, NEW e \in Loads, s.entry[e].st = "unused"
  PROVE  LET t == Start(s, u, e) IN
         /\ CacheInv(t)
         /\ t.entry[e].url = u
         /\ \A f \in Loads \ {e} : t.entry[f].url = s.entry[f].url
<1> DEFINE t == Start(s, u, e)
<1>1. s.map \in [Urls -> Loads \cup {None}] /\ s.entry \in [Loads -> Entry]
  BY DEF CacheInv, Store
<1>2. [url |-> u, st |-> "loading", refs |-> 0, alive |-> FALSE] \in Entry
  BY DEF Entry
<1>3. /\ t.map = [s.map EXCEPT ![u] = e]
      /\ t.entry = [s.entry EXCEPT ![e] = [url |-> u, st |-> "loading", refs |-> 0, alive |-> FALSE]]
      /\ t = [map |-> t.map, entry |-> t.entry]
  BY DEF Start
<1>4. t.map \in [Urls -> Loads \cup {None}] /\ t.entry \in [Loads -> Entry]
  BY <1>1, <1>2, <1>3
<1>5. t \in Store
  BY <1>3, <1>4 DEF Store
<1>6. t.map[u] = e /\ t.entry[e].url = u /\ t.entry[e].st = "loading"
      /\ (\A v \in Urls \ {u} : t.map[v] = s.map[v])
      /\ (\A f \in Loads \ {e} : t.entry[f] = s.entry[f])
  BY <1>1, <1>3
<1>7. \A v \in Urls : s.map[v] # e
  BY NoneAssumption DEF CacheInv, Usable
<1>8. Usable(t)
  BY <1>1, <1>6, <1>7 DEF CacheInv, Usable
<1>9. Addressed(t)
  BY <1>6, NoneAssumption DEF CacheInv, Addressed
<1> QED
  BY <1>5, <1>6, <1>8, <1>9 DEF CacheInv

LEMMA AcquireSafe ==
  ASSUME NEW s, CacheInv(s), NEW u \in Urls, NEW n \in Nat
  PROVE  CacheInv(Acquire(s, u, n)) /\ SameAddresses(s, Acquire(s, u, n))
<1> DEFINE t == Acquire(s, u, n)
<1>1. s.map \in [Urls -> Loads \cup {None}] /\ s.entry \in [Loads -> Entry]
      /\ s = [map |-> s.map, entry |-> s.entry]
  BY DEF CacheInv, Store
<1>2. CASE s.map[u] = None
  BY <1>2 DEF Acquire, SameAddresses
<1>3. CASE s.map[u] # None
  <2> DEFINE e == s.map[u]
  <2>1. e \in Loads /\ s.entry[e] \in Entry
    BY <1>1, <1>3
  <2>2. [s.entry[e] EXCEPT !.refs = @ + n] \in Entry
    BY <2>1 DEF Entry
  <2>3. /\ t.map = s.map /\ t = [map |-> t.map, entry |-> t.entry]
        /\ t.entry = [s.entry EXCEPT ![e] = [s.entry[e] EXCEPT !.refs = @ + n]]
    BY <1>1, <1>3 DEF Acquire
  <2>4. t.entry \in [Loads -> Entry]
    BY <1>1, <2>1, <2>2, <2>3
  <2>5. \A f \in Loads : t.entry[f].url = s.entry[f].url /\ t.entry[f].st = s.entry[f].st
                         /\ t.entry[f].alive = s.entry[f].alive
    BY <1>1, <2>1, <2>3 DEF Entry
  <2>6. t \in Store
    BY <1>1, <2>3, <2>4 DEF Store
  <2>7. Usable(t)
    <3>1. \A v \in Urls : s.map[v] # None =>
            /\ s.map[v] \in Loads /\ s.entry[s.map[v]].url = v
            /\ \/ s.entry[s.map[v]].st = "loading"
               \/ s.entry[s.map[v]].st = "loaded" /\ s.entry[s.map[v]].alive
      BY <1>1 DEF CacheInv, Usable
    <3> HIDE DEF t
    <3>2. \A v \in Urls : t.map[v] = s.map[v]
      BY <2>3
    <3> QED
      BY <2>5, <3>1, <3>2 DEF Usable
  <2>8. Addressed(t)
    BY <2>5 DEF CacheInv, Addressed
  <2> QED
    BY <2>5, <2>6, <2>7, <2>8 DEF CacheInv, SameAddresses
<1> QED
  BY <1>2, <1>3

LEMMA ReleaseSafe ==
  ASSUME NEW s, CacheInv(s), NEW u \in Urls, NEW force \in BOOLEAN
  PROVE  CacheInv(Release(s, u, force)) /\ SameAddresses(s, Release(s, u, force))
<1> DEFINE t == Release(s, u, force)
<1>1. s.map \in [Urls -> Loads \cup {None}] /\ s.entry \in [Loads -> Entry]
  BY DEF CacheInv, Store
<1>2. CASE s.map[u] = None
  BY <1>2 DEF Release, SameAddresses
<1>3. CASE s.map[u] # None
  <2> DEFINE e == s.map[u]
             left == IF s.entry[e].refs = 0 THEN 0 ELSE s.entry[e].refs - 1
             gone == left = 0 \/ force
             new == [s.entry[e] EXCEPT !.refs = left, !.alive = @ /\ ~gone]
  <2>1. e \in Loads /\ s.entry[e] \in Entry
    BY <1>1, <1>3
  <2>a. left \in Nat /\ gone \in BOOLEAN
    BY <2>1 DEF Entry
  <2> HIDE DEF left, gone
  <2>2. new \in Entry /\ new.url = s.entry[e].url /\ new.st = s.entry[e].st
        /\ (~gone => new.alive = s.entry[e].alive)
    BY <2>1, <2>a DEF Entry
  <2>3. /\ t.map = [s.map EXCEPT ![u] = IF gone THEN None ELSE @]
        /\ t.entry = [s.entry EXCEPT ![e] = new]
        /\ t = [map |-> t.map, entry |-> t.entry]
    BY <1>3 DEF Release, left, gone
  <2> HIDE DEF new, t
  <2>4. t.map \in [Urls -> Loads \cup {None}] /\ t.entry \in [Loads -> Entry]
    BY <1>1, <2>1, <2>2, <2>3
  <2>5. t \in Store
    BY <2>3, <2>4 DEF Store
  <2>6. /\ \A f \in Loads : t.entry[f].url = s.entry[f].url /\ t.entry[f].st = s.entry[f].st
        /\ \A f \in Loads \ {e} : t.entry[f] = s.entry[f]
        /\ ~gone => t.entry[e].alive = s.entry[e].alive
    BY <1>1, <2>1, <2>2, <2>3
  <2>7. /\ \A v \in Urls \ {u} : t.map[v] = s.map[v]
        /\ gone => t.map[u] = None
        /\ ~gone => t.map[u] = e
    BY <1>1, <2>3
  <2>8. \A v \in Urls \ {u} : s.map[v] # None => s.map[v] # e
    BY <1>3 DEF CacheInv, Usable
  <2>9. Usable(t)
    <3> SUFFICES ASSUME NEW v \in Urls, t.map[v] # None
                 PROVE  /\ t.entry[t.map[v]].url = v
                        /\ \/ t.entry[t.map[v]].st = "loading"
                           \/ t.entry[t.map[v]].st = "loaded" /\ t.entry[t.map[v]].alive
      BY DEF Usable
    <3>1. t.map[v] = s.map[v] /\ s.map[v] \in Loads
      BY <1>1, <2>4, <2>7
    <3>2. t.entry[t.map[v]].alive = s.entry[s.map[v]].alive
      BY <2>6, <2>7, <2>8, <3>1
    <3> QED
      BY <2>6, <3>1, <3>2 DEF CacheInv, Usable
  <2>10. Addressed(t)
    BY <2>6 DEF CacheInv, Addressed
  <2>11. CacheInv(t) /\ SameAddresses(s, t)
    BY <2>5, <2>6, <2>9, <2>10 DEF CacheInv, SameAddresses
  <2> QED
    BY <2>11 DEF t
<1> QED
  BY <1>2, <1>3

LEMMA LoadOkSafe ==
  ASSUME NEW s, CacheInv(s), NEW e \in Loads, s.entry[e].st = "loading"
  PROVE  CacheInv(LoadOk(s, e)) /\ SameAddresses(s, LoadOk(s, e))
<1> DEFINE t == LoadOk(s, e)
<1>1. s.map \in [Urls -> Loads \cup {None}] /\ s.entry \in [Loads -> Entry] /\ s.entry[e] \in Entry
      /\ s = [map |-> s.map, entry |-> s.entry]
  BY DEF CacheInv, Store
<1>2. /\ t.map = s.map /\ t = [map |-> t.map, entry |-> t.entry]
      /\ t.entry = [s.entry EXCEPT ![e] = [s.entry[e] EXCEPT !.st = "loaded", !.alive = TRUE]]
  BY <1>1 DEF LoadOk
<1>3. [s.entry[e] EXCEPT !.st = "loaded", !.alive = TRUE] \in Entry
  BY <1>1 DEF Entry
<1>4. t.entry \in [Loads -> Entry]
  BY <1>1, <1>2, <1>3
<1>5. t \in Store
  BY <1>1, <1>2, <1>4 DEF Store
<1>6. /\ t.entry[e].url = s.entry[e].url /\ t.entry[e].st = "loaded" /\ t.entry[e].alive
      /\ \A f \in Loads \ {e} : t.entry[f] = s.entry[f]
  BY <1>1, <1>2 DEF Entry
<1>7. Usable(t) /\ Addressed(t)
  BY <1>1, <1>2, <1>6 DEF CacheInv, Usable, Addressed
<1> QED
  BY <1>5, <1>6, <1>7 DEF CacheInv, SameAddresses

LEMMA LoadFailsSafe ==
  ASSUME NEW s, CacheInv(s), NEW e \in Loads, s.entry[e].st = "loading"
  PROVE  CacheInv(LoadFails(s, e)) /\ SameAddresses(s, LoadFails(s, e))
<1> DEFINE t == LoadFails(s, e)
<1>1. s.map \in [Urls -> Loads \cup {None}] /\ s.entry \in [Loads -> Entry] /\ s.entry[e] \in Entry
  BY DEF CacheInv, Store
<1>2. /\ t.map = [s.map EXCEPT ![s.entry[e].url] = None] /\ t = [map |-> t.map, entry |-> t.entry]
      /\ t.entry = [s.entry EXCEPT ![e] = [s.entry[e] EXCEPT !.st = "failed"]]
  BY DEF LoadFails
<1>3. [s.entry[e] EXCEPT !.st = "failed"] \in Entry
  BY <1>1 DEF Entry
<1>4. t.map \in [Urls -> Loads \cup {None}] /\ t.entry \in [Loads -> Entry]
  BY <1>1, <1>2, <1>3
<1>5. t \in Store
  BY <1>2, <1>4 DEF Store
<1>6. /\ t.entry[e].url = s.entry[e].url /\ t.entry[e].st = "failed"
      /\ \A f \in Loads \ {e} : t.entry[f] = s.entry[f]
      /\ \A v \in Urls : t.map[v] = IF v = s.entry[e].url THEN None ELSE s.map[v]
  BY <1>1, <1>2 DEF Entry
<1>7. \A v \in Urls : t.map[v] # None => t.map[v] = s.map[v] /\ s.map[v] \in Loads \ {e}
  BY <1>1, <1>6 DEF CacheInv, Usable
<1>8. Usable(t) /\ Addressed(t)
  BY <1>6, <1>7 DEF CacheInv, Usable, Addressed
<1> QED
  BY <1>5, <1>6, <1>8 DEF CacheInv, SameAddresses

-----------------------------------------------------------------------------
(* The racks.  A rack whose effect has run waits for a load of the hall's   *)
(* model, shows one, or has an error.                                       *)
RackOK(r) ==
  IF rack[r].wait = None
  THEN rack[r].err \/ (rack[r].model # None /\ store.entry[rack[r].model].url = url)
  ELSE store.entry[rack[r].wait].url = url

RacksInv ==
  /\ CacheInv(store)
  /\ TypeOK
  /\ url = None => visible = {}
  /\ cleanups \cap visible \subseteq effects
  /\ \A r \in visible \ effects : RackOK(r)

LEMMA InitRacks == ASSUME Init PROVE RacksInv
<1>1. Unused \in Entry
  BY DEF Unused, Entry
<1>2. EmptyStore.map = [u \in Urls |-> None] /\ EmptyStore.entry = [e \in Loads |-> Unused]
      /\ EmptyStore = [map |-> EmptyStore.map, entry |-> EmptyStore.entry]
  BY DEF EmptyStore
<1>3. EmptyStore \in Store
  BY <1>1, <1>2 DEF Store
<1>4. CacheInv(EmptyStore)
  BY <1>2, <1>3 DEF CacheInv, Usable, Addressed, Unused
<1>5. NoRack \in Rack
  BY DEF NoRack, Rack
<1>6. TypeOK
  BY <1>3, <1>5 DEF Init, TypeOK
<1> QED
  BY <1>4, <1>6 DEF Init, RacksInv

LEMMA CommitKeeps ==
  ASSUME RacksInv, NEW v \in SUBSET Racks, NEW u \in Urls \cup {None}, NEW again \in BOOLEAN,
         Commit(v, u, again)
  PROVE  RacksInv'
<1> DEFINE change == u # url \/ again
<1>1. /\ cleanups = {} /\ effects = {} /\ (u = None => v = {})
      /\ url' = u /\ visible' = v
      /\ cleanups' = {r \in visible : change \/ r \notin v}
      /\ effects' = {r \in v : change \/ r \notin visible}
      /\ ready' \in BOOLEAN /\ UNCHANGED <<store, rack, old>>
  BY DEF Commit, Committing, RacksInv, TypeOK
<1>2. TypeOK'
  BY <1>1 DEF RacksInv, TypeOK
<1>3. \A r \in visible' \ effects' : RackOK(r)'
  <2> SUFFICES ASSUME NEW r \in v, r \notin effects' PROVE RackOK(r)'
    BY <1>1
  <2>1. r \in visible /\ url' = url
    BY <1>1
  <2>2. RackOK(r)
    BY <1>1, <2>1 DEF RacksInv
  <2> QED
    BY <1>1, <2>1, <2>2 DEF RackOK
<1>4. cleanups' \cap visible' \subseteq effects'
  BY <1>1
<1>5. CacheInv(store')
  BY <1>1 DEF RacksInv
<1> QED
  BY <1>1, <1>2, <1>3, <1>4, <1>5 DEF RacksInv

LEMMA CleanupKeeps == ASSUME RacksInv, NEW r \in Racks, Cleanup(r) PROVE RacksInv'
<1> DEFINE c == rack[r]
<1>1. c \in Rack /\ TypeOK
  BY DEF RacksInv, TypeOK
<1>2. /\ r \in cleanups
      /\ store' = IF c.first = None THEN store ELSE Release(store, c.first, FALSE)
      /\ old' = IF c.wait = None THEN old ELSE [old EXCEPT ![c.wait] = @ + 1]
      /\ rack' = [rack EXCEPT ![r] =
           IF r \notin visible THEN NoRack
           ELSE [c EXCEPT !.wait = None, !.gutted = @ \/ c.own,
                          !.stale = @ \cup ({c.wait} \ {None})]]
      /\ cleanups' = cleanups \ {r} /\ UNCHANGED <<url, visible, ready, effects>>
  BY DEF Cleanup
<1>3. CacheInv(store') /\ SameAddresses(store, store')
  <2>1. c.first \in Urls \cup {None}
    BY <1>1 DEF Rack
  <2>2. CASE c.first = None
    BY <1>2, <2>2 DEF RacksInv, SameAddresses
  <2>3. CASE c.first # None
    BY <1>2, <2>1, <2>3, ReleaseSafe DEF RacksInv
  <2> QED
    BY <2>2, <2>3
<1>4. rack' \in [Racks -> Rack] /\ \A q \in Racks \ {r} : rack'[q] = rack[q]
  <2>1. NoRack \in Rack
    BY DEF NoRack, Rack
  <2>2. [c EXCEPT !.wait = None, !.gutted = @ \/ c.own,
                  !.stale = @ \cup ({c.wait} \ {None})] \in Rack
    BY <1>1 DEF Rack
  <2> QED
    BY <1>1, <1>2, <2>1, <2>2 DEF TypeOK
<1>5. old' \in [Loads -> Nat]
  <2>1. c.wait \in Loads \cup {None}
    BY <1>1 DEF Rack
  <2> QED
    BY <1>1, <1>2, <2>1 DEF TypeOK
<1>6. TypeOK'
  BY <1>1, <1>2, <1>3, <1>4, <1>5 DEF TypeOK, CacheInv
<1>7. \A q \in visible' \ effects' : RackOK(q)'
  <2> SUFFICES ASSUME NEW q \in visible, q \notin effects PROVE RackOK(q)'
    BY <1>2
  <2>1. q # r /\ q \in Racks
    BY <1>1, <1>2 DEF RacksInv, TypeOK
  <2>2. RackOK(q) /\ rack'[q] = rack[q] /\ rack[q] \in Rack
    BY <1>1, <1>4, <2>1 DEF RacksInv, TypeOK
  <2> QED
    BY <1>2, <1>3, <2>2 DEF RackOK, Rack, SameAddresses
<1>8. cleanups' \cap visible' \subseteq effects' /\ (url' = None => visible' = {})
  BY <1>2 DEF RacksInv
<1> QED
  BY <1>3, <1>6, <1>7, <1>8 DEF RacksInv

(* A rack after its effect, and the others, whose loads keep their address. *)
LEMMA EffectDone ==
  ASSUME RacksInv, NEW r \in Racks, cleanups = {}, r \in effects, effects' = effects \ {r},
         UNCHANGED <<url, visible, old, cleanups>>, ready' \in BOOLEAN,
         CacheInv(store'), NEW new \in Rack, rack' = [rack EXCEPT ![r] = new],
         \A e \in Loads : store.entry[e].url # None => store'.entry[e].url = store.entry[e].url,
         IF new.wait = None
         THEN new.err \/ (new.model # None /\ store'.entry[new.model].url = url)
         ELSE store'.entry[new.wait].url = url
  PROVE  RacksInv'
<1>1. TypeOK /\ url # None
  BY DEF RacksInv, TypeOK
<1>2. rack' \in [Racks -> Rack] /\ rack'[r] = new /\ \A q \in Racks \ {r} : rack'[q] = rack[q]
  BY <1>1 DEF TypeOK
<1>3. TypeOK'
  BY <1>1, <1>2 DEF TypeOK, CacheInv
<1>4. \A q \in visible' \ effects' : RackOK(q)'
  <2> SUFFICES ASSUME NEW q \in visible, q \notin effects \ {r} PROVE RackOK(q)'
    OBVIOUS
  <2>1. CASE q = r
    BY <1>2, <2>1 DEF RackOK
  <2>2. CASE q # r
    <3>1. RackOK(q) /\ rack'[q] = rack[q] /\ rack[q] \in Rack
      BY <1>1, <1>2, <2>2 DEF RacksInv, TypeOK
    <3> QED
      BY <1>1, <3>1 DEF RackOK, Rack
  <2> QED
    BY <2>1, <2>2
<1>5. cleanups' \cap visible' \subseteq effects' /\ (url' = None => visible' = {})
  BY DEF RacksInv
<1> QED
  BY <1>3, <1>4, <1>5 DEF RacksInv

LEMMA EffectKeeps == ASSUME RacksInv, NEW r \in Racks, Effect(r) PROVE RacksInv'
<1>1. /\ cleanups = {} /\ r \in effects /\ effects' = effects \ {r}
      /\ UNCHANGED <<url, visible, old, cleanups>>
      /\ EffectHit(r) \/ \E e \in Loads : EffectMiss(r, e)
  BY DEF Effect
<1>2. TypeOK /\ CacheInv(store) /\ url \in Urls /\ rack[r] \in Rack
  BY <1>1 DEF RacksInv, TypeOK
<1>3. Mounted(r) \in Rack
  BY <1>2 DEF Mounted, Rack
<1>4. store.map \in [Urls -> Loads \cup {None}]
  BY <1>2 DEF CacheInv, Store
<1>5. CASE EffectHit(r)
  <2> DEFINE e == store.map[url]
  <2>1. e \in Loads /\ store.entry[e].url = url
    BY <1>2, <1>4, <1>5 DEF EffectHit, CacheInv, Usable
  <2>2. CASE /\ store' = Acquire(store, url, 1)
             /\ rack' = [rack EXCEPT ![r] = Shows(Mounted(r), e)] /\ ready' = TRUE
    <3>1. CacheInv(store') /\ SameAddresses(store, store')
      BY <1>2, <2>2, AcquireSafe
    <3>2. Shows(Mounted(r), e) \in Rack /\ Shows(Mounted(r), e).wait = None
          /\ Shows(Mounted(r), e).model = e
      BY <1>3, <2>1 DEF Shows, Rack
    <3>3. e # None /\ store'.entry[e].url = url
      BY <2>1, <3>1, NoneAssumption DEF SameAddresses
    <3> DEFINE new == Shows(Mounted(r), e)
    <3>4. new \in Rack /\ rack' = [rack EXCEPT ![r] = new] /\ new.wait = None
          /\ new.model # None /\ store'.entry[new.model].url = url
      BY <2>2, <3>2, <3>3
    <3>5. ready' \in BOOLEAN
      BY <2>2
    <3> HIDE DEF new
    <3> QED
      BY <1>1, <3>1, <3>4, <3>5, EffectDone DEF SameAddresses
  <2>3. ASSUME NEW new \in Rack, rack' = [rack EXCEPT ![r] = new], store' = store, ready' \in BOOLEAN,
               new.wait = e \/ (new.wait = None /\ new.err)
        PROVE  RacksInv'
    <3>1. IF new.wait = None
          THEN new.err \/ (new.model # None /\ store'.entry[new.model].url = url)
          ELSE store'.entry[new.wait].url = url
      BY <2>1, <2>3, NoneAssumption
    <3>2. /\ CacheInv(store')
          /\ \A f \in Loads : store.entry[f].url # None => store'.entry[f].url = store.entry[f].url
      BY <1>2, <2>3
    <3> QED
      BY <1>1, <2>3, <3>1, <3>2, EffectDone
  <2>4. CASE /\ rack' = [rack EXCEPT ![r] = [Mounted(r) EXCEPT !.wait = e, !.own = rack[r].model # None]]
             /\ UNCHANGED <<store, ready>>
    <3> DEFINE new == [Mounted(r) EXCEPT !.wait = e, !.own = rack[r].model # None]
    <3>1. new \in Rack /\ new.wait = e
      BY <1>3, <2>1 DEF Rack
    <3>2. ready' \in BOOLEAN
      BY <1>2, <2>4 DEF TypeOK
    <3> QED
      BY <2>3, <2>4, <3>1, <3>2
  <2>5. CASE store.entry[e].st = "failed"
    BY <1>2, <1>4, <2>1, <2>5, NoneAssumption DEF CacheInv, Usable
  <2> QED
    BY <1>5, <2>2, <2>4, <2>5 DEF EffectHit
<1>6. ASSUME NEW e \in Loads, EffectMiss(r, e) PROVE RacksInv'
  <2> DEFINE new == [Mounted(r) EXCEPT !.wait = e, !.own = rack[r].model # None]
  <2>1. store.entry[e].st = "unused" /\ store' = Start(store, url, e)
        /\ rack' = [rack EXCEPT ![r] = new] /\ ready' \in BOOLEAN
    BY <1>2, <1>6 DEF EffectMiss, TypeOK
  <2>2. /\ CacheInv(store') /\ store'.entry[e].url = url
        /\ \A f \in Loads \ {e} : store'.entry[f].url = store.entry[f].url
    BY <1>2, <2>1, StartSafe
  <2>3. store.entry[e].url = None
    BY <1>2, <2>1 DEF CacheInv, Addressed
  <2>4. new \in Rack /\ new.wait = e /\ e # None
    BY <1>3, NoneAssumption DEF Rack
  <2>5. rack' = [rack EXCEPT ![r] = new]
    BY <2>1
  <2> HIDE DEF new
  <2>6. IF new.wait = None
        THEN new.err \/ (new.model # None /\ store'.entry[new.model].url = url)
        ELSE store'.entry[new.wait].url = url
    BY <2>2, <2>4
  <2>7. \A f \in Loads : store.entry[f].url # None => store'.entry[f].url = store.entry[f].url
    BY <2>2, <2>3
  <2> QED
    BY <1>1, <2>1, <2>2, <2>4, <2>5, <2>6, <2>7, EffectDone
<1> QED
  BY <1>1, <1>5, <1>6
(* The end of a load: what it changes in the racks that wait for it.        *)
LEMMA EndOfLoad ==
  ASSUME RacksInv, ~Committing, NEW e \in Loads, UNCHANGED <<url, visible, cleanups, effects>>,
         CacheInv(store'), SameAddresses(store, store'), old' = [old EXCEPT ![e] = 0],
         ready' \in BOOLEAN, rack' \in [Racks -> Rack],
         \A r \in Racks : /\ rack[r].wait # e => /\ rack'[r].wait = rack[r].wait
                                                 /\ rack'[r].model = rack[r].model
                                                 /\ rack[r].err => rack'[r].err
                          /\ rack[r].wait = e => /\ rack'[r].wait = None
                                                 /\ rack'[r].err \/ rack'[r].model = e
  PROVE  RacksInv'
<1>1. TypeOK
  BY DEF RacksInv
<1>2. TypeOK'
  BY <1>1 DEF TypeOK, CacheInv
<1>3. \A r \in visible' \ effects' : RackOK(r)'
  <2> SUFFICES ASSUME NEW r \in visible \ effects PROVE RackOK(r)'
    OBVIOUS
  <2>1. RackOK(r) /\ r \in Racks /\ rack[r] \in Rack
    BY <1>1 DEF RacksInv, TypeOK
  <2>2. CASE rack[r].wait = e
    BY <2>1, <2>2, NoneAssumption DEF RackOK, SameAddresses
  <2>3. CASE rack[r].wait # e
    <3>1. rack'[r].wait = rack[r].wait /\ rack'[r].model = rack[r].model
          /\ (rack[r].err => rack'[r].err)
      BY <2>1, <2>3
    <3>2. rack[r].wait \in Loads \cup {None} /\ rack[r].model \in Loads \cup {None}
      BY <2>1 DEF Rack
    <3> QED
      BY <2>1, <3>1, <3>2 DEF RackOK, SameAddresses
  <2> QED
    BY <2>2, <2>3
<1>4. cleanups' \cap visible' \subseteq effects' /\ (url' = None => visible' = {})
  BY DEF RacksInv
<1> QED
  BY <1>2, <1>3, <1>4 DEF RacksInv

LEMMA WaitingCounted == \A e : Waiting(e) \subseteq Racks /\ Cardinality(Waiting(e)) \in Nat
<1> SUFFICES ASSUME NEW e PROVE Waiting(e) \subseteq Racks /\ Cardinality(Waiting(e)) \in Nat
  OBVIOUS
<1>1. Waiting(e) \subseteq Racks
  BY DEF Waiting
<1> QED
  BY <1>1, RacksAssumption, FS_Subset, FS_CardinalityType

LEMMA ModelLoadedKeeps == ASSUME RacksInv, NEW e \in Loads, ModelLoaded(e) PROVE RacksInv'
<1> DEFINE c(r) == [rack[r] EXCEPT !.stale = @ \ {e}]
           u == store.entry[e].url
           n == Cardinality(Waiting(e)) + old[e]
<1>1. /\ ~Committing /\ store.entry[e].st = "loading"
      /\ store' = Acquire(LoadOk(store, e), u, n)
      /\ rack' = [r \in Racks |-> IF r \in Waiting(e) THEN Shows(c(r), e) ELSE c(r)]
      /\ old' = [old EXCEPT ![e] = 0] /\ ready' = (ready \/ Waiting(e) # {})
      /\ UNCHANGED <<url, visible, cleanups, effects>>
  BY DEF ModelLoaded
<1>2. TypeOK /\ CacheInv(store)
  BY DEF RacksInv
<1>3. CacheInv(LoadOk(store, e)) /\ SameAddresses(store, LoadOk(store, e))
  BY <1>1, <1>2, LoadOkSafe
<1>4. CacheInv(store') /\ SameAddresses(store, store')
  <2>1. n \in Nat
    BY <1>2, WaitingCounted DEF TypeOK
  <2>2. CASE u \in Urls
    BY <1>1, <1>3, <2>1, <2>2, AcquireSafe DEF SameAddresses
  <2>3. u \in Urls
    BY <1>1, <1>2 DEF CacheInv, Addressed, Store, Entry
  <2> QED
    BY <2>2, <2>3
<1>5. ready' \in BOOLEAN
  BY <1>1, <1>2 DEF TypeOK
<1>6. \A r \in Racks : /\ c(r) \in Rack /\ c(r).wait = rack[r].wait /\ c(r).model = rack[r].model
                       /\ c(r).err = rack[r].err
  BY <1>2 DEF TypeOK, Rack
<1>7. \A r \in Racks : /\ Shows(c(r), e) \in Rack /\ Shows(c(r), e).wait = None
                       /\ Shows(c(r), e).model = e
  BY <1>6 DEF Shows, Rack
<1> HIDE DEF c, u, n
<1>8. rack' \in [Racks -> Rack]
  BY <1>1, <1>6, <1>7
<1>9. \A r \in Racks : /\ rack[r].wait # e => rack'[r] = c(r)
                       /\ rack[r].wait = e => rack'[r] = Shows(c(r), e)
  BY <1>1 DEF Waiting
<1>10. \A r \in Racks : /\ rack[r].wait # e => /\ rack'[r].wait = rack[r].wait
                                               /\ rack'[r].model = rack[r].model
                                               /\ rack[r].err => rack'[r].err
                        /\ rack[r].wait = e => /\ rack'[r].wait = None
                                               /\ rack'[r].err \/ rack'[r].model = e
  BY <1>6, <1>7, <1>9
<1> QED
  BY <1>1, <1>4, <1>5, <1>8, <1>10, EndOfLoad

LEMMA ModelFailsKeeps == ASSUME RacksInv, NEW e \in Loads, ModelFails(e) PROVE RacksInv'
<1> DEFINE c(r) == [rack[r] EXCEPT !.stale = @ \ {e}]
<1>1. /\ ~Committing /\ store.entry[e].st = "loading" /\ store' = LoadFails(store, e)
      /\ rack' = [r \in Racks |->
           IF r \in Waiting(e) THEN [c(r) EXCEPT !.err = TRUE, !.wait = None]
           ELSE IF e \in rack[r].stale THEN [c(r) EXCEPT !.err = TRUE] ELSE c(r)]
      /\ old' = [old EXCEPT ![e] = 0] /\ ready' = (ready /\ Waiting(e) = {} /\ old[e] = 0)
      /\ UNCHANGED <<url, visible, cleanups, effects>>
  BY DEF ModelFails
<1>2. TypeOK /\ CacheInv(store)
  BY DEF RacksInv
<1>3. CacheInv(store') /\ SameAddresses(store, store')
  BY <1>1, <1>2, LoadFailsSafe
<1>4. ready' \in BOOLEAN
  BY <1>1, <1>2 DEF TypeOK
<1>5. \A r \in Racks : /\ c(r) \in Rack /\ c(r).wait = rack[r].wait /\ c(r).model = rack[r].model
                       /\ c(r).err = rack[r].err
  BY <1>2 DEF TypeOK, Rack
<1> HIDE DEF c
<1>6. \A r \in Racks :
        LET failed == [c(r) EXCEPT !.err = TRUE, !.wait = None]
            told == [c(r) EXCEPT !.err = TRUE] IN
        /\ failed \in Rack /\ failed.wait = None /\ failed.err
        /\ told \in Rack /\ told.wait = c(r).wait /\ told.model = c(r).model /\ told.err
  BY <1>5 DEF Rack
<1>7. rack' \in [Racks -> Rack]
  BY <1>1, <1>5, <1>6
<1>8. \A r \in Racks :
        /\ rack[r].wait = e => rack'[r] = [c(r) EXCEPT !.err = TRUE, !.wait = None]
        /\ rack[r].wait # e => rack'[r] = c(r) \/ rack'[r] = [c(r) EXCEPT !.err = TRUE]
  BY <1>1 DEF Waiting
<1>9. \A r \in Racks : /\ rack[r].wait # e => /\ rack'[r].wait = rack[r].wait
                                              /\ rack'[r].model = rack[r].model
                                              /\ rack[r].err => rack'[r].err
                       /\ rack[r].wait = e => /\ rack'[r].wait = None
                                              /\ rack'[r].err \/ rack'[r].model = e
  BY <1>5, <1>6, <1>8
<1> QED
  BY <1>1, <1>3, <1>4, <1>7, <1>9, EndOfLoad

LEMMA RacksNext == ASSUME RacksInv, [Next]_vars PROVE RacksInv'
<1>1. CASE UNCHANGED vars
  BY <1>1 DEF vars, RacksInv, TypeOK, CacheInv, Usable, Addressed, RackOK
<1> QED
  BY <1>1, CommitKeeps, CleanupKeeps, EffectKeeps, ModelLoadedKeeps, ModelFailsKeeps DEF Next

LEMMA RacksInvAlways == Spec => []RacksInv
<1>1. Init => RacksInv
  BY InitRacks
<1>2. RacksInv /\ [Next]_vars => RacksInv'
  BY RacksNext
<1> QED
  BY <1>1, <1>2, PTL DEF Spec

(* The types of the variables of the racks and of the model cache.          *)
THEOREM RackTypes == Spec => []TypeOK
<1>1. RacksInv => TypeOK
  BY DEF RacksInv
<1> QED
  BY <1>1, RacksInvAlways, PTL

(* What the model cache hands out is of its address, and neither failed nor *)
(* disposed of (ModelCache.get).                                            *)
THEOREM CacheAlwaysUsable == Spec => []CacheUsable
<1>1. RacksInv => CacheUsable
  BY DEF RacksInv, CacheInv, CacheUsable
<1> QED
  BY <1>1, RacksInvAlways, PTL

(* A rack that waits for nothing shows the model the hall has now           *)
(* (CustomRackModel).                                                       *)
THEOREM RackShowsCurrent == Spec => []ShownIsCurrent
<1>1. RacksInv => ShownIsCurrent
  BY DEF RacksInv, ShownIsCurrent, RackOK, Committing
<1> QED
  BY <1>1, RacksInvAlways, PTL
=============================================================================
