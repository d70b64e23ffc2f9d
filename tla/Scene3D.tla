------------------------------- MODULE Scene3D -------------------------------
(***************************************************************************)
(* The toolkit in src/frontend/src/3d as one page uses it: an instance     *)
(* factory and clones of the same model in one scene, and the panel over   *)
(* it.  disposeScene empties the scene, the factory's group and all clones *)
(* alike; both use the same geometries and materials, which only the       *)
(* clones count.                                                           *)
(***************************************************************************)
EXTENDS InstanceFactory, SharedResources, DebugPanel

VARIABLE drawn  \* the factory's group is in the scene

sceneVars == <<factoryVars, resourceVars, panelVars, drawn>>

SceneInit ==
  /\ FactoryInit
  /\ ResourcesInit
  /\ PanelInit
  /\ drawn = FALSE

(* addToScene and removeFromScene. *)
AddToScene ==
  /\ drawn' = TRUE
  /\ UNCHANGED <<factoryVars, resourceVars, panelVars>>

RemoveFromScene ==
  /\ drawn' = FALSE
  /\ UNCHANGED <<factoryVars, resourceVars, panelVars>>

(* The factory's own calls; dispose takes the group out of its parent. *)
FactoryStep ==
  /\ \/ FactoryUse /\ UNCHANGED drawn
     \/ DisposeFactory /\ drawn' = FALSE
  /\ UNCHANGED <<resourceVars, panelVars>>

CloneStep ==
  /\ ResourcesNext
  /\ UNCHANGED <<factoryVars, panelVars, drawn>>

PanelStep ==
  /\ PanelNext
  /\ UNCHANGED <<factoryVars, resourceVars, drawn>>

(* disposeScene: a clone and the group release what they use whatever their *)
(* order is, and a count does not go below 0; a texture is taken out of its *)
(* material by whichever comes first.                                       *)
DisposeScene ==
  /\ clones' = {}
  /\ refs' = [r \in Resources |->
       Left(r, IF r \in Textures
               THEN IF clones # {} \/ drawn THEN TexturesTaken(r) ELSE 0
               ELSE (Cardinality(clones) + 1) * Uses(r))]
  /\ textured' = IF clones # {} \/ drawn THEN {} ELSE textured
  /\ drawn' = FALSE
  /\ UNCHANGED <<factoryVars, panelVars>>

SceneNext ==
  \/ AddToScene
  \/ RemoveFromScene
  \/ FactoryStep
  \/ CloneStep
  \/ PanelStep
  \/ DisposeScene

SceneSpec == SceneInit /\ [][SceneNext]_sceneVars
-----------------------------------------------------------------------------
(* The types of all variables. *)
SceneTypeOK ==
  /\ FactoryTypeOK
  /\ ResourcesTypeOK
  /\ PanelTypeOK
  /\ drawn \in BOOLEAN
=============================================================================
