----------------------------- MODULE MCScene3D -----------------------------
(* Model-checking instance of Scene3D: two meshes of one material, with one *)
(* texture.                                                                 *)
EXTENDS Scene3D

MCGeometry(m) == IF m = 1 THEN "body" ELSE "door"
MCMaterial(m) == "steel"
MCTexture(x) == "scratches"
=============================================================================
