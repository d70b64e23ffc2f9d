CONSTANTS
  MaxCount = 2
  Transforms = {t1, t2}
  Hidden = Hidden
  Clones = {c1, c2}
  Meshes = {1, 2}
  Geometry <- MCGeometry
  Material <- MCMaterial
  Texture <- MCTexture
  MaxHistory = 1
SPECIFICATION SceneSpec
INVARIANTS FactorySound CountsExact
