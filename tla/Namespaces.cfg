SPECIFICATION Spec
CONSTANTS
  Parts = {"suspend", "workers", "policies"}
  Pods = {p1, p2, p3, p4}
  Worker = w0
  Workers = {w1, w2}
  Artifact = a1
  Artifacts = {a1, a2, a3}
  Image = img1
  PodSpecs = {img1, img2}
  MaxRetries = 2
  DepthLimit = 16
  MaxBatch = 1
  None = None
  Never = Never
SYMMETRY WorkerSymmetry
INVARIANTS
  PodsAreAccountedFor
  InputsAreCurrent
  ReadinessIsReal
  ArtifactsAreReferenced
  DemandIsServed

  
  
