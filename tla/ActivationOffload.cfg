\* The configuration enable_activation_offloading uses, five layers.
SPECIFICATION Spec
CONSTANTS
  NumLayers = 5
  NumOffload = 4
  Tensors = {a, b}
SYMMETRY Symmetry
INVARIANTS
  TypeOK
  PopIsReady
  CopyIsWaitedFor
  LookupsSucceed
  CleanStart
  AtMostTwoResident
