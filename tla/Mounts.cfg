CONSTANTS
  n1 = n1
  n2 = n2
  NULL = NULL
  MaxMounts = 5
  Mounts <- UpToMaxMounts
  Groups = {1, 2, 3, 4}
  Namespaces <- TwoNs
  InitNs = n1
  SubDirs <- OneDir
  Crowded = 3
SPECIFICATION BoundedSpec
INVARIANTS
  PeerGroups
  SlaveLists
  MountTrees
PROPERTIES
  FailureUndone
  Propagated
  UnmountPropagated
  StillReceives
  NamespaceCopied
VIEW Shape
CHECK_DEADLOCK FALSE
