SPECIFICATION StoreSpec
CONSTANTS
  None = None
  p1 = p1
  p2 = p2
  c1 = c1
  c2 = c2
  Policy = {p1, p2}
  SourceOf <- TwoPolicies
  Source = {"s"}
  Content = {c1, c2}
  Collected = {c2}
  Time = {1, 2}
  Importer = {"i"}
  Installer = {j, k}
  Version = {"v1", "v2"}
  Release = {"r1", "r2", "r3", "r4"}
  VersionOf <- FourVersions
  Artifact <- FourArtifacts
  ReleaseTime = 1
  MaxEvents = 1
PROPERTIES ActivationIsWhole RowsNeverRegress OnlyProvenAbsence
SYMMETRY Installers
CHECK_DEADLOCK FALSE
