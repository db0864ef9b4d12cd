SPECIFICATION Spec
CONSTANTS
  None = None
  p1 = p1
  p2 = p2
  c1 = c1
  c2 = c2
  Policy = {p1, p2}
  SourceOf <- TwoPolicies
  Source = {"s"}
  Content = {c1, c2}
  Collected = {c2}
  Time = {1}
  Importer = {"i"}
  Installer = {"j"}
  Version = {"v1"}
  Release = {"r1"}
  VersionOf <- OneVersion
  Artifact <- OneArtifact
  ReleaseTime = 1
  MaxEvents = 1
PROPERTY PublishedStaysShown
CHECK_DEADLOCK FALSE
