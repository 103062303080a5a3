\* Three requests, one after the other and at the same time.
SPECIFICATION Spec
CONSTANTS
  h1 = h1
  h2 = h2
  h3 = h3
  p1 = p1
  p2 = p2
  m1 = m1
  Handlers = {h1, h2, h3}
  Ports = {p1, p2}
  Addresses <- MCAddresses
  Models = {m1}
  MountLists <- MCMountLists
  LegacyLinks <- MCLegacyLinks
  MaxLinks = 2
SYMMETRY Symmetric
INVARIANTS
  TablesConsistent
  AcceptedIsBuilt
PROPERTIES
  CreateKeepsRows
CHECK_DEADLOCK FALSE
