SPECIFICATION FairSpec
CONSTANTS
  Entries = {e1, e2}
  Datagrams = {1, 2, 3}
  Cpus = {p, q}
  Buckets = {0, 1}
  Hash <- SharedChain
  Size <- Sizes
  Lost <- TwoLost
  e1 = e1
  e2 = e2
  p = p
  q = q
INVARIANTS
  TypeOK
  ListsAreWhole
  ReleaseOnItsWay
  PortsOfOwnDatagram
PROPERTIES
  CountedWhenAllSeen
  EntryReleased
