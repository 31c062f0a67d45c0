CONSTANTS
  Hosts = {h1, h2}
  MaxCredentials = 2
SPECIFICATION RegistrySpec
INVARIANTS RemovedIsUnreferenced OneHostEnrolled PresenceAnnounced ServiceAnnounced
SYMMETRY HostSymmetry
CHECK_DEADLOCK FALSE
