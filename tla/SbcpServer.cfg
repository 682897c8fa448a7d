SPECIFICATION Spec
CONSTANTS
  h1 = h1
  h2 = h2
  h3 = h3
  Handlers <- Three
  NoFd = NoFd
  Names = {1, 2, 3}
  Limits = {0, 3}
  num_extra_clients = 2
  FifoCap = 1
  AckSure = 1
  AckCap = 2
  ShortReads = TRUE
  MaxSends = 3
SYMMETRY Symmetry
INVARIANTS
  TypeOK
  RegistryConsistent
  RosterAgreement
  Attribution
  StreamWellFormed
  Handshake
PROPERTIES
  NoTakeover
CHECK_DEADLOCK FALSE
