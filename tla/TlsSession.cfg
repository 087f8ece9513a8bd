SPECIFICATION Spec
CONSTANTS
  Worlds <- MCWorlds
  MAXIMUM_INTERMEDIATES = 2
  SearchSteps = 12
  Names <- MCNames
  Casts <- MCCasts
  Hosts <- MCHosts
  Anchors <- MCAnchors
  AUTH_AGE = 3
  LIFETIME = 2
  REKEY_AT = 2
  MAX_EMPTY = 2
  MAX_WARNINGS = 2
  MAX_UPDATES = 2
  MAX_TICKETS = 2
  RANDOM = 8
  BINDER = 5
  MAX_RECORD_PLAINTEXT = 64
  MAX_HANDSHAKE_MESSAGE_BODY = 60
  PADDING_RANGE_START = 96
  PADDING_TARGET = 120
  Letters <- MCLetters
  MAXIMUM_DEPTH = 5
  MAXIMUM_NODES = 90
  MAXIMUM_LENGTH_OCTETS = 3
  MAXIMUM_TAG_OCTETS = 4
  MAXIMUM_SUBIDENTIFIER_OCTETS = 3
  MAXIMUM_SERIAL_OCTETS = 4
  MAXIMUM_NAME_COMPARISONS = 3
  MINIMUM_RSA_MODULUS_BITS = 16
  KEY_OCTETS = 14
  Labels = {"a", "b", "com", "x", "p"}
  Addresses = {"ip6"}
  Small <- MCSmall
  Papers <- MCPapers
INVARIANTS
  CertificatesAreRight
  HandshakeIsAuthentic
  TheWireIsRight
  HonestHostsAreServed
CHECK_DEADLOCK FALSE
