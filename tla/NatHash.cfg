\* Two private hosts, a public one, a pool of two ports and two buckets.
SPECIFICATION Spec
CONSTANTS
  h1 = h1
  h2 = h2
  w = w
  nat_in = nat_in
  nat_out = nat_out
  Inside <- TwoInside
  Outside <- OneOutside
  external_ip = nat_out
  internal_ip = nat_in
  HostPort = {1}
  NatPort = {13}
  ByteBase = 4
  NAT_PORT_MIN = 6
  NAT_PORT_MAX = 7
  TCP_TIMEOUT = 2
  Stalls = {1, 2}
  MaxMappings = 3
  MaxTime = 2
  HASH_8BITS = 2
  hash <- Mixed
INVARIANTS TypeOK ReplyReachesSender CrashOnlyUnknown
PROPERTY ImplementsBindings
CHECK_DEADLOCK FALSE
