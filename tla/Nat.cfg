\* Two private hosts, a public one and a pool of two ports for three mappings.
SPECIFICATION Spec
CONSTANTS
  h1 = h1
  h2 = h2
  w = w
  nat_in = nat_in
  nat_out = nat_out
  Inside <- TwoInside
  Outside <- OneOutside
  external_ip = nat_out
  internal_ip = nat_in
  HostPort = {1}
  NatPort = {9, 13, 15}
  ByteBase = 4
  NAT_PORT_MIN = 6
  NAT_PORT_MAX = 8
  TCP_TIMEOUT = 2
  Stalls = {1, 2}
  MaxMappings = 3
  MaxTime = 2
INVARIANTS TypeOK PoolMatchesTable ReplyReachesSender MappingInUse
PROPERTY KeepsBindings
