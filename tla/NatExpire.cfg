\* A connection that falls silent.
SPECIFICATION FairSpec
CONSTANTS
  h1 = h1
  h2 = h2
  w = w
  nat_in = nat_in
  nat_out = nat_out
  Inside <- OneInside
  Outside <- OneOutside
  external_ip = nat_out
  internal_ip = nat_in
  HostPort = {1}
  NatPort = {9, 13, 15}
  ByteBase = 4
  NAT_PORT_MIN = 6
  NAT_PORT_MAX = 8
  TCP_TIMEOUT = 1
  Stalls = {1}
  MaxMappings = 1
  MaxTime = 3
PROPERTY ExpiredAreRemoved
