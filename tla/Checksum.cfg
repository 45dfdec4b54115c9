\* Bytes of two bits; addresses whose sum passes 2^32 and some that do not.
SPECIFICATION Spec
CONSTANTS
  ByteBase = 4
  Addr = {0, 17, 130, 200, 255}
  Word = {1, 8, 15}
  MaxWords = 1
  LastByte = {1, 3}
  IPPROTO_TCP = 2
INVARIANTS TypeOK IpChecksumVerifies TcpChecksumVerifies
