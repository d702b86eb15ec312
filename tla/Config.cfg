\* Files of up to three elements; 65537 is 1 when it is cut to a uint16_t.
\* Bodies of up to five bytes: a CONNECT with type, port and two bytes of name.
SPECIFICATION ConfigSpec
CONSTANTS
  SizeT = 1073741824
  MaxAlloc = 1000000
  Octet = {0, 1}
  MaxBody = 5
  Numbers = {0, 2, 127, 513}
  Unsigned = {1, 65537}
  CliPort = 9001
  MaxElements = 3
INVARIANTS DiesOnTruncatedOnly SerializeInverts SentDecodes HostnameAsSent AllOrNothing ServesTheFile
CHECK_DEADLOCK FALSE
