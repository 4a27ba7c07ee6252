SPECIFICATION Spec
CONSTANTS
  HeaderNames <- MCHeaderNames
  DateText <- MCDate
  Streams <- MCStreams
  MaxPort = 65535
  FieldSize = 65536
  max_header_size = 160
  ULLONG_MAX = 255
INVARIANTS
  HeadBounded
  Delivered
  Asserts
  RoundTrip
