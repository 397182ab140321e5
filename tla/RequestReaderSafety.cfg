SPECIFICATION Spec
CONSTANTS
  Byte <- AnyString
  MAX_METHOD_LEN = 3
  MAX_PATH_LEN = 4
  MAX_HEADER_NAME = 3
  MAX_HEADER_VALUE = 4
  MAX_HEADERS = 2
  SIZE_MAX = 99
  NULL = NULL
  lower <- Lower
  Messages <- SomeMessages
  Following <- NextMessage
  Junk <- SomeJunk
INVARIANTS
  SegmentationIndependent
  AsMeant
  RoundTrip
  AgreesWithKeepAlive
CHECK_DEADLOCK FALSE
