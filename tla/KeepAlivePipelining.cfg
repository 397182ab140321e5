SPECIFICATION Spec
CONSTANTS
  KA_RECV_BUFFER_SIZE = 13
  KEEPALIVE_MAX_REQUESTS = 0
  Streams <- AllStreams
INVARIANT PipeliningHandled
