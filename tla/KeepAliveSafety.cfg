SPECIFICATION FairSpec
CONSTANTS
  KA_RECV_BUFFER_SIZE = 13
  KEEPALIVE_MAX_REQUESTS = 2
  Streams <- AllStreams
INVARIANTS TypeOK BufferInBounds WindowAligned AnsweredInOrder RefusedRightly CloseHonoured NoRequestAbandoned
PROPERTY ConnectionEnds
