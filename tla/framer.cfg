SPECIFICATION MCFairSpec
CONSTANTS
  Streams <- AllStreams
  ValidUbx <- Accepted
  UART_RX_BUF_SIZE = 7
  UART_QUEUE_SIZE = 1
  NMEA_MAX_LEN = 4
  UBX_OVERHEAD = 5
  UBX_LEN_OFFSET = 2
  FifoChunk = 2
  LineFaults = TRUE
  PoolExhausts = TRUE
  SplitsSync = TRUE
INVARIANTS Inv AllDelivered Resumes
PROPERTIES ImplementsFrameStream AlwaysCaughtUp
CHECK_DEADLOCK FALSE
