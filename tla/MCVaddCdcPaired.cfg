SPECIFICATION FairSpec
CONSTANTS
  PIPE_WIDTH = 1024
  PIPELINE_LAT = 2
  MODMUL_LAT = 2
  IN_FIFO_DEPTH = 2
  OUT_FIFO_DEPTH = 3
  MIN_MARGIN = 2
  FIFO_CAPACITY = 4
  PF_DELAY = 1
  CDC_SYNC_STAGES = 1
  DEST_SYNC_FF = 1
  RST_HOLD = 2
  PKT <- Packets
  PacketWords = 2
  MAX_WORDS = 5
  MAX_RESETS = 1
INVARIANTS TypeOK NoOverflow NoHandshakeInReset ResultsInOrder WordsAccounted
PROPERTIES ImplementsStream Delivered
