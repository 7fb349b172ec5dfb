SPECIFICATION FairSpecChannel0
CONSTANTS
  PIPE_WIDTH = 512
  PIPELINE_LAT = 2
  MODMUL_LAT = 2
  IN_FIFO_DEPTH = 2
  OUT_FIFO_DEPTH = 3
  MIN_MARGIN = 2
  FIFO_CAPACITY = 4
  PF_DELAY = 1
  CDC_SYNC_STAGES = 2
  DEST_SYNC_FF = 2
  RST_HOLD = 3
  PKT <- Packets
  PacketWords = 2
  MAX_WORDS = 5
  MAX_RESETS = 0
PROPERTIES ImplementsStream Channel0Delivered
