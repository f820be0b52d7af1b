\* Transmit side: enough bytes to wrap the ring and to fill it while both
\* endpoint buffers are occupied; received bytes
\* make scans for the other endpoint happen.
SPECIFICATION FairSpec
CONSTANTS
    x = x
    y = y
    cr = cr
    Byte = {x}
    CR = cr
    SERIAL_FIFO_SIZE = 3
    MAX_PACKET_SIZE = 2
    EpBuffers = 2
    CanPrints = FALSE
    MaxTx = 4
    MaxRx = 2
    MaxLine = 0
INVARIANTS TypeOK BulkInHasRoom
PROPERTIES TxStream TxDrains
