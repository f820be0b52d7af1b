SPECIFICATION Spec
CONSTANTS
    x = x
    y = y
    cr = cr
    Byte = {x}
    CR = cr
    SERIAL_FIFO_SIZE = 3
    MAX_PACKET_SIZE = 2
    EpBuffers = 2
    CanPrints = TRUE
    MaxTx = 1
    MaxRx = 4
    MaxLine = 1
INVARIANT NoOverflowAssert
PROPERTIES RxStream
