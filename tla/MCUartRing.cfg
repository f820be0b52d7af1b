\* UARTSend as its interface allows, both directions at once, line errors.
SPECIFICATION FairSpec
CONSTANTS
    x = x
    cr = cr
    Byte = {x}
    CR = cr
    UART_RING_BUFSIZE = 3
    RxDepth = 2
    MaxBufLen = 3
    LineErrors = TRUE
    MaxTx = 3
    MaxRx = 3
INVARIANTS TypeOK NoLostWakeup TxExclusive
PROPERTIES TxStream RxStream TxDrains RxServed
