SPECIFICATION FairSpec
CONSTANT SecurityTypes = {"NONE", "WPA"}
INVARIANTS TypeOK OneUnconfirmed ConnectReady
PROPERTIES TxServed ConnectingEnds
