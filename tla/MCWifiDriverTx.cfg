SPECIFICATION Spec
CONSTANT SecurityTypes = {"NONE", "WPA"}
INVARIANT TxIsFrame
