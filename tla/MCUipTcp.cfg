\* One client, which the network and its own leaving may trouble in every way.
SPECIFICATION FairSpec
CONSTANTS
    port1 = port1
    port2 = port2
    url1 = url1
    url2 = url2
    Blank = Blank
    NoClient = NoClient
    URL = {url1}
    Slot = {1, 2}
    Client = {port1}
    RequestOf <- OneUrl
    Pages <- Fixed
    MssOptions = {0, 2}
    Windows = {1, 2}
    UIP_TCP_MSS = 2
    UIP_MAXRTX = 1
    UIP_MAXSYNRTX = 1
    Leaves = {"RST", "FIN", "gone"}
    Capacity = 1
    MaxOpened = 2
INVARIANTS TypeOK PageInOrder ClosedAfterWholePage OneSlotPerClient
PROPERTIES PageEnds SlotFreed
