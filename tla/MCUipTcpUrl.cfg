\* Two clients at once, each with a URL of its own.
SPECIFICATION Spec
CONSTANTS
    port1 = port1
    port2 = port2
    url1 = url1
    url2 = url2
    Blank = Blank
    NoClient = NoClient
    URL = {url1, url2}
    Slot = {1, 2}
    Client = {port1, port2}
    RequestOf <- OwnUrls
    Pages <- Fixed
    MssOptions = {2}
    Windows = {2}
    UIP_TCP_MSS = 2
    UIP_MAXRTX = 2
    UIP_MAXSYNRTX = 1
    Leaves = {}
    Capacity = 1
    MaxOpened = 2
INVARIANT OwnPage
