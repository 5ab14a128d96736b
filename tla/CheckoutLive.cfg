SPECIFICATION FairSpec
CHECK_DEADLOCK FALSE
CONSTANTS
    None = None
    k1 = k1
    k2 = k2
    l1 = l1
    l2 = l2
    h1 = h1
    h2 = h2
    Keys = {k1, k2}
    Bills = {1, 2}
    Poison = {1}
    Loops = {l1}
    Handlers = {h1, h2}
    Mishaps = {"slow_server", "page_left"}
PROPERTIES
    OfflineBillsSettled
