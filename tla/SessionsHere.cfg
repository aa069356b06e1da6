SPECIFICATION Spec
CONSTANTS
    desk = desk  phone = phone  d1 = d1  d2 = d2  p1 = p1
    Browsers = {desk, phone}
    Tabs = {d1, p1}
    BrowserOf <- TwoBrowsers
    Tokens = {k1, k2, k3, k4}
    Requests = {r1}
    NoToken = NoToken  NoTab = NoTab
    MaxTroubles = 0  MaxChanges = 1
SYMMETRY TokenSymmetry
INVARIANTS StaysSignedInHere
CHECK_DEADLOCK FALSE
