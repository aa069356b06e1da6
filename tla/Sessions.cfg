SPECIFICATION Spec
CONSTANTS
    desk = desk  phone = phone  d1 = d1  d2 = d2  p1 = p1
    Browsers = {desk, phone}
    Tabs = {d1, d2, p1}
    BrowserOf <- TwoBrowsers
    Tokens = {k1, k2, k3}
    Requests = {r1, r2}
    NoToken = NoToken  NoTab = NoTab
    MaxTroubles = 1  MaxChanges = 1
SYMMETRY TabSymmetry
INVARIANTS SingleUseUnlessOverlapped ReplayMeansRaceOrLoss SignedOutHoldsNothing OneLiveTokenPerLogin SweptLoginsStayOut
CHECK_DEADLOCK FALSE
