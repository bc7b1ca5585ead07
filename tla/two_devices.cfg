SPECIFICATION Spec
CONSTANTS
    Attempts = {a1, a2}
    Joins = {j1, j2}
    Displays = {d1, d2}
    Modes = {m1, m2}
    None = None
    phone = phone
    laptop = laptop
    page = page
    tab = tab
    relay = relay
    DeviceOf <- OneStranger
    PageOf <- NewPage
    RelayOf <- OneRelay
    Preempt = TRUE
    MayNudge = TRUE
    MayScale = TRUE
SYMMETRY PairSymmetry
INVARIANT NoSharedDisplay
PROPERTY SessionKeepsDevice
