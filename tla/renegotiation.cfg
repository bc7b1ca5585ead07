SPECIFICATION Spec
CONSTANTS
    Attempts = {a1, a2, a3}
    Joins = {j1}
    Displays = {d1, d2}
    Modes = {m1, m2}
    None = None
    phone = phone
    laptop = laptop
    page = page
    tab = tab
    relay = relay
    DeviceOf <- OneDevice
    PageOf <- OnePage
    RelayOf <- NoRelay
    Preempt = FALSE
    MayNudge = FALSE
    MayScale = FALSE
SYMMETRY AllSymmetry
INVARIANTS CurrentSessionWhole CaptureHasStopper RowHasReaper EndsClean RecordedIsUp
PROPERTIES KeepUsed RecordStaysTrue
