\* Two controller processes with one thread each, every admin operation.
CONSTANTS
    c1 = c1 c2 = c2 t1 = t1 t2 = t2 e1 = e1 e2 = e2 n1 = n1 n2 = n2
    Engines = {e1, e2}
    Manual = {}
    Launches = {n1, n2}
    Threads = {t1, t2}
    Ctrls = {c1, c2}
    NoOne = NoOne
    NoEngine = NoEngine
    NoLaunch = NoLaunch
    Home <- MCHome
    OnDemand = {e1, e2}
    Slow = {e1, e2}
    Ops = {"start", "stop", "restart", "status", "shutdown"}
SPECIFICATION Spec
INVARIANTS TypeOK OneTree ReceiptCoversTree OwnerKeepsLease
PROPERTIES BackoffRespected
SYMMETRY MCSymmetry
