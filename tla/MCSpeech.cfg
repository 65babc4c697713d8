\* Two controllers, one thread each: speech against admin stop and restart, with
\* an engine that may also be run by hand.
CONSTANTS
    c1 = c1 c2 = c2 t1 = t1 t2 = t2 e1 = e1 e2 = e2 n1 = n1 n2 = n2
    Engines = {e1, e2}
    Manual = {e2}
    Launches = {n1, n2}
    Threads = {t1, t2}
    Ctrls = {c1, c2}
    NoOne = NoOne
    NoEngine = NoEngine
    NoLaunch = NoLaunch
    Home <- MCHome
    OnDemand = {e1}
    Slow = {e1}
    Ops = {"speech", "stop"}
SPECIFICATION Spec
INVARIANTS OneJob JobsLeaveEvidence
PROPERTIES NoSignalDuringInference ImplementsGroup
SYMMETRY MCLaunchAndControllerSymmetry
