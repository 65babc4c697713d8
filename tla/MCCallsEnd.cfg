\* One controller, two threads racing for its RLock and the group guard.
CONSTANTS
    c1 = c1 c2 = c2 t1 = t1 t2 = t2 e1 = e1 e2 = e2 n1 = n1 n2 = n2
    Engines = {e1}
    Manual = {}
    Launches = {n1}
    Threads = {t1, t2}
    Ctrls = {c1}
    NoOne = NoOne
    NoEngine = NoEngine
    NoLaunch = NoLaunch
    Home <- MCOneHome
    OnDemand = {e1}
    Slow = {e1}
    Ops = {"stop", "restart", "speech"}
SPECIFICATION FairSpec
PROPERTIES CallsEnd
