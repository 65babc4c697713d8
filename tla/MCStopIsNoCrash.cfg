\* One controller: an admin stop that cannot verify the teardown.
CONSTANTS
    c1 = c1 c2 = c2 t1 = t1 t2 = t2 e1 = e1 e2 = e2 n1 = n1 n2 = n2
    Engines = {e1}
    Manual = {}
    Launches = {n1}
    Threads = {t1, t2}
    Ctrls = {c1}
    NoOne = NoOne
    NoEngine = NoEngine
    NoLaunch = NoLaunch
    Home <- MCOneHome
    OnDemand = {e1}
    Slow = {}
    Ops = {"start", "stop", "status"}
SPECIFICATION Spec
PROPERTIES StopIsNoCrash
