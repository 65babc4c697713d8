\* One process with two threads; the endpoint is edited while they run.
CONSTANTS
    c1 = c1 c2 = c2 t1 = t1 t2 = t2 b1 = b1 b2 = b2 v1 = v1 v2 = v2
    Ctrls = {c1}
    Threads = {t1, t2}
    Home <- MCOneHome
    Endpoints = {b1, b2}
    Voices = {v1}
    External = External
    Factory = Factory
    NoOne = NoOne
    NoEndpoint = NoEndpoint
SPECIFICATION Spec
INVARIANTS ConflictBeforeReceipt SpeaksWithItsVoice
SYMMETRY MCThreadsAndEndpoints
