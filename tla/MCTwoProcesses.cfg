\* Two processes with one thread each against one backend.
CONSTANTS
    c1 = c1 c2 = c2 t1 = t1 t2 = t2 b1 = b1 b2 = b2 v1 = v1 v2 = v2
    Ctrls = {c1, c2}
    Threads = {t1, t2}
    Home <- MCHome
    Endpoints = {b1}
    Voices = {v1, v2}
    External = External
    Factory = Factory
    NoOne = NoOne
    NoEndpoint = NoEndpoint
SPECIFICATION Spec
INVARIANTS OneOperation UnresolvedIsRecorded
PROPERTY ImplementsVoiceService
SYMMETRY MCVoices
