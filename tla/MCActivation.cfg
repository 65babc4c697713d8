\* Two callers and two engines configured with the same service key, with
\* fairness.
CONSTANTS
    p1 = p1 p2 = p2 e1 = e1 e2 = e2 r1 = r1 r2 = r2 r3 = r3
    Callers = {p1, p2}
    Engines = {e1, e2}
    Requests = {r1, r2, r3}
    NoOne = NoOne
    NoRequest = NoRequest
SPECIFICATION FairSpec
INVARIANTS UnansweredIsRecorded
PROPERTIES LateHealthRecovers ImplementsLedger
