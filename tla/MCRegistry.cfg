\* Two processes, two models of one voice in two directories; one manifest is
\* a candidate's, the other asks to be a default.
CONSTANTS
    p1 = p1 p2 = p2 m1 = m1 m2 = m2 v1 = v1 d1 = d1 d2 = d2 r1 = r1 r2 = r2
    Procs = {p1, p2}
    Models = {m1, m2}
    Voices = {v1}
    VoiceOf <- MCVoiceOf
    Shared = Shared
    Profile <- MCProfile
    Dirs = {d1, d2}
    Revs = {r1, r2}
    Declares <- MCDeclares
    Assigned = {"default"}
    Evaluated <- MCEvaluated
    NoOne = NoOne
    NoModel = NoModel
    NoFile = NoFile
    HomeDir <- MCHomeDir
    MaxEdits = 2
SPECIFICATION Spec
INVARIANTS NoStalePublication ServedWasEvaluated
PROPERTIES QuarantineHolds InstalledWhole ImplementsLifecycle
SYMMETRY MCSymmetry
