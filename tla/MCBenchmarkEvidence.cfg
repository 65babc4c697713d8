\* Two samples, two takes of each, a service that changes its identity; two
\* contents of the corpus, each with a reference of its own; two workers.
CONSTANTS
    s1 = s1 s2 = s2 d1 = d1 d2 = d2 k1 = k1 k2 = k2
    w1 = w1 w2 = w2 c1 = c1 c2 = c2
    Samples = {s1, s2}
    Identities = {d1, d2}
    Takes = {k1, k2}
    Workers = {w1, w2}
    Corpora = {c1, c2}
    Ref <- MCRef
    NoAudio = NoAudio
    NoFile = NoFile
    Torn = Torn
SPECIFICATION EvidenceSpec
INVARIANTS JournalMatchesFiles CompleteMeansPublished OneIdentity VerifiedCorpus  ReportIsOfTheRun
PROPERTIES NeverRegenerated EvidenceIsCreateOnly ImplementsChain
SYMMETRY MCSymmetry
