\* Two processes, one legacy model, one pack of one reference.
CONSTANTS
    p1 = p1 p2 = p2 k1 = k1 k2 = k2 m1 = m1 g1 = g1 b1 = b1 b2 = b2
    r1 = r1 own = own shared = shared gpt = gpt index = index
    Procs = {p1, p2}
    Tokens = {k1, k2}
    FromEnvironment = {}
    Legacy = {m1}
    Imported <- MCImported
    Shared = shared
    Refs = {r1}
    OwnRef = own
    HandBindings <- MCHandBindings
    SharedBinding <- MCSharedBinding
    NoOne = NoOne
    NoToken = NoToken
    Empty = Empty
    Broken = Broken
    DefaultAlias = m1
    Gpt = gpt
    Index = index
    Runtimes = {gpt, index}
    Needs <- MCNeeds
    gpu0 = gpu0
    MaxScripts = 3
    NoFile = NoFile
SPECIFICATION VoiceSpec
INVARIANTS NamedIsThere SerialScriptsAreSafe TraceCoversGeneration
PROPERTIES SerialScriptsOnlyAdd TokenIsTrusted
SYMMETRY MCSymmetry
