\* Three handlers, used again and again; the timers may wake one tick early.
CONSTANTS
    h1 = h1 h2 = h2 h3 = h3
    Handlers = {h1, h2, h3}
    Deadline = 2
    Early = 1
    NoOne = NoOne
SPECIFICATION FairSpec
INVARIANTS RunningIsTracked
PROPERTIES AbortsOnlyOverdue StallsAreBounded
