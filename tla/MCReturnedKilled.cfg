\* Two handlers; the violated promise of a comment.
CONSTANTS
    h1 = h1 h2 = h2 h3 = h3
    Handlers = {h1, h2}
    Deadline = 2
    Early = 1
    NoOne = NoOne
SPECIFICATION Spec
PROPERTIES ReturnedIsNotKilled
