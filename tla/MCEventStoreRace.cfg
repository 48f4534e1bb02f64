\* Two writers, no bound on their interleaving.
SPECIFICATION Spec
CONSTANTS
    Writers = {w1, w2}
    NoEvent = NoEvent
    MaxEvents = 2
INVARIANTS AlwaysValid
CHECK_DEADLOCK FALSE
