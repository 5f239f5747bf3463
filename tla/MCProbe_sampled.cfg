\* Every provider answers or fails in time, so that silence plays no part.
SPECIFICATION Spec
CONSTANTS
    Models = {m1, m2, m3}
    Answering = {m1, m2}
    Silent = {}
PROPERTY EveryModelSampled
CHECK_DEADLOCK FALSE
