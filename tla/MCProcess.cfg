\* Two models, one of which answers, while the other fails or stays silent; one
\* end of a process and a second one after it, two documents.
SPECIFICATION ProcessSpec
CONSTANTS
    Models = {m1, m2}
    Answering = {m1}
    Silent = {m2}
    MaxDocument = 2
    Columns <- PriceColumns
    MaxRandom = 3
    MaxEnds = 1
INVARIANTS ProcessTypeOK TokenKnown ServesWhole
PROPERTIES StaysFresh LoopsEnd SnapshotKept PricesFollow
CHECK_DEADLOCK FALSE
