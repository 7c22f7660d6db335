SPECIFICATION Spec
CONSTANTS
    p = p
    q = q
    Requests = {p, q}
    Streams = {q}
    NoRequest = none
    Tools = {t}
    Legacy = {old}
    MaxChunks <- TwoChunks
    MaxLives = 2
    MaxPushes = 1
    MaxKills = 1
INVARIANTS TypeOK ReadyIsHeard ToolsInStep NeverOrphaned StaleTurnsSwept
PROPERTIES SweepSpares ImplementsSettlement
CHECK_DEADLOCK FALSE
