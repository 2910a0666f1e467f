SPECIFICATION Spec
CONSTANTS
    r1 = r1
    r2 = r2
    r3 = r3
    NoRun = none
    Runs <- ThreeRuns
    MaxSpawns = 3
INVARIANTS
    NoRunIsLost
    WorkerServesActiveRun
PROPERTIES
    PromiseKept
    EveryRunSettles
CHECK_DEADLOCK FALSE
