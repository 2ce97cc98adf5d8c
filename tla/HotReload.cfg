CONSTANTS
    RouteModule = {m1, m2}
    ReloadTask = {t1, t2}
    MaxEdits = 2
    Missing = Missing
    Broken = Broken
SPECIFICATION ReloadSpec
PROPERTY EveryChangeIsLoaded
CHECK_DEADLOCK FALSE
