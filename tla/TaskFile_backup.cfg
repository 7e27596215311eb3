CONSTANTS
    Procs = {p1, p2}
    Records = {t1, t2}
    Missing = Missing
    Broken = Broken
    MaxMishaps = 2
SPECIFICATION FileSpec
INVARIANT BackupRecovers
CHECK_DEADLOCK FALSE
