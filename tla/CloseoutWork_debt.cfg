SPECIFICATION FairSpec
CONSTANTS
    Tapes = {t1, t2}
    Libraries = {l1, l2}
    MediaLimit = 2
    Home = l1
    Touched = {t1}
    MaxEvents = 1
INVARIANTS TypeOK AttemptsExclusive
PROPERTIES WakeHonoured DebtServed
CHECK_DEADLOCK FALSE
