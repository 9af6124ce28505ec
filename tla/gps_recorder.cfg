CONSTANTS
    u1 = u1
    u2 = u2
    u3 = u3
    coarse = coarse
    fine = fine
    Callers = {u1, u2, u3}
    Modes = {coarse, fine}
    NumSubs = 2

SPECIFICATION RecorderFairSpec
INVARIANTS RecorderTypeOK SubscribedWhileRunning RecordsAtChosenMode TaskWhileRunning OffSticks
PROPERTIES CallReturns
