CONSTANT Threads = {t1, t2, t3}
SPECIFICATION LiveSpec
INVARIANTS TypeOK NoLostWakeup
PROPERTIES OneSetOnePasses Refinement SetIsTaken TimedWaitEnds
