CONSTANTS Producers = {p1, p2}
          Workers = {w1, w2}
          MaxRows = 2
SPECIFICATION FairSpec
INVARIANTS TypeOK ExclusivePass NoLostWakeup
PROPERTIES PassesNeverRewind EveryRowTaken
