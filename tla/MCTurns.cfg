CONSTANTS
    r1 = r1  w1 = w1  w2 = w2  q1 = q1  q2 = q2  NoRun = NoRun  NoLease = NoLease
SPECIFICATION FairSpec
INVARIANTS OneIsTold HolderKeepsItsSandbox
PROPERTIES TurnsEndClean NothingStays
