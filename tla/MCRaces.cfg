CONSTANTS
    r1 = r1  r2 = r2  p1 = p1  p2 = p2
    w0 = w0  w1 = w1  w2 = w2  d0 = d0  d1 = d1  d2 = d2
    NoRun = NoRun  NoLease = NoLease
    Cases <- Races
SPECIFICATION Spec
INVARIANTS LogsKeepTheirOrder NoRunIsStranded WaitsUseNoStart
SYMMETRY Alike
CHECK_DEADLOCK FALSE
