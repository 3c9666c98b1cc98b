CONSTANTS
    c1 = c1  c2 = c2  Off = Off
SPECIFICATION Spec
SYMMETRY Symmetric
INVARIANTS
    AnswersReachTheirTask ListingsAreTrue FirstTickAfter
PROPERTIES KeysAreCurrent
CHECK_DEADLOCK FALSE
