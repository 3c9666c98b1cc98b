CONSTANTS
    t1 = t1  h1 = h1  e1 = e1  q1 = q1  w1 = w1  s1 = s1  s2 = s2
    d0 = d0  d1 = d1  d2 = d2  v1 = v1  p1 = p1  p2 = p2  NoLease = NoLease  Off = Off
SPECIFICATION Spec
 
PROPERTY NoTickIsSkipped
SYMMETRY Alike
CHECK_DEADLOCK FALSE
