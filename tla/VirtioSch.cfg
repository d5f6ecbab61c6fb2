SPECIFICATION Spec
CONSTANTS
  Q = {q1, q2}
  ReqDepth = 2
INVARIANTS TypeOK OneToken NoOverflow
PROPERTIES ServesEveryKick DrainsWhenDone
