\* Three attempts on one key with one of two payloads; answers may be lost.
SPECIFICATION Spec
CONSTANTS
  Key = {k1}
  Payload = {p1, p2}
  Attempt = {a1, a2, a3}
  Nobody = Nobody
  AnswersLost = TRUE
SYMMETRY Symmetry
INVARIANT WrittenOnce
CHECK_DEADLOCK FALSE
