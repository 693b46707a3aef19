\* Three attempts on one key with one of two payloads; every answer arrives.
SPECIFICATION Spec
CONSTANTS
  Key = {k1}
  Payload = {p1, p2}
  Attempt = {a1, a2, a3}
  Nobody = Nobody
  AnswersLost = FALSE
SYMMETRY Symmetry
INVARIANTS TypeOK WrittenOnce ReplayIsTheSame
PROPERTY KeepsClaim
CHECK_DEADLOCK FALSE
