\* Three callers, two tests after a pause, one fault.
SPECIFICATION FairSpec
CONSTANTS
  Caller = {c1, c2, c3}
  Cred = {f1, f2}
  MaxProbes = 2
  MaxFaults = 1
INVARIANTS TypeOK LoginsBounded OneProbe OnlyProbesEscalate
PROPERTY Recovers
