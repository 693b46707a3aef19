\* Four calls over two slots.
SPECIFICATION FairSpec
CONSTANTS
  c1 = c1
  c2 = c2
  c3 = c3
  c4 = c4
  Call <- FourCalls
  MaxActive = 2
  MaxHops = 1
  EndsMidTurn = FALSE
INVARIANTS TypeOK SlotsCounted UpstreamBounded NoLostWaiter
PROPERTY WaiterServed
