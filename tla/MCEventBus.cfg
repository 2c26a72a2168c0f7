SPECIFICATION FairSpec
CONSTANTS
  MaxSlots = 3
  ReservedSlots = 1
  AuditCapacity = 1
  CounterMod = 2
  Types = {t1, t2}
INVARIANTS SlotsAccountedFor
PROPERTIES TwoLanes ReserveComesBack
