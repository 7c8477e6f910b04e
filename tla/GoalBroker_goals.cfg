\* One goal whose worker may stall, two messages beside the one that makes it, each of
\* which may come twice; one Kanban call that fails or one restart, at any point.
SPECIFICATION Spec
CONSTANTS
  Goals = {1}
  Msgs = {m1, m2, m3}
  Questions = {}
  Results = {r}
  Handlers = {h1}
  MaxRecoveries = 1
  MaxDeliveries = 3
  MaxTroubles = 1
  None = None
SYMMETRY Symmetry
INVARIANTS TypeOK RestartsAreBounded
PROPERTIES UpdatesAreKept
CHECK_DEADLOCK FALSE
