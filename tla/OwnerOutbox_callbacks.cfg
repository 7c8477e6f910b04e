CONSTANTS
  None = None
  i1 = i1  i2 = i2  g1 = g1  j1 = j1  k1 = k1  k2 = k2
  b1 = b1  b2 = b2  c1 = c1  p1 = p1  p2 = p2
  Items = {i1}
  Goals = {g1}
  Jobs = {}
  GoalOf <- OneGoal
  KeyOf <- OwnKeys
  ChannelOf <- ByPhone
  Batches = {b1, b2}
  Inbound = {}
  Parts = {p1}
  Overrides = {}
  HoursSet = {"calls", "texts"}
  MaxContacts = 0
  MaxFaults = 1
  MaxPolls = 0
  MaxLapses = 0
  MaxCrashes = 0
  AmdOn = TRUE
  VoiceOn = TRUE
  SmsOn = TRUE
  TextAfterMiss = TRUE
  TextOutsideHours = TRUE
  MaxMisses = 2
SPECIFICATION Spec
INVARIANTS TypeOK OneCallbackRings OneWayPerPass
PROPERTIES KeepsPromise
