CONSTANTS
  None = None
  i1 = i1  i2 = i2  g1 = g1  j1 = j1  k1 = k1  k2 = k2
  b1 = b1  b2 = b2  c1 = c1  p1 = p1  p2 = p2
  Items = {i1}
  Goals = {}
  Jobs = {j1}
  GoalOf <- AJob
  KeyOf <- OwnKeys
  ChannelOf <- ByPhone
  Batches = {}
  Inbound = {}
  Parts = {p1, p2}
  Overrides = {}
  HoursSet = {"calls"}
  MaxContacts = 1
  MaxFaults = 2
  MaxPolls = 0
  MaxLapses = 1
  MaxCrashes = 1
  AmdOn = FALSE
  VoiceOn = FALSE
  SmsOn = TRUE
  TextAfterMiss = TRUE
  TextOutsideHours = TRUE
  MaxMisses = 2
SPECIFICATION FairSpec
PROPERTIES NeverTextedAfterRejection NothingElseWhileSmsPending HeardSmsLeftTwilio
