\* The boss and a box, one invite code; a reply that is lost or a restart, at any
\* point, and entries of every age.
SPECIFICATION FairSpec
CONSTANTS
  Boxes = {b1}
  Boss = boss
  Codes = {c1}
  NoOne = NoOne
  MaxWrites = 1
  MaxEntries = 2
  MaxTroubles = 1
VIEW View
INVARIANTS TypeOK NothingSkipped
PROPERTIES GoneIsSilent EveryoneReads
CHECK_DEADLOCK FALSE
