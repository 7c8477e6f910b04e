\* Two calls beside the wake check, days without bound, two texts; a call that fails and a
\* restart, at any point.
SPECIFICATION FairSpec
CONSTANTS
  Callers = {h1, h2}
  Texts = {x1, x2}
  Tasks = {t1}
  NoTask = NoTask
  MaxTexts = 1
  MaxEarly = 1
  MaxNews = 2
  MaxTroubles = 2
VIEW View
INVARIANTS TypeOK TextedOnce
PROPERTIES NoTextWaitsForever
CHECK_DEADLOCK FALSE
