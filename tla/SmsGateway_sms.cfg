\* A text that may be posted again, one request; two calls that fail and a restart.
SPECIFICATION FairSpec
CONSTANTS
  Requests = {1}
  Texts = {t1}
  Handlers = {h1, h2}
  Says = {"approved", "other"}
  MaxFaults = 2
  MaxCrashes = 1
  None = None
INVARIANTS TypeOK AckIsTheDecision OneTurnAtATime NoticedOnce
PROPERTIES TextsAreAnswered RequestsEnd
CHECK_DEADLOCK FALSE
