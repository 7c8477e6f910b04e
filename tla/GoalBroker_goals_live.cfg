\* One goal whose worker may ask, ask again or stall, the message that makes it and one
\* more, or the same again; one Kanban call that fails or one restart, at any point.
SPECIFICATION FairSpec
CONSTANTS
  Goals = {1}
  Msgs = {m1, m2}
  Questions = {q}
  Results = {r}
  Handlers = {h1}
  MaxRecoveries = 1
  MaxDeliveries = 2
  MaxTroubles = 1
  None = None
VIEW View
PROPERTIES UpdatesArrive EndsArePublished QuestionsAreAsked 
CHECK_DEADLOCK FALSE
