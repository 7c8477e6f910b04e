------------------------------ MODULE MCTeamTexts ------------------------------
(* Model checking TeamTexts: the history of the day, which no step and no    *)
(* property of the run looks at, makes no difference.                        *)
EXTENDS TeamTexts

View == <<texts, wake, early, troubles>>

================================================================================
