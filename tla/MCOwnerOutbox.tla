---------------------------- MODULE MCOwnerOutbox ----------------------------
(***************************************************************************)
(* Small instances of the owner outbox for TLC: what each item id is made  *)
(* for.  Ids of the same goal with different keys are successive results;  *)
(* j1 is an inline job, whose answer belongs to no goal.                   *)
(***************************************************************************)
EXTENDS OwnerOutbox

CONSTANTS i1, i2, g1, j1, k1, k2, b1, b2, c1, p1, p2

OneGoal == [i \in Items |-> g1]
AJob    == [i \in Items |-> j1]
OwnKeys == [i \in Items |-> IF i = i1 THEN k1 ELSE k2]

ByPhone == [i \in Items |-> "pstn_voice"]
=============================================================================
