----------------------------- MODULE MCGoalBroker -----------------------------
(* Model checking GoalBroker: messages and handlers are interchangeable, and *)
(* what no later step looks at makes no difference.                          *)
EXTENDS GoalBroker, TLC

Symmetry == Permutations(Msgs) \cup Permutations(Handlers)

TickAt(points) == proc["tick"].at \in points

\* What the steps to come depend on: the listing only while a goal of it is to be walked
\* or reconciled, what the tick read of a goal only while it writes by it, and never the
\* history.
View ==
  <<goal, card, item, todo, budget,
    [proc EXCEPT !["tick"].snap =
       IF TickAt({"write", "unblock", "settle", "create"}) THEN @ ELSE NoGoal],
    IF todo # {} \/ TickAt({"flush", "write", "unblock", "settle", "show", "nudge", "nudged"})
    THEN seen ELSE <<>>>>

==============================================================================
