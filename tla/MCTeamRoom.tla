------------------------------ MODULE MCTeamRoom ------------------------------
(* Model checking TeamRoom: what no later step and no property looks at      *)
(* makes no difference.                                                      *)
EXTENDS TeamRoom

\* The steps to come do not depend on who is rejected, nor on the read positions the boss
\* shows; what was given and missed matters until a box restarts.
View ==
  <<member, seq, log, writing, admitted, mine, joining, cursor, troubles,
    [b \in All |-> <<reading[b].at, reading[b].got>>],
    IF Unbroken THEN <<given, missed>> ELSE <<>>>>

===============================================================================
