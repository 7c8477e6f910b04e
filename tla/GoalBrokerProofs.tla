--------------------------- MODULE GoalBrokerProofs ---------------------------
(***************************************************************************)
(* Theorems about the goal broker, for every set of goals, messages and    *)
(* handlers and every bound.                                               *)
(***************************************************************************)
EXTENDS GoalBroker, WellFoundedInduction, TLAPS

\* A process that works on a goal holds one, and a handler holds its message.
Held ==
  \A p \in Procs :
    /\ proc[p].at \notin {"idle", "route", "take"} => proc[p].g \in Goals
    /\ p \in Handlers /\ proc[p].at # "idle" => proc[p].m \in Msgs

\* A set of numbers that is not empty has a smallest one.
LEMMA SmallestOf ==
  ASSUME NEW S \in SUBSET Nat, S # {}
  PROVE  \E x \in S : \A y \in S : x <= y
<1> DEFINE R == OpToRel(<, Nat)
<1>1. IsWellFoundedOn(R, Nat)
  BY NatLessThanWellFounded
<1>2. \A x, y \in Nat : y < x => <<y, x>> \in R
  <2> SUFFICES ASSUME NEW x \in Nat, NEW y \in Nat, y < x
               PROVE  <<y, x>> \in {ss \in Nat \X Nat : ss[1] < ss[2]}
    BY DEF OpToRel
  <2> QED
    OBVIOUS
<1> HIDE DEF R
<1>3. PICK x \in S : \A y \in S : ~ (<<y, x>> \in R)
  BY <1>1, WFMin
<1>4. ASSUME NEW y \in S PROVE x <= y
  <2>1. x \in Nat /\ y \in Nat /\ ~ (<<y, x>> \in R)
    BY <1>3
  <2>2. ~ (y < x)
    BY <1>2, <2>1
  <2> QED
    BY <2>1, <2>2
<1> QED
  BY <1>4

\* The goal the tick takes is one of its list.
LEMMA TakesOfList ==
  ASSUME todo \subseteq Goals, todo # {}
  PROVE  (CHOOSE k \in todo : \A other \in todo : k <= other) \in todo
  BY SmallestOf, BrokerAssumption

\* The processes and the values they start from.
LEMMA Basics ==
  /\ "tick" \in Procs /\ Handlers \subseteq Procs /\ "tick" \notin Handlers
  /\ NoGoal \in GoalRecord /\ NoCard \in CardRecord /\ Idle \in ProcRecord
  /\ CardStatuses \subseteq Statuses
  /\ \A p : Rest(p) \in ProcRecord
<1>1. NoGoal \in GoalRecord /\ NoCard \in CardRecord
  BY DEF NoGoal, GoalRecord, Statuses, CardStatuses, NoCard, CardRecord
<1>2. Idle \in ProcRecord
  BY <1>1 DEF Idle, ProcRecord, Points
<1>3. \A p : Rest(p) \in ProcRecord
  BY <1>2 DEF Rest, ProcRecord, Points
<1> QED
  BY <1>1, <1>2, <1>3, BrokerAssumption DEF Procs, Statuses, CardStatuses

------------------------------------------------------------------------------
(* Where the processes go.                                                   *)

\* Only p moves.
Only(p) == /\ proc' \in [Procs -> ProcRecord]
           /\ \A q \in Procs \ {p} : proc'[q] = proc[q]

LEMMA GoToEffect ==
  ASSUME proc \in [Procs -> ProcRecord], NEW p \in Procs, NEW point \in Points, GoTo(p, point)
  PROVE  /\ Only(p) /\ proc'[p].at = point /\ proc'[p].g = proc[p].g /\ proc'[p].m = proc[p].m
         /\ proc'[p].snap = proc[p].snap /\ proc'[p].reply = proc[p].reply
         /\ proc'[p].force = proc[p].force
<1>1. proc' = [proc EXCEPT ![p] = [proc[p] EXCEPT !.at = point]]
  BY DEF GoTo
<1>2. [proc[p] EXCEPT !.at = point] \in ProcRecord
  BY DEF ProcRecord
<1> QED
  BY <1>1, <1>2 DEF Only, ProcRecord

LEMMA ForgetEffect ==
  ASSUME proc \in [Procs -> ProcRecord], NEW p \in Procs, NEW point \in Points, Forget(p, point)
  PROVE  /\ Only(p) /\ proc'[p].at = point /\ proc'[p].g = proc[p].g /\ proc'[p].m = proc[p].m
<1> DEFINE r == [Idle EXCEPT !.at = point, !.g = proc[p].g, !.m = proc[p].m]
<1>1. r \in ProcRecord /\ r.at = point /\ r.g = proc[p].g /\ r.m = proc[p].m
  BY Basics DEF Idle, ProcRecord
<1>2. proc' = [proc EXCEPT ![p] = r]
  BY DEF Forget
<1> QED
  BY <1>1, <1>2 DEF Only

LEMMA ReturnEffect ==
  ASSUME proc \in [Procs -> ProcRecord], NEW p \in Procs, Return(p)
  PROVE  /\ Only(p) /\ proc'[p].at = (IF p = "tick" THEN "take" ELSE "idle") /\ proc'[p].g = None
<1>1. Rest(p) \in ProcRecord /\ Rest(p).at = (IF p = "tick" THEN "take" ELSE "idle") /\ Rest(p).g = None
  BY Basics DEF Rest, Idle
<1> QED
  BY <1>1 DEF Return, Only

LEMMA WalkEffect ==
  ASSUME proc \in [Procs -> ProcRecord], seen \in [Goals -> GoalRecord], NEW g \in Goals, Walk(g)
  PROVE  /\ Only("tick") /\ proc'["tick"].at \in {"take", "release", "show"}
         /\ proc'["tick"].at # "take" => proc'["tick"].g = g
<1> DEFINE r == [Idle EXCEPT !.at = AfterFlush(seen[g]), !.g = g, !.snap = seen[g]]
<1>1. /\ AfterFlush(seen[g]) \in {"take", "release", "show"}
      /\ r \in ProcRecord /\ r.at = AfterFlush(seen[g]) /\ r.g = g
  <2>1. AfterFlush(seen[g]) \in {"take", "release", "show"}
    BY DEF AfterFlush
  <2> QED
    BY <2>1, Basics DEF Idle, ProcRecord, Points
<1>2. Rest("tick") \in ProcRecord /\ Rest("tick").at = "take"
  BY Basics DEF Rest, Idle
<1>3. proc' = [proc EXCEPT !["tick"] = IF AfterFlush(seen[g]) = "take" THEN Rest("tick") ELSE r]
  BY DEF Walk
<1> QED
  BY <1>1, <1>2, <1>3, Basics DEF Only

\* Every process is typed, and holds what it works on, after one of them has moved.
LEMMA MoveHolds ==
  ASSUME Held, NEW p \in Procs, Only(p),
         proc'[p].at \notin {"idle", "route", "take"} => proc'[p].g \in Goals,
         p \in Handlers /\ proc'[p].at # "idle" => proc'[p].m \in Msgs
  PROVE  Held'
  BY DEF Held, Only

\* p has moved, and holds what it works on.
Moves(p) ==
  /\ Only(p)
  /\ proc'[p].at \notin {"idle", "route", "take"} => proc'[p].g \in Goals
  /\ p \in Handlers /\ proc'[p].at # "idle" => proc'[p].m \in Msgs

LEMMA MoveForms ==
  ASSUME TypeOK, Held, NEW p \in Procs
  PROVE  /\ Return(p) => Moves(p)
         /\ proc[p].at \notin {"idle", "route", "take"} => (Flushed(p) => Moves(p))
         /\ \A point \in Points :
              /\ GoTo(p, point) /\ proc[p].at \notin {"idle", "route", "take"} => Moves(p)
              /\ Forget(p, point) /\ proc[p].at # "idle" /\ proc[p].g \in Goals => Moves(p)
<1>1. proc \in [Procs -> ProcRecord] /\ seen \in [Goals -> GoalRecord]
  BY DEF TypeOK
<1>2. Return(p) => Moves(p)
  BY <1>1, ReturnEffect, Basics DEF Moves
<1>3. ASSUME proc[p].at \notin {"idle", "route", "take"}, Flushed(p) PROVE Moves(p)
  <2>1. CASE p = "tick"
    <3>1. Walk(proc["tick"].g) /\ proc["tick"].g \in Goals
      BY <1>3, <2>1, Basics DEF Flushed, Held
    <3> QED
      BY <1>1, <2>1, <3>1, WalkEffect, Basics DEF Moves
  <2>2. CASE p # "tick"
    BY <1>2, <1>3, <2>2 DEF Flushed
  <2> QED
    BY <2>1, <2>2
<1>4. ASSUME NEW point \in Points, GoTo(p, point), proc[p].at \notin {"idle", "route", "take"}
      PROVE  Moves(p)
  BY <1>1, <1>4, GoToEffect DEF Moves, Held
<1>5. ASSUME NEW point \in Points, Forget(p, point), proc[p].at # "idle", proc[p].g \in Goals
      PROVE  Moves(p)
  BY <1>1, <1>5, ForgetEffect DEF Moves, Held
<1> QED
  BY <1>2, <1>3, <1>4, <1>5

LEMMA HandlersMove ==
  ASSUME TypeOK, Held, NEW h \in Handlers, Handler(h)
  PROVE  Moves(h)
<1>0. /\ h \in Procs /\ proc \in [Procs -> ProcRecord] /\ goal \in [Goals -> GoalRecord]
      /\ proc[h].at # "idle" => proc[h].m \in Msgs
      /\ proc[h].g \in Goals \cup {None}
      /\ Return(h) => Moves(h)
  BY MoveForms, Basics DEF TypeOK, Held, ProcRecord
<1>1. CASE Pass(h) \/ Status(h) \/ (\E g \in Goals, st \in {"queued", "clarifying"} : Queue(h, g, st))
           \/ (\E st \in {"queued", "clarifying"} : Clarified(h, st))
  BY <1>0, <1>1 DEF Pass, Status, Queue, Clarified
<1>2. CASE ReadAnswer(h)
  <2>1. CASE Return(h)
    BY <1>0, <2>1
  <2>2. CASE ~Return(h)
    <3> DEFINE r == [proc[h] EXCEPT !.at = "answer", !.snap = goal[proc[h].g]]
    <3>1. proc' = [proc EXCEPT ![h] = r] /\ proc[h].g \in Goals /\ At(h, "route")
      BY <1>0, <1>2, <2>2 DEF ReadAnswer
    <3>2. r \in ProcRecord /\ r.g = proc[h].g /\ r.m = proc[h].m
      BY <1>0, <3>1, ZenonT(60) DEF ProcRecord, Points
    <3> QED
      BY <1>0, <3>1, <3>2 DEF Moves, Only, At
  <2> QED
    BY <2>1, <2>2
<1>3. CASE Append(h)
  <2>1. proc[h].at \in {"answer", "route"} /\ proc[h].g \in Goals
    BY <1>0, <1>3 DEF Append, At, Held
  <2>2. Return(h) \/ Forget(h, "heard") \/ Forget(h, "flush")
    BY <1>3 DEF Append
  <2> QED
    BY <1>0, <2>1, <2>2, MoveForms DEF Points
<1>4. CASE HeardQuestion(h)
  <2> DEFINE r == [proc[h] EXCEPT !.at = "flush", !.force = TRUE]
  <2>1. proc' = [proc EXCEPT ![h] = r] /\ proc[h].g \in Goals /\ At(h, "heard")
    BY <1>0, <1>4 DEF HeardQuestion, Held, At
  <2>2. r \in ProcRecord /\ r.g = proc[h].g /\ r.m = proc[h].m
    BY <1>0, <2>1, ZenonT(60) DEF ProcRecord, Points
  <2> QED
    BY <1>0, <2>1, <2>2 DEF Moves, Only, At
<1>5. CASE Reopen(h)
  <2>1. proc[h].at = "route" /\ proc[h].g \in Goals
    BY <1>0, <1>5 DEF Reopen, At
  <2>2. Return(h) \/ Forget(h, "reopen")
    BY <1>5 DEF Reopen
  <2> QED
    BY <1>0, <2>1, <2>2, MoveForms DEF Points
<1>6. CASE ReopenCard(h)
  BY <1>0, <1>6, MoveForms DEF ReopenCard, Points, At
<1>7. CASE CancelItems(h)
  <2>1. proc[h].at = "route" /\ proc[h].g \in Goals /\ Forget(h, "mark")
    BY <1>0, <1>7 DEF CancelItems, At
  <2> QED
    BY <1>0, <2>1, MoveForms DEF Points
<1>8. CASE MarkCancelled(h)
  BY <1>0, <1>8, MoveForms DEF MarkCancelled, Points, At
<1> QED
  BY <1>1, <1>2, <1>3, <1>4, <1>5, <1>6, <1>7, <1>8 DEF Handler

LEMMA SharedMoves ==
  ASSUME TypeOK, Held, NEW p \in Procs, Shared(p)
  PROVE  Moves(p)
<1>0. /\ proc \in [Procs -> ProcRecord] /\ goal \in [Goals -> GoalRecord]
      /\ proc[p].at \in {"flush", "write", "unblock", "settle", "cancel", "cancelled", "refused"}
      /\ proc[p].g \in Goals
      /\ Return(p) => Moves(p)
  BY MoveForms DEF TypeOK, Held, Shared, ReadUpdates, WriteUpdates, Unblock, Settle, CancelCard,
     EndCancel, At
<1>1. CASE ReadUpdates(p)
  <2>1. CASE Flushed(p)
    BY <1>0, <2>1, MoveForms
  <2>2. CASE ~Flushed(p)
    <3> DEFINE r == [proc[p] EXCEPT !.at = "write", !.snap = goal[proc[p].g]]
    <3>1. proc' = [proc EXCEPT ![p] = r]
      BY <1>0, <1>1, <2>2 DEF ReadUpdates
    <3>2. r \in ProcRecord /\ r.g = proc[p].g /\ r.m = proc[p].m
      BY <1>0 DEF ProcRecord, Points
    <3> QED
      BY <1>0, <3>1, <3>2 DEF Moves, Only, Held
  <2> QED
    BY <2>1, <2>2
<1>2. CASE WriteUpdates(p)
  <2>1. Return(p) \/ GoTo(p, "unblock") \/ GoTo(p, "settle")
    BY <1>2 DEF WriteUpdates
  <2> QED
    BY <1>0, <2>1, MoveForms DEF Points
<1>3. CASE Unblock(p)
  <2>1. Return(p) \/ GoTo(p, "settle")
    BY <1>3 DEF Unblock
  <2> QED
    BY <1>0, <2>1, MoveForms DEF Points
<1>4. CASE Settle(p)
  BY <1>0, <1>4, MoveForms DEF Settle
<1>5. CASE CancelCard(p)
  <2>1. GoTo(p, "cancelled") \/ GoTo(p, "refused")
    BY <1>5 DEF CancelCard
  <2> QED
    BY <1>0, <2>1, MoveForms DEF Points
<1>6. CASE EndCancel(p)
  BY <1>0, <1>6 DEF EndCancel
<1> QED
  BY <1>1, <1>2, <1>3, <1>4, <1>5, <1>6 DEF Shared

LEMMA TickMoves ==
  ASSUME TypeOK, Held, Tick
  PROVE  Moves("tick")
<1>0. /\ "tick" \in Procs /\ "tick" \notin Handlers
      /\ proc \in [Procs -> ProcRecord] /\ goal \in [Goals -> GoalRecord]
      /\ card \in [Goals -> CardRecord] /\ seen \in [Goals -> GoalRecord] /\ todo \subseteq Goals
      /\ proc["tick"].at \notin {"idle", "route", "take"} => proc["tick"].g \in Goals
      /\ Return("tick") => Moves("tick")
  BY MoveForms, Basics DEF TypeOK, Held
<1>1. CASE TickStart
  <2> DEFINE r == [proc["tick"] EXCEPT !.at = "take"]
  <2>1. proc' = [proc EXCEPT !["tick"] = r]
    BY <1>1 DEF TickStart
  <2>2. r \in ProcRecord /\ r.at = "take"
    BY <1>0 DEF ProcRecord, Points
  <2> QED
    BY <1>0, <2>1, <2>2 DEF Moves, Only
<1>2. CASE TickTake
  <2> DEFINE g == CHOOSE k \in todo : \A other \in todo : k <= other
             r == seen[g]
             force == \E u \in r.pend : u.answer
             Begins(point) == [Idle EXCEPT !.at = point, !.g = g, !.snap = r, !.force = force]
  <2>1. g \in Goals /\ r \in GoalRecord /\ force \in BOOLEAN
    BY <1>0, <1>2, TakesOfList DEF TickTake
  <2>2. \/ Walk(g)
        \/ \E point \in {"find", "cancel", "flush"} : proc' = [proc EXCEPT !["tick"] = Begins(point)]
    BY <1>2 DEF TickTake
  <2> HIDE DEF g, r, force
  <2>3. \A point \in {"find", "cancel", "flush"} : Begins(point) \in ProcRecord /\ Begins(point).g = g
    BY <2>1, Basics DEF Idle, ProcRecord, Points
  <2>4. CASE Walk(g)
    BY <1>0, <2>1, <2>4, WalkEffect DEF Moves
  <2>5. ASSUME NEW point \in {"find", "cancel", "flush"},
               proc' = [proc EXCEPT !["tick"] = Begins(point)]
        PROVE  Moves("tick")
    BY <1>0, <2>1, <2>3, <2>5 DEF Moves, Only
  <2> QED
    BY <2>2, <2>4, <2>5
<1>3. CASE TickEnd
  BY <1>0, <1>3, Basics DEF TickEnd, Moves, Only, Idle
<1>4. CASE Find \/ Unmade \/ Made \/ Nudge \/ Nudged \/ Ask \/ Finish \/ Mirror \/ Publish
  <2>1. /\ proc["tick"].at \notin {"idle", "route", "take"}
        /\ Return("tick") \/ \E point \in {"cancel", "nudged", "publish"} : GoTo("tick", point)
    BY <1>4 DEF Find, Unmade, Made, Nudge, Nudged, Ask, Finish, Mirror, Publish, At
  <2> QED
    BY <1>0, <2>1, MoveForms DEF Points
<1>5. CASE Claim
  <2> DEFINE claimed == [goal[proc["tick"].g] EXCEPT !.st = IF @ = "queued" THEN "releasing" ELSE @]
             r == [proc["tick"] EXCEPT !.at = "create", !.snap = claimed]
  <2>1. proc["tick"].g \in Goals
    BY <1>0, <1>5 DEF Claim, At
  <2>2. claimed \in GoalRecord
    <3>1. goal[proc["tick"].g] \in GoalRecord
      BY <1>0, <2>1
    <3> QED
      BY <3>1 DEF GoalRecord, Statuses
  <2>3. Return("tick") \/ proc' = [proc EXCEPT !["tick"] = r]
    BY <1>5 DEF Claim
  <2> HIDE DEF claimed
  <2>4. r \in ProcRecord /\ r.g = proc["tick"].g
    BY <1>0, <2>2, ZenonT(60) DEF ProcRecord, Points
  <2> QED
    BY <1>0, <2>1, <2>3, <2>4 DEF Moves, Only
<1>6. CASE Create
  <2> DEFINE made == CreatedCard(proc["tick"].g)
             r == [proc["tick"] EXCEPT !.at = "made", !.reply = made]
  <2>1. proc["tick"].g \in Goals /\ At("tick", "create")
    BY <1>0, <1>6 DEF Create, At
  <2>2. made \in CardRecord
    BY <1>0, <2>1 DEF CreatedCard, CardRecord, CardStatuses, ProcRecord, GoalRecord
  <2>3. Return("tick") \/ GoTo("tick", "unmade") \/ proc' = [proc EXCEPT !["tick"] = r]
    BY <1>0, <1>6, <2>1 DEF Create
  <2> HIDE DEF made
  <2>4. r \in ProcRecord /\ r.g = proc["tick"].g
    BY <1>0, <2>2, ZenonT(60) DEF ProcRecord, Points
  <2>5. CASE proc' = [proc EXCEPT !["tick"] = r]
    BY <1>0, <2>1, <2>4, <2>5 DEF Moves, Only
  <2> QED
    BY <1>0, <2>1, <2>3, <2>5, MoveForms DEF Points, At
<1>7. CASE Show
  <2> DEFINE next == Reaction(seen[proc["tick"].g], card[proc["tick"].g])
             r == [proc["tick"] EXCEPT !.at = next, !.reply = card[proc["tick"].g]]
  <2>1. proc["tick"].g \in Goals
    BY <1>0, <1>7 DEF Show, At
  <2>2. next \in Points
    BY DEF Reaction, AskAgain, Points
  <2>3. Return("tick") \/ proc' = [proc EXCEPT !["tick"] = r]
    BY <1>7 DEF Show
  <2> HIDE DEF next
  <2>4. r \in ProcRecord /\ r.g = proc["tick"].g
    BY <1>0, <2>1, <2>2 DEF ProcRecord
  <2> QED
    BY <1>0, <2>1, <2>3, <2>4 DEF Moves, Only
<1>8. CASE Shared("tick")
  BY <1>0, <1>8, SharedMoves
<1> QED
  BY <1>1, <1>2, <1>3, <1>4, <1>5, <1>6, <1>7, <1>8 DEF Tick

\* Whatever happens, one process moves, or none, or the box restarts.
LEMMA ProcsTyped ==
  ASSUME TypeOK, Held, [Next]_vars
  PROVE  proc' \in [Procs -> ProcRecord] /\ Held'
<1>0. proc \in [Procs -> ProcRecord]
  BY DEF TypeOK
<1>1. ASSUME NEW p \in Procs, Moves(p) PROVE proc' \in [Procs -> ProcRecord] /\ Held'
  BY <1>1, MoveHolds DEF Moves, Only
<1>2. CASE UNCHANGED proc
  BY <1>0, <1>2 DEF Held
<1>3. CASE Crash
  BY <1>3, Basics DEF Crash, Held, Idle
<1>4. ASSUME NEW h \in Handlers, NEW m \in Msgs, NEW g \in Goals \cup {None}, Hear(h, m, g)
      PROVE  Moves(h) \/ UNCHANGED proc
  <2> DEFINE r == [Idle EXCEPT !.at = "route", !.g = g, !.m = m,
                               !.snap = IF g = None THEN NoGoal ELSE goal[g]]
  <2>1. UNCHANGED proc \/ proc' = [proc EXCEPT ![h] = r]
    BY <1>4 DEF Hear
  <2>2. (IF g = None THEN NoGoal ELSE goal[g]) \in GoalRecord
    BY Basics DEF TypeOK
  <2>3. r \in ProcRecord /\ r.at = "route" /\ r.m = m
    BY <2>2, Basics DEF Idle, ProcRecord, Points
  <2> QED
    BY <1>0, <2>1, <2>3, Basics DEF Moves, Only
<1>5. ASSUME NEW g \in Goals, WindowPasses(g) \/ Work(g) \/ ArchiveCard(g) \/ OwnerHears(g)
      PROVE  UNCHANGED proc
  BY <1>5 DEF WindowPasses, Work, ArchiveCard, OwnerHears
<1> QED
  BY <1>1, <1>2, <1>3, <1>4, <1>5, HandlersMove, SharedMoves, TickMoves, Basics DEF Next, vars

------------------------------------------------------------------------------
(* What is written to the goals.                                             *)

\* Only g is written.
Writes(g) == /\ goal' \in [Goals -> GoalRecord]
             /\ \A k \in Goals \ {g} : goal'[k] = goal[k]

\* An update that leaves the restarts, the pending updates and the card's id alone.
Plain(g) ==
  /\ Writes(g)
  /\ goal'[g].rec = goal[g].rec /\ goal'[g].pend = goal[g].pend /\ goal'[g].task = goal[g].task
  /\ goal'[g].st = "none" => goal[g].st = "none"

\* The goal is made.
Makes(g) ==
  /\ Writes(g)
  /\ goal[g].st = "none" /\ goal'[g].rec = 0 /\ goal'[g].pend = {} /\ ~goal'[g].task
  /\ goal'[g].st # "none"

\* The owner adds to a goal: to one that waits for them their answer starts the count of
\* restarts anew.
Adds(g) ==
  /\ Writes(g)
  /\ goal'[g].rec = IF goal[g].st = "blocked" THEN 0 ELSE goal[g].rec
  /\ goal[g].pend \subseteq goal'[g].pend /\ goal'[g].task = goal[g].task
  /\ goal'[g].pend # goal[g].pend => goal[g].task
  /\ goal'[g].st = "none" => goal[g].st = "none"
  /\ woke' = IF goal[g].st = "blocked" THEN [woke EXCEPT ![g] = 0] ELSE woke

\* A finished goal goes on.
Reopens(g) ==
  /\ Writes(g)
  /\ goal'[g].rec = goal[g].rec /\ goal'[g].task = goal[g].task
  /\ goal[g].pend \subseteq goal'[g].pend /\ goal'[g].st # "none"

\* The card's id is recorded.
Records(g) ==
  /\ Writes(g)
  /\ goal'[g].rec = goal[g].rec /\ goal'[g].pend = goal[g].pend
  /\ proc["tick"].g = g
  /\ \/ At("tick", "find") /\ card[g].st # "none" /\ goal'[g].st = "cancelling"
     \/ At("tick", "made") /\ goal'[g].st \in {"cancelling", proc["tick"].reply.st}

\* What the card got leaves the record.
Settles(p, g) ==
  /\ At(p, "settle") /\ proc[p].g = g /\ UNCHANGED card
  /\ Writes(g)
  /\ goal'[g].rec = goal[g].rec /\ goal'[g].task = goal[g].task /\ goal'[g].st # "none"
  /\ goal'[g].pend = {u \in goal[g].pend : u.m \notin Applied(proc[p].snap)}

\* A restart of the worker is counted, from the goal as it was listed.
Counts(g) ==
  /\ At("tick", "nudged") /\ proc["tick"].g = g /\ Return("tick")
  /\ Writes(g)
  /\ goal'[g].rec = seen[g].rec + 1 /\ goal'[g].st # "none"
  /\ goal'[g].pend = goal[g].pend /\ goal'[g].task = goal[g].task

LEMMA Wrote ==
  ASSUME TypeOK, NEW g \in Goals, NEW r \in GoalRecord, Update(g, r)
  PROVE  Writes(g) /\ goal'[g] = r
  BY DEF TypeOK, Update, Writes

LEMMA AppendedFields ==
  ASSUME NEW r \in GoalRecord, NEW m \in Msgs, NEW b \in BOOLEAN
  PROVE  /\ Appended(r, m, b) \in GoalRecord
         /\ Appended(r, m, b).rec = IF r.st = "blocked" THEN 0 ELSE r.rec
         /\ Appended(r, m, b).task = r.task
         /\ r.pend \subseteq Appended(r, m, b).pend
         /\ Appended(r, m, b).pend # r.pend => r.task
         /\ Appended(r, m, b).st = "none" => r.st = "none"
<1> DEFINE said == r.said \cup {m}
           body == r.body \cup {m}
           pend == IF r.task THEN r.pend \cup {[m |-> m, answer |-> b]} ELSE r.pend
           st == CASE r.st = "clarifying" -> "queued"
                   [] r.st = "blocked" -> IF r.task THEN "ready" ELSE "queued"
                   [] OTHER -> r.st
           rel == IF r.st = "clarifying" THEN "set" ELSE r.rel
           prompt == IF r.st = "blocked" THEN r.why ELSE r.prompt
           rec == IF r.st = "blocked" THEN 0 ELSE r.rec
           lk == IF r.st = "blocked" THEN IF r.task THEN "ready" ELSE "none" ELSE r.lk
           why == IF r.st = "blocked" THEN None ELSE r.why
<1>1. Appended(r, m, b) = [r EXCEPT !.said = said, !.body = body,
        !.pend = pend, !.st = st, !.rel = rel, !.prompt = prompt, !.rec = rec, !.lk = lk, !.why = why]
  BY DEF Appended
<1>2. /\ said \in SUBSET Msgs /\ body \in SUBSET Msgs
      /\ pend \in SUBSET Updates /\ st \in Statuses /\ rel \in {"no", "set", "due"}
      /\ prompt \in Prompts \cup {None} /\ rec \in Nat /\ lk \in CardStatuses
      /\ why \in Prompts \cup {None}
  BY DEF GoalRecord, Updates, Statuses, CardStatuses
<1>3. /\ r.pend \subseteq pend /\ (pend # r.pend => r.task) /\ (st = "none" => r.st = "none")
      /\ rec = IF r.st = "blocked" THEN 0 ELSE r.rec
  OBVIOUS
<1> HIDE DEF said, body, pend, st, rel, prompt, rec, lk, why
<1>4. Appended(r, m, b) \in GoalRecord
  BY <1>1, <1>2, ZenonT(60) DEF GoalRecord
<1>5. /\ Appended(r, m, b).rec = rec /\ Appended(r, m, b).task = r.task
      /\ Appended(r, m, b).pend = pend /\ Appended(r, m, b).st = st
  BY <1>1 DEF GoalRecord
<1> QED
  BY <1>3, <1>4, <1>5

LEMMA HandlersWrite ==
  ASSUME TypeOK, Held, NEW h \in Handlers, Handler(h)
  PROVE  \/ UNCHANGED <<goal, woke>>
         \/ \E g \in Goals : UNCHANGED woke /\ (Plain(g) \/ Makes(g) \/ Reopens(g))
         \/ \E g \in Goals : Adds(g)
<1> DEFINE g == proc[h].g
           m == proc[h].m
<1>0. /\ h \in Procs /\ goal \in [Goals -> GoalRecord] /\ g \in Goals \cup {None}
      /\ proc[h].at # "idle" => m \in Msgs
      /\ proc[h].at \notin {"idle", "route", "take"} => g \in Goals
  BY Basics DEF TypeOK, Held, ProcRecord
<1> HIDE DEF g, m
<1>1. CASE Pass(h) \/ ReadAnswer(h) \/ HeardQuestion(h) \/ ReopenCard(h) \/ CancelItems(h)
  BY <1>1 DEF Pass, ReadAnswer, HeardQuestion, ReopenCard, CancelItems
<1>2. CASE Status(h)
  <2> DEFINE r == [goal[g] EXCEPT !.said = @ \cup {m}]
  <2>1. Update(g, r) /\ g \in Goals /\ m \in Msgs /\ UNCHANGED woke
    BY <1>0, <1>2 DEF Status, At, g, m
  <2>2. r \in GoalRecord
    BY <1>0, <2>1 DEF GoalRecord
  <2>3. goal'[g] = r /\ Writes(g)
    BY <2>1, <2>2, Wrote
  <2> QED
    BY <1>0, <2>1, <2>3 DEF Plain, GoalRecord
<1>3. ASSUME NEW st \in {"queued", "clarifying"}, Clarified(h, st)
      PROVE  UNCHANGED <<goal, woke>> \/ \E k \in Goals : UNCHANGED woke /\ Plain(k)
  <2> DEFINE said == goal[g].said \cup {m}
             body == goal[g].body \cup {m}
             next == IF st = "queued" THEN "queued" ELSE goal[g].st
             rel == IF st = "queued" THEN "set" ELSE goal[g].rel
             r == [goal[g] EXCEPT !.said = said, !.body = body, !.st = next, !.rel = rel]
  <2>1. g \in Goals /\ m \in Msgs /\ UNCHANGED woke /\ (UNCHANGED goal \/ Update(g, r))
    BY <1>0, <1>3 DEF Clarified, At, g, m
  <2>2. /\ said \in SUBSET Msgs /\ body \in SUBSET Msgs /\ next \in {"queued", goal[g].st}
        /\ rel \in {"no", "set", "due"} /\ goal[g] \in GoalRecord
    BY <1>0, <2>1 DEF GoalRecord
  <2> HIDE DEF said, body, next, rel
  <2>3. r \in GoalRecord
    BY <2>2 DEF GoalRecord, Statuses
  <2>4. /\ r.rec = goal[g].rec /\ r.pend = goal[g].pend /\ r.task = goal[g].task
        /\ r.st \in {"queued", goal[g].st}
    BY <2>2 DEF GoalRecord
  <2> HIDE DEF r
  <2>5. CASE Update(g, r)
    BY <2>1, <2>3, <2>4, <2>5, Wrote DEF Plain
  <2> QED
    BY <2>1, <2>5
<1>4. ASSUME NEW k \in Goals, NEW st \in {"queued", "clarifying"}, Queue(h, k, st)
      PROVE  UNCHANGED <<goal, woke>> \/ (UNCHANGED woke /\ Makes(k))
  <2> DEFINE r == [NoGoal EXCEPT !.st = st, !.src = m, !.said = {m}, !.body = {m},
                                 !.rel = IF st = "queued" THEN "set" ELSE "no"]
  <2>1. m \in Msgs /\ UNCHANGED woke /\ (UNCHANGED goal \/ Update(k, r)) /\ goal[k].st = "none"
    BY <1>0, <1>4 DEF Queue, At, m
  <2>2. r \in GoalRecord
    BY <2>1, Basics, ZenonT(60) DEF NoGoal, GoalRecord, Statuses
  <2>3. CASE Update(k, r)
    <3>1. goal'[k] = r /\ Writes(k)
      BY <2>2, <2>3, Wrote
    <3> QED
      BY <2>1, <3>1 DEF Makes, NoGoal
  <2> QED
    BY <2>1, <2>3
<1>5. CASE Append(h)
  <2>1. /\ g \in Goals /\ m \in Msgs
        /\ \/ UNCHANGED <<goal, woke>>
           \/ /\ Update(g, Appended(goal[g], m, At(h, "answer")))
              /\ woke' = IF goal[g].st = "blocked" THEN [woke EXCEPT ![g] = 0] ELSE woke
    BY <1>0, <1>5 DEF Append, At, g, m
  <2>2. CASE UNCHANGED <<goal, woke>>
    BY <2>2
  <2>3. CASE Update(g, Appended(goal[g], m, At(h, "answer")))
             /\ woke' = IF goal[g].st = "blocked" THEN [woke EXCEPT ![g] = 0] ELSE woke
    <3>1. goal[g] \in GoalRecord /\ At(h, "answer") \in BOOLEAN
      BY <1>0, <2>1 DEF At
    <3>2. Writes(g) /\ goal'[g] = Appended(goal[g], m, At(h, "answer"))
      BY <2>1, <2>3, <3>1, AppendedFields, Wrote
    <3> QED
      BY <2>1, <2>3, <3>1, <3>2, AppendedFields DEF Adds
  <2> QED
    BY <2>1, <2>2, <2>3
<1>6. CASE Reopen(h)
  <2> DEFINE said == goal[g].said \cup {m}
             body == goal[g].body \cup {m}
             more == goal[g].pend \cup {[m |-> m, answer |-> FALSE]}
             pend == IF goal[g].task THEN more ELSE goal[g].pend
             st == IF goal[g].task THEN "ready" ELSE "queued"
             rel == IF goal[g].task THEN goal[g].rel ELSE "set"
             r == [goal[g] EXCEPT !.said = said, !.body = body, !.st = st, !.rel = rel, !.pend = pend]
  <2>1. g \in Goals /\ m \in Msgs /\ UNCHANGED woke /\ (UNCHANGED goal \/ Update(g, r))
    BY <1>0, <1>6 DEF Reopen, At, g, m
  <2>2. goal[g] \in GoalRecord
    BY <1>0, <2>1
  <2>3. more \in SUBSET Updates /\ goal[g].pend \subseteq more
    <3>1. [m |-> m, answer |-> FALSE] \in Updates
      BY <2>1 DEF Updates
    <3>2. goal[g].pend \in SUBSET Updates
      BY <2>2 DEF GoalRecord
    <3> QED
      BY <3>1, <3>2
  <2>4. /\ said \in SUBSET Msgs /\ body \in SUBSET Msgs
        /\ pend \in SUBSET Updates /\ goal[g].pend \subseteq pend
        /\ st \in Statuses /\ st # "none" /\ rel \in {"no", "set", "due"}
    BY <2>1, <2>2, <2>3 DEF GoalRecord, Statuses
  <2> HIDE DEF said, body, more, pend, st, rel
  <2>5. r \in GoalRecord
    BY <2>2, <2>4 DEF GoalRecord
  <2>6. r.rec = goal[g].rec /\ r.task = goal[g].task /\ r.pend = pend /\ r.st = st
    BY <2>2 DEF GoalRecord
  <2> HIDE DEF r
  <2>7. CASE Update(g, r)
    BY <2>1, <2>4, <2>5, <2>6, <2>7, Wrote DEF Reopens
  <2> QED
    BY <2>1, <2>7
<1>7. CASE MarkCancelled(h)
  <2> DEFINE r1 == [goal[g] EXCEPT !.st = "cancelling", !.dlv = "suppressed"]
             r2 == [goal[g] EXCEPT !.st = "cancelled", !.dlv = "suppressed", !.said = @ \cup {m}]
  <2>1. g \in Goals /\ m \in Msgs /\ UNCHANGED woke /\ (Update(g, r1) \/ Update(g, r2))
    BY <1>0, <1>7 DEF MarkCancelled, At, g, m
  <2>2. r1 \in GoalRecord /\ r2 \in GoalRecord
    <3>1. goal[g] \in GoalRecord
      BY <1>0, <2>1
    <3>2. r1 \in GoalRecord
      BY <3>1 DEF GoalRecord, Statuses
    <3>3. r2 \in GoalRecord
      BY <2>1, <3>1 DEF GoalRecord, Statuses
    <3> QED
      BY <3>2, <3>3
  <2>3. Writes(g) /\ goal'[g] \in {r1, r2}
    BY <2>1, <2>2, Wrote
  <2> QED
    BY <1>0, <2>1, <2>3, ZenonT(60) DEF Plain, GoalRecord
<1> QED
  BY <1>1, <1>2, <1>3, <1>4, <1>5, <1>6, <1>7 DEF Handler

LEMMA SharedWrites ==
  ASSUME TypeOK, Held, NEW p \in Procs, Shared(p)
  PROVE  /\ UNCHANGED woke
         /\ UNCHANGED goal \/ \E g \in Goals : Plain(g) \/ Settles(p, g)
<1> DEFINE g == proc[p].g
<1>0. /\ g \in Goals /\ goal[g] \in GoalRecord /\ proc[p].at # "idle"
      /\ p \in Handlers => proc[p].m \in Msgs
      /\ p = "tick" \/ p \in Handlers
  BY DEF TypeOK, Held, Shared, ReadUpdates, WriteUpdates, Unblock, Settle, CancelCard, EndCancel,
     At, Procs
<1> HIDE DEF g
<1>1. CASE ReadUpdates(p) \/ WriteUpdates(p) \/ Unblock(p) \/ CancelCard(p)
  BY <1>1 DEF ReadUpdates, WriteUpdates, Unblock, CancelCard
<1>2. CASE Settle(p)
  <2> DEFINE left == {u \in goal[g].pend : u.m \notin Applied(proc[p].snap)}
             r1 == [goal[g] EXCEPT !.pend = left, !.st = "ready", !.lk = "ready"]
             r2 == [goal[g] EXCEPT !.pend = left, !.st = "running"]
             r3 == [goal[g] EXCEPT !.pend = left, !.st = "ready"]
  <2>1. At(p, "settle") /\ UNCHANGED <<card, woke>> /\ (Update(g, r1) \/ Update(g, r2) \/ Update(g, r3))
    BY <1>2 DEF Settle, g
  <2>2. left \in SUBSET Updates
    BY <1>0 DEF GoalRecord
  <2> HIDE DEF left
  <2>3. r1 \in GoalRecord
    BY <1>0, <2>2, ZenonT(60) DEF GoalRecord, Statuses, CardStatuses
  <2>4. r2 \in GoalRecord /\ r3 \in GoalRecord
    BY <1>0, <2>2 DEF GoalRecord, Statuses
  <2>5. \A r \in {r1, r2, r3} : /\ r.rec = goal[g].rec /\ r.task = goal[g].task
                               /\ r.st # "none" /\ r.pend = left
    BY <1>0 DEF GoalRecord
  <2>6. PICK r \in {r1, r2, r3} : Update(g, r)
    BY <2>1
  <2>7. r \in GoalRecord
    BY <2>3, <2>4
  <2> HIDE DEF r1, r2, r3
  <2>8. Settles(p, g)
    BY <1>0, <2>1, <2>5, <2>6, <2>7, Wrote DEF Settles, left, g
  <2> QED
    BY <1>0, <2>1, <2>8
<1>3. CASE EndCancel(p)
  <2> DEFINE heard == goal[g].said \cup (IF p = "tick" THEN {} ELSE {proc[p].m})
             r1 == [goal[g] EXCEPT !.st = "cancelled", !.dlv = "suppressed", !.said = heard]
             r2 == [goal[g] EXCEPT !.st = "cancelling", !.said = heard]
  <2>1. UNCHANGED woke /\ (Update(g, r1) \/ Update(g, r2))
    BY <1>3 DEF EndCancel, g
  <2>2. heard \in SUBSET Msgs
    BY <1>0, Basics DEF GoalRecord
  <2> HIDE DEF heard
  <2>3. r1 \in GoalRecord
    BY <1>0, <2>2 DEF GoalRecord, Statuses
  <2>4. r2 \in GoalRecord
    BY <1>0, <2>2 DEF GoalRecord, Statuses
  <2>5. \A r \in {r1, r2} : /\ r.rec = goal[g].rec /\ r.task = goal[g].task
                           /\ r.st # "none" /\ r.pend = goal[g].pend
    BY <1>0 DEF GoalRecord
  <2>6. PICK r \in {r1, r2} : Update(g, r)
    BY <2>1
  <2>7. r \in GoalRecord
    BY <2>3, <2>4
  <2> HIDE DEF r1, r2
  <2>8. Plain(g)
    BY <1>0, <2>5, <2>6, <2>7, Wrote DEF Plain
  <2> QED
    BY <1>0, <2>1, <2>8
<1> QED
  BY <1>1, <1>2, <1>3 DEF Shared

LEMMA TickWrites ==
  ASSUME TypeOK, Held, Tick
  PROVE  /\ ~Nudge => UNCHANGED woke
         /\ \/ UNCHANGED goal
            \/ \E g \in Goals : Plain(g) \/ Records(g) \/ Counts(g) \/ Settles("tick", g)
<1> DEFINE g == proc["tick"].g
           k == proc["tick"].reply
<1>0. /\ proc["tick"].at \notin {"idle", "route", "take"} => g \in Goals /\ goal[g] \in GoalRecord
      /\ k \in CardRecord /\ seen \in [Goals -> GoalRecord]
  BY Basics DEF TypeOK, Held, ProcRecord
<1> HIDE DEF g, k
<1>1. CASE TickStart \/ TickTake \/ TickEnd \/ Create \/ Show \/ Nudge
  BY <1>1 DEF TickStart, TickTake, TickEnd, Create, Show, Nudge
<1>2. CASE Find
  <2> DEFINE r1 == [goal[g] EXCEPT !.recon = TRUE]
             r2 == [goal[g] EXCEPT !.task = TRUE, !.st = "cancelling"]
  <2>1. /\ At("tick", "find") /\ UNCHANGED woke
        /\ \/ UNCHANGED goal
           \/ Update(g, r1)
           \/ Update(g, r2) /\ card[g].st # "none"
    BY <1>2 DEF Find, g
  <2>2. g \in Goals /\ goal[g] \in GoalRecord
    BY <1>0, <2>1 DEF At
  <2>3. CASE Update(g, r1)
    <3>1. r1 \in GoalRecord /\ r1.rec = goal[g].rec /\ r1.pend = goal[g].pend
          /\ r1.task = goal[g].task /\ r1.st = goal[g].st
      BY <2>2 DEF GoalRecord
    <3> HIDE DEF r1
    <3> QED
      BY <2>1, <2>2, <2>3, <3>1, Wrote DEF Plain
  <2>4. CASE Update(g, r2) /\ card[g].st # "none"
    <3>1. r2 \in GoalRecord /\ r2.rec = goal[g].rec /\ r2.pend = goal[g].pend /\ r2.st = "cancelling"
      BY <2>2 DEF GoalRecord, Statuses
    <3> HIDE DEF r2
    <3> QED
      BY <2>1, <2>2, <2>4, <3>1, Wrote DEF Records, g
  <2> QED
    BY <2>1, <2>3, <2>4
<1>3. CASE Claim \/ Unmade
  <2> DEFINE st1 == IF goal[g].st = "queued" THEN "releasing" ELSE goal[g].st
             st2 == IF goal[g].st = "releasing" THEN "queued" ELSE goal[g].st
  <2>1. /\ proc["tick"].at \in {"release", "unmade"} /\ UNCHANGED woke
        /\ \E st \in {st1, st2} : Update(g, [goal[g] EXCEPT !.st = st])
    BY <1>3 DEF Claim, Unmade, At, g
  <2>2. g \in Goals /\ goal[g] \in GoalRecord
    BY <1>0, <2>1
  <2>3. \A st \in {st1, st2} : st \in Statuses /\ (st = "none" => goal[g].st = "none")
    BY <2>2 DEF GoalRecord, Statuses
  <2> HIDE DEF st1, st2
  <2>4. PICK st \in {st1, st2} : Update(g, [goal[g] EXCEPT !.st = st])
    BY <2>1
  <2> DEFINE r == [goal[g] EXCEPT !.st = st]
  <2>5. r \in GoalRecord /\ r.rec = goal[g].rec /\ r.pend = goal[g].pend
        /\ r.task = goal[g].task /\ r.st = st
    BY <2>2, <2>3 DEF GoalRecord
  <2> HIDE DEF r
  <2>6. Plain(g)
    BY <2>2, <2>3, <2>4, <2>5, Wrote DEF Plain, r
  <2> QED
    BY <2>1, <2>2, <2>6
<1>4. CASE Made
  <2> DEFINE stop == goal[g].st \in {"cancelled", "cancelling"}
             st == IF stop THEN "cancelling" ELSE k.st
             r == [goal[g] EXCEPT !.task = TRUE, !.lk = k.st, !.st = st]
  <2>1. At("tick", "made") /\ UNCHANGED woke /\ Update(g, r)
    BY <1>4 DEF Made, g, k
  <2>2. g \in Goals /\ goal[g] \in GoalRecord
    BY <1>0, <2>1 DEF At
  <2>3. st \in Statuses /\ k.st \in CardStatuses /\ st \in {"cancelling", k.st}
    BY <1>0, Basics DEF CardRecord, Statuses
  <2> HIDE DEF st
  <2>4. r \in GoalRecord /\ r.rec = goal[g].rec /\ r.pend = goal[g].pend /\ r.st = st
    BY <2>2, <2>3 DEF GoalRecord
  <2> HIDE DEF r
  <2>5. Records(g)
    BY <2>1, <2>2, <2>3, <2>4, Wrote DEF Records, g, k
  <2> QED
    BY <2>1, <2>2, <2>5
<1>5. CASE Nudged
  <2> DEFINE n == seen[g].rec + 1
             r == [goal[g] EXCEPT !.rec = n, !.st = "ready", !.lk = "ready"]
  <2>1. At("tick", "nudged") /\ Return("tick") /\ UNCHANGED woke /\ Update(g, r)
    BY <1>5 DEF Nudged, g
  <2>2. g \in Goals /\ goal[g] \in GoalRecord
    BY <1>0, <2>1 DEF At
  <2>3. n \in Nat
    BY <1>0, <2>2 DEF GoalRecord
  <2> HIDE DEF n
  <2>4. r \in GoalRecord
    BY <2>2, <2>3, ZenonT(60) DEF GoalRecord, Statuses, CardStatuses
  <2>5. r.rec = n /\ r.pend = goal[g].pend /\ r.task = goal[g].task /\ r.st # "none"
    BY <2>2 DEF GoalRecord
  <2> HIDE DEF r
  <2>6. Counts(g)
    BY <2>1, <2>2, <2>4, <2>5, Wrote DEF Counts, g, n
  <2> QED
    BY <2>1, <2>2, <2>6
<1>6. CASE Ask \/ Finish \/ Mirror
  <2> DEFINE r1 == [goal[g] EXCEPT !.st = "blocked", !.lk = "blocked", !.why = Prompt(k)]
             st2 == IF k.st = "done" THEN "done" ELSE "failed"
             st3 == IF k.st = "running" THEN "running" ELSE "ready"
             r2 == [goal[g] EXCEPT !.st = st2, !.lk = k.st]
             r3 == [goal[g] EXCEPT !.st = st3, !.lk = k.st]
  <2>1. /\ proc["tick"].at \in {"ask", "finish", "mirror"} /\ UNCHANGED woke
        /\ Update(g, r1) \/ Update(g, r2) \/ Update(g, r3)
    BY <1>6 DEF Ask, Finish, Mirror, At, g, k
  <2>2. g \in Goals /\ goal[g] \in GoalRecord
    BY <1>0, <2>1
  <2>3. /\ Prompt(k) \in Prompts /\ k.st \in CardStatuses
        /\ st2 \in Statuses /\ st2 # "none" /\ st3 \in Statuses /\ st3 # "none"
    BY <1>0 DEF Prompt, Prompts, CardRecord, Statuses
  <2> HIDE DEF st2, st3
  <2>4. r1 \in GoalRecord
    BY <2>2, <2>3, ZenonT(60) DEF GoalRecord, Statuses, CardStatuses
  <2>5. r2 \in GoalRecord /\ r3 \in GoalRecord
    BY <2>2, <2>3 DEF GoalRecord
  <2>6. \A r \in {r1, r2, r3} : /\ r.rec = goal[g].rec /\ r.task = goal[g].task
                               /\ r.st # "none" /\ r.pend = goal[g].pend
    BY <2>2, <2>3 DEF GoalRecord
  <2>7. PICK r \in {r1, r2, r3} : Update(g, r)
    BY <2>1
  <2>8. r \in GoalRecord
    BY <2>4, <2>5
  <2> HIDE DEF r1, r2, r3
  <2>9. Plain(g)
    BY <2>2, <2>6, <2>7, <2>8, Wrote DEF Plain
  <2> QED
    BY <2>1, <2>2, <2>9
<1>7. CASE Publish
  <2> DEFINE r == [goal[g] EXCEPT !.dlv = "outbox"]
  <2>1. At("tick", "publish") /\ UNCHANGED woke /\ (UNCHANGED goal \/ Update(g, r))
    BY <1>7 DEF Publish, g
  <2>2. g \in Goals /\ goal[g] \in GoalRecord
    BY <1>0, <2>1 DEF At
  <2>3. r \in GoalRecord /\ r.rec = goal[g].rec /\ r.pend = goal[g].pend
        /\ r.task = goal[g].task /\ r.st = goal[g].st
    BY <2>2 DEF GoalRecord
  <2> HIDE DEF r
  <2>4. CASE Update(g, r)
    BY <2>1, <2>2, <2>3, <2>4, Wrote DEF Plain
  <2> QED
    BY <2>1, <2>4
<1>8. CASE Shared("tick")
  BY <1>8, SharedWrites, Basics
<1> QED
  BY <1>1, <1>2, <1>3, <1>4, <1>5, <1>6, <1>7, <1>8 DEF Tick

LEMMA GoalWriters ==
  ASSUME TypeOK, Held, [Next]_vars
  PROVE  \/ UNCHANGED <<goal, woke>>
         \/ Nudge /\ UNCHANGED goal
         \/ \E g \in Goals : Adds(g)
         \/ \E g \in Goals :
              /\ UNCHANGED woke
              /\ \/ Plain(g) \/ Makes(g) \/ Reopens(g) \/ Records(g) \/ Counts(g)
                 \/ \E p \in Procs : Settles(p, g)
<1> DEFINE Good == \/ UNCHANGED <<goal, woke>>
                   \/ Nudge /\ UNCHANGED goal
                   \/ \E g \in Goals : Adds(g)
                   \/ \E g \in Goals :
                        /\ UNCHANGED woke
                        /\ \/ Plain(g) \/ Makes(g) \/ Reopens(g) \/ Records(g) \/ Counts(g)
                           \/ \E p \in Procs : Settles(p, g)
<1>1. ASSUME NEW h \in Handlers, NEW m \in Msgs, NEW g \in Goals \cup {None}, Hear(h, m, g)
      PROVE  Good
  BY <1>1 DEF Hear
<1>2. ASSUME NEW h \in Handlers, Handler(h) PROVE Good
  BY <1>2, HandlersWrite
<1>3. ASSUME NEW p \in Procs, Shared(p) PROVE Good
  BY <1>3, SharedWrites
<1>4. CASE Tick /\ ~Nudge
  <2>1. UNCHANGED woke
    BY <1>4, TickWrites
  <2> QED
    BY <1>4, <2>1, TickWrites, Basics
<1>5. CASE Nudge
  BY <1>5 DEF Nudge
<1>6. CASE Crash \/ UNCHANGED vars
  BY <1>6 DEF Crash, vars
<1>7. ASSUME NEW g \in Goals, WindowPasses(g) PROVE Good
  <2> DEFINE r == [goal[g] EXCEPT !.rel = "due"]
  <2>1. Update(g, r) /\ UNCHANGED woke
    BY <1>7 DEF WindowPasses
  <2>2. goal[g] \in GoalRecord
    BY DEF TypeOK
  <2>3. r \in GoalRecord /\ r.rec = goal[g].rec /\ r.pend = goal[g].pend
        /\ r.task = goal[g].task /\ r.st = goal[g].st
    BY <2>2 DEF GoalRecord
  <2> HIDE DEF r
  <2>4. Plain(g)
    BY <2>1, <2>3, Wrote DEF Plain
  <2> QED
    BY <2>1, <2>4
<1>8. ASSUME NEW g \in Goals, Work(g) \/ ArchiveCard(g) \/ OwnerHears(g) PROVE Good
  BY <1>8 DEF Work, ArchiveCard, OwnerHears
<1> QED
  BY <1>1, <1>2, <1>3, <1>4, <1>5, <1>6, <1>7, <1>8, Basics DEF Next

\* Of what the owner has said to a goal nothing is forgotten.
BodiesGrow == \A g \in Goals : goal[g].st # "none" => goal[g].body \subseteq goal'[g].body

LEMMA UpdateGrows ==
  ASSUME TypeOK, NEW g, NEW r, Update(g, r),
         g \in Goals => goal[g].st = "none" \/ goal[g].body \subseteq r.body
  PROVE  BodiesGrow
  BY DEF TypeOK, Update, BodiesGrow

LEMMA BodyStep ==
  ASSUME TypeOK, Held, [Next]_vars
  PROVE  BodiesGrow
<1>0. goal \in [Goals -> GoalRecord] /\ proc \in [Procs -> ProcRecord]
  BY DEF TypeOK
<1>1. UNCHANGED goal => BodiesGrow
  BY DEF BodiesGrow
<1>2. ASSUME NEW h \in Handlers, Handler(h) PROVE BodiesGrow
  <2> DEFINE g == proc[h].g
             m == proc[h].m
  <2>1. ASSUME NEW k \in Goals, NEW st \in {"queued", "clarifying"}, Queue(h, k, st)
        PROVE  BodiesGrow
    BY <1>1, <2>1, UpdateGrows DEF Queue
  <2>2. ASSUME NEW st \in {"queued", "clarifying"}, Clarified(h, st) PROVE BodiesGrow
    <3> DEFINE r == [goal[g] EXCEPT
                      !.said = @ \cup {m}, !.body = @ \cup {m},
                      !.st = IF st = "queued" THEN "queued" ELSE @,
                      !.rel = IF st = "queued" THEN "set" ELSE @]
    <3>1. g \in Goals => goal[g].body \subseteq r.body
      BY <1>0 DEF GoalRecord
    <3>2. UNCHANGED goal \/ Update(g, r)
      BY <2>2 DEF Clarified
    <3> HIDE DEF r
    <3> QED
      BY <1>1, <3>1, <3>2, UpdateGrows
  <2>3. CASE Status(h)
    <3> DEFINE r == [goal[g] EXCEPT !.said = @ \cup {m}]
    <3>1. g \in Goals => goal[g].body \subseteq r.body
      BY <1>0 DEF GoalRecord
    <3>2. Update(g, r)
      BY <2>3 DEF Status
    <3> HIDE DEF r
    <3> QED
      BY <3>1, <3>2, UpdateGrows
  <2>4. CASE Append(h)
    <3> DEFINE r == Appended(goal[g], m, At(h, "answer"))
    <3>1. g \in Goals => goal[g].body \subseteq r.body
      BY <1>0 DEF Appended, GoalRecord
    <3>2. UNCHANGED goal \/ Update(g, r)
      BY <2>4 DEF Append
    <3> HIDE DEF r
    <3> QED
      BY <1>1, <3>1, <3>2, UpdateGrows
  <2>5. CASE Reopen(h)
    <3> DEFINE r == [goal[g] EXCEPT
                      !.said = @ \cup {m}, !.body = @ \cup {m},
                      !.st = IF goal[g].task THEN "ready" ELSE "queued",
                      !.rel = IF goal[g].task THEN @ ELSE "set",
                      !.pend = IF goal[g].task THEN @ \cup {[m |-> m, answer |-> FALSE]} ELSE @]
    <3>1. g \in Goals => goal[g].body \subseteq r.body
      BY <1>0 DEF GoalRecord
    <3>2. UNCHANGED goal \/ Update(g, r)
      BY <2>5 DEF Reopen
    <3> HIDE DEF r
    <3> QED
      BY <1>1, <3>1, <3>2, UpdateGrows
  <2>6. CASE MarkCancelled(h)
    <3> DEFINE r1 == [goal[g] EXCEPT !.st = "cancelling", !.dlv = "suppressed"]
               r2 == [goal[g] EXCEPT !.st = "cancelled", !.dlv = "suppressed", !.said = @ \cup {m}]
    <3>1. g \in Goals => goal[g].body \subseteq r1.body /\ goal[g].body \subseteq r2.body
      BY <1>0 DEF GoalRecord
    <3>2. Update(g, r1) \/ Update(g, r2)
      BY <2>6 DEF MarkCancelled
    <3> HIDE DEF r1, r2
    <3> QED
      BY <3>1, <3>2, UpdateGrows
  <2>7. CASE Pass(h) \/ ReadAnswer(h) \/ HeardQuestion(h) \/ ReopenCard(h) \/ CancelItems(h)
    BY <1>1, <2>7 DEF Pass, ReadAnswer, HeardQuestion, ReopenCard, CancelItems
  <2> QED
    BY <1>2, <2>1, <2>2, <2>3, <2>4, <2>5, <2>6, <2>7 DEF Handler
<1>3. ASSUME NEW p \in Procs, Shared(p) PROVE BodiesGrow
  <2> DEFINE g == proc[p].g
  <2>1. CASE Settle(p)
    <3> DEFINE left == {u \in goal[g].pend : u.m \notin Applied(proc[p].snap)}
               r1 == [goal[g] EXCEPT !.pend = left, !.st = "ready", !.lk = "ready"]
               r2 == [goal[g] EXCEPT !.pend = left, !.st = "running"]
               r3 == [goal[g] EXCEPT !.pend = left, !.st = "ready"]
    <3>1. g \in Goals => /\ goal[g].body \subseteq r1.body /\ goal[g].body \subseteq r2.body
                        /\ goal[g].body \subseteq r3.body
      BY <1>0 DEF GoalRecord
    <3>2. Update(g, r1) \/ Update(g, r2) \/ Update(g, r3)
      BY <2>1 DEF Settle
    <3> HIDE DEF r1, r2, r3
    <3> QED
      BY <3>1, <3>2, UpdateGrows
  <2>2. CASE EndCancel(p)
    <3> DEFINE heard == goal[g].said \cup (IF p = "tick" THEN {} ELSE {proc[p].m})
               r1 == [goal[g] EXCEPT !.st = "cancelled", !.dlv = "suppressed", !.said = heard]
               r2 == [goal[g] EXCEPT !.st = "cancelling", !.said = heard]
    <3>1. g \in Goals => goal[g].body \subseteq r1.body /\ goal[g].body \subseteq r2.body
      BY <1>0 DEF GoalRecord
    <3>2. Update(g, r1) \/ Update(g, r2)
      BY <2>2 DEF EndCancel
    <3> HIDE DEF r1, r2
    <3> QED
      BY <3>1, <3>2, UpdateGrows
  <2>3. CASE ReadUpdates(p) \/ WriteUpdates(p) \/ Unblock(p) \/ CancelCard(p)
    BY <1>1, <2>3 DEF ReadUpdates, WriteUpdates, Unblock, CancelCard
  <2> QED
    BY <1>3, <2>1, <2>2, <2>3 DEF Shared
<1>4. CASE Tick
  <2> DEFINE g == proc["tick"].g
  <2>1. CASE Find
    <3> DEFINE r1 == [goal[g] EXCEPT !.recon = TRUE]
               r2 == [goal[g] EXCEPT !.task = TRUE, !.st = "cancelling"]
    <3>1. g \in Goals => goal[g].body \subseteq r1.body /\ goal[g].body \subseteq r2.body
      BY <1>0 DEF GoalRecord
    <3>2. UNCHANGED goal \/ Update(g, r1) \/ Update(g, r2)
      BY <2>1 DEF Find
    <3> HIDE DEF r1, r2
    <3> QED
      BY <1>1, <3>1, <3>2, UpdateGrows
  <2>2. CASE Claim \/ Unmade
    <3> DEFINE r1 == [goal[g] EXCEPT !.st = IF @ = "queued" THEN "releasing" ELSE @]
               r2 == [goal[g] EXCEPT !.st = IF @ = "releasing" THEN "queued" ELSE @]
    <3>1. g \in Goals => goal[g].body \subseteq r1.body /\ goal[g].body \subseteq r2.body
      BY <1>0 DEF GoalRecord
    <3>2. Update(g, r1) \/ Update(g, r2)
      BY <2>2 DEF Claim, Unmade
    <3> HIDE DEF r1, r2
    <3> QED
      BY <3>1, <3>2, UpdateGrows
  <2>3. CASE Made
    <3> DEFINE st == IF goal[g].st \in {"cancelled", "cancelling"} THEN "cancelling"
                     ELSE proc["tick"].reply.st
               r == [goal[g] EXCEPT !.task = TRUE, !.lk = proc["tick"].reply.st, !.st = st]
    <3>1. g \in Goals => goal[g].body \subseteq r.body
      BY <1>0 DEF GoalRecord
    <3>2. Update(g, r)
      BY <2>3 DEF Made
    <3> HIDE DEF r
    <3> QED
      BY <3>1, <3>2, UpdateGrows
  <2>4. CASE Nudged
    <3> DEFINE r == [goal[g] EXCEPT !.rec = seen[g].rec + 1, !.st = "ready", !.lk = "ready"]
    <3>1. g \in Goals => goal[g].body \subseteq r.body
      BY <1>0 DEF GoalRecord
    <3>2. Update(g, r)
      BY <2>4 DEF Nudged
    <3> HIDE DEF r
    <3> QED
      BY <3>1, <3>2, UpdateGrows
  <2>5. CASE Ask
    <3> DEFINE r == [goal[g] EXCEPT !.st = "blocked", !.lk = "blocked", !.why = Prompt(proc["tick"].reply)]
    <3>1. g \in Goals => goal[g].body \subseteq r.body
      BY <1>0 DEF GoalRecord
    <3>2. Update(g, r)
      BY <2>5 DEF Ask
    <3> HIDE DEF r
    <3> QED
      BY <3>1, <3>2, UpdateGrows
  <2>6. CASE Finish \/ Mirror
    <3> DEFINE k == proc["tick"].reply
               r1 == [goal[g] EXCEPT !.st = IF k.st = "done" THEN "done" ELSE "failed", !.lk = k.st]
               r2 == [goal[g] EXCEPT !.st = IF k.st = "running" THEN "running" ELSE "ready", !.lk = k.st]
    <3>1. g \in Goals => goal[g].body \subseteq r1.body /\ goal[g].body \subseteq r2.body
      BY <1>0 DEF GoalRecord
    <3>2. Update(g, r1) \/ Update(g, r2)
      BY <2>6 DEF Finish, Mirror
    <3> HIDE DEF r1, r2
    <3> QED
      BY <3>1, <3>2, UpdateGrows
  <2>7. CASE Publish
    <3> DEFINE r == [goal[g] EXCEPT !.dlv = "outbox"]
    <3>1. g \in Goals => goal[g].body \subseteq r.body
      BY <1>0 DEF GoalRecord
    <3>2. UNCHANGED goal \/ Update(g, r)
      BY <2>7 DEF Publish
    <3> HIDE DEF r
    <3> QED
      BY <1>1, <3>1, <3>2, UpdateGrows
  <2>8. CASE TickStart \/ TickTake \/ TickEnd \/ Create \/ Show \/ Nudge
    BY <1>1, <2>8 DEF TickStart, TickTake, TickEnd, Create, Show, Nudge
  <2> QED
    BY <1>3, <1>4, <2>1, <2>2, <2>3, <2>4, <2>5, <2>6, <2>7, <2>8, Basics DEF Tick
<1>5. ASSUME NEW g \in Goals, WindowPasses(g) PROVE BodiesGrow
  <2> DEFINE r == [goal[g] EXCEPT !.rel = "due"]
  <2>1. goal[g].body \subseteq r.body
    BY <1>0 DEF GoalRecord
  <2>2. Update(g, r)
    BY <1>5 DEF WindowPasses
  <2> HIDE DEF r
  <2> QED
    BY <2>1, <2>2, UpdateGrows
<1>6. ASSUME NEW g \in Goals, Work(g) \/ ArchiveCard(g) \/ OwnerHears(g) PROVE UNCHANGED goal
  BY <1>6 DEF Work, ArchiveCard, OwnerHears
<1>7. ASSUME NEW h \in Handlers, NEW m \in Msgs, NEW g \in Goals \cup {None}, Hear(h, m, g)
      PROVE  UNCHANGED goal
  BY <1>7 DEF Hear
<1>8. Crash \/ UNCHANGED vars => UNCHANGED goal
  BY DEF Crash, vars
<1> QED
  BY <1>1, <1>2, <1>3, <1>4, <1>5, <1>6, <1>7, <1>8, Basics DEF Next

------------------------------------------------------------------------------
(* What becomes of the cards.                                                *)

\* No card is lost, and nothing that is on one.
CardsStay ==
  /\ card' \in [Goals -> CardRecord]
  /\ \A g \in Goals : card[g].st # "none" =>
       card'[g].st # "none" /\ card[g].body \subseteq card'[g].body

LEMMA CardForms ==
  ASSUME card \in [Goals -> CardRecord], NEW g \in Goals
  PROVE  /\ UNCHANGED card => CardsStay
         /\ \A st \in CardStatuses :
              (st = "none" => card[g].st = "none") =>
                (card' = [card EXCEPT ![g].st = st] => CardsStay)
         /\ \A st \in CardStatuses \ {"none"} :
              card' = [card EXCEPT ![g].st = st] => CardsStay
         /\ \A st \in CardStatuses \ {"none"}, why \in Questions \cup Results \cup {"system"} :
              card' = [card EXCEPT ![g].st = st, ![g].why = why] => CardsStay
         /\ \A some \in SUBSET Msgs : card' = [card EXCEPT ![g].body = @ \cup some] => CardsStay
         /\ UnblockCard(g) => CardsStay
<1>1. card[g] \in CardRecord
  OBVIOUS
<1>2. UNCHANGED card => CardsStay
  BY DEF CardsStay
<1>3. ASSUME NEW st \in CardStatuses, card' = [card EXCEPT ![g].st = st],
             st = "none" => card[g].st = "none"
      PROVE  CardsStay
  <2> DEFINE k == [card[g] EXCEPT !.st = st]
  <2>1. k \in CardRecord /\ k.st = st /\ k.body = card[g].body
    BY <1>1 DEF CardRecord
  <2>2. card' = [card EXCEPT ![g] = k]
    BY <1>3
  <2> HIDE DEF k
  <2> QED
    BY <1>3, <2>1, <2>2 DEF CardsStay
<1>4. ASSUME NEW st \in CardStatuses \ {"none"}, NEW why \in Questions \cup Results \cup {"system"},
             card' = [card EXCEPT ![g].st = st, ![g].why = why]
      PROVE  CardsStay
  <2> DEFINE k == [card[g] EXCEPT !.st = st, !.why = why]
  <2>1. k \in CardRecord /\ k.st = st /\ k.body = card[g].body
    BY <1>1 DEF CardRecord
  <2>2. card' = [card EXCEPT ![g] = k]
    BY <1>4
  <2> HIDE DEF k
  <2> QED
    BY <2>1, <2>2 DEF CardsStay
<1>5. ASSUME NEW some \in SUBSET Msgs, card' = [card EXCEPT ![g].body = @ \cup some]
      PROVE  CardsStay
  <2> DEFINE k == [card[g] EXCEPT !.body = card[g].body \cup some]
  <2>1. k \in CardRecord /\ k.st = card[g].st /\ card[g].body \subseteq k.body
    BY <1>1 DEF CardRecord
  <2>2. card' = [card EXCEPT ![g] = k]
    BY <1>5
  <2> HIDE DEF k
  <2> QED
    BY <2>1, <2>2 DEF CardsStay
<1>6. ASSUME UnblockCard(g) PROVE CardsStay
  <2> DEFINE k == [card[g] EXCEPT !.st = "ready", !.why = None]
  <2>1. k \in CardRecord /\ k.st = "ready" /\ k.body = card[g].body
    BY <1>1 DEF CardRecord, CardStatuses
  <2>2. card' = [card EXCEPT ![g] = IF card[g].st = "blocked" THEN k ELSE card[g]]
    BY <1>6 DEF UnblockCard
  <2> HIDE DEF k
  <2> QED
    BY <2>1, <2>2 DEF CardsStay
<1> QED
  BY <1>2, <1>3, <1>4, <1>5, <1>6

LEMMA CardStep ==
  ASSUME TypeOK, Held, [Next]_vars
  PROVE  CardsStay
<1>0. card \in [Goals -> CardRecord] /\ proc \in [Procs -> ProcRecord]
  BY DEF TypeOK
<1>1. UNCHANGED card => CardsStay
  BY <1>0 DEF CardsStay
<1>2. ASSUME NEW h \in Handlers, ReopenCard(h) PROVE CardsStay
  <2>1. proc[h].g \in Goals
    BY <1>2, Basics DEF ReopenCard, At, Held
  <2> DEFINE st == IF card[proc[h].g].st = "done" THEN "ready" ELSE card[proc[h].g].st
  <2>2. UNCHANGED card \/ card' = [card EXCEPT ![proc[h].g].st = st]
    BY <1>2 DEF ReopenCard
  <2>3. st \in CardStatuses /\ (st = "none" => card[proc[h].g].st = "none")
    BY <1>0, <2>1 DEF CardRecord, CardStatuses
  <2> HIDE DEF st
  <2> QED
    BY <1>0, <1>1, <2>1, <2>2, <2>3, CardForms
<1>3. ASSUME NEW h \in Handlers, Handler(h) PROVE CardsStay
  <2>1. ReopenCard(h) \/ UNCHANGED card
    BY <1>3 DEF Handler, Pass, Status, ReadAnswer, Append, HeardQuestion, Reopen, CancelItems,
       MarkCancelled, Queue, Clarified
  <2> QED
    BY <1>1, <1>2, <1>3, <2>1
<1>4. ASSUME NEW p \in Procs, Shared(p) PROVE CardsStay
  <2>1. proc[p].g \in Goals /\ proc[p].snap \in GoalRecord
    BY <1>0, <1>4 DEF Shared, ReadUpdates, WriteUpdates, Unblock, Settle, CancelCard, EndCancel,
       At, Held, ProcRecord
  <2>2. Applied(proc[p].snap) \subseteq Msgs
    BY <2>1 DEF Applied, GoalRecord, Updates
  <2>3. CASE WriteUpdates(p)
    <3>1. PICK some \in SUBSET Msgs : card' = [card EXCEPT ![proc[p].g].body = @ \cup some]
      BY <2>2, <2>3 DEF WriteUpdates
    <3> QED
      BY <1>0, <2>1, <3>1, CardForms
  <2>4. CASE Unblock(p)
    <3>1. UnblockCard(proc[p].g) \/ UNCHANGED card
      BY <2>4 DEF Unblock
    <3> QED
      BY <1>0, <2>1, <3>1, CardForms
  <2>5. CASE CancelCard(p)
    <3> DEFINE st == IF card[proc[p].g].st = "none" THEN "none" ELSE "archived"
    <3>1. UNCHANGED card \/ card' = [card EXCEPT ![proc[p].g].st = st]
      BY <2>5 DEF CancelCard
    <3>2. st \in CardStatuses /\ (st = "none" => card[proc[p].g].st = "none")
      BY DEF CardStatuses
    <3> HIDE DEF st
    <3> QED
      BY <1>0, <1>1, <2>1, <3>1, <3>2, CardForms
  <2>6. CASE ReadUpdates(p) \/ Settle(p) \/ EndCancel(p)
    BY <1>1, <2>6 DEF ReadUpdates, Settle, EndCancel
  <2> QED
    BY <1>4, <2>3, <2>4, <2>5, <2>6 DEF Shared
<1>5. CASE Tick
  <2> DEFINE g == proc["tick"].g
             made == CreatedCard(g)
  <2>1. CASE Create
    <3>1. g \in Goals /\ proc["tick"].snap \in GoalRecord
      BY <1>0, <2>1, Basics DEF Create, At, Held, ProcRecord
    <3>2. /\ made \in CardRecord
          /\ card[g].st # "none" => made = card[g]
      BY <1>0, <3>1 DEF CreatedCard, CardRecord, CardStatuses, GoalRecord
    <3>3. UNCHANGED card \/ card' = [card EXCEPT ![g] = made]
      BY <2>1 DEF Create
    <3> HIDE DEF made
    <3> QED
      BY <1>0, <3>1, <3>2, <3>3 DEF CardsStay
  <2>2. CASE Nudge
    <3>1. g \in Goals /\ (UNCHANGED card \/ UnblockCard(g))
      BY <2>2, Basics DEF Nudge, At, Held
    <3> QED
      BY <1>0, <3>1, CardForms
  <2>3. CASE Shared("tick")
    BY <1>4, <2>3, Basics
  <2>4. CASE \/ TickStart \/ TickTake \/ TickEnd \/ Find \/ Claim \/ Unmade \/ Made
             \/ Show \/ Nudged \/ Ask \/ Finish \/ Mirror \/ Publish
    BY <1>1, <2>4 DEF TickStart, TickTake, TickEnd, Find, Claim, Unmade, Made, Show, Nudged, Ask,
       Finish, Mirror, Publish
  <2> QED
    BY <1>5, <2>1, <2>2, <2>3, <2>4 DEF Tick
<1>6. ASSUME NEW g \in Goals, Work(g) \/ ArchiveCard(g) PROVE CardsStay
  <2>1. \/ \E st \in CardStatuses \ {"none"} : card' = [card EXCEPT ![g].st = st]
        \/ \E st \in CardStatuses \ {"none"}, why \in Questions \cup Results \cup {"system"} :
             card' = [card EXCEPT ![g].st = st, ![g].why = why]
    BY <1>6 DEF Work, ArchiveCard, CardStatuses
  <2> QED
    BY <1>0, <2>1, CardForms
<1>7. ASSUME NEW g \in Goals, WindowPasses(g) \/ OwnerHears(g) PROVE UNCHANGED card
  BY <1>7 DEF WindowPasses, OwnerHears
<1>8. Crash \/ UNCHANGED vars => UNCHANGED card
  BY DEF Crash, vars
<1>9. ASSUME NEW h \in Handlers, NEW m \in Msgs, NEW g \in Goals \cup {None}, Hear(h, m, g)
      PROVE  UNCHANGED card
  BY <1>9 DEF Hear
<1> QED
  BY <1>1, <1>3, <1>4, <1>5, <1>6, <1>7, <1>8, <1>9, Basics DEF Next

------------------------------------------------------------------------------
(* Types.                                                                    *)

LEMMA ItemsTyped ==
  ASSUME TypeOK, Held, [Next]_vars
  PROVE  item' \in [Goals -> [Contents -> {"none", "open", "heard", "off"}]]
<1> DEFINE T == [Contents -> {"none", "open", "heard", "off"}]
<1>0. item \in [Goals -> T]
  BY DEF TypeOK
<1>1. ASSUME NEW g \in Goals, NEW f \in T, item' = [item EXCEPT ![g] = f] PROVE item' \in [Goals -> T]
  BY <1>0, <1>1
<1>2. ASSUME NEW h \in Handlers, Handler(h) PROVE item' \in [Goals -> T]
  <2>1. CASE Status(h)
    <3> DEFINE f == [c \in Contents |-> IF c \in Endings /\ item[proc[h].g][c] = "open" THEN "heard"
                                       ELSE item[proc[h].g][c]]
    <3>1. proc[h].g \in Goals
      BY <2>1, Basics DEF Status, TypeOK, ProcRecord
    <3>2. UNCHANGED item \/ item' = [item EXCEPT ![proc[h].g] = f]
      BY <2>1 DEF Status
    <3>3. f \in T
      BY <1>0, <3>1
    <3> QED
      BY <1>0, <1>1, <3>1, <3>2, <3>3
  <2>2. CASE HeardQuestion(h)
    <3> DEFINE f == [c \in Contents |-> IF c \in Prompts /\ item[proc[h].g][c] = "open" THEN "heard"
                                       ELSE item[proc[h].g][c]]
    <3>1. proc[h].g \in Goals /\ item' = [item EXCEPT ![proc[h].g] = f]
      BY <2>2, Basics DEF HeardQuestion, Held, At
    <3>2. f \in T
      BY <1>0, <3>1
    <3> QED
      BY <1>1, <3>1, <3>2
  <2>3. CASE CancelItems(h)
    <3> DEFINE f == [c \in Contents |-> IF item[proc[h].g][c] = "open" THEN "off"
                                       ELSE item[proc[h].g][c]]
    <3>1. proc[h].g \in Goals /\ item' = [item EXCEPT ![proc[h].g] = f]
      BY <2>3, Basics DEF CancelItems, TypeOK, ProcRecord
    <3>2. f \in T
      BY <1>0, <3>1
    <3> QED
      BY <1>1, <3>1, <3>2
  <2>4. CASE ~Status(h) /\ ~HeardQuestion(h) /\ ~CancelItems(h)
    BY <1>0, <1>2, <2>4 DEF Handler, Pass, ReadAnswer, Append, Reopen, ReopenCard, MarkCancelled, Queue,
       Clarified
  <2> QED
    BY <2>1, <2>2, <2>3, <2>4
<1>3. CASE Publish
  <2> DEFINE g == proc["tick"].g
             c == ContentOf(proc["tick"].reply)
             f == [k \in Contents |-> IF k = c THEN "open"
                                     ELSE IF item[g][k] = "open" THEN "off" ELSE item[g][k]]
  <2>1. g \in Goals
    BY <1>3, Basics DEF Publish, Held, At
  <2>2. UNCHANGED item \/ item' = [item EXCEPT ![g] = f]
    BY <1>3 DEF Publish
  <2>3. f \in T
    BY <1>0, <2>1
  <2> QED
    BY <1>0, <1>1, <2>1, <2>2, <2>3
<1>4. ASSUME NEW g \in Goals, OwnerHears(g) PROVE item' \in [Goals -> T]
  BY <1>0, <1>4 DEF OwnerHears
<1>5. ASSUME NEW p \in Procs, Shared(p) PROVE UNCHANGED item
  BY <1>5 DEF Shared, ReadUpdates, WriteUpdates, Unblock, Settle, CancelCard, EndCancel
<1>6. CASE Tick /\ ~Publish
  <2>1. UNCHANGED item
    BY <1>5, <1>6, Basics DEF Tick, TickStart, TickTake, TickEnd, Find, Claim, Create, Unmade, Made, Show,
       Nudge, Nudged, Ask, Finish, Mirror
  <2> QED
    BY <1>0, <2>1
<1>7. ASSUME NEW g \in Goals, WindowPasses(g) \/ Work(g) \/ ArchiveCard(g) PROVE UNCHANGED item
  BY <1>7 DEF WindowPasses, Work, ArchiveCard
<1>8. Crash \/ UNCHANGED vars => UNCHANGED item
  BY DEF Crash, vars
<1>9. ASSUME NEW h \in Handlers, NEW m \in Msgs, NEW g \in Goals \cup {None}, Hear(h, m, g)
      PROVE  UNCHANGED item
  BY <1>9 DEF Hear
<1> QED
  BY <1>0, <1>2, <1>3, <1>4, <1>5, <1>6, <1>7, <1>8, <1>9, Basics DEF Next

\* What a step spends: nothing, a delivery, or a trouble.
LEMMA BudgetWriters ==
  ASSUME [Next]_vars
  PROVE  UNCHANGED budget \/ Spend("deliveries") \/ Spend("troubles")
<1> DEFINE Good == UNCHANGED budget \/ Spend("deliveries") \/ Spend("troubles")
<1>1. ASSUME NEW h \in Handlers, Handler(h) PROVE Good
  BY <1>1 DEF Handler, Pass, Status, ReadAnswer, Append, HeardQuestion, Reopen, ReopenCard, CancelItems,
     MarkCancelled, Queue, Clarified, Succeeds, Fails
<1>2. ASSUME NEW p, Shared(p) PROVE Good
  BY <1>2 DEF Shared, ReadUpdates, WriteUpdates, Unblock, Settle, CancelCard, EndCancel, Succeeds, Fails
<1>3. Tick => Good
  BY <1>2 DEF Tick, TickStart, TickTake, TickEnd, Find, Claim, Create, Unmade, Made, Show,
     Nudge, Nudged, Ask, Finish, Mirror, Publish, Succeeds, Fails
<1>4. ASSUME NEW g \in Goals, WindowPasses(g) \/ Work(g) \/ ArchiveCard(g) \/ OwnerHears(g) PROVE Good
  BY <1>4 DEF WindowPasses, Work, ArchiveCard, OwnerHears
<1>5. Crash \/ UNCHANGED vars => Good
  BY DEF Crash, vars
<1>6. ASSUME NEW h \in Handlers, NEW m \in Msgs, NEW g \in Goals \cup {None}, Hear(h, m, g)
      PROVE  Good
  BY <1>6 DEF Hear
<1> QED
  BY <1>1, <1>2, <1>3, <1>4, <1>5, <1>6 DEF Next

\* The list is made when a tick starts; it shrinks until the tick ends or throws.
LEMMA ListWriters ==
  ASSUME [Next]_vars
  PROVE  \/ UNCHANGED <<todo, seen>>
         \/ TickStart
         \/ TickTake
         \/ /\ todo' = {} /\ seen' \in {seen, [g \in Goals |-> NoGoal]}
            /\ Return("tick") \/ proc'["tick"].at = "idle" \/ proc' = [proc EXCEPT !["tick"] = Idle]
<1> DEFINE Good == \/ UNCHANGED <<todo, seen>>
                   \/ TickStart
                   \/ TickTake
                   \/ /\ todo' = {} /\ seen' \in {seen, [g \in Goals |-> NoGoal]}
                      /\ \/ Return("tick") \/ proc'["tick"].at = "idle"
                         \/ proc' = [proc EXCEPT !["tick"] = Idle]
<1>1. ASSUME NEW h \in Handlers, Handler(h) PROVE Good
  BY <1>1 DEF Handler, Pass, Status, ReadAnswer, Append, HeardQuestion, Reopen, ReopenCard, CancelItems,
     MarkCancelled, Queue, Clarified, ticking
<1>2. ASSUME NEW p, Shared(p) PROVE Good
  BY <1>2 DEF Shared, ReadUpdates, WriteUpdates, Unblock, Settle, CancelCard, EndCancel, ticking
<1>3. CASE TickEnd
  BY <1>3 DEF TickEnd
<1>4. CASE Find \/ Create \/ Unmade \/ Show
  BY <1>4 DEF Find, Create, Unmade, Show, Throw, ticking
<1>5. CASE Claim \/ Made \/ Nudge \/ Nudged \/ Ask \/ Finish \/ Mirror \/ Publish
  BY <1>5 DEF Claim, Made, Nudge, Nudged, Ask, Finish, Mirror, Publish, ticking
<1>6. ASSUME NEW g \in Goals, WindowPasses(g) \/ Work(g) \/ ArchiveCard(g) \/ OwnerHears(g) PROVE Good
  BY <1>6 DEF WindowPasses, Work, ArchiveCard, OwnerHears, ticking
<1>7. Crash => Good
  BY Basics DEF Crash, Idle
<1>8. UNCHANGED vars => Good
  BY DEF vars, ticking
<1>9. ASSUME NEW h \in Handlers, NEW m \in Msgs, NEW g \in Goals \cup {None}, Hear(h, m, g)
      PROVE  Good
  BY <1>9 DEF Hear, ticking
<1> QED
  BY <1>1, <1>2, <1>3, <1>4, <1>5, <1>6, <1>7, <1>8, <1>9 DEF Next, Tick

LEMMA TypeInit ==
  ASSUME Init PROVE TypeOK /\ Held
  BY Basics, BrokerAssumption DEF Init, TypeOK, Held, Idle

LEMMA TypeStep ==
  ASSUME TypeOK, Held, [Next]_vars PROVE TypeOK' /\ Held'
<1>1. goal' \in [Goals -> GoalRecord] /\ woke' \in [Goals -> Nat]
  <2>1. goal \in [Goals -> GoalRecord] /\ woke \in [Goals -> Nat]
    BY DEF TypeOK
  <2>2. CASE Nudge /\ UNCHANGED goal
    <3>1. UNCHANGED woke \/ \E n \in {0, 1} : woke' = [woke EXCEPT ![proc["tick"].g] = @ + n]
      BY <2>2 DEF Nudge
    <3> QED
      BY <2>1, <2>2, <3>1
  <2>3. ASSUME NEW g \in Goals, Adds(g) PROVE woke' \in [Goals -> Nat]
    BY <2>1, <2>3 DEF Adds
  <2> QED
    BY <2>1, <2>2, <2>3, GoalWriters DEF Plain, Makes, Adds, Reopens, Records, Counts, Settles, Writes
<1>2. todo' \subseteq Goals /\ seen' \in [Goals -> GoalRecord]
  BY ListWriters, TakesOfList, Basics DEF TypeOK, TickStart, TickTake
<1>3. budget' \in [deliveries : 0 .. MaxDeliveries, troubles : 0 .. MaxTroubles]
  BY BudgetWriters, BrokerAssumption DEF TypeOK, Spend
<1> QED
  BY <1>1, <1>2, <1>3, ProcsTyped, CardStep, ItemsTyped DEF TypeOK, CardsStay

\* The types of the records, of what the processes hold and of the board.
THEOREM TypeCorrect == Spec => [](TypeOK /\ Held)
<1> QED
  BY TypeInit, TypeStep, PTL DEF Spec

------------------------------------------------------------------------------
(* Where each process goes.                                                  *)

\* A process stays where it is unless the step is its own, or the box restarts.
LEMMA OwnStep ==
  ASSUME TypeOK, Held, [Next]_vars, NEW q \in Procs
  PROVE  \/ proc'[q] = proc[q]
         \/ proc'[q] = Idle
         \/ q \in Handlers /\ proc'[q].at = "route"
         \/ q \in Handlers /\ (Handler(q) \/ Shared(q))
         \/ q = "tick" /\ Tick
<1>0. proc \in [Procs -> ProcRecord] /\ "tick" \in Procs /\ Handlers \subseteq Procs
  BY Basics DEF TypeOK
<1>1. ASSUME NEW h \in Handlers, Handler(h) \/ Shared(h), h # q PROVE proc'[q] = proc[q]
  BY <1>0, <1>1, HandlersMove, SharedMoves DEF Moves, Only
<1>2. ASSUME Tick, q # "tick" PROVE proc'[q] = proc[q]
  BY <1>0, <1>2, TickMoves DEF Moves, Only
<1>3. ASSUME NEW h \in Handlers, NEW m \in Msgs, NEW g \in Goals \cup {None}, Hear(h, m, g)
      PROVE  proc'[q] = proc[q] \/ (q \in Handlers /\ proc'[q].at = "route")
  <2> DEFINE r == [Idle EXCEPT !.at = "route", !.g = g, !.m = m,
                               !.snap = IF g = None THEN NoGoal ELSE goal[g]]
  <2>1. UNCHANGED proc \/ proc' = [proc EXCEPT ![h] = r]
    BY <1>3 DEF Hear
  <2>2. r.at = "route"
    BY DEF Idle
  <2> HIDE DEF r
  <2> QED
    BY <1>0, <2>1, <2>2
<1>4. Crash => proc'[q] = Idle
  BY DEF Crash
<1>5. UNCHANGED proc => proc'[q] = proc[q]
  OBVIOUS
<1>6. ASSUME NEW g \in Goals, WindowPasses(g) \/ Work(g) \/ ArchiveCard(g) \/ OwnerHears(g)
      PROVE  UNCHANGED proc
  BY <1>6 DEF WindowPasses, Work, ArchiveCard, OwnerHears
<1> QED
  BY <1>1, <1>2, <1>3, <1>4, <1>5, <1>6 DEF Next, vars

LEMMA HandlersGo ==
  ASSUME TypeOK, Held, NEW h \in Handlers, Handler(h)
  PROVE  proc'[h].at \in {"idle", "answer", "heard", "flush", "reopen", "mark", "cancel"}
<1>0. h \in Procs /\ h # "tick" /\ proc \in [Procs -> ProcRecord]
  BY Basics DEF TypeOK
<1>1. CASE Return(h)
  BY <1>0, <1>1, ReturnEffect
<1>2. ASSUME NEW point \in {"heard", "flush", "reopen", "mark"}, Forget(h, point)
      PROVE  proc'[h].at = point
  BY <1>0, <1>2, ForgetEffect DEF Points
<1>3. ASSUME NEW point \in {"flush", "cancel"}, GoTo(h, point) PROVE proc'[h].at = point
  BY <1>0, <1>3, GoToEffect DEF Points
<1>4. CASE ReadAnswer(h) \/ HeardQuestion(h)
  <2>1. /\ proc[h] \in ProcRecord
        /\ \/ Return(h)
           \/ proc' = [proc EXCEPT ![h] = [proc[h] EXCEPT !.at = "answer", !.snap = goal[proc[h].g]]]
           \/ proc' = [proc EXCEPT ![h] = [proc[h] EXCEPT !.at = "flush", !.force = TRUE]]
    BY <1>0, <1>4 DEF ReadAnswer, HeardQuestion
  <2>2. /\ [proc[h] EXCEPT !.at = "answer", !.snap = goal[proc[h].g]].at = "answer"
        /\ [proc[h] EXCEPT !.at = "flush", !.force = TRUE].at = "flush"
    BY <2>1 DEF ProcRecord
  <2> QED
    BY <1>0, <1>1, <2>1, <2>2
<1>5. CASE ~ReadAnswer(h) /\ ~HeardQuestion(h)
  <2>1. \/ Return(h)
        \/ \E point \in {"heard", "flush", "reopen", "mark"} : Forget(h, point)
        \/ \E point \in {"flush", "cancel"} : GoTo(h, point)
    BY <1>5 DEF Handler, Pass, Status, Append, Reopen, ReopenCard, CancelItems, MarkCancelled, Queue,
       Clarified
  <2> QED
    BY <1>1, <1>2, <1>3, <2>1
<1> QED
  BY <1>4, <1>5

\* What goes to a card, and when: the updates the process read from the goal's record.
LEMMA SharedGoes ==
  ASSUME TypeOK, Held, NEW p \in Procs, Shared(p)
  PROVE  \/ proc'[p].at \in {"idle", "take"}
         \/ /\ p = "tick" /\ proc'[p].at \in {"release", "show"} /\ proc'[p].g = proc[p].g
            /\ proc[p].at \in {"flush", "settle"}
         \/ /\ proc'[p].at \in {"cancelled", "refused"} /\ proc'[p].g = proc[p].g
            /\ proc[p].at = "cancel"
         \/ /\ proc'[p].at = "write" /\ proc'[p].g = proc[p].g /\ proc[p].at = "flush"
            /\ goal[proc[p].g].task
         \/ /\ proc'[p].at \in {"unblock", "settle"} /\ proc'[p].g = proc[p].g
            /\ proc'[p].snap = proc[p].snap
            /\ \/ proc[p].at = "write" /\ Applied(proc[p].snap) \subseteq card'[proc[p].g].body
               \/ proc[p].at = "unblock"
<1>0. /\ proc \in [Procs -> ProcRecord] /\ seen \in [Goals -> GoalRecord]
      /\ card \in [Goals -> CardRecord] /\ proc[p].g \in Goals
  BY DEF TypeOK, Held, Shared, ReadUpdates, WriteUpdates, Unblock, Settle, CancelCard, EndCancel, At
<1>1. Return(p) => proc'[p].at \in {"idle", "take"}
  BY <1>0, ReturnEffect
<1>2. ASSUME Flushed(p)
      PROVE  \/ proc'[p].at \in {"idle", "take"}
             \/ p = "tick" /\ proc'[p].at \in {"release", "show"} /\ proc'[p].g = proc[p].g
  BY <1>0, <1>1, <1>2, WalkEffect DEF Flushed
<1>3. ASSUME NEW point \in {"unblock", "settle", "cancelled", "refused"}, GoTo(p, point)
      PROVE  proc'[p].at = point /\ proc'[p].g = proc[p].g /\ proc'[p].snap = proc[p].snap
  BY <1>0, <1>3, GoToEffect DEF Points
<1>4. CASE ReadUpdates(p)
  <2>1. CASE Flushed(p)
    BY <1>2, <1>4, <2>1 DEF ReadUpdates, At
  <2>2. CASE ~Flushed(p)
    <3> DEFINE r == [proc[p] EXCEPT !.at = "write", !.snap = goal[proc[p].g]]
    <3>1. proc' = [proc EXCEPT ![p] = r] /\ goal[proc[p].g].task /\ proc[p].at = "flush"
      BY <1>0, <1>4, <2>2 DEF ReadUpdates, At
    <3>2. r.at = "write" /\ r.g = proc[p].g
      BY <1>0 DEF ProcRecord
    <3> HIDE DEF r
    <3> QED
      BY <1>0, <3>1, <3>2
  <2> QED
    BY <2>1, <2>2
<1>5. CASE WriteUpdates(p)
  <2>1. CASE Return(p)
    BY <1>1, <2>1
  <2>2. CASE ~Return(p)
    <3>1. /\ proc[p].at = "write" /\ (GoTo(p, "unblock") \/ GoTo(p, "settle"))
          /\ card' = [card EXCEPT ![proc[p].g].body = @ \cup Applied(proc[p].snap)]
      BY <1>5, <2>2 DEF WriteUpdates, At
    <3>2. Applied(proc[p].snap) \subseteq card'[proc[p].g].body
      BY <1>0, <3>1 DEF CardRecord
    <3> QED
      BY <1>3, <3>1, <3>2
  <2> QED
    BY <2>1, <2>2
<1>6. CASE Unblock(p)
  BY <1>1, <1>3, <1>6 DEF Unblock, At
<1>7. CASE Settle(p)
  BY <1>2, <1>7 DEF Settle, At
<1>8. CASE CancelCard(p)
  BY <1>3, <1>8 DEF CancelCard, At
<1>9. CASE EndCancel(p)
  BY <1>1, <1>9 DEF EndCancel
<1> QED
  BY <1>4, <1>5, <1>6, <1>7, <1>8, <1>9 DEF Shared

\* The tick's own steps: from one point to another of the goal it walks, or to the next
\* goal of its list.
LEMMA TickGoes ==
  ASSUME TypeOK, Held, Tick, ~Shared("tick")
  PROVE  \/ proc'["tick"].at \in {"idle", "take"}
         \/ /\ TickTake /\ todo' = todo \ {proc'["tick"].g} /\ proc'["tick"].g \in todo
            /\ proc'["tick"].at \in {"find", "cancel", "flush", "release", "show"}
         \/ /\ proc'["tick"].g = proc["tick"].g
            /\ proc["tick"].at \notin {"idle", "route", "take", "nudged"}
            /\ \/ proc'["tick"].at \in {"cancel", "unmade", "ask", "finish", "mirror", "publish"}
               \/ proc'["tick"].at = "create" /\ Claim
               \/ /\ proc'["tick"].at = "made" /\ proc'["tick"].reply.st # "none"
                  /\ card'[proc["tick"].g].st # "none"
               \/ proc'["tick"].at = "nudge" /\ seen[proc["tick"].g].rec < MaxRecoveries
               \/ proc'["tick"].at = "nudged" /\ proc["tick"].at = "nudge"
<1> DEFINE g == proc["tick"].g
<1>0. /\ "tick" \in Procs
      /\ proc \in [Procs -> ProcRecord] /\ goal \in [Goals -> GoalRecord]
      /\ card \in [Goals -> CardRecord] /\ seen \in [Goals -> GoalRecord] /\ todo \subseteq Goals
      /\ proc["tick"].at \notin {"idle", "route", "take"} => g \in Goals
  BY Basics DEF TypeOK, Held
<1>1. Return("tick") => proc'["tick"].at = "take"
  BY <1>0, ReturnEffect
<1>2. ASSUME NEW point \in {"cancel", "unmade", "publish", "nudged"}, GoTo("tick", point)
      PROVE  proc'["tick"].at = point /\ proc'["tick"].g = g
  BY <1>0, <1>2, GoToEffect DEF Points
<1>3. CASE TickStart
  <2>1. proc' = [proc EXCEPT !["tick"] = [proc["tick"] EXCEPT !.at = "take"]]
    BY <1>3 DEF TickStart
  <2>2. [proc["tick"] EXCEPT !.at = "take"].at = "take"
    BY <1>0 DEF ProcRecord
  <2> QED
    BY <1>0, <2>1, <2>2
<1>4. CASE TickTake
  <2> DEFINE k == CHOOSE k \in todo : \A other \in todo : k <= other
             force == \E u \in seen[k].pend : u.answer
             Begins(point) == [Idle EXCEPT !.at = point, !.g = k, !.snap = seen[k], !.force = force]
  <2>1. k \in todo /\ k \in Goals /\ todo' = todo \ {k}
    BY <1>0, <1>4, TakesOfList DEF TickTake
  <2>2. \/ Walk(k)
        \/ \E point \in {"find", "cancel", "flush"} : proc' = [proc EXCEPT !["tick"] = Begins(point)]
    BY <1>4 DEF TickTake
  <2> HIDE DEF k, force
  <2>3. \A point \in {"find", "cancel", "flush"} : Begins(point).at = point /\ Begins(point).g = k
    BY DEF Idle
  <2>4. CASE Walk(k)
    BY <1>0, <1>4, <2>1, <2>4, WalkEffect
  <2>5. ASSUME NEW point \in {"find", "cancel", "flush"},
               proc' = [proc EXCEPT !["tick"] = Begins(point)]
        PROVE  proc'["tick"].at = point /\ proc'["tick"].g = k
    BY <1>0, <2>3, <2>5
  <2> QED
    BY <1>4, <2>1, <2>2, <2>4, <2>5
<1>5. CASE TickEnd
  BY <1>0, <1>5 DEF TickEnd, Idle
<1>6. CASE Find \/ Unmade \/ Made \/ Nudged \/ Ask \/ Finish \/ Mirror \/ Publish
  <2>1. /\ proc["tick"].at \notin {"idle", "route", "take"}
        /\ \/ Return("tick")
           \/ /\ \E point \in {"cancel", "publish"} : GoTo("tick", point)
              /\ proc["tick"].at # "nudged"
    BY <1>6 DEF Find, Unmade, Made, Nudged, Ask, Finish, Mirror, Publish, At
  <2> QED
    BY <1>1, <1>2, <2>1
<1>7. CASE Nudge
  BY <1>1, <1>2, <1>7 DEF Nudge, At
<1>8. CASE Claim
  <2> DEFINE claimed == [goal[g] EXCEPT !.st = IF @ = "queued" THEN "releasing" ELSE @]
             r == [proc["tick"] EXCEPT !.at = "create", !.snap = claimed]
  <2>1. proc["tick"].at = "release" /\ (Return("tick") \/ proc' = [proc EXCEPT !["tick"] = r])
    BY <1>8 DEF Claim, At
  <2> HIDE DEF claimed
  <2>2. r.at = "create" /\ r.g = g
    BY <1>0 DEF ProcRecord
  <2> HIDE DEF r
  <2> QED
    BY <1>0, <1>1, <1>8, <2>1, <2>2
<1>9. CASE Create
  <2> DEFINE made == CreatedCard(g)
             r == [proc["tick"] EXCEPT !.at = "made", !.reply = made]
  <2>1. proc["tick"].at = "create" /\ g \in Goals
    BY <1>0, <1>9 DEF Create, At
  <2>2. \/ Return("tick")
        \/ GoTo("tick", "unmade")
        \/ proc' = [proc EXCEPT !["tick"] = r] /\ card' = [card EXCEPT ![g] = made]
    BY <1>0, <1>9, <2>1 DEF Create
  <2>3. made.st # "none"
    BY DEF CreatedCard
  <2> HIDE DEF made
  <2>4. r.at = "made" /\ r.g = g /\ r.reply = made
    BY <1>0 DEF ProcRecord
  <2> HIDE DEF r
  <2> QED
    BY <1>0, <1>1, <1>2, <2>1, <2>2, <2>3, <2>4
<1>10. CASE Show
  <2> DEFINE k == card[g]
             next == Reaction(seen[g], k)
             r == [proc["tick"] EXCEPT !.at = next, !.reply = k]
  <2>1. /\ proc["tick"].at = "show"
        /\ Return("tick") \/ (proc' = [proc EXCEPT !["tick"] = r] /\ next # "take")
    BY <1>10 DEF Show, At
  <2>2. /\ next \in {"nudge", "ask", "publish", "take", "finish", "mirror"}
        /\ next = "nudge" => seen[g].rec < MaxRecoveries
    BY DEF Reaction, AskAgain, Recovers
  <2> HIDE DEF next, k
  <2>3. r.at = next /\ r.g = g
    BY <1>0 DEF ProcRecord
  <2> HIDE DEF r
  <2> QED
    BY <1>0, <1>1, <2>1, <2>2, <2>3
<1> QED
  BY <1>3, <1>4, <1>5, <1>6, <1>7, <1>8, <1>9, <1>10 DEF Tick
------------------------------------------------------------------------------
(* The updates of the owner.                                                 *)

\* A goal that is not made yet waits for nothing, one with a card's id has a card, and a
\* process that works on a card works on one that is there; past the write, the card has
\* what the process read from the goal's record.
KeptGoals ==
  \A g \in Goals :
    /\ goal[g].st = "none" => ~goal[g].task /\ goal[g].pend = {} /\ goal[g].rec = 0
    /\ goal[g].task => card[g].st # "none"

KeptProcs ==
  \A p \in Procs :
    /\ proc[p].at \in {"write", "unblock", "settle"} => card[proc[p].g].st # "none"
    /\ proc[p].at \in {"unblock", "settle"} => Applied(proc[p].snap) \subseteq card[proc[p].g].body
    /\ p = "tick" /\ proc[p].at = "made" => card[proc[p].g].st # "none" /\ proc[p].reply.st # "none"

KeptInv == KeptGoals /\ KeptProcs

LEMMA KeptGoalsStep ==
  ASSUME TypeOK, Held, KeptInv, [Next]_vars
  PROVE  KeptGoals'
<1>0. CardsStay
  BY CardStep
<1>1. CASE UNCHANGED goal
  BY <1>0, <1>1 DEF KeptInv, KeptGoals, CardsStay
<1>2. ASSUME NEW g \in Goals, Plain(g) \/ Makes(g) \/ Adds(g) \/ Reopens(g) \/ Counts(g)
      PROVE  KeptGoals'
  <2> SUFFICES ASSUME NEW k \in Goals
               PROVE  /\ goal'[k].st = "none" => ~goal'[k].task /\ goal'[k].pend = {} /\ goal'[k].rec = 0
                      /\ goal'[k].task => card'[k].st # "none"
    BY DEF KeptGoals
  <2>1. CASE k # g
    BY <1>0, <1>2, <2>1 DEF KeptInv, KeptGoals, CardsStay, Plain, Makes, Adds, Reopens, Counts, Writes
  <2>2. CASE k = g
    BY <1>0, <1>2, <2>2 DEF KeptInv, KeptGoals, CardsStay, Plain, Makes, Adds, Reopens, Counts
  <2> QED
    BY <2>1, <2>2
<1>3. ASSUME NEW g \in Goals, Records(g) PROVE KeptGoals'
  <2>1. card[g].st # "none" /\ goal'[g].st # "none"
    <3>1. "tick" \in Procs
      BY Basics
    <3>2. CASE At("tick", "find") /\ card[g].st # "none" /\ goal'[g].st = "cancelling"
      BY <3>2
    <3>3. CASE At("tick", "made") /\ goal'[g].st \in {"cancelling", proc["tick"].reply.st}
      BY <1>3, <3>1, <3>3 DEF KeptInv, KeptProcs, Records, At
    <3> QED
      BY <1>3, <3>2, <3>3 DEF Records
  <2> QED
    BY <1>0, <1>3, <2>1 DEF KeptInv, KeptGoals, CardsStay, Records, Writes
<1>4. ASSUME NEW g \in Goals, NEW p \in Procs, Settles(p, g) PROVE KeptGoals'
  BY <1>0, <1>4 DEF KeptInv, KeptGoals, CardsStay, Settles, Writes
<1> QED
  BY <1>1, <1>2, <1>3, <1>4, GoalWriters

LEMMA KeptProcsStep ==
  ASSUME TypeOK, Held, KeptInv, [Next]_vars
  PROVE  KeptProcs'
<1>0. CardsStay
  BY CardStep
<1> SUFFICES ASSUME NEW p \in Procs
             PROVE  /\ proc'[p].at \in {"write", "unblock", "settle"} => card'[proc'[p].g].st # "none"
                    /\ proc'[p].at \in {"unblock", "settle"} =>
                         Applied(proc'[p].snap) \subseteq card'[proc'[p].g].body
                    /\ p = "tick" /\ proc'[p].at = "made" =>
                         card'[proc'[p].g].st # "none" /\ proc'[p].reply.st # "none"
  BY DEF KeptProcs, Applied
<1>1. proc[p].at \in {"write", "unblock", "settle", "flush", "made"} => proc[p].g \in Goals
  BY DEF Held
<1>2. CASE proc'[p] = proc[p]
  BY <1>0, <1>1, <1>2 DEF KeptInv, KeptProcs, CardsStay
<1>3. CASE proc'[p] = Idle
  BY <1>3 DEF Idle
<1>4. CASE p \in Handlers /\ proc'[p].at = "route"
  BY <1>4, Basics
<1>5. CASE p \in Handlers /\ Handler(p)
  BY <1>5, HandlersGo, Basics
<1>6. CASE Shared(p)
  <2>1. CASE proc'[p].at = "write" /\ proc'[p].g = proc[p].g /\ proc[p].at = "flush" /\ goal[proc[p].g].task
    BY <1>0, <1>1, <2>1 DEF KeptInv, KeptGoals, CardsStay
  <2>2. CASE /\ proc'[p].at \in {"unblock", "settle"} /\ proc'[p].g = proc[p].g
             /\ proc'[p].snap = proc[p].snap
             /\ \/ proc[p].at = "write" /\ Applied(proc[p].snap) \subseteq card'[proc[p].g].body
                \/ proc[p].at = "unblock"
    BY <1>0, <1>1, <2>2 DEF KeptInv, KeptProcs, CardsStay
  <2>3. CASE proc'[p].at \in {"idle", "take", "release", "show", "cancelled", "refused"}
    BY <2>3
  <2> QED
    BY <1>6, <2>1, <2>2, <2>3, SharedGoes
<1>7. CASE p = "tick" /\ Tick /\ ~Shared("tick")
  <2>1. CASE /\ proc'["tick"].at = "made" /\ proc'["tick"].reply.st # "none"
             /\ proc'["tick"].g = proc["tick"].g /\ card'[proc["tick"].g].st # "none"
    BY <1>7, <2>1
  <2>2. CASE proc'["tick"].at \notin {"made", "write", "unblock", "settle"}
    BY <1>7, <2>2
  <2> QED
    BY <1>7, <2>1, <2>2, TickGoes
<1> QED
  BY <1>2, <1>3, <1>4, <1>5, <1>6, <1>7, OwnStep

\* A card is made with what the tick took along from the goal.
LEMMA CardsAreMade ==
  ASSUME TypeOK, Held, [Next]_vars, NEW g \in Goals, card[g].st = "none", card'[g].st # "none"
  PROVE  At("tick", "create") /\ proc["tick"].g = g /\ card'[g].body = proc["tick"].snap.body
<1>0. card \in [Goals -> CardRecord] /\ card' # card
  BY DEF TypeOK
<1>1. ASSUME NEW k, UnblockCard(k) PROVE FALSE
  <2> DEFINE c == IF card[k].st = "blocked" THEN [card[k] EXCEPT !.st = "ready", !.why = None]
                  ELSE card[k]
  <2>1. card' = [card EXCEPT ![k] = c]
    BY <1>1 DEF UnblockCard
  <2>2. card[k].st = "none" => c = card[k]
    OBVIOUS
  <2> HIDE DEF c
  <2> QED
    BY <1>0, <2>1, <2>2
<1>2. ASSUME NEW k, NEW st, card' = [card EXCEPT ![k].st = st], card[k].st = "none" => st = "none"
      PROVE  FALSE
  <2> DEFINE c == [card[k] EXCEPT !.st = st]
  <2>1. card' = [card EXCEPT ![k] = c] /\ (k \in Goals => c.st = st)
    BY <1>0, <1>2 DEF CardRecord
  <2> HIDE DEF c
  <2> QED
    BY <1>0, <1>2, <2>1
<1>3. ASSUME NEW h \in Handlers, Handler(h) PROVE FALSE
  <2>1. ReopenCard(h)
    BY <1>0, <1>3 DEF Handler, Pass, Status, ReadAnswer, Append, HeardQuestion, Reopen, CancelItems,
       MarkCancelled, Queue, Clarified
  <2> DEFINE st == IF card[proc[h].g].st = "done" THEN "ready" ELSE card[proc[h].g].st
  <2>2. card' = [card EXCEPT ![proc[h].g].st = st]
    BY <1>0, <2>1 DEF ReopenCard
  <2>3. card[proc[h].g].st = "none" => st = "none"
    OBVIOUS
  <2> HIDE DEF st
  <2> QED
    BY <1>2, <2>2, <2>3
<1>4. ASSUME NEW p \in Procs, Shared(p) PROVE FALSE
  <2> DEFINE k == proc[p].g
  <2>1. CASE WriteUpdates(p)
    <3>1. PICK some : card' = [card EXCEPT ![k].body = @ \cup some]
      BY <2>1 DEF WriteUpdates
    <3> DEFINE c == [card[k] EXCEPT !.body = @ \cup some]
    <3>2. card' = [card EXCEPT ![k] = c] /\ (k \in Goals => c.st = card[k].st)
      BY <1>0, <3>1 DEF CardRecord
    <3> HIDE DEF c
    <3> QED
      BY <1>0, <3>2
  <2>2. CASE Unblock(p)
    BY <1>0, <1>1, <2>2 DEF Unblock
  <2>3. CASE CancelCard(p)
    <3> DEFINE st == IF card[k].st = "none" THEN "none" ELSE "archived"
    <3>1. card' = [card EXCEPT ![k].st = st]
      BY <1>0, <2>3 DEF CancelCard
    <3>2. card[k].st = "none" => st = "none"
      OBVIOUS
    <3> HIDE DEF st
    <3> QED
      BY <1>2, <3>1, <3>2
  <2>4. CASE ReadUpdates(p) \/ Settle(p) \/ EndCancel(p)
    BY <1>0, <2>4 DEF ReadUpdates, Settle, EndCancel
  <2> QED
    BY <1>4, <2>1, <2>2, <2>3, <2>4 DEF Shared
<1>5. CASE Create
  <2> DEFINE k == proc["tick"].g
             made == CreatedCard(k)
  <2>1. At("tick", "create") /\ card' = [card EXCEPT ![k] = made]
    BY <1>0, <1>5 DEF Create
  <2>2. card[k].st = "none" => made.body = proc["tick"].snap.body
    BY DEF CreatedCard
  <2> HIDE DEF made
  <2> QED
    BY <1>0, <2>1, <2>2
<1>6. CASE Tick /\ ~Create
  <2>1. Nudge \/ Shared("tick")
    BY <1>0, <1>6 DEF Tick, TickStart, TickTake, TickEnd, Find, Claim, Unmade, Made, Show, Nudged,
       Ask, Finish, Mirror, Publish
  <2>2. CASE Nudge
    BY <1>0, <1>1, <2>2 DEF Nudge
  <2> QED
    BY <1>4, <2>1, <2>2, Basics
<1>7. ASSUME NEW k \in Goals, Work(k) \/ ArchiveCard(k) PROVE FALSE
  <2>1. card[k].st # "none" /\ \E c : card' = [card EXCEPT ![k] = c]
    BY <1>7 DEF Work, ArchiveCard
  <2> QED
    BY <1>0, <2>1
<1>8. ASSUME NEW k \in Goals, WindowPasses(k) \/ OwnerHears(k) PROVE FALSE
  BY <1>0, <1>8 DEF WindowPasses, OwnerHears
<1>9. ~(Crash \/ UNCHANGED vars)
  BY <1>0 DEF Crash, vars
<1>10. ASSUME NEW h \in Handlers, NEW m \in Msgs, NEW k \in Goals \cup {None}, Hear(h, m, k)
       PROVE  FALSE
  BY <1>0, <1>10 DEF Hear
<1> QED
  BY <1>3, <1>4, <1>5, <1>6, <1>7, <1>8, <1>9, <1>10, Basics DEF Next

\* The tick comes to create a card with all the owner has said to the goal by then.
LEMMA CreatesWhatWasSaid ==
  ASSUME TypeOK, Held, [Next]_vars, proc'["tick"].at = "create", proc'["tick"].g \in Goals
  PROVE  \/ proc'["tick"] = proc["tick"]
         \/ proc'["tick"].snap.body = goal'[proc'["tick"].g].body
<1>0. "tick" \in Procs /\ goal \in [Goals -> GoalRecord] /\ proc \in [Procs -> ProcRecord]
  BY Basics DEF TypeOK
<1>1. ASSUME Tick PROVE Claim
  <2>1. CASE Shared("tick")
    BY <1>0, <2>1, SharedGoes
  <2> QED
    BY <1>1, <2>1, TickGoes
<1>2. ASSUME Claim PROVE proc'["tick"].snap.body = goal'[proc'["tick"].g].body
  <2> DEFINE g == proc["tick"].g
             claimed == [goal[g] EXCEPT !.st = IF @ = "queued" THEN "releasing" ELSE @]
             r == [proc["tick"] EXCEPT !.at = "create", !.snap = claimed]
  <2>1. ~Return("tick")
    BY <1>0, ReturnEffect
  <2>2. Update(g, claimed) /\ proc' = [proc EXCEPT !["tick"] = r]
    BY <1>2, <2>1 DEF Claim
  <2> HIDE DEF claimed
  <2>3. r.snap = claimed /\ r.g = g
    BY <1>0 DEF ProcRecord
  <2> HIDE DEF r
  <2>4. proc'["tick"].snap = claimed /\ proc'["tick"].g = g
    BY <1>0, <2>2, <2>3
  <2> QED
    BY <1>0, <2>2, <2>4 DEF Update
<1> QED
  BY <1>0, <1>1, <1>2, OwnStep, Basics DEF Idle

LEMMA GoalsStayMade ==
  ASSUME TypeOK, Held, KeptInv, [Next]_vars, NEW g \in Goals, goal[g].st # "none"
  PROVE  goal'[g].st # "none"
<1>1. CASE UNCHANGED goal
  BY <1>1
<1>2. ASSUME NEW k \in Goals, \/ Plain(k) \/ Makes(k) \/ Adds(k) \/ Reopens(k) \/ Counts(k)
                             \/ \E p \in Procs : Settles(p, k)
      PROVE  goal'[g].st # "none"
  BY <1>2 DEF Plain, Makes, Adds, Reopens, Counts, Settles, Writes
<1>3. ASSUME NEW k \in Goals, Records(k) PROVE goal'[g].st # "none"
  BY <1>3, Basics DEF Records, Writes, KeptInv, KeptProcs, At
<1> QED
  BY <1>1, <1>2, <1>3, GoalWriters

LEMMA KeptStep ==
  ASSUME TypeOK, Held, KeptInv, [Next]_vars
  PROVE  \A g \in Goals : Waiting(g) \ Waiting(g)' \subseteq card'[g].body
<1> SUFFICES ASSUME NEW g \in Goals PROVE Waiting(g) \ Waiting(g)' \subseteq card'[g].body
  OBVIOUS
<1>1. ASSUME NEW u \in goal[g].pend, u.m \notin Applied(goal'[g]) PROVE u.m \in card'[g].body
  <2>1. ASSUME goal[g].pend \subseteq goal'[g].pend PROVE FALSE
    BY <1>1, <2>1 DEF Applied
  <2>2. CASE UNCHANGED goal
    BY <2>1, <2>2
  <2>3. ASSUME NEW k \in Goals, Plain(k) \/ Makes(k) \/ Adds(k) \/ Reopens(k) \/ Counts(k) \/ Records(k)
        PROVE  FALSE
    <3>1. goal[k].st = "none" => goal[k].pend = {}
      BY DEF KeptInv, KeptGoals
    <3>2. goal[g].pend \subseteq goal'[g].pend
      BY <2>3, <3>1 DEF Plain, Makes, Adds, Reopens, Counts, Records, Writes
    <3> QED
      BY <2>1, <3>2
  <2>4. ASSUME NEW k \in Goals, NEW p \in Procs, Settles(p, k) PROVE u.m \in card'[g].body
    <3>1. CASE k # g
      BY <2>1, <2>4, <3>1 DEF Settles, Writes
    <3>2. CASE k = g
      <4>1. u \notin goal'[g].pend
        BY <1>1 DEF Applied
      <4>2. u.m \in Applied(proc[p].snap) /\ proc[p].at = "settle" /\ proc[p].g = g /\ card' = card
        BY <2>4, <3>2, <4>1 DEF Settles, At
      <4> QED
        BY <4>2 DEF KeptInv, KeptProcs
    <3> QED
      BY <3>1, <3>2
  <2> QED
    BY <2>2, <2>3, <2>4, GoalWriters
<1>2. ASSUME NEW m \in goal[g].body, goal[g].st # "none", card[g].st = "none",
             At("tick", "create") /\ proc["tick"].g = g => m \in proc["tick"].snap.body
      PROVE  m \in Waiting(g)' \/ m \in card'[g].body
  <2>1. m \in goal'[g].body /\ goal'[g].st # "none"
    BY <1>2, BodyStep, GoalsStayMade DEF BodiesGrow
  <2>2. CASE card'[g].st # "none"
    <3>1. At("tick", "create") /\ proc["tick"].g = g /\ card'[g].body = proc["tick"].snap.body
      BY <1>2, <2>2, CardsAreMade
    <3> QED
      BY <1>2, <3>1
  <2>3. CASE card'[g].st = "none" /\ ~(proc'["tick"].at = "create" /\ proc'["tick"].g = g)
    BY <2>1, <2>3 DEF Waiting, At
  <2>4. CASE card'[g].st = "none" /\ proc'["tick"].at = "create" /\ proc'["tick"].g = g
    <3>1. m \in proc'["tick"].snap.body
      BY <1>2, <2>1, <2>4, CreatesWhatWasSaid DEF At
    <3> QED
      BY <2>1, <2>4, <3>1 DEF Waiting, At
  <2> QED
    BY <2>2, <2>3, <2>4
<1> QED
  BY <1>1, <1>2 DEF Waiting, Applied

\* What the owner adds to a goal waits no more only when it is on the card, which it comes
\* to when the card is made or by an update of it, however many handlers flush beside the
\* tick, and whatever fails (release, flushOwnerUpdates).
THEOREM UpdatesKept == Spec => UpdatesAreKept
<1>1. Init => KeptInv
  BY Basics DEF Init, KeptInv, KeptGoals, KeptProcs, NoGoal, Idle
<1>2. TypeOK /\ Held /\ KeptInv /\ [Next]_vars => KeptInv'
  BY KeptGoalsStep, KeptProcsStep DEF KeptInv
<1>3. TypeOK /\ Held /\ KeptInv /\ [Next]_vars =>
        [\A g \in Goals : Waiting(g) \ Waiting(g)' \subseteq card'[g].body]_vars
  BY KeptStep
<1> QED
  BY <1>1, <1>2, <1>3, TypeCorrect, PTL DEF Spec, UpdatesAreKept
------------------------------------------------------------------------------
(* The restarts of a worker.                                                 *)

\* The troubles there have been.
Spent == MaxTroubles - budget.troubles

\* The tick has woken g and has not counted it yet.
Nudging(g) == proc["tick"].at = "nudged" /\ proc["tick"].g = g

Working == proc["tick"].at \notin {"idle", "route", "take"}

\* The tick has still to look at g, or may still wake it.
Listed(g) == g \in todo \/ (Working /\ proc["tick"].g = g /\ proc["tick"].at # "nudged")

\* A restart is in the goal's count, or the tick is about to write it, or there was a
\* trouble; and as long as the tick may wake a goal, it was not woken beyond the count
\* the tick listed.
BoundInv ==
  /\ \A g \in Goals : goal[g].rec <= MaxRecoveries
  /\ \A g \in Goals : ~Nudging(g) => woke[g] <= goal[g].rec + Spent
  /\ \A g \in Goals : Nudging(g) => woke[g] <= goal[g].rec + Spent + 1
  /\ \A g \in Goals : Listed(g) => woke[g] <= seen[g].rec + Spent
  /\ \A g \in Goals : Nudging(g) => woke[g] <= seen[g].rec + Spent + 1
  /\ proc["tick"].at \in {"nudge", "nudged"} => seen[proc["tick"].g].rec < MaxRecoveries
  /\ Working => proc["tick"].g \notin todo

LEMMA TroublesAdd ==
  ASSUME TypeOK, [Next]_vars
  PROVE  /\ Spent \in Nat /\ Spent' \in Nat /\ Spent <= Spent'
         /\ Fails => Spent' = Spent + 1
<1>1. budget \in [deliveries : 0 .. MaxDeliveries, troubles : 0 .. MaxTroubles]
      /\ MaxTroubles \in Nat /\ MaxDeliveries \in Nat
  BY BrokerAssumption DEF TypeOK
<1>2. CASE UNCHANGED budget
  BY <1>1, <1>2 DEF Spent, Fails, Spend
<1>3. CASE Spend("deliveries")
  BY <1>1, <1>3 DEF Spent, Fails, Spend
<1>4. CASE Spend("troubles")
  BY <1>1, <1>4 DEF Spent, Fails, Spend
<1> QED
  BY <1>2, <1>3, <1>4, BudgetWriters

\* The tick moves by its own actions, or the box restarts.
LEMMA TickStays ==
  ASSUME TypeOK, Held, [Next]_vars
  PROVE  proc'["tick"] = proc["tick"] \/ Tick \/ Crash
<1>0. proc \in [Procs -> ProcRecord] /\ "tick" \in Procs /\ Handlers \subseteq Procs /\ "tick" \notin Handlers
  BY Basics DEF TypeOK
<1>1. ASSUME NEW h \in Handlers, Handler(h) \/ Shared(h) PROVE proc'["tick"] = proc["tick"]
  BY <1>0, <1>1, HandlersMove, SharedMoves DEF Moves, Only
<1>2. ASSUME NEW h \in Handlers, NEW m \in Msgs, NEW g \in Goals \cup {None}, Hear(h, m, g)
      PROVE  proc'["tick"] = proc["tick"]
  BY <1>0, <1>2 DEF Hear
<1>3. ASSUME NEW g \in Goals, WindowPasses(g) \/ Work(g) \/ ArchiveCard(g) \/ OwnerHears(g)
      PROVE  UNCHANGED proc
  BY <1>3 DEF WindowPasses, Work, ArchiveCard, OwnerHears
<1> QED
  BY <1>1, <1>2, <1>3 DEF Next, vars

LEMMA NudgeEffect ==
  ASSUME TypeOK, Held, Nudge
  PROVE  /\ proc["tick"].at = "nudge" /\ UNCHANGED <<goal, todo, seen>>
         /\ proc'["tick"].at \in {"nudged", "take"}
         /\ proc'["tick"].at = "nudged" => proc'["tick"].g = proc["tick"].g
         /\ \A g \in Goals \ {proc["tick"].g} : woke'[g] = woke[g]
         /\ \A g \in Goals : g = proc["tick"].g =>
              \/ woke'[g] = woke[g]
              \/ woke'[g] = woke[g] + 1 /\ (proc'["tick"].at = "nudged" \/ Fails)
<1> DEFINE g == proc["tick"].g
<1>0. /\ "tick" \in Procs /\ proc \in [Procs -> ProcRecord] /\ woke \in [Goals -> Nat]
      /\ proc["tick"].at = "nudge" /\ UNCHANGED <<goal, todo, seen>>
  BY Basics DEF TypeOK, Nudge, At, ticking
<1>1. Return("tick") => proc'["tick"].at = "take"
  BY <1>0, ReturnEffect
<1>2. GoTo("tick", "nudged") => proc'["tick"].at = "nudged" /\ proc'["tick"].g = g
  BY <1>0, GoToEffect DEF Points
<1>3. \/ Return("tick") /\ Fails
      \/ Return("tick") /\ card[g].st # "blocked"
      \/ GoTo("tick", "nudged")
  BY DEF Nudge
<1>4. woke' = woke \/ woke' = [woke EXCEPT ![g] = @ + IF card[g].st = "blocked" THEN 1 ELSE 0]
  BY DEF Nudge
<1>5. \A k \in Goals \ {g} : woke'[k] = woke[k]
  BY <1>0, <1>4
<1>6. g \in Goals =>
        \/ woke'[g] = woke[g]
        \/ woke'[g] = woke[g] + 1 /\ card[g].st = "blocked"
  <2>1. CASE card[g].st = "blocked"
    BY <1>0, <1>4, <2>1
  <2>2. CASE card[g].st # "blocked"
    <3>1. woke' = woke \/ woke' = [woke EXCEPT ![g] = @ + 0]
      BY <1>4, <2>2
    <3> QED
      BY <1>0, <3>1
  <2> QED
    BY <2>1, <2>2
<1> QED
  BY <1>0, <1>1, <1>2, <1>3, <1>5, <1>6

\* What a step does to the count of a goal, and to its restarts.
LEMMA CountStep ==
  ASSUME TypeOK, Held, KeptInv, [Next]_vars, NEW g \in Goals
  PROVE  \/ goal'[g].rec = goal[g].rec /\ woke'[g] = woke[g]
         \/ goal'[g].rec = 0 /\ woke'[g] = 0
         \/ Nudging(g) /\ goal'[g].rec = seen[g].rec + 1 /\ woke'[g] = woke[g]
         \/ Nudge /\ proc["tick"].g = g /\ goal'[g].rec = goal[g].rec
<1>0. goal \in [Goals -> GoalRecord] /\ woke \in [Goals -> Nat]
  BY DEF TypeOK
<1>1. CASE UNCHANGED <<goal, woke>>
  BY <1>1
<1>2. CASE Nudge /\ UNCHANGED goal
  BY <1>2, NudgeEffect
<1>3. ASSUME NEW k \in Goals, Adds(k)
      PROVE  \/ goal'[g].rec = goal[g].rec /\ woke'[g] = woke[g]
             \/ goal'[g].rec = 0 /\ woke'[g] = 0
  <2>1. CASE k # g
    BY <1>0, <1>3, <2>1 DEF Adds, Writes
  <2>2. CASE k = g
    BY <1>0, <1>3, <2>2 DEF Adds
  <2> QED
    BY <2>1, <2>2
<1>4. ASSUME NEW k \in Goals, UNCHANGED woke, Counts(k)
      PROVE  \/ goal'[g].rec = goal[g].rec /\ woke'[g] = woke[g]
             \/ Nudging(g) /\ goal'[g].rec = seen[g].rec + 1 /\ woke'[g] = woke[g]
  <2>1. CASE k # g
    BY <1>4, <2>1 DEF Counts, Writes
  <2>2. CASE k = g
    BY <1>4, <2>2 DEF Counts, Nudging, At
  <2> QED
    BY <2>1, <2>2
<1>5. ASSUME NEW k \in Goals, UNCHANGED woke,
             Plain(k) \/ Makes(k) \/ Reopens(k) \/ Records(k) \/ \E p \in Procs : Settles(p, k)
      PROVE  goal'[g].rec = goal[g].rec /\ woke'[g] = woke[g]
  <2>1. goal[k].st = "none" => goal[k].rec = 0
    BY DEF KeptInv, KeptGoals
  <2>2. CASE k # g
    BY <1>5, <2>2 DEF Plain, Makes, Reopens, Records, Settles, Writes
  <2>3. CASE k = g
    BY <1>5, <2>1, <2>3 DEF Plain, Makes, Reopens, Records, Settles
  <2> QED
    BY <2>2, <2>3
<1> QED
  BY <1>1, <1>2, <1>3, <1>4, <1>5, GoalWriters
\* What the tick works on next: a goal of its list, or the same goal.
LEMMA WorkStep ==
  ASSUME TypeOK, Held, [Next]_vars, Working'
  PROVE  /\ UNCHANGED seen
         /\ \/ proc'["tick"] = proc["tick"] /\ UNCHANGED todo /\ ~Nudge
            \/ /\ proc'["tick"].g \in todo /\ todo' = todo \ {proc'["tick"].g}
               /\ proc["tick"].at = "take" /\ proc'["tick"].at \notin {"nudge", "nudged"}
            \/ /\ proc'["tick"].g = proc["tick"].g /\ UNCHANGED todo
               /\ Working /\ proc["tick"].at # "nudged"
               /\ \/ proc'["tick"].at \notin {"nudge", "nudged"} /\ ~Nudge
                  \/ proc'["tick"].at = "nudge" /\ seen[proc["tick"].g].rec < MaxRecoveries /\ ~Nudge
                  \/ proc'["tick"].at = "nudged" /\ Nudge
<1>0. /\ proc \in [Procs -> ProcRecord] /\ "tick" \in Procs
      /\ proc'["tick"].at \notin {"idle", "route", "take"}
  BY Basics DEF TypeOK, Working
<1>1. ~TickStart
  <2> SUFFICES ASSUME TickStart PROVE FALSE
    OBVIOUS
  <2>1. proc' = [proc EXCEPT !["tick"] = [proc["tick"] EXCEPT !.at = "take"]]
    BY DEF TickStart
  <2>2. [proc["tick"] EXCEPT !.at = "take"].at = "take"
    BY <1>0 DEF ProcRecord
  <2> QED
    BY <1>0, <2>1, <2>2
<1>2. UNCHANGED <<todo, seen>> \/ TickTake
  <2>1. ~Return("tick")
    BY <1>0, ReturnEffect
  <2>2. proc' # [proc EXCEPT !["tick"] = Idle]
    BY <1>0 DEF Idle
  <2> QED
    BY <1>0, <1>1, <2>1, <2>2, ListWriters
<1>3. TickTake => proc["tick"].at = "take" /\ UNCHANGED seen
  BY DEF TickTake, At
<1>4. CASE proc'["tick"] = proc["tick"]
  BY <1>0, <1>2, <1>3, <1>4, NudgeEffect
<1>5. CASE Tick /\ proc'["tick"] # proc["tick"]
  <2>1. CASE Shared("tick")
    <3>1. /\ proc'["tick"].g = proc["tick"].g /\ Working /\ proc["tick"].at \notin {"take", "nudge", "nudged"}
          /\ proc'["tick"].at \notin {"nudge", "nudged"}
      BY <1>0, <2>1, SharedGoes DEF Working
    <3> QED
      BY <1>2, <1>3, <3>1, NudgeEffect
  <2>2. CASE ~Shared("tick")
    <3>1. CASE /\ TickTake /\ todo' = todo \ {proc'["tick"].g} /\ proc'["tick"].g \in todo
               /\ proc'["tick"].at \in {"find", "cancel", "flush", "release", "show"}
      BY <1>3, <3>1
    <3>2. CASE /\ proc'["tick"].g = proc["tick"].g
               /\ proc["tick"].at \notin {"idle", "route", "take", "nudged"}
      <4>1. UNCHANGED <<todo, seen>> /\ Working /\ proc["tick"].at # "nudged"
        BY <1>2, <1>3, <3>2 DEF Working
      <4>2. Nudge => proc'["tick"].at = "nudged"
        BY <1>0, NudgeEffect
      <4>3. proc["tick"].at = "nudge" => Nudge
        BY <1>5, <2>2 DEF Tick, TickStart, TickTake, TickEnd, Find, Claim, Create, Unmade, Made, Show,
           Nudged, Ask, Finish, Mirror, Publish, At
      <4>4. \/ proc'["tick"].at \notin {"nudge", "nudged"}
            \/ proc'["tick"].at = "nudge" /\ seen[proc["tick"].g].rec < MaxRecoveries
            \/ proc'["tick"].at = "nudged" /\ proc["tick"].at = "nudge"
        BY <1>0, <1>5, <2>2, TickGoes
      <4> QED
        BY <3>2, <4>1, <4>2, <4>3, <4>4
    <3> QED
      BY <1>0, <1>5, <2>2, <3>1, <3>2, TickGoes
  <2> QED
    BY <2>1, <2>2
<1>6. CASE Crash
  BY <1>0, <1>6 DEF Crash, Idle
<1> QED
  BY <1>4, <1>5, <1>6, TickStays

\* A goal is listed by a tick that starts, or was listed before, and is not woken now.
LEMMA ListedStep ==
  ASSUME TypeOK, Held, [Next]_vars, Working => proc["tick"].g \notin todo,
         NEW g \in Goals, Listed(g)'
  PROVE  TickStart \/ (Listed(g) /\ UNCHANGED seen /\ ~(Nudge /\ proc["tick"].g = g))
<1>1. CASE Working' /\ proc'["tick"].g = g /\ proc'["tick"].at # "nudged"
  BY <1>1, WorkStep, NudgeEffect DEF Listed, Working
<1>2. CASE g \in todo'
  <2>1. TickStart \/ (g \in todo /\ UNCHANGED seen)
    BY <1>2, ListWriters DEF TickTake
  <2>2. Nudge => Working
    BY NudgeEffect DEF Working
  <2> QED
    BY <2>1, <2>2 DEF Listed
<1> QED
  BY <1>1, <1>2 DEF Listed

LEMMA NudgingStep ==
  ASSUME TypeOK, Held, [Next]_vars, NEW g \in Goals, Nudging(g)'
  PROVE  /\ UNCHANGED seen
         /\ \/ Nudging(g) /\ ~Nudge
            \/ Nudge /\ proc["tick"].g = g
<1>1. Working' /\ proc'["tick"].at = "nudged" /\ proc'["tick"].g = g
  BY DEF Nudging, Working
<1> QED
  BY <1>1, WorkStep DEF Nudging

LEMMA NudgingEnds ==
  ASSUME TypeOK, Held, [Next]_vars, NEW g \in Goals, Nudging(g)
  PROVE  Nudging(g)' \/ Fails \/ (goal'[g].rec = seen[g].rec + 1 /\ woke'[g] = woke[g])
<1>1. CASE proc'["tick"] = proc["tick"]
  BY <1>1 DEF Nudging
<1>2. CASE Crash
  BY <1>2 DEF Crash, Fails
<1>3. CASE Tick
  <2>1. Nudged
    BY <1>3 DEF Nudging, Tick, Shared, ReadUpdates, WriteUpdates, Unblock, Settle, CancelCard, EndCancel,
       TickStart, TickTake, TickEnd, Find, Claim, Create, Unmade, Made, Show, Nudge, Ask, Finish, Mirror,
       Publish, At
  <2> DEFINE r == [goal[g] EXCEPT !.rec = seen[g].rec + 1, !.st = "ready", !.lk = "ready"]
  <2>2. goal' = [goal EXCEPT ![g] = r] /\ woke' = woke
    BY <2>1 DEF Nudging, Nudged, Update
  <2>3. r.rec = seen[g].rec + 1 /\ goal \in [Goals -> GoalRecord]
    BY DEF TypeOK, GoalRecord
  <2> HIDE DEF r
  <2> QED
    BY <2>2, <2>3
<1> QED
  BY <1>1, <1>2, <1>3, TickStays
LEMMA BoundInit ==
  ASSUME Init PROVE BoundInv
<1>1. /\ Spent = 0 /\ MaxRecoveries \in Nat /\ todo = {} /\ proc["tick"].at = "idle"
      /\ \A g \in Goals : goal[g].rec = 0 /\ woke[g] = 0
  BY Basics, BrokerAssumption DEF Init, Spent, NoGoal, Idle
<1> QED
  BY <1>1 DEF BoundInv, Nudging, Listed, Working

LEMMA BoundStep ==
  ASSUME TypeOK, Held, KeptInv, BoundInv, [Next]_vars
  PROVE  BoundInv'
<1>0. /\ Spent \in Nat /\ Spent' \in Nat /\ Spent <= Spent' /\ MaxRecoveries \in Nat
      /\ Fails => Spent' = Spent + 1
  BY TroublesAdd, BrokerAssumption
<1>1. /\ \A g \in Goals : goal[g].rec \in Nat /\ goal'[g].rec \in Nat /\ seen[g].rec \in Nat
                          /\ seen'[g].rec \in Nat /\ woke[g] \in Nat /\ woke'[g] \in Nat
      /\ proc'["tick"].at \notin {"idle", "route", "take"} => proc'["tick"].g \in Goals
      /\ proc["tick"].at \notin {"idle", "route", "take"} => proc["tick"].g \in Goals
      /\ todo \subseteq Goals /\ todo' \subseteq Goals
  BY TypeStep, Basics DEF TypeOK, GoalRecord, Held
<1>2. ASSUME NEW g \in Goals PROVE goal'[g].rec <= MaxRecoveries
  <2>1. Nudging(g) => seen[g].rec + 1 <= MaxRecoveries
    BY <1>0, <1>1 DEF BoundInv, Nudging
  <2> QED
    BY <1>0, <1>1, <2>1, CountStep DEF BoundInv
<1>3. Working' => proc'["tick"].g \notin todo'
  <2> SUFFICES ASSUME Working' PROVE proc'["tick"].g \notin todo'
    OBVIOUS
  <2>1. CASE proc'["tick"] = proc["tick"] /\ UNCHANGED todo
    BY <2>1 DEF BoundInv, Working
  <2>2. CASE todo' = todo \ {proc'["tick"].g}
    BY <2>2
  <2>3. CASE proc'["tick"].g = proc["tick"].g /\ UNCHANGED todo /\ Working
    BY <2>3 DEF BoundInv
  <2> QED
    BY <2>1, <2>2, <2>3, WorkStep
<1>4. proc'["tick"].at \in {"nudge", "nudged"} => seen'[proc'["tick"].g].rec < MaxRecoveries
  <2> SUFFICES ASSUME proc'["tick"].at \in {"nudge", "nudged"}
               PROVE  seen'[proc'["tick"].g].rec < MaxRecoveries
    OBVIOUS
  <2>1. Working'
    BY DEF Working
  <2>2. CASE proc'["tick"] = proc["tick"] /\ UNCHANGED seen
    BY <2>2 DEF BoundInv
  <2>3. CASE /\ proc'["tick"].g = proc["tick"].g /\ UNCHANGED seen
             /\ (seen[proc["tick"].g].rec < MaxRecoveries \/ Nudge)
    BY <2>3, NudgeEffect DEF BoundInv
  <2> QED
    BY <2>1, <2>2, <2>3, WorkStep
<1>5. ASSUME NEW g \in Goals, Listed(g)' PROVE woke'[g] <= seen'[g].rec + Spent'
  <2>1. CASE TickStart
    <3>1. /\ seen' = goal /\ woke' = woke /\ ~Nudging(g)
      BY <2>1 DEF TickStart, At, Nudging
    <3> QED
      BY <1>0, <1>1, <3>1 DEF BoundInv
  <2>2. CASE Listed(g) /\ UNCHANGED seen /\ ~(Nudge /\ proc["tick"].g = g)
    <3>1. woke[g] <= seen[g].rec + Spent
      BY <2>2 DEF BoundInv
    <3>2. woke'[g] = woke[g] \/ woke'[g] = 0
      BY <2>2, CountStep
    <3> QED
      BY <1>0, <1>1, <2>2, <3>1, <3>2
  <2> QED
    BY <1>5, <2>1, <2>2, ListedStep DEF BoundInv
<1>6. ASSUME NEW g \in Goals, Nudge, proc["tick"].g = g
      PROVE  /\ woke[g] <= goal[g].rec + Spent /\ woke[g] <= seen[g].rec + Spent
             /\ \/ woke'[g] = woke[g]
                \/ woke'[g] = woke[g] + 1 /\ (Nudging(g)' \/ Fails)
  <2>1. proc["tick"].at = "nudge"
    BY <1>6, NudgeEffect
  <2>2. ~Nudging(g) /\ Listed(g)
    BY <1>6, <2>1 DEF Nudging, Listed, Working
  <2> QED
    BY <1>6, <2>2, NudgeEffect DEF BoundInv, Nudging
<1>7. ASSUME NEW g \in Goals, Nudging(g)'
      PROVE  woke'[g] <= seen'[g].rec + Spent' + 1
  <2>1. CASE Nudging(g) /\ ~Nudge /\ UNCHANGED seen
    <3>1. woke[g] <= seen[g].rec + Spent + 1
      BY <2>1 DEF BoundInv
    <3>2. woke'[g] = woke[g] \/ woke'[g] = 0
      BY <2>1, CountStep
    <3> QED
      BY <1>0, <1>1, <2>1, <3>1, <3>2
  <2>2. CASE Nudge /\ proc["tick"].g = g /\ UNCHANGED seen
    BY <1>0, <1>1, <1>6, <2>2
  <2> QED
    BY <1>7, <2>1, <2>2, NudgingStep
<1>8. ASSUME NEW g \in Goals, ~Nudging(g)' PROVE woke'[g] <= goal'[g].rec + Spent'
  <2>1. CASE Nudging(g)
    <3>1. CASE Fails
      <4>1. woke[g] <= goal[g].rec + Spent + 1 /\ woke[g] <= seen[g].rec + Spent + 1
            /\ Spent' = Spent + 1
        BY <1>0, <2>1, <3>1 DEF BoundInv
      <4>2. ~Nudge
        BY <2>1, NudgeEffect DEF Nudging
      <4> QED
        BY <1>0, <1>1, <4>1, <4>2, CountStep
    <3>2. CASE goal'[g].rec = seen[g].rec + 1 /\ woke'[g] = woke[g]
      <4>1. woke[g] <= seen[g].rec + Spent + 1
        BY <2>1 DEF BoundInv
      <4> QED
        BY <1>0, <1>1, <3>2, <4>1
    <3> QED
      BY <1>8, <2>1, <3>1, <3>2, NudgingEnds
  <2>2. CASE Nudge /\ proc["tick"].g = g /\ goal'[g].rec = goal[g].rec
    BY <1>0, <1>1, <1>6, <1>8, <2>2
  <2>3. CASE ~Nudging(g) /\ ~(Nudge /\ proc["tick"].g = g)
    <3>1. woke[g] <= goal[g].rec + Spent
      BY <2>3 DEF BoundInv
    <3> QED
      BY <1>0, <1>1, <2>3, <3>1, CountStep
  <2> QED
    BY <2>1, <2>2, <2>3, NudgeEffect
<1>9. ASSUME NEW g \in Goals, Nudging(g)' PROVE woke'[g] <= goal'[g].rec + Spent' + 1
  <2>1. CASE Nudging(g) /\ ~Nudge
    <3>1. woke[g] <= goal[g].rec + Spent + 1 /\ woke[g] <= seen[g].rec + Spent + 1
      BY <2>1 DEF BoundInv
    <3> QED
      BY <1>0, <1>1, <2>1, <3>1, CountStep
  <2>2. CASE Nudge /\ proc["tick"].g = g
    <3>1. goal' = goal
      BY <2>2, NudgeEffect
    <3> QED
      BY <1>0, <1>1, <1>6, <2>2, <3>1
  <2> QED
    BY <1>9, <2>1, <2>2, NudgingStep
<1> QED
  BY <1>2, <1>3, <1>4, <1>5, <1>7, <1>8, <1>9 DEF BoundInv

\* However the restarts of a worker, the answers of the owner and the ticks interleave,
\* a worker that stops is restarted at most MaxRecoveries times before the owner says
\* something, and once more for each trouble (autoRecover, appendOwnerUpdate).
THEOREM RestartsBounded == Spec => []RestartsAreBounded
<1>1. Init => KeptInv /\ BoundInv
  BY BoundInit, Basics DEF Init, KeptInv, KeptGoals, KeptProcs, NoGoal, Idle
<1>2. TypeOK /\ Held /\ KeptInv /\ BoundInv /\ [Next]_vars => KeptInv' /\ BoundInv'
  BY KeptGoalsStep, KeptProcsStep, BoundStep DEF KeptInv
<1>3. TypeOK /\ Held /\ BoundInv => RestartsAreBounded
  <2> SUFFICES ASSUME TypeOK, Held, BoundInv, NEW g \in Goals
               PROVE  woke[g] <= MaxRecoveries + (MaxTroubles - budget.troubles)
    BY DEF RestartsAreBounded
  <2>1. /\ woke[g] \in Nat /\ goal[g].rec \in Nat /\ seen[g].rec \in Nat /\ MaxRecoveries \in Nat
        /\ budget.troubles \in 0 .. MaxTroubles /\ MaxTroubles \in Nat
    BY BrokerAssumption DEF TypeOK, GoalRecord
  <2>2. CASE Nudging(g)
    <3>1. woke[g] <= seen[g].rec + Spent + 1 /\ seen[g].rec < MaxRecoveries
      BY <2>2 DEF BoundInv, Nudging
    <3> QED
      BY <2>1, <3>1 DEF Spent
  <2>3. CASE ~Nudging(g)
    BY <2>1, <2>3 DEF BoundInv, Spent
  <2> QED
    BY <2>2, <2>3
<1> QED
  BY <1>1, <1>2, <1>3, TypeCorrect, PTL DEF Spec
==============================================================================
