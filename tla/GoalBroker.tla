------------------------------ MODULE GoalBroker ------------------------------
(***************************************************************************)
(* The goal broker (realtimeGoals/broker.ts): the owner's requests, each   *)
(* a goal in state.json and, once its commit window is over, a card on the *)
(* Kanban board that a worker executes.                                    *)
(*                                                                         *)
(* Processes: the lifecycle tick, which walks the goals it listed when it  *)
(* began, and the handlers of the owner's messages.  Every await of the    *)
(* code is a boundary between two actions; what the code reads before an   *)
(* await and uses after it is kept in seen and in proc[p].snap.  A store   *)
(* transaction is atomic (store.ts).                                       *)
(*                                                                         *)
(* Named abstractions: the owner writes from one session; the router may   *)
(* take any decision its inputs allow; the pointer to the active goal,     *)
(* titles and replies are left out; delivery commands take the path of an  *)
(* update; a stall has one text per goal (stalledOwnerMessage).            *)
(***************************************************************************)
EXTENDS Integers, FiniteSets

CONSTANTS Goals,          \* in the order of their creation
          Msgs,           \* the owner's messages, by source id
          Questions,      \* what a worker may ask
          Results,        \* what a worker may return
          Handlers,       \* handlers of owner messages that run at once
          MaxRecoveries,  \* MAX_AUTO_RECOVERIES
          MaxDeliveries,  \* bound: messages that arrive, redeliveries included
          MaxTroubles,    \* bound: Kanban calls that fail and restarts of the box
          None

ASSUME BrokerAssumption ==
  /\ Goals \subseteq Nat /\ IsFiniteSet(Goals) /\ IsFiniteSet(Msgs)
  /\ MaxRecoveries \in Nat /\ MaxDeliveries \in Nat /\ MaxTroubles \in Nat
  /\ None \notin Msgs /\ "tick" \notin Handlers
  /\ {None, "stalled", "system", "failed"} \cap (Questions \cup Results) = {}
  /\ Questions \cap Results = {} /\ None \notin {"stalled", "system", "failed"}

VARIABLES
  goal,    \* goal[g]: the record of state.json, as GoalRecord
  card,    \* card[g]: the card of g on the Kanban board, as CardRecord
  item,    \* item[g][c]: g's outbox item with content c
  proc,    \* proc[p]: where process p is suspended, and what it holds
  todo,    \* the goals the tick has still to walk
  seen,    \* the goals as the tick listed them
  woke,    \* history: restarts of g's worker by autoRecover since the owner's answer
  budget   \* the deliveries and troubles left

ticking == <<todo, seen>>
vars == <<goal, card, item, proc, ticking, woke, budget>>

------------------------------------------------------------------------------
Procs == Handlers \cup {"tick"}

Statuses == {"none", "clarifying", "queued", "releasing", "ready", "running",
             "blocked", "done", "failed", "archived", "cancelling", "cancelled"}

CardStatuses == {"none", "ready", "running", "blocked", "done", "archived"}

Prompts == Questions \cup {"stalled"}
Endings == Results \cup {"failed"}
Contents == Prompts \cup Endings

Updates == [m : Msgs, answer : BOOLEAN]

GoalRecord ==
  [st : Statuses,
   src : Msgs \cup {None},            \* sourceMessageId
   said : SUBSET Msgs,                \* handledSourceIds
   body : SUBSET Msgs,                \* objective
   rel : {"no", "set", "due"},        \* releaseAt
   task : BOOLEAN,                    \* kanbanTaskId is recorded
   lk : CardStatuses,                 \* lastKanbanStatus
   why : Prompts \cup {None},         \* lastBlockReason
   prompt : Prompts \cup {None},      \* lastBlockedPrompt, of the last answer
   rec : Nat,                         \* autoRecoveries
   pend : SUBSET Updates,             \* pendingOwnerUpdates
   dlv : {"pending", "outbox", "suppressed"},  \* delivery.state
   recon : BOOLEAN]                   \* cancellationReconciledAt

NoGoal == [st |-> "none", src |-> None, said |-> {}, body |-> {}, rel |-> "no",
           task |-> FALSE, lk |-> "none", why |-> None, prompt |-> None, rec |-> 0,
           pend |-> {}, dlv |-> "pending", recon |-> FALSE]

\* why: the question of a blocked card, "system" when Hermes parked it, the result
\* of a card that is done.
CardRecord == [st : CardStatuses,
               why : Questions \cup Results \cup {"system", None},
               body : SUBSET Msgs]

NoCard == [st |-> "none", why |-> None, body |-> {}]

Points == {"idle", "route", "answer", "heard", "flush", "write", "unblock",
           "settle", "reopen", "mark", "cancel", "cancelled", "refused", "take",
           "find", "release", "create", "unmade", "made", "show", "nudge",
           "nudged", "ask", "finish", "mirror", "publish"}

ProcRecord == [at : Points, g : Goals \cup {None}, m : Msgs \cup {None},
               snap : GoalRecord, reply : CardRecord, force : BOOLEAN]

Idle == [at |-> "idle", g |-> None, m |-> None, snap |-> NoGoal,
         reply |-> NoCard, force |-> FALSE]

Init ==
  /\ goal = [g \in Goals |-> NoGoal] /\ card = [g \in Goals |-> NoCard]
  /\ item = [g \in Goals |-> [c \in Contents |-> "none"]]
  /\ proc = [p \in Procs |-> Idle]
  /\ todo = {} /\ seen = goal /\ woke = [g \in Goals |-> 0]
  /\ budget = [deliveries |-> MaxDeliveries, troubles |-> MaxTroubles]

Spend(what) ==
  /\ budget[what] > 0
  /\ budget' = [budget EXCEPT ![what] = @ - 1]

------------------------------------------------------------------------------
(* The processes.                                                            *)

At(p, point) == proc[p].at = point

\* p goes on at a point, holding what it held.
GoTo(p, point) == proc' = [proc EXCEPT ![p].at = point]

\* p goes on at a point, and has no more use for what it read.
Forget(p, point) == proc' = [proc EXCEPT ![p] =
  [Idle EXCEPT !.at = point, !.g = proc[p].g, !.m = proc[p].m]]

\* The handler returns; the tick takes its next goal.
Rest(p) == [Idle EXCEPT !.at = IF p = "tick" THEN "take" ELSE "idle"]

Return(p) == proc' = [proc EXCEPT ![p] = Rest(p)]

\* store.update: one transaction on the record as it is now.
Update(g, r) == goal' = [goal EXCEPT ![g] = r]

Active(r) == r.st \notin {"none", "done", "failed", "cancelled"}

\* A Kanban call fails: the bridge answers so, or the call throws.
Fails == Spend("troubles")
Succeeds == UNCHANGED budget

(* The owner's messages: route().                                            *)

\* What the router may be told of: the active goals, the branch that may be reopened,
\* and the finished results the owner has not heard.
Routable(g) == \/ Active(goal[g]) \/ goal[g].st = "done"
               \/ \E c \in Endings : item[g][c] = "open"

\* A message arrives, again or for the first time.  One that a goal has handled gets
\* its old receipt; the others go to the router, which sees the goals as they are now
\* and is to choose g, or none.
Hear(h, m, g) ==
  /\ h \in Handlers /\ At(h, "idle") /\ Spend("deliveries")
  /\ IF \E k \in Goals : m \in goal[k].said
     THEN g = None /\ UNCHANGED proc
     ELSE /\ g # None => Routable(g)
          /\ proc' = [proc EXCEPT ![h] =
               [Idle EXCEPT !.at = "route", !.g = g, !.m = m,
                            !.snap = IF g = None THEN NoGoal ELSE goal[g]]]
  /\ UNCHANGED <<goal, card, item, ticking, woke>>

\* The router passes: a normal turn answers.
Pass(h) ==
  /\ At(h, "route") /\ Return(h)
  /\ UNCHANGED <<goal, card, item, ticking, woke, budget>>

\* createGoal: accepted for the background, or with a question back.  insert()
\* returns the goal that has this source id, if there is one.
Queue(h, g, st) ==
  LET m == proc[h].m IN
  /\ At(h, "route") /\ proc[h].g = None
  /\ st \in {"queued", "clarifying"}
  /\ goal[g].st = "none" /\ \A k \in Goals : k < g => goal[k].st # "none"
  /\ IF \E k \in Goals : goal[k].src = m
     THEN UNCHANGED goal
     ELSE Update(g, [NoGoal EXCEPT !.st = st, !.src = m, !.said = {m}, !.body = {m},
                                   !.rel = IF st = "queued" THEN "set" ELSE "no"])
  /\ Return(h)
  /\ UNCHANGED <<card, item, ticking, woke, budget>>

\* "status", or a thank-you: the message is recorded, and a finished result that is
\* told so counts as heard (markHeardForGoal).
Status(h) ==
  LET g == proc[h].g IN
  /\ At(h, "route") /\ g # None
  /\ Active(proc[h].snap) \/ \E c \in Endings : item[g][c] # "none"
  /\ Update(g, [goal[g] EXCEPT !.said = @ \cup {proc[h].m}])
  /\ item' = IF proc[h].snap.st \in {"done", "failed"}
             THEN [item EXCEPT ![g] = [c \in Contents |->
                     IF c \in Endings /\ @[c] = "open" THEN "heard" ELSE @[c]]]
             ELSE item
  /\ Return(h)
  /\ UNCHANGED <<card, ticking, woke, budget>>

\* The reply to a clarification: the goal enters the commit window, or another
\* question is asked back.  Only the source id is checked against the goal as it is.
Clarified(h, st) ==
  LET g == proc[h].g
      m == proc[h].m IN
  /\ At(h, "route") /\ g # None /\ proc[h].snap.st = "clarifying"
  /\ st \in {"queued", "clarifying"}
  /\ IF m \in goal[g].said
     THEN UNCHANGED goal
     ELSE Update(g, [goal[g] EXCEPT
            !.said = @ \cup {m}, !.body = @ \cup {m},
            !.st = IF st = "queued" THEN "queued" ELSE @,
            !.rel = IF st = "queued" THEN "set" ELSE @])
  /\ Return(h)
  /\ UNCHANGED <<card, item, ticking, woke, budget>>

------------------------------------------------------------------------------
(* Owner updates: appendOwnerUpdate, answerBlockedGoal.                      *)

\* An answer to a blocked goal reads it again: one that is no longer blocked, or has
\* this message, is left as it is, and the message with it.
ReadAnswer(h) ==
  LET g == proc[h].g IN
  /\ At(h, "route") /\ g # None /\ proc[h].snap.st = "blocked"
  /\ IF goal[g].st = "blocked" /\ proc[h].m \notin goal[g].said
     THEN proc' = [proc EXCEPT ![h].at = "answer", ![h].snap = goal[g]]
     ELSE Return(h)
  /\ UNCHANGED <<goal, card, item, ticking, woke, budget>>

\* r after appendOwnerUpdate's transaction.
Appended(r, m, wasBlocked) ==
  [r EXCEPT
    !.said = @ \cup {m}, !.body = @ \cup {m},
    !.pend = IF r.task THEN @ \cup {[m |-> m, answer |-> wasBlocked]} ELSE @,
    !.st = CASE r.st = "clarifying" -> "queued"
             [] r.st = "blocked" -> IF r.task THEN "ready" ELSE "queued"
             [] OTHER -> @,
    !.rel = IF r.st = "clarifying" THEN "set" ELSE @,
    !.prompt = IF r.st = "blocked" THEN r.why ELSE @,
    !.rec = IF r.st = "blocked" THEN 0 ELSE @,
    !.lk = IF r.st = "blocked" THEN IF r.task THEN "ready" ELSE "none" ELSE @,
    !.why = IF r.st = "blocked" THEN None ELSE @]

\* An answer, or an update of a goal that was active and not blocked when it was read.
Append(h) ==
  LET g == proc[h].g
      m == proc[h].m
      wasBlocked == At(h, "answer") IN
  /\ \/ At(h, "answer")
     \/ At(h, "route") /\ g # None /\ Active(proc[h].snap) /\ proc[h].snap.st # "blocked"
  /\ IF m \in goal[g].said
     THEN Return(h) /\ UNCHANGED <<goal, woke>>
     ELSE /\ Update(g, Appended(goal[g], m, wasBlocked))
          /\ woke' = IF goal[g].st = "blocked" THEN [woke EXCEPT ![g] = 0] ELSE woke
          /\ CASE wasBlocked -> Forget(h, "heard")
               [] ~wasBlocked /\ goal[g].task -> Forget(h, "flush")
               [] OTHER -> Return(h)
  /\ UNCHANGED <<card, item, ticking, budget>>

\* markHeardForGoal: who answers a question has heard it.
HeardQuestion(h) ==
  LET g == proc[h].g IN
  /\ At(h, "heard")
  /\ item' = [item EXCEPT ![g] = [c \in Contents |->
       IF c \in Prompts /\ @[c] = "open" THEN "heard" ELSE @[c]]]
  /\ proc' = [proc EXCEPT ![h].at = "flush", ![h].force = TRUE]
  /\ UNCHANGED <<goal, card, ticking, woke, budget>>

\* A follow-up to a finished goal: reopenContinuableGoal's transaction, then the
\* reopen of the card, whose failure is ignored.
Reopen(h) ==
  LET g == proc[h].g
      m == proc[h].m
      r == goal[g] IN
  /\ At(h, "route") /\ g # None /\ proc[h].snap.st = "done"
  /\ IF m \in r.said
     THEN Return(h) /\ UNCHANGED goal
     ELSE /\ Update(g, [r EXCEPT
               !.said = @ \cup {m}, !.body = @ \cup {m},
               !.st = IF r.task THEN "ready" ELSE "queued",
               !.rel = IF r.task THEN @ ELSE "set",
               !.pend = IF r.task THEN @ \cup {[m |-> m, answer |-> FALSE]} ELSE @])
          /\ IF r.task THEN Forget(h, "reopen") ELSE Return(h)
  /\ UNCHANGED <<card, item, ticking, woke, budget>>

ReopenCard(h) ==
  LET g == proc[h].g IN
  /\ At(h, "reopen") /\ GoTo(h, "flush")
  /\ \/ Succeeds /\ card' = [card EXCEPT ![g].st = IF @ = "done" THEN "ready" ELSE @]
     \/ Fails /\ UNCHANGED card
  /\ UNCHANGED <<goal, item, ticking, woke>>

------------------------------------------------------------------------------
(* flushOwnerUpdates: what is pending goes to the card, and then leaves the  *)
(* record.  Handlers and the tick run it side by side.                       *)

Applied(r) == {u.m : u \in r.pend}

\* Where the tick goes on with a goal whose updates are out of the way: by its list.
AfterFlush(r) == IF r.st \in {"queued", "releasing"} /\ r.rel = "due" THEN "release"
                 ELSE IF r.task THEN "show" ELSE "take"

\* p goes on with g, held by the tick's list.
Walk(g) == proc' = [proc EXCEPT !["tick"] =
  IF AfterFlush(seen[g]) = "take" THEN Rest("tick")
  ELSE [Idle EXCEPT !.at = AfterFlush(seen[g]), !.g = g, !.snap = seen[g]]]

\* flushOwnerUpdates returned true.
Flushed(p) == IF p = "tick" THEN Walk(proc[p].g) ELSE Return(p)

ReadUpdates(p) ==
  LET r == goal[proc[p].g] IN
  /\ At(p, "flush")
  /\ IF r.task /\ r.pend # {}
     THEN proc' = [proc EXCEPT ![p].at = "write", ![p].snap = r]
     ELSE Flushed(p)
  /\ UNCHANGED <<goal, card, item, ticking, woke, budget>>

Unblocks(p) == proc[p].force \/ proc[p].snap.lk = "blocked"

\* append_body, once for each update; a failure leaves those before it on the card.
WriteUpdates(p) ==
  LET g == proc[p].g IN
  /\ At(p, "write")
  /\ \/ /\ Succeeds
        /\ card' = [card EXCEPT ![g].body = @ \cup Applied(proc[p].snap)]
        /\ GoTo(p, IF Unblocks(p) THEN "unblock" ELSE "settle")
     \/ /\ Fails
        /\ \E some \in SUBSET Applied(proc[p].snap) :
             card' = [card EXCEPT ![g].body = @ \cup some]
        /\ Return(p)
  /\ UNCHANGED <<goal, item, ticking, woke>>

\* The bridge's unblock: a card that is already active counts as unblocked, one that
\* is done or archived does not.
UnblockCard(g) == card' = [card EXCEPT ![g] =
  IF @.st = "blocked" THEN [@ EXCEPT !.st = "ready", !.why = None] ELSE @]

Unblock(p) ==
  LET g == proc[p].g IN
  /\ At(p, "unblock")
  /\ \/ /\ Succeeds /\ UnblockCard(g)
        /\ IF card[g].st \in {"blocked", "ready", "running"}
           THEN GoTo(p, "settle") ELSE Return(p)
     \/ Fails /\ (UnblockCard(g) \/ UNCHANGED card) /\ Return(p)
  /\ UNCHANGED <<goal, item, ticking, woke>>

\* Mutant: whatever is pending by now is taken as applied.
SettleAll(p) ==
  LET g == proc[p].g
      r == goal[g] IN
  /\ At(p, "settle")
  /\ Update(g, [r EXCEPT !.pend = {}, !.st = "ready",
                         !.lk = IF Unblocks(p) THEN "ready" ELSE @])
  /\ Flushed(p)
  /\ UNCHANGED <<card, item, ticking, woke, budget>>

\* The applied updates leave the record; its status is set whatever it is by now.
Settle(p) ==
  LET g == proc[p].g
      r == goal[g]
      left == {u \in r.pend : u.m \notin Applied(proc[p].snap)} IN
  /\ At(p, "settle")
  /\ Update(g, CASE Unblocks(p) -> [r EXCEPT !.pend = left, !.st = "ready", !.lk = "ready"]
                 [] ~Unblocks(p) /\ r.lk \in {"done", "archived"} ->
                      [r EXCEPT !.pend = left, !.st = "running"]
                 [] OTHER -> [r EXCEPT !.pend = left, !.st = "ready"])
  /\ Flushed(p)
  /\ UNCHANGED <<card, item, ticking, woke, budget>>

------------------------------------------------------------------------------
(* Cancelling: cancel, retryCancellation.                                    *)

\* cancelForGoal: the open items of the goal are closed.
CancelItems(h) ==
  LET g == proc[h].g IN
  /\ At(h, "route") /\ g # None /\ Active(proc[h].snap)
  /\ item' = [item EXCEPT ![g] = [c \in Contents |-> IF @[c] = "open" THEN "off" ELSE @[c]]]
  /\ Forget(h, "mark")
  /\ UNCHANGED <<goal, card, ticking, woke, budget>>

\* Then the goal is marked, whatever it is by now.
MarkCancelled(h) ==
  LET g == proc[h].g
      r == goal[g] IN
  /\ At(h, "mark")
  /\ IF r.task
     THEN Update(g, [r EXCEPT !.st = "cancelling", !.dlv = "suppressed"])
          /\ GoTo(h, "cancel")
     ELSE Update(g, [r EXCEPT !.st = "cancelled", !.dlv = "suppressed",
                              !.said = @ \cup {proc[h].m}])
          /\ Return(h)
  /\ UNCHANGED <<card, item, ticking, woke, budget>>

\* The bridge stops the worker and archives the card, if there is one.
CancelCard(p) ==
  LET g == proc[p].g
      archived == [card EXCEPT ![g].st = IF @ = "none" THEN @ ELSE "archived"] IN
  /\ At(p, "cancel")
  /\ \/ Succeeds /\ card' = archived /\ GoTo(p, "cancelled")
     \/ Fails /\ card' \in {card, archived} /\ GoTo(p, "refused")
  /\ UNCHANGED <<goal, item, ticking, woke>>

\* retryCancellation's last update; the handler then records its message.
EndCancel(p) ==
  LET g == proc[p].g
      heard == goal[g].said \cup (IF p = "tick" THEN {} ELSE {proc[p].m}) IN
  /\ \/ At(p, "cancelled")
        /\ Update(g, [goal[g] EXCEPT !.st = "cancelled", !.dlv = "suppressed", !.said = heard])
     \/ At(p, "refused")
        /\ Update(g, [goal[g] EXCEPT !.st = "cancelling", !.said = heard])
  /\ Return(p)
  /\ UNCHANGED <<card, item, ticking, woke, budget>>

------------------------------------------------------------------------------
(* The lifecycle tick.                                                       *)


\* Cancelled before a card was recorded: there may be one.
Tombstone(r) == r.st = "cancelled" /\ ~r.task /\ r.rel = "due" /\ ~r.recon

\* Mutant: a goal that is done is out of the list.
Over(r) == r.st \in {"done", "failed"}

Delivered(r) == r.st \in {"done", "failed"} /\ r.dlv # "pending"

\* listOutstanding.
Outstanding(r) ==
  \/ Tombstone(r)
  \/ r.st \in {"queued", "releasing", "cancelling"}
  \/ r.task /\ r.st # "cancelled" /\ ~Delivered(r)

\* Mutant: only answers are retried by the tick.
AnswersWait(r) == \E u \in r.pend : u.answer

UpdatesWait(r) == r.pend # {}

TickStart ==
  /\ At("tick", "idle") /\ \E g \in Goals : Outstanding(goal[g])
  /\ todo' = {g \in Goals : Outstanding(goal[g])} /\ seen' = goal
  /\ proc' = [proc EXCEPT !["tick"].at = "take"]
  /\ UNCHANGED <<goal, card, item, woke, budget>>

\* The next goal of the list, by what the list says of it.
TickTake ==
  /\ At("tick", "take") /\ todo # {}
  /\ LET g == CHOOSE k \in todo : \A other \in todo : k <= other
         r == seen[g]
         force == \E u \in r.pend : u.answer
         Begin(point) == proc' = [proc EXCEPT !["tick"] =
           [Idle EXCEPT !.at = point, !.g = g, !.snap = r, !.force = force]]
     IN /\ todo' = todo \ {g} /\ UNCHANGED seen
        /\ CASE r.st = "cancelled" -> Begin("find")
             [] r.st = "cancelling" -> Begin("cancel")
             [] r.st \notin {"cancelled", "cancelling"} /\ UpdatesWait(r) -> Begin("flush")
             [] OTHER -> Walk(g)
  /\ UNCHANGED <<goal, card, item, woke, budget>>

TickEnd ==
  /\ At("tick", "take") /\ todo = {}
  /\ proc' = [proc EXCEPT !["tick"] = Idle] /\ seen' = [g \in Goals |-> NoGoal]
  /\ UNCHANGED <<goal, card, item, todo, woke, budget>>

\* A call that throws ends the walk: the goals after it wait for the next tick.
Throw == todo' = {} /\ UNCHANGED seen

\* reconcileCancelledTombstone: a goal cancelled while its card was being created may
\* have one.  No card, or a bridge that answers no, settles it.
Find ==
  LET g == proc["tick"].g IN
  /\ At("tick", "find")
  /\ \/ /\ Succeeds /\ UNCHANGED ticking
        /\ IF card[g].st = "none"
           THEN Update(g, [goal[g] EXCEPT !.recon = TRUE]) /\ Return("tick")
           ELSE Update(g, [goal[g] EXCEPT !.task = TRUE, !.st = "cancelling"])
                /\ GoTo("tick", "cancel")
     \/ /\ Fails /\ Return("tick")
        /\ \/ Update(g, [goal[g] EXCEPT !.recon = TRUE]) /\ UNCHANGED ticking
           \/ Throw /\ UNCHANGED goal
  /\ UNCHANGED <<card, item, woke>>

\* release claims the goal, unless it was cancelled since it was listed.
Claim ==
  LET g == proc["tick"].g
      claimed == [goal[g] EXCEPT !.st = IF @ = "queued" THEN "releasing" ELSE @] IN
  /\ At("tick", "release")
  /\ Update(g, claimed)
  /\ IF claimed.st = "cancelled" THEN Return("tick")
     ELSE proc' = [proc EXCEPT !["tick"].at = "create", !["tick"].snap = claimed]
  /\ UNCHANGED <<card, item, ticking, woke, budget>>

\* The bridge's create, with strict idempotency: the card of this key, archived or
\* not, is returned if there is one.
CreatedCard(g) == IF card[g].st = "none"
                  THEN [st |-> "ready", why |-> None, body |-> proc["tick"].snap.body]
                  ELSE card[g]

Create ==
  LET g == proc["tick"].g
      created == [card EXCEPT ![g] = CreatedCard(g)] IN
  /\ At("tick", "create")
  /\ \/ /\ Succeeds /\ card' = created /\ UNCHANGED ticking
        /\ proc' = [proc EXCEPT !["tick"].at = "made", !["tick"].reply = created[g]]
     \/ /\ Fails
        /\ \/ card' = card /\ GoTo("tick", "unmade") /\ UNCHANGED ticking
           \/ card' \in {card, created} /\ Return("tick") /\ Throw
  /\ UNCHANGED <<goal, item, woke>>

\* The bridge answered no.
Unmade ==
  LET g == proc["tick"].g IN
  /\ At("tick", "unmade") /\ Throw /\ Return("tick")
  /\ Update(g, [goal[g] EXCEPT !.st = IF @ = "releasing" THEN "queued" ELSE @])
  /\ UNCHANGED <<card, item, woke, budget>>

\* The card's id is recorded; a goal cancelled meanwhile stays so, and the card goes.
Made ==
  LET g == proc["tick"].g
      r == goal[g]
      stop == r.st \in {"cancelled", "cancelling"} IN
  /\ At("tick", "made")
  /\ Update(g, [r EXCEPT !.task = TRUE, !.lk = proc["tick"].reply.st,
                         !.st = IF stop THEN "cancelling" ELSE proc["tick"].reply.st])
  /\ IF stop THEN GoTo("tick", "cancel") ELSE Return("tick")
  /\ UNCHANGED <<card, item, ticking, woke, budget>>

------------------------------------------------------------------------------
(* reconcileTask: what the card says becomes the goal's, and the owner's.    *)

\* classifyBlockCause: a worker's question, or a stall.
Prompt(k) == IF k.why \in Questions THEN k.why ELSE "stalled"

\* Another run of the worker instead of a message to the owner.
Recovers(r, k) ==
  /\ r.why # Prompt(k) /\ r.rec < MaxRecoveries
  /\ Prompt(k) = "stalled" \/ r.prompt = Prompt(k)

\* Mutant: a question is published with the update only.
AskOnce(r, k) == IF r.lk # "blocked" \/ r.why # Prompt(k) THEN "ask" ELSE "take"

\* deliverBlockedPrompt updates the goal if the question is new, and publishes anyway.
AskAgain(r, k) == IF r.lk # "blocked" \/ r.why # Prompt(k) THEN "ask" ELSE "publish"

\* Where the tick goes with the reply k, by the goal r as it was listed.
Reaction(r, k) ==
  CASE k.st = "blocked" /\ Recovers(r, k) -> "nudge"
    [] k.st = "blocked" /\ ~Recovers(r, k) -> AskAgain(r, k)
    [] k.st \in {"done", "archived"} ->
         IF r.st = "cancelled" \/ r.dlv = "suppressed" THEN "take" ELSE "finish"
    [] OTHER -> "mirror"

Show ==
  LET g == proc["tick"].g
      k == card[g]
      next == Reaction(seen[g], k) IN
  /\ At("tick", "show")
  /\ \/ /\ Succeeds /\ UNCHANGED ticking
        /\ IF next = "take" THEN Return("tick")
           ELSE proc' = [proc EXCEPT !["tick"].at = next, !["tick"].reply = k]
     \/ Fails /\ Return("tick") /\ (Throw \/ UNCHANGED ticking)
  /\ UNCHANGED <<goal, card, item, woke>>

\* autoRecover appends its note and unblocks; a failure waits for the next tick.
Nudge ==
  LET g == proc["tick"].g
      woken == woke' = [woke EXCEPT ![g] = @ + IF card[g].st = "blocked" THEN 1 ELSE 0] IN
  /\ At("tick", "nudge")
  /\ \/ /\ Succeeds /\ UnblockCard(g) /\ woken
        /\ IF card[g].st \in {"blocked", "ready", "running"}
           THEN GoTo("tick", "nudged") ELSE Return("tick")
     \/ Fails /\ Return("tick") /\ ((UnblockCard(g) /\ woken) \/ UNCHANGED <<card, woke>>)
  /\ UNCHANGED <<goal, item, ticking>>

\* Mutant: the count goes down.
NudgedDown ==
  LET g == proc["tick"].g IN
  /\ At("tick", "nudged") /\ Return("tick")
  /\ Update(g, [goal[g] EXCEPT !.rec = seen[g].rec - 1, !.st = "ready", !.lk = "ready"])
  /\ UNCHANGED <<card, item, ticking, woke, budget>>

\* Mutant: the restart is not counted.
NudgedUncounted ==
  LET g == proc["tick"].g IN
  /\ At("tick", "nudged") /\ Return("tick")
  /\ Update(g, [goal[g] EXCEPT !.st = "ready", !.lk = "ready"])
  /\ UNCHANGED <<card, item, ticking, woke, budget>>

Nudged ==
  LET g == proc["tick"].g IN
  /\ At("tick", "nudged") /\ Return("tick")
  /\ Update(g, [goal[g] EXCEPT !.rec = seen[g].rec + 1, !.st = "ready", !.lk = "ready"])
  /\ UNCHANGED <<card, item, ticking, woke, budget>>

\* deliverBlockedPrompt's update.
Ask ==
  LET g == proc["tick"].g IN
  /\ At("tick", "ask") /\ GoTo("tick", "publish")
  /\ Update(g, [goal[g] EXCEPT !.st = "blocked", !.lk = "blocked",
                               !.why = Prompt(proc["tick"].reply)])
  /\ UNCHANGED <<card, item, ticking, woke, budget>>

\* A card that is done, or that somebody archived.
Finish ==
  LET g == proc["tick"].g
      k == proc["tick"].reply IN
  /\ At("tick", "finish") /\ GoTo("tick", "publish")
  /\ Update(g, [goal[g] EXCEPT !.st = IF k.st = "done" THEN "done" ELSE "failed",
                               !.lk = k.st])
  /\ UNCHANGED <<card, item, ticking, woke, budget>>

Mirror ==
  LET g == proc["tick"].g
      k == proc["tick"].reply IN
  /\ At("tick", "mirror") /\ Return("tick")
  /\ Update(g, [goal[g] EXCEPT !.st = IF k.st = "running" THEN "running" ELSE "ready",
                               !.lk = k.st])
  /\ UNCHANGED <<card, item, ticking, woke, budget>>

ContentOf(k) == CASE k.st = "blocked" -> Prompt(k)
                  [] k.st = "done" -> k.why
                  [] OTHER -> "failed"

\* publishOwnerItem: upsertForGoal refuses a cancelled goal and keeps an item of the
\* same content; anything else of the goal that is open is superseded.
Publish ==
  LET g == proc["tick"].g
      c == ContentOf(proc["tick"].reply) IN
  /\ At("tick", "publish") /\ Return("tick")
  /\ IF goal[g].st \in {"cancelled", "cancelling"}
     THEN UNCHANGED <<goal, item>>
     ELSE /\ Update(g, [goal[g] EXCEPT !.dlv = "outbox"])
          /\ item' = IF item[g][c] \in {"open", "heard"} THEN item
                     ELSE [item EXCEPT ![g] = [k \in Contents |->
                             IF k = c THEN "open"
                             ELSE IF @[k] = "open" THEN "off" ELSE @[k]]]
  /\ UNCHANGED <<card, ticking, woke, budget>>

------------------------------------------------------------------------------
(* The world.                                                                *)

\* The commit window passes.
WindowPasses(g) ==
  /\ goal[g].rel = "set" /\ Update(g, [goal[g] EXCEPT !.rel = "due"])
  /\ UNCHANGED <<card, item, proc, ticking, woke, budget>>

\* The worker of a card starts, returns, asks, or is parked by Hermes.
Work(g) ==
  /\ \/ card[g].st = "ready" /\ card' = [card EXCEPT ![g].st = "running"]
     \/ card[g].st = "running"
        /\ \/ \E r \in Results : card' = [card EXCEPT ![g].st = "done", ![g].why = r]
           \/ \E q \in Questions \cup {"system"} :
                card' = [card EXCEPT ![g].st = "blocked", ![g].why = q]
  /\ UNCHANGED <<goal, item, proc, ticking, woke, budget>>

\* Somebody archives the card on the board.
ArchiveCard(g) ==
  /\ card[g].st \in {"ready", "running", "blocked", "done"}
  /\ card' = [card EXCEPT ![g].st = "archived"]
  /\ UNCHANGED <<goal, item, proc, ticking, woke, budget>>

\* The outbox delivers, and the owner hears it: OwnerOutbox.
OwnerHears(g) ==
  /\ \E c \in Contents : item[g][c] = "open" /\ item' = [item EXCEPT ![g][c] = "heard"]
  /\ UNCHANGED <<goal, card, proc, ticking, woke, budget>>

Crash ==
  /\ Spend("troubles")
  /\ proc' = [p \in Procs |-> Idle] /\ todo' = {} /\ seen' = [g \in Goals |-> NoGoal]
  /\ UNCHANGED <<goal, card, item, woke>>

------------------------------------------------------------------------------
Handler(h) ==
  \/ Pass(h) \/ Status(h) \/ ReadAnswer(h) \/ Append(h) \/ HeardQuestion(h)
  \/ Reopen(h) \/ ReopenCard(h) \/ CancelItems(h) \/ MarkCancelled(h)
  \/ \E g \in Goals, st \in {"queued", "clarifying"} : Queue(h, g, st)
  \/ \E st \in {"queued", "clarifying"} : Clarified(h, st)

Shared(p) ==
  \/ ReadUpdates(p) \/ WriteUpdates(p) \/ Unblock(p) \/ Settle(p)
  \/ CancelCard(p) \/ EndCancel(p)

Tick ==
  \/ TickStart \/ TickTake \/ TickEnd \/ Find \/ Claim \/ Create \/ Unmade \/ Made
  \/ Show \/ Nudge \/ Nudged \/ Ask \/ Finish \/ Mirror \/ Publish \/ Shared("tick")

Next ==
  \/ \E h \in Handlers, m \in Msgs, g \in Goals \cup {None} : Hear(h, m, g)
  \/ \E h \in Handlers : Handler(h) \/ Shared(h)
  \/ Tick \/ Crash
  \/ \E g \in Goals : WindowPasses(g) \/ Work(g) \/ ArchiveCard(g) \/ OwnerHears(g)

Spec == Init /\ [][Next]_vars

\* The box ticks every few seconds, its calls return, and the commit window passes.
FairSpec == Spec /\ WF_vars(Tick) /\ \A h \in Handlers : WF_vars(Handler(h) \/ Shared(h))
                 /\ \A g \in Goals : WF_vars(WindowPasses(g))

------------------------------------------------------------------------------
(* Properties.                                                               *)

\* Types.
TypeOK ==
  /\ goal \in [Goals -> GoalRecord] /\ seen \in [Goals -> GoalRecord]
  /\ card \in [Goals -> CardRecord]
  /\ item \in [Goals -> [Contents -> {"none", "open", "heard", "off"}]]
  /\ proc \in [Procs -> ProcRecord]
  /\ todo \subseteq Goals /\ woke \in [Goals -> Nat]
  /\ budget \in [deliveries : 0 .. MaxDeliveries, troubles : 0 .. MaxTroubles]

\* A worker that stops is restarted at most MaxRecoveries times before the owner says
\* something to it, and once more for each restart of the box and each Kanban call
\* whose answer was lost, although the count is written from a listing that is older
\* than the answer of the owner (autoRecover, appendOwnerUpdate).
RestartsAreBounded ==
  \A g \in Goals : woke[g] <= MaxRecoveries + (MaxTroubles - budget.troubles)

\* What waits for the card of g: the updates of its record, and as long as a goal has no
\* card, what the owner has said, or as much of it as the creation under way takes along.
Waiting(g) ==
  Applied(goal[g]) \cup
    {m \in goal[g].body :
       /\ goal[g].st # "none" /\ card[g].st = "none"
       /\ At("tick", "create") /\ proc["tick"].g = g => m \in proc["tick"].snap.body}

\* What waits for the card waits no more only when it is on the card, whatever handler or
\* tick runs beside (release, flushOwnerUpdates).
UpdatesAreKept ==
  [][\A g \in Goals : Waiting(g) \ Waiting(g)' \subseteq card'[g].body]_vars

Ended(g) == goal[g].st \in {"done", "failed", "cancelled", "cancelling"}

\* ... and nothing waits for ever, unless the goal is over, or has the owner to answer
\* first (tick, release, flushOwnerUpdates).  What is said while the card is being made
\* does not wait at all: MergedIntoTheGoal.
UpdatesArrive ==
  \A g \in Goals, m \in Msgs :
    []<>(m \notin Waiting(g) \/ m \in card[g].body \/ Ended(g) \/ goal[g].st = "clarifying")

\* The end of g, as its owner is to read it.
EndOf(g) == CASE goal[g].st = "failed" -> {"failed"}
              [] goal[g].st = "done" -> {card[g].why} \cap Results
              [] OTHER -> {}

\* The owner was told something else of g, and a restart or a failed call has come by.
Interrupted(g, c) ==
  budget.troubles < MaxTroubles /\ \E k \in Contents \ {c} : item[g][k] # "none"

\* A finished goal is published, also by the tick after a restart between the two
\* transactions that finish and publish it, if it was the first the owner was to hear of
\* the goal (reconcileTask, publishOwnerItem, listOutstanding).  What comes after a question
\* or an older result may be lost there: DoneIsSent.
EndsArePublished ==
  \A g \in Goals, c \in Endings :
    []<>(c \notin EndOf(g) \/ item[g][c] # "none" \/ goal[g].dlv = "suppressed" \/ Interrupted(g, c))

\* The owner gets what a goal is blocked for, a question of its worker or the notice of a
\* stall, through answers, repeated questions and a restart between the two transactions
\* of deliverBlockedPrompt.  A text they were given before is not put to them again:
\* ToldAgain.
QuestionsAreAsked ==
  \A g \in Goals, c \in Prompts :
    []<>(\/ item[g][c] \in {"open", "heard"} \/ goal[g].dlv = "suppressed"
         \/ goal[g].st # "blocked" \/ goal[g].why # c \/ card[g].st # "blocked")

\* A cancelled goal leaves no live card behind, one that was being created when the
\* owner cancelled or the box restarted included, unless the bridge failed to look
\* for it or a stale tick woke the goal (cancel, release, reconcileCancelledTombstone).
Live(g) == card[g].st \in {"ready", "running", "blocked"}


------------------------------------------------------------------------------
(* What the repository says of the broker and the code does not keep.        *)

\* Once the owner has cancelled a goal, nothing of it is put to them again: "suppresses
\* completion delivery ... without resurrecting the goal" (docs/realtime-goals.md; cancel,
\* reconcileTask, publishOwnerItem).
SuppressedStaysSilent ==
  [][\A g \in Goals, c \in Contents :
       goal[g].dlv = "suppressed" => ~(item[g][c] # "open" /\ item'[g][c] = "open")]_vars

\* "up to two times, then tells the owner it could not finish"
\* (docs/kanban/realtime-goals-board.md:23): when the worker stalls again after the answer
\* of the owner, or asks again what was answered, the item of the first time is found
\* heard, and nothing is told (upsertForGoal).
ToldAgain ==
  [][\A g \in Goals :
       /\ At("tick", "publish") /\ proc["tick"].g = g /\ proc["tick"].reply.st = "blocked"
       /\ proc'["tick"].at = "take" /\ seen[g].lk # "blocked"
       => item'[g][Prompt(proc["tick"].reply)] = "open" \/ goal[g].dlv = "suppressed"]_vars

\* "owner updates merge into the goal" (docs/realtime-goals.md:86): what is said between
\* the claim of a release and the record of its card is in neither the description the
\* card was created with nor pendingOwnerUpdates (appendOwnerUpdate, release).
MergedIntoTheGoal ==
  \A g \in Goals, m \in Msgs :
    []<>(m \notin goal[g].body \/ m \in card[g].body \/ Ended(g) \/ goal[g].st = "clarifying")

\* A goal whose card is done has its result sent: "the broker takes the run summary ...
\* and sends it" (docs/kanban/realtime-goals-board.md:24).  A tick that cannot unblock the
\* card of a goal with an update to give never looks at the card (flushOwnerUpdates); and
\* what a restart leaves between the end of a goal and its publication is taken for sent
\* if a question or an older result was (upsertForGoal, listOutstanding).
DoneIsSent ==
  \A g \in Goals, r \in Results :
    card[g].st = "done" /\ card[g].why = r /\ goal[g].task
      ~> \/ item[g][r] # "none" \/ card[g].st # "done"
         \/ goal[g].dlv = "suppressed"

==============================================================================
