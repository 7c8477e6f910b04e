------------------------- MODULE OwnerPromiseProofs -------------------------
(***************************************************************************)
(* That the owner outbox implements OwnerPromise, for every set of items,  *)
(* callbacks and calls and every bound, and what follows from the same     *)
(* account of what each step does to an item.                              *)
(***************************************************************************)
EXTENDS OwnerOutboxProofs

(* What a step does to the state and the lease of an item.                   *)

\* After the step the item is in state s, with lease l, which runs if v.
Gets(i, s, l, v) == item'[i].state = s /\ item'[i].lease = l /\ item'[i].leaseLive = v

\* The step leaves the item open or closed as it was, in the same hand.
Quiet(i) ==
  /\ (Open(i) /\ item'[i].state \in OpenStates) \/ item'[i].state = item[i].state
  /\ item'[i].lease = item[i].lease /\ item'[i].leaseLive = item[i].leaseLive

\* The fields of the records the handlers make.
LEMMA Fields ==
  ASSUME NEW r \in ItemRecord
  PROVE  /\ Release(r) \in ItemRecord
         /\ Release(r).state = r.state /\ Release(r).lease = "none"
         /\ Release(r).leaseLive = FALSE
<1>1. Release(r) \in ItemRecord
  BY RecordState
<1>2. Release(r).state = r.state /\ Release(r).lease = "none" /\ Release(r).leaseLive = FALSE
  BY DEF Release, ItemRecord
<1> QED
  BY <1>1, <1>2

\* A new item supersedes those of its goal that are open, whatever holds them.
LEMMA UpsertEffect ==
  ASSUME TypeOK, NEW i \in Items, UpsertForGoal(i)
  PROVE  /\ item[i].state = "absent" /\ i \notin Supersedes(i)
         /\ Gets(i, "ready", "none", FALSE)
         /\ \A j \in Supersedes(i) : Gets(j, "superseded", "none", FALSE)
         /\ \A j \in Items \ (Supersedes(i) \cup {i}) : item'[j] = item[j]
<1>1. i \notin Supersedes(i)
  BY DEF UpsertForGoal, Supersedes, OpenItems, Open, OpenStates
<1>2. Gets(i, "ready", "none", FALSE)
  BY DEF UpsertForGoal, NewItem, Gets
<1>3. ASSUME NEW j \in Supersedes(i) PROVE Gets(j, "superseded", "none", FALSE)
  <2>1. j \in Items /\ item[j] \in ItemRecord
    BY DEF Supersedes, OpenItems, TypeOK, ItemsOK
  <2>2. item'[j] = [Release(item[j]) EXCEPT !.state = "superseded"]
    BY <1>1, <2>1 DEF UpsertForGoal
  <2>3. LET r == [Release(item[j]) EXCEPT !.state = "superseded"]
        IN  r.state = "superseded" /\ r.lease = "none" /\ r.leaseLive = FALSE
    BY <2>1 DEF Release, ItemRecord
  <2> QED
    BY <2>2, <2>3 DEF Gets
<1> QED
  BY <1>1, <1>2, <1>3 DEF UpsertForGoal

LEMMA AnswerEffect ==
  ASSUME TypeOK, NEW i \in Items, AddAnswer(i)
  PROVE  /\ item[i].state = "absent" /\ Gets(i, "ready", "none", FALSE)
         /\ \A j \in Items \ {i} : item'[j] = item[j]
  BY DEF AddAnswer, NewItem, Gets, TypeOK, ItemsOK

\* The step closes the items S, which are open, and lets go of them.
Closes(S, how) ==
  /\ \A j \in S : Open(j) /\ Gets(j, how, "none", FALSE)
  /\ \A j \in Items \ S : item'[j] = item[j]

LEMMA HeardEffect ==
  ASSUME TypeOK, NEW S, NEW r, Heard(S, r)
  PROVE  Closes({i \in Items : i \in S /\ Open(i)}, "heard")
<1>1. ASSUME NEW i \in Items
      PROVE  LET h == [Release(item[i]) EXCEPT !.state = "heard", !.heardBy = r]
             IN  h.state = "heard" /\ h.lease = "none" /\ h.leaseLive = FALSE
  BY DEF Release, TypeOK, ItemsOK, ItemRecord
<1> QED
  BY <1>1 DEF Heard, Closes, Gets

LEMMA CancelEffect ==
  ASSUME TypeOK, NEW g \in Goals, CancelForGoal(g)
  PROVE  Closes({i \in Items : GoalOf[i] = g /\ Open(i)}, "cancelled")
<1>1. ASSUME NEW i \in Items
      PROVE  LET h == [Release(item[i]) EXCEPT !.state = "cancelled"]
             IN  h.state = "cancelled" /\ h.lease = "none" /\ h.leaseLive = FALSE
  BY DEF Release, TypeOK, ItemsOK, ItemRecord
<1> QED
  BY <1>1 DEF CancelForGoal, Closes, Gets

\* The item of a settled SMS or of a recorded send: it counts as heard, or stays as
\* it was; a send lets go of it.
LEMMA SettleEffect ==
  ASSUME TypeOK, SettleSms
  PROVE  /\ cur[1] \in Items /\ \A j \in Items \ {cur[1]} : item'[j] = item[j]
         /\ \/ Quiet(cur[1])
            \/ Open(cur[1]) /\ Gets(cur[1], "heard", item[cur[1]].lease, item[cur[1]].leaseLive)
<1>1. cur[1] \in Items /\ item \in [Items -> ItemRecord] /\ item[cur[1]] \in ItemRecord
  BY DEF SettleSms, TypeOK, ItemsOK, DispatcherOK
<1> DEFINE settled == [item[cur[1]] EXCEPT !.sms = "none"]
<1>2. /\ settled \in ItemRecord /\ settled.state = item[cur[1]].state
      /\ settled.lease = item[cur[1]].lease /\ settled.leaseLive = item[cur[1]].leaseLive
  BY <1>1 DEF ItemRecord
<1>3. item'[cur[1]] \in {item[cur[1]], HeardBy(settled, "sms"),
                         [settled EXCEPT !.rejected = TRUE, !.retry = TRUE],
                         [settled EXCEPT !.retry = TRUE]}
  BY <1>1 DEF SettleSms
<1> HIDE DEF settled
<1>4. \A rec \in {[settled EXCEPT !.rejected = TRUE, !.retry = TRUE], [settled EXCEPT !.retry = TRUE]} :
        rec.state = settled.state /\ rec.lease = settled.lease /\ rec.leaseLive = settled.leaseLive
  BY <1>2 DEF ItemRecord
<1>5. /\ HeardBy(settled, "sms").state = IF settled.state \in OpenStates THEN "heard" ELSE settled.state
      /\ HeardBy(settled, "sms").lease = settled.lease
      /\ HeardBy(settled, "sms").leaseLive = settled.leaseLive
  BY <1>2 DEF HeardBy, ItemRecord
<1>6. \A j \in Items \ {cur[1]} : item'[j] = item[j]
  BY <1>1 DEF SettleSms
<1>7. CASE item'[cur[1]] = HeardBy(settled, "sms")
  BY <1>1, <1>2, <1>5, <1>6, <1>7 DEF Quiet, Gets, Open
<1>8. CASE item'[cur[1]] # HeardBy(settled, "sms")
  BY <1>1, <1>2, <1>3, <1>4, <1>6, <1>8 DEF Quiet
<1> QED
  BY <1>7, <1>8

LEMMA RecordEffect ==
  ASSUME TypeOK, RecordSend
  PROVE  /\ cur[1] \in Items /\ \A j \in Items \ {cur[1]} : item'[j] = item[j]
         /\ \/ Gets(cur[1], item[cur[1]].state, "none", FALSE)
            \/ Open(cur[1]) /\ Gets(cur[1], "heard", "none", FALSE)
<1>1. cur[1] \in Items /\ item \in [Items -> ItemRecord] /\ item[cur[1]] \in ItemRecord
  BY DEF RecordSend, TypeOK, ItemsOK, DispatcherOK
<1> DEFINE freed == Release(item[cur[1]])
<1>2. /\ freed \in ItemRecord /\ freed.state = item[cur[1]].state
      /\ freed.lease = "none" /\ freed.leaseLive = FALSE
  BY <1>1, Fields
<1>3. item'[cur[1]] \in {HeardBy(freed, cur[2]), [freed EXCEPT !.sms = "wait"],
                         [freed EXCEPT !.retry = TRUE]}
  BY <1>1 DEF RecordSend
<1> HIDE DEF freed
<1>4. \A rec \in {[freed EXCEPT !.sms = "wait"], [freed EXCEPT !.retry = TRUE]} :
        rec.state = freed.state /\ rec.lease = "none" /\ rec.leaseLive = FALSE
  BY <1>2 DEF ItemRecord
<1>5. /\ HeardBy(freed, cur[2]).state = IF freed.state \in OpenStates THEN "heard" ELSE freed.state
      /\ HeardBy(freed, cur[2]).lease = "none" /\ HeardBy(freed, cur[2]).leaseLive = FALSE
  BY <1>2 DEF HeardBy, ItemRecord
<1>6. \A j \in Items \ {cur[1]} : item'[j] = item[j]
  BY <1>1 DEF RecordSend
<1>7. CASE item'[cur[1]] = HeardBy(freed, cur[2])
  BY <1>1, <1>2, <1>5, <1>6, <1>7 DEF Gets, Open
<1>8. CASE item'[cur[1]] # HeardBy(freed, cur[2])
  BY <1>1, <1>2, <1>3, <1>4, <1>6, <1>8 DEF Gets
<1> QED
  BY <1>7, <1>8

\* A text or surface delivery takes the item, or finds it taken or closed.
LEMMA ClaimEffect ==
  ASSUME TypeOK, NEW i \in Items, NEW r \in SendRoutes, ClaimSend(i, r)
  PROVE  \/ item' = item /\ UNCHANGED <<pc, cur>>
         \/ /\ Open(i) /\ ~Leased(i) /\ Gets(i, item[i].state, "send", TRUE)
            /\ \A j \in Items \ {i} : item'[j] = item[j]
            /\ pc' = "send" /\ cur' = <<i, r>>
<1>1. item \in [Items -> ItemRecord] /\ item[i] \in ItemRecord
  BY DEF TypeOK, ItemsOK
<1>2. ASSUME NEW rec \in ItemRecord
      PROVE  /\ [rec EXCEPT !.lease = "send", !.leaseLive = TRUE].state = rec.state
             /\ [rec EXCEPT !.lease = "send", !.leaseLive = TRUE].lease = "send"
             /\ [rec EXCEPT !.lease = "send", !.leaseLive = TRUE].leaseLive = TRUE
  BY DEF ItemRecord
<1>3. CASE Open(i) /\ ~Leased(i)
  <2>1. item' = [item EXCEPT ![i] = [item[i] EXCEPT !.lease = "send", !.leaseLive = TRUE]]
    BY <1>1, <1>3 DEF ClaimSend
  <2> QED
    BY <1>1, <1>2, <1>3, <2>1 DEF ClaimSend, Gets
<1> QED
  BY <1>3 DEF ClaimSend

\* A callback takes what the pass planned for it and is still open and free.
LEMMA BatchEffect ==
  ASSUME TypeOK, NEW b \in Batches, StartCallBatch(b)
  PROVE  /\ \A j \in Claimable : Gets(j, item[j].state, b, TRUE)
         /\ \A j \in Items \ Claimable : item'[j] = item[j]
<1>1. ASSUME NEW j \in Items
      PROVE  /\ [item[j] EXCEPT !.lease = b, !.leaseLive = TRUE].state = item[j].state
             /\ [item[j] EXCEPT !.lease = b, !.leaseLive = TRUE].lease = b
             /\ [item[j] EXCEPT !.lease = b, !.leaseLive = TRUE].leaseLive = TRUE
  BY DEF TypeOK, ItemsOK, ItemRecord
<1>2. Claimable \subseteq Items
  BY DEF Claimable, TypeOK, DispatcherOK
<1> QED
  BY <1>1, <1>2 DEF StartCallBatch, Gets

\* The step ends the hold of callback b: its items are free and stay open or closed.
Frees(b) ==
  /\ \A j \in Items \ BatchItems(b) : item'[j] = item[j]
  /\ \A j \in BatchItems(b) : /\ ~item'[j].leaseLive
                              /\ \/ item'[j].lease = "none"
                                 \/ item'[j].lease = b /\ CallLeaseLapses(b)
                              /\ \/ Open(j) /\ item'[j].state \in OpenStates
                                 \/ item'[j].state = item[j].state

LEMMA LandEffect ==
  ASSUME TypeOK, NEW b \in Batches,
         FinishCall(b) \/ CallLeaseLapses(b) \/ (CallPlacementFailed /\ cur = b)
  PROVE  Frees(b)
<1>1. \A j \in Items : item[j] \in ItemRecord
  BY DEF TypeOK, ItemsOK
<1>2. CASE FinishCall(b)
  <2>1. ASSUME NEW j \in BatchItems(b)
        PROVE  /\ ~item'[j].leaseLive /\ item'[j].lease = "none"
               /\ (Open(j) /\ item'[j].state \in OpenStates) \/ item'[j].state = item[j].state
    <3>1. j \in Items /\ item'[j] = AfterCall(item[j])
      BY <1>2 DEF FinishCall, BatchItems
    <3>2. CASE Open(j)
      <4>1. AfterCall(item[j]) =
              [Release(item[j]) EXCEPT !.state = "ready", !.offeredOn = None, !.missed = TRUE]
        BY <3>2 DEF AfterCall, Open
      <4>2. /\ AfterCall(item[j]).state = "ready"
            /\ AfterCall(item[j]).lease = "none" /\ AfterCall(item[j]).leaseLive = FALSE
        BY <1>1, <3>1, <4>1 DEF Release, ItemRecord
      <4> QED
        BY <3>1, <3>2, <4>2 DEF OpenStates
    <3>3. CASE ~Open(j)
      <4>1. AfterCall(item[j]) = Release(item[j])
        BY <3>3 DEF AfterCall, Open
      <4>2. /\ Release(item[j]).state = item[j].state
            /\ Release(item[j]).lease = "none" /\ Release(item[j]).leaseLive = FALSE
        BY <1>1, <3>1, Fields
      <4> QED
        BY <3>1, <4>1, <4>2
    <3> QED
      BY <3>2, <3>3
  <2> QED
    BY <1>2, <2>1 DEF FinishCall, Frees
<1>3. CASE CallLeaseLapses(b)
  BY <1>1, <1>3 DEF CallLeaseLapses, Frees, BatchItems, ItemRecord
<1>4. CASE CallPlacementFailed /\ cur = b
  <2>1. ASSUME NEW j \in Items
        PROVE  /\ [Release(item[j]) EXCEPT !.retry = TRUE, !.missed = TRUE].state = item[j].state
               /\ [Release(item[j]) EXCEPT !.retry = TRUE, !.missed = TRUE].leaseLive = FALSE
               /\ [Release(item[j]) EXCEPT !.retry = TRUE, !.missed = TRUE].lease = "none"
    BY <1>1 DEF Release, ItemRecord
  <2>2. \A j \in Items : item'[j] =
          IF item[j].lease = b
          THEN [Release(item[j]) EXCEPT !.retry = TRUE, !.missed = TRUE] ELSE item[j]
    BY <1>4 DEF CallPlacementFailed
  <2> QED
    BY <2>1, <2>2 DEF Frees, BatchItems
<1> QED
  BY <1>2, <1>3, <1>4

\* A callback that ends, or is not placed, leaves no lease of its own behind.
LEMMA ReleaseEffect ==
  ASSUME TypeOK, NEW b \in Batches, FinishCall(b) \/ (CallPlacementFailed /\ cur = b)
  PROVE  \A j \in Items : item'[j].lease # b
<1> SUFFICES ASSUME NEW j \in Items PROVE item'[j].lease # b
  OBVIOUS
<1>1. item[j] \in ItemRecord /\ b # "none"
  BY BatchIds DEF TypeOK, ItemsOK
<1>2. /\ Release(item[j]).lease = "none"
      /\ [Release(item[j]) EXCEPT !.retry = TRUE, !.missed = TRUE].lease = "none"
      /\ [Release(item[j]) EXCEPT !.state = "ready", !.offeredOn = None, !.missed = TRUE].lease = "none"
  BY <1>1 DEF Release, ItemRecord
<1>3. CASE FinishCall(b)
  <2>1. item'[j] = IF item[j].lease = b THEN AfterCall(item[j]) ELSE item[j]
    BY <1>3 DEF FinishCall, BatchItems
  <2>2. AfterCall(item[j]).lease = "none"
    BY <1>2 DEF AfterCall
  <2> QED
    BY <1>1, <2>1, <2>2
<1>4. CASE CallPlacementFailed /\ cur = b
  BY <1>1, <1>2, <1>4 DEF CallPlacementFailed
<1> QED
  BY <1>3, <1>4

LEMMA LapseEffect ==
  ASSUME TypeOK, NEW i \in Items, SendLeaseLapses(i)
  PROVE  /\ item[i].lease = "send" /\ Leased(i) /\ Gets(i, item[i].state, "send", FALSE)
         /\ \A j \in Items \ {i} : item'[j] = item[j]
  BY DEF SendLeaseLapses, TypeOK, ItemsOK, ItemRecord, Gets, Leased

\* The items S are heard: what a report, an acknowledgement or a message of the
\* owner does.
HeardOf(S) ==
  \/ \E c \in Calls, i \in Items : ReportHeard(c, i) /\ S = {i}
  \/ \E b \in Batches : AckBatch(b) /\ S = PlayedOut(b)
  \/ \E g \in Goals, r \in Routes : MarkHeardForGoal(g, r) /\ S = {i \in Items : GoalOf[i] = g}

\* The steps that open or close an item or change its hand; all others are quiet.
Loud ==
  \/ \E i \in Items : UpsertForGoal(i) \/ AddAnswer(i) \/ SendLeaseLapses(i)
  \/ \E i \in Items, r \in SendRoutes : ClaimSend(i, r)
  \/ \E g \in Goals : CancelForGoal(g)
  \/ \E b \in Batches : \/ StartCallBatch(b) \/ FinishCall(b) \/ CallLeaseLapses(b)
                        \/ CallPlacementFailed /\ cur = b
  \/ SettleSms \/ RecordSend \/ \E S \in SUBSET Items : HeardOf(S)

\* The other steps are quiet for every item, and leave the callback in flight.
LEMMA QuietStep ==
  ASSUME TypeOK, [Next]_vars, ~Loud
  PROVE  /\ \A i \in Items : Quiet(i)
         /\ flight'.batch = flight.batch /\ flight'.live = flight.live
<1>1. item \in [Items -> ItemRecord] /\ \A j \in Items : item[j] \in ItemRecord
  BY DEF TypeOK, ItemsOK
<1> DEFINE Good == \A i \in Items : Quiet(i)
<1>2. item' = item => Good
  BY DEF Quiet
<1>3. CallPlacementFailed => cur \in Batches
  BY DEF CallPlacementFailed, TypeOK, DispatcherOK
<1>4. ~(\E c \in Calls, i \in Items : ReportHeard(c, i)) /\ ~(\E b \in Batches : AckBatch(b))
      /\ ~(\E g \in Goals, r \in Routes : MarkHeardForGoal(g, r))
  BY DEF Loud, HeardOf, PlayedOut, BatchItems
<1>5. ASSUME NEW c \in Calls, MarkOffered(c) PROVE Good
  <2>1. ASSUME NEW i \in Items
        PROVE  /\ OfferedOn(i, c).lease = item[i].lease
               /\ OfferedOn(i, c).leaseLive = item[i].leaseLive
               /\ OfferedOn(i, c).state = IF Open(i) THEN "offered" ELSE item[i].state
    BY <1>1 DEF OfferedOn, ItemRecord
  <2> QED
    BY <1>5, <2>1 DEF MarkOffered, Quiet, OpenStates
<1>6. ASSUME NEW c \in Calls, EndActiveCall(c) PROVE Good
  BY <1>1, <1>6 DEF EndActiveCall, Quiet, Open, OpenStates, ItemRecord
<1>7. ASSUME NEW c \in Calls, ForgetCall(c) PROVE Good
  BY <1>1, <1>7 DEF ForgetCall, Quiet, ItemRecord
<1>8. ASSUME NEW g \in Goals, NEW r \in Overrides, SetRouteOverrideForGoal(g, r) PROVE Good
  BY <1>1, <1>8 DEF SetRouteOverrideForGoal, Quiet, ItemRecord
<1>9. ASSUME NEW j \in Items, ItemTimerLapses(j) PROVE Good
  <2>1. \E rec \in {[item[j] EXCEPT !.settling = FALSE], [item[j] EXCEPT !.retry = FALSE],
                    [item[j] EXCEPT !.sms = "late"]} : item' = [item EXCEPT ![j] = rec]
    BY <1>1, <1>9 DEF ItemTimerLapses
  <2>2. \A rec \in {[item[j] EXCEPT !.settling = FALSE], [item[j] EXCEPT !.retry = FALSE],
                    [item[j] EXCEPT !.sms = "late"]} :
          rec.state = item[j].state /\ rec.lease = item[j].lease /\ rec.leaseLive = item[j].leaseLive
    BY <1>1 DEF ItemRecord
  <2> QED
    BY <1>1, <2>1, <2>2 DEF Quiet
<1>10. ASSUME \/ UNCHANGED boxVars \/ CallPlaced \/ RequestCall \/ ActiveCallLapses
              \/ PresenceLapses \/ \E g \in Goals : MarkCancelling(g)
              \/ \E c \in Calls : SetActiveCall(c) \/ PendingForCall(c)
              \/ \E ch \in Channels : NoteOwnerActivity(ch)
              \/ \E r \in Overrides : SetDefaultRoute(r)
       PROVE  Good
  BY <1>2, <1>10 DEF boxVars, CallPlaced, RequestCall, ActiveCallLapses, PresenceLapses,
     MarkCancelling, SetActiveCall, PendingForCall, NoteOwnerActivity, SetDefaultRoute
<1>11. Good
  BY <1>3, <1>4, <1>5, <1>6, <1>7, <1>8, <1>9, <1>10, BoxWriters DEF Loud
<1>12. CallsUntouched
  BY <1>3, OtherWriters DEF Loud
<1> QED
  BY <1>11, <1>12 DEF CallsUntouched
------------------------------------------------------------------------------
(* One open item for each goal.                                              *)

\* No step opens an item that is there; a new one finds no other of its goal open.
LEMMA OpenStep ==
  ASSUME TypeOK, [Next]_vars
  PROVE  \/ \A i \in Items : item'[i].state \in OpenStates => Open(i)
         \/ \E i \in Items :
              /\ \A j \in Items \ {i} : item'[j].state \in OpenStates => Open(j)
              /\ GoalOf[i] \in Goals =>
                   \A j \in Items \ {i} : GoalOf[j] = GoalOf[i] => item'[j].state \notin OpenStates
<1> DEFINE NoneOpens == \A i \in Items : item'[i].state \in OpenStates => Open(i)
<1>1. ASSUME NEW i \in Items, UpsertForGoal(i)
      PROVE  \A j \in Items \ {i} :
               /\ item'[j].state \in OpenStates => Open(j)
               /\ GoalOf[j] = GoalOf[i] => item'[j].state \notin OpenStates
  BY <1>1, UpsertEffect DEF Gets, Supersedes, OpenItems, Open, OpenStates
<1>2. ASSUME NEW i \in Items, AddAnswer(i)
      PROVE  GoalOf[i] \notin Goals /\ \A j \in Items \ {i} : item'[j].state \in OpenStates => Open(j)
  BY <1>2, AnswerEffect, OutboxAssumption DEF AddAnswer, Open
<1>3. ASSUME NEW S, NEW how \in {"heard", "cancelled"}, Closes(S, how) PROVE NoneOpens
  BY <1>3 DEF Closes, Gets, Open, OpenStates
<1>4. ASSUME NEW S, HeardOf(S) PROVE NoneOpens
  <2>1. \E r : Heard(S, r)
    BY <1>4 DEF HeardOf, ReportHeard, AckBatch, MarkHeardForGoal
  <2> QED
    BY <1>3, <2>1, HeardEffect
<1>5. ASSUME NEW g \in Goals, CancelForGoal(g) PROVE NoneOpens
  BY <1>3, <1>5, CancelEffect
<1>6. CASE SettleSms \/ RecordSend
  <2>1. SettleSms => NoneOpens
    BY SettleEffect DEF Quiet, Gets, Open, OpenStates
  <2>2. RecordSend => NoneOpens
    BY RecordEffect DEF Gets, Open, OpenStates
  <2> QED
    BY <1>6, <2>1, <2>2
<1>7. ASSUME NEW i \in Items, NEW r \in SendRoutes, ClaimSend(i, r) PROVE NoneOpens
  BY <1>7, ClaimEffect DEF Gets, Open
<1>8. ASSUME NEW b \in Batches, StartCallBatch(b) PROVE NoneOpens
  BY <1>8, BatchEffect DEF Gets, Open
<1>9. ASSUME NEW b \in Batches,
             FinishCall(b) \/ CallLeaseLapses(b) \/ (CallPlacementFailed /\ cur = b)
      PROVE  NoneOpens
  BY <1>9, LandEffect DEF Frees, Open
<1>10. ASSUME NEW i \in Items, SendLeaseLapses(i) PROVE NoneOpens
  BY <1>10, LapseEffect DEF Gets, Open
<1>11. ASSUME ~Loud PROVE NoneOpens
  BY <1>11, QuietStep DEF Quiet, Open
<1> QED
  BY <1>1, <1>2, <1>4, <1>5, <1>6, <1>7, <1>8, <1>9, <1>10, <1>11 DEF Loud

\* OneOpenItemPerGoal for every instance.
THEOREM OneOpen == Spec => []OneOpenItemPerGoal
<1>1. Init => OneOpenItemPerGoal
  BY DEF Init, OneOpenItemPerGoal, OpenItems, Open, OpenStates, Absent, NewItem
<1>2. TypeOK /\ OneOpenItemPerGoal /\ [Next]_vars => OneOpenItemPerGoal'
  <2> SUFFICES ASSUME TypeOK, OneOpenItemPerGoal, [Next]_vars, NEW i \in OpenItems', NEW j \in OpenItems',
                      GoalOf[i] = GoalOf[j], GoalOf[i] \in Goals
               PROVE  i = j
    BY DEF OneOpenItemPerGoal
  <2>1. /\ i \in Items /\ item'[i].state \in OpenStates
        /\ j \in Items /\ item'[j].state \in OpenStates
    BY DEF OpenItems, Open
  <2> QED
    BY <2>1, OpenStep DEF OneOpenItemPerGoal, OpenItems
<1> QED
  BY <1>1, <1>2, TypeCorrect, PTL DEF Spec
------------------------------------------------------------------------------
(* Whose lease it is.                                                        *)

\* A lease that nobody holds does not run; and the item of a send is still leased to
\* it, or closed and in nobody's hand.
LeaseInv ==
  /\ \A i \in Items : item[i].lease = "none" => ~item[i].leaseLive
  /\ pc \in {"send", "sent"} =>
       /\ item[cur[1]].state # "absent"
       /\ item[cur[1]].lease = "send" \/ (item[cur[1]].lease = "none" /\ ~Open(cur[1]))

\* A step leaves an item in the hand of its send, or closes it and frees it.
Loosens(i) ==
  /\ item'[i].state # "absent"
  /\ \/ item'[i].lease = item[i].lease /\ (~Open(i) => item'[i].state = item[i].state)
     \/ item'[i].lease = "none" /\ item'[i].state \notin OpenStates

LEMMA LooseStep ==
  ASSUME TypeOK, [Next]_vars, pc \in {"send", "sent"}, ~RecordSend,
         NEW i \in Items, item[i].lease \in {"none", "send"}, item[i].state # "absent"
  PROVE  Loosens(i)
<1> USE DEF Loosens, Open, OpenStates
<1>1. item'[i] = item[i] => Loosens(i)
  OBVIOUS
<1>2. ASSUME NEW j \in Items, UpsertForGoal(j) PROVE Loosens(i)
  BY <1>1, <1>2, UpsertEffect DEF Gets
<1>3. ASSUME NEW j \in Items, AddAnswer(j) PROVE Loosens(i)
  BY <1>1, <1>3, AnswerEffect
<1>4. ASSUME NEW S, NEW how \in {"heard", "cancelled"}, Closes(S, how) PROVE Loosens(i)
  BY <1>1, <1>4 DEF Closes, Gets
<1>5. ASSUME NEW S, HeardOf(S) PROVE Loosens(i)
  <2>1. \E r : Heard(S, r)
    BY <1>5 DEF HeardOf, ReportHeard, AckBatch, MarkHeardForGoal
  <2> QED
    BY <1>4, <2>1, HeardEffect
<1>6. ASSUME NEW g \in Goals, CancelForGoal(g) PROVE Loosens(i)
  BY <1>4, <1>6, CancelEffect
<1>7. ASSUME NEW b \in Batches, FinishCall(b) \/ CallLeaseLapses(b) PROVE Loosens(i)
  <2>1. i \notin BatchItems(b)
    BY BatchIds DEF BatchItems
  <2> QED
    BY <1>1, <1>7, <2>1, LandEffect DEF Frees
<1>8. ASSUME NEW j \in Items, SendLeaseLapses(j) PROVE Loosens(i)
  BY <1>1, <1>8, LapseEffect DEF Gets
<1>9. ~SettleSms /\ ~CallPlacementFailed /\ (\A j \in Items, r \in SendRoutes : ~ClaimSend(j, r))
      /\ \A b \in Batches : ~StartCallBatch(b)
  BY DEF SettleSms, CallPlacementFailed, ClaimSend, StartCallBatch
<1>10. ASSUME ~Loud PROVE Loosens(i)
  BY <1>10, QuietStep DEF Quiet
<1> QED
  BY <1>2, <1>3, <1>5, <1>6, <1>7, <1>8, <1>9, <1>10 DEF Loud

\* A lease nobody holds is not made to run.
LEMMA IdleStep ==
  ASSUME TypeOK, LeaseInv, [Next]_vars, NEW i \in Items
  PROVE  item'[i].lease = "none" => ~item'[i].leaseLive
<1> DEFINE Idle == item'[i].lease = "none" => ~item'[i].leaseLive
<1>1. item'[i] = item[i] => Idle
  BY DEF LeaseInv
<1>2. ASSUME NEW j \in Items, UpsertForGoal(j) PROVE Idle
  BY <1>1, <1>2, UpsertEffect DEF Gets
<1>3. ASSUME NEW j \in Items, AddAnswer(j) PROVE Idle
  BY <1>1, <1>3, AnswerEffect DEF Gets
<1>4. ASSUME NEW S, NEW how \in {"heard", "cancelled"}, Closes(S, how) PROVE Idle
  BY <1>1, <1>4 DEF Closes, Gets
<1>5. ASSUME NEW S, HeardOf(S) PROVE Idle
  <2>1. \E r : Heard(S, r)
    BY <1>5 DEF HeardOf, ReportHeard, AckBatch, MarkHeardForGoal
  <2> QED
    BY <1>4, <2>1, HeardEffect
<1>6. ASSUME NEW g \in Goals, CancelForGoal(g) PROVE Idle
  BY <1>4, <1>6, CancelEffect
<1>7. SettleSms => Idle
  BY <1>1, SettleEffect DEF Quiet, Gets, LeaseInv
<1>8. RecordSend => Idle
  BY <1>1, RecordEffect DEF Gets
<1>9. ASSUME NEW j \in Items, NEW r \in SendRoutes, ClaimSend(j, r) PROVE Idle
  BY <1>1, <1>9, ClaimEffect DEF Gets
<1>10. ASSUME NEW b \in Batches, StartCallBatch(b) PROVE Idle
  BY <1>1, <1>10, BatchEffect, BatchIds DEF Gets
<1>11. ASSUME NEW b \in Batches,
              FinishCall(b) \/ CallLeaseLapses(b) \/ (CallPlacementFailed /\ cur = b)
       PROVE  Idle
  BY <1>1, <1>11, LandEffect DEF Frees
<1>12. ASSUME NEW j \in Items, SendLeaseLapses(j) PROVE Idle
  BY <1>1, <1>12, LapseEffect DEF Gets
<1>13. ASSUME ~Loud PROVE Idle
  BY <1>13, QuietStep DEF Quiet, LeaseInv
<1> QED
  BY <1>2, <1>3, <1>5, <1>6, <1>7, <1>8, <1>9, <1>10, <1>11, <1>12, <1>13 DEF Loud

\* The dispatcher goes on with a send, or claims the item of a new one.
LEMMA SendPc ==
  ASSUME TypeOK, [Next]_vars, pc' \in {"send", "sent"}
  PROVE  \/ pc \in {"send", "sent"} /\ cur' = cur /\ ~RecordSend
         \/ \E i \in Items, r \in SendRoutes : ClaimSend(i, r) /\ pc = "run"
<1>1. RecordSend => pc' = "run"
  BY DEF RecordSend
<1>2. UNCHANGED dispVars => pc \in {"send", "sent"} /\ cur' = cur
  BY DEF dispVars
<1>3. Crash => FALSE
  BY DEF Crash
<1>4. ASSUME NEW i \in Items, NEW r \in SendRoutes, ClaimSend(i, r) PROVE pc = "run"
  BY <1>4 DEF ClaimSend
<1>5. CASE SendAccepted \/ SendFailed
  BY <1>1, <1>5 DEF SendAccepted, SendFailed, RecordSend
<1>6. ~StartPass /\ ~PlanPass /\ ~EndPass /\ ~SkipCallBatch /\ ~SettleSms
  BY DEF StartPass, PlanPass, EndPass, SkipCallBatch, SettleSms
<1>7. /\ ~PlaceCallback /\ ~PlaceCallbackFails /\ ~PlaceCallbackReplyLost
      /\ ~CallPlaced /\ ~CallPlacementFailed
  BY DEF PlaceCallback, PlaceCallbackFails, PlaceCallbackReplyLost, CallPlaced,
     CallPlacementFailed
<1>8. (\A i \in Items : ~ReadSms(i)) /\ \A b \in Batches : ~StartCallBatch(b)
  BY DEF ReadSms, StartCallBatch
<1> QED
  BY <1>1, <1>2, <1>3, <1>4, <1>5, <1>6, <1>7, <1>8, DispatcherWriters DEF Dispatch

LEMMA LeaseStep ==
  ASSUME TypeOK, LeaseInv, [Next]_vars
  PROVE  LeaseInv'
<1> SUFFICES ASSUME pc' \in {"send", "sent"}
             PROVE  /\ item'[cur'[1]].state # "absent"
                    /\ \/ item'[cur'[1]].lease = "send"
                       \/ item'[cur'[1]].lease = "none" /\ item'[cur'[1]].state \notin OpenStates
  BY IdleStep DEF LeaseInv, Open
<1>1. CASE pc \in {"send", "sent"} /\ cur' = cur /\ ~RecordSend
  <2>1. cur[1] \in Items
    BY <1>1 DEF TypeOK, DispatcherOK
  <2>2. Loosens(cur[1])
    BY <1>1, <2>1, LooseStep DEF LeaseInv
  <2> QED
    BY <1>1, <2>2 DEF LeaseInv, Loosens, Open
<1>2. CASE \E i \in Items, r \in SendRoutes : ClaimSend(i, r) /\ pc = "run"
  <2>1. PICK i \in Items, r \in SendRoutes : ClaimSend(i, r) /\ pc = "run"
    BY <1>2
  <2>2. cur' = <<i, r>> /\ Open(i) /\ Gets(i, item[i].state, "send", TRUE)
    BY <2>1, ClaimEffect
  <2>3. item'[i].lease = "send" /\ item'[i].state # "absent"
    BY <2>2 DEF Gets, Open, OpenStates
  <2> QED
    BY <2>2, <2>3
<1> QED
  BY <1>1, <1>2, SendPc

\* The lease of a send is its own, or was given up with the item.
LEMMA LeaseHeld == Spec => []LeaseInv
<1>1. Init => LeaseInv
  <2>1. Absent.lease = "none" /\ Absent.leaseLive = FALSE
    BY DEF Absent, NewItem
  <2> QED
    BY <2>1 DEF Init, LeaseInv
<1>2. TypeOK /\ LeaseInv /\ [Next]_vars => LeaseInv'
  BY LeaseStep
<1> QED
  BY <1>1, <1>2, TypeCorrect, PTL DEF Spec

\* SendReleasesItsOwnLease for every instance.
THEOREM OwnLease == Spec => []SendReleasesItsOwnLease
<1>1. LeaseInv => SendReleasesItsOwnLease
  BY DEF LeaseInv, SendReleasesItsOwnLease
<1> QED
  BY <1>1, LeaseHeld, PTL
------------------------------------------------------------------------------
(* The promise is kept.                                                      *)

\* The state of OwnerPromise that a state of the outbox stands for.
Fate == [i \in Items |-> IF Open(i) THEN "open"
                         ELSE IF item[i].state \in {"absent", "heard"}
                              THEN item[i].state ELSE "dropped"]
Hand == [i \in Items |-> IF Leased(i) THEN item[i].lease ELSE None]
Flying == IF Ringing THEN flight.batch ELSE None

\* The actions of OwnerPromise, of these.
LEMMA MapStutter ==
  ASSUME Fate' = Fate, Hand' = Hand, Flying' = Flying
  PROVE  UNCHANGED Promise!vars
  BY DEF Promise!vars, Fate, Hand, Flying

LEMMA MapPublish ==
  ASSUME NEW i \in Items, NEW S \in SUBSET Items,
         Fate[i] = "absent", \A j \in S : Fate[j] = "open",
         Fate' = [j \in Items |-> IF j = i THEN "open" ELSE IF j \in S THEN "dropped" ELSE Fate[j]],
         Hand' = [j \in Items |-> IF j \in S \cup {i} THEN None ELSE Hand[j]],
         Flying' = Flying
  PROVE  Promise!Next
  BY DEF Promise!Next, Promise!Publish, Promise!Open, Fate, Hand, Flying

LEMMA MapClose ==
  ASSUME NEW S \in SUBSET Items, NEW how \in {"heard", "dropped"},
         \A j \in S : Fate[j] = "open",
         Fate' = [j \in Items |-> IF j \in S THEN how ELSE Fate[j]],
         Hand' \in [Items -> {"send", None} \cup Batches],
         \A j \in Items : Hand'[j] = Hand[j] \/ (j \in S /\ Hand'[j] = None),
         Flying' = Flying
  PROVE  Promise!Next
  BY DEF Promise!Next, Promise!Close, Promise!Open, Promise!Hands, Fate, Hand, Flying

LEMMA MapTake ==
  ASSUME NEW i \in Items, Fate[i] = "open", Hand[i] = None,
         Hand' = [Hand EXCEPT ![i] = "send"], Fate' = Fate, Flying' = Flying
  PROVE  Promise!Next
  BY DEF Promise!Next, Promise!Take, Promise!Open, Fate, Hand, Flying

LEMMA MapLetGo ==
  ASSUME NEW i \in Items, Hand[i] = "send",
         Hand' = [Hand EXCEPT ![i] = None], Fate' = Fate, Flying' = Flying
  PROVE  Promise!Next
  BY DEF Promise!Next, Promise!LetGo, Fate, Hand, Flying

LEMMA MapDial ==
  ASSUME NEW b \in Batches, NEW S \in SUBSET Items, Flying = None,
         \A j \in S : Fate[j] = "open" /\ Hand[j] = None,
         Flying' = b, Hand' = [j \in Items |-> IF j \in S THEN b ELSE Hand[j]], Fate' = Fate
  PROVE  Promise!Next
  BY DEF Promise!Next, Promise!Dial, Promise!Open, Fate, Hand, Flying

LEMMA MapLand ==
  ASSUME NEW b \in Batches, Flying = b, Flying' = None,
         Hand' = [j \in Items |-> IF Hand[j] = b THEN None ELSE Hand[j]], Fate' = Fate
  PROVE  Promise!Next
  BY DEF Promise!Next, Promise!Land, Fate, Hand, Flying

\* What the images of an item are, before and after a step.
LEMMA Images ==
  ASSUME NEW i \in Items
  PROVE  /\ Fate[i] = IF Open(i) THEN "open"
                      ELSE IF item[i].state \in {"absent", "heard"} THEN item[i].state ELSE "dropped"
         /\ Hand[i] = IF Leased(i) THEN item[i].lease ELSE None
         /\ Fate'[i] = IF item'[i].state \in OpenStates THEN "open"
                       ELSE IF item'[i].state \in {"absent", "heard"} THEN item'[i].state ELSE "dropped"
         /\ Hand'[i] = IF item'[i].lease # "none" /\ item'[i].leaseLive THEN item'[i].lease ELSE None
  BY DEF Fate, Hand, Open, Leased

LEMMA SameImages ==
  ASSUME NEW i \in Items, Quiet(i) \/ item'[i] = item[i]
  PROVE  Fate'[i] = Fate[i] /\ Hand'[i] = Hand[i]
  BY Images DEF Quiet, Open, Leased

LEMMA FunctionImages ==
  /\ Fate = [i \in Items |-> Fate[i]] /\ Hand = [i \in Items |-> Hand[i]]
  /\ Fate' = [i \in Items |-> Fate'[i]] /\ Hand' = [i \in Items |-> Hand'[i]]
  BY DEF Fate, Hand

\* A step that leaves the callback in flight as it was leaves it flying or not.
LEMMA SameFlying ==
  ASSUME flight'.batch = flight.batch, flight'.live = flight.live
  PROVE  Flying' = Flying
  BY DEF Flying, Ringing

\* The items that are closed.
LEMMA ClosesMaps ==
  ASSUME TypeOK, TypeOK', NEW S \in SUBSET Items, NEW how \in {"heard", "cancelled"}, Closes(S, how),
         UNCHANGED flight
  PROVE  Promise!Next
<1> DEFINE fate == IF how = "heard" THEN "heard" ELSE "dropped"
<1>1. \A j \in S : Fate[j] = "open" /\ Fate'[j] = fate /\ Hand'[j] = None
  BY Images DEF Closes, Gets, OpenStates
<1>2. \A j \in Items \ S : Fate'[j] = Fate[j] /\ Hand'[j] = Hand[j]
  BY SameImages DEF Closes
<1>3. Hand' \in [Items -> {"send", None} \cup Batches]
  BY DEF Hand, Leased, TypeOK, ItemsOK, ItemRecord
<1>4. Fate' = [j \in Items |-> IF j \in S THEN fate ELSE Fate[j]]
  BY <1>1, <1>2, FunctionImages
<1>5. Flying' = Flying
  BY SameFlying
<1>6. fate \in {"heard", "dropped"}
  OBVIOUS
<1> HIDE DEF fate
<1> QED
  BY <1>1, <1>2, <1>3, <1>4, <1>5, <1>6, MapClose

\* One item that is heard, is let go of, or neither.
LEMMA OneItemMaps ==
  ASSUME TypeOK, TypeOK', NEW i \in Items, \A j \in Items \ {i} : item'[j] = item[j],
         UNCHANGED flight,
         \/ Quiet(i)
         \/ Open(i) /\ item'[i].state = "heard" /\ (Hand'[i] = Hand[i] \/ Hand'[i] = None)
         \/ /\ item'[i].state = item[i].state \/ (Open(i) /\ item'[i].state \in OpenStates)
            /\ Hand'[i] = None /\ Hand[i] \in {"send", None}
  PROVE  [Promise!Next]_(Promise!vars)
<1>1. \A j \in Items \ {i} : Fate'[j] = Fate[j] /\ Hand'[j] = Hand[j]
  BY SameImages
<1>2. Flying' = Flying
  BY SameFlying
<1>3. CASE Quiet(i)
  <2>1. Fate' = Fate /\ Hand' = Hand
    BY <1>1, <1>3, SameImages, FunctionImages
  <2> QED
    BY <1>2, <2>1, MapStutter
<1>4. CASE Open(i) /\ item'[i].state = "heard" /\ (Hand'[i] = Hand[i] \/ Hand'[i] = None)
  <2>1. Fate[i] = "open" /\ Fate'[i] = "heard"
    BY <1>4, Images DEF OpenStates
  <2>2. Fate' = [j \in Items |-> IF j \in {i} THEN "heard" ELSE Fate[j]]
    BY <1>1, <2>1, FunctionImages
  <2>3. Hand' \in [Items -> {"send", None} \cup Batches]
    BY DEF Hand, Leased, TypeOK, ItemsOK, ItemRecord
  <2>4. \A j \in Items : Hand'[j] = Hand[j] \/ (j \in {i} /\ Hand'[j] = None)
    BY <1>1, <1>4
  <2> QED
    BY <1>2, <2>1, <2>2, <2>3, <2>4, MapClose
<1>5. CASE /\ item'[i].state = item[i].state \/ (Open(i) /\ item'[i].state \in OpenStates)
           /\ Hand'[i] = None /\ Hand[i] \in {"send", None}
  <2>1. Fate' = Fate
    <3>1. Fate'[i] = Fate[i]
      BY <1>5, Images DEF Open
    <3> QED
      BY <1>1, <3>1, FunctionImages
  <2>2. CASE Hand[i] = None
    <3>1. Hand' = Hand
      BY <1>1, <1>5, <2>2, FunctionImages
    <3> QED
      BY <1>2, <2>1, <3>1, MapStutter
  <2>3. CASE Hand[i] = "send"
    <3>1. Hand' = [Hand EXCEPT ![i] = None]
      BY <1>1, <1>5, <2>3, FunctionImages
    <3> QED
      BY <1>2, <2>1, <2>3, <3>1, MapLetGo
  <2> QED
    BY <1>5, <2>2, <2>3
<1> QED
  BY <1>3, <1>4, <1>5

\* The end of callback b: it lands, or had landed, and what it carried is free.
LEMMA LandMaps ==
  ASSUME TypeOK, HeldItemsHaveTheirCall, NEW b \in Batches,
         FinishCall(b) \/ CallLeaseLapses(b) \/ (CallPlacementFailed /\ cur = b)
  PROVE  [Promise!Next]_(Promise!vars)
<1>1. Frees(b)
  BY LandEffect
<1>2. Fate' = Fate
  <2>1. \A j \in Items : Fate'[j] = Fate[j]
    BY <1>1, Images DEF Frees, Open
  <2> QED
    BY <2>1, FunctionImages
<1>3. /\ flight.batch = b => ~(flight'.batch = b /\ flight'.live) /\ flight'.batch \in {b, None}
      /\ flight.batch # b => UNCHANGED flight
  <2>1. CASE FinishCall(b) \/ (CallPlacementFailed /\ cur = b)
    <3>1. flight' = IF flight.batch = b THEN NoFlight ELSE flight
      BY <2>1 DEF FinishCall, CallPlacementFailed
    <3> QED
      BY <3>1 DEF NoFlight
  <2>2. CASE CallLeaseLapses(b)
    BY <2>2 DEF CallLeaseLapses, TypeOK, PresenceOK
  <2> QED
    BY <2>1, <2>2
<1>4. \A j \in Items \ BatchItems(b) : Hand'[j] = Hand[j] /\ Hand[j] # b
  BY <1>1, Images, SameImages, BatchIds DEF Frees, BatchItems
<1>5. \A j \in BatchItems(b) : Hand'[j] = None /\ Hand[j] \in {b, None}
  BY <1>1, Images DEF Frees, BatchItems
<1>6. CASE flight.batch = b /\ flight.live
  <2>1. Flying = b /\ Flying' = None
    BY <1>3, <1>6, BatchIds DEF Flying, Ringing
  <2>2. Hand' = [j \in Items |-> IF Hand[j] = b THEN None ELSE Hand[j]]
    BY <1>4, <1>5, FunctionImages
  <2> QED
    BY <1>2, <2>1, <2>2, MapLand
<1>7. CASE ~(flight.batch = b /\ flight.live)
  <2>1. Flying' = Flying
    BY <1>3, <1>7 DEF Flying, Ringing
  <2>2. \A j \in BatchItems(b) : Hand[j] = None
    <3>1. \A j \in BatchItems(b) : ~Leased(j)
      BY <1>7 DEF HeldItemsHaveTheirCall, BatchItems, Leased
    <3> QED
      BY <3>1, Images DEF BatchItems
  <2>3. Hand' = Hand
    BY <1>4, <1>5, <2>2, FunctionImages
  <2> QED
    BY <1>2, <2>1, <2>3, MapStutter
<1> QED
  BY <1>6, <1>7

\* Every step of the outbox is a step of OwnerPromise, or changes nothing of it.
LEMMA PromiseStep ==
  ASSUME TypeOK, TypeOK', HeldItemsHaveTheirCall, LeaseInv, [Next]_vars
  PROVE  [Promise!Next]_(Promise!vars)
<1> DEFINE Good == [Promise!Next]_(Promise!vars)
<1>1. ASSUME NEW i \in Items, UpsertForGoal(i) PROVE Good
  <2>1. Supersedes(i) \in SUBSET Items
    BY DEF Supersedes, OpenItems
  <2>2. Fate[i] = "absent" /\ Fate'[i] = "open" /\ Hand'[i] = None
    BY <1>1, UpsertEffect, Images DEF Gets, Open, OpenStates
  <2>3. \A j \in Supersedes(i) : Fate[j] = "open" /\ Fate'[j] = "dropped" /\ Hand'[j] = None
    BY <1>1, <2>1, UpsertEffect, Images DEF Gets, Supersedes, OpenItems, OpenStates
  <2>4. \A j \in Items \ (Supersedes(i) \cup {i}) : Fate'[j] = Fate[j] /\ Hand'[j] = Hand[j]
    BY <1>1, UpsertEffect, SameImages
  <2>5. i \notin Supersedes(i)
    BY <1>1, UpsertEffect
  <2>6. Fate' = [j \in Items |-> IF j = i THEN "open" ELSE IF j \in Supersedes(i) THEN "dropped" ELSE Fate[j]]
    BY <2>2, <2>3, <2>4, FunctionImages
  <2>7. Hand' = [j \in Items |-> IF j \in Supersedes(i) \cup {i} THEN None ELSE Hand[j]]
    BY <2>2, <2>3, <2>4, FunctionImages
  <2>8. Flying' = Flying
    BY <1>1, SameFlying DEF UpsertForGoal
  <2> QED
    BY <2>1, <2>2, <2>3, <2>6, <2>7, <2>8, MapPublish
<1>2. ASSUME NEW i \in Items, AddAnswer(i) PROVE Good
  <2>1. Fate[i] = "absent" /\ Fate'[i] = "open" /\ Hand'[i] = None
    BY <1>2, AnswerEffect, Images DEF Gets, Open, OpenStates
  <2>2. \A j \in Items \ {i} : Fate'[j] = Fate[j] /\ Hand'[j] = Hand[j]
    BY <1>2, AnswerEffect, SameImages
  <2> PICK S \in SUBSET Items : S = {}
    OBVIOUS
  <2>3. Fate' = [j \in Items |-> IF j = i THEN "open" ELSE IF j \in S THEN "dropped" ELSE Fate[j]]
    BY <2>1, <2>2, FunctionImages
  <2>4. Hand' = [j \in Items |-> IF j \in S \cup {i} THEN None ELSE Hand[j]]
    BY <2>1, <2>2, FunctionImages
  <2>5. Flying' = Flying
    BY <1>2, SameFlying DEF AddAnswer
  <2> QED
    BY <2>1, <2>3, <2>4, <2>5, MapPublish
<1>3. ASSUME NEW g \in Goals, CancelForGoal(g) PROVE Good
  BY <1>3, CancelEffect, ClosesMaps DEF CancelForGoal
<1>4. ASSUME NEW S, HeardOf(S) PROVE Good
  <2>1. (\E r : Heard(S, r)) /\ UNCHANGED flight
    BY <1>4 DEF HeardOf, ReportHeard, AckBatch, MarkHeardForGoal
  <2> QED
    BY <2>1, HeardEffect, ClosesMaps
<1>5. CASE SettleSms
  <2>1. Open(cur[1]) /\ Gets(cur[1], "heard", item[cur[1]].lease, item[cur[1]].leaseLive)
          => Hand'[cur[1]] = Hand[cur[1]]
    BY <1>5, SettleEffect, Images DEF Gets, Leased
  <2>2. UNCHANGED flight
    BY <1>5 DEF SettleSms
  <2> QED
    BY <1>5, <2>1, <2>2, SettleEffect, OneItemMaps DEF Gets
<1>6. CASE RecordSend
  <2>1. Hand'[cur[1]] = None
    BY <1>6, RecordEffect, Images DEF Gets
  <2>2. Hand[cur[1]] \in {"send", None}
    BY <1>6, RecordEffect, Images DEF LeaseInv, RecordSend, Leased
  <2>3. UNCHANGED flight
    BY <1>6 DEF RecordSend
  <2> QED
    BY <1>6, <2>1, <2>2, <2>3, RecordEffect, OneItemMaps DEF Gets
<1>7. ASSUME NEW i \in Items, NEW r \in SendRoutes, ClaimSend(i, r) PROVE Good
  <2>1. Flying' = Flying
    BY <1>7, SameFlying DEF ClaimSend
  <2>2. CASE item' = item
    BY <2>1, <2>2, SameImages, FunctionImages, MapStutter
  <2>3. CASE item' # item
    <3>1. /\ Open(i) /\ ~Leased(i) /\ Gets(i, item[i].state, "send", TRUE)
          /\ \A j \in Items \ {i} : item'[j] = item[j]
      BY <1>7, <2>3, ClaimEffect
    <3>2. Fate[i] = "open" /\ Fate'[i] = "open" /\ Hand[i] = None /\ Hand'[i] = "send"
      BY <3>1, Images DEF Gets, Open
    <3>3. \A j \in Items \ {i} : Fate'[j] = Fate[j] /\ Hand'[j] = Hand[j]
      BY <3>1, SameImages
    <3>4. Fate' = Fate /\ Hand' = [Hand EXCEPT ![i] = "send"]
      BY <3>2, <3>3, FunctionImages
    <3> QED
      BY <2>1, <3>2, <3>4, MapTake
  <2> QED
    BY <2>2, <2>3
<1>8. ASSUME NEW b \in Batches, StartCallBatch(b) PROVE Good
  <2>1. Claimable \in SUBSET Items
    BY DEF Claimable, TypeOK, DispatcherOK
  <2>2. \A j \in Claimable : /\ Fate[j] = "open" /\ Hand[j] = None
                             /\ Fate'[j] = Fate[j] /\ Hand'[j] = b
    <3> SUFFICES ASSUME NEW j \in Claimable
                 PROVE  /\ Fate[j] = "open" /\ Hand[j] = None
                        /\ Fate'[j] = Fate[j] /\ Hand'[j] = b
      OBVIOUS
    <3>1. j \in Items /\ Open(j) /\ ~Leased(j)
      BY <2>1 DEF Claimable
    <3>2. Gets(j, item[j].state, b, TRUE)
      BY <1>8, BatchEffect
    <3>3. Fate[j] = "open" /\ Hand[j] = None
      BY <3>1, Images
    <3>4. Fate'[j] = "open" /\ Hand'[j] = b
      BY <3>1, <3>2, Images, BatchIds DEF Gets, Open
    <3> QED
      BY <3>3, <3>4
  <2>3. \A j \in Items \ Claimable : Fate'[j] = Fate[j] /\ Hand'[j] = Hand[j]
    BY <1>8, BatchEffect, SameImages
  <2>4. Fate' = Fate /\ Hand' = [j \in Items |-> IF j \in Claimable THEN b ELSE Hand[j]]
    BY <2>2, <2>3, FunctionImages
  <2>5. Flying = None /\ Flying' = b
    BY <1>8, BatchIds DEF StartCallBatch, Flying, Ringing
  <2> QED
    BY <2>1, <2>2, <2>4, <2>5, MapDial
<1>9. ASSUME NEW b \in Batches,
             FinishCall(b) \/ CallLeaseLapses(b) \/ (CallPlacementFailed /\ cur = b)
      PROVE  Good
  BY <1>9, LandMaps
<1>10. ASSUME NEW i \in Items, SendLeaseLapses(i) PROVE Good
  <2>1. Hand[i] = "send" /\ Hand'[i] = None /\ item'[i].state = item[i].state
    BY <1>10, LapseEffect, Images DEF Gets
  <2>2. UNCHANGED flight
    BY <1>10 DEF SendLeaseLapses
  <2> QED
    BY <1>10, <2>1, <2>2, LapseEffect, OneItemMaps
<1>11. ASSUME ~Loud PROVE Good
  BY <1>11, QuietStep, SameImages, SameFlying, FunctionImages, MapStutter
<1> QED
  BY <1>1, <1>2, <1>3, <1>4, <1>5, <1>6, <1>7, <1>8, <1>9, <1>10, <1>11 DEF Loud

\* The outbox implements OwnerPromise: KeepsPromise for every instance.
THEOREM Implements == Spec => KeepsPromise
<1>1. Init => Promise!Init
  <2> SUFFICES ASSUME Init PROVE Promise!Init
    OBVIOUS
  <2>1. \A i \in Items : item[i].state = "absent" /\ item[i].leaseLive = FALSE
    BY DEF Init, Absent, NewItem
  <2> QED
    BY <2>1 DEF Init, Promise!Init, Open, OpenStates, Leased, Ringing, NoFlight
<1>2. TypeOK /\ TypeOK' /\ HeldItemsHaveTheirCall /\ LeaseInv /\ [Next]_vars
        => [Promise!Next]_(Promise!vars)
  BY PromiseStep
<1> QED
  BY <1>1, <1>2, TypeCorrect, HeldItems, LeaseHeld, PTL DEF Spec, KeepsPromise, Promise!Spec
------------------------------------------------------------------------------
(* Texts and their receipts.                                                 *)

\* A lease begins to run only for a send or a callback that the pass planned.
LEMMA LeaseBegins ==
  ASSUME TypeOK, [Next]_vars, NEW i \in Items, item'[i].leaseLive, ~item[i].leaseLive
  PROVE  \/ \E r \in SendRoutes : ClaimSend(i, r)
         \/ \E b \in Batches : StartCallBatch(b) /\ i \in Claimable
<1>0. item'[i] # item[i]
  OBVIOUS
<1>1. ASSUME NEW j \in Items, UpsertForGoal(j) PROVE FALSE
  BY <1>0, <1>1, UpsertEffect DEF Gets
<1>2. ASSUME NEW j \in Items, AddAnswer(j) PROVE FALSE
  BY <1>0, <1>2, AnswerEffect DEF Gets
<1>3. ASSUME NEW S, NEW how, Closes(S, how) PROVE FALSE
  BY <1>0, <1>3 DEF Closes, Gets
<1>4. ASSUME NEW S, HeardOf(S) PROVE FALSE
  <2>1. \E r : Heard(S, r)
    BY <1>4 DEF HeardOf, ReportHeard, AckBatch, MarkHeardForGoal
  <2> QED
    BY <1>3, <2>1, HeardEffect
<1>5. ASSUME NEW g \in Goals, CancelForGoal(g) PROVE FALSE
  BY <1>3, <1>5, CancelEffect
<1>6. ~SettleSms
  BY <1>0, SettleEffect DEF Quiet, Gets
<1>7. ~RecordSend
  BY <1>0, RecordEffect DEF Gets
<1>8. ASSUME NEW j \in Items, NEW r \in SendRoutes, ClaimSend(j, r) PROVE j = i
  BY <1>0, <1>8, ClaimEffect
<1>9. ASSUME NEW b \in Batches, StartCallBatch(b) PROVE i \in Claimable
  BY <1>0, <1>9, BatchEffect
<1>10. ASSUME NEW b \in Batches,
              FinishCall(b) \/ CallLeaseLapses(b) \/ (CallPlacementFailed /\ cur = b)
       PROVE  FALSE
  BY <1>0, <1>10, LandEffect DEF Frees
<1>11. ASSUME NEW j \in Items, SendLeaseLapses(j) PROVE FALSE
  BY <1>0, <1>11, LapseEffect DEF Gets
<1>12. Loud
  BY QuietStep DEF Quiet
<1> QED
  BY <1>1, <1>2, <1>4, <1>5, <1>6, <1>7, <1>8, <1>9, <1>10, <1>11, <1>12 DEF Loud

\* NothingElseWhileSmsPending for every instance.
THEOREM NothingElse == Spec => NothingElseWhileSmsPending
<1>1. TypeOK /\ OneWayPerPass /\ [Next]_vars =>
        [\A i \in Items : item'[i].leaseLive /\ ~item[i].leaseLive => item[i].sms = "none"]_vars
  <2> SUFFICES ASSUME TypeOK, OneWayPerPass, [Next]_vars, NEW i \in Items,
                      item'[i].leaseLive, ~item[i].leaseLive
               PROVE  item[i].sms = "none"
    OBVIOUS
  <2>1. CASE \E r \in SendRoutes : ClaimSend(i, r)
    BY <2>1 DEF ClaimSend, OneWayPerPass
  <2>2. CASE i \in Claimable
    BY <2>2 DEF Claimable, OneWayPerPass
  <2> QED
    BY <2>1, <2>2, LeaseBegins
<1> QED
  BY <1>1, OneWay, TypeCorrect, PTL DEF Spec, NothingElseWhileSmsPending

\* Twilio's statuses change only when a send is accepted and as the carrier goes on.
LEMMA CarrierWriters ==
  ASSUME [Next]_vars
  PROVE  \/ UNCHANGED carrier \/ SendAccepted
         \/ \E i \in Items, p \in Parts : CarrierStep(i, p)
<1> USE DEF envVars
<1>1. Publish => UNCHANGED carrier
  BY DEF Publish, UpsertForGoal, AddAnswer
<1>2. Dispatch => UNCHANGED carrier \/ SendAccepted
  BY DEF Dispatch, StartPass, PlanPass, EndPass, SendFailed, RecordSend, SkipCallBatch,
     PlaceCallback, PlaceCallbackFails, PlaceCallbackReplyLost, CallPlaced,
     CallPlacementFailed, SettleSms, ReadSms, ClaimSend, StartCallBatch
<1>3. ASSUME NEW c \in Calls,
             \/ InboundUnlock(c) \/ HangUp(c) \/ SetActiveCall(c) \/ SendPoll(c)
             \/ PendingForCall(c) \/ MarkOffered(c) \/ EndActiveCall(c) \/ ForgetCall(c)
             \/ \E i \in Items : ReportHeard(c, i)
      PROVE  UNCHANGED carrier
  BY <1>3 DEF InboundUnlock, HangUp, SetActiveCall, SendPoll, PendingForCall, MarkOffered,
     EndActiveCall, ForgetCall, ReportHeard
<1>4. ASSUME NEW b \in Batches,
             \/ CallbackUnlock(b) \/ FetchBatch(b) \/ AckBatch(b) \/ FinishCall(b)
             \/ AmdVerdict(b) \/ RedirectToNotice(b)
      PROVE  UNCHANGED carrier
  BY <1>4 DEF CallbackUnlock, FetchBatch, AckBatch, FinishCall, AmdVerdict, RedirectToNotice
<1>5. OwnerSays => UNCHANGED carrier
  BY DEF OwnerSays, RequestCall, NoteOwnerActivity, SetDefaultRoute, CancelForGoal,
     SetRouteOverrideForGoal, MarkHeardForGoal
<1>6. TimePasses => UNCHANGED carrier \/ \E i \in Items, p \in Parts : CarrierStep(i, p)
  BY DEF TimePasses, ActiveCallLapses, PresenceLapses, HoursPass, SendLeaseLapses,
     ItemTimerLapses, CallLeaseLapses
<1>7. Crash \/ UNCHANGED vars \/ (\E g \in Goals : MarkCancelling(g)) => UNCHANGED carrier
  BY DEF Crash, vars, MarkCancelling
<1> QED
  BY <1>1, <1>2, <1>3, <1>4, <1>5, <1>6, <1>7, BatchIds DEF Next, Voice, Calls

\* While an SMS is being settled as heard, no part of it waits at Twilio.
LeftTwilio ==
  pc = "settling" /\ result \in {"delivered", "sent"} =>
    \A p \in Parts : carrier[cur[1]][p] # "queued"

\* Twilio does not take back that a part left it, while the item is settled.
LEMMA CarrierGoesOn ==
  ASSUME TypeOK, [Next]_vars, pc # "send", NEW i \in Items, NEW p \in Parts,
         carrier[i][p] # "queued"
  PROVE  carrier'[i][p] # "queued"
<1>1. ~SendAccepted
  BY DEF SendAccepted
<1>2. ASSUME NEW j \in Items, NEW q \in Parts, CarrierStep(j, q) PROVE carrier'[i][p] # "queued"
  BY <1>2 DEF CarrierStep, TypeOK, OutsideOK
<1> QED
  BY <1>1, <1>2, CarrierWriters

\* What the dispatcher does while it settles an SMS.
LEMMA SettlingPc ==
  ASSUME TypeOK, [Next]_vars
  PROVE  /\ pc = "settling" => pc' \in {"settling", "idle"} \/ SettleSms
         /\ pc' = "settling" =>
              \/ \E i \in Items : ReadSms(i)
              \/ pc = "settling" /\ UNCHANGED <<cur, result>>
<1>1. UNCHANGED dispVars => UNCHANGED <<pc, cur, result>>
  BY DEF dispVars
<1>2. Crash => pc' = "idle"
  BY DEF Crash
<1>3. SettleSms => pc' = "settle"
  BY DEF SettleSms
<1>4. ASSUME NEW i \in Items, ReadSms(i) PROVE pc = "settle"
  BY <1>4 DEF ReadSms
<1>5. CASE \/ StartPass \/ PlanPass \/ EndPass \/ SendAccepted \/ SendFailed \/ RecordSend
           \/ SkipCallBatch \/ PlaceCallback \/ PlaceCallbackFails \/ PlaceCallbackReplyLost
           \/ CallPlaced \/ CallPlacementFailed
  BY <1>5 DEF StartPass, PlanPass, EndPass, SendAccepted, SendFailed, RecordSend, SkipCallBatch,
     PlaceCallback, PlaceCallbackFails, PlaceCallbackReplyLost, CallPlaced, CallPlacementFailed
<1>6. ASSUME NEW i \in Items, NEW r \in SendRoutes, ClaimSend(i, r)
      PROVE  pc = "run" /\ pc' \in {"run", "send"}
  BY <1>6 DEF ClaimSend
<1>7. ASSUME NEW b \in Batches, StartCallBatch(b) PROVE pc = "run" /\ pc' = "dial"
  BY <1>7 DEF StartCallBatch
<1>8. CASE SettleSms \/ \E i \in Items : ReadSms(i)
  BY <1>3, <1>4, <1>8
<1>9. CASE \E i \in Items, r \in SendRoutes : ClaimSend(i, r)
  BY <1>6, <1>9
<1>10. CASE \E b \in Batches : StartCallBatch(b)
  BY <1>7, <1>10
<1>11. CASE Dispatch
  BY <1>5, <1>8, <1>9, <1>10, <1>11 DEF Dispatch
<1> QED
  BY <1>1, <1>2, <1>11, DispatcherWriters

\* A verdict that counts an SMS as heard was read off parts that had left Twilio.
LEMMA VerdictHeard ==
  ASSUME NEW statuses \in [Parts -> SmsStatuses \cup {"unread"}], NEW timedOut,
         SmsDeliveryVerdict(statuses, timedOut) \in {"delivered", "sent"}
  PROVE  \A p \in Parts : statuses[p] \in {"delivered", "sent"}
<1> DEFINE seen == {statuses[p] : p \in DOMAIN statuses}
<1>1. seen = {"delivered"} \/ seen \subseteq {"sent", "delivered"}
  BY DEF SmsDeliveryVerdict
<1>2. \A p \in Parts : statuses[p] \in seen
  OBVIOUS
<1> QED
  BY <1>1, <1>2

LEMMA LeftStep ==
  ASSUME TypeOK, TypeOK', LeftTwilio, [Next]_vars
  PROVE  LeftTwilio'
<1> SUFFICES ASSUME pc' = "settling", result' \in {"delivered", "sent"}, NEW p \in Parts
             PROVE  carrier'[cur'[1]][p] # "queued"
  BY DEF LeftTwilio
<1>1. CASE \E i \in Items : ReadSms(i)
  <2>1. PICK i \in Items : ReadSms(i)
    BY <1>1
  <2>2. PICK seen \in [Parts -> SmsStatuses \cup {"unread"}] :
          /\ seen[p] \in {carrier[i][p], "unread"}
          /\ result' = SmsDeliveryVerdict(seen, item[i].sms = "late")
    BY <2>1 DEF ReadSms
  <2>3. seen[p] \in {"delivered", "sent"}
    BY <2>2, VerdictHeard
  <2>4. cur' = <<i, "sms">> /\ carrier' = carrier
    BY <2>1 DEF ReadSms, envVars
  <2> QED
    BY <2>2, <2>3, <2>4
<1>2. CASE pc = "settling" /\ UNCHANGED <<cur, result>>
  <2>1. cur[1] \in Items
    BY <1>2 DEF TypeOK, DispatcherOK
  <2>2. carrier[cur[1]][p] # "queued"
    BY <1>2 DEF LeftTwilio
  <2> QED
    BY <1>2, <2>1, <2>2, CarrierGoesOn
<1> QED
  BY <1>1, <1>2, SettlingPc

\* HeardSmsLeftTwilio for every instance.
THEOREM HeardLeft == Spec => HeardSmsLeftTwilio
<1>1. Init => LeftTwilio
  BY DEF Init, LeftTwilio
<1>2. TypeOK /\ TypeOK' /\ LeftTwilio /\ [Next]_vars => LeftTwilio'
  BY LeftStep
<1>3. TypeOK /\ LeftTwilio /\ [Next]_vars =>
        [\A i \in Items : pc = "settling" /\ pc' = "settle" /\ Open(i) /\ item'[i].state = "heard" =>
           \A p \in Parts : carrier[i][p] # "queued"]_vars
  <2> SUFFICES ASSUME TypeOK, LeftTwilio, [Next]_vars, NEW i \in Items, pc = "settling",
                      pc' = "settle", Open(i), item'[i].state = "heard"
               PROVE  \A p \in Parts : carrier[i][p] # "queued"
    OBVIOUS
  <2>1. SettleSms
    BY SettlingPc
  <2>2. item[i].state # "heard"
    BY DEF Open, OpenStates
  <2>3. i = cur[1]
    BY <2>1, <2>2, SettleEffect
  <2>4. item[i] \in ItemRecord /\ item \in [Items -> ItemRecord]
    BY DEF TypeOK, ItemsOK
  <2>5. result \in {"delivered", "sent"}
    <3>1. ASSUME result \notin {"delivered", "sent"} PROVE item'[i].state = item[i].state
      BY <2>1, <2>3, <2>4, <3>1 DEF SettleSms, ItemRecord
    <3> QED
      BY <2>2, <3>1
  <2> QED
    BY <2>3, <2>5 DEF LeftTwilio
<1> QED
  BY <1>1, <1>2, <1>3, TypeCorrect, PTL DEF Spec, HeardSmsLeftTwilio
------------------------------------------------------------------------------
(* What a callback was given to say.                                         *)

\* An item gets the lease of a callback, open, only when the callback is started.
LEMMA LeaseOfCall ==
  ASSUME TypeOK, [Next]_vars, NEW i \in Items, NEW b \in Batches, item'[i].lease = b
  PROVE  \/ item[i].lease = b /\ (item'[i].state \in OpenStates => Open(i))
         \/ StartCallBatch(b)
<1> DEFINE Good == item[i].lease = b /\ (item'[i].state \in OpenStates => Open(i))
<1>0. item'[i] = item[i] => Good
  BY DEF Open
<1>1. ASSUME NEW j \in Items, UpsertForGoal(j) PROVE Good
  BY <1>0, <1>1, UpsertEffect, BatchIds DEF Gets
<1>2. ASSUME NEW j \in Items, AddAnswer(j) PROVE Good
  BY <1>0, <1>2, AnswerEffect, BatchIds DEF Gets
<1>3. ASSUME NEW S, NEW how, Closes(S, how) PROVE Good
  BY <1>0, <1>3, BatchIds DEF Closes, Gets
<1>4. ASSUME NEW S, HeardOf(S) PROVE Good
  <2>1. \E r : Heard(S, r)
    BY <1>4 DEF HeardOf, ReportHeard, AckBatch, MarkHeardForGoal
  <2> QED
    BY <1>3, <2>1, HeardEffect
<1>5. ASSUME NEW g \in Goals, CancelForGoal(g) PROVE Good
  BY <1>3, <1>5, CancelEffect
<1>6. SettleSms => Good
  BY <1>0, SettleEffect DEF Quiet, Gets, Open
<1>7. RecordSend => Good
  BY <1>0, RecordEffect, BatchIds DEF Gets
<1>8. ASSUME NEW j \in Items, NEW r \in SendRoutes, ClaimSend(j, r) PROVE Good
  BY <1>0, <1>8, ClaimEffect, BatchIds DEF Gets
<1>9. ASSUME NEW a \in Batches, StartCallBatch(a) PROVE Good \/ a = b
  BY <1>0, <1>9, BatchEffect DEF Gets
<1>10. ASSUME NEW a \in Batches,
              FinishCall(a) \/ CallLeaseLapses(a) \/ (CallPlacementFailed /\ cur = a)
       PROVE  Good
  BY <1>0, <1>10, LandEffect, BatchIds DEF Frees, BatchItems, Open
<1>11. ASSUME NEW j \in Items, SendLeaseLapses(j) PROVE Good
  BY <1>0, <1>11, LapseEffect, BatchIds DEF Gets
<1>12. ASSUME ~Loud PROVE Good
  BY <1>12, QuietStep DEF Quiet, Open
<1> QED
  BY <1>1, <1>2, <1>4, <1>5, <1>6, <1>7, <1>8, <1>9, <1>10, <1>11, <1>12 DEF Loud

\* The steps that change what calls were given and which CallSids are known.
LEMMA GivenWriters ==
  ASSUME [Next]_vars
  PROVE  \/ UNCHANGED <<known, offer, fetched, said>>
         \/ CallPlaced \/ Crash
         \/ \E b \in Batches : FetchBatch(b)
         \/ \E c \in Calls : PendingForCall(c) \/ MarkOffered(c) \/ ForgetCall(c)
<1> USE DEF boxVars, memVars, voiceVars
<1> DEFINE Same == UNCHANGED <<known, offer, fetched, said>>
<1>1. Publish => Same
  BY DEF Publish, UpsertForGoal, AddAnswer
<1>2. Dispatch => Same \/ CallPlaced
  BY DEF Dispatch, StartPass, PlanPass, EndPass, SendAccepted, SendFailed, RecordSend, SkipCallBatch,
     PlaceCallback, PlaceCallbackFails, PlaceCallbackReplyLost,
     CallPlacementFailed, SettleSms, ReadSms, ClaimSend, StartCallBatch
<1>3. ASSUME NEW c \in Calls,
             \/ InboundUnlock(c) \/ HangUp(c) \/ SetActiveCall(c) \/ SendPoll(c)
             \/ EndActiveCall(c) \/ \E i \in Items : ReportHeard(c, i)
      PROVE  Same
  BY <1>3 DEF InboundUnlock, HangUp, SetActiveCall, SendPoll, EndActiveCall, ReportHeard
<1>4. ASSUME NEW b \in Batches,
             \/ CallbackUnlock(b) \/ AckBatch(b) \/ FinishCall(b)
             \/ AmdVerdict(b) \/ RedirectToNotice(b)
      PROVE  Same
  BY <1>4 DEF CallbackUnlock, AckBatch, FinishCall, AmdVerdict, RedirectToNotice
<1>5. OwnerSays => Same
  BY DEF OwnerSays, RequestCall, NoteOwnerActivity, SetDefaultRoute, CancelForGoal,
     SetRouteOverrideForGoal, MarkHeardForGoal
<1>6. TimePasses => Same
  BY DEF TimePasses, ActiveCallLapses, PresenceLapses, HoursPass, SendLeaseLapses,
     ItemTimerLapses, CarrierStep, CallLeaseLapses
<1>7. UNCHANGED vars \/ (\E g \in Goals : MarkCancelling(g)) => Same
  BY DEF vars, MarkCancelling
<1>8. Voice => Same \/ (\E b \in Batches : FetchBatch(b))
               \/ \E c \in Calls : PendingForCall(c) \/ MarkOffered(c) \/ ForgetCall(c)
  BY <1>3, <1>4, BatchIds DEF Voice, Calls
<1> QED
  BY <1>1, <1>2, <1>5, <1>6, <1>7, <1>8 DEF Next

\* A callback whose batch was read or given has its CallSid known, and was given every
\* open item it still holds.
GivenInv ==
  \A b \in Batches :
    /\ b \in fetched \/ offer[b].from = "batch" => b \in known
    /\ \A i \in Items : Open(i) /\ item[i].lease = b =>
         /\ b \in fetched => i \in said[b]
         /\ offer[b].from = "batch" => i \in offer[b].items

LEMMA GivenStep ==
  ASSUME TypeOK, GivenInv, [Next]_vars
  PROVE  GivenInv'
<1> SUFFICES ASSUME NEW b \in Batches
             PROVE  /\ b \in fetched' \/ offer'[b].from = "batch" => b \in known'
                    /\ \A i \in Items : item'[i].state \in OpenStates /\ item'[i].lease = b =>
                         /\ b \in fetched' => i \in said'[b]
                         /\ offer'[b].from = "batch" => i \in offer'[b].items
  BY DEF GivenInv, Open
<1> DEFINE Good == /\ b \in fetched' \/ offer'[b].from = "batch" => b \in known'
                   /\ \A i \in Items : item'[i].state \in OpenStates /\ item'[i].lease = b =>
                        /\ b \in fetched' => i \in said'[b]
                        /\ offer'[b].from = "batch" => i \in offer'[b].items
<1>1. /\ offer \in [Calls -> [from : {"none", "poll", "batch"}, items : SUBSET Items]]
      /\ said \in [Calls -> SUBSET Items] /\ b \in Calls
  BY BatchIds DEF TypeOK, HandlersOK
<1>2. CASE StartCallBatch(b)
  BY <1>2 DEF StartCallBatch, GivenInv, memVars, voiceVars
<1>3. CASE ~StartCallBatch(b)
  <2>1. \A i \in Items : item'[i].state \in OpenStates /\ item'[i].lease = b => Open(i) /\ item[i].lease = b
    BY <1>3, LeaseOfCall
  <2>2. ASSUME known \subseteq known', UNCHANGED fetched, UNCHANGED said,
               offer'[b] = offer[b] \/ offer'[b].from # "batch"
        PROVE  Good
    BY <2>1, <2>2 DEF GivenInv
  <2>3. CASE UNCHANGED <<known, offer, fetched, said>>
    BY <2>2, <2>3
  <2>4. CASE CallPlaced
    BY <2>2, <2>4 DEF CallPlaced, memVars, voiceVars
  <2>5. CASE Crash
    BY <1>1, <2>2, <2>5 DEF Crash, NoOffer, boxVars
  <2>6. ASSUME NEW a \in Batches, FetchBatch(a) PROVE Good
    <3>1. CASE a = b
      <4>1. /\ offer'[b].items = BatchItems(b) \cap OpenItems /\ b \in known /\ b \notin fetched
            /\ UNCHANGED <<known, fetched, item>>
        BY <1>1, <2>6, <3>1 DEF FetchBatch, Authorized, boxVars, voiceVars
      <4> QED
        BY <2>1, <4>1 DEF BatchItems, OpenItems
    <3>2. CASE a # b
      BY <1>1, <2>2, <2>6, <3>2 DEF FetchBatch, boxVars, voiceVars
    <3> QED
      BY <3>1, <3>2
  <2>7. ASSUME NEW c \in Calls, PendingForCall(c) PROVE Good
    <3>1. offer'[b] = offer[b] \/ offer'[b].from # "batch"
      BY <1>1, <2>7 DEF PendingForCall, NoOffer
    <3> QED
      BY <2>2, <2>7, <3>1 DEF PendingForCall
  <2>8. ASSUME NEW c \in Calls, MarkOffered(c) PROVE Good
    <3>1. CASE c = b
      <4>1. /\ offer'[b].from = "none" /\ said'[b] = said[b] \cup offer[b].items
            /\ fetched' = (IF offer[b].from = "batch" THEN fetched \cup {b} ELSE fetched)
            /\ known' = known
        BY <1>1, <2>8, <3>1 DEF MarkOffered, NoOffer
      <4> QED
        BY <2>1, <4>1 DEF GivenInv
    <3>2. CASE c # b
      <4>1. /\ offer'[b] = offer[b] /\ said'[b] = said[b] /\ (b \in fetched' => b \in fetched)
            /\ known' = known
        BY <1>1, <2>8, <3>2 DEF MarkOffered
      <4> QED
        BY <2>1, <4>1 DEF GivenInv
    <3> QED
      BY <3>1, <3>2
  <2>9. ASSUME NEW c \in Calls, ForgetCall(c) PROVE Good
    <3>1. /\ known' = known \ {c} /\ fetched' = fetched \ {c} /\ UNCHANGED offer
          /\ offer[c] = NoOffer /\ (c # b => said'[b] = said[b])
      BY <1>1, <2>9 DEF ForgetCall
    <3> QED
      BY <2>1, <3>1 DEF GivenInv, NoOffer
  <2> QED
    BY <2>3, <2>4, <2>5, <2>6, <2>7, <2>8, <2>9, GivenWriters
<1> QED
  BY <1>2, <1>3

\* AckedWasSaid for every instance.
THEOREM AckedSaid == Spec => AckedWasSaid
<1>1. Init => GivenInv
  BY BatchIds DEF Init, GivenInv, NoOffer
<1>2. TypeOK /\ GivenInv /\ [Next]_vars => GivenInv'
  BY GivenStep
<1>3. TypeOK /\ GivenInv =>
        [\A b \in Batches, i \in Items :
           AckBatch(b) /\ Open(i) /\ item'[i].state = "heard" => i \in said[b]]_vars
  <2> SUFFICES ASSUME TypeOK, GivenInv, NEW b \in Batches, NEW i \in Items, AckBatch(b), Open(i),
                      item'[i].state = "heard"
               PROVE  i \in said[b]
    OBVIOUS
  <2>1. item'[i] # item[i]
    BY DEF Open, OpenStates
  <2>2. i \in PlayedOut(b)
    BY <2>1, HeardEffect DEF AckBatch, Closes
  <2> QED
    BY <2>2 DEF GivenInv, AckBatch, PlayedOut, BatchItems
<1> QED
  BY <1>1, <1>2, <1>3, TypeCorrect, PTL DEF Spec, AckedWasSaid
------------------------------------------------------------------------------
(* An unlocked callback is no miss.                                          *)

\* The steps that change a call, the callback in flight, or what is known of them.
LEMMA CallWriters ==
  ASSUME [Next]_vars
  PROVE  \/ UNCHANGED <<flight, known, phone, unlocked>>
         \/ CallPlaced \/ CallPlacementFailed \/ PlaceCallback \/ PlaceCallbackReplyLost
         \/ \E b \in Batches : \/ StartCallBatch(b) \/ CallbackUnlock(b) \/ FinishCall(b)
                               \/ CallLeaseLapses(b) \/ RedirectToNotice(b)
         \/ \E c \in Inbound : InboundUnlock(c)
         \/ \E c \in Calls : HangUp(c) \/ SetActiveCall(c) \/ ForgetCall(c)
<1> USE DEF boxVars, envVars
<1> DEFINE Same == UNCHANGED <<flight, known, phone, unlocked>>
<1>1. Publish => Same
  BY DEF Publish, UpsertForGoal, AddAnswer
<1>2. Dispatch => \/ Same \/ CallPlaced \/ CallPlacementFailed \/ PlaceCallback \/ PlaceCallbackReplyLost
                  \/ \E b \in Batches : StartCallBatch(b)
  BY DEF Dispatch, StartPass, PlanPass, EndPass, SendAccepted, SendFailed, RecordSend, SkipCallBatch,
     PlaceCallbackFails, SettleSms, ReadSms, ClaimSend
<1>3. ASSUME NEW c \in Calls,
             \/ SendPoll(c) \/ PendingForCall(c) \/ MarkOffered(c)
             \/ EndActiveCall(c) \/ \E i \in Items : ReportHeard(c, i)
      PROVE  Same
  BY <1>3 DEF SendPoll, PendingForCall, MarkOffered, EndActiveCall, ReportHeard
<1>4. ASSUME NEW b \in Batches, FetchBatch(b) \/ AckBatch(b) \/ AmdVerdict(b)
      PROVE  Same
  BY <1>4 DEF FetchBatch, AckBatch, AmdVerdict
<1>5. OwnerSays => Same
  BY DEF OwnerSays, RequestCall, NoteOwnerActivity, SetDefaultRoute, CancelForGoal,
     SetRouteOverrideForGoal, MarkHeardForGoal
<1>6. TimePasses => Same \/ \E b \in Batches : CallLeaseLapses(b)
  BY DEF TimePasses, ActiveCallLapses, PresenceLapses, HoursPass, SendLeaseLapses,
     ItemTimerLapses, CarrierStep
<1>7. Crash \/ UNCHANGED vars \/ (\E g \in Goals : MarkCancelling(g)) => Same
  BY DEF Crash, vars, MarkCancelling
<1>8. Voice => \/ Same
               \/ \E b \in Batches : CallbackUnlock(b) \/ FinishCall(b) \/ RedirectToNotice(b)
               \/ \E c \in Inbound : InboundUnlock(c)
               \/ \E c \in Calls : HangUp(c) \/ SetActiveCall(c) \/ ForgetCall(c)
  BY <1>3, <1>4 DEF Voice
<1> QED
  BY <1>1, <1>2, <1>5, <1>6, <1>7, <1>8 DEF Next

\* The dispatcher turns to a callback when it starts it, and from it when Twilio's
\* reply is recorded or the box restarts.
LEMMA CurStep ==
  ASSUME TypeOK, [Next]_vars, NEW b \in Batches
  PROVE  /\ cur = b /\ cur' # b => CallPlaced \/ CallPlacementFailed \/ Crash
         /\ cur # b /\ cur' = b => StartCallBatch(b)
<1> DEFINE Good == /\ cur = b /\ cur' # b => CallPlaced \/ CallPlacementFailed \/ Crash
                   /\ cur # b /\ cur' = b => StartCallBatch(b)
<1>1. b \notin Items \X SendRoutes /\ b # None
  BY BatchIds, OutboxAssumption
<1>2. cur = b => pc \in {"dial", "dialed"}
  BY <1>1 DEF TypeOK, DispatcherOK
<1>3. UNCHANGED cur => Good
  OBVIOUS
<1>4. CASE \/ StartPass \/ PlanPass \/ EndPass \/ SendAccepted \/ SendFailed \/ SkipCallBatch
           \/ PlaceCallback \/ PlaceCallbackFails \/ PlaceCallbackReplyLost
  BY <1>3, <1>4 DEF StartPass, PlanPass, EndPass, SendAccepted, SendFailed, SkipCallBatch,
     PlaceCallback, PlaceCallbackFails, PlaceCallbackReplyLost
<1>5. CASE RecordSend \/ SettleSms \/ CallPlaced \/ CallPlacementFailed \/ Crash
  BY <1>1, <1>2, <1>5 DEF RecordSend, SettleSms, CallPlaced, CallPlacementFailed, Crash
<1>6. ASSUME NEW i \in Items, ReadSms(i) PROVE Good
  <2>1. cur' = <<i, "sms">> /\ pc = "settle"
    BY <1>6 DEF ReadSms
  <2>2. <<i, "sms">> \in Items \X SendRoutes
    BY DEF SendRoutes, TextRoutes
  <2> QED
    BY <1>1, <1>2, <2>1, <2>2
<1>7. ASSUME NEW i \in Items, NEW r \in SendRoutes, ClaimSend(i, r) PROVE Good
  <2>1. cur' \in {cur, <<i, r>>} /\ pc = "run"
    BY <1>7 DEF ClaimSend
  <2>2. <<i, r>> \in Items \X SendRoutes
    OBVIOUS
  <2> QED
    BY <1>1, <1>2, <2>1, <2>2
<1>8. ASSUME NEW a \in Batches, StartCallBatch(a) PROVE Good
  BY <1>2, <1>8 DEF StartCallBatch
<1>9. UNCHANGED dispVars => Good
  BY <1>3 DEF dispVars
<1>10. Dispatch => Good
  BY <1>4, <1>5, <1>6, <1>7, <1>8 DEF Dispatch
<1> QED
  BY <1>5, <1>9, <1>10, DispatcherWriters

\* Neither has the box restarted nor has a lease run out on a delivery under way.
Undisturbed == budget.crashes = MaxCrashes /\ budget.lapses = MaxLapses

\* A step leaves the budget, or spends of it.
LEMMA BudgetWriters ==
  ASSUME [Next]_vars
  PROVE  UNCHANGED budget \/ \E w \in {"contacts", "faults", "polls", "lapses", "crashes"} : Spend(w)
<1> DEFINE Good == UNCHANGED budget \/ \E w \in {"contacts", "faults", "polls", "lapses", "crashes"} : Spend(w)
<1>1. Publish => Good
  BY DEF Publish, UpsertForGoal, AddAnswer
<1>2. SendFailed \/ PlaceCallbackFails \/ PlaceCallbackReplyLost \/ (\E i \in Items : ReadSms(i)) => Good
  BY DEF SendFailed, PlaceCallbackFails, PlaceCallbackReplyLost, ReadSms, SpendIf
<1>3. Dispatch => Good
  BY <1>2 DEF Dispatch, StartPass, PlanPass, EndPass, SendAccepted, RecordSend, SkipCallBatch,
     PlaceCallback, CallPlaced, CallPlacementFailed, SettleSms, ClaimSend, StartCallBatch
<1>4. ASSUME NEW c \in Calls,
             \/ InboundUnlock(c) \/ HangUp(c) \/ SetActiveCall(c) \/ SendPoll(c)
             \/ PendingForCall(c) \/ MarkOffered(c) \/ EndActiveCall(c) \/ ForgetCall(c)
             \/ \E i \in Items : ReportHeard(c, i)
      PROVE  Good
  BY <1>4 DEF InboundUnlock, HangUp, SetActiveCall, SendPoll, PendingForCall, MarkOffered,
     EndActiveCall, ForgetCall, ReportHeard
<1>5. ASSUME NEW b \in Batches,
             \/ CallbackUnlock(b) \/ FetchBatch(b) \/ AckBatch(b) \/ FinishCall(b)
             \/ AmdVerdict(b) \/ RedirectToNotice(b)
      PROVE  Good
  BY <1>5 DEF CallbackUnlock, FetchBatch, AckBatch, FinishCall, AmdVerdict, RedirectToNotice
<1>6. OwnerSays => Good
  BY DEF OwnerSays, RequestCall, NoteOwnerActivity, SetDefaultRoute, CancelForGoal,
     SetRouteOverrideForGoal, MarkHeardForGoal
<1>7. ASSUME NEW i \in Items, SendLeaseLapses(i) \/ ItemTimerLapses(i) PROVE Good
  BY <1>7 DEF SendLeaseLapses, ItemTimerLapses, SpendIf
<1>8. ASSUME NEW b \in Batches, CallLeaseLapses(b) PROVE Good
  BY <1>8 DEF CallLeaseLapses, SpendIf
<1>9. TimePasses => Good
  BY <1>7, <1>8 DEF TimePasses, ActiveCallLapses, PresenceLapses, HoursPass, CarrierStep
<1>10. Crash \/ UNCHANGED vars \/ (\E g \in Goals : MarkCancelling(g)) => Good
  BY DEF Crash, vars, MarkCancelling
<1> QED
  BY <1>1, <1>3, <1>4, <1>5, <1>6, <1>9, <1>10, BatchIds DEF Next, Voice, Calls

\* What is spent is not given back.
BudgetInv == budget.crashes <= MaxCrashes /\ budget.lapses <= MaxLapses

LEMMA BudgetStep ==
  ASSUME TypeOK, BudgetInv, [Next]_vars
  PROVE  /\ BudgetInv' /\ (Undisturbed' => Undisturbed)
         /\ Undisturbed' => ~Crash /\ \A b \in Batches : CallLeaseLapses(b) => phone[b] = "none"
<1>1. budget \in [{"contacts", "faults", "polls", "lapses", "crashes"} -> Nat]
      /\ MaxCrashes \in Nat /\ MaxLapses \in Nat
  BY OutboxAssumption DEF TypeOK, OutsideOK
<1>2. /\ budget'.crashes <= budget.crashes /\ budget'.lapses <= budget.lapses
      /\ Spend("crashes") => budget'.crashes < budget.crashes
      /\ Spend("lapses") => budget'.lapses < budget.lapses
      /\ budget'.crashes \in Nat /\ budget'.lapses \in Nat
  BY <1>1, BudgetWriters DEF Spend
<1>3. Crash => Spend("crashes")
  BY DEF Crash
<1>4. \A b \in Batches : CallLeaseLapses(b) /\ phone[b] # "none" => Spend("lapses")
  BY DEF CallLeaseLapses, SpendIf
<1> QED
  BY <1>1, <1>2, <1>3, <1>4 DEF BudgetInv, Undisturbed

\* As long as nothing disturbs them: a callback the owner can answer has a CallSid that
\* is known, or still to be recorded; once its unlock was reported it is recorded with
\* the callback in flight; and what a callback that was placed holds, it holds in flight.
CallInv ==
  \A b \in Batches :
    /\ phone[b] = "open" => cur # b
    /\ b \in unlocked => phone[b] \in {"open", "ended"}
    /\ Undisturbed =>
         /\ phone[b] \in {"ringing", "open"} /\ flight.batch = b => b \in known \/ cur = b
         /\ b \in unlocked /\ flight.batch = b => flight.unlocked
         /\ flight.batch = b /\ phone[b] # "none" => flight.live
         /\ \A i \in Items : item[i].lease = b /\ phone[b] # "none" => flight.batch = b

LEMMA CallStep ==
  ASSUME TypeOK, PlacesTheCallInFlight, BudgetInv, CallInv, [Next]_vars
  PROVE  CallInv'
<1> SUFFICES ASSUME NEW b \in Batches
             PROVE  /\ phone'[b] = "open" => cur' # b
                    /\ b \in unlocked' => phone'[b] \in {"open", "ended"}
                    /\ Undisturbed' =>
                         /\ phone'[b] \in {"ringing", "open"} /\ flight'.batch = b => b \in known' \/ cur' = b
                         /\ b \in unlocked' /\ flight'.batch = b => flight'.unlocked
                         /\ flight'.batch = b /\ phone'[b] # "none" => flight'.live
                         /\ \A i \in Items : item'[i].lease = b /\ phone'[b] # "none" => flight'.batch = b
  BY DEF CallInv
<1> DEFINE Calm == /\ phone'[b] \in {"ringing", "open"} /\ flight'.batch = b => b \in known' \/ cur' = b
                   /\ b \in unlocked' /\ flight'.batch = b => flight'.unlocked
                   /\ flight'.batch = b /\ phone'[b] # "none" => flight'.live
                   /\ \A i \in Items : item'[i].lease = b /\ phone'[b] # "none" => flight'.batch = b
           Good == /\ phone'[b] = "open" => cur' # b
                   /\ b \in unlocked' => phone'[b] \in {"open", "ended"}
                   /\ Undisturbed' => Calm
<1>0. /\ phone \in [Calls -> {"none", "ringing", "open", "ended"}] /\ Batches \subseteq Calls /\ b # None
      /\ flight \in [batch : Batches \cup {None}, live : BOOLEAN, unlocked : BOOLEAN]
      /\ Inbound \cap Batches = {}
      /\ pc \in {"dial", "dialed"} => cur \in Batches
  BY BatchIds DEF TypeOK, OutsideOK, PresenceOK, DispatcherOK
<1>1. Undisturbed' => /\ Undisturbed /\ ~Crash
                      /\ \A a \in Batches : CallLeaseLapses(a) => phone[a] = "none"
  BY BudgetStep
<1>2. ~StartCallBatch(b) => (cur' = b => cur = b)
  BY CurStep
<1>3. ~StartCallBatch(b) => \A i \in Items : item'[i].lease = b => item[i].lease = b
  BY LeaseOfCall
<1>4. CASE UNCHANGED <<flight, known, phone, unlocked>> /\ ~CallPlaced /\ ~CallPlacementFailed
  <2>1. ~StartCallBatch(b)
    <3>1. StartCallBatch(b) =>
            flight' = [batch |-> b, live |-> TRUE, unlocked |-> FALSE] /\ flight.batch # b
      BY Zenon DEF StartCallBatch
    <3>2. flight' = flight
      BY <1>4
    <3> QED
      BY <3>1, <3>2
  <2> QED
    BY <1>1, <1>2, <1>3, <1>4, <2>1, CurStep DEF CallInv
<1>5. CASE CallPlaced
  <2>1. /\ UNCHANGED <<item, flight, phone, unlocked>> /\ cur' = None
        /\ known \subseteq known' /\ (flight.batch = cur => cur \in known')
    BY <1>5 DEF CallPlaced, envVars
  <2> QED
    BY <1>0, <1>1, <2>1 DEF CallInv
<1>6. CASE CallPlacementFailed
  <2>1. /\ flight' = (IF flight.batch = cur THEN NoFlight ELSE flight) /\ cur \in Batches
        /\ UNCHANGED <<known, phone, unlocked>> /\ cur' = None /\ pc = "dialed"
    <3>1. /\ flight' = (IF flight.batch = cur THEN NoFlight ELSE flight)
          /\ pc = "dialed" /\ cur' = None /\ known' = known
      BY <1>6 DEF CallPlacementFailed
    <3>2. UNCHANGED <<phone, unlocked>>
      BY <1>6 DEF CallPlacementFailed, envVars
    <3> QED
      BY <1>0, <3>1, <3>2
  <2>2. ~StartCallBatch(b)
    BY <2>1 DEF StartCallBatch
  <2>3. \A i \in Items : item'[i].lease = b => item[i].lease = b /\ cur # b
    BY <1>3, <1>6, <2>2, ReleaseEffect
  <2> QED
    BY <1>0, <1>1, <2>1, <2>3 DEF CallInv, NoFlight
<1>7. CASE PlaceCallback \/ PlaceCallbackReplyLost
  <2>1. /\ pc = "dial" /\ phone' = [phone EXCEPT ![cur] = "ringing"]
        /\ UNCHANGED <<item, flight, known, unlocked, cur>>
    BY <1>7 DEF PlaceCallback, PlaceCallbackReplyLost, boxVars
  <2>2. phone[cur] = "none" /\ flight.batch = cur /\ flight.live
    BY <2>1 DEF PlacesTheCallInFlight
  <2>3. CASE cur = b
    <3>1. phone'[b] = "ringing" /\ b \notin unlocked
      BY <1>0, <2>1, <2>2, <2>3 DEF CallInv
    <3> QED
      BY <2>1, <2>2, <2>3, <3>1
  <2>4. CASE cur # b
    <3>1. phone'[b] = phone[b]
      BY <1>0, <2>1, <2>4
    <3> QED
      BY <1>1, <2>1, <3>1 DEF CallInv
  <2> QED
    BY <2>3, <2>4
<1>8. ASSUME NEW a \in Batches, StartCallBatch(a) PROVE Good
  <2>1. /\ flight' = [batch |-> a, live |-> TRUE, unlocked |-> FALSE] /\ cur' = a /\ phone[a] = "none"
        /\ UNCHANGED <<known, phone, unlocked>> /\ ~Ringing
    BY <1>8 DEF StartCallBatch, envVars
  <2>2. CASE a = b
    BY <1>0, <1>1, <2>1, <2>2 DEF CallInv
  <2>3. CASE a # b
    <3>1. ~StartCallBatch(b)
      BY <2>1, <2>3 DEF StartCallBatch
    <3>2. Undisturbed' => ~(flight.batch = b /\ phone[b] # "none")
      BY <1>0, <1>1, <2>1 DEF CallInv, Ringing
    <3> QED
      BY <1>0, <1>1, <1>3, <2>1, <2>3, <3>1, <3>2 DEF CallInv
  <2> QED
    BY <2>2, <2>3
<1>9. ASSUME NEW c \in Calls,
             \/ (InboundUnlock(c) /\ c \in Inbound) \/ HangUp(c)
             \/ c \in Batches /\ (CallbackUnlock(c) \/ RedirectToNotice(c))
      PROVE  Good
  <2>1. /\ UNCHANGED <<item, flight, known, unlocked, cur>>
        /\ \A d \in Calls \ {c} : phone'[d] = phone[d]
    BY <1>0, <1>9 DEF InboundUnlock, HangUp, CallbackUnlock, RedirectToNotice, boxVars, dispVars
  <2>2. c = b => \/ phone'[b] = phone[b]
                 \/ phone[b] # "none" /\ phone'[b] = "ended"
                 \/ phone[b] = "ringing" /\ phone'[b] = "open" /\ cur # b
    <3>1. HangUp(b) => phone[b] # "none" /\ phone'[b] = "ended"
      BY <1>0 DEF HangUp
    <3>2. CallbackUnlock(b) => phone[b] = "ringing" /\ phone'[b] = "open" /\ cur # b
      BY <1>0 DEF CallbackUnlock
    <3>3. RedirectToNotice(b) =>
            phone' = [phone EXCEPT ![b] = IF @ \in {"ringing", "open"} THEN "ended" ELSE @]
      BY DEF RedirectToNotice
    <3>4. RedirectToNotice(b) => \/ phone'[b] = phone[b]
                                 \/ phone[b] # "none" /\ phone'[b] = "ended"
      BY <1>0, <3>3
    <3> QED
      BY <1>0, <1>9, <3>1, <3>2, <3>4
  <2> QED
    BY <1>0, <1>1, <2>1, <2>2 DEF CallInv
<1>10. ASSUME NEW a \in Batches, FinishCall(a) PROVE Good
  <2>1. /\ flight' = (IF flight.batch = a THEN NoFlight ELSE flight)
        /\ UNCHANGED <<known, phone, unlocked, cur>>
    BY <1>10 DEF FinishCall, dispVars, envVars
  <2>2. \A i \in Items : item'[i].lease = b => item[i].lease = b /\ a # b
    <3>1. UNCHANGED pc
      BY <1>10 DEF FinishCall, dispVars
    <3>2. ~StartCallBatch(b)
      BY <3>1 DEF StartCallBatch
    <3> QED
      BY <1>3, <1>10, <3>2, ReleaseEffect
  <2> QED
    BY <1>0, <1>1, <2>1, <2>2 DEF CallInv, NoFlight
<1>11. ASSUME NEW a \in Batches, CallLeaseLapses(a) PROVE Good
  <2>1. /\ flight' = (IF flight.batch = a THEN [flight EXCEPT !.live = FALSE] ELSE flight)
        /\ UNCHANGED <<known, phone, unlocked, cur>>
        /\ \A i \in Items : item'[i].lease = b => item[i].lease = b
    <3>1. \A i \in Items : item'[i].lease = item[i].lease
      BY <1>11 DEF CallLeaseLapses, TypeOK, ItemsOK, ItemRecord
    <3> QED
      BY <1>11, <3>1 DEF CallLeaseLapses, dispVars, envVars
  <2>2. Undisturbed' => phone[a] = "none"
    BY <1>1, <1>11
  <2> QED
    BY <1>0, <1>1, <2>1, <2>2 DEF CallInv
<1>12. ASSUME NEW c \in Calls, SetActiveCall(c) PROVE Good
  <2>1. /\ flight' = (IF flight.batch = c /\ c \in known THEN [flight EXCEPT !.unlocked = TRUE] ELSE flight)
        /\ UNCHANGED <<item, known, phone, cur>> /\ phone[c] = "open"
        /\ unlocked' = unlocked \cup ({c} \cap Batches)
    BY <1>12 DEF SetActiveCall, dispVars
  <2>2. /\ flight'.batch = flight.batch /\ flight'.live = flight.live
        /\ flight.unlocked => flight'.unlocked
        /\ flight.batch = c /\ c \in known => flight'.unlocked
    BY <1>0, <2>1
  <2> QED
    BY <1>0, <1>1, <2>1, <2>2 DEF CallInv
<1>13. ASSUME NEW c \in Calls, ForgetCall(c) PROVE Good
  <2>1. /\ UNCHANGED <<flight, cur>> /\ phone' = [phone EXCEPT ![c] = "none"]
        /\ known' = known \ {c} /\ unlocked' = unlocked \ {c}
    BY <1>13 DEF ForgetCall, dispVars
  <2>2. \A i \in Items : item'[i].lease = item[i].lease
    BY <1>13 DEF ForgetCall, TypeOK, ItemsOK, ItemRecord
  <2> QED
    BY <1>0, <1>1, <2>1, <2>2 DEF CallInv
<1> QED
  BY <1>0, <1>4, <1>5, <1>6, <1>7, <1>8, <1>9, <1>10, <1>11, <1>12, <1>13, CallWriters DEF Calls

\* As long as the box has not restarted and no lease has run out on a call that was placed,
\* a callback whose unlock was reported does not end as a miss.
UndisturbedIsNoMiss ==
  [][\A b \in Batches : FinishCall(b) /\ b \in unlocked /\ Undisturbed =>
        presence'.misses <= presence.misses]_vars

LEMMA MissStep ==
  ASSUME TypeOK, CallInv, [Next]_vars, NEW b \in Batches, FinishCall(b), b \in unlocked, Undisturbed
  PROVE  presence'.misses <= presence.misses
<1>1. presence \in [misses : 0..MaxMisses, backoff : BOOLEAN, requested : BOOLEAN,
                    texting : TextRoutes \cup {None}, default : Routes \cup {None}]
  BY DEF TypeOK, PresenceOK
<1>2. phone[b] = "ended" /\ (flight.batch = b \/ \E i \in Items : item[i].lease = b)
  BY DEF FinishCall, Terminal, BatchItems
<1>3. flight.batch = b /\ flight.unlocked
  BY <1>2 DEF CallInv
<1>4. presence' = [presence EXCEPT !.misses = 0, !.backoff = FALSE]
  BY <1>3 DEF FinishCall, Reached
<1> QED
  BY <1>1, <1>4

LEMMA CallInit ==
  ASSUME Init PROVE BudgetInv /\ CallInv
<1>1. /\ phone = [c \in Calls |-> "none"] /\ unlocked = {} /\ cur = None
      /\ budget = [contacts |-> MaxContacts, faults |-> MaxFaults, polls |-> MaxPolls,
                   lapses |-> MaxLapses, crashes |-> MaxCrashes]
      /\ MaxCrashes \in Nat /\ MaxLapses \in Nat
  BY OutboxAssumption DEF Init
<1>2. \A b \in Batches : phone[b] = "none"
  BY <1>1 DEF Calls
<1> QED
  BY <1>1, <1>2 DEF BudgetInv, CallInv

THEOREM NoMiss == Spec => UndisturbedIsNoMiss
<1>1. Init => BudgetInv /\ CallInv
  BY CallInit
<1>2. TypeOK /\ PlacesTheCallInFlight /\ BudgetInv /\ CallInv /\ [Next]_vars => (BudgetInv /\ CallInv)'
  BY BudgetStep, CallStep
<1>3. TypeOK /\ CallInv /\ [Next]_vars =>
        [\A b \in Batches : FinishCall(b) /\ b \in unlocked /\ Undisturbed =>
            presence'.misses <= presence.misses]_vars
  BY MissStep
<1> QED
  BY <1>1, <1>2, <1>3, TypeCorrect, OneRings, PTL DEF Spec, UndisturbedIsNoMiss

\* On a box that does not restart, with leases that outlast the calls: what the inbound run
\* checks.
THEOREM UnlockedNoMiss ==
  ASSUME MaxCrashes = 0, MaxLapses = 0
  PROVE  Spec => UnlockedIsNoMiss
<1>1. Init => BudgetInv
  BY CallInit
<1>2. TypeOK /\ BudgetInv /\ [Next]_vars => BudgetInv'
  BY BudgetStep
<1>3. TypeOK /\ BudgetInv => Undisturbed
  BY DEF TypeOK, OutsideOK, BudgetInv, Undisturbed
<1>4. Undisturbed /\ [\A b \in Batches : FinishCall(b) /\ b \in unlocked /\ Undisturbed =>
                        presence'.misses <= presence.misses]_vars
        => [\A b \in Batches : FinishCall(b) /\ b \in unlocked =>
              presence'.misses <= presence.misses]_vars
  OBVIOUS
<1> QED
  BY <1>1, <1>2, <1>3, <1>4, TypeCorrect, NoMiss, PTL DEF Spec, UndisturbedIsNoMiss, UnlockedIsNoMiss
=============================================================================
