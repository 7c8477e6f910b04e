------------------------- MODULE OwnerOutboxProofs -------------------------
(***************************************************************************)
(* Theorems about the owner outbox, for every set of items, callbacks and  *)
(* calls and every bound.                                                  *)
(***************************************************************************)
EXTENDS OwnerOutbox, TLAPS

(* Which steps write which part of the state.                              *)

\* What state.json holds changes only in these actions.
LEMMA BoxWriters ==
  ASSUME [Next]_vars
  PROVE  \/ UNCHANGED boxVars
         \/ SettleSms \/ RecordSend \/ CallPlaced \/ CallPlacementFailed
         \/ RequestCall \/ ActiveCallLapses \/ PresenceLapses
         \/ \E i \in Items : \/ UpsertForGoal(i) \/ AddAnswer(i)
                             \/ SendLeaseLapses(i) \/ ItemTimerLapses(i)
         \/ \E i \in Items, r \in SendRoutes : ClaimSend(i, r)
         \/ \E g \in Goals : \/ CancelForGoal(g) \/ MarkCancelling(g)
                             \/ \E r \in Overrides : SetRouteOverrideForGoal(g, r)
                             \/ \E r \in Routes : MarkHeardForGoal(g, r)
         \/ \E b \in Batches : \/ StartCallBatch(b) \/ FinishCall(b) \/ AckBatch(b)
                               \/ CallLeaseLapses(b)
         \/ \E c \in Calls : \/ SetActiveCall(c) \/ PendingForCall(c) \/ MarkOffered(c)
                             \/ EndActiveCall(c) \/ ForgetCall(c)
                             \/ \E i \in Items : ReportHeard(c, i)
         \/ \E ch \in Channels : NoteOwnerActivity(ch)
         \/ \E r \in Overrides : SetDefaultRoute(r)
<1>1. Publish => \E i \in Items : UpsertForGoal(i) \/ AddAnswer(i)
  BY DEF Publish
<1>2. CASE Dispatch
  BY <1>2 DEF Dispatch, StartPass, ReadSms, PlanPass, EndPass, SendAccepted, SendFailed,
     SkipCallBatch, PlaceCallback, PlaceCallbackFails, PlaceCallbackReplyLost
<1>3. CASE Voice
  BY <1>3 DEF Voice, InboundUnlock, CallbackUnlock, HangUp, SendPoll, FetchBatch,
     AmdVerdict, RedirectToNotice
<1>4. CASE OwnerSays
  BY <1>4 DEF OwnerSays
<1>5. CASE TimePasses
  BY <1>5 DEF TimePasses, HoursPass, CarrierStep
<1>6. CASE Crash \/ UNCHANGED vars
  BY <1>6 DEF Crash, vars
<1> QED
  BY <1>1, <1>2, <1>3, <1>4, <1>5, <1>6 DEF Next

\* The dispatcher's memory changes only in its own pass and in a crash.
LEMMA DispatcherWriters ==
  ASSUME [Next]_vars
  PROVE  UNCHANGED dispVars \/ Dispatch \/ Crash
<1>1. Publish => UNCHANGED dispVars
  BY DEF Publish, UpsertForGoal, AddAnswer, dispVars
<1>2. ASSUME Voice PROVE UNCHANGED dispVars
  <2>1. ASSUME NEW c \in Calls, NEW i \in Items, ReportHeard(c, i) PROVE UNCHANGED dispVars
    BY <2>1 DEF ReportHeard
  <2>2. ASSUME NEW c \in Calls,
               \/ InboundUnlock(c) \/ HangUp(c) \/ SetActiveCall(c) \/ SendPoll(c)
               \/ PendingForCall(c) \/ MarkOffered(c) \/ EndActiveCall(c) \/ ForgetCall(c)
        PROVE  UNCHANGED dispVars
    BY <2>2 DEF InboundUnlock, HangUp, SetActiveCall, SendPoll, PendingForCall,
       MarkOffered, EndActiveCall, ForgetCall
  <2>3. ASSUME NEW b \in Batches,
               \/ CallbackUnlock(b) \/ FetchBatch(b) \/ AckBatch(b) \/ FinishCall(b)
               \/ AmdVerdict(b) \/ RedirectToNotice(b)
        PROVE  UNCHANGED dispVars
    BY <2>3 DEF CallbackUnlock, FetchBatch, AckBatch, FinishCall, AmdVerdict, RedirectToNotice
  <2> QED
    BY <1>2, <2>1, <2>2, <2>3 DEF Voice, Calls
<1>3. OwnerSays => UNCHANGED dispVars
  BY DEF OwnerSays, RequestCall, NoteOwnerActivity, SetDefaultRoute, CancelForGoal,
     SetRouteOverrideForGoal, MarkHeardForGoal
<1>4. TimePasses => UNCHANGED dispVars
  BY DEF TimePasses, ActiveCallLapses, PresenceLapses, HoursPass, SendLeaseLapses,
     ItemTimerLapses, CarrierStep, CallLeaseLapses
<1>5. ASSUME NEW g \in Goals, MarkCancelling(g) PROVE UNCHANGED dispVars
  BY <1>5 DEF MarkCancelling
<1>6. UNCHANGED vars => UNCHANGED dispVars
  BY DEF vars
<1> QED
  BY <1>1, <1>2, <1>3, <1>4, <1>5, <1>6 DEF Next
------------------------------------------------------------------------------
(* Type correctness, one part of the state at a time.                        *)

\* What the handlers do to an item leaves a record.
LEMMA RecordState ==
  ASSUME NEW r \in ItemRecord
  PROVE  /\ Release(r) \in ItemRecord
         /\ \A s \in ItemStates : [r EXCEPT !.state = s] \in ItemRecord
         /\ \A s \in ItemStates, h \in Routes :
              [r EXCEPT !.state = s, !.heardBy = h] \in ItemRecord
         /\ \A h \in Routes : HeardBy(r, h) \in ItemRecord
<1>1. Release(r) \in ItemRecord
  BY DEF ItemRecord, Release
<1>2. \A s \in ItemStates : [r EXCEPT !.state = s] \in ItemRecord
  BY DEF ItemRecord
<1>3. \A s \in ItemStates, h \in Routes :
        [r EXCEPT !.state = s, !.heardBy = h] \in ItemRecord
  BY DEF ItemRecord
<1>4. ASSUME NEW h \in Routes PROVE HeardBy(r, h) \in ItemRecord
  BY ZenonT(60) DEF ItemRecord, ItemStates, HeardBy
<1> QED
  BY <1>1, <1>2, <1>3, <1>4

\* A new item is an item record, whatever route it asks for.
LEMMA RecordNew ==
  ASSUME NEW o \in Routes \cup {None}
  PROVE  NewItem(o) \in ItemRecord
  BY DEF ItemRecord, NewItem, ItemStates

\* Changing a lease keeps an item record one.
LEMMA RecordLease ==
  ASSUME NEW r \in ItemRecord, NEW v \in BOOLEAN,
         NEW l \in {"none", "send"} \cup Batches
  PROVE  /\ [r EXCEPT !.leaseLive = v] \in ItemRecord
         /\ [r EXCEPT !.lease = l, !.leaseLive = v] \in ItemRecord
  BY DEF ItemRecord

\* So does changing its timers or flags.
LEMMA RecordTimers ==
  ASSUME NEW r \in ItemRecord, NEW v \in BOOLEAN, NEW s \in {"none", "wait", "late"}
  PROVE  /\ [r EXCEPT !.settling = v] \in ItemRecord
         /\ [r EXCEPT !.retry = v] \in ItemRecord
         /\ [r EXCEPT !.sms = s] \in ItemRecord
         /\ [r EXCEPT !.rejected = TRUE, !.retry = v] \in ItemRecord
         /\ [r EXCEPT !.retry = v, !.missed = TRUE] \in ItemRecord
  BY DEF ItemRecord

\* So does offering it, or asking for another route.
LEMMA RecordOffer ==
  ASSUME NEW r \in ItemRecord, NEW s \in ItemStates, NEW c \in Calls \cup {None},
         NEW o \in Routes \cup {None}
  PROVE  /\ [r EXCEPT !.override = o] \in ItemRecord
         /\ [r EXCEPT !.offeredOn = c] \in ItemRecord
         /\ [r EXCEPT !.state = s, !.offeredOn = c] \in ItemRecord
         /\ [r EXCEPT !.state = s, !.offeredOn = c, !.missed = TRUE] \in ItemRecord
  BY DEF ItemRecord

\* A step keeps every item a record.
LEMMA ItemsTyped ==
  ASSUME TypeOK, [Next]_vars
  PROVE  ItemsOK'
<1> USE DEF TypeOK, ItemsOK
<1> SUFFICES ASSUME ~UNCHANGED boxVars PROVE ItemsOK'
  BY DEF boxVars
<1>1. \A i \in Items : item[i] \in ItemRecord /\ Release(item[i]) \in ItemRecord
  BY RecordState
<1>2. ASSUME NEW i \in Items, UpsertForGoal(i) PROVE ItemsOK'
  <2>1. NewItem(goalRoute[GoalOf[i]]) \in ItemRecord
    BY <1>2, RecordNew DEF UpsertForGoal
  <2>2. \A j \in Items : [Release(item[j]) EXCEPT !.state = "superseded"] \in ItemRecord
    BY <1>1, RecordState DEF ItemStates
  <2> QED
    BY <1>1, <1>2, <2>1, <2>2 DEF UpsertForGoal
<1>3. ASSUME NEW i \in Items, AddAnswer(i) PROVE ItemsOK'
  BY <1>3, RecordNew DEF AddAnswer, Routes, SendRoutes, TextRoutes
<1>4. ASSUME NEW g \in Goals, CancelForGoal(g) PROVE ItemsOK'
  <2>1. \A j \in Items : [Release(item[j]) EXCEPT !.state = "cancelled"] \in ItemRecord
    BY <1>1, RecordState DEF ItemStates
  <2> QED
    BY <1>1, <1>4, <2>1 DEF CancelForGoal
<1>5. ASSUME NEW g \in Goals, MarkCancelling(g) PROVE ItemsOK'
  BY <1>5 DEF MarkCancelling
<1>6. CASE SettleSms
  <2>1. PICK i \in Items : cur[1] = i
    BY <1>6 DEF SettleSms, DispatcherOK
  <2> DEFINE settled == [item[i] EXCEPT !.sms = "none"]
  <2>2. settled \in ItemRecord
    BY <1>1, RecordTimers
  <2>3. /\ HeardBy(settled, "sms") \in ItemRecord
        /\ [settled EXCEPT !.rejected = TRUE, !.retry = TRUE] \in ItemRecord
        /\ [settled EXCEPT !.retry = TRUE] \in ItemRecord
    <3> HIDE DEF settled
    <3> QED BY <2>2, RecordTimers, RecordState DEF Routes, SendRoutes, TextRoutes
  <2> QED
    BY <1>1, <1>6, <2>1, <2>3 DEF SettleSms
<1>7. ASSUME NEW i \in Items, NEW r \in SendRoutes, ClaimSend(i, r) PROVE ItemsOK'
  <2>1. [item[i] EXCEPT !.lease = "send", !.leaseLive = TRUE] \in ItemRecord
    BY <1>1, RecordLease
  <2> QED
    BY <1>7, <2>1 DEF ClaimSend
<1>8. CASE RecordSend
  <2>1. PICK i \in Items : cur[1] = i
    BY <1>8 DEF RecordSend, DispatcherOK
  <2>2. /\ HeardBy(Release(item[i]), cur[2]) \in ItemRecord
        /\ [Release(item[i]) EXCEPT !.sms = "wait"] \in ItemRecord
        /\ [Release(item[i]) EXCEPT !.retry = TRUE] \in ItemRecord
    BY <1>1, <1>8, RecordTimers, RecordState DEF RecordSend, DispatcherOK, Routes
  <2> QED
    BY <1>1, <1>8, <2>1, <2>2 DEF RecordSend
<1>9. ASSUME NEW b \in Batches, StartCallBatch(b) PROVE ItemsOK'
  <2>1. \A j \in Items : [item[j] EXCEPT !.lease = b, !.leaseLive = TRUE] \in ItemRecord
    BY <1>1, RecordLease
  <2> QED
    BY <1>1, <1>9, <2>1 DEF StartCallBatch
<1>10. CASE CallPlacementFailed
  <2>1. \A j \in Items :
          [Release(item[j]) EXCEPT !.retry = TRUE, !.missed = TRUE] \in ItemRecord
    BY <1>1, RecordTimers
  <2> QED
    BY <1>1, <1>10, <2>1 DEF CallPlacementFailed
<1>11. ASSUME NEW c \in Calls, MarkOffered(c) PROVE ItemsOK'
  <2>1. \A j \in Items : OfferedOn(j, c) \in ItemRecord
    BY <1>1, RecordOffer DEF OfferedOn, ItemStates
  <2> QED
    BY <1>1, <1>11, <2>1 DEF MarkOffered
<1>12. ASSUME NEW S, NEW r \in Routes, Heard(S, r), UNCHANGED <<goalRoute, gone>>
       PROVE  ItemsOK'
  <2>1. \A j \in Items :
          [Release(item[j]) EXCEPT !.state = "heard", !.heardBy = r] \in ItemRecord
    BY <1>1, RecordState DEF ItemStates
  <2> QED
    BY <1>1, <1>12, <2>1 DEF Heard
<1>13. ASSUME NEW c \in Calls, NEW i \in Items, ReportHeard(c, i) PROVE ItemsOK'
  BY <1>12, <1>13 DEF ReportHeard, Routes
<1>14. ASSUME NEW b \in Batches, AckBatch(b) PROVE ItemsOK'
  BY <1>12, <1>14 DEF AckBatch, Routes
<1>15. ASSUME NEW g \in Goals, NEW r \in Routes, MarkHeardForGoal(g, r) PROVE ItemsOK'
  BY <1>12, <1>15 DEF MarkHeardForGoal
<1>16. ASSUME NEW c \in Calls, EndActiveCall(c) PROVE ItemsOK'
  <2>1. \A j \in Items :
          [item[j] EXCEPT !.state = "ready", !.offeredOn = None, !.missed = TRUE] \in ItemRecord
    BY <1>1, RecordOffer DEF ItemStates
  <2> QED
    BY <1>1, <1>16, <2>1 DEF EndActiveCall
<1>17. ASSUME NEW b \in Batches, FinishCall(b) PROVE ItemsOK'
  <2>1. \A j \in Items : AfterCall(item[j]) \in ItemRecord
    BY <1>1, RecordOffer DEF AfterCall, ItemStates
  <2> QED
    BY <1>1, <1>17, <2>1 DEF FinishCall
<1>18. ASSUME NEW c \in Calls, ForgetCall(c) PROVE ItemsOK'
  <2>1. \A j \in Items : [item[j] EXCEPT !.offeredOn = None] \in ItemRecord
    BY <1>1, RecordOffer DEF ItemStates
  <2> QED
    BY <1>1, <1>18, <2>1 DEF ForgetCall
<1>19. ASSUME NEW g \in Goals, NEW r \in Overrides, SetRouteOverrideForGoal(g, r)
       PROVE  ItemsOK'
  <2>1. r \in Routes
    BY OutboxAssumption
  <2>2. \A j \in Items : [item[j] EXCEPT !.override = r] \in ItemRecord
    BY <1>1, <2>1, RecordOffer DEF ItemStates
  <2> QED
    BY <1>1, <1>19, <2>1, <2>2 DEF SetRouteOverrideForGoal
<1>20. ASSUME NEW i \in Items, SendLeaseLapses(i) PROVE ItemsOK'
  <2>1. [item[i] EXCEPT !.leaseLive = FALSE] \in ItemRecord
    BY <1>1, RecordLease
  <2> QED
    BY <1>20, <2>1 DEF SendLeaseLapses
<1>21. ASSUME NEW b \in Batches, CallLeaseLapses(b) PROVE ItemsOK'
  <2>1. \A j \in Items : [item[j] EXCEPT !.leaseLive = FALSE] \in ItemRecord
    BY <1>1, RecordLease
  <2> QED
    BY <1>1, <1>21, <2>1 DEF CallLeaseLapses
<1>22. ASSUME NEW i \in Items, ItemTimerLapses(i) PROVE ItemsOK'
  <2>1. /\ [item[i] EXCEPT !.settling = FALSE] \in ItemRecord
        /\ [item[i] EXCEPT !.retry = FALSE] \in ItemRecord
        /\ [item[i] EXCEPT !.sms = "late"] \in ItemRecord
    BY <1>1, RecordTimers
  <2> QED
    BY <1>22, <2>1 DEF ItemTimerLapses
<1>23. UNCHANGED <<item, goalRoute, gone>> => ItemsOK'
  OBVIOUS
<1>24. ASSUME \/ CallPlaced \/ RequestCall \/ ActiveCallLapses \/ PresenceLapses
              \/ \E c \in Calls : SetActiveCall(c) \/ PendingForCall(c)
              \/ \E ch \in Channels : NoteOwnerActivity(ch)
              \/ \E r \in Overrides : SetDefaultRoute(r)
       PROVE  ItemsOK'
  <2>1. UNCHANGED <<item, goalRoute, gone>>
    BY <1>24 DEF CallPlaced, RequestCall, ActiveCallLapses, PresenceLapses, SetActiveCall,
       PendingForCall, NoteOwnerActivity, SetDefaultRoute
  <2> QED
    BY <1>23, <2>1
<1> QED
  BY <1>2, <1>3, <1>4, <1>5, <1>6, <1>7, <1>8, <1>9, <1>10, <1>11, <1>13, <1>14, <1>15, <1>16,
     <1>17, <1>18, <1>19, <1>20, <1>21, <1>22, <1>24, BoxWriters
\* A step keeps the owner's presence in its types; the miss counter stays
\* within its bound.
LEMMA PresenceTyped ==
  ASSUME TypeOK, [Next]_vars
  PROVE  PresenceOK'
<1> USE DEF TypeOK, PresenceOK
<1> DEFINE Presences ==
      [misses : 0..MaxMisses, backoff : BOOLEAN, requested : BOOLEAN,
       texting : TextRoutes \cup {None}, default : Routes \cup {None}]
<1>1. \A n \in 0..MaxMisses : 0 \in 0..MaxMisses /\ (n < MaxMisses => n + 1 \in 0..MaxMisses)
  BY PolicyAssumption
<1>2. NoFlight \in [batch : Batches \cup {None}, live : BOOLEAN, unlocked : BOOLEAN]
      /\ NoActive \in [call : Calls \cup {None}, live : BOOLEAN]
  BY DEF NoFlight, NoActive
<1>3. UNCHANGED <<presence, active, flight, known>> => PresenceOK'
  OBVIOUS
<1>4. ASSUME NEW b \in Batches, StartCallBatch(b) PROVE PresenceOK'
  BY <1>4 DEF StartCallBatch
<1>5. CASE CallPlaced
  BY <1>5 DEF CallPlaced, DispatcherOK
<1>6. CASE CallPlacementFailed
  BY <1>2, <1>6 DEF CallPlacementFailed
<1>7. ASSUME NEW c \in Calls, SetActiveCall(c) PROVE PresenceOK'
  <2>1. presence' \in Presences
    BY <1>1, <1>7 DEF SetActiveCall
  <2>2. active' \in [call : Calls \cup {None}, live : BOOLEAN] /\ known' \subseteq Batches
    BY <1>7 DEF SetActiveCall
  <2>3. flight' \in [batch : Batches \cup {None}, live : BOOLEAN, unlocked : BOOLEAN]
    BY <1>7 DEF SetActiveCall
  <2> QED
    BY <2>1, <2>2, <2>3
<1>8. ASSUME NEW c \in Calls, PendingForCall(c) PROVE PresenceOK'
  BY <1>8 DEF PendingForCall
<1>9. ASSUME NEW c \in Calls, EndActiveCall(c) PROVE PresenceOK'
  BY <1>2, <1>9 DEF EndActiveCall
<1>10. ASSUME NEW b \in Batches, FinishCall(b) PROVE PresenceOK'
  <2>1. CASE Reached(b)
    BY <1>1, <1>2, <1>10, <2>1 DEF FinishCall
  <2>2. CASE ~Reached(b)
    <3>1. presence' = [presence EXCEPT !.backoff = TRUE,
                         !.misses = IF @ < MaxMisses THEN @ + 1 ELSE @]
      BY <1>10, <2>2 DEF FinishCall
    <3>2. (IF presence.misses < MaxMisses THEN presence.misses + 1 ELSE presence.misses)
            \in 0..MaxMisses
      BY <1>1
    <3>3. presence' \in Presences
      BY <3>1, <3>2
    <3> QED
      BY <1>2, <1>10, <3>3 DEF FinishCall
  <2> QED
    BY <2>1, <2>2
<1>11. ASSUME NEW c \in Calls, ForgetCall(c) PROVE PresenceOK'
  BY <1>2, <1>11 DEF ForgetCall
<1>12. ASSUME NEW ch \in Channels, NoteOwnerActivity(ch) PROVE PresenceOK'
  <2>1. (IF ch \in TextRoutes THEN ch ELSE None) \in TextRoutes \cup {None}
    OBVIOUS
  <2>2. presence' \in Presences
    BY <1>1, <1>12, <2>1 DEF NoteOwnerActivity
  <2> QED
    BY <1>12, <2>2 DEF NoteOwnerActivity
<1>13. CASE RequestCall
  BY <1>1, <1>13 DEF RequestCall
<1>14. ASSUME NEW r \in Overrides, SetDefaultRoute(r) PROVE PresenceOK'
  BY <1>14, OutboxAssumption DEF SetDefaultRoute
<1>15. ASSUME NEW b \in Batches, CallLeaseLapses(b) PROVE PresenceOK'
  BY <1>15 DEF CallLeaseLapses
<1>16. CASE ActiveCallLapses
  BY <1>16 DEF ActiveCallLapses
<1>17. CASE PresenceLapses
  BY <1>17 DEF PresenceLapses
<1>18. ASSUME \/ UNCHANGED boxVars \/ SettleSms \/ RecordSend
              \/ \E i \in Items : \/ UpsertForGoal(i) \/ AddAnswer(i)
                                  \/ SendLeaseLapses(i) \/ ItemTimerLapses(i)
                                  \/ \E c \in Calls : ReportHeard(c, i)
                                  \/ \E r \in SendRoutes : ClaimSend(i, r)
              \/ \E g \in Goals : \/ CancelForGoal(g) \/ MarkCancelling(g)
                                  \/ \E r \in Overrides : SetRouteOverrideForGoal(g, r)
                                  \/ \E r \in Routes : MarkHeardForGoal(g, r)
              \/ \E b \in Batches : AckBatch(b)
              \/ \E c \in Calls : MarkOffered(c)
       PROVE  PresenceOK'
  <2>1. UNCHANGED <<presence, active, flight, known>>
    BY <1>18 DEF boxVars, SettleSms, RecordSend, UpsertForGoal, AddAnswer, SendLeaseLapses,
       ItemTimerLapses, ReportHeard, ClaimSend, CancelForGoal, MarkCancelling,
       SetRouteOverrideForGoal, MarkHeardForGoal, AckBatch, MarkOffered
  <2> QED
    BY <1>3, <2>1
<1> QED
  BY <1>4, <1>5, <1>6, <1>7, <1>8, <1>9, <1>10, <1>11, <1>12, <1>13, <1>14, <1>15, <1>16,
     <1>17, <1>18, BoxWriters

\* A step keeps the place of the dispatcher and what it works on.
LEMMA DispatcherTyped ==
  ASSUME TypeOK, [Next]_vars
  PROVE  DispatcherOK'
<1> USE DEF TypeOK, DispatcherOK
<1>1. NoPlan \in [send : SUBSET (Items \X SendRoutes), call : BOOLEAN,
                  dial : SUBSET Items, asked : BOOLEAN]
  BY DEF NoPlan
<1>2. CASE StartPass
  BY <1>2 DEF StartPass, OpenItems
<1>3. ASSUME NEW i \in Items, ReadSms(i) PROVE DispatcherOK'
  BY <1>3 DEF ReadSms, SmsDeliveryVerdict, SendRoutes, TextRoutes
<1>4. CASE SettleSms
  BY <1>4 DEF SettleSms
<1>5. CASE PlanPass
  <2>1. MayRing \subseteq Items /\ CallNow \in BOOLEAN /\ presence.requested \in BOOLEAN
    BY DEF MayRing, CallNow, ForPhone, Deliverable, OpenItems, PresenceOK
  <2>2. plan' \in [send : SUBSET (Items \X SendRoutes), call : BOOLEAN,
                   dial : SUBSET Items, asked : BOOLEAN]
    BY <1>5, <2>1 DEF PlanPass, PlanOwnerDeliveries
  <2> QED
    BY <1>5, <2>2 DEF PlanPass
<1>6. CASE EndPass
  BY <1>1, <1>6 DEF EndPass
<1>7. ASSUME NEW i \in Items, NEW r \in SendRoutes, ClaimSend(i, r) PROVE DispatcherOK'
  BY <1>7 DEF ClaimSend
<1>8. CASE SendAccepted \/ SendFailed
  BY <1>8 DEF SendAccepted, SendFailed
<1>9. CASE RecordSend
  BY <1>9 DEF RecordSend
<1>10. ASSUME NEW b \in Batches, StartCallBatch(b) PROVE DispatcherOK'
  BY <1>1, <1>10 DEF StartCallBatch
<1>11. CASE SkipCallBatch
  BY <1>1, <1>11 DEF SkipCallBatch
<1>12. CASE PlaceCallback \/ PlaceCallbackFails \/ PlaceCallbackReplyLost
  BY <1>12 DEF PlaceCallback, PlaceCallbackFails, PlaceCallbackReplyLost
<1>13. CASE CallPlaced \/ CallPlacementFailed
  BY <1>13 DEF CallPlaced, CallPlacementFailed
<1>14. CASE Crash
  BY <1>1, <1>14 DEF Crash
<1>15. UNCHANGED dispVars => DispatcherOK'
  BY DEF dispVars
<1> QED
  BY <1>2, <1>3, <1>4, <1>5, <1>6, <1>7, <1>8, <1>9, <1>10, <1>11, <1>12, <1>13, <1>14, <1>15,
     DispatcherWriters DEF Dispatch
\* A step keeps what the handlers and the voice service remember of each call.
LEMMA HandlersTyped ==
  ASSUME TypeOK, [Next]_vars
  PROVE  HandlersOK'
<1> USE DEF TypeOK, HandlersOK, memVars, voiceVars
<1>1. NoOffer \in [from : {"none", "poll", "batch"}, items : SUBSET Items]
  BY DEF NoOffer
<1>2. Publish => HandlersOK'
  BY DEF Publish, UpsertForGoal, AddAnswer
<1>3. Dispatch => UNCHANGED <<memVars, voiceVars>>
  BY DEF Dispatch, StartPass, PlanPass, EndPass, SendAccepted, SendFailed, RecordSend,
     SkipCallBatch, PlaceCallback, PlaceCallbackFails, PlaceCallbackReplyLost, CallPlaced,
     CallPlacementFailed, SettleSms, ReadSms, ClaimSend, StartCallBatch
<1>4. ASSUME NEW c \in Calls, PendingForCall(c) PROVE HandlersOK'
  <2>1. Pending(c) \in SUBSET Items
    BY DEF Pending, OpenItems
  <2> QED
    BY <1>1, <1>4, <2>1 DEF PendingForCall
<1>5. ASSUME NEW b \in Batches, FetchBatch(b) PROVE HandlersOK'
  <2>1. BatchItems(b) \cap OpenItems \in SUBSET Items
    BY DEF BatchItems
  <2> QED
    BY <1>5, <2>1 DEF FetchBatch
<1>6. ASSUME NEW c \in Calls, MarkOffered(c) PROVE HandlersOK'
  BY <1>1, <1>6 DEF MarkOffered
<1>7. ASSUME NEW c \in Calls, SetActiveCall(c) \/ SendPoll(c) \/ EndActiveCall(c)
      PROVE  HandlersOK'
  BY <1>7 DEF SetActiveCall, SendPoll, EndActiveCall
<1>8. ASSUME NEW c \in Calls, ForgetCall(c) PROVE HandlersOK'
  BY <1>8 DEF ForgetCall
<1>9. ASSUME NEW b \in Batches, AmdVerdict(b) \/ RedirectToNotice(b) PROVE HandlersOK'
  BY <1>9 DEF AmdVerdict, RedirectToNotice
<1>10. ASSUME NEW c \in Calls, InboundUnlock(c) \/ HangUp(c) \/ CallbackUnlock(c)
       PROVE  HandlersOK'
  BY <1>10 DEF InboundUnlock, HangUp, CallbackUnlock
<1>11. ASSUME NEW b \in Batches, AckBatch(b) \/ FinishCall(b) PROVE HandlersOK'
  BY <1>11 DEF AckBatch, FinishCall
<1>12. ASSUME NEW c \in Calls, NEW i \in Items, ReportHeard(c, i) PROVE HandlersOK'
  BY <1>12 DEF ReportHeard
<1>13. Voice => HandlersOK'
  BY <1>4, <1>5, <1>6, <1>7, <1>8, <1>9, <1>10, <1>11, <1>12 DEF Voice, Calls
<1>14. ASSUME NEW g \in Goals, CancelForGoal(g) \/ MarkCancelling(g) PROVE HandlersOK'
  BY <1>14 DEF CancelForGoal, MarkCancelling
<1>15. OwnerSays => HandlersOK'
  BY <1>14 DEF OwnerSays, RequestCall, NoteOwnerActivity, SetDefaultRoute,
     SetRouteOverrideForGoal, MarkHeardForGoal
<1>16. TimePasses => UNCHANGED <<memVars, voiceVars>>
  BY DEF TimePasses, ActiveCallLapses, PresenceLapses, HoursPass, SendLeaseLapses,
     ItemTimerLapses, CarrierStep, CallLeaseLapses
<1>17. CASE Crash
  BY <1>1, <1>17 DEF Crash
<1>18. UNCHANGED <<memVars, voiceVars>> => HandlersOK'
  OBVIOUS
<1>19. UNCHANGED vars => HandlersOK'
  BY DEF vars
<1> QED
  BY <1>2, <1>3, <1>13, <1>14, <1>15, <1>16, <1>17, <1>18, <1>19 DEF Next

\* A bounded choice leaves a budget.
LEMMA Spending ==
  ASSUME budget \in [{"contacts", "faults", "polls", "lapses", "crashes"} -> Nat],
         NEW what, NEW bounded,
         Spend(what) \/ SpendIf(bounded, what)
  PROVE  budget' \in [{"contacts", "faults", "polls", "lapses", "crashes"} -> Nat]
  BY DEF Spend, SpendIf

\* A step keeps the calls and the messages in the states Twilio has for them.
LEMMA OutsideTyped ==
  ASSUME TypeOK, [Next]_vars
  PROVE  OutsideOK'
<1> USE DEF TypeOK, OutsideOK, envVars
<1> DEFINE Budgets == [{"contacts", "faults", "polls", "lapses", "crashes"} -> Nat]
<1>1. ASSUME UNCHANGED envVars, budget' \in Budgets PROVE OutsideOK'
  BY <1>1
<1>2. Publish => OutsideOK'
  BY DEF Publish, UpsertForGoal, AddAnswer
<1>3. ASSUME NEW i \in Items, ReadSms(i) PROVE OutsideOK'
  <2>1. budget' \in Budgets
    BY <1>3, Spending DEF ReadSms
  <2> QED
    BY <1>1, <1>3, <2>1 DEF ReadSms
<1>4. CASE SendAccepted
  <2>1. [p \in Parts |-> "queued"] \in [Parts -> SmsStatuses]
    BY DEF SmsStatuses
  <2> QED
    BY <1>4, <2>1 DEF SendAccepted
<1>5. CASE SendFailed
  BY <1>1, <1>5, Spending DEF SendFailed
<1>6. CASE PlaceCallback \/ PlaceCallbackReplyLost
  <2>1. phone' \in [Calls -> {"none", "ringing", "open", "ended"}]
    BY <1>6 DEF PlaceCallback, PlaceCallbackReplyLost
  <2>2. cur \in Batches /\ budget' \in Budgets
    BY <1>6, Spending DEF PlaceCallback, PlaceCallbackReplyLost, DispatcherOK
  <2> QED
    BY <1>6, <2>1, <2>2 DEF PlaceCallback, PlaceCallbackReplyLost
<1>7. CASE PlaceCallbackFails
  BY <1>1, <1>7, Spending DEF PlaceCallbackFails
<1>8. Dispatch => OutsideOK'
  BY <1>3, <1>4, <1>5, <1>6, <1>7 DEF Dispatch, StartPass, PlanPass, EndPass, RecordSend,
     SkipCallBatch, CallPlaced, CallPlacementFailed, SettleSms, ClaimSend, StartCallBatch
<1>9. ASSUME NEW c \in Calls, InboundUnlock(c) PROVE OutsideOK'
  BY <1>9, Spending DEF InboundUnlock
<1>10. ASSUME NEW c \in Calls, CallbackUnlock(c) \/ HangUp(c) \/ SetActiveCall(c) \/ ForgetCall(c)
       PROVE  OutsideOK'
  BY <1>10 DEF CallbackUnlock, HangUp, SetActiveCall, ForgetCall
<1>11. ASSUME NEW c \in Calls, SendPoll(c) PROVE OutsideOK'
  BY <1>1, <1>11, Spending DEF SendPoll
<1>12. ASSUME NEW c \in Calls,
              \/ PendingForCall(c) \/ FetchBatch(c) \/ MarkOffered(c) \/ AckBatch(c)
              \/ EndActiveCall(c) \/ FinishCall(c) \/ AmdVerdict(c)
              \/ \E i \in Items : ReportHeard(c, i)
       PROVE  OutsideOK'
  BY <1>12 DEF PendingForCall, FetchBatch, MarkOffered, AckBatch, EndActiveCall, FinishCall,
     AmdVerdict, ReportHeard
<1>13. ASSUME NEW b \in Batches, RedirectToNotice(b) PROVE OutsideOK'
  BY <1>13 DEF RedirectToNotice
<1>14. Voice => OutsideOK'
  BY <1>9, <1>10, <1>11, <1>12, <1>13 DEF Voice, Calls
<1>15. ASSUME OwnerSays PROVE OutsideOK'
  <2>1. UNCHANGED envVars /\ Spend("contacts")
    BY <1>15 DEF OwnerSays, RequestCall, NoteOwnerActivity, SetDefaultRoute, CancelForGoal,
       SetRouteOverrideForGoal, MarkHeardForGoal
  <2> QED
    BY <1>1, <2>1, Spending
<1>16. ASSUME NEW i \in Items, NEW p \in Parts, CarrierStep(i, p) PROVE OutsideOK'
  BY <1>16 DEF CarrierStep
<1>17. ASSUME NEW i \in Items, SendLeaseLapses(i) PROVE OutsideOK'
  BY <1>1, <1>17, Spending DEF SendLeaseLapses
<1>18. ASSUME NEW i \in Items, ItemTimerLapses(i) PROVE OutsideOK'
  <2>1. budget' \in Budgets
    BY <1>18, Spending DEF ItemTimerLapses
  <2> QED
    BY <1>1, <1>18, <2>1 DEF ItemTimerLapses
<1>19. ASSUME NEW b \in Batches, CallLeaseLapses(b) PROVE OutsideOK'
  BY <1>1, <1>19, Spending DEF CallLeaseLapses
<1>20. TimePasses => OutsideOK'
  BY <1>16, <1>17, <1>18, <1>19 DEF TimePasses, ActiveCallLapses, PresenceLapses, HoursPass
<1>21. CASE Crash
  BY <1>1, <1>21, Spending DEF Crash
<1>22. ASSUME NEW g \in Goals, MarkCancelling(g) PROVE OutsideOK'
  BY <1>22 DEF MarkCancelling
<1>23. UNCHANGED vars => OutsideOK'
  BY DEF vars
<1> QED
  BY <1>2, <1>8, <1>14, <1>15, <1>20, <1>21, <1>22, <1>23 DEF Next

\* The initial state has the types.
LEMMA TypeInit == Init => TypeOK
<1> SUFFICES ASSUME Init PROVE TypeOK
  OBVIOUS
<1>1. ItemsOK
  BY DEF Init, ItemsOK, Absent, NewItem, ItemRecord, ItemStates
<1>2. PresenceOK
  BY PolicyAssumption DEF Init, PresenceOK, NoActive, NoFlight
<1>3. DispatcherOK /\ HandlersOK
  BY DEF Init, DispatcherOK, HandlersOK, NoPlan, NoOffer
<1>4. OutsideOK
  BY OutboxAssumption DEF Init, OutsideOK, SmsStatuses
<1> QED
  BY <1>1, <1>2, <1>3, <1>4 DEF TypeOK

\* Every state of the owner outbox is of the types TypeOK lists, for any items,
\* callbacks and calls: no handler leaves a half-written record behind.
THEOREM TypeCorrect == Spec => []TypeOK
<1>1. TypeOK /\ [Next]_vars => TypeOK'
  BY ItemsTyped, PresenceTyped, DispatcherTyped, HandlersTyped, OutsideTyped DEF TypeOK
<1> QED
  BY <1>1, TypeInit, PTL DEF Spec
------------------------------------------------------------------------------
(* Callbacks: which call holds which items, and which call rings.            *)

\* In a step no callback is put in flight or taken out of it, and no item is
\* taken for one.
CallsUntouched ==
  /\ flight'.batch = flight.batch /\ flight'.live = flight.live
  /\ \A i \in Items : item'[i].lease \in Batches /\ item'[i].leaseLive =>
       item'[i].lease = item[i].lease /\ item[i].leaseLive

\* Whatever else the box writes, callbacks hold what they held, or less.
LEMMA OtherWriters ==
  ASSUME TypeOK, [Next]_vars, ~CallPlacementFailed,
         \A b \in Batches : ~StartCallBatch(b) /\ ~FinishCall(b) /\ ~CallLeaseLapses(b)
  PROVE  CallsUntouched
<1> USE DEF TypeOK, ItemsOK, PresenceOK, CallsUntouched
<1>1. ASSUME UNCHANGED <<item, flight>> PROVE CallsUntouched
  BY <1>1
<1>2. \A i \in Items : Release(item[i]).lease \notin Batches
  BY OutboxAssumption DEF Release, ItemRecord
<1>3. ASSUME NEW i \in Items, UpsertForGoal(i) \/ AddAnswer(i) PROVE CallsUntouched
  <2>1. \A r \in Routes \cup {None} : NewItem(r).lease \notin Batches
    BY OutboxAssumption DEF NewItem
  <2>2. \A j \in Items : [Release(item[j]) EXCEPT !.state = "superseded"].lease \notin Batches
    BY OutboxAssumption DEF Release, ItemRecord
  <2>3. CASE UpsertForGoal(i)
    BY <2>1, <2>2, <2>3 DEF UpsertForGoal
  <2>4. CASE AddAnswer(i)
    BY <2>1, <2>4 DEF AddAnswer, Routes, SendRoutes, TextRoutes
  <2> QED
    BY <1>3, <2>3, <2>4
<1>4. ASSUME NEW g \in Goals, CancelForGoal(g) PROVE CallsUntouched
  <2>1. \A j \in Items : [Release(item[j]) EXCEPT !.state = "cancelled"].lease \notin Batches
    BY OutboxAssumption DEF Release, ItemRecord
  <2> QED
    BY <1>4, <2>1 DEF CancelForGoal
<1>5. CASE SettleSms
  <2>1. PICK i \in Items : cur[1] = i
    BY <1>5 DEF SettleSms, DispatcherOK
  <2>2. item'[i].lease = item[i].lease /\ item'[i].leaseLive = item[i].leaseLive
    BY <1>5, <2>1 DEF SettleSms, HeardBy, ItemRecord
  <2>3. \A j \in Items : j # i => item'[j] = item[j]
    BY <1>5, <2>1 DEF SettleSms
  <2> QED
    BY <1>5, <2>2, <2>3 DEF SettleSms
<1>6. ASSUME NEW i \in Items, NEW r \in SendRoutes, ClaimSend(i, r) PROVE CallsUntouched
  <2>1. [item[i] EXCEPT !.lease = "send", !.leaseLive = TRUE].lease \notin Batches
    BY OutboxAssumption DEF ItemRecord
  <2> QED
    BY <1>6, <2>1 DEF ClaimSend
<1>7. CASE RecordSend
  <2>1. PICK i \in Items : cur[1] = i
    BY <1>7 DEF RecordSend, DispatcherOK
  <2>2. item'[i].lease \notin Batches
    BY <1>7, <2>1, OutboxAssumption DEF RecordSend, HeardBy, Release, ItemRecord
  <2>3. \A j \in Items : j # i => item'[j] = item[j]
    BY <1>7, <2>1 DEF RecordSend
  <2> QED
    BY <1>7, <2>2, <2>3 DEF RecordSend
<1>8. ASSUME NEW S, NEW r \in Routes, Heard(S, r), UNCHANGED flight PROVE CallsUntouched
  <2>1. \A j \in Items :
          [Release(item[j]) EXCEPT !.state = "heard", !.heardBy = r].lease \notin Batches
    BY OutboxAssumption DEF Release, ItemRecord
  <2> QED
    BY <1>8, <2>1 DEF Heard
<1>9. ASSUME NEW c \in Calls, NEW i \in Items, ReportHeard(c, i) PROVE CallsUntouched
  BY <1>8, <1>9 DEF ReportHeard, Routes
<1>10. ASSUME NEW b \in Batches, AckBatch(b) PROVE CallsUntouched
  BY <1>8, <1>10 DEF AckBatch, Routes
<1>11. ASSUME NEW g \in Goals, NEW r \in Routes, MarkHeardForGoal(g, r) PROVE CallsUntouched
  BY <1>8, <1>11 DEF MarkHeardForGoal
<1>12. ASSUME NEW c \in Calls, MarkOffered(c) PROVE CallsUntouched
  <2>1. \A j \in Items : /\ OfferedOn(j, c).lease = item[j].lease
                         /\ OfferedOn(j, c).leaseLive = item[j].leaseLive
    BY DEF OfferedOn, ItemRecord
  <2> QED
    BY <1>12, <2>1 DEF MarkOffered
<1>13. ASSUME NEW c \in Calls, EndActiveCall(c) PROVE CallsUntouched
  BY <1>13, ZenonT(60) DEF EndActiveCall, ItemRecord
<1>14. ASSUME NEW c \in Calls, ForgetCall(c) PROVE CallsUntouched
  BY <1>14 DEF ForgetCall, ItemRecord
<1>15. ASSUME NEW g \in Goals, NEW r \in Overrides, SetRouteOverrideForGoal(g, r)
       PROVE  CallsUntouched
  BY <1>15 DEF SetRouteOverrideForGoal, ItemRecord
<1>16. ASSUME NEW i \in Items, SendLeaseLapses(i) PROVE CallsUntouched
  <2>1. [item[i] EXCEPT !.leaseLive = FALSE].leaseLive = FALSE
    BY DEF ItemRecord
  <2> QED
    BY <1>16, <2>1 DEF SendLeaseLapses
<1>17. ASSUME NEW i \in Items, ItemTimerLapses(i) PROVE CallsUntouched
  <2>1. \A rec \in {[item[i] EXCEPT !.settling = FALSE], [item[i] EXCEPT !.retry = FALSE],
                    [item[i] EXCEPT !.sms = "late"]} :
          rec.lease = item[i].lease /\ rec.leaseLive = item[i].leaseLive
    BY DEF ItemRecord
  <2> QED
    BY <1>17, <2>1 DEF ItemTimerLapses
<1>18. ASSUME NEW c \in Calls, SetActiveCall(c) PROVE CallsUntouched
  BY <1>18 DEF SetActiveCall
<1>19. ASSUME \/ UNCHANGED boxVars \/ CallPlaced \/ RequestCall \/ ActiveCallLapses
              \/ PresenceLapses \/ \E g \in Goals : MarkCancelling(g)
              \/ \E c \in Calls : PendingForCall(c)
              \/ \E ch \in Channels : NoteOwnerActivity(ch)
              \/ \E r \in Overrides : SetDefaultRoute(r)
       PROVE  CallsUntouched
  <2>1. UNCHANGED <<item, flight>>
    BY <1>19 DEF boxVars, CallPlaced, RequestCall, ActiveCallLapses, PresenceLapses,
       MarkCancelling, PendingForCall, NoteOwnerActivity, SetDefaultRoute
  <2> QED
    BY <1>1, <2>1
<1> QED
  BY <1>3, <1>4, <1>5, <1>6, <1>7, <1>9, <1>10, <1>11, <1>12, <1>13, <1>14, <1>15, <1>16,
     <1>17, <1>18, <1>19, BoxWriters

\* A batch id is none of the values that stand for no batch.
LEMMA BatchIds ==
  /\ Batches \subseteq Calls /\ Batches \cap Inbound = {}
  /\ None \notin Batches /\ "none" \notin Batches /\ "send" \notin Batches
  BY OutboxAssumption DEF Calls

\* The steps that change where a call is.
LEMMA PhoneWriters ==
  ASSUME [Next]_vars
  PROVE  \/ UNCHANGED <<phone, lost>>
         \/ PlaceCallback \/ PlaceCallbackReplyLost
         \/ \E c \in Inbound : InboundUnlock(c)
         \/ \E b \in Batches : CallbackUnlock(b) \/ RedirectToNotice(b)
         \/ \E c \in Calls : HangUp(c) \/ ForgetCall(c)
<1> USE DEF envVars
<1>1. Publish => UNCHANGED <<phone, lost>>
  BY DEF Publish, UpsertForGoal, AddAnswer
<1>2. Dispatch => UNCHANGED <<phone, lost>> \/ PlaceCallback \/ PlaceCallbackReplyLost
  BY DEF Dispatch, StartPass, PlanPass, EndPass, SendAccepted, SendFailed, RecordSend,
     SkipCallBatch, PlaceCallbackFails, CallPlaced, CallPlacementFailed, SettleSms, ReadSms,
     ClaimSend, StartCallBatch
<1>3. ASSUME NEW c \in Calls,
             \/ SetActiveCall(c) \/ SendPoll(c) \/ PendingForCall(c) \/ MarkOffered(c)
             \/ EndActiveCall(c) \/ \E i \in Items : ReportHeard(c, i)
      PROVE  UNCHANGED <<phone, lost>>
  BY <1>3 DEF SetActiveCall, SendPoll, PendingForCall, MarkOffered, EndActiveCall, ReportHeard
<1>4. ASSUME NEW b \in Batches,
             FetchBatch(b) \/ AckBatch(b) \/ FinishCall(b) \/ AmdVerdict(b)
      PROVE  UNCHANGED <<phone, lost>>
  BY <1>4 DEF FetchBatch, AckBatch, FinishCall, AmdVerdict
<1>5. OwnerSays => UNCHANGED <<phone, lost>>
  BY DEF OwnerSays, RequestCall, NoteOwnerActivity, SetDefaultRoute, CancelForGoal,
     SetRouteOverrideForGoal, MarkHeardForGoal
<1>6. TimePasses => UNCHANGED <<phone, lost>>
  BY DEF TimePasses, ActiveCallLapses, PresenceLapses, HoursPass, SendLeaseLapses,
     ItemTimerLapses, CarrierStep, CallLeaseLapses
<1>7. Crash \/ UNCHANGED vars \/ (\E g \in Goals : MarkCancelling(g)) => UNCHANGED <<phone, lost>>
  BY DEF Crash, vars, MarkCancelling
<1> QED
  BY <1>1, <1>2, <1>3, <1>4, <1>5, <1>6, <1>7 DEF Next, Voice

\* A lease on a callback lives and ends with the callback in flight.
LEMMA HeldStep ==
  ASSUME TypeOK, HeldItemsHaveTheirCall, [Next]_vars
  PROVE  HeldItemsHaveTheirCall'
<1> USE DEF TypeOK, ItemsOK, PresenceOK, HeldItemsHaveTheirCall
<1>1. \A i \in Items : Release(item[i]).lease \notin Batches
  BY OutboxAssumption DEF Release, ItemRecord
<1>2. ASSUME NEW b \in Batches, StartCallBatch(b) PROVE HeldItemsHaveTheirCall'
  <2>1. \A i \in Items : ~(item[i].lease \in Batches /\ item[i].leaseLive)
    BY <1>2, BatchIds DEF StartCallBatch, Ringing
  <2>2. \A i \in Items : [item[i] EXCEPT !.lease = b, !.leaseLive = TRUE].lease = b
    BY DEF ItemRecord
  <2> QED
    BY <1>2, <2>1, <2>2 DEF StartCallBatch
<1>3. ASSUME NEW b \in Batches, FinishCall(b) PROVE HeldItemsHaveTheirCall'
  <2>1. \A i \in Items : AfterCall(item[i]).lease \notin Batches
    BY <1>1 DEF AfterCall, Release, ItemRecord
  <2> QED
    BY <1>3, <2>1 DEF FinishCall, BatchItems
<1>4. ASSUME NEW b \in Batches, CallLeaseLapses(b) PROVE HeldItemsHaveTheirCall'
  <2>1. \A i \in Items : [item[i] EXCEPT !.leaseLive = FALSE].leaseLive = FALSE
    BY DEF ItemRecord
  <2> QED
    BY <1>4, <2>1 DEF CallLeaseLapses
<1>5. CASE CallPlacementFailed
  <2>1. \A i \in Items :
          [Release(item[i]) EXCEPT !.retry = TRUE, !.missed = TRUE].lease \notin Batches
    BY OutboxAssumption DEF Release, ItemRecord
  <2> QED
    BY <1>5, <2>1 DEF CallPlacementFailed
<1>6. CallsUntouched => HeldItemsHaveTheirCall'
  BY DEF CallsUntouched
<1> QED
  BY <1>2, <1>3, <1>4, <1>5, <1>6, OtherWriters

\* A callback that starts to ring is the one in flight, and no other ends while
\* it rings.
LEMMA RingStep ==
  ASSUME TypeOK, OneCallbackRings, PlacesTheCallInFlight, [Next]_vars
  PROVE  OneCallbackRings' /\ PlacesTheCallInFlight'
<1> USE DEF OneCallbackRings, PlacesTheCallInFlight
<1>0. /\ pc \in {"dial", "dialed"} => cur \in Batches
      /\ phone \in [Calls -> {"none", "ringing", "open", "ended"}]
      /\ flight \in [batch : Batches \cup {None}, live : BOOLEAN, unlocked : BOOLEAN]
  BY DEF TypeOK, DispatcherOK, OutsideOK, PresenceOK
<1> DEFINE Good == OneCallbackRings' /\ PlacesTheCallInFlight'
<1>1. ASSUME NEW b \in Batches, StartCallBatch(b) PROVE Good
  <2>1. \A a \in Batches \ lost : phone[a] # "ringing"
    BY <1>0, <1>1, BatchIds DEF StartCallBatch, Ringing
  <2> QED
    BY <1>0, <1>1, <2>1 DEF StartCallBatch, envVars
<1>2. ASSUME NEW b \in Batches, FinishCall(b) PROVE Good
  BY <1>0, <1>2 DEF FinishCall, Terminal, dispVars, envVars
<1>3. ASSUME NEW b \in Batches, CallLeaseLapses(b) PROVE Good
  BY <1>0, <1>3 DEF CallLeaseLapses, dispVars, envVars
<1>4. CASE CallPlacementFailed
  <2>1. \A b \in Batches \ lost : phone[b] = "ringing" => b # cur
    BY <1>0, <1>4 DEF CallPlacementFailed
  <2>2. \A b \in Batches \ lost : phone[b] = "ringing" => flight' = flight
    BY <1>0, <1>4, <2>1 DEF CallPlacementFailed
  <2> QED
    BY <1>4, <2>2 DEF CallPlacementFailed, envVars
<1>5. CASE PlaceCallback \/ PlaceCallbackFails \/ PlaceCallbackReplyLost
  BY <1>0, <1>5 DEF PlaceCallback, PlaceCallbackFails, PlaceCallbackReplyLost, boxVars, envVars, Calls
<1>6. ASSUME UNCHANGED <<phone, lost>>, CallsUntouched, UNCHANGED dispVars \/ pc' \notin {"dial", "dialed"}
      PROVE  Good
  BY <1>0, <1>6 DEF CallsUntouched, dispVars
<1>7. ASSUME CallsUntouched, UNCHANGED dispVars, UNCHANGED lost, NEW c \in Calls,
             phone[c] # "none" \/ c \in Inbound, phone'[c] # "ringing",
             \A a \in Calls \ {c} : phone'[a] = phone[a]
      PROVE  Good
  <2>1. pc = "dial" => cur \in Calls \ {c}
    BY <1>0, <1>7, BatchIds
  <2>2. OneCallbackRings'
    BY <1>0, <1>7, BatchIds DEF CallsUntouched
  <2>3. PlacesTheCallInFlight'
    BY <1>0, <1>7, <2>1, BatchIds DEF CallsUntouched, dispVars
  <2> QED
    BY <2>2, <2>3
<1>8. ASSUME NEW c \in Calls, ForgetCall(c) PROVE Good
  <2>1. c # cur /\ phone'[c] = "none" /\ lost' = lost \ {c}
    BY <1>0, <1>8 DEF ForgetCall
  <2>2. \A a \in Calls \ {c} : phone'[a] = phone[a]
    BY <1>0, <1>8 DEF ForgetCall
  <2> QED
    BY <1>0, <1>8, <2>1, <2>2, BatchIds DEF ForgetCall, dispVars
<1>9. ASSUME NEW c \in Calls,
             (InboundUnlock(c) /\ c \in Inbound) \/ CallbackUnlock(c) \/ HangUp(c)
      PROVE  Good
  BY <1>0, <1>7, <1>9 DEF InboundUnlock, CallbackUnlock, HangUp, CallsUntouched, boxVars
<1>10. ASSUME NEW b \in Batches, RedirectToNotice(b) PROVE Good
  <2>1. CASE phone[b] = "none"
    BY <1>0, <1>10, <2>1, BatchIds DEF RedirectToNotice, boxVars, dispVars
  <2>2. CASE phone[b] # "none"
    BY <1>0, <1>7, <1>10, <2>2, BatchIds DEF RedirectToNotice, CallsUntouched, boxVars
  <2> QED
    BY <2>1, <2>2
<1>11. CASE \/ PlaceCallback \/ PlaceCallbackFails \/ PlaceCallbackReplyLost
            \/ CallPlacementFailed
            \/ \E c \in Inbound : InboundUnlock(c)
            \/ \E c \in Calls : CallbackUnlock(c) \/ HangUp(c) \/ ForgetCall(c)
            \/ \E b \in Batches : \/ StartCallBatch(b) \/ FinishCall(b)
                                  \/ CallLeaseLapses(b) \/ RedirectToNotice(b)
  BY <1>1, <1>2, <1>3, <1>4, <1>5, <1>8, <1>9, <1>10, <1>11 DEF Calls
<1>12. CASE /\ ~PlaceCallback /\ ~PlaceCallbackFails /\ ~PlaceCallbackReplyLost
            /\ ~CallPlacementFailed
            /\ \A c \in Inbound : ~InboundUnlock(c)
            /\ \A c \in Calls : ~CallbackUnlock(c) /\ ~HangUp(c) /\ ~ForgetCall(c)
            /\ \A b \in Batches : /\ ~StartCallBatch(b) /\ ~FinishCall(b)
                                  /\ ~CallLeaseLapses(b) /\ ~RedirectToNotice(b)
  <2>1. CallsUntouched
    BY <1>12, OtherWriters
  <2>2. UNCHANGED <<phone, lost>>
    BY <1>12, PhoneWriters, BatchIds
  <2>3. UNCHANGED dispVars \/ pc' \notin {"dial", "dialed"}
    BY <1>12, DispatcherWriters DEF Dispatch, Crash, StartPass, PlanPass, EndPass,
       SendAccepted, SendFailed, RecordSend, SkipCallBatch, CallPlaced, SettleSms, ReadSms,
       ClaimSend
  <2> QED
    BY <1>0, <1>6, <2>1, <2>2, <2>3
<1> QED
  BY <1>11, <1>12

\* HeldItemsHaveTheirCall for every instance: an item that waits for a callback
\* waits for the one in flight.
THEOREM HeldItems == Spec => []HeldItemsHaveTheirCall
<1>1. Init => HeldItemsHaveTheirCall
  <2>1. Absent.leaseLive = FALSE
    BY DEF Absent, NewItem
  <2> QED
    BY <2>1 DEF Init, HeldItemsHaveTheirCall
<1>2. TypeOK /\ HeldItemsHaveTheirCall /\ [Next]_vars => HeldItemsHaveTheirCall'
  BY HeldStep
<1> QED
  BY <1>1, <1>2, TypeCorrect, PTL DEF Spec

\* OneCallbackRings for every instance: two callbacks the box knows of never ring
\* at once, whatever is restarted, late or lost apart from Twilio's create reply.
THEOREM OneRings == Spec => [](OneCallbackRings /\ PlacesTheCallInFlight)
<1>1. Init => OneCallbackRings /\ PlacesTheCallInFlight
  BY BatchIds DEF Init, OneCallbackRings, PlacesTheCallInFlight
<1>2. TypeOK /\ OneCallbackRings /\ PlacesTheCallInFlight /\ [Next]_vars
        => OneCallbackRings' /\ PlacesTheCallInFlight'
  BY RingStep
<1> QED
  BY <1>1, <1>2, TypeCorrect, PTL DEF Spec
------------------------------------------------------------------------------
(* What became of an item is final.                                          *)

\* No handler gives a heard, superseded or cancelled item another state.
LEMMA ClosedStep ==
  ASSUME TypeOK, [Next]_vars, NEW i \in Items, item[i].state \notin OpenStates \cup {"absent"}
  PROVE  item'[i].state = item[i].state
<1> DEFINE Kept == item'[i].state = item[i].state
<1>1. item \in [Items -> ItemRecord] /\ i \notin OpenItems /\ ~Open(i)
  BY DEF TypeOK, ItemsOK, OpenItems, Open
<1>2. \A j \in Items : item[j] \in ItemRecord
  BY <1>1
<1>3. item' = item => Kept
  OBVIOUS
<1>4. ASSUME NEW j \in Items, UpsertForGoal(j) PROVE Kept
  BY <1>1, <1>4 DEF UpsertForGoal, Supersedes
<1>5. ASSUME NEW j \in Items, AddAnswer(j) PROVE Kept
  BY <1>1, <1>5 DEF AddAnswer
<1>6. ASSUME NEW g \in Goals, CancelForGoal(g) PROVE Kept
  BY <1>1, <1>6 DEF CancelForGoal
<1>7. CASE SettleSms
  <2>1. CASE cur[1] # i
    BY <1>1, <1>7, <2>1 DEF SettleSms
  <2>2. CASE cur[1] = i
    <3> DEFINE settled == [item[i] EXCEPT !.sms = "none"]
    <3>1. settled \in ItemRecord /\ settled.state = item[i].state
      BY <1>2 DEF ItemRecord
    <3>2. HeardBy(settled, "sms").state = item[i].state
      BY <3>1 DEF HeardBy, ItemRecord
    <3>3. /\ [settled EXCEPT !.rejected = TRUE, !.retry = TRUE].state = item[i].state
          /\ [settled EXCEPT !.retry = TRUE].state = item[i].state
      BY <3>1 DEF ItemRecord
    <3>4. item'[i] \in {item[i], HeardBy(settled, "sms"),
                        [settled EXCEPT !.rejected = TRUE, !.retry = TRUE],
                        [settled EXCEPT !.retry = TRUE]}
      BY <1>1, <1>7, <2>2 DEF SettleSms
    <3> QED
      BY <3>2, <3>3, <3>4
  <2> QED
    BY <2>1, <2>2
<1>8. ASSUME NEW j \in Items, NEW r \in SendRoutes, ClaimSend(j, r) PROVE Kept
  BY <1>1, <1>2, <1>8 DEF ClaimSend
<1>9. CASE RecordSend
  <2>1. CASE cur[1] # i
    BY <1>1, <1>9, <2>1 DEF RecordSend
  <2>2. CASE cur[1] = i
    <3>1. Release(item[i]) \in ItemRecord /\ Release(item[i]).state = item[i].state
      BY <1>2 DEF Release, ItemRecord
    <3>2. HeardBy(Release(item[i]), cur[2]).state = item[i].state
      BY <3>1 DEF HeardBy, ItemRecord
    <3>3. /\ [Release(item[i]) EXCEPT !.sms = "wait"].state = item[i].state
          /\ [Release(item[i]) EXCEPT !.retry = TRUE].state = item[i].state
      BY <3>1 DEF ItemRecord
    <3>4. item'[i] \in {HeardBy(Release(item[i]), cur[2]),
                        [Release(item[i]) EXCEPT !.sms = "wait"],
                        [Release(item[i]) EXCEPT !.retry = TRUE]}
      BY <1>1, <1>9, <2>2 DEF RecordSend
    <3> QED
      BY <3>2, <3>3, <3>4
  <2> QED
    BY <2>1, <2>2
<1>10. ASSUME NEW b \in Batches, StartCallBatch(b) PROVE Kept
  BY <1>1, <1>10 DEF StartCallBatch, Claimable
<1>11. CASE CallPlacementFailed
  <2>1. [Release(item[i]) EXCEPT !.retry = TRUE, !.missed = TRUE].state = item[i].state
    BY <1>2 DEF Release, ItemRecord
  <2> QED
    BY <1>11, <2>1 DEF CallPlacementFailed
<1>12. ASSUME NEW c \in Calls, MarkOffered(c) PROVE Kept
  BY <1>1, <1>12 DEF MarkOffered, OfferedOn, Open
<1>13. ASSUME NEW S, NEW r, Heard(S, r) PROVE Kept
  BY <1>1, <1>13 DEF Heard
<1>14. ASSUME \/ \E c \in Calls, j \in Items : ReportHeard(c, j)
              \/ \E b \in Batches : AckBatch(b)
              \/ \E g \in Goals, r \in Routes : MarkHeardForGoal(g, r)
       PROVE  Kept
  BY <1>13, <1>14 DEF ReportHeard, AckBatch, MarkHeardForGoal
<1>15. ASSUME NEW c \in Calls, EndActiveCall(c) PROVE Kept
  BY <1>15 DEF EndActiveCall, OpenStates
<1>16. ASSUME NEW b \in Batches, FinishCall(b) PROVE Kept
  <2>1. AfterCall(item[i]).state = item[i].state
    BY <1>2 DEF AfterCall, Release, ItemRecord
  <2> QED
    BY <1>16, <2>1 DEF FinishCall
<1>17. ASSUME NEW c \in Calls, ForgetCall(c) PROVE Kept
  BY <1>2, <1>17 DEF ForgetCall, ItemRecord
<1>18. ASSUME NEW g \in Goals, NEW r \in Overrides, SetRouteOverrideForGoal(g, r) PROVE Kept
  BY <1>1, <1>18 DEF SetRouteOverrideForGoal
<1>19. ASSUME NEW j \in Items, SendLeaseLapses(j) PROVE Kept
  BY <1>1, <1>2, <1>19 DEF SendLeaseLapses, ItemRecord
<1>20. ASSUME NEW b \in Batches, CallLeaseLapses(b) PROVE Kept
  BY <1>2, <1>20 DEF CallLeaseLapses, ItemRecord
<1>21. ASSUME NEW j \in Items, ItemTimerLapses(j) PROVE Kept
  <2>1. j # i
    BY <1>1, <1>21 DEF ItemTimerLapses
  <2> QED
    BY <1>1, <1>21, <2>1 DEF ItemTimerLapses
<1>22. ASSUME \/ UNCHANGED boxVars \/ CallPlaced \/ RequestCall \/ ActiveCallLapses
              \/ PresenceLapses \/ \E g \in Goals : MarkCancelling(g)
              \/ \E c \in Calls : SetActiveCall(c) \/ PendingForCall(c)
              \/ \E ch \in Channels : NoteOwnerActivity(ch)
              \/ \E r \in Overrides : SetDefaultRoute(r)
       PROVE  Kept
  BY <1>3, <1>22 DEF boxVars, CallPlaced, RequestCall, ActiveCallLapses, PresenceLapses,
     MarkCancelling, SetActiveCall, PendingForCall, NoteOwnerActivity, SetDefaultRoute
<1> QED
  BY <1>4, <1>5, <1>6, <1>7, <1>8, <1>9, <1>10, <1>11, <1>12, <1>14, <1>15, <1>16, <1>17,
     <1>18, <1>19, <1>20, <1>21, <1>22, BoxWriters

\* ClosedIsFinal for every instance: no provider's answer, poll, receipt or end of
\* a call opens again what the owner heard or what was superseded or cancelled.
THEOREM Final == Spec => ClosedIsFinal
<1>1. TypeOK /\ [Next]_vars =>
        [\A i \in Items : item[i].state \notin OpenStates \cup {"absent"} =>
           item'[i].state = item[i].state]_vars
  BY ClosedStep
<1> QED
  BY <1>1, TypeCorrect, PTL DEF Spec, ClosedIsFinal
------------------------------------------------------------------------------
(* Texts: what a pass plans and what it sends.                               *)

\* The step gives item i no pending SMS and no rejection.
NoNewSms(i) ==
  /\ item[i].sms = "none" => item'[i].sms = "none"
  /\ item'[i].rejected => item[i].rejected

\* Only the dispatcher's own records of a send and of its receipt do.
LEMMA SmsWriters ==
  ASSUME TypeOK, [Next]_vars, ~SettleSms, ~RecordSend, NEW i \in Items
  PROVE  NoNewSms(i)
<1> USE DEF NoNewSms
<1>1. item \in [Items -> ItemRecord] /\ \A j \in Items : item[j] \in ItemRecord
  BY DEF TypeOK, ItemsOK
<1>2. item' = item => NoNewSms(i)
  OBVIOUS
<1>3. /\ Release(item[i]) \in ItemRecord
      /\ Release(item[i]).sms = item[i].sms /\ Release(item[i]).rejected = item[i].rejected
  BY <1>1 DEF Release, ItemRecord
<1>4. \A r : NewItem(r).sms = "none" /\ NewItem(r).rejected = FALSE
  BY DEF NewItem
<1>5. ASSUME NEW j \in Items, UpsertForGoal(j) PROVE NoNewSms(i)
  <2>1. item'[i] \in {NewItem(goalRoute[GoalOf[j]]), item[i],
                      [Release(item[i]) EXCEPT !.state = "superseded"]}
    BY <1>5 DEF UpsertForGoal
  <2> QED
    BY <1>3, <1>4, <2>1 DEF ItemRecord
<1>6. ASSUME NEW j \in Items, AddAnswer(j) PROVE NoNewSms(i)
  BY <1>1, <1>4, <1>6 DEF AddAnswer
<1>7. ASSUME NEW g \in Goals, CancelForGoal(g) PROVE NoNewSms(i)
  <2>1. item'[i] \in {item[i], [Release(item[i]) EXCEPT !.state = "cancelled"]}
    BY <1>7 DEF CancelForGoal
  <2> QED
    BY <1>3, <2>1 DEF ItemRecord
<1>8. ASSUME NEW j \in Items, NEW r \in SendRoutes, ClaimSend(j, r) PROVE NoNewSms(i)
  <2>1. item'[i] \in {item[i], [item[i] EXCEPT !.lease = "send", !.leaseLive = TRUE]}
    BY <1>1, <1>8 DEF ClaimSend
  <2> QED
    BY <1>1, <2>1 DEF ItemRecord
<1>9. ASSUME NEW b \in Batches, StartCallBatch(b) PROVE NoNewSms(i)
  <2>1. item'[i] \in {item[i], [item[i] EXCEPT !.lease = b, !.leaseLive = TRUE]}
    BY <1>9 DEF StartCallBatch
  <2> QED
    BY <1>1, <2>1 DEF ItemRecord
<1>10. CASE CallPlacementFailed
  <2>1. item'[i] \in {item[i], [Release(item[i]) EXCEPT !.retry = TRUE, !.missed = TRUE]}
    BY <1>10 DEF CallPlacementFailed
  <2> QED
    BY <1>3, <2>1 DEF ItemRecord
<1>11. ASSUME NEW c \in Calls, MarkOffered(c) PROVE NoNewSms(i)
  <2>1. item'[i] \in {item[i], [item[i] EXCEPT !.state = "offered", !.offeredOn = c]}
    BY <1>11 DEF MarkOffered, OfferedOn
  <2> QED
    BY <1>1, <2>1 DEF ItemRecord
<1>12. ASSUME NEW S, NEW r, Heard(S, r) PROVE NoNewSms(i)
  <2>1. item'[i] \in {item[i], [Release(item[i]) EXCEPT !.state = "heard", !.heardBy = r]}
    BY <1>12 DEF Heard
  <2> QED
    BY <1>3, <2>1 DEF ItemRecord
<1>13. ASSUME \/ \E c \in Calls, j \in Items : ReportHeard(c, j)
              \/ \E b \in Batches : AckBatch(b)
              \/ \E g \in Goals, r \in Routes : MarkHeardForGoal(g, r)
       PROVE  NoNewSms(i)
  BY <1>12, <1>13 DEF ReportHeard, AckBatch, MarkHeardForGoal
<1>14. ASSUME NEW c \in Calls, EndActiveCall(c) PROVE NoNewSms(i)
  <2>1. item'[i] \in {item[i],
          [item[i] EXCEPT !.state = "ready", !.offeredOn = None, !.missed = TRUE]}
    BY <1>14 DEF EndActiveCall
  <2> QED
    BY <1>1, <2>1 DEF ItemRecord
<1>15. ASSUME NEW b \in Batches, FinishCall(b) PROVE NoNewSms(i)
  <2>1. /\ AfterCall(item[i]).sms = item[i].sms
        /\ AfterCall(item[i]).rejected = item[i].rejected
    BY <1>3 DEF AfterCall, ItemRecord
  <2> QED
    BY <1>15, <2>1 DEF FinishCall
<1>16. ASSUME NEW c \in Calls, ForgetCall(c) PROVE NoNewSms(i)
  <2>1. item'[i] \in {item[i], [item[i] EXCEPT !.offeredOn = None]}
    BY <1>16 DEF ForgetCall
  <2> QED
    BY <1>1, <2>1 DEF ItemRecord
<1>17. ASSUME NEW g \in Goals, NEW r \in Overrides, SetRouteOverrideForGoal(g, r)
       PROVE  NoNewSms(i)
  <2>1. item'[i] \in {item[i], [item[i] EXCEPT !.override = r]}
    BY <1>17 DEF SetRouteOverrideForGoal
  <2> QED
    BY <1>1, <2>1 DEF ItemRecord
<1>18. ASSUME NEW j \in Items, SendLeaseLapses(j) PROVE NoNewSms(i)
  <2>1. item'[i] \in {item[i], [item[i] EXCEPT !.leaseLive = FALSE]}
    BY <1>1, <1>18 DEF SendLeaseLapses
  <2> QED
    BY <1>1, <2>1 DEF ItemRecord
<1>19. ASSUME NEW b \in Batches, CallLeaseLapses(b) PROVE NoNewSms(i)
  <2>1. item'[i] \in {item[i], [item[i] EXCEPT !.leaseLive = FALSE]}
    BY <1>19 DEF CallLeaseLapses
  <2> QED
    BY <1>1, <2>1 DEF ItemRecord
<1>20. ASSUME NEW j \in Items, ItemTimerLapses(j) PROVE NoNewSms(i)
  <2>1. \/ item'[i] \in {item[i], [item[i] EXCEPT !.settling = FALSE],
                         [item[i] EXCEPT !.retry = FALSE]}
        \/ item[i].sms = "wait" /\ item'[i] = [item[i] EXCEPT !.sms = "late"]
    BY <1>1, <1>20 DEF ItemTimerLapses
  <2> QED
    BY <1>1, <2>1 DEF ItemRecord
<1>21. ASSUME \/ UNCHANGED boxVars \/ CallPlaced \/ RequestCall \/ ActiveCallLapses
              \/ PresenceLapses \/ \E g \in Goals : MarkCancelling(g)
              \/ \E c \in Calls : SetActiveCall(c) \/ PendingForCall(c)
              \/ \E ch \in Channels : NoteOwnerActivity(ch)
              \/ \E r \in Overrides : SetDefaultRoute(r)
       PROVE  NoNewSms(i)
  BY <1>2, <1>21 DEF boxVars, CallPlaced, RequestCall, ActiveCallLapses, PresenceLapses,
     MarkCancelling, SetActiveCall, PendingForCall, NoteOwnerActivity, SetDefaultRoute
<1> QED
  BY <1>5, <1>6, <1>7, <1>8, <1>9, <1>10, <1>11, <1>13, <1>14, <1>15, <1>16, <1>17, <1>18,
     <1>19, <1>20, <1>21, BoxWriters

\* A new plan has one way for each item: a text is for the text routes, or in
\* place of a call that may not ring; a call is for the route "voice".
LEMMA PlanOneWay ==
  /\ \A a \in PlanOwnerDeliveries.send :
       /\ a \in Items \X SendRoutes /\ a[1] \notin PlanOwnerDeliveries.dial
       /\ \A b \in PlanOwnerDeliveries.send : a[1] = b[1] => a = b
       /\ item[a[1]].sms = "none" /\ (a[2] = "sms" => ~item[a[1]].rejected)
  /\ \A i \in PlanOwnerDeliveries.dial : item[i].sms = "none"
<1>1. \A i \in ForPhone : i \in Deliverable /\ Route(i) = "voice"
  BY DEF ForPhone
<1>2. \A i \in Deliverable : item[i].sms = "none"
  BY DEF Deliverable
<1>3. TextInstead \subseteq ForPhone /\ MayRing \subseteq ForPhone
  BY DEF TextInstead, MayRing
<1>4. TextInstead \cap MayRing = {}
  BY DEF TextInstead, MayRing
<1>5. PlanOwnerDeliveries.dial \subseteq MayRing
  BY DEF PlanOwnerDeliveries
<1>6. "voice" \notin SendRoutes
  BY DEF SendRoutes, TextRoutes
<1>7. \A i \in TextInstead : ~item[i].rejected
  BY DEF TextInstead, SmsUsable
<1>8. ASSUME NEW a \in PlanOwnerDeliveries.send
      PROVE  /\ a \in Items \X SendRoutes
             /\ \/ a[1] \in Deliverable /\ Route(a[1]) = a[2]
                   /\ (a[2] = "sms" => ~item[a[1]].rejected)
                \/ a[1] \in TextInstead /\ a[2] = "sms"
  BY DEF PlanOwnerDeliveries, SmsUsable
<1>9. ASSUME NEW a \in PlanOwnerDeliveries.send
      PROVE  /\ a[1] \notin PlanOwnerDeliveries.dial
             /\ item[a[1]].sms = "none" /\ (a[2] = "sms" => ~item[a[1]].rejected)
  BY <1>1, <1>2, <1>3, <1>4, <1>5, <1>6, <1>7, <1>8
<1>10. ASSUME NEW a \in PlanOwnerDeliveries.send, NEW b \in PlanOwnerDeliveries.send,
              a[1] = b[1]
       PROVE  a = b
  <2>1. a[2] = b[2]
    BY <1>1, <1>3, <1>6, <1>8, <1>10
  <2> QED
    BY <1>8, <1>10, <2>1
<1> QED
  BY <1>1, <1>2, <1>3, <1>5, <1>8, <1>9, <1>10

\* A step keeps OneWayPerPass.
LEMMA PassStep ==
  ASSUME TypeOK, OneWayPerPass, [Next]_vars
  PROVE  OneWayPerPass'
<1> USE DEF OneWayPerPass
<1>1. /\ plan.send \subseteq Items \X SendRoutes /\ plan.dial \subseteq Items
      /\ pc \in {"settling", "send", "sent"} => cur \in Items \X SendRoutes
      /\ item \in [Items -> ItemRecord]
  BY DEF TypeOK, DispatcherOK, ItemsOK
<1>2. NoPlan.send = {} /\ NoPlan.dial = {}
  BY DEF NoPlan
<1>3. ASSUME plan' = NoPlan, pc' \notin {"send", "sent"} PROVE OneWayPerPass'
  BY <1>2, <1>3
<1>4. CASE SettleSms \/ Crash \/ EndPass \/ SkipCallBatch
           \/ \E b \in Batches : StartCallBatch(b)
  BY <1>3, <1>4 DEF SettleSms, Crash, EndPass, SkipCallBatch, StartCallBatch
<1>5. CASE RecordSend
  <2>1. PICK i \in Items : cur[1] = i
    BY <1>1, <1>5 DEF RecordSend
  <2>2. \A j \in Items : j # i => item'[j] = item[j]
    BY <1>1, <1>5, <2>1 DEF RecordSend
  <2>3. pc = "sent" /\ pc' = "run" /\ plan' = plan
    BY <1>5 DEF RecordSend
  <2> QED
    BY <1>1, <2>1, <2>2, <2>3
<1>6. ASSUME ~SettleSms, ~RecordSend PROVE \A i \in Items : NoNewSms(i)
  BY <1>6, SmsWriters
<1>7. CASE PlanPass
  <2>1. item' = item /\ plan' = PlanOwnerDeliveries /\ pc' = "run"
    BY <1>7 DEF PlanPass, boxVars
  <2> QED
    BY <2>1, PlanOneWay
<1>8. ASSUME NEW i \in Items, NEW r \in SendRoutes, ClaimSend(i, r) PROVE OneWayPerPass'
  <2>1. /\ <<i, r>> \in plan.send /\ plan'.send = plan.send \ {<<i, r>>}
        /\ plan'.dial = plan.dial
    BY <1>8 DEF ClaimSend, TypeOK, DispatcherOK
  <2>2. \A j \in Items : NoNewSms(j)
    BY <1>6, <1>8 DEF ClaimSend, SettleSms, RecordSend
  <2>3. pc' = "run" \/ (pc' = "send" /\ cur' = <<i, r>>)
    BY <1>8 DEF ClaimSend
  <2>4. /\ i \notin plan'.dial /\ \A a \in plan'.send : a[1] # i
        /\ item'[i].sms = "none" /\ (r = "sms" => ~item'[i].rejected)
    BY <1>1, <2>1, <2>2 DEF NoNewSms
  <2>5. \A a \in plan'.send : item'[a[1]].sms = "none" /\ (a[2] = "sms" => ~item'[a[1]].rejected)
    BY <1>1, <2>1, <2>2 DEF NoNewSms
  <2>6. \A j \in plan'.dial : item'[j].sms = "none"
    BY <1>1, <2>1, <2>2 DEF NoNewSms
  <2> QED
    BY <2>1, <2>3, <2>4, <2>5, <2>6
<1>9. CASE /\ UNCHANGED plan /\ \A i \in Items : NoNewSms(i)
           /\ \/ UNCHANGED <<pc, cur>>
              \/ pc = "send" /\ pc' = "sent" /\ UNCHANGED cur
              \/ pc \notin {"run", "send", "sent"} /\ pc' \notin {"run", "send", "sent"}
  BY <1>1, <1>9 DEF NoNewSms
<1>10. CASE UNCHANGED dispVars
  BY <1>6, <1>9, <1>10 DEF dispVars, SettleSms, RecordSend
<1>11. CASE \/ StartPass \/ SendAccepted \/ SendFailed \/ PlaceCallback \/ PlaceCallbackFails
            \/ PlaceCallbackReplyLost \/ CallPlaced \/ CallPlacementFailed
            \/ \E i \in Items : ReadSms(i)
  <2>1. \A i \in Items : NoNewSms(i)
    BY <1>6, <1>11 DEF StartPass, SendAccepted, SendFailed, PlaceCallback, PlaceCallbackFails,
       PlaceCallbackReplyLost, CallPlaced, CallPlacementFailed, ReadSms, SettleSms, RecordSend
  <2> QED
    BY <1>9, <1>11, <2>1 DEF StartPass, SendAccepted, SendFailed, PlaceCallback,
       PlaceCallbackFails, PlaceCallbackReplyLost, CallPlaced, CallPlacementFailed, ReadSms
<1> QED
  BY <1>4, <1>5, <1>7, <1>8, <1>10, <1>11, DispatcherWriters DEF Dispatch

\* OneWayPerPass for every instance.
THEOREM OneWay == Spec => []OneWayPerPass
<1>1. Init => OneWayPerPass
  BY DEF Init, OneWayPerPass, NoPlan
<1>2. TypeOK /\ OneWayPerPass /\ [Next]_vars => OneWayPerPass'
  BY PassStep
<1> QED
  BY <1>1, <1>2, TypeCorrect, PTL DEF Spec

\* NeverTextedAfterRejection for every instance: a carrier's rejection that was
\* read rules SMS out whatever the dispatcher had planned.
THEOREM NoTextAfterRejection == Spec => NeverTextedAfterRejection
<1>1. OneWayPerPass /\ [Next]_vars =>
        [pc = "send" /\ cur[2] = "sms" /\ result' = "pending" => ~item[cur[1]].rejected]_vars
  BY DEF OneWayPerPass
<1> QED
  BY <1>1, OneWay, PTL DEF Spec, NeverTextedAfterRejection
=============================================================================
