----------------------------- MODULE OwnerOutbox -----------------------------
(***************************************************************************)
(* The owner outbox: every result, question or answer the owner still has  *)
(* to hear, the dispatcher that sends them, the Twilio calls and messages  *)
(* they travel on, the voice service on those calls, and the owner.        *)
(*                                                                         *)
(* Every store.transaction of realtimeGoals/outbox.ts is one action; an    *)
(* await between two transactions is a program counter or a set of items   *)
(* in flight, so other actions come in between.  The dispatcher's memory   *)
(* is lost in a Crash, the items and the owner's presence are not.         *)
(* The box's clock is not modelled: a lease, a backoff or a window is      *)
(* running or has run out, and each may run out at any time.               *)
(***************************************************************************)
EXTENDS OutboxPolicy, FiniteSets

CONSTANTS Items,            \* item ids; GoalOf, KeyOf, ChannelOf: what an id is created for
          Goals, Jobs,      \* goals publish results, inline jobs publish answers
          GoalOf, KeyOf, ChannelOf,
          Batches, Inbound, \* callbacks the box places, calls the owner makes
          Parts,            \* parts of one SMS
          Overrides,        \* routes the owner may ask for
          HoursSet,         \* "calls", "texts" or "quiet": callWindow at some time
          MaxContacts,      \* bound: things the owner does
          MaxFaults,        \* bound: failed sends, calls and status reads, slow carriers
          MaxPolls,         \* bound: polls for pending results
          MaxLapses,        \* bound: leases that run out on a delivery still under way
          MaxCrashes,       \* bound: restarts of the box
          AmdOn             \* callbackAmdEnabled: answering machines are detected

Calls == Batches \cup Inbound

ASSUME OutboxAssumption ==
  /\ GoalOf \in [Items -> Goals \cup Jobs]
  /\ ChannelOf \in [Items -> Channels]
  /\ Goals \cap Jobs = {} /\ Batches \cap Inbound = {}
  /\ None \notin Calls \cup Routes \cup (Items \X SendRoutes)
  /\ Batches \cap {"none", "send"} = {}
  /\ Calls \cap (Items \X SendRoutes) = {}
  /\ Overrides \subseteq Routes
  /\ HoursSet \subseteq {"calls", "texts", "quiet"} /\ HoursSet # {}
  /\ Parts # {}
  /\ {MaxContacts, MaxFaults, MaxPolls, MaxLapses, MaxCrashes} \subseteq Nat
  /\ AmdOn \in BOOLEAN

VARIABLES
  (* state.json *)
  item,      \* item[i]: the outbox item, as ItemRecord
  goalRoute, \* goal.deliveryRouteOverride
  gone,      \* goals that are cancelling or cancelled
  presence,  \* misses, backoff, requested, texting (lastActivity), default route
  active,    \* presence.activeCall
  flight,    \* presence.callInFlight
  known,     \* batches whose CallSid the box has recorded
  (* the box's memory: the dispatcher and the handlers that await *)
  pc, due, plan, cur, result,
  stopping,  \* cancellations between cancelForGoal and the goal's own update
  offer,     \* offer[c]: items read for call c, by a poll or the batch fetch,
             \* and not yet marked offered
  redirect,  \* batches whose answering-machine verdict is being acted on
  (* outside the box *)
  hours,     \* what callWindow says now
  phone,     \* phone[c]: where the call is
  opened,    \* calls the voice service has opened and not reported ended
  polling,   \* calls with a poll for pending results under way
  fetched,   \* callbacks whose batch the voice service has fetched
  said,      \* said[c]: items the voice service was given on call c
  carrier,   \* carrier[i][p]: Twilio's status of part p of the last SMS of i
  (* bookkeeping *)
  unlocked,  \* callbacks whose unlock the voice service reported
  lost,      \* callbacks whose create reply the box never got
  budget

boxVars   == <<item, goalRoute, gone, presence, active, flight, known>>
dispVars  == <<pc, due, plan, cur, result>>
memVars   == <<stopping, offer, redirect>>
voiceVars == <<opened, polling, fetched, said>>
envVars   == <<hours, phone, carrier, unlocked, lost>>
vars == <<boxVars, dispVars, memVars, voiceVars, envVars, budget>>

------------------------------------------------------------------------------
ItemStates == {"absent", "ready", "offered", "heard", "superseded", "cancelled"}
OpenStates == {"ready", "offered"}

ItemRecord ==
  [state : ItemStates,
   lease : {"none", "send"} \cup Batches,  \* what holds the item
   leaseLive : BOOLEAN,                    \* lease.until is still ahead
   settling : BOOLEAN,                     \* younger than CALLBACK_SETTLE_MS
   retry : BOOLEAN,                        \* retryAt is still ahead
   sms : {"none", "wait", "late"},         \* smsPending, receipt timeout run out
   missed : BOOLEAN, rejected : BOOLEAN,   \* missedByPhone, smsUndelivered
   offeredOn : Calls \cup {None},
   override : Routes \cup {None},
   heardBy : Routes \cup {None}]

NewItem(r) ==
  [state |-> "ready", lease |-> "none", leaseLive |-> FALSE, settling |-> TRUE,
   retry |-> FALSE, sms |-> "none", missed |-> FALSE, rejected |-> FALSE,
   offeredOn |-> None, override |-> r, heardBy |-> None]

Absent == [NewItem(None) EXCEPT !.state = "absent", !.settling = FALSE]

NoPlan == [send |-> {}, call |-> FALSE, dial |-> {}, asked |-> FALSE]
NoFlight == [batch |-> None, live |-> FALSE, unlocked |-> FALSE]
NoOffer == [from |-> "none", items |-> {}]
NoActive == [call |-> None, live |-> FALSE]

Release(rec) == [rec EXCEPT !.lease = "none", !.leaseLive = FALSE]

Open(i)   == item[i].state \in OpenStates
OpenItems == {i \in Items : Open(i)}

\* Mutant: a lease counts whether or not its time is over.
LeasedForEver(i) == item[i].lease # "none"

Leased(i) == item[i].lease # "none" /\ item[i].leaseLive

BatchItems(b) == {i \in Items : item[i].lease = b}

Init ==
  /\ item = [i \in Items |-> Absent]
  /\ goalRoute = [g \in Goals |-> None]
  /\ gone = {}
  /\ presence = [misses |-> 0, backoff |-> FALSE, requested |-> FALSE,
                 texting |-> None, default |-> None]
  /\ active = NoActive /\ flight = NoFlight /\ known = {}
  /\ pc = "idle" /\ due = {} /\ plan = NoPlan /\ cur = None /\ result = "none"
  /\ stopping = {} /\ offer = [c \in Calls |-> NoOffer] /\ redirect = [b \in Batches |-> "no"]
  /\ hours \in HoursSet
  /\ phone = [c \in Calls |-> "none"] /\ unlocked = {} /\ lost = {}
  /\ opened = {} /\ polling = {} /\ fetched = {} /\ said = [c \in Calls |-> {}]
  /\ carrier = [i \in Items |-> [p \in Parts |-> "queued"]]
  /\ budget = [contacts |-> MaxContacts, faults |-> MaxFaults, polls |-> MaxPolls,
               lapses |-> MaxLapses, crashes |-> MaxCrashes]

Spend(what) ==
  /\ budget[what] > 0
  /\ budget' = [budget EXCEPT ![what] = @ - 1]

SpendIf(bounded, what) == IF bounded THEN Spend(what) ELSE UNCHANGED budget

------------------------------------------------------------------------------
(* What is published.                                                        *)

\* Mutant: what is being sent or called about is left alone.
SupersedesIdle(i) == {j \in OpenItems : GoalOf[j] = GoalOf[i] /\ ~Leased(j)}

Supersedes(i) == {j \in OpenItems : GoalOf[j] = GoalOf[i]}

\* A goal's result or question: the same content is not enqueued twice, and
\* new content supersedes what the owner has not heard of that goal.
UpsertForGoal(i) ==
  /\ item[i].state = "absent" /\ GoalOf[i] \in Goals \ gone
  /\ ~\E j \in Items : /\ GoalOf[j] = GoalOf[i] /\ KeyOf[j] = KeyOf[i]
                       /\ item[j].state \in OpenStates \cup {"heard"}
  /\ item' = [j \in Items |->
       IF j = i THEN NewItem(goalRoute[GoalOf[i]])
       ELSE IF j \in Supersedes(i)
            THEN [Release(item[j]) EXCEPT !.state = "superseded"]
            ELSE item[j]]
  /\ UNCHANGED <<goalRoute, gone, presence, active, flight, known>>
  /\ UNCHANGED <<dispVars, memVars, voiceVars, envVars, budget>>

\* The answer of an inline job, once per job and text, whatever became of it.
\* Inline jobs are voice turns: "I'll text you" is the route they ask for.
AddAnswer(i) ==
  /\ item[i].state = "absent" /\ GoalOf[i] \in Jobs
  /\ ~\E j \in Items : /\ GoalOf[j] = GoalOf[i] /\ KeyOf[j] = KeyOf[i]
                       /\ item[j].state # "absent"
  /\ item' = [item EXCEPT ![i] = NewItem("sms")]
  /\ UNCHANGED <<goalRoute, gone, presence, active, flight, known>>
  /\ UNCHANGED <<dispVars, memVars, voiceVars, envVars, budget>>

\* broker.cancel: the items go first, the goal's own status in a second
\* transaction.
CancelForGoal(g) ==
  /\ g \notin gone \cup stopping /\ Spend("contacts")
  /\ item' = [i \in Items |->
       IF GoalOf[i] = g /\ Open(i)
       THEN [Release(item[i]) EXCEPT !.state = "cancelled"] ELSE item[i]]
  /\ stopping' = stopping \cup {g}
  /\ UNCHANGED <<goalRoute, gone, presence, active, flight, known, offer, redirect>>
  /\ UNCHANGED <<dispVars, voiceVars, envVars>>

MarkCancelling(g) ==
  /\ g \in stopping
  /\ stopping' = stopping \ {g} /\ gone' = gone \cup {g}
  /\ UNCHANGED <<item, goalRoute, presence, active, flight, known, offer, redirect>>
  /\ UNCHANGED <<dispVars, voiceVars, envVars, budget>>

------------------------------------------------------------------------------
(* The dispatcher: one pass at a time.                                       *)

OnCall  == active.call # None /\ active.live
Ringing == flight.batch # None /\ flight.live

Owner == [requested |-> presence.requested, onCall |-> OnCall,
          texting |-> presence.texting, default |-> presence.default]
Route(i) == ResolveRoute(item[i], RouteForChannel(ChannelOf[i]), Owner)

\* planOwnerDeliveries over the current state.
\* Mutant: a pending SMS does not hold the item back.
DeliverableWhilePending == {i \in OpenItems : ~Leased(i) /\ ~item[i].retry}

Deliverable == {i \in OpenItems : item[i].sms = "none" /\ ~Leased(i) /\ ~item[i].retry}
Unreachable == presence.misses >= MaxMisses \/ presence.backoff
ForPhone    == {i \in Deliverable : Route(i) = "voice" /\ ~OnCall /\ ~Ringing}
TextInstead ==
  {i \in ForPhone :
     /\ ~presence.requested /\ SmsUsable(item[i])
     /\ IF Unreachable THEN TextAfterMiss ELSE hours = "texts" /\ TextOutsideHours}
\* Mutant: the phone rings outside call hours and after missed calls.
RingsAnyTime == ForPhone

MayRing ==
  {i \in ForPhone : presence.requested \/ (~Unreachable /\ hours = "calls")}
CallNow ==
  \/ \E i \in MayRing : presence.requested \/ ~item[i].settling
  \/ presence.requested /\ ~OnCall /\ ~Ringing /\ VoiceOn
PlanOwnerDeliveries ==
  [send |-> {a \in Items \X SendRoutes :
               \/ /\ a[1] \in Deliverable /\ Route(a[1]) = a[2]
                  /\ a[2] = "sms" => SmsUsable(item[a[1]])
               \/ a[1] \in TextInstead /\ a[2] = "sms"},
   call |-> CallNow,
   dial |-> IF CallNow THEN MayRing ELSE {},
   asked |-> presence.requested]

\* A pass first reads the status of the pending SMS whose poll time has come.
StartPass ==
  /\ pc = "idle" /\ pc' = "settle"
  /\ due' \in SUBSET {i \in OpenItems : item[i].sms # "none"}
  /\ UNCHANGED <<plan, cur, result, boxVars, memVars, voiceVars, envVars, budget>>

\* The item counts as heard by route r, unless it is already closed.
HeardBy(rec, r) ==
  [rec EXCEPT !.state = IF rec.state \in OpenStates THEN "heard" ELSE @,
              !.heardBy = IF rec.state \in OpenStates THEN r ELSE @,
              !.retry = FALSE]

\* Twilio's statuses are read before the transaction that settles the item.
ReadSms(i) ==
  /\ pc = "settle" /\ i \in due
  /\ \E seen \in [Parts -> SmsStatuses \cup {"unread"}] :
       /\ \A p \in Parts : seen[p] \in {carrier[i][p], "unread"}
       /\ SpendIf(\E p \in Parts : seen[p] = "unread", "faults")
       /\ result' = SmsDeliveryVerdict(seen, item[i].sms = "late")
  /\ pc' = "settling" /\ cur' = <<i, "sms">> /\ due' = due \ {i}
  /\ UNCHANGED <<plan, boxVars, memVars, voiceVars, envVars>>

SettleSms ==
  /\ pc = "settling" /\ pc' = "settle" /\ cur' = None /\ result' = "none"
  /\ LET i == cur[1]
         settled == [item[i] EXCEPT !.sms = "none"]
     IN item' = [item EXCEPT ![i] =
          CASE result = "pending" -> item[i]
            [] result \in {"delivered", "sent"} -> HeardBy(settled, "sms")
            [] result = "undelivered" -> [settled EXCEPT !.rejected = TRUE, !.retry = TRUE]
            [] OTHER -> [settled EXCEPT !.retry = TRUE]]
  /\ UNCHANGED <<goalRoute, gone, presence, active, flight, known>>
  /\ UNCHANGED <<due, plan, memVars, voiceVars, envVars, budget>>

\* The plan is made from what was read before the SMS statuses if none of them
\* settled an item; reading them first and planning then comes to the same.
PlanPass ==
  /\ pc = "settle" /\ due = {}
  /\ plan' = PlanOwnerDeliveries /\ pc' = "run"
  /\ UNCHANGED <<due, cur, result, boxVars, memVars, voiceVars, envVars, budget>>

EndPass ==
  /\ pc = "run" /\ plan.send = {} /\ ~plan.call /\ pc' = "idle"
  /\ plan' = NoPlan
  /\ UNCHANGED <<due, cur, result, boxVars, memVars, voiceVars, envVars, budget>>

\* A text or surface delivery: claim the item, hand it to the provider, record
\* what the provider said.
ClaimSend(i, r) ==
  /\ pc = "run" /\ <<i, r>> \in plan.send
  /\ plan' = [plan EXCEPT !.send = @ \ {<<i, r>>}]
  /\ IF Open(i) /\ ~Leased(i)
     THEN /\ item' = [item EXCEPT ![i].lease = "send", ![i].leaseLive = TRUE]
          /\ pc' = "send" /\ cur' = <<i, r>>
     ELSE UNCHANGED <<item, pc, cur>>
  /\ UNCHANGED <<goalRoute, gone, presence, active, flight, known, due, result>>
  /\ UNCHANGED <<memVars, voiceVars, envVars, budget>>

\* Twilio accepts an SMS before the carrier delivers it; Slack and Telegram
\* deliver at once; a surface event needs a goal to hang on.
SendAccepted ==
  /\ pc = "send" /\ pc' = "sent"
  /\ IF cur[2] = "sms"
     THEN /\ result' = "pending"
          /\ carrier' = [carrier EXCEPT ![cur[1]] = [p \in Parts |-> "queued"]]
     ELSE /\ cur[2] = "surface" => GoalOf[cur[1]] \in Goals
          /\ result' = "ok" /\ UNCHANGED carrier
  /\ UNCHANGED <<due, plan, cur, hours, phone, unlocked, lost>>
  /\ UNCHANGED <<boxVars, memVars, voiceVars, budget>>

SendFailed ==
  /\ pc = "send" /\ pc' = "sent" /\ result' = "failed"
  /\ SpendIf(~(cur[2] = "surface" /\ GoalOf[cur[1]] \in Jobs), "faults")
  /\ UNCHANGED <<due, plan, cur, boxVars, memVars, voiceVars, envVars>>

RecordSend ==
  /\ pc = "sent" /\ pc' = "run" /\ cur' = None /\ result' = "none"
  /\ LET i == cur[1]
         freed == Release(item[i])
     IN item' = [item EXCEPT ![i] =
          CASE result = "pending" -> [freed EXCEPT !.sms = "wait"]
            [] result = "ok" -> HeardBy(freed, cur[2])
            [] OTHER -> [freed EXCEPT !.retry = TRUE]]
  /\ UNCHANGED <<goalRoute, gone, presence, active, flight, known, due, plan>>
  /\ UNCHANGED <<memVars, voiceVars, envVars, budget>>

\* Mutant: an item that was closed since the pass planned is called about.
ClaimableIfClosed == {i \in plan.dial : ~Leased(i)}

Claimable == {i \in plan.dial : Open(i) /\ ~Leased(i)}

\* One callback for everything that may ring now, after the texts of the pass.
\* b is an id no item, no call in flight and no Twilio call still uses.
StartCallBatch(b) ==
  /\ pc = "run" /\ plan.send = {} /\ plan.call
  /\ phone[b] = "none" /\ b \notin known /\ flight.batch # b /\ BatchItems(b) = {}
  /\ ~Ringing /\ (plan.asked \/ Claimable # {})
  /\ item' = [i \in Items |->
       IF i \in Claimable THEN [item[i] EXCEPT !.lease = b, !.leaseLive = TRUE]
       ELSE item[i]]
  /\ flight' = [batch |-> b, live |-> TRUE, unlocked |-> FALSE]
  /\ presence' = [presence EXCEPT !.requested = FALSE]
  /\ pc' = "dial" /\ cur' = b /\ plan' = NoPlan
  /\ UNCHANGED <<goalRoute, gone, active, known, due, result>>
  /\ UNCHANGED <<memVars, voiceVars, envVars, budget>>

SkipCallBatch ==
  /\ pc = "run" /\ plan.send = {} /\ plan.call
  /\ Ringing \/ (~plan.asked /\ Claimable = {})
  /\ pc' = "idle" /\ plan' = NoPlan
  /\ UNCHANGED <<due, cur, result, boxVars, memVars, voiceVars, envVars, budget>>

\* calls.create: the call rings, or it does not, or it rings and the reply of
\* Twilio is lost.  Without a Twilio configuration nothing is asked of it.
PlaceCallback ==
  /\ pc = "dial" /\ VoiceOn /\ pc' = "dialed" /\ result' = "ok"
  /\ phone' = [phone EXCEPT ![cur] = "ringing"]
  /\ UNCHANGED <<due, plan, cur, hours, carrier, unlocked, lost>>
  /\ UNCHANGED <<boxVars, memVars, voiceVars, budget>>

PlaceCallbackFails ==
  /\ pc = "dial" /\ pc' = "dialed" /\ result' = "failed"
  /\ SpendIf(VoiceOn, "faults")
  /\ UNCHANGED <<due, plan, cur, boxVars, memVars, voiceVars, envVars>>

PlaceCallbackReplyLost ==
  /\ pc = "dial" /\ VoiceOn /\ pc' = "dialed" /\ result' = "failed" /\ Spend("faults")
  /\ phone' = [phone EXCEPT ![cur] = "ringing"] /\ lost' = lost \cup {cur}
  /\ UNCHANGED <<due, plan, cur, hours, carrier, unlocked>>
  /\ UNCHANGED <<boxVars, memVars, voiceVars>>

CallPlaced ==
  /\ pc = "dialed" /\ result = "ok"
  /\ known' = IF flight.batch = cur THEN known \cup {cur} ELSE known
  /\ pc' = "idle" /\ cur' = None /\ result' = "none"
  /\ UNCHANGED <<item, goalRoute, gone, presence, active, flight, due, plan>>
  /\ UNCHANGED <<memVars, voiceVars, envVars, budget>>

CallPlacementFailed ==
  /\ pc = "dialed" /\ result = "failed"
  /\ flight' = IF flight.batch = cur THEN NoFlight ELSE flight
  /\ item' = [i \in Items |->
       IF item[i].lease = cur
       THEN [Release(item[i]) EXCEPT !.retry = TRUE, !.missed = TRUE] ELSE item[i]]
  /\ pc' = "idle" /\ cur' = None /\ result' = "none"
  /\ UNCHANGED <<goalRoute, gone, presence, active, known, due, plan>>
  /\ UNCHANGED <<memVars, voiceVars, envVars, budget>>

------------------------------------------------------------------------------
(* Calls: Twilio, the voice service on an unlocked call, and its requests.   *)

\* The owner calls in and passes the gate.
InboundUnlock(c) ==
  /\ phone[c] = "none" /\ Spend("contacts")
  /\ phone' = [phone EXCEPT ![c] = "open"]
  /\ UNCHANGED <<hours, carrier, unlocked, lost, boxVars, dispVars, memVars, voiceVars>>

\* The owner answers a callback and passes the gate, which takes longer than
\* Twilio's reply to the request that placed it.
CallbackUnlock(b) ==
  /\ phone[b] = "ringing" /\ cur # b
  /\ phone' = [phone EXCEPT ![b] = "open"]
  /\ UNCHANGED <<hours, carrier, unlocked, lost, boxVars, dispVars, memVars, voiceVars, budget>>

HangUp(c) ==
  /\ phone[c] \in {"ringing", "open"}
  /\ phone' = [phone EXCEPT ![c] = "ended"]
  /\ UNCHANGED <<hours, carrier, unlocked, lost, boxVars, dispVars, memVars, voiceVars, budget>>

\* The voice service opens an unlocked call: presence "unlocked".
SetActiveCall(c) ==
  /\ phone[c] = "open" /\ c \notin opened
  /\ opened' = opened \cup {c}
  /\ active' = [call |-> c, live |-> TRUE]
  /\ flight' = IF flight.batch = c /\ c \in known
               THEN [flight EXCEPT !.unlocked = TRUE] ELSE flight
  /\ presence' = [presence EXCEPT !.misses = 0, !.backoff = FALSE, !.texting = None]
  /\ unlocked' = unlocked \cup ({c} \cap Batches)
  /\ UNCHANGED <<item, goalRoute, gone, known, polling, fetched, said>>
  /\ UNCHANGED <<hours, phone, carrier, lost, dispVars, memVars, budget>>

\* A poll for pending results is sent while the call is up; it may be served
\* after the call has ended.
SendPoll(c) ==
  /\ phone[c] = "open" /\ c \in opened \ polling /\ offer[c] = NoOffer
  /\ polling' = polling \cup {c} /\ Spend("polls")
  /\ UNCHANGED <<opened, fetched, said, boxVars, dispVars, memVars, envVars>>

Pending(c) ==
  {i \in OpenItems :
     /\ item[i].offeredOn # c /\ ~Leased(i)
     /\ (IF item[i].override # None THEN item[i].override
         ELSE RouteForChannel(ChannelOf[i])) = "voice"}

PendingForCall(c) ==
  /\ c \in polling /\ polling' = polling \ {c}
  /\ active' = [call |-> c, live |-> TRUE]
  /\ offer' = [offer EXCEPT ![c] =
       IF Pending(c) = {} THEN NoOffer ELSE [from |-> "poll", items |-> Pending(c)]]
  /\ UNCHANGED <<item, goalRoute, gone, presence, flight, known, opened, fetched, said>>
  /\ UNCHANGED <<stopping, redirect, dispVars, envVars, budget>>

\* batchCallAuthorized: the request comes from the callback placed for b.
Authorized(b) == b \in known /\ (flight.batch = b \/ BatchItems(b) \cap OpenItems # {})

FetchBatch(b) ==
  /\ phone[b] = "open" /\ b \in opened \ (fetched \cup polling)
  /\ Authorized(b) /\ offer[b] = NoOffer
  /\ offer' = [offer EXCEPT ![b] =
       [from |-> "batch", items |-> BatchItems(b) \cap OpenItems]]
  /\ UNCHANGED <<stopping, redirect, boxVars, dispVars, voiceVars, envVars, budget>>

OfferedOn(i, c) ==
  IF Open(i) THEN [item[i] EXCEPT !.state = "offered", !.offeredOn = c] ELSE item[i]

\* The items read for the call are marked offered, and given to the call.
MarkOffered(c) ==
  /\ offer[c] # NoOffer /\ offer' = [offer EXCEPT ![c] = NoOffer]
  /\ item' = [i \in Items |->
       IF i \in offer[c].items THEN OfferedOn(i, c) ELSE item[i]]
  /\ said' = [said EXCEPT ![c] = @ \cup offer[c].items]
  /\ fetched' = IF offer[c].from = "batch" THEN fetched \cup {c} ELSE fetched
  /\ UNCHANGED <<goalRoute, gone, presence, active, flight, known>>
  /\ UNCHANGED <<opened, polling, stopping, redirect, dispVars, envVars, budget>>

\* Mutant: a late report of what was said hears a superseded item too.
HeardLate(S, r) ==
  item' = [i \in Items |->
    IF i \in S THEN [Release(item[i]) EXCEPT !.state = "heard", !.heardBy = r] ELSE item[i]]

\* outbox.markHeard
Heard(S, r) ==
  item' = [i \in Items |->
    IF i \in S /\ Open(i)
    THEN [Release(item[i]) EXCEPT !.state = "heard", !.heardBy = r] ELSE item[i]]

\* Coverage or a reply shows the owner heard an item this call was given.
ReportHeard(c, i) ==
  /\ phone[c] \in {"open", "ended"} /\ i \in said[c] /\ Heard({i}, "voice")
  /\ UNCHANGED <<goalRoute, gone, presence, active, flight, known>>
  /\ UNCHANGED <<dispVars, memVars, voiceVars, envVars, budget>>

\* Mutant: whatever is offered on any call.
OfferedAnywhere(b) == {i \in Items : item[i].state = "offered"}

PlayedOut(b) == {i \in BatchItems(b) : item[i].state = "offered"}

\* The batch the callback fetched has played out.
AckBatch(b) ==
  /\ phone[b] \in {"open", "ended"} /\ b \in fetched /\ Authorized(b)
  /\ Heard(PlayedOut(b), "voice")
  /\ UNCHANGED <<goalRoute, gone, presence, active, flight, known>>
  /\ UNCHANGED <<dispVars, memVars, voiceVars, envVars, budget>>

EndActiveCall(c) ==
  /\ phone[c] = "ended" /\ c \in opened /\ opened' = opened \ {c}
  /\ active' = IF active.call = c THEN NoActive ELSE active
  /\ item' = [i \in Items |->
       IF /\ item[i].state = "offered" /\ item[i].offeredOn = c
          /\ item[i].lease \notin Batches
       THEN [item[i] EXCEPT !.state = "ready", !.offeredOn = None, !.missed = TRUE]
       ELSE item[i]]
  /\ UNCHANGED <<goalRoute, gone, presence, flight, known, polling, fetched, said>>
  /\ UNCHANGED <<dispVars, memVars, envVars, budget>>

\* Mutant: no matter which status of the call is reported, the call is over.
AnyStatus(b) == b \in Batches

Terminal(b) == phone[b] = "ended"

\* Mutant: the owner was reached if something was offered on the call.
ReachedIfOffered(b) == \E i \in Items : item[i].offeredOn = b

Reached(b) == flight.batch = b /\ flight.unlocked

\* An item the callback carried: what is still open is for the next delivery.
AfterCall(rec) ==
  IF rec.state \in OpenStates
  THEN [Release(rec) EXCEPT !.state = "ready", !.offeredOn = None, !.missed = TRUE]
  ELSE Release(rec)

\* Twilio's terminal status of a callback; it may come late, twice or never.
FinishCall(b) ==
  /\ Terminal(b) /\ (flight.batch = b \/ BatchItems(b) # {})
  /\ presence' = IF Reached(b)
       THEN [presence EXCEPT !.misses = 0, !.backoff = FALSE]
       ELSE [presence EXCEPT !.backoff = TRUE,
                             !.misses = IF @ < MaxMisses THEN @ + 1 ELSE @]
  /\ item' = [i \in Items |-> IF i \in BatchItems(b) THEN AfterCall(item[i]) ELSE item[i]]
  /\ flight' = IF flight.batch = b THEN NoFlight ELSE flight
  /\ active' = IF active.call = b THEN NoActive ELSE active
  /\ UNCHANGED <<goalRoute, gone, known>>
  /\ UNCHANGED <<dispVars, memVars, voiceVars, envVars, budget>>

\* Twilio's answering-machine verdict: a call still at the gate is redirected
\* to the voicemail notice, which ends it.
AmdVerdict(b) ==
  /\ AmdOn /\ phone[b] \in {"ringing", "open"} /\ redirect[b] = "no"
  /\ flight.batch = b /\ ~flight.unlocked
  /\ redirect' = [redirect EXCEPT ![b] = "decided"]
  /\ UNCHANGED <<stopping, offer, boxVars, dispVars, voiceVars, envVars, budget>>

RedirectToNotice(b) ==
  /\ redirect[b] = "decided" /\ redirect' = [redirect EXCEPT ![b] = "done"]
  /\ phone' = [phone EXCEPT ![b] = IF @ \in {"ringing", "open"} THEN "ended" ELSE @]
  /\ UNCHANGED <<stopping, offer, hours, carrier, unlocked, lost>>
  /\ UNCHANGED <<boxVars, dispVars, voiceVars, budget>>

\* A call nothing will ask about any more: its id stands for the next call, so
\* what is left of it in the box is about no call to come.
ForgetCall(c) ==
  /\ phone[c] = "ended" /\ c \notin opened \cup polling /\ offer[c] = NoOffer
  /\ ~(active.call = c /\ active.live) /\ flight.batch # c /\ cur # c
  /\ BatchItems(c) = {}
  /\ c \in Batches => redirect[c] # "decided"
  /\ phone' = [phone EXCEPT ![c] = "none"]
  /\ said' = [said EXCEPT ![c] = {}]
  /\ known' = known \ {c} /\ fetched' = fetched \ {c} /\ unlocked' = unlocked \ {c}
  /\ lost' = lost \ {c}
  /\ redirect' = [b \in Batches |-> IF b = c THEN "no" ELSE redirect[b]]
  /\ item' = [i \in Items |-> IF item[i].offeredOn = c
                              THEN [item[i] EXCEPT !.offeredOn = None] ELSE item[i]]
  /\ active' = IF active.call = c THEN NoActive ELSE active
  /\ UNCHANGED <<goalRoute, gone, presence, flight, opened, polling>>
  /\ UNCHANGED <<stopping, offer, hours, carrier, dispVars, budget>>

------------------------------------------------------------------------------
(* The owner, on any channel.                                                *)

\* A message on a text channel or a surface: they are reachable.
NoteOwnerActivity(channel) ==
  /\ Spend("contacts")
  /\ presence' = [presence EXCEPT !.misses = 0, !.backoff = FALSE,
                    !.texting = IF channel \in TextRoutes THEN channel ELSE None]
  /\ UNCHANGED <<item, goalRoute, gone, active, flight, known>>
  /\ UNCHANGED <<dispVars, memVars, voiceVars, envVars>>

\* "Call me back"
RequestCall ==
  /\ Spend("contacts")
  /\ presence' = [presence EXCEPT !.requested = TRUE, !.misses = 0, !.backoff = FALSE,
                                  !.default = None]
  /\ UNCHANGED <<item, goalRoute, gone, active, flight, known>>
  /\ UNCHANGED <<dispVars, memVars, voiceVars, envVars>>

SetRouteOverrideForGoal(g, r) ==
  /\ Spend("contacts")
  /\ goalRoute' = [goalRoute EXCEPT ![g] = r]
  /\ item' = [i \in Items |-> IF GoalOf[i] = g /\ Open(i)
                              THEN [item[i] EXCEPT !.override = r] ELSE item[i]]
  /\ UNCHANGED <<gone, presence, active, flight, known>>
  /\ UNCHANGED <<dispVars, memVars, voiceVars, envVars>>

SetDefaultRoute(r) ==
  /\ Spend("contacts") /\ presence' = [presence EXCEPT !.default = r]
  /\ UNCHANGED <<item, goalRoute, gone, active, flight, known>>
  /\ UNCHANGED <<dispVars, memVars, voiceVars, envVars>>

\* A status reply or an answered question: the owner heard what was open for
\* the goal on the channel of the conversation.  The ids are read first, and what
\* is closed meanwhile stays as it is, so that one action has the same effect.
MarkHeardForGoal(g, r) ==
  /\ Spend("contacts")
  /\ Heard({i \in Items : GoalOf[i] = g}, r)
  /\ UNCHANGED <<goalRoute, gone, presence, active, flight, known>>
  /\ UNCHANGED <<dispVars, memVars, voiceVars, envVars>>

------------------------------------------------------------------------------
(* Time, carriers, and restarts of the box.                                  *)

\* The two minutes of a text lease.
SendLeaseLapses(i) ==
  /\ item[i].lease = "send" /\ item[i].leaseLive
  /\ SpendIf(pc \in {"send", "sent"} /\ cur[1] = i, "lapses")
  /\ item' = [item EXCEPT ![i].leaseLive = FALSE]
  /\ UNCHANGED <<goalRoute, gone, presence, active, flight, known>>
  /\ UNCHANGED <<dispVars, memVars, voiceVars, envVars>>

\* The thirty minutes of a callback: longer than Twilio takes to place it and
\* than it rings or waits at the gate, not always longer than a conversation.
CallLeaseLapses(b) ==
  /\ phone[b] # "ringing" /\ cur # b /\ SpendIf(phone[b] # "none", "lapses")
  /\ \/ flight.batch = b /\ flight.live
     \/ \E i \in BatchItems(b) : item[i].leaseLive
  /\ flight' = IF flight.batch = b THEN [flight EXCEPT !.live = FALSE] ELSE flight
  /\ item' = [i \in Items |-> IF item[i].lease = b
                              THEN [item[i] EXCEPT !.leaseLive = FALSE] ELSE item[i]]
  /\ UNCHANGED <<goalRoute, gone, presence, active, known>>
  /\ UNCHANGED <<dispVars, memVars, voiceVars, envVars>>

\* The presence lease of a live call: polls renew it, so it lapses once they stop.
ActiveCallLapses ==
  /\ active.live /\ phone[active.call] # "open"
  /\ active' = [active EXCEPT !.live = FALSE]
  /\ UNCHANGED <<item, goalRoute, gone, presence, flight, known>>
  /\ UNCHANGED <<dispVars, memVars, voiceVars, envVars, budget>>

\* The miss backoff, the call request, the texting window, the default route.
PresenceLapses ==
  /\ \/ presence.backoff /\ presence' = [presence EXCEPT !.backoff = FALSE]
     \/ presence.requested /\ presence' = [presence EXCEPT !.requested = FALSE]
     \/ presence.texting # None /\ presence' = [presence EXCEPT !.texting = None]
     \/ presence.default # None /\ presence' = [presence EXCEPT !.default = None]
  /\ UNCHANGED <<item, goalRoute, gone, active, flight, known>>
  /\ UNCHANGED <<dispVars, memVars, voiceVars, envVars, budget>>

\* The settle minute, the retry backoff, the receipt timeout of an item.
ItemTimerLapses(i) ==
  /\ Open(i)
  /\ \/ /\ item[i].settling /\ item' = [item EXCEPT ![i].settling = FALSE]
        /\ UNCHANGED budget
     \/ /\ item[i].retry /\ item' = [item EXCEPT ![i].retry = FALSE]
        /\ UNCHANGED budget
     \/ /\ item[i].sms = "wait" /\ item' = [item EXCEPT ![i].sms = "late"]
        /\ SpendIf(\E p \in Parts : carrier[i][p] = "queued", "faults")
  /\ UNCHANGED <<goalRoute, gone, presence, active, flight, known>>
  /\ UNCHANGED <<dispVars, memVars, voiceVars, envVars>>

HoursPass ==
  /\ hours' \in HoursSet \ {hours}
  /\ UNCHANGED <<phone, carrier, unlocked, lost, boxVars, dispVars, memVars, voiceVars, budget>>

CarrierStep(i, p) ==
  /\ \/ item[i].sms # "none"
     \/ pc = "sent" /\ result = "pending" /\ cur[1] = i
  /\ \E s \in SmsStatuses :
       /\ \/ carrier[i][p] = "queued" /\ s \in {"sent", "undelivered"}
          \/ carrier[i][p] = "sent" /\ s \in {"delivered", "undelivered"}
       /\ carrier' = [carrier EXCEPT ![i][p] = s]
  /\ UNCHANGED <<hours, phone, unlocked, lost, boxVars, dispVars, memVars, voiceVars, budget>>

\* Mutant: the call in flight is kept in memory, and lost with it.
CrashForgetsCall ==
  /\ Spend("crashes") /\ flight' = NoFlight
  /\ pc' = "idle" /\ due' = {} /\ plan' = NoPlan /\ cur' = None /\ result' = "none"
  /\ stopping' = {} /\ offer' = [c \in Calls |-> NoOffer] /\ polling' = {}
  /\ UNCHANGED <<item, goalRoute, gone, presence, active, known, redirect>>
  /\ UNCHANGED <<opened, fetched, said, envVars>>

\* The box restarts: what the handlers and the dispatcher were doing is lost.
Crash ==
  /\ Spend("crashes")
  /\ pc' = "idle" /\ due' = {} /\ plan' = NoPlan /\ cur' = None /\ result' = "none"
  /\ stopping' = {} /\ offer' = [c \in Calls |-> NoOffer]
  /\ redirect' = [b \in Batches |-> IF redirect[b] = "decided" THEN "done" ELSE redirect[b]]
  /\ polling' = {}
  /\ UNCHANGED <<boxVars, opened, fetched, said, envVars>>

------------------------------------------------------------------------------
Publish == \E i \in Items : UpsertForGoal(i) \/ AddAnswer(i)

Dispatch ==
  \/ StartPass \/ PlanPass \/ EndPass \/ SendAccepted \/ SendFailed \/ RecordSend
  \/ SkipCallBatch \/ PlaceCallback \/ PlaceCallbackFails \/ PlaceCallbackReplyLost
  \/ CallPlaced \/ CallPlacementFailed
  \/ SettleSms \/ \E i \in Items : ReadSms(i)
  \/ \E i \in Items, r \in SendRoutes : ClaimSend(i, r)
  \/ \E b \in Batches : StartCallBatch(b)

Voice ==
  \/ \E c \in Inbound : InboundUnlock(c)
  \/ \E c \in Calls : \/ HangUp(c) \/ SetActiveCall(c) \/ SendPoll(c)
                      \/ PendingForCall(c) \/ MarkOffered(c) \/ EndActiveCall(c)
                      \/ ForgetCall(c)
  \/ \E c \in Calls, i \in Items : ReportHeard(c, i)
  \/ \E b \in Batches : \/ CallbackUnlock(b) \/ FetchBatch(b) \/ AckBatch(b)
                        \/ FinishCall(b) \/ AmdVerdict(b) \/ RedirectToNotice(b)

OwnerSays ==
  \/ RequestCall
  \/ \E ch \in Channels : NoteOwnerActivity(ch)
  \/ \E r \in Overrides : SetDefaultRoute(r)
  \/ \E g \in Goals : \/ CancelForGoal(g)
                      \/ \E r \in Overrides : SetRouteOverrideForGoal(g, r)
                      \/ \E r \in Routes : MarkHeardForGoal(g, r)

TimePasses ==
  \/ ActiveCallLapses \/ PresenceLapses \/ HoursPass
  \/ \E i \in Items : \/ SendLeaseLapses(i) \/ ItemTimerLapses(i)
                      \/ \E p \in Parts : CarrierStep(i, p)
  \/ \E b \in Batches : CallLeaseLapses(b)

Next ==
  \/ Publish \/ Dispatch \/ Voice \/ OwnerSays \/ TimePasses \/ Crash
  \/ \E g \in Goals : MarkCancelling(g)

Spec == Init /\ [][Next]_vars

(***************************************************************************)
(* Fairness.  The broker's tick starts a pass every few seconds and a pass *)
(* runs to its end; timers run out; a carrier moves a message on however   *)
(* often it is sent; calls end and Twilio reports their end; the voice     *)
(* service reports the end of a call it opened.                            *)
(***************************************************************************)
FullPass == StartPass /\ due' = {i \in OpenItems : item[i].sms # "none"}

Fairness ==
  /\ WF_vars(StartPass) /\ SF_vars(FullPass)
  /\ WF_vars(\E i \in Items : ReadSms(i)) /\ WF_vars(SettleSms)
  /\ WF_vars(PlanPass) /\ WF_vars(EndPass)
  /\ WF_vars(\E i \in Items, r \in SendRoutes : ClaimSend(i, r))
  /\ WF_vars(SendAccepted \/ SendFailed) /\ WF_vars(RecordSend)
  /\ WF_vars((\E b \in Batches : StartCallBatch(b)) \/ SkipCallBatch)
  /\ WF_vars(PlaceCallback \/ PlaceCallbackFails)
  /\ WF_vars(CallPlaced) /\ WF_vars(CallPlacementFailed)
  /\ WF_vars(ActiveCallLapses)
  /\ \A i \in Items : /\ WF_vars(SendLeaseLapses(i)) /\ WF_vars(ItemTimerLapses(i))
                       /\ \A p \in Parts : SF_vars(CarrierStep(i, p))
  /\ \A c \in Calls : /\ WF_vars(HangUp(c)) /\ WF_vars(EndActiveCall(c))
                       /\ WF_vars(ForgetCall(c)) /\ WF_vars(MarkOffered(c))
                       /\ WF_vars(PendingForCall(c))
  /\ \A b \in Batches : WF_vars(FinishCall(b)) /\ WF_vars(CallLeaseLapses(b))
                        /\ WF_vars(RedirectToNotice(b))

FairSpec == Spec /\ Fairness

------------------------------------------------------------------------------
(* Properties.                                                               *)

ItemsOK ==
  /\ item \in [Items -> ItemRecord]
  /\ goalRoute \in [Goals -> Routes \cup {None}] /\ gone \subseteq Goals

PresenceOK ==
  /\ presence \in [misses : 0..MaxMisses, backoff : BOOLEAN, requested : BOOLEAN,
                   texting : TextRoutes \cup {None}, default : Routes \cup {None}]
  /\ active \in [call : Calls \cup {None}, live : BOOLEAN]
  /\ flight \in [batch : Batches \cup {None}, live : BOOLEAN, unlocked : BOOLEAN]
  /\ known \subseteq Batches

\* Where the dispatcher is in its pass, and the item or callback it works on.
DispatcherOK ==
  /\ pc \in {"idle", "settle", "settling", "run", "send", "sent", "dial", "dialed"}
  /\ due \subseteq Items
  /\ plan \in [send : SUBSET (Items \X SendRoutes), call : BOOLEAN,
               dial : SUBSET Items, asked : BOOLEAN]
  /\ pc \in {"settling", "send", "sent"} => cur \in Items \X SendRoutes
  /\ pc \in {"dial", "dialed"} => cur \in Batches
  /\ pc \in {"idle", "settle", "run"} => cur = None
  /\ result \in {"none", "ok", "pending", "failed", "delivered", "sent",
                 "undelivered", "unconfirmed"}

HandlersOK ==
  /\ stopping \subseteq Goals
  /\ offer \in [Calls -> [from : {"none", "poll", "batch"}, items : SUBSET Items]]
  /\ redirect \in [Batches -> {"no", "decided", "done"}]
  /\ opened \subseteq Calls /\ polling \subseteq Calls
  /\ fetched \subseteq Calls /\ said \in [Calls -> SUBSET Items]

OutsideOK ==
  /\ hours \in HoursSet
  /\ phone \in [Calls -> {"none", "ringing", "open", "ended"}]
  /\ carrier \in [Items -> [Parts -> SmsStatuses]]
  /\ unlocked \subseteq Batches /\ lost \subseteq Batches
  /\ budget \in [{"contacts", "faults", "polls", "lapses", "crashes"} -> Nat]

\* The type invariant, by the part of the system that keeps the state.
TypeOK == ItemsOK /\ PresenceOK /\ DispatcherOK /\ HandlersOK /\ OutsideOK

\* A live callback lease belongs to the call in flight: no item waits for a
\* callback the box has forgotten, and none is claimed for two callbacks.
HeldItemsHaveTheirCall ==
  \A i \in Items : item[i].lease \in Batches /\ item[i].leaseLive =>
    flight.batch = item[i].lease /\ flight.live

\* Policy rule 5, "one batched callback ... no call in flight": a callback that
\* rings is the one in flight, so two never ring at once.  Twilio's create reply
\* must not have been lost: the box then takes the call for one not placed.
OneCallbackRings ==
  \A b \in Batches \ lost : phone[b] = "ringing" => flight.batch = b /\ flight.live

\* In a pass an item goes out one way, as a text or in the callback, and only as
\* long as no SMS of it is pending and none it would repeat was rejected.
OneWayPerPass ==
  /\ pc \notin {"run", "send", "sent"} => plan = NoPlan
  /\ \A a \in plan.send : /\ a[1] \notin plan.dial
                          /\ \A b \in plan.send : a[1] = b[1] => a = b
                          /\ item[a[1]].sms = "none"
                          /\ a[2] = "sms" => ~item[a[1]].rejected
  /\ \A i \in plan.dial : item[i].sms = "none"
  /\ pc \in {"send", "sent"} =>
       /\ cur[1] \notin plan.dial /\ \A a \in plan.send : a[1] # cur[1]
       /\ item[cur[1]].sms = "none"
       /\ cur[2] = "sms" => ~item[cur[1]].rejected

\* The callback the dispatcher asks Twilio for is the one in flight, and has not
\* rung yet; a call that is said not to have been placed rings only if Twilio's
\* reply was lost.
PlacesTheCallInFlight ==
  /\ pc = "dial" => phone[cur] = "none" /\ flight.batch = cur /\ flight.live
  /\ pc = "dialed" /\ result = "failed" /\ phone[cur] = "ringing" => cur \in lost

\* New content of a goal supersedes what the owner has not heard of it, whatever
\* was being sent or said meanwhile: one open item for each goal.
OneOpenItemPerGoal ==
  \A i, j \in OpenItems : GoalOf[i] = GoalOf[j] /\ GoalOf[i] \in Goals => i = j

\* A result is heard, superseded or cancelled once and for all: a provider's
\* answer, a poll, a receipt or a call's end that was under way when the item
\* closed does not open it again.
ClosedIsFinal ==
  [][\A i \in Items : item[i].state \notin OpenStates \cup {"absent"} =>
        item'[i].state = item[i].state]_vars

\* Policy rule 9, "After an undelivered SMS the item is never texted again":
\* whatever a pass planned before the rejection was read.
NeverTextedAfterRejection ==
  [][pc = "send" /\ cur[2] = "sms" /\ result' = "pending" =>
        ~item[cur[1]].rejected]_vars

\* Policy rule 9, "until then nothing else goes out for the item": the dispatcher
\* takes no item whose SMS waits for its receipt, for a text or for a callback.
NothingElseWhileSmsPending ==
  [][\A i \in Items : item'[i].leaseLive /\ ~item[i].leaseLive => item[i].sms = "none"]_vars

\* "SMS counts as heard only with a delivery receipt", or after ten minutes once
\* the carrier took every part: never on Twilio's acceptance alone.
HeardSmsLeftTwilio ==
  [][\A i \in Items : pc = "settling" /\ pc' = "settle" /\ Open(i) /\ item'[i].state = "heard" =>
        \A p \in Parts : carrier[i][p] # "queued"]_vars

\* The playback acknowledgement closes only what that call was given to say,
\* though it names no item and other calls offer items too.
AckedWasSaid ==
  [][\A b \in Batches, i \in Items :
        AckBatch(b) /\ Open(i) /\ item'[i].state = "heard" => i \in said[b]]_vars

\* A pass never takes away another delivery's hold: when a send is recorded the
\* item is still leased to that send, or was closed meanwhile.
SendReleasesItsOwnLease ==
  pc \in {"send", "sent"} => item[cur[1]].lease = "send" \/ ~Open(cur[1])

\* "Any owner message on any channel, or unlocking a call, clears the backoff": a
\* callback whose unlock was reported to the box does not end as a miss.  It holds
\* as long as no restart loses the callback's CallSid, and as long as its lease outlasts
\* the call.
UnlockedIsNoMiss ==
  [][\A b \in Batches : FinishCall(b) /\ b \in unlocked =>
        presence'.misses <= presence.misses]_vars

\* The outbox keeps its promise: OwnerPromise, with the leases that still run as
\* the hands and the callback whose lease runs as the one in flight.
Promise == INSTANCE OwnerPromise WITH
  Free <- None,
  fate <- [i \in Items |-> IF Open(i) THEN "open"
                           ELSE IF item[i].state \in {"absent", "heard"}
                                THEN item[i].state ELSE "dropped"],
  hand <- [i \in Items |-> IF Leased(i) THEN item[i].lease ELSE None],
  flying <- IF Ringing THEN flight.batch ELSE None
KeepsPromise == Promise!Spec

\* What is published reaches the owner, or its SMS was rejected: then only a
\* call can still deliver it.
OpenIsSettled ==
  \A i \in Items : Open(i) ~> (~Open(i) \/ item[i].rejected)

------------------------------------------------------------------------------
(* What the repository says of the outbox and the code does not keep.        *)

\* Policy rule 1, "Owner is on an unlocked call: no dialing": no callback is
\* started while the box knows of a live call.
NoDialOnLiveCall ==
  [][\A b \in Batches : StartCallBatch(b) => ~OnCall]_vars

\* "A call that already got through is never touched by AMD": an answering-machine
\* verdict does not redirect a callback whose unlock the box has recorded.
NeverCutOff ==
  [][\A b \in Batches : RedirectToNotice(b) /\ phone[b] = "open" =>
        ~(flight.batch = b /\ flight.unlocked)]_vars

\* Policy rule 9, "until then nothing else goes out for the item": an item whose
\* SMS waits for its receipt is not read out on a call.
NotOfferedWhileSmsPending ==
  [][\A c \in Calls, i \in Items : PendingForCall(c) /\ i \in offer'[c].items =>
        item[i].sms = "none"]_vars

\* "Its answer is spoken when it lands ..., and otherwise delivered by the owner
\* outbox, never dropped": the answer of an inline job is heard in the end.
AnswersAreNeverDropped ==
  \A i \in Items : Open(i) /\ GoalOf[i] \in Jobs ~> item[i].state = "heard"
=============================================================================
