------------------------------ MODULE SmsGateway ------------------------------
(***************************************************************************)
(* The owner's texts (twilioSmsGateway.ts) with the action guard they may  *)
(* answer: the durable inbox that is written before Twilio gets its        *)
(* acknowledgement, the handlers that run side by side after it, the mutex *)
(* that gives Hermes one turn at a time, and the lifecycle tick that asks  *)
(* the owner to send again what the box lost.                              *)
(*                                                                         *)
(* Named abstractions: one owner, whose texts are not blank; a text is an  *)
(* approval, a denial, or something else; what a keyword, a reminder, the  *)
(* goal broker or a turn answers is one text of one part; a turn that the  *)
(* deadline stops ends with a text too (its goal is GoalBroker's); the     *)
(* outbox item of the notice reaches the owner as in OwnerOutbox.          *)
(***************************************************************************)
EXTENDS ActionGuard, Sequences

CONSTANTS Texts, Handlers,
          Says,        \* what a text may be: a decision, or "other"
          MaxFaults,   \* bound: calls that fail, and acknowledgements that are lost
          MaxCrashes,  \* bound: restarts of the box
          None

ASSUME SmsAssumption == /\ Says \subseteq Decisions \cup {"other"}
                        /\ None \notin Texts \cup Requests /\ IsFiniteSet(Handlers)
                        /\ MaxFaults \in Nat /\ MaxCrashes \in Nat

VARIABLES
  text,    \* text[m]: the text at Twilio and in the inbox, and what the owner was sent
  hand,    \* hand[h]: where handler h is suspended, and what it holds
  chain,   \* ownerSmsChains: the handlers in the mutex, the first one holds it
  tick,    \* recoverStaleInbound: where it is, and what it listed
  acked,   \* acked[r]: the decision that was texted back to the owner
  budget   \* the faults and crashes left

vars == <<request, text, hand, chain, tick, acked, budget>>

------------------------------------------------------------------------------
\* wire: Twilio has the webhook still to post; inbox: processedAt; old: received two
\* minutes ago; marked: recoveryNotifiedAt; settled: answered by text, or a rating
\* with nothing to rate, which is dropped; notices: outbox items that ask to send it again.
TextRecord == [says : Says \cup {"none"}, wire : BOOLEAN,
               inbox : {"none", "open", "processed"}, old : BOOLEAN, marked : BOOLEAN,
               settled : BOOLEAN, notices : Nat]

NoText == [says |-> "none", wire |-> FALSE, inbox |-> "none", old |-> FALSE,
           marked |-> FALSE, settled |-> FALSE, notices |-> 0]

\* saw: history, the requests an answer could have meant; re: the request h resolved.
HandRecord == [at : {"idle", "reserve", "intake", "route", "queued",
                     "turn", "say", "error", "complete"},
               m : Texts \cup {None}, saw : SUBSET Requests, re : Requests \cup {None}]

Idle == [at |-> "idle", m |-> None, saw |-> {}, re |-> None]

TickRecord == [at : {"idle", "add", "mark"}, left : SUBSET Texts, m : Texts \cup {None}]

NoTick == [at |-> "idle", left |-> {}, m |-> None]

Init ==
  /\ GuardInit /\ acked = [r \in Requests |-> "none"]
  /\ text = [m \in Texts |-> NoText] /\ hand = [h \in Handlers |-> Idle]
  /\ chain = <<>> /\ tick = NoTick
  /\ budget = [faults |-> MaxFaults, crashes |-> MaxCrashes]

Spend(what) == budget[what] > 0 /\ budget' = [budget EXCEPT ![what] = @ - 1]
Fails == Spend("faults")
Succeeds == UNCHANGED budget

At(h, point) == hand[h].at = point
GoTo(h, point) == hand' = [hand EXCEPT ![h].at = point]
Return(h) == hand' = [hand EXCEPT ![h] = Idle]

------------------------------------------------------------------------------
(* The webhook, up to the acknowledgement.                                   *)

\* The owner texts.
OwnerTexts(m, says) ==
  /\ text[m].says = "none"
  /\ text' = [text EXCEPT ![m].says = says, ![m].wire = TRUE]
  /\ UNCHANGED <<request, hand, chain, tick, acked, budget>>

Webhook(h, m) ==
  /\ At(h, "idle") /\ text[m].wire
  /\ text' = [text EXCEPT ![m].wire = FALSE]
  /\ hand' = [hand EXCEPT ![h] =
       [Idle EXCEPT !.at = "reserve", !.m = m,
                    !.saw = IF text[m].says \in Decisions
                            THEN {r \in Requests : Open(r) /\ request[r].at = "wait"}
                            ELSE {}]]
  /\ UNCHANGED <<request, chain, tick, acked, budget>>

\* reserveInbound keeps the record there is.  If it fails, 503: Twilio posts again, as
\* it does when the acknowledgement is lost; a text posted again is handled again.
Reserve(h) ==
  LET m == hand[h].m
      reserved == [text EXCEPT ![m].inbox = IF @ = "none" THEN "open" ELSE @] IN
  /\ At(h, "reserve")
  /\ \/ Succeeds /\ text' = reserved /\ GoTo(h, "intake")
     \/ Fails /\ text' = [reserved EXCEPT ![m].wire = TRUE] /\ GoTo(h, "intake")
     \/ Fails /\ text' = [text EXCEPT ![m].wire = TRUE] /\ Return(h)
  /\ UNCHANGED <<request, chain, tick, acked>>

------------------------------------------------------------------------------
(* The handler, after it.                                                    *)

OpenRequests == {r \in Requests : Open(r)}

Newest(S) == CHOOSE r \in S : \A k \in S : k <= r

\* Mutant: whatever the owner texts answers an open request.
IntakeAnyText(h) ==
  /\ At(h, "intake")
  /\ IF OpenRequests # {}
     THEN /\ Resolve(Newest(OpenRequests), text[hand[h].m].says)
          /\ hand' = [hand EXCEPT ![h].at = "say", ![h].re = Newest(OpenRequests)]
     ELSE UNCHANGED request /\ GoTo(h, "route")
  /\ UNCHANGED <<text, chain, tick, acked, budget>>

\* handleSmsApprovalIngress: a decision goes to the newest open request, and with none
\* the text goes on.
Intake(h) ==
  LET d == text[hand[h].m].says IN
  /\ At(h, "intake")
  /\ IF d \in Decisions /\ OpenRequests # {}
     THEN /\ Resolve(Newest(OpenRequests), d)
          /\ hand' = [hand EXCEPT ![h].at = "say", ![h].re = Newest(OpenRequests)]
     ELSE /\ request' = IF d \in Decisions THEN Swept ELSE request
          /\ GoTo(h, "route")
  /\ UNCHANGED <<text, chain, tick, acked, budget>>

\* A keyword, DONE and the other answers to a proactive text are answered, and so is
\* what the broker takes (broker.route); a rating with no text to rate is dropped; the
\* rest is for Hermes; or something throws.
Route(h) ==
  /\ At(h, "route")
  /\ \/ Succeeds /\ GoTo(h, "say") /\ UNCHANGED <<text, chain>>
     \/ Succeeds /\ GoTo(h, "queued") /\ chain' = Append(chain, h) /\ UNCHANGED text
     \/ /\ Succeeds /\ GoTo(h, "complete") /\ UNCHANGED chain
        /\ text' = [text EXCEPT ![hand[h].m].settled = TRUE]
     \/ Fails /\ GoTo(h, "error") /\ UNCHANGED <<text, chain>>
  /\ UNCHANGED <<request, tick, acked>>

\* h has the mutex.
Holds(h) == chain # <<>> /\ Head(chain) = h

\* Mutant: a turn waits for nobody.
TurnStartsAtOnce(h) ==
  /\ At(h, "queued")
  /\ GoTo(h, "turn")
  /\ UNCHANGED <<request, text, chain, tick, acked, budget>>

\* withOwnerSmsMutex runs the turn when those before it have settled.
TurnStarts(h) ==
  /\ At(h, "queued") /\ Holds(h)
  /\ GoTo(h, "turn")
  /\ UNCHANGED <<request, text, chain, tick, acked, budget>>

\* The mutex is passed on however the turn settles.
Leaves(h) == IF Holds(h) THEN Tail(chain) ELSE chain

\* The turn has something to say, empty and stopped turns included, or throws.
TurnEnds(h) ==
  /\ At(h, "turn")
  /\ \/ Succeeds /\ GoTo(h, "say") /\ UNCHANGED chain
     \/ Fails /\ GoTo(h, "error") /\ chain' = Leaves(h)
  /\ UNCHANGED <<request, text, tick, acked>>

\* sendSms, within the mutex if it is a turn's.
Say(h) ==
  LET m == hand[h].m
      r == hand[h].re IN
  /\ At(h, "say")
  /\ \/ /\ Succeeds /\ GoTo(h, "complete") /\ chain' = Leaves(h)
        /\ text' = [text EXCEPT ![m].settled = TRUE]
        /\ acked' = IF r = None THEN acked ELSE [acked EXCEPT ![r] = text[m].says]
     \/ Fails /\ GoTo(h, "error") /\ chain' = Leaves(h) /\ UNCHANGED <<text, acked>>
  /\ UNCHANGED <<request, tick>>

\* Mutant: a text that could not even be answered with an error counts as handled.
SayErrorHandled(h) ==
  /\ At(h, "error")
  /\ \/ Succeeds /\ text' = [text EXCEPT ![hand[h].m].settled = TRUE] /\ GoTo(h, "complete")
     \/ Fails /\ UNCHANGED text /\ GoTo(h, "complete")
  /\ UNCHANGED <<request, chain, tick, acked>>

\* The owner is told of an error; if that fails too, intakeHandled stays false.
SayError(h) ==
  /\ At(h, "error")
  /\ \/ Succeeds /\ text' = [text EXCEPT ![hand[h].m].settled = TRUE] /\ GoTo(h, "complete")
     \/ Fails /\ UNCHANGED text /\ Return(h)
  /\ UNCHANGED <<request, chain, tick, acked>>

\* completeInbound, whose failure is ignored.
Complete(h) ==
  /\ At(h, "complete") /\ Return(h)
  /\ \/ Succeeds /\ text' = [text EXCEPT ![hand[h].m].inbox = "processed"]
     \/ Fails /\ UNCHANGED text
  /\ UNCHANGED <<request, chain, tick, acked>>

------------------------------------------------------------------------------
(* recoverStaleInbound, in the lifecycle tick.                               *)

\* Two minutes since receivedAt.
Ages(m) ==
  /\ text[m].inbox = "open" /\ ~text[m].old
  /\ text' = [text EXCEPT ![m].old = TRUE]
  /\ UNCHANGED <<request, hand, chain, tick, acked, budget>>

\* listStaleInbound.
Stale == {m \in Texts : text[m].inbox = "open" /\ text[m].old /\ ~text[m].marked}

TickLists ==
  /\ tick.at = "idle" /\ Stale # {}
  /\ tick' = [NoTick EXCEPT !.at = "add", !.left = Stale]
  /\ UNCHANGED <<request, text, hand, chain, acked, budget>>

\* Mutant: the notice is added whether there is one or not.
NoticesAgain(n) == n + 1

\* addAnswer keeps the item of this jobId and content, if there is one.
Notices(n) == IF n = 0 THEN 1 ELSE n

\* A call that throws ends the tick.
AddNotice(m) ==
  /\ tick.at = "add" /\ m \in tick.left
  /\ \/ Succeeds /\ text' = [text EXCEPT ![m].notices = Notices(@)]
        /\ tick' = [tick EXCEPT !.at = "mark", !.m = m]
     \/ Fails /\ UNCHANGED text /\ tick' = NoTick
  /\ UNCHANGED <<request, hand, chain, acked>>

\* markInboundRecoveryNotified.
Mark ==
  /\ tick.at = "mark"
  /\ \/ /\ Succeeds /\ text' = [text EXCEPT ![tick.m].marked = TRUE]
        /\ tick' = [tick EXCEPT !.at = "add", !.left = @ \ {tick.m}, !.m = None]
     \/ Fails /\ UNCHANGED text /\ tick' = NoTick
  /\ UNCHANGED <<request, hand, chain, acked>>

TickEnds ==
  /\ tick.at = "add" /\ tick.left = {} /\ tick' = NoTick
  /\ UNCHANGED <<request, text, hand, chain, acked, budget>>

------------------------------------------------------------------------------
(* The guard's requests, asked by turns and by workers, and restarts.        *)

Asks(r) ==
  /\ Ask(r)
  /\ UNCHANGED <<text, hand, chain, tick, acked, budget>>

Settles(r) ==
  /\ \/ Succeeds /\ (Notified(r) \/ Expires(r) \/ TimesOut(r))
     \/ Fails /\ NotNotified(r)
  /\ UNCHANGED <<text, hand, chain, tick, acked>>

Crash ==
  /\ Spend("crashes") /\ GuardCrash
  /\ hand' = [h \in Handlers |-> Idle] /\ chain' = <<>> /\ tick' = NoTick
  /\ text' = [m \in Texts |->
       [text[m] EXCEPT !.wire = @ \/ \E h \in Handlers : At(h, "reserve") /\ hand[h].m = m]]
  /\ UNCHANGED acked

Handler(h) ==
  \/ Reserve(h) \/ Intake(h) \/ Route(h) \/ TurnStarts(h) \/ TurnEnds(h)
  \/ Say(h) \/ SayError(h) \/ Complete(h)

Tick == TickLists \/ (\E m \in Texts : AddNotice(m)) \/ Mark \/ TickEnds

Next ==
  \/ \E m \in Texts, says \in Says : OwnerTexts(m, says)
  \/ \E h \in Handlers : Handler(h) \/ \E m \in Texts : Webhook(h, m)
  \/ Tick \/ Crash \/ \E m \in Texts : Ages(m)
  \/ \E r \in Requests : Asks(r) \/ Settles(r)

Spec == Init /\ [][Next]_vars

\* The box ticks and its calls return: a turn too, at its deadline; time passes.
FairSpec ==
  /\ Spec /\ WF_vars(Tick) /\ \A h \in Handlers : WF_vars(Handler(h))
  /\ \A m \in Texts : WF_vars(Ages(m)) /\ WF_vars(\E h \in Handlers : Webhook(h, m))
  /\ \A r \in Requests : WF_vars(Settles(r))

------------------------------------------------------------------------------
(* Properties.                                                               *)

\* Types.
TypeOK ==
  /\ request \in [Requests -> RequestRecord]
  /\ text \in [Texts -> TextRecord] /\ hand \in [Handlers -> HandRecord]
  /\ chain \in Seq(Handlers)
  /\ tick \in TickRecord
  /\ acked \in [Requests -> Decisions \cup {"none"}]
  /\ budget \in [faults : 0 .. MaxFaults, crashes : 0 .. MaxCrashes]

\* "Approved" or "Denied" in the owner's hand is what the action got, although the
\* answer may come while the request is still being texted, or at its last moment;
\* unless the text of the request was refused (waitForPendingDecision, resolvePending).
AckIsTheDecision ==
  \A r \in Requests :
    request[r].out \in {"timeout"} \cup Decisions /\ acked[r] # "none"
      => request[r].out = acked[r]

\* While a request that was texted before it came is open, an answer does not wait
\* behind a turn, which may be the one that asks (handleSmsApprovalIngress is called
\* before withOwnerSmsMutex).
Chatting(h) == hand[h].at \in {"queued", "turn"}

AnswersPassTheTurn ==
  \A h \in Handlers, r \in Requests :
    Chatting(h) /\ text[hand[h].m].says \in Decisions /\ r \in hand[h].saw => ~Open(r)

\* Hermes is given one turn of the owner's texts at a time (withOwnerSmsMutex).
OneTurnAtATime ==
  \A g, h \in Handlers : At(g, "turn") /\ At(h, "turn") => g = h

\* The owner is asked once to send a text again, also when the box stops between the
\* notice and its mark (addAnswer, markInboundRecoveryNotified).
NoticedOnce == \A m \in Texts : text[m].notices < 2

\* A text that Twilio was acknowledged is answered, or the owner is asked to send it
\* again: a restart, a send that fails, a turn that throws (the handler's finally,
\* recoverStaleInbound); only a rating with nothing to rate is passed over.
TextsAreAnswered ==
  \A m \in Texts :
    text[m].inbox = "open" ~> text[m].settled \/ text[m].notices > 0

\* Who asks for an approval gets an answer (waitForPendingDecision, listOpenPending).
RequestsEnd ==
  \A r \in Requests :
    request[r].at \in {"notify", "wait"} ~> request[r].at \in {"over", "lost"}

\* The owner is asked to send a text again when the box dropped it, and not while Hermes
\* is at work on it: "If the process died before handling it" (broker.ts), "restart
\* recovery" (docs/realtime-goals.md).
NoticedOnlyIfDropped ==
  [][\A m \in Texts, h \in Handlers :
       text'[m].notices > text[m].notices => ~(At(h, "turn") /\ hand[h].m = m)]_vars

==============================================================================
