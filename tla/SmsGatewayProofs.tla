--------------------------- MODULE SmsGatewayProofs ---------------------------
(***************************************************************************)
(* Theorems about the owner's texts and the approvals they answer, for     *)
(* every set of texts, requests and handlers and every bound.              *)
(***************************************************************************)
EXTENDS SmsGateway, SequenceTheorems, TLAPS

\* A handler that is at work holds a text of the owner, and what it resolved a request
\* with is a decision.
HandsHold ==
  \A h \in Handlers :
    /\ hand[h].at = "idle" => hand[h].m = None /\ hand[h].re = None
    /\ hand[h].at # "idle" => hand[h].m \in Texts /\ text[hand[h].m].says \in Says
    /\ hand[h].re # None => text[hand[h].m].says \in Decisions

\* What Twilio still has to post was texted.
WiresTexted == \A m \in Texts : text[m].wire => text[m].says \in Says

\* The newest of some requests is one of them.
LEMMA NewestIsOpen ==
  ASSUME NEW S \in SUBSET Requests, S # {}
  PROVE  Newest(S) \in S
  BY RequestAssumption DEF Newest

\* What happens to a request leaves a record.
LEMMA RequestTyped ==
  ASSUME NEW q \in RequestRecord, NEW b \in BOOLEAN
  PROVE  /\ \A o \in {"none", "timeout", "unavailable"} \cup Decisions :
              Ended(q, o) \in RequestRecord
         /\ \A d \in Decisions : [q EXCEPT !.file = d] \in RequestRecord
         /\ [q EXCEPT !.file = "timeout"] \in RequestRecord
         /\ [q EXCEPT !.file = "pending", !.at = "notify"] \in RequestRecord
         /\ [q EXCEPT !.at = "wait"] \in RequestRecord
         /\ [q EXCEPT !.at = "lost"] \in RequestRecord
         /\ [q EXCEPT !.late = b] \in RequestRecord
  BY DEF RequestRecord, Ended, Decisions

\* What is expired is marked, and remains a record.
LEMMA SweptTyped ==
  ASSUME request \in [Requests -> RequestRecord]
  PROVE  Swept \in [Requests -> RequestRecord]
  BY RequestTyped DEF Swept

\* So does a step of a request.
LEMMA GuardTyped ==
  ASSUME request \in [Requests -> RequestRecord]
  PROVE  /\ \A r \in Requests :
              Ask(r) \/ Notified(r) \/ NotNotified(r) \/ Expires(r) \/ TimesOut(r)
                => request' \in [Requests -> RequestRecord]
         /\ \A r \in Requests, d \in Decisions :
              Resolve(r, d) => request' \in [Requests -> RequestRecord]
         /\ GuardCrash => request' \in [Requests -> RequestRecord]
<1>1. ASSUME NEW r \in Requests, Ask(r) \/ NotNotified(r) \/ Expires(r) \/ TimesOut(r)
      PROVE  request' \in [Requests -> RequestRecord]
  <2>1. request[r] \in RequestRecord
    OBVIOUS
  <2>2. Ask(r) => request' \in [Requests -> RequestRecord]
    BY <2>1, RequestTyped DEF Ask
  <2>3. NotNotified(r) => request' \in [Requests -> RequestRecord]
    BY <2>1, RequestTyped DEF NotNotified
  <2>4. Expires(r) => request' \in [Requests -> RequestRecord]
    BY <2>1, RequestTyped DEF Expires
  <2>5. TimesOut(r) => request' \in [Requests -> RequestRecord]
    BY <2>1, RequestTyped DEF TimesOut
  <2> QED
    BY <1>1, <2>2, <2>3, <2>4, <2>5
<1>2. ASSUME NEW r \in Requests, Notified(r) PROVE request' \in [Requests -> RequestRecord]
  <2>1. request[r].file = "pending" \/ request[r].file \in
          {"none", "timeout", "unavailable"} \cup Decisions
    BY DEF RequestRecord
  <2> QED
    BY <1>2, <2>1, RequestTyped DEF Notified
<1>3. ASSUME NEW r \in Requests, NEW d \in Decisions, Resolve(r, d)
      PROVE  request' \in [Requests -> RequestRecord]
  BY <1>3, RequestTyped, SweptTyped DEF Resolve
<1>4. GuardCrash => request' \in [Requests -> RequestRecord]
  BY RequestTyped DEF GuardCrash
<1> QED
  BY <1>1, <1>2, <1>3, <1>4

\* The budget is never overspent.
LEMMA BudgetTyped ==
  ASSUME TypeOK
  PROVE  /\ Succeeds \/ Fails \/ Spend("crashes")
              => budget' \in [faults : 0 .. MaxFaults, crashes : 0 .. MaxCrashes]
  BY SmsAssumption DEF TypeOK, Succeeds, Fails, Spend

Typed == TypeOK /\ HandsHold /\ WiresTexted

\* What happens to a handler leaves a record.
LEMMA HandTyped ==
  ASSUME NEW k \in HandRecord
  PROVE  /\ \A point \in {"idle", "reserve", "intake", "route", "queued", "turn", "say",
                          "error", "complete"} :
              [k EXCEPT !.at = point] \in HandRecord
         /\ \A r \in Requests : [k EXCEPT !.at = "say", !.re = r] \in HandRecord
         /\ Idle \in HandRecord
         /\ \A m \in Texts, S \in SUBSET Requests :
              [Idle EXCEPT !.at = "reserve", !.m = m, !.saw = S] \in HandRecord
  BY DEF HandRecord, Idle

SaysKept == \A m \in Texts : text'[m].says = text[m].says

\* Handlers and the tick do this to a text, and what the owner said stays.
LEMMA TextTyped ==
  ASSUME text \in [Texts -> TextRecord], WiresTexted, NEW m,
         \/ UNCHANGED text
         \/ text' = [text EXCEPT ![m].settled = TRUE]
         \/ text' = [text EXCEPT ![m].marked = TRUE]
         \/ text' = [text EXCEPT ![m].old = TRUE]
         \/ text' = [text EXCEPT ![m].wire = FALSE]
         \/ text' = [text EXCEPT ![m].inbox = "processed"]
         \/ text' = [text EXCEPT ![m].notices = Notices(@)]
  PROVE  text' \in [Texts -> TextRecord] /\ WiresTexted' /\ SaysKept
<1>1. \A t \in TextRecord : /\ [t EXCEPT !.settled = TRUE] \in TextRecord
                            /\ [t EXCEPT !.marked = TRUE] \in TextRecord
                            /\ [t EXCEPT !.old = TRUE] \in TextRecord
                            /\ [t EXCEPT !.wire = FALSE] \in TextRecord
                            /\ [t EXCEPT !.inbox = "processed"] \in TextRecord
                            /\ [t EXCEPT !.notices = Notices(@)] \in TextRecord
  BY DEF TextRecord, Notices
<1>2. text' \in [Texts -> TextRecord]
  <2>1. CASE text' = [text EXCEPT ![m].settled = TRUE]
    BY <1>1, <2>1
  <2>2. CASE text' = [text EXCEPT ![m].old = TRUE]
    BY <1>1, <2>2
  <2>5. CASE text' = [text EXCEPT ![m].marked = TRUE]
    BY <1>1, <2>5
  <2>6. CASE text' = [text EXCEPT ![m].wire = FALSE]
    BY <1>1, <2>6
  <2>3. CASE text' = [text EXCEPT ![m].inbox = "processed"]
    BY <1>1, <2>3
  <2>4. CASE text' = [text EXCEPT ![m].notices = Notices(@)]
    BY <1>1, <2>4
  <2> QED
    BY <2>1, <2>2, <2>3, <2>4, <2>5, <2>6
<1>3. SaysKept
  BY DEF SaysKept, TextRecord
<1>4. \A k \in Texts : text'[k].wire => text[k].wire
  BY DEF TextRecord
<1> QED
  BY <1>2, <1>3, <1>4 DEF WiresTexted, SaysKept

\* Twilio's webhook is posted again only for a text the owner sent.
LEMMA ReserveTyped ==
  ASSUME text \in [Texts -> TextRecord], WiresTexted, NEW h \in Handlers, Reserve(h),
         text[hand[h].m].says \in Says
  PROVE  text' \in [Texts -> TextRecord] /\ WiresTexted' /\ SaysKept
<1> DEFINE m == hand[h].m
           reserved == [text EXCEPT ![m].inbox = IF @ = "none" THEN "open" ELSE @]
<1>1. \/ text' = reserved \/ text' = [reserved EXCEPT ![m].wire = TRUE]
      \/ text' = [text EXCEPT ![m].wire = TRUE]
  BY DEF Reserve
<1>2. \A t \in TextRecord : [t EXCEPT !.wire = TRUE] \in TextRecord
  BY DEF TextRecord
<1>3. reserved \in [Texts -> TextRecord]
  <2>1. \A t \in TextRecord :
          [t EXCEPT !.inbox = IF @ = "none" THEN "open" ELSE @] \in TextRecord
    BY DEF TextRecord
  <2> QED
    BY <2>1
<1>4. text' \in [Texts -> TextRecord]
  BY <1>1, <1>2, <1>3
<1>5. \A k \in Texts : reserved[k].says = text[k].says /\ reserved[k].wire = text[k].wire
  BY DEF TextRecord
<1>6. SaysKept
  BY <1>1, <1>3, <1>5, SMTT(60) DEF SaysKept, TextRecord
<1>7. \A k \in Texts \ {m} : text'[k].wire = text[k].wire
  BY <1>1, <1>3, <1>5
<1> QED
  BY <1>4, <1>6, <1>7 DEF WiresTexted, SaysKept

\* A handler goes on with what it holds, or is done; the others are left alone.
Proceeds(h) ==
  /\ \A k \in Handlers \ {h} : hand'[k] = hand[k]
  /\ \/ hand'[h] = Idle
     \/ /\ hand[h].at # "idle" /\ hand'[h].at # "idle"
        /\ hand'[h].m = hand[h].m /\ hand'[h].re = hand[h].re

\* What the owner said is not rewritten, so that handlers hold what they held.
LEMMA HandsKept ==
  ASSUME Typed, NEW h \in Handlers, Proceeds(h), SaysKept
  PROVE  HandsHold'
<1> SUFFICES ASSUME NEW k \in Handlers
             PROVE  /\ hand'[k].at = "idle" => hand'[k].m = None /\ hand'[k].re = None
                    /\ hand'[k].at # "idle" => hand'[k].m \in Texts /\ text'[hand'[k].m].says \in Says
                    /\ hand'[k].re # None => text'[hand'[k].m].says \in Decisions
  BY DEF HandsHold
<1>1. /\ hand[k].at = "idle" => hand[k].m = None /\ hand[k].re = None
      /\ hand[k].at # "idle" => hand[k].m \in Texts /\ text'[hand[k].m].says \in Says
      /\ hand[k].re # None => text'[hand[k].m].says \in Decisions
  BY DEF Typed, HandsHold, SaysKept
<1>2. CASE k # h
  BY <1>1, <1>2 DEF Proceeds
<1>3. CASE k = h
  BY <1>1, <1>3 DEF Proceeds, Idle
<1> QED
  BY <1>2, <1>3

\* A handler after its decision goes on with its text, or is done.
LEMMA HandlerProceeds ==
  ASSUME hand \in [Handlers -> HandRecord], NEW h \in Handlers, Handler(h), ~Intake(h)
  PROVE  Proceeds(h) /\ hand' \in [Handlers -> HandRecord]
<1>1. \A point \in {"intake", "route", "queued", "turn", "say", "error", "complete"} :
        GoTo(h, point) => hand' \in [Handlers -> HandRecord]
  BY DEF GoTo, HandRecord
<1>2. Return(h) => hand' \in [Handlers -> HandRecord]
  BY HandTyped DEF Return
<1>3. \A point : GoTo(h, point) /\ point # "idle" /\ hand[h].at # "idle" => Proceeds(h)
  BY DEF GoTo, Proceeds, HandRecord
<1>4. Return(h) => Proceeds(h)
  BY DEF Return, Proceeds
<1>5. hand[h].at # "idle"
  BY DEF Handler, Reserve, Intake, Route, TurnStarts, TurnEnds, Say, SayError, Complete, At
<1>6. \/ Return(h)
      \/ \E point \in {"intake", "route", "queued", "turn", "say", "error", "complete"} :
           GoTo(h, point)
  BY DEF Handler, Reserve, Route, TurnStarts, TurnEnds, Say, SayError, Complete
<1> QED
  BY <1>1, <1>2, <1>3, <1>4, <1>5, <1>6

\* A step of a handler keeps each part of the state typed.
LEMMA HandlerTyped ==
  ASSUME Typed, NEW h \in Handlers, Handler(h)
  PROVE  Typed'
<1>1. text \in [Texts -> TextRecord] /\ WiresTexted
  BY DEF Typed, TypeOK
<1>2. hand \in [Handlers -> HandRecord]
  BY DEF Typed, TypeOK
<1>3. HandsHold
  BY DEF Typed
<1>4. request \in [Requests -> RequestRecord] /\ chain \in Seq(Handlers)
  BY DEF Typed, TypeOK
<1>5. text' \in [Texts -> TextRecord] /\ WiresTexted' /\ SaysKept
  <2>1. CASE Reserve(h)
    <3>1. text[hand[h].m].says \in Says
      BY <1>3, <2>1 DEF Reserve, HandsHold, At
    <3> QED
      BY <1>1, <2>1, <3>1, ReserveTyped
  <2>2. CASE ~Reserve(h)
    <3>1. \/ UNCHANGED text
          \/ text' = [text EXCEPT ![hand[h].m].settled = TRUE]
          \/ text' = [text EXCEPT ![hand[h].m].inbox = "processed"]
      BY <2>2 DEF Handler, Intake, Route, TurnStarts, TurnEnds, Say, SayError, Complete
    <3> QED
      BY <1>1, <3>1, TextTyped
  <2> QED
    BY <2>1, <2>2
<1>6. CASE Intake(h)
  <2> DEFINE d == text[hand[h].m].says
  <2>1. CASE d \in Decisions /\ OpenRequests # {}
    <3>1. Newest(OpenRequests) \in Requests
      BY <2>1, NewestIsOpen DEF OpenRequests
    <3>2. request' \in [Requests -> RequestRecord]
      BY <1>4, <1>6, <2>1, <3>1, GuardTyped DEF Intake
    <3>3. hand' \in [Handlers -> HandRecord]
      BY <1>2, <1>6, <2>1, <3>1 DEF Intake, HandRecord
    <3>4. HandsHold'
      BY <1>2, <1>3, <1>6, <2>1, <3>1 DEF Intake, HandsHold, HandRecord, At
    <3> QED
      BY <1>5, <1>6, <3>2, <3>3, <3>4 DEF Intake, Typed, TypeOK
  <2>2. CASE ~(d \in Decisions /\ OpenRequests # {})
    <3>1. request' \in [Requests -> RequestRecord]
      BY <1>4, <1>6, <2>2, SweptTyped DEF Intake
    <3>2. hand' \in [Handlers -> HandRecord]
      BY <1>2, <1>6, <2>2 DEF Intake, GoTo, HandRecord
    <3>3. HandsHold'
      BY <1>2, <1>3, <1>6, <2>2 DEF Intake, HandsHold, HandRecord, At, GoTo
    <3> QED
      BY <1>5, <1>6, <3>1, <3>2, <3>3 DEF Intake, Typed, TypeOK
  <2> QED
    BY <2>1, <2>2
<1>7. CASE ~Intake(h)
  <2>1. Proceeds(h) /\ hand' \in [Handlers -> HandRecord]
    BY <1>2, <1>7, HandlerProceeds
  <2>2. HandsHold'
    BY <1>5, <2>1, HandsKept
  <2>3. chain' \in Seq(Handlers)
    <3>1. Leaves(h) \in Seq(Handlers)
      BY <1>4, HeadTailProperties DEF Leaves, Holds
    <3>2. Append(chain, h) \in Seq(Handlers)
      BY <1>4, AppendProperties
    <3>3. chain' \in {chain, Append(chain, h), Leaves(h)}
      BY <1>7 DEF Handler, Reserve, Route, TurnStarts, TurnEnds, Say, SayError, Complete
    <3> QED
      BY <1>4, <3>1, <3>2, <3>3
  <2>4. acked' \in [Requests -> Decisions \cup {"none"}]
    <3>1. acked \in [Requests -> Decisions \cup {"none"}]
      BY DEF Typed, TypeOK
    <3>2. Say(h) => acked' \in [Requests -> Decisions \cup {"none"}]
      BY <1>3, <3>1 DEF Say, HandsHold
    <3> QED
      BY <1>7, <3>1, <3>2
         DEF Handler, Reserve, Route, TurnStarts, TurnEnds, SayError, Complete
  <2>5. budget' \in [faults : 0 .. MaxFaults, crashes : 0 .. MaxCrashes]
    <3>1. UNCHANGED budget \/ Succeeds \/ Fails
      BY <1>7 DEF Handler, Reserve, Route, TurnStarts, TurnEnds, Say, SayError, Complete
    <3> QED
      BY <3>1, BudgetTyped DEF Typed, TypeOK
  <2>6. UNCHANGED <<request, tick>>
    BY <1>7 DEF Handler, Reserve, Route, TurnStarts, TurnEnds, Say, SayError, Complete
  <2> QED
    BY <1>5, <2>1, <2>2, <2>3, <2>4, <2>5, <2>6 DEF Typed, TypeOK
<1> QED
  BY <1>6, <1>7

\* What the tick holds is a record.
LEMMA TickTyped ==
  /\ NoTick \in TickRecord
  /\ \A t \in TickRecord, m \in Texts : [t EXCEPT !.at = "mark", !.m = m] \in TickRecord
  /\ \A t \in TickRecord :
       [t EXCEPT !.at = "add", !.left = @ \ {t.m}, !.m = None] \in TickRecord
  BY DEF TickRecord, NoTick

\* The other steps, and all of them.
LEMMA StepTyped ==
  ASSUME Typed, [Next]_vars
  PROVE  Typed'
<1>1. text \in [Texts -> TextRecord] /\ WiresTexted
  BY DEF Typed, TypeOK
<1>2. hand \in [Handlers -> HandRecord] /\ HandsHold
  BY DEF Typed, TypeOK
<1>3. request \in [Requests -> RequestRecord]
  BY DEF Typed, TypeOK
<1>4. tick \in TickRecord
  BY DEF Typed, TypeOK
<1>5. SaysKept /\ UNCHANGED hand => HandsHold'
  BY <1>2 DEF HandsHold, SaysKept
<1>6. ASSUME NEW m \in Texts, NEW says \in Says, OwnerTexts(m, says) PROVE Typed'
  <2>1. text' = [text EXCEPT ![m].says = says, ![m].wire = TRUE] /\ text[m].says = "none"
    BY <1>6 DEF OwnerTexts
  <2>2. \A t \in TextRecord : [t EXCEPT !.says = says, !.wire = TRUE] \in TextRecord
    BY DEF TextRecord
  <2>3. text' = [text EXCEPT ![m] = [text[m] EXCEPT !.says = says, !.wire = TRUE]]
    BY <1>1, <2>1
  <2>4. text' \in [Texts -> TextRecord]
    BY <1>1, <2>2, <2>3
  <2>5. \A k \in Texts \ {m} : text'[k] = text[k]
    BY <1>1, <2>3
  <2>6. text'[m].says = says
    BY <1>1, <2>3 DEF TextRecord
  <2>7. WiresTexted'
    BY <1>1, <2>5, <2>6 DEF WiresTexted
  <2>8. "none" \notin Says
    BY SmsAssumption DEF Decisions
  <2>9. HandsHold'
    BY <1>2, <1>6, <2>1, <2>5, <2>8 DEF HandsHold, OwnerTexts, Decisions
  <2> QED
    BY <1>6, <2>4, <2>7, <2>9 DEF Typed, TypeOK, OwnerTexts
<1>7. ASSUME NEW h \in Handlers, NEW m \in Texts, Webhook(h, m) PROVE Typed'
  <2>1. text' \in [Texts -> TextRecord] /\ WiresTexted' /\ SaysKept
    <3>1. text' = [text EXCEPT ![m].wire = FALSE]
      BY <1>7 DEF Webhook
    <3> QED
      BY <1>1, <3>1, TextTyped
  <2>2. PICK S \in SUBSET Requests :
          hand' = [hand EXCEPT ![h] = [Idle EXCEPT !.at = "reserve", !.m = m, !.saw = S]]
    BY <1>7 DEF Webhook
  <2>3. hand' \in [Handlers -> HandRecord]
    BY <1>2, <2>2 DEF HandRecord, Idle
  <2>4. text[m].says \in Says
    BY <1>1, <1>7 DEF Webhook, WiresTexted
  <2>5. /\ \A k \in Handlers \ {h} : hand'[k] = hand[k]
        /\ hand'[h].at = "reserve" /\ hand'[h].m = m /\ hand'[h].re = None
    BY <1>2, <2>2 DEF Idle
  <2>6. HandsHold'
    BY <1>2, <2>1, <2>4, <2>5 DEF HandsHold, SaysKept
  <2> QED
    BY <1>7, <2>1, <2>3, <2>6 DEF Typed, TypeOK, Webhook
<1>8. CASE Tick
  <2>1. text' \in [Texts -> TextRecord] /\ WiresTexted' /\ SaysKept
    <3>1. \/ UNCHANGED text
          \/ text' = [text EXCEPT ![tick.m].marked = TRUE]
          \/ \E m \in Texts : text' = [text EXCEPT ![m].notices = Notices(@)]
      BY <1>8 DEF Tick, TickLists, AddNotice, Mark, TickEnds
    <3> QED
      BY <1>1, <3>1, TextTyped
  <2>2. tick' \in TickRecord
    <3>1. CASE TickLists \/ TickEnds
      <4>1. tick' = NoTick \/ tick' = [at |-> "add", left |-> Stale, m |-> None]
        BY <3>1 DEF TickLists, TickEnds, NoTick
      <4> QED
        BY <4>1 DEF NoTick, Stale, TickRecord
    <3>2. ASSUME NEW m \in Texts, AddNotice(m)
          PROVE  tick' \in TickRecord
      <4>1. tick' = NoTick \/ tick' = [tick EXCEPT !.at = "mark", !.m = m]
        BY <3>2 DEF AddNotice
      <4> QED
        BY <1>4, <4>1, TickTyped
    <3>3. CASE Mark
      <4>1. tick' = NoTick \/ tick' = [tick EXCEPT !.at = "add", !.left = @ \ {tick.m}, !.m = None]
        BY <3>3 DEF Mark
      <4> QED
        BY <1>4, <4>1, TickTyped
    <3> QED
      BY <1>8, <3>1, <3>2, <3>3 DEF Tick
  <2>3. budget' \in [faults : 0 .. MaxFaults, crashes : 0 .. MaxCrashes]
    <3>1. UNCHANGED budget \/ Succeeds \/ Fails
      BY <1>8 DEF Tick, TickLists, AddNotice, Mark, TickEnds
    <3> QED
      BY <3>1, BudgetTyped DEF Typed, TypeOK
  <2>4. UNCHANGED <<request, hand, chain, acked>>
    BY <1>8 DEF Tick, TickLists, AddNotice, Mark, TickEnds
  <2> QED
    BY <1>5, <2>1, <2>2, <2>3, <2>4 DEF Typed, TypeOK
<1>9. CASE Crash
  <2>1. request' \in [Requests -> RequestRecord]
    BY <1>3, <1>9, GuardTyped DEF Crash
  <2>2. hand' \in [Handlers -> HandRecord] /\ HandsHold'
    BY <1>9 DEF Crash, HandsHold, HandRecord, Idle
  <2>3. \A m \in Texts : \E b \in BOOLEAN : text'[m] = [text[m] EXCEPT !.wire = b]
    BY <1>9 DEF Crash
  <2>4. \A t \in TextRecord, b \in BOOLEAN : [t EXCEPT !.wire = b] \in TextRecord
    BY DEF TextRecord
  <2>5. text' \in [Texts -> TextRecord]
    BY <1>1, <1>9, <2>3, <2>4 DEF Crash
  <2>6. \A m \in Texts : text'[m].says = text[m].says
    BY <1>1, <2>3 DEF TextRecord
  <2>7. \A m \in Texts : text'[m].wire => text[m].says \in Says
    <3> SUFFICES ASSUME NEW m \in Texts, text'[m].wire PROVE text[m].says \in Says
      OBVIOUS
    <3>1. text'[m].wire = (text[m].wire \/ \E h \in Handlers : At(h, "reserve") /\ hand[h].m = m)
      BY <1>1, <1>9 DEF Crash, TextRecord
    <3> QED
      BY <1>1, <1>2, <3>1 DEF WiresTexted, HandsHold, At
  <2>8. WiresTexted'
    BY <2>6, <2>7 DEF WiresTexted
  <2>9. chain' \in Seq(Handlers)
    BY <1>9 DEF Crash
  <2>10. tick' \in TickRecord
    BY <1>9, TickTyped DEF Crash
  <2>11. budget' \in [faults : 0 .. MaxFaults, crashes : 0 .. MaxCrashes]
    BY <1>9, BudgetTyped DEF Crash, Typed
  <2> QED
    BY <1>9, <2>1, <2>2, <2>5, <2>8, <2>9, <2>10, <2>11 DEF Typed, TypeOK, Crash
<1>10. ASSUME NEW m \in Texts, Ages(m) PROVE Typed'
  <2>1. text' = [text EXCEPT ![m].old = TRUE]
    BY <1>10 DEF Ages
  <2>2. text' \in [Texts -> TextRecord] /\ WiresTexted' /\ SaysKept
    BY <1>1, <2>1, TextTyped
  <2> QED
    BY <1>5, <1>10, <2>2 DEF Typed, TypeOK, Ages
<1>11. ASSUME NEW r \in Requests, Asks(r) \/ Settles(r) PROVE Typed'
  <2>1. request' \in [Requests -> RequestRecord]
    BY <1>3, <1>11, GuardTyped DEF Asks, Settles
  <2>2. UNCHANGED <<text, hand, chain, tick, acked>>
    BY <1>11 DEF Asks, Settles
  <2>3. budget' \in [faults : 0 .. MaxFaults, crashes : 0 .. MaxCrashes]
    <3>1. UNCHANGED budget \/ Succeeds \/ Fails
      BY <1>11 DEF Asks, Settles
    <3> QED
      BY <3>1, BudgetTyped DEF Typed, TypeOK
  <2> QED
    BY <2>1, <2>2, <2>3 DEF Typed, TypeOK, HandsHold, WiresTexted
<1>12. CASE UNCHANGED vars
  BY <1>12 DEF vars, Typed, TypeOK, HandsHold, WiresTexted
<1> QED
  BY <1>6, <1>7, <1>8, <1>9, <1>10, <1>11, <1>12, HandlerTyped DEF Next

\* It starts so.
LEMMA InitTyped ==
  ASSUME Init
  PROVE  Typed
<1>1. request \in [Requests -> RequestRecord]
  BY DEF Init, GuardInit, NoRequest, RequestRecord
<1>2. text \in [Texts -> TextRecord] /\ WiresTexted
  BY DEF Init, NoText, TextRecord, WiresTexted
<1>3. hand \in [Handlers -> HandRecord] /\ HandsHold
  BY DEF Init, Idle, HandRecord, HandsHold
<1>4. tick \in TickRecord
  BY TickTyped DEF Init
<1>5. budget \in [faults : 0 .. MaxFaults, crashes : 0 .. MaxCrashes]
  BY SmsAssumption DEF Init
<1> QED
  BY <1>1, <1>2, <1>3, <1>4, <1>5 DEF Init, Typed, TypeOK

\* The types hold, of every instance.
THEOREM TypeCorrect == Spec => []TypeOK
<1>1. Init => Typed
  BY InitTyped
<1>2. Typed /\ [Next]_vars => Typed'
  BY StepTyped
<1>3. Typed => TypeOK
  BY DEF Typed
<1> QED
  BY <1>1, <1>2, <1>3, PTL DEF Spec

------------------------------------------------------------------------------
(* One turn at a time.                                                       *)

\* A turn runs with the mutex.
TurnsHold == \A h \in Handlers : At(h, "turn") => Holds(h)

LEMMA TurnStep ==
  ASSUME Typed, TurnsHold, [Next]_vars
  PROVE  TurnsHold'
<1>1. hand \in [Handlers -> HandRecord] /\ chain \in Seq(Handlers)
  BY DEF Typed, TypeOK
<1>2. ASSUME NEW h \in Handlers, Handler(h) PROVE TurnsHold'
  <2>1. \A k \in Handlers \ {h} : hand'[k] = hand[k]
    BY <1>1, <1>2 DEF Handler, Reserve, Intake, Route, TurnStarts, TurnEnds, Say, SayError,
       Complete, GoTo, Return
  <2>2. CASE TurnStarts(h)
    <3>1. UNCHANGED chain /\ Holds(h)
      BY <2>2 DEF TurnStarts
    <3> QED
      BY <2>1, <3>1 DEF TurnsHold, Holds, At
  <2>3. CASE ~TurnStarts(h)
    <3>1. hand'[h].at # "turn"
      <4>1. CASE Return(h)
        BY <1>1, <4>1 DEF Return, Idle
      <4>2. CASE \E point \in {"intake", "route", "queued", "say", "error", "complete"} :
                   GoTo(h, point)
        BY <1>1, <4>2 DEF GoTo, HandRecord
      <4>3. CASE Intake(h)
        BY <1>1, <4>3 DEF Intake, GoTo, HandRecord
      <4> QED
        BY <1>2, <2>3, <4>1, <4>2, <4>3
           DEF Handler, Reserve, Route, TurnEnds, Say, SayError, Complete
    <3>2. chain' \in {chain, Append(chain, h), Leaves(h)}
      BY <1>2, <2>3 DEF Handler, Reserve, Intake, Route, TurnEnds, Say, SayError, Complete
    <3>3. ASSUME NEW k \in Handlers \ {h}, Holds(k) PROVE Holds(k)'
      <4>1. Leaves(h) = chain
        BY <3>3 DEF Leaves, Holds
      <4>2. Append(chain, h) # <<>> /\ Head(Append(chain, h)) = Head(chain)
        BY <1>1, <3>3, AppendProperties DEF Holds
      <4> QED
        BY <3>2, <3>3, <4>1, <4>2 DEF Holds
    <3> QED
      BY <2>1, <3>1, <3>3 DEF TurnsHold, At
  <2> QED
    BY <2>2, <2>3
<1>3. ASSUME NEW h \in Handlers, NEW m \in Texts, Webhook(h, m) PROVE TurnsHold'
  <2>1. hand'[h].at = "reserve" /\ \A k \in Handlers \ {h} : hand'[k] = hand[k]
    BY <1>1, <1>3 DEF Webhook, Idle
  <2> QED
    BY <1>3, <2>1 DEF Webhook, TurnsHold, Holds, At
<1>4. CASE Crash
  BY <1>4 DEF Crash, TurnsHold, At, Idle
<1>5. CASE ~(Crash \/ \E h \in Handlers : Handler(h) \/ \E m \in Texts : Webhook(h, m))
  <2>1. UNCHANGED <<hand, chain>>
    BY <1>5 DEF Next, OwnerTexts, Tick, TickLists, AddNotice, Mark, TickEnds, Ages, Asks,
       Settles, vars
  <2> QED
    BY <2>1 DEF TurnsHold, Holds, At
<1> QED
  BY <1>2, <1>3, <1>4, <1>5

\* Hermes never has two turns of the owner's texts at once, however many handlers wait
\* and however turns fail: OneTurnAtATime, of every instance.
THEOREM OneTurn == Spec => []OneTurnAtATime
<1>1. Init => Typed /\ TurnsHold
  BY InitTyped DEF Init, TurnsHold, At, Idle
<1>2. Typed /\ TurnsHold /\ [Next]_vars => Typed' /\ TurnsHold'
  BY StepTyped, TurnStep
<1>3. TurnsHold => OneTurnAtATime
  BY DEF TurnsHold, OneTurnAtATime, Holds
<1> QED
  BY <1>1, <1>2, <1>3, PTL DEF Spec

------------------------------------------------------------------------------
(* The notice of a lost text.                                                *)

\* The owner gets at most one notice of a text, of every instance: NoticedOnce.
THEOREM OneNotice == Spec => []NoticedOnce
<1>1. Init => Typed /\ NoticedOnce
  BY InitTyped DEF Init, NoticedOnce, NoText
<1>2. ASSUME Typed, NoticedOnce, [Next]_vars PROVE NoticedOnce'
  <2>1. text \in [Texts -> TextRecord]
    BY <1>2 DEF Typed, TypeOK
  <2>2. ASSUME NEW k \in Texts, AddNotice(k) PROVE NoticedOnce'
    <3>1. text' = text \/ text' = [text EXCEPT ![k].notices = Notices(@)]
      BY <2>2 DEF AddNotice
    <3>2. Notices(text[k].notices) < 2
      BY <1>2, <2>1 DEF Notices, NoticedOnce, TextRecord
    <3> QED
      BY <1>2, <2>1, <3>1, <3>2 DEF NoticedOnce, TextRecord
  <2>3. CASE ~\E k \in Texts : AddNotice(k)
    <3>1. \A m \in Texts : text'[m].notices = text[m].notices
      <4>1. ASSUME NEW m \in Texts, NEW says \in Says, OwnerTexts(m, says)
            PROVE  \A k \in Texts : text'[k].notices = text[k].notices
        BY <2>1, <4>1 DEF OwnerTexts, TextRecord
      <4>2. ASSUME NEW h \in Handlers, NEW m \in Texts, Webhook(h, m)
            PROVE  \A k \in Texts : text'[k].notices = text[k].notices
        BY <2>1, <4>2 DEF Webhook, TextRecord
      <4>3. ASSUME NEW h \in Handlers, Reserve(h)
            PROVE  \A k \in Texts : text'[k].notices = text[k].notices
        BY <2>1, <4>3 DEF Reserve, TextRecord
      <4>4. ASSUME NEW h \in Handlers, Handler(h), ~Reserve(h)
            PROVE  \A k \in Texts : text'[k].notices = text[k].notices
        <5>1. \/ UNCHANGED text
              \/ text' = [text EXCEPT ![hand[h].m].settled = TRUE]
              \/ text' = [text EXCEPT ![hand[h].m].inbox = "processed"]
          BY <4>4 DEF Handler, Intake, Route, TurnStarts, TurnEnds, Say, SayError, Complete
        <5> QED
          BY <2>1, <5>1 DEF TextRecord
      <4>5. CASE Mark \/ \E m \in Texts : Ages(m)
        BY <2>1, <4>5 DEF Mark, Ages, TextRecord
      <4>6. CASE Crash
        BY <2>1, <4>6 DEF Crash, TextRecord
      <4>7. CASE TickLists \/ TickEnds \/ (\E r \in Requests : Asks(r) \/ Settles(r)) \/ UNCHANGED vars
        BY <4>7 DEF TickLists, TickEnds, Asks, Settles, vars
      <4> QED
        BY <1>2, <2>3, <4>1, <4>2, <4>3, <4>4, <4>5, <4>6, <4>7 DEF Next, Tick
    <3> QED
      BY <1>2, <3>1 DEF NoticedOnce
  <2> QED
    BY <2>2, <2>3
<1>3. Typed /\ [Next]_vars => Typed'
  BY StepTyped
<1> QED
  BY <1>1, <1>2, <1>3, PTL DEF Spec

------------------------------------------------------------------------------
(* What an answer does to a request.                                         *)

\* The process of a request agrees with its file.
Well(q) ==
  /\ q.at # "over" => q.out = "none"
  /\ q.at \in {"no", "over"} => q.file = "none"
  /\ q.at = "wait" => q.file \in {"pending", "timeout"}

\* d is what came of a request, or what will, unless its text is refused.
Decides(q, d) ==
  /\ q.out = "none" => q.at \in {"notify", "lost"} /\ q.file = d
  /\ q.out \in {"timeout"} \cup Decisions => q.out = d

\* A request that was asked and is not open.
Closed(q) == q.at # "no" /\ ~(q.file = "pending" /\ ~q.late)

\* What a step does to one request.
RequestStep(q, p) ==
  \/ p = q
  \/ q.file = "pending" /\ q.late /\ p = [q EXCEPT !.file = "timeout"]
  \/ q.at \in {"notify", "wait"} /\ p = [q EXCEPT !.at = "lost"]
  \/ q.at = "no" /\ p = [q EXCEPT !.file = "pending", !.at = "notify"]
  \/ q.at = "notify" /\ q.file = "pending" /\ p = [q EXCEPT !.at = "wait"]
  \/ q.at = "notify" /\ q.file # "pending" /\ p = Ended(q, q.file)
  \/ q.at = "notify" /\ p = Ended(q, "unavailable")
  \/ q.file # "none" /\ p = [q EXCEPT !.late = TRUE]
  \/ q.at = "wait" /\ q.late /\ p = Ended(q, "timeout")
  \/ \E d \in Decisions : /\ q.file = "pending" /\ ~q.late
                          /\ p = IF q.at = "wait" THEN Ended(q, d) ELSE [q EXCEPT !.file = d]

\* A request stays well and closed, and what was decided stays so.
LEMMA OneRequest ==
  ASSUME NEW q \in RequestRecord, Well(q), NEW p, RequestStep(q, p)
  PROVE  /\ Well(p)
         /\ q.at # "no" => p.at # "no"
         /\ Closed(q) => Closed(p)
         /\ \A d \in Decisions : Decides(q, d) => Decides(p, d)
  BY DEF RequestStep, Well, Closed, Decides, RequestRecord, Ended, Decisions

\* Every step of the box takes every request so.
LEMMA RequestSteps ==
  ASSUME Typed, [Next]_vars, NEW r \in Requests
  PROVE  RequestStep(request[r], request'[r])
<1>1. request \in [Requests -> RequestRecord]
  BY DEF Typed, TypeOK
<1>2. CASE UNCHANGED request
  BY <1>2 DEF RequestStep
<1>3. RequestStep(request[r], Swept[r])
  BY DEF Swept, RequestStep
<1>4. CASE GuardCrash
  BY <1>4 DEF GuardCrash, RequestStep
<1>5. ASSUME NEW k \in Requests, Ask(k) PROVE RequestStep(request[r], request'[r])
  BY <1>1, <1>5 DEF Ask, RequestStep
<1>6. ASSUME NEW k \in Requests, Notified(k) PROVE RequestStep(request[r], request'[r])
  BY <1>1, <1>6 DEF Notified, RequestStep
<1>7. ASSUME NEW k \in Requests, NotNotified(k) PROVE RequestStep(request[r], request'[r])
  BY <1>1, <1>7 DEF NotNotified, RequestStep
<1>8. ASSUME NEW k \in Requests, Expires(k) PROVE RequestStep(request[r], request'[r])
  BY <1>1, <1>8 DEF Expires, RequestStep
<1>9. ASSUME NEW k \in Requests, TimesOut(k) PROVE RequestStep(request[r], request'[r])
  BY <1>1, <1>9 DEF TimesOut, RequestStep
<1>10. ASSUME NEW k \in Requests, NEW d \in Decisions, Open(k), Resolve(k, d)
       PROVE  RequestStep(request[r], request'[r])
  <2>1. CASE r = k
    <3>1. Swept[r] = request[r]
      BY <1>10, <2>1 DEF Swept, Open
    <3>2. request'[r] = IF request[r].at = "wait" THEN Ended(request[r], d)
                                                   ELSE [request[r] EXCEPT !.file = d]
      BY <1>10, <2>1, <3>1 DEF Resolve, Swept
    <3> QED
      BY <1>10, <2>1, <3>2 DEF RequestStep, Open
  <2>2. CASE r # k
    BY <1>3, <1>10, <2>2 DEF Resolve, Swept
  <2> QED
    BY <2>1, <2>2
<1>11. ASSUME NEW h \in Handlers, Intake(h) PROVE RequestStep(request[r], request'[r])
  <2>1. CASE text[hand[h].m].says \in Decisions /\ OpenRequests # {}
    <3>1. Newest(OpenRequests) \in Requests /\ Open(Newest(OpenRequests))
      BY <2>1, NewestIsOpen DEF OpenRequests
    <3> QED
      BY <1>10, <1>11, <2>1, <3>1 DEF Intake
  <2>2. CASE ~(text[hand[h].m].says \in Decisions /\ OpenRequests # {})
    BY <1>2, <1>3, <1>11, <2>2 DEF Intake
  <2> QED
    BY <2>1, <2>2
<1>12. CASE Crash
  BY <1>4, <1>12 DEF Crash
<1>13. ASSUME NEW k \in Requests, Asks(k) \/ Settles(k) PROVE RequestStep(request[r], request'[r])
  BY <1>5, <1>6, <1>7, <1>8, <1>9, <1>13 DEF Asks, Settles
<1>14. CASE ~(Crash \/ (\E h \in Handlers : Intake(h)) \/ \E k \in Requests : Asks(k) \/ Settles(k))
  BY <1>2, <1>14 DEF Next, OwnerTexts, Webhook, Handler, Reserve, Route, TurnStarts, TurnEnds, Say,
     SayError, Complete, Tick, TickLists, AddNotice, Mark, TickEnds, Ages, vars
<1> QED
  BY <1>11, <1>12, <1>13, <1>14

\* What a handler holds once it is past its decision changes only as it goes on or ends.
HandStep(h) ==
  \/ hand'[h] = hand[h] \/ hand'[h] = Idle
  \/ \E m \in Texts : Webhook(h, m)
  \/ Intake(h)
  \/ \E point \in {"intake", "queued", "turn", "say", "error", "complete"} :
       /\ hand'[h] = [hand[h] EXCEPT !.at = point]
       /\ point \in {"queued", "turn"} => hand[h].at \in {"route", "queued"}

LEMMA HandSteps ==
  ASSUME Typed, [Next]_vars, NEW h \in Handlers
  PROVE  HandStep(h)
<1>1. hand \in [Handlers -> HandRecord]
  BY DEF Typed, TypeOK
<1>2. ASSUME NEW k \in Handlers, Handler(k), ~Intake(k) PROVE HandStep(h)
  <2>1. CASE k = h
    <3>1. \A point : GoTo(h, point) => hand'[h] = [hand[h] EXCEPT !.at = point]
      BY <1>1 DEF GoTo
    <3>2. Return(h) => hand'[h] = Idle
      BY <1>1 DEF Return
    <3>3. \/ Return(h)
          \/ GoTo(h, "intake") \/ GoTo(h, "say") \/ GoTo(h, "error") \/ GoTo(h, "complete")
          \/ GoTo(h, "queued") /\ hand[h].at = "route"
          \/ GoTo(h, "turn") /\ hand[h].at = "queued"
      BY <1>2, <2>1 DEF Handler, Reserve, Route, TurnStarts, TurnEnds, Say, SayError, Complete, At
    <3> QED
      BY <3>1, <3>2, <3>3 DEF HandStep
  <2>2. CASE k # h
    <3>1. Proceeds(k)
      BY <1>1, <1>2, HandlerProceeds
    <3> QED
      BY <2>2, <3>1 DEF Proceeds, HandStep
  <2> QED
    BY <2>1, <2>2
<1>3. ASSUME NEW k \in Handlers, Intake(k) \/ \E m \in Texts : Webhook(k, m) PROVE HandStep(h)
  <2>1. k # h => hand'[h] = hand[h]
    BY <1>1, <1>3 DEF Intake, Webhook, GoTo
  <2> QED
    BY <1>3, <2>1 DEF HandStep
<1>4. CASE Crash
  BY <1>4 DEF Crash, HandStep
<1>5. CASE ~(Crash \/ \E k \in Handlers : Handler(k) \/ \E m \in Texts : Webhook(k, m))
  BY <1>5 DEF Next, OwnerTexts, Tick, TickLists, AddNotice, Mark, TickEnds, Ages, Asks,
     Settles, vars, HandStep
<1> QED
  BY <1>2, <1>3, <1>4, <1>5

\* The webhook hands a handler a text of which nothing is resolved.
LEMMA WebhookHands ==
  ASSUME hand \in [Handlers -> HandRecord], NEW h \in Handlers, NEW m \in Texts, Webhook(h, m)
  PROVE  hand'[h].at = "reserve" /\ hand'[h].re = None
<1>1. \A S : [Idle EXCEPT !.at = "reserve", !.m = m, !.saw = S].at = "reserve"
             /\ [Idle EXCEPT !.at = "reserve", !.m = m, !.saw = S].re = None
  BY DEF Idle
<1> QED
  BY <1>1 DEF Webhook

\* What the owner said is not rewritten.
LEMMA SaysStay ==
  ASSUME Typed, [Next]_vars, NEW m \in Texts, text[m].says # "none"
  PROVE  text'[m].says = text[m].says
<1>1. text \in [Texts -> TextRecord]
  BY DEF Typed, TypeOK
<1>2. ASSUME NEW k \in Texts, NEW says \in Says, OwnerTexts(k, says)
      PROVE  text'[m].says = text[m].says
  BY <1>1, <1>2 DEF OwnerTexts, TextRecord
<1>3. ASSUME NEW h \in Handlers, NEW k \in Texts, Webhook(h, k)
      PROVE  text'[m].says = text[m].says
  BY <1>1, <1>3 DEF Webhook, TextRecord
<1>4. ASSUME NEW h \in Handlers, Reserve(h)
      PROVE  text'[m].says = text[m].says
  BY <1>1, <1>4 DEF Reserve, TextRecord
<1>5. ASSUME NEW h \in Handlers, Handler(h), ~Reserve(h)
      PROVE  text'[m].says = text[m].says
  <2>1. \/ UNCHANGED text
        \/ text' = [text EXCEPT ![hand[h].m].settled = TRUE]
        \/ text' = [text EXCEPT ![hand[h].m].inbox = "processed"]
    BY <1>5 DEF Handler, Intake, Route, TurnStarts, TurnEnds, Say, SayError, Complete
  <2> QED
    BY <1>1, <2>1 DEF TextRecord
<1>6. CASE Tick \/ \E k \in Texts : Ages(k)
  <2>1. ASSUME NEW k \in Texts, AddNotice(k) PROVE text'[m].says = text[m].says
    BY <1>1, <2>1 DEF AddNotice, TextRecord
  <2>2. CASE Mark \/ \E k \in Texts : Ages(k)
    BY <1>1, <2>2 DEF Mark, Ages, TextRecord
  <2> QED
    BY <1>6, <2>1, <2>2 DEF Tick, TickLists, TickEnds
<1>7. CASE Crash
  BY <1>1, <1>7 DEF Crash, TextRecord
<1>8. CASE (\E r \in Requests : Asks(r) \/ Settles(r)) \/ UNCHANGED vars
  BY <1>8 DEF Asks, Settles, vars
<1> QED
  BY <1>2, <1>3, <1>4, <1>5, <1>6, <1>7, <1>8 DEF Next

------------------------------------------------------------------------------
(* The owner is told what the action gets.                                   *)

\* What a handler resolved, and what the owner was told, is what the request gets.
Answers ==
  /\ \A r \in Requests : Well(request[r])
  /\ \A h \in Handlers :
       hand[h].re # None => Decides(request[hand[h].re], text[hand[h].m].says)
  /\ \A r \in Requests : acked[r] # "none" => Decides(request[r], acked[r])

LEMMA AnswersStep ==
  ASSUME Typed, Answers, [Next]_vars
  PROVE  Answers'
<1>1. /\ request \in [Requests -> RequestRecord] /\ hand \in [Handlers -> HandRecord]
      /\ acked \in [Requests -> Decisions \cup {"none"}]
  BY DEF Typed, TypeOK
<1>2. ASSUME NEW r \in Requests
      PROVE  /\ Well(request'[r])
             /\ \A d \in Decisions : Decides(request[r], d) => Decides(request'[r], d)
  <2>1. request[r] \in RequestRecord /\ Well(request[r]) /\ RequestStep(request[r], request'[r])
    BY <1>1, RequestSteps DEF Answers
  <2> QED
    BY <2>1, OneRequest
<1>3. ASSUME NEW h \in Handlers, hand'[h].re # None
      PROVE  Decides(request'[hand'[h].re], text'[hand'[h].m].says)
  <2>1. CASE hand'[h].re = hand[h].re /\ hand'[h].m = hand[h].m
    <3>1. hand[h].re \in Requests
      BY <1>1, <1>3, <2>1 DEF HandRecord
    <3>2. hand[h].m \in Texts /\ text[hand[h].m].says \in Decisions
      BY <1>3, <2>1 DEF Typed, HandsHold
    <3>3. text'[hand[h].m].says = text[hand[h].m].says
      BY <3>2, SaysStay DEF Decisions
    <3> QED
      BY <1>2, <1>3, <2>1, <3>1, <3>2, <3>3 DEF Answers
  <2>2. CASE Intake(h) /\ hand'[h].re # hand[h].re
    <3> DEFINE n == Newest(OpenRequests)
               d == text[hand[h].m].says
    <3>1. d \in Decisions /\ OpenRequests # {}
      BY <1>1, <2>2 DEF Intake, GoTo, HandRecord
    <3>2. Resolve(n, d) /\ hand'[h].re = n /\ hand'[h].m = hand[h].m /\ UNCHANGED text
      BY <1>1, <2>2, <3>1 DEF Intake, HandRecord
    <3>3. n \in Requests /\ Open(n)
      BY <3>1, NewestIsOpen DEF OpenRequests
    <3>4. Swept[n] = request[n]
      BY <3>3 DEF Swept, Open
    <3>5. request'[n] = IF request[n].at = "wait" THEN Ended(request[n], d)
                                                  ELSE [request[n] EXCEPT !.file = d]
      BY <3>2, <3>3, <3>4 DEF Resolve, Swept
    <3>6. Well(request[n]) /\ request[n] \in RequestRecord /\ request[n].file = "pending"
      BY <1>1, <3>3 DEF Answers, Open
    <3>7. Decides(request'[n], d)
      BY <3>1, <3>5, <3>6 DEF Well, Decides, Ended, RequestRecord, Decisions
    <3> QED
      BY <3>2, <3>7
  <2>3. \/ hand'[h].re = hand[h].re /\ hand'[h].m = hand[h].m
        \/ Intake(h) /\ hand'[h].re # hand[h].re
    <3>1. Intake(h) => hand'[h].m = hand[h].m
      BY <1>1 DEF Intake, GoTo, HandRecord
    <3>2. ~\E m \in Texts : Webhook(h, m)
      BY <1>1, <1>3, WebhookHands
    <3>3. hand'[h] # Idle
      BY <1>3 DEF Idle
    <3>4. ASSUME NEW point, hand'[h] = [hand[h] EXCEPT !.at = point]
          PROVE  hand'[h].re = hand[h].re /\ hand'[h].m = hand[h].m
      <4>1. hand[h] \in HandRecord
        BY <1>1
      <4> QED
        BY <3>4, <4>1 DEF HandRecord
    <3> QED
      BY <3>1, <3>2, <3>3, <3>4, HandSteps DEF HandStep
  <2> QED
    BY <2>1, <2>2, <2>3
<1>4. ASSUME NEW r \in Requests, acked'[r] # "none" PROVE Decides(request'[r], acked'[r])
  <2>1. CASE acked'[r] = acked[r]
    BY <1>1, <1>2, <1>4, <2>1 DEF Answers
  <2>2. CASE acked'[r] # acked[r]
    <3>1. PICK h \in Handlers : Say(h)
      BY <2>2 DEF Next, OwnerTexts, Handler, Webhook, Reserve, Intake, Route, TurnStarts, TurnEnds,
         SayError, Complete, Tick, TickLists, AddNotice, Mark, TickEnds, Crash, Ages, Asks,
         Settles, vars
    <3>2. UNCHANGED request /\ hand[h].re = r /\ r # None /\ acked'[r] = text[hand[h].m].says
      BY <1>1, <2>2, <3>1 DEF Say
    <3> QED
      BY <3>2 DEF Answers
  <2> QED
    BY <2>1, <2>2
<1> QED
  BY <1>2, <1>3, <1>4 DEF Answers

\* "Approved" or "Denied" is what the action got, of every instance, however the answer,
\* the text of the request, its deadline and restarts interleave: AckIsTheDecision.
THEOREM AckHolds == Spec => []AckIsTheDecision
<1>1. Init => Typed /\ Answers
  <2>1. ASSUME Init PROVE Answers
    BY <2>1 DEF Init, GuardInit, NoRequest, Idle, Answers, Well
  <2> QED
    BY <2>1, InitTyped
<1>2. Typed /\ Answers /\ [Next]_vars => Typed' /\ Answers'
  BY StepTyped, AnswersStep
<1>3. Answers => AckIsTheDecision
  BY DEF Answers, AckIsTheDecision, Decides, Decisions
<1> QED
  BY <1>1, <1>2, <1>3, PTL DEF Spec

------------------------------------------------------------------------------
(* Answers do not wait behind a turn.                                        *)

\* What an answer could have meant was asked, and is closed once the answer goes on to
\* the rest of the handler.
Passed ==
  /\ \A r \in Requests : Well(request[r])
  /\ \A h \in Handlers : \A r \in hand[h].saw : request[r].at # "no"
  /\ \A h \in Handlers :
       hand[h].at \in {"route", "queued", "turn"} /\ text[hand[h].m].says \in Decisions
         => \A r \in hand[h].saw : Closed(request[r])

LEMMA PassedStep ==
  ASSUME Typed, Passed, [Next]_vars
  PROVE  Passed'
<1>1. request \in [Requests -> RequestRecord] /\ hand \in [Handlers -> HandRecord]
  BY DEF Typed, TypeOK
<1>2. ASSUME NEW r \in Requests
      PROVE  /\ Well(request'[r])
             /\ request[r].at # "no" => request'[r].at # "no"
             /\ Closed(request[r]) => Closed(request'[r])
  <2>1. request[r] \in RequestRecord /\ Well(request[r]) /\ RequestStep(request[r], request'[r])
    BY <1>1, RequestSteps DEF Passed
  <2> QED
    BY <2>1, OneRequest
<1>3. ASSUME NEW h \in Handlers, NEW r \in hand'[h].saw
      PROVE  r \in Requests /\ request'[r].at # "no"
  <2>1. CASE r \in hand[h].saw
    BY <1>1, <1>2, <2>1 DEF Passed, HandRecord
  <2>2. CASE r \notin hand[h].saw
    <3>1. hand'[h] # Idle /\ hand'[h] # hand[h]
      BY <1>3, <2>2 DEF Idle
    <3>2. ~Intake(h)
      BY <1>1, <1>3, <2>2 DEF Intake, GoTo, HandRecord
    <3>3. PICK m \in Texts : Webhook(h, m)
      BY <1>1, <1>3, <2>2, <3>1, <3>2, HandSteps DEF HandStep, HandRecord
    <3>4. r \in Requests /\ request[r].at = "wait"
      BY <1>1, <1>3, <3>3 DEF Webhook, Idle
    <3> QED
      BY <1>2, <3>4
  <2> QED
    BY <2>1, <2>2
<1>4. ASSUME NEW h \in Handlers, hand'[h].at \in {"route", "queued", "turn"},
             text'[hand'[h].m].says \in Decisions, NEW r \in hand'[h].saw
      PROVE  Closed(request'[r])
  <2>1. r \in Requests
    BY <1>3, <1>4
  <2>2. CASE Intake(h)
    <3>1. /\ hand'[h].m = hand[h].m /\ hand'[h].saw = hand[h].saw /\ UNCHANGED text
          /\ ~(text[hand[h].m].says \in Decisions /\ OpenRequests # {})
      BY <1>1, <1>4, <2>2 DEF Intake, GoTo, HandRecord
    <3>2. OpenRequests = {}
      BY <1>4, <3>1
    <3>3. Closed(request[r])
      BY <1>4, <2>1, <3>1, <3>2 DEF Passed, Closed, OpenRequests, Open
    <3> QED
      BY <1>2, <2>1, <3>3
  <2>3. CASE ~Intake(h)
    <3>1. /\ hand'[h].m = hand[h].m /\ hand'[h].saw = hand[h].saw
          /\ hand[h].at \in {"route", "queued", "turn"}
      <4>1. hand'[h] # Idle /\ ~\E m \in Texts : Webhook(h, m)
        BY <1>1, <1>4, WebhookHands DEF Idle
      <4>2. hand[h] \in HandRecord
        BY <1>1
      <4>3. HandStep(h)
        BY HandSteps
      <4> QED
        BY <1>4, <2>3, <4>1, <4>2, <4>3 DEF HandStep, HandRecord
    <3>2. hand[h].m \in Texts /\ text[hand[h].m].says # "none"
      BY <3>1, SmsAssumption DEF Typed, HandsHold, Decisions
    <3>3. text'[hand[h].m].says = text[hand[h].m].says
      BY <3>2, SaysStay
    <3> QED
      BY <1>2, <1>4, <2>1, <3>1, <3>3 DEF Passed
  <2> QED
    BY <2>2, <2>3
<1> QED
  BY <1>2, <1>3, <1>4 DEF Passed

\* No answer waits behind a turn for a request that was texted before it came, of every
\* instance: AnswersPassTheTurn.
THEOREM AnswersPass == Spec => []AnswersPassTheTurn
<1>1. Init => Typed /\ Passed
  <2>1. ASSUME Init PROVE Passed
    BY <2>1 DEF Init, GuardInit, NoRequest, Idle, Passed, Well
  <2> QED
    BY <2>1, InitTyped
<1>2. Typed /\ Passed /\ [Next]_vars => Typed' /\ Passed'
  BY StepTyped, PassedStep
<1>3. Passed => AnswersPassTheTurn
  BY DEF Passed, AnswersPassTheTurn, Chatting, Closed, Open
<1> QED
  BY <1>1, <1>2, <1>3, PTL DEF Spec

===============================================================================
