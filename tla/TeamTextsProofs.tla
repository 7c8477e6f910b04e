---------------------------- MODULE TeamTextsProofs ----------------------------
(***************************************************************************)
(* Theorems about the texts of a team to its owner, for every set of calls *)
(* and texts and every bound.                                              *)
(***************************************************************************)
EXTENDS TeamTexts, FiniteSetTheorems, WellFoundedInduction, TLAPS

\* A set of numbers that is not empty has a smallest one.
LEMMA SmallestOf ==
  ASSUME NEW S \in SUBSET Nat, S # {}
  PROVE  \E x \in S : \A y \in S : x <= y
<1> DEFINE R == OpToRel(<, Nat)
<1>1. IsWellFoundedOn(R, Nat)
  BY NatLessThanWellFounded
<1>2. \A x, y \in Nat : y < x => <<y, x>> \in R
  <2> SUFFICES ASSUME NEW x \in Nat, NEW y \in Nat, y < x
               PROVE  <<y, x>> \in {ss \in Nat \X Nat : ss[1] < ss[2]}
    BY DEF OpToRel
  <2> QED
    OBVIOUS
<1> HIDE DEF R
<1>3. PICK x \in S : \A y \in S : ~ (<<y, x>> \in R)
  BY <1>1, WFMin
<1>4. ASSUME NEW y \in S PROVE x <= y
  <2>1. x \in Nat /\ y \in Nat /\ ~ (<<y, x>> \in R)
    BY <1>3
  <2>2. ~ (y < x)
    BY <1>2, <2>1
  <2> QED
    BY <2>1, <2>2
<1> QED
  BY <1>4

\* A set of indices has a k-th one, for every k up to its size.
LEMMA NthOf ==
  ASSUME NEW n \in Nat, NEW K \in SUBSET (1..n), NEW k \in 1..Cardinality(K)
  PROVE  \E i \in K : Cardinality({j \in K : j <= i}) = k
<1> DEFINE Upto(i) == {j \in K : j <= i}
           Size(i) == Cardinality(Upto(i))
<1>1. \A i \in 0..n : IsFiniteSet(Upto(i)) /\ Size(i) \in Nat
  <2>1. IsFiniteSet(1..n)
    BY FS_Interval
  <2>2. \A i \in 0..n : Upto(i) \subseteq 1..n
    OBVIOUS
  <2> QED
    BY <2>1, <2>2, FS_Subset, FS_CardinalityType
<1>2. Size(0) = 0
  <2>1. \A j \in K : j \in 1..n /\ ~ (j <= 0)
    OBVIOUS
  <2>2. Upto(0) = {}
    BY <2>1
  <2> QED
    BY <2>2, FS_EmptySet
<1>3. Size(n) = Cardinality(K)
  <2>1. \A j \in K : j \in 1..n /\ j <= n
    OBVIOUS
  <2>2. Upto(n) = K
    BY <2>1
  <2> QED
    BY <2>2
<1>4. k \in Nat /\ 1 <= k /\ k <= Cardinality(K)
  <2>1. Cardinality(K) \in Nat
    BY <1>1, <1>3
  <2> QED
    BY <2>1
<1>5. ASSUME NEW i \in 1..n
      PROVE  Upto(i) = IF i \in K THEN Upto(i - 1) \cup {i} ELSE Upto(i - 1)
  <2>1. \A j \in 1..n : j <= i <=> (j <= i - 1 \/ j = i)
    OBVIOUS
  <2> QED
    BY <2>1
<1>6. \A i \in 1..n : i \notin Upto(i - 1)
  OBVIOUS
<1> HIDE DEF Upto
<1>7. \A i \in 1..n : Size(i) = IF i \in K THEN Size(i - 1) + 1 ELSE Size(i - 1)
  <2> SUFFICES ASSUME NEW i \in 1..n
               PROVE  Size(i) = IF i \in K THEN Size(i - 1) + 1 ELSE Size(i - 1)
    OBVIOUS
  <2>1. i - 1 \in 0..n
    OBVIOUS
  <2>2. CASE i \in K
    BY <1>1, <1>5, <1>6, <2>1, <2>2, FS_AddElement
  <2>3. CASE i \notin K
    BY <1>5, <2>3
  <2> QED
    BY <2>2, <2>3
<1>8. \E i \in K : Size(i) = k
  <2> HIDE DEF Size
  <2> DEFINE Enough == {i \in 0..n : k <= Size(i)}
  <2>1. n \in Enough /\ Enough \subseteq Nat
    BY <1>3, <1>4
  <2>2. PICK i \in Enough : \A y \in Enough : i <= y
    <3> HIDE DEF Enough
    <3> QED
      BY <2>1, SmallestOf
  <2>3. i \in 0..n /\ i # 0 /\ k <= Size(i)
    BY <1>2, <1>4, <2>2
  <2>4. i \in 1..n /\ i - 1 \in 0..n /\ i - 1 \notin Enough
    BY <2>2, <2>3
  <2>5. Size(i - 1) < k /\ Size(i - 1) \in Nat
    BY <1>1, <1>4, <2>4
  <2>6. i \in K /\ Size(i) = k
    BY <1>4, <1>7, <2>3, <2>4, <2>5
  <2> QED
    BY <2>6
<1> QED
  BY <1>8 DEF Upto

\* What is left of the waiting texts are waiting texts of other tasks.
LEMMA OthersAre ==
  ASSUME pending \in Seq(Waiting), NEW t
  PROVE  /\ Others(t) \in Seq(Waiting)
         /\ \A k \in DOMAIN Others(t) : \E i \in DOMAIN pending :
              Others(t)[k] = pending[i] /\ pending[i].task # t
<1> DEFINE kept == {i \in DOMAIN pending : pending[i].task # t}
           at(k) == CHOOSE i \in kept : Cardinality({j \in kept : j <= i}) = k
           n == Cardinality(kept)
<1>1. kept \subseteq 1..Len(pending) /\ Len(pending) \in Nat
  OBVIOUS
<1>2. n \in Nat
  <2>1. IsFiniteSet(1..Len(pending))
    BY <1>1, FS_Interval
  <2> HIDE DEF kept
  <2> QED
    BY <1>1, <2>1, FS_Subset, FS_CardinalityType
<1>3. Others(t) = [k \in 1..n |-> pending[at(k)]]
  BY DEF Others
<1>4. \A i \in kept : pending[i] \in Waiting /\ pending[i].task # t /\ i \in DOMAIN pending
  OBVIOUS
<1> HIDE DEF kept
<1>5. \A k \in 1..n : at(k) \in kept
  BY <1>1, NthOf
<1> HIDE DEF at, n
<1>6. \A k \in 1..n : pending[at(k)] \in Waiting
  BY <1>4, <1>5
<1>7. Others(t) \in Seq(Waiting) /\ DOMAIN Others(t) = 1..n
  BY <1>2, <1>3, <1>6
<1> QED
  BY <1>3, <1>4, <1>5, <1>7

------------------------------------------------------------------------------
(* Invariants.                                                               *)

\* The restarts and the calls that failed so far.
Spent == troubles.failed + troubles.restarts

InCall(c, x) == call[c].at = "decided" /\ call[c].text = x

AtWake(x) == wake.at \in {"showing", "sending", "sent", "answered"} /\ wake.next.text = x

\* The limits: what a call read of the day, and what the wake check read, still holds
\* well enough when it is written.
LimitsInv ==
  /\ \A c \in Callers :
       /\ call[c].at = "decided" /\ call[c].count >= MaxTexts => call[c].task # NoTask
       /\ call[c].at = "decided" /\ call[c].ask => call[c].task # NoTask
       /\ call[c].at = "sent" => call[c].count < MaxTexts
  /\ wake.at \in {"showing", "sending", "sent"} => OfToday(told) <= MaxTexts
  /\ wake.at \in {"running", "began"} => OfToday(woke) < MaxEarly /\ wake.upTo <= news

\* A text is in one place: nobody wrote it yet, one call has it, or it waits for one task;
\* and until the wake check has sent it, the owner got it in no other way than by a call
\* that failed or was cut off.
PlacesInv ==
  /\ \A x \in unused \cap Texts :
       heard[x] = 0 /\ ~Waits(x) /\ ~AtWake(x) /\ \A c \in Callers : ~InCall(c, x)
  /\ \A c \in Callers : \A x \in Texts : InCall(c, x) =>
       heard[x] = 0 /\ ~Waits(x) /\ ~AtWake(x) /\ \A d \in Callers \ {c} : ~InCall(d, x)
  /\ \A i, j \in DOMAIN pending : pending[i].text = pending[j].text => pending[i].task = pending[j].task
  /\ \A i \in DOMAIN pending : AtWake(pending[i].text) => pending[i].task = wake.next.task
  /\ \A i \in DOMAIN pending : heard[pending[i].text] <= Spent
                                 \/ (wake.at = "sent" /\ AtWake(pending[i].text))
  /\ wake.at \in {"showing", "sending"} => heard[wake.next.text] <= Spent
  /\ \A x \in Texts : heard[x] <= 1 + Spent

EarlyInv ==
  today.standups <= OfToday(woke) + Spent + IF wake.at = "began" THEN 1 ELSE 0
TextsOK == TypeOK /\ LimitsInv

------------------------------------------------------------------------------
(* Types and limits.                                                         *)

LEMMA CallForms ==
  ASSUME TypeOK, NEW c \in Callers
  PROVE  /\ call[c].at \in {"decided", "sent"} =>
              /\ call[c].text \in Texts /\ call[c].task \in Tasks \cup {NoTask}
              /\ call[c].ask \in BOOLEAN /\ call[c].day \in Days /\ call[c].count \in Nat
              /\ call[c] = [at |-> call[c].at, text |-> call[c].text, task |-> call[c].task,
                            ask |-> call[c].ask, day |-> call[c].day, count |-> call[c].count]
         /\ call[c].at \in {"idle", "decided", "sent"} /\ (call[c].at = "idle" <=> call[c] = Idle)
<1>1. call[c] \in CallRecord /\ Idle.at = "idle"
  BY DEF TypeOK, Idle
<1>2. CASE call[c] = Idle
  BY <1>1, <1>2
<1>3. CASE call[c] \in [at : {"decided", "sent"}, text : Texts, task : Tasks \cup {NoTask},
                        ask : BOOLEAN, day : Days, count : Nat]
  BY <1>1, <1>3
<1> QED
  BY <1>1, <1>2, <1>3 DEF CallRecord

LEMMA WakeForms ==
  ASSUME TypeOK
  PROVE  /\ wake.at \in {"showing", "sending", "sent", "answered"} =>
              /\ wake.next \in Waiting /\ wake.next.text \in Texts /\ wake.next.task \in Tasks
              /\ wake = [at |-> wake.at, next |-> wake.next]
         /\ wake.at \in {"running", "began"} =>
              wake.upTo \in 1..MaxNews /\ wake = [at |-> wake.at, upTo |-> wake.upTo]
         /\ wake.at = "idle" <=> wake = Idle
<1>1. wake \in WakeRecord /\ Idle.at = "idle"
  BY DEF TypeOK, Idle
<1>2. CASE wake = Idle \/ wake \in [at : {"texts", "team"}]
  BY <1>1, <1>2
<1>3. CASE wake \in [at : {"showing", "sending", "sent", "answered"}, next : Waiting]
  BY <1>1, <1>3 DEF Waiting
<1>4. CASE wake \in [at : {"running", "began"}, upTo : 1..MaxNews]
  BY <1>1, <1>4
<1> QED
  BY <1>1, <1>2, <1>3, <1>4 DEF WakeRecord

\* The records the wake check goes through.
LEMMA WakePoints ==
  /\ Idle \in WakeRecord /\ [at |-> "texts"] \in WakeRecord /\ [at |-> "team"] \in WakeRecord
  /\ Idle.at = "idle"
  /\ \A at \in {"showing", "sending", "sent", "answered"}, next \in Waiting :
       [at |-> at, next |-> next] \in WakeRecord
  /\ \A at \in {"running", "began"}, upTo \in 1..MaxNews : [at |-> at, upTo |-> upTo] \in WakeRecord
  BY DEF WakeRecord, Idle

LEMMA TroublesTyped ==
  ASSUME TypeOK, NEW what \in {"failed", "restarts"}, Trouble(what)
  PROVE  /\ troubles' \in [failed : 0..MaxTroubles, restarts : 0..MaxTroubles]
         /\ Spent \in Nat /\ Spent' = Spent + 1
         /\ what = "restarts" => troubles'.restarts = troubles.restarts + 1
         /\ what = "failed" => troubles'.restarts = troubles.restarts
<1>1. /\ MaxTroubles \in Nat /\ troubles.failed \in 0..MaxTroubles /\ troubles.restarts \in 0..MaxTroubles
      /\ troubles \in [failed : 0..MaxTroubles, restarts : 0..MaxTroubles]
      /\ troubles.failed + troubles.restarts < MaxTroubles
  BY TextsAssumption DEF TypeOK, Trouble
<1>2. troubles.failed + 1 \in 0..MaxTroubles /\ troubles.restarts + 1 \in 0..MaxTroubles
  BY <1>1
<1>3. CASE what = "failed"
  <2>1. troubles' = [troubles EXCEPT !.failed = troubles.failed + 1]
    BY <1>3 DEF Trouble
  <2> QED
    BY <1>1, <1>2, <1>3, <2>1 DEF Spent
<1>4. CASE what = "restarts"
  <2>1. troubles' = [troubles EXCEPT !.restarts = troubles.restarts + 1]
    BY <1>4 DEF Trouble
  <2> QED
    BY <1>1, <1>2, <1>4, <2>1 DEF Spent
<1> QED
  BY <1>3, <1>4

\* What a call does with its task.
LEMMA AskedTyped ==
  ASSUME TextsOK, NEW c \in Callers, call[c].at = "decided", Asked(c)
  PROVE  waits' \subseteq Tasks /\ unused' \subseteq unused
  BY CallForms DEF Asked, TextsOK, TypeOK, LimitsInv

\* What the owner gets.
LEMMA DeliverEffect ==
  ASSUME TypeOK, NEW x \in Texts, Deliver(x)
  PROVE  /\ heard' \in [Texts -> Nat] /\ today' \in [texts : Nat, standups : Nat]
         /\ heard'[x] = heard[x] + 1 /\ \A y \in Texts \ {x} : heard'[y] = heard[y]
         /\ today'.standups = today.standups
<1>1. heard \in [Texts -> Nat] /\ today \in [texts : Nat, standups : Nat]
  BY DEF TypeOK
<1>2. today' = [today EXCEPT !.texts = today.texts + 1] /\ heard' = [heard EXCEPT ![x] = heard[x] + 1]
  BY DEF Deliver
<1> QED
  BY <1>1, <1>2

\* A call that ends, or a restart, leaves no call with something to write.
LEMMA CallEnds ==
  ASSUME TextsOK, NEW c \in Callers, call' = [call EXCEPT ![c] = Idle]
  PROVE  /\ call' \in [Callers -> CallRecord]
         /\ \A d \in Callers : d # c => call'[d] = call[d]
         /\ call'[c].at = "idle"
         /\ \A d \in Callers :
              /\ call'[d].at = "decided" /\ call'[d].count >= MaxTexts => call'[d].task # NoTask
              /\ call'[d].at = "decided" /\ call'[d].ask => call'[d].task # NoTask
              /\ call'[d].at = "sent" => call'[d].count < MaxTexts
<1>1. call \in [Callers -> CallRecord] /\ Idle \in CallRecord /\ Idle.at = "idle"
  BY DEF TextsOK, TypeOK, CallRecord, Idle
<1>2. /\ call' \in [Callers -> CallRecord] /\ \A d \in Callers : d # c => call'[d] = call[d]
      /\ call'[c] = Idle
  BY <1>1
<1> QED
  BY <1>1, <1>2 DEF TextsOK, LimitsInv

LEMMA TextsInit ==
  ASSUME Init PROVE TextsOK /\ PlacesInv /\ EarlyInv
<1>1. /\ MaxTexts \in Nat \ {0} /\ MaxEarly \in Nat \ {0} /\ MaxNews \in Nat /\ MaxTroubles \in Nat
  BY TextsAssumption
<1>2. Idle \in CallRecord /\ Idle \in WakeRecord /\ Idle.at = "idle"
  BY DEF CallRecord, WakeRecord, Idle
<1>3. <<>> \in Seq(Waiting) /\ DOMAIN <<>> = {}
  OBVIOUS
<1>4. TypeOK
  BY <1>1, <1>2, <1>3 DEF Init, TypeOK, Days
<1>5. LimitsInv
  BY <1>1, <1>2 DEF Init, LimitsInv
<1>6. PlacesInv
  BY <1>1, <1>2, <1>3 DEF Init, PlacesInv, Waits, InCall, AtWake, Spent
<1>7. EarlyInv
  BY <1>1, <1>2 DEF Init, EarlyInv, OfToday, Spent
<1> QED
  BY <1>4, <1>5, <1>6, <1>7 DEF TextsOK

LEMMA CallsOK ==
  ASSUME TextsOK,
         NEW c \in Callers,
         \/ \E x \in Texts, t \in Tasks \cup {NoTask}, ask \in BOOLEAN : Tell(c, x, t, ask)
         \/ CallSteps(c) \/ TellFails(c)
  PROVE  TextsOK'
<1>0. /\ MaxTexts \in Nat \ {0} /\ MaxEarly \in Nat \ {0} /\ MaxNews \in Nat /\ MaxTroubles \in Nat
      /\ NoTask \notin Tasks \cup Texts /\ Texts \cap Tasks = {}
  BY TextsAssumption
<1>1. call \in [Callers -> CallRecord] /\ told \in [day : Days, count : 0..(MaxTexts + 1)]
  BY DEF TextsOK, TypeOK
<1>2. ASSUME NEW x \in Texts, NEW t \in Tasks \cup {NoTask}, NEW ask \in BOOLEAN, Tell(c, x, t, ask)
      PROVE  TextsOK'
  <2> DEFINE r == [at |-> "decided", text |-> x, task |-> t, ask |-> ask, day |-> "today",
                   count |-> OfToday(told)]
  <2>1. OfToday(told) \in Nat
    BY <1>1 DEF OfToday
  <2>2. r \in CallRecord /\ r.at = "decided" /\ r.task = t /\ r.count = OfToday(told) /\ r.ask = ask
    BY <2>1 DEF CallRecord, Days
  <2>3. ask => t # NoTask
    BY <1>0, <1>2 DEF Tell, TextsOK, TypeOK
  <2>4. OfToday(told) >= MaxTexts => t # NoTask
    BY <1>2 DEF Tell
  <2>5. /\ call' = [call EXCEPT ![c] = r] /\ unused' \subseteq unused
        /\ UNCHANGED <<told, pending, waits, heard, wake, early, today, troubles>>
    BY <1>2 DEF Tell
  <2> HIDE DEF r
  <2> QED
    BY <1>1, <2>2, <2>3, <2>4, <2>5 DEF TextsOK, TypeOK, LimitsInv, early
<1>3. CASE Queue(c)
  <2> DEFINE p == [text |-> call[c].text, task |-> call[c].task]
  <2>1. /\ call[c].at = "decided" /\ call[c].count >= MaxTexts /\ Asked(c)
        /\ pending' = Append(Others(call[c].task), p) /\ call' = [call EXCEPT ![c] = Idle]
        /\ UNCHANGED <<told, heard, wake, early, today, troubles>>
    BY <1>3 DEF Queue
  <2>2. p \in Waiting
    BY <2>1, CallForms DEF TextsOK, LimitsInv, Waiting
  <2>3. Others(call[c].task) \in Seq(Waiting)
    BY OthersAre DEF TextsOK, TypeOK
  <2>4. pending' \in Seq(Waiting)
    BY <2>1, <2>2, <2>3
  <2>5. waits' \subseteq Tasks /\ unused' \subseteq unused
    BY <2>1, AskedTyped
  <2> QED
    BY <2>1, <2>4, <2>5, CallEnds DEF TextsOK, TypeOK, LimitsInv, early
<1>4. CASE SendText(c)
  <2> DEFINE r == [call[c] EXCEPT !.at = "sent"]
  <2>1. /\ call[c].at = "decided" /\ call[c].count < MaxTexts /\ Asked(c) /\ Deliver(call[c].text)
        /\ call' = [call EXCEPT ![c] = r] /\ UNCHANGED <<told, pending, wake, early, troubles>>
    BY <1>4 DEF SendText
  <2>2. r \in CallRecord /\ r.at = "sent" /\ r.count = call[c].count
    <3>1. call[c] \in [at : {"decided", "sent"}, text : Texts, task : Tasks \cup {NoTask},
                       ask : BOOLEAN, day : Days, count : Nat]
      BY <1>1, <2>1 DEF CallRecord, Idle
    <3> QED
      BY <3>1 DEF CallRecord
  <2>3. waits' \subseteq Tasks /\ unused' \subseteq unused
    BY <2>1, AskedTyped
  <2>4. heard' \in [Texts -> Nat] /\ today' \in [texts : Nat, standups : Nat]
    BY <2>1, CallForms, DeliverEffect DEF TextsOK
  <2> HIDE DEF r
  <2> QED
    BY <1>1, <2>1, <2>2, <2>3, <2>4 DEF TextsOK, TypeOK, LimitsInv, early
<1>5. CASE TellFails(c)
  <2>1. /\ call[c].at = "decided" /\ Trouble("failed") /\ call' = [call EXCEPT ![c] = Idle]
        /\ UNCHANGED <<told, pending, wake, early>>
        /\ Asked(c) \/ UNCHANGED <<waits, unused>>
        /\ Deliver(call[c].text) \/ UNCHANGED <<heard, today>>
    BY <1>5 DEF TellFails
  <2>2. waits' \subseteq Tasks /\ unused' \subseteq Texts \cup Tasks
    BY <2>1, AskedTyped DEF TextsOK, TypeOK
  <2>3. heard' \in [Texts -> Nat] /\ today' \in [texts : Nat, standups : Nat]
    BY <2>1, CallForms, DeliverEffect, SMTT(30) DEF TextsOK, TypeOK
  <2>4. troubles' \in [failed : 0..MaxTroubles, restarts : 0..MaxTroubles]
    BY <2>1, TroublesTyped DEF TextsOK
  <2> QED
    BY <2>1, <2>2, <2>3, <2>4, CallEnds DEF TextsOK, TypeOK, LimitsInv, early
<1>6. CASE CountText(c)
  <2>1. /\ call[c].at = "sent" /\ call' = [call EXCEPT ![c] = Idle]
        /\ told' = [day |-> call[c].day, count |-> call[c].count + 1]
        /\ UNCHANGED <<pending, unused, waits, heard, wake, early, today, troubles>>
    BY <1>6 DEF CountText
  <2>2. call[c].count \in Nat /\ call[c].count < MaxTexts /\ call[c].day \in Days
    BY <2>1, CallForms DEF TextsOK, LimitsInv
  <2>3. told' \in [day : Days, count : 0..(MaxTexts + 1)] /\ OfToday(told') <= MaxTexts
    BY <1>0, <2>1, <2>2 DEF OfToday
  <2> QED
    BY <2>1, <2>3, CallEnds DEF TextsOK, TypeOK, LimitsInv, early, OfToday
<1> QED
  BY <1>2, <1>3, <1>4, <1>5, <1>6 DEF CallSteps

LEMMA WakeOK ==
  ASSUME TextsOK, WakeStarts \/ WakeSteps \/ ShowFails \/ WakeSendFails \/ RunFails
  PROVE  TextsOK'
<1>0. /\ MaxTexts \in Nat \ {0} /\ MaxEarly \in Nat \ {0} /\ MaxNews \in Nat /\ MaxTroubles \in Nat
      /\ told \in [day : Days, count : 0..(MaxTexts + 1)] /\ pending \in Seq(Waiting)
      /\ woke \in [day : Days, count : 0..MaxEarly, seq : 0..news] /\ news \in 0..MaxNews
      /\ today \in [texts : Nat, standups : Nat]
  BY TextsAssumption DEF TextsOK, TypeOK
<1>1. ASSUME wake' \in WakeRecord, wake'.at \notin {"showing", "sending", "sent", "running", "began"},
             UNCHANGED <<told, pending, unused, call, waits, early>>,
             heard' \in [Texts -> Nat], today' \in [texts : Nat, standups : Nat],
             troubles' \in [failed : 0..MaxTroubles, restarts : 0..MaxTroubles]
      PROVE  TextsOK'
  BY <1>1 DEF TextsOK, TypeOK, LimitsInv, early
<1>2. CASE WakeStarts \/ WakeRests
  BY <1>1, <1>2, WakePoints DEF WakeStarts, WakeRests, texts, TextsOK, TypeOK
<1>3. CASE Pick
  <2>1. CASE pending = <<>> \/ OfToday(told) >= MaxTexts
    BY <1>1, <1>3, <2>1, WakePoints DEF Pick, texts, TextsOK, TypeOK
  <2>2. CASE ~ (pending = <<>> \/ OfToday(told) >= MaxTexts)
    <3>1. Head(pending) \in Waiting
      BY <1>0, <2>2
    <3>2. wake' = [at |-> "showing", next |-> Head(pending)] /\ UNCHANGED <<texts, early, today, troubles>>
      BY <1>3, <2>2 DEF Pick
    <3>3. wake' \in WakeRecord /\ wake'.at = "showing"
      BY <3>1, <3>2, WakePoints
    <3> QED
      BY <1>0, <2>2, <3>2, <3>3 DEF TextsOK, TypeOK, LimitsInv, texts, early, OfToday
  <2> QED
    BY <2>1, <2>2
<1>4. CASE Show
  <2>1. /\ wake.at = "showing" /\ wake.next \in Waiting /\ wake = [at |-> wake.at, next |-> wake.next]
        /\ UNCHANGED <<texts, early, today, troubles>>
    BY <1>4, WakeForms DEF Show, TextsOK
  <2>2. wake' = [wake EXCEPT !.at = "sending"] \/ wake' = [wake EXCEPT !.at = "answered"]
    BY <1>4 DEF Show
  <2>3. wake' = [at |-> "sending", next |-> wake.next] \/ wake' = [at |-> "answered", next |-> wake.next]
    BY <2>1, <2>2
  <2>4. wake' \in WakeRecord /\ wake'.at \in {"sending", "answered"}
    BY <2>1, <2>3, WakePoints
  <2> QED
    BY <2>1, <2>4 DEF TextsOK, TypeOK, LimitsInv, texts, early, OfToday
<1>5. CASE ShowFails
  <2>1. /\ wake.at = "showing" /\ wake.next \in Waiting /\ wake = [at |-> wake.at, next |-> wake.next]
        /\ UNCHANGED <<texts, early, today>> /\ Trouble("failed")
    BY <1>5, WakeForms DEF ShowFails, TextsOK
  <2>2. wake' = [wake EXCEPT !.at = "answered"] \/ wake' = [at |-> "team"]
    BY <1>5 DEF ShowFails
  <2>3. wake' = [at |-> "answered", next |-> wake.next] \/ wake' = [at |-> "team"]
    BY <2>1, <2>2
  <2>4. wake' \in WakeRecord /\ wake'.at \in {"answered", "team"}
    BY <2>1, <2>3, WakePoints
  <2> QED
    BY <1>1, <2>1, <2>4, TroublesTyped DEF TextsOK, TypeOK, texts
<1>6. CASE WakeSends
  <2>1. /\ wake.at = "sending" /\ wake.next \in Waiting /\ wake = [at |-> wake.at, next |-> wake.next]
        /\ wake.next.text \in Texts /\ Deliver(wake.next.text)
        /\ UNCHANGED <<told, pending, unused, call, waits, early, troubles>>
    BY <1>6, WakeForms DEF WakeSends, TextsOK
  <2>2. wake' = [at |-> "sent", next |-> wake.next]
    BY <1>6, <2>1 DEF WakeSends
  <2>3. wake' \in WakeRecord /\ wake'.at = "sent"
    BY <2>1, <2>2, WakePoints
  <2>4. heard' \in [Texts -> Nat] /\ today' \in [texts : Nat, standups : Nat]
    BY <2>1, DeliverEffect DEF TextsOK
  <2> QED
    BY <2>1, <2>3, <2>4 DEF TextsOK, TypeOK, LimitsInv, early, OfToday
<1>7. CASE WakeSendFails
  <2>1. /\ wake.at = "sending" /\ wake.next.text \in Texts /\ Trouble("failed")
        /\ Deliver(wake.next.text) \/ UNCHANGED <<heard, today>>
        /\ wake' = [at |-> "team"] /\ UNCHANGED <<told, pending, unused, call, waits, early>>
    BY <1>7, WakeForms DEF WakeSendFails, TextsOK
  <2>2. heard' \in [Texts -> Nat] /\ today' \in [texts : Nat, standups : Nat]
    BY <2>1, DeliverEffect DEF TextsOK, TypeOK
  <2> QED
    BY <1>1, <2>1, <2>2, WakePoints, TroublesTyped DEF TextsOK
<1>8. CASE Remove
  <2>1. /\ wake' = [at |-> "texts"] /\ pending' = Others(wake.next.task)
        /\ UNCHANGED <<unused, call, waits, heard, early, today, troubles>>
        /\ \/ told' = told
           \/ wake.at = "sent" /\ told' = [day |-> "today", count |-> OfToday(told) + 1]
    BY <1>8 DEF Remove
  <2>2. pending' \in Seq(Waiting)
    BY <1>0, <2>1, OthersAre
  <2>3. told' \in [day : Days, count : 0..(MaxTexts + 1)]
    <3>1. OfToday(told) \in Nat
      BY <1>0 DEF OfToday
    <3> QED
      BY <1>0, <2>1, <3>1 DEF TextsOK, LimitsInv, Days
  <2>4. wake' \in WakeRecord /\ wake'.at = "texts"
    BY <2>1, WakePoints
  <2> QED
    BY <2>1, <2>2, <2>3, <2>4 DEF TextsOK, TypeOK, LimitsInv, early
<1>9. CASE DecideToWake
  <2>1. /\ OfToday(woke) < MaxEarly /\ wake' = [at |-> "running", upTo |-> news] /\ news > woke.seq
        /\ UNCHANGED <<texts, early, today, troubles>>
    BY <1>9 DEF DecideToWake
  <2>2. news \in 1..MaxNews
    BY <1>0, <2>1
  <2>3. wake' \in WakeRecord /\ wake'.at = "running" /\ wake'.upTo = news
    BY <2>1, <2>2, WakePoints
  <2> QED
    BY <1>0, <2>1, <2>3 DEF TextsOK, TypeOK, LimitsInv, texts, early, OfToday
<1>10. CASE RunStandup
  <2>1. /\ wake.at = "running" /\ wake.upTo \in 1..MaxNews /\ wake = [at |-> wake.at, upTo |-> wake.upTo]
        /\ UNCHANGED <<texts, early, troubles>> /\ today' = [today EXCEPT !.standups = @ + 1]
    BY <1>10, WakeForms DEF RunStandup, TextsOK
  <2>2. wake' = [at |-> "began", upTo |-> wake.upTo]
    BY <1>10, <2>1 DEF RunStandup
  <2>3. wake' \in WakeRecord /\ wake'.at = "began" /\ wake'.upTo = wake.upTo
    BY <2>1, <2>2, WakePoints
  <2>4. today' \in [texts : Nat, standups : Nat]
    BY <1>0, <2>1, SMTT(30)
  <2> QED
    BY <2>1, <2>3, <2>4 DEF TextsOK, TypeOK, LimitsInv, texts, early, OfToday
<1>11. CASE RunFails
  <2>1. /\ wake' = Idle /\ Trouble("failed") /\ UNCHANGED <<texts, early>>
        /\ UNCHANGED today \/ today' = [today EXCEPT !.standups = @ + 1]
    BY <1>11 DEF RunFails
  <2>2. today' \in [texts : Nat, standups : Nat]
    BY <1>0, <2>1, SMTT(30)
  <2> QED
    BY <1>1, <2>1, <2>2, WakePoints, TroublesTyped DEF texts, TextsOK, TypeOK
<1>12. CASE CountWake
  <2>1. /\ wake.at = "began" /\ wake.upTo \in 1..MaxNews /\ wake' = Idle
        /\ woke' = [day |-> "today", count |-> OfToday(woke) + 1, seq |-> wake.upTo]
        /\ UNCHANGED <<texts, news, read, team, today, troubles>>
    BY <1>12, WakeForms DEF CountWake, TextsOK
  <2>2. OfToday(woke) \in Nat /\ OfToday(woke) < MaxEarly /\ wake.upTo <= news
    BY <1>0, <2>1 DEF TextsOK, LimitsInv, OfToday
  <2>3. woke' \in [day : Days, count : 0..MaxEarly, seq : 0..news]
    BY <1>0, <2>1, <2>2, SMTT(30) DEF Days
  <2>4. wake' \in WakeRecord /\ wake'.at = "idle"
    BY <2>1, WakePoints
  <2> QED
    BY <2>1, <2>3, <2>4 DEF TextsOK, TypeOK, LimitsInv, texts
<1> QED
  BY <1>2, <1>3, <1>4, <1>5, <1>6, <1>7, <1>8, <1>9, <1>10, <1>11, <1>12 DEF WakeSteps
LEMMA WorldOK ==
  ASSUME TextsOK,
         (\E t \in Tasks : Answer(t)) \/ NewsArrives \/ StandupReads \/ Track \/ NextDay \/ Crash
           \/ UNCHANGED vars
  PROVE  TextsOK'
<1>0. /\ MaxTexts \in Nat \ {0} /\ MaxEarly \in Nat \ {0} /\ MaxNews \in Nat /\ MaxTroubles \in Nat
      /\ told \in [day : Days, count : 0..(MaxTexts + 1)] /\ call \in [Callers -> CallRecord]
      /\ woke \in [day : Days, count : 0..MaxEarly, seq : 0..news] /\ news \in 0..MaxNews
      /\ read \in 0..news
  BY TextsAssumption DEF TextsOK, TypeOK
<1>1. CASE (\E t \in Tasks : Answer(t)) \/ UNCHANGED vars
  BY <1>1 DEF Answer, vars, texts, early, TextsOK, TypeOK, LimitsInv, OfToday
<1>2. CASE NewsArrives \/ StandupReads
  <2>1. UNCHANGED <<texts, wake, woke, team, today, troubles>> /\ news' \in 0..MaxNews /\ news <= news'
        /\ read' \in 0..news'
    BY <1>0, <1>2 DEF NewsArrives, StandupReads
  <2>2. woke' \in [day : Days, count : 0..MaxEarly, seq : 0..news']
    BY <1>0, <2>1
  <2>3. wake.at \in {"running", "began"} => wake.upTo <= news'
    BY <1>0, <2>1, WakeForms DEF TextsOK, LimitsInv
  <2> QED
    BY <2>1, <2>2, <2>3 DEF TextsOK, TypeOK, LimitsInv, texts, OfToday
<1>3. CASE NextDay
  <2>1. /\ wake = Idle /\ today' = [texts |-> 0, standups |-> 0]
        /\ told' = [told EXCEPT !.day = "before"] /\ woke' = [woke EXCEPT !.day = "before"]
        /\ call' = [c \in Callers |-> IF call[c] = Idle THEN Idle ELSE [call[c] EXCEPT !.day = "before"]]
        /\ UNCHANGED <<pending, unused, waits, heard, wake, news, read, team, troubles>>
    BY <1>3 DEF NextDay
  <2>2. /\ told' \in [day : Days, count : 0..(MaxTexts + 1)]
        /\ woke' \in [day : Days, count : 0..MaxEarly, seq : 0..news]
        /\ today' \in [texts : Nat, standups : Nat]
    BY <1>0, <2>1 DEF Days
  <2>3. ASSUME NEW c \in Callers
        PROVE  /\ call'[c] \in CallRecord /\ call'[c].at = call[c].at
               /\ call[c].at # "idle" => call'[c].count = call[c].count /\ call'[c].task = call[c].task
                                           /\ call'[c].ask = call[c].ask /\ call'[c].text = call[c].text
    <3>1. CASE call[c] = Idle
      BY <1>0, <2>1, <3>1, CallForms DEF TextsOK
    <3>2. CASE call[c] # Idle
      <4> DEFINE r == [call[c] EXCEPT !.day = "before"]
      <4>1. call[c] \in [at : {"decided", "sent"}, text : Texts, task : Tasks \cup {NoTask},
                         ask : BOOLEAN, day : Days, count : Nat]
        BY <1>0, <3>2 DEF CallRecord
      <4>2. /\ r \in CallRecord /\ r.at = call[c].at /\ r.count = call[c].count /\ r.task = call[c].task
            /\ r.ask = call[c].ask /\ r.text = call[c].text
        BY <4>1 DEF CallRecord, Days
      <4> HIDE DEF r
      <4>3. call'[c] = r
        BY <2>1, <3>2 DEF r
      <4> QED
        BY <4>2, <4>3
    <3> QED
      BY <3>1, <3>2
  <2>4. call' \in [Callers -> CallRecord]
    BY <2>1, <2>3
  <2>5. wake.at = "idle"
    BY <2>1 DEF Idle
  <2> QED
    BY <2>1, <2>2, <2>3, <2>4, <2>5 DEF TextsOK, TypeOK, LimitsInv
<1>4. CASE Crash
  <2>1. /\ wake' = Idle /\ call' = [c \in Callers |-> Idle] /\ Trouble("restarts")
        /\ UNCHANGED <<told, pending, unused, waits, heard, early, today>>
    BY <1>4 DEF Crash
  <2>2. Idle \in CallRecord /\ Idle \in WakeRecord /\ Idle.at = "idle"
    BY DEF CallRecord, WakeRecord, Idle
  <2> QED
    BY <2>1, <2>2, TroublesTyped DEF TextsOK, TypeOK, LimitsInv, early
<1>5. CASE Track
  <2>1. /\ team' \in {"followed", "rejected", "jobless"}
        /\ UNCHANGED <<texts, wake, news, read, woke, today, troubles>>
    BY <1>5 DEF Track
  <2> QED
    BY <2>1 DEF texts, TextsOK, TypeOK, LimitsInv, OfToday
<1> QED
  BY <1>1, <1>2, <1>3, <1>4, <1>5

LEMMA TextsStep ==
  ASSUME TextsOK, [Next]_vars PROVE TextsOK'
  BY CallsOK, WakeOK, WorldOK DEF Next

\* The types: the counts a day's record may reach however the calls and the wake check
\* interleave, one text above the limit included.
THEOREM TypeCorrect == Spec => [](TypeOK /\ LimitsInv)
<1>1. Init => TextsOK
  BY TextsInit
<1>2. TextsOK /\ [Next]_vars => TextsOK'
  BY TextsStep
<1>3. TextsOK => TypeOK /\ LimitsInv
  BY DEF TextsOK
<1> QED
  BY <1>1, <1>2, <1>3, PTL DEF Spec

------------------------------------------------------------------------------
(* Early stand-ups.                                                          *)

LEMMA SpentTyped ==
  ASSUME TextsOK, [Next]_vars
  PROVE  /\ Spent \in Nat /\ Spent' \in Nat /\ Spent <= Spent'
         /\ Trouble("failed") \/ Trouble("restarts") => Spent' = Spent + 1
<1>1. Spent \in Nat /\ Spent' \in Nat
  <2>1. /\ troubles \in [failed : 0..MaxTroubles, restarts : 0..MaxTroubles]
        /\ troubles' \in [failed : 0..MaxTroubles, restarts : 0..MaxTroubles]
    BY TextsStep DEF TextsOK, TypeOK
  <2> QED
    BY <2>1, TextsAssumption DEF Spent
<1>2. UNCHANGED troubles \/ Trouble("failed") \/ Trouble("restarts")
  BY DEF Next, Tell, CallSteps, Queue, SendText, CountText, TellFails, Answer, WakeStarts, WakeSteps, Pick,
     Show, ShowFails, WakeSends, WakeSendFails, Remove, WakeRests, DecideToWake, RunStandup, RunFails,
     CountWake, NewsArrives, StandupReads, Track, NextDay, Crash, vars
<1>3. UNCHANGED troubles => Spent' = Spent
  BY DEF Spent
<1>4. Trouble("failed") \/ Trouble("restarts") => Spent' = Spent + 1
  BY TroublesTyped DEF TextsOK
<1> QED
  BY <1>1, <1>2, <1>3, <1>4

LEMMA EarlyStep ==
  ASSUME TextsOK, EarlyInv, [Next]_vars PROVE EarlyInv'
<1>0. /\ today \in [texts : Nat, standups : Nat] /\ OfToday(woke) \in Nat
      /\ Spent \in Nat /\ Spent' \in Nat /\ Spent <= Spent'
  BY SpentTyped DEF TextsOK, TypeOK, OfToday
<1>1. ASSUME UNCHANGED woke, today'.standups = today.standups, wake.at = "began" => wake'.at = "began"
      PROVE  EarlyInv'
  <2>1. OfToday(woke)' = OfToday(woke) /\ today.standups \in Nat
    BY <1>0, <1>1 DEF OfToday
  <2> QED
    BY <1>0, <1>1, <2>1 DEF EarlyInv
<1>2. ASSUME NEW c \in Callers,
             \/ \E x \in Texts, t \in Tasks \cup {NoTask}, ask \in BOOLEAN : Tell(c, x, t, ask)
             \/ CallSteps(c) \/ TellFails(c)
      PROVE  EarlyInv'
  <2>1. UNCHANGED <<wake, early>>
    BY <1>2 DEF Tell, CallSteps, Queue, SendText, CountText, TellFails
  <2>2. UNCHANGED today \/ (call[c].at = "decided" /\ Deliver(call[c].text))
    BY <1>2 DEF Tell, CallSteps, Queue, SendText, CountText, TellFails
  <2>3. today'.standups = today.standups
    BY <2>2, CallForms, DeliverEffect DEF TextsOK
  <2> QED
    BY <1>1, <2>1, <2>3 DEF early
<1>3. CASE WakeStarts \/ Pick \/ Show \/ ShowFails \/ WakeRests \/ Remove \/ DecideToWake
  <2>1. UNCHANGED <<woke, today>> /\ wake.at # "began"
    BY <1>3 DEF WakeStarts, Pick, Show, ShowFails, WakeRests, Remove, DecideToWake, early, Idle
  <2> QED
    BY <1>1, <2>1
<1>4. CASE WakeSends \/ WakeSendFails
  <2>1. /\ UNCHANGED woke /\ wake.at = "sending"
        /\ UNCHANGED today \/ Deliver(wake.next.text)
    BY <1>4 DEF WakeSends, WakeSendFails, early
  <2>2. today'.standups = today.standups
    BY <2>1, WakeForms, DeliverEffect DEF TextsOK
  <2> QED
    BY <1>1, <2>1, <2>2
<1>5. CASE RunStandup
  <2>1. /\ UNCHANGED <<woke, troubles>> /\ today' = [today EXCEPT !.standups = today.standups + 1]
        /\ wake.at = "running" /\ wake' = [wake EXCEPT !.at = "began"]
    BY <1>5 DEF RunStandup, early
  <2>2. today'.standups = today.standups + 1
    BY <1>0, <2>1
  <2>3. wake = [at |-> wake.at, upTo |-> wake.upTo]
    BY <2>1, WakeForms DEF TextsOK
  <2>4. wake'.at = "began"
    BY <2>1, <2>3
  <2>5. OfToday(woke)' = OfToday(woke) /\ Spent' = Spent
    BY <2>1 DEF OfToday, Spent
  <2> QED
    BY <1>0, <2>1, <2>2, <2>4, <2>5 DEF EarlyInv
<1>6. CASE CountWake
  <2>1. /\ wake.at = "began" /\ wake' = Idle /\ UNCHANGED <<today, troubles>>
        /\ woke' = [day |-> "today", count |-> OfToday(woke) + 1, seq |-> wake.upTo]
    BY <1>6 DEF CountWake
  <2>2. OfToday(woke') = OfToday(woke) + 1
    BY <2>1 DEF OfToday
  <2>3. OfToday(woke)' = OfToday(woke') /\ Spent' = Spent
    BY <2>1 DEF OfToday, Spent
  <2> QED
    BY <1>0, <2>1, <2>2, <2>3 DEF EarlyInv, Idle
<1>7. CASE NextDay
  <2>1. /\ today' = [texts |-> 0, standups |-> 0] /\ woke' = [woke EXCEPT !.day = "before"]
        /\ UNCHANGED troubles
    BY <1>7 DEF NextDay
  <2>2. woke \in [day : Days, count : 0..MaxEarly, seq : 0..news]
    BY DEF TextsOK, TypeOK
  <2>3. woke'.day = "before" /\ today'.standups = 0
    BY <2>1, <2>2
  <2> QED
    BY <1>0, <2>1, <2>3 DEF EarlyInv, OfToday
<1>8. CASE Crash
  <2>1. /\ wake' = Idle /\ UNCHANGED <<woke, today>> /\ Spent' = Spent + 1
    BY <1>8, SpentTyped DEF Crash, early
  <2> QED
    BY <1>0, <2>1 DEF EarlyInv, OfToday, Idle
<1>9. CASE RunFails
  <2>1. /\ wake.at = "running" /\ wake' = Idle /\ UNCHANGED woke /\ Spent' = Spent + 1
        /\ UNCHANGED today \/ today' = [today EXCEPT !.standups = @ + 1]
    BY <1>9, SpentTyped DEF RunFails, early
  <2>2. today'.standups = today.standups \/ today'.standups = today.standups + 1
    BY <1>0, <2>1
  <2>3. OfToday(woke)' = OfToday(woke) /\ today.standups \in Nat
    BY <1>0, <2>1 DEF OfToday
  <2> QED
    BY <1>0, <2>1, <2>2, <2>3 DEF EarlyInv, Idle
<1>10. CASE (\E t \in Tasks : Answer(t)) \/ NewsArrives \/ StandupReads \/ Track \/ UNCHANGED vars
  BY <1>1, <1>10 DEF Answer, NewsArrives, StandupReads, Track, vars, early
<1> QED
  BY <1>2, <1>3, <1>4, <1>5, <1>6, <1>7, <1>8, <1>9, <1>10 DEF Next, WakeSteps

\* No more early stand-ups a day than the limit, but for those that a restart, or a call to
\* Hermes that fails, keeps from being counted (service.ts wakeTeam).
THEOREM EarlyAreFew == Spec => []EarlyStandupsAreFew
<1>1. Init => EarlyInv
  BY TextsInit
<1>2. TextsOK /\ EarlyInv /\ [Next]_vars => EarlyInv'
  BY EarlyStep
<1>3. TextsOK /\ EarlyInv => EarlyStandupsAreFew
  <2> SUFFICES ASSUME TextsOK, EarlyInv PROVE EarlyStandupsAreFew
    OBVIOUS
  <2>1. /\ OfToday(woke) \in Nat /\ OfToday(woke) <= MaxEarly /\ MaxEarly \in Nat \ {0}
        /\ troubles.failed \in Nat /\ troubles.restarts \in Nat /\ today.standups \in Nat
        /\ wake.at = "began" => OfToday(woke) < MaxEarly
    BY TextsAssumption DEF TextsOK, TypeOK, LimitsInv, OfToday
  <2> QED
    BY <2>1 DEF EarlyInv, EarlyStandupsAreFew, Spent
<1>4. TypeOK /\ LimitsInv => TextsOK
  BY DEF TextsOK
<1> QED
  BY <1>1, <1>2, <1>3, <1>4, TypeCorrect, PTL DEF Spec
------------------------------------------------------------------------------
(* Where the texts are.                                                      *)

LEMMA PendingForms ==
  ASSUME TypeOK, NEW i \in DOMAIN pending
  PROVE  pending[i] \in Waiting /\ pending[i].text \in Texts /\ pending[i].task \in Tasks
<1>1. pending[i] \in Waiting
  BY DEF TypeOK
<1> QED
  BY <1>1 DEF Waiting

\* What moves no text: calls end, the wake check goes on with its text, or leaves it, with
\* a trouble when it had sent it.
LEMMA PlacesKeep ==
  ASSUME TextsOK, PlacesInv, [Next]_vars,
         UNCHANGED <<pending, heard>>, unused' \subseteq unused,
         \A c \in Callers, x \in Texts : InCall(c, x)' => InCall(c, x),
         \/ wake' = wake
         \/ /\ wake'.at \notin {"showing", "sending", "sent", "answered"}
            /\ wake.at # "sent" \/ Spent' = Spent + 1
         \/ /\ wake.at = "showing" /\ wake'.at \in {"sending", "answered"} /\ wake'.next = wake.next
  PROVE  PlacesInv'
<1>0. /\ Spent \in Nat /\ Spent' \in Nat /\ Spent <= Spent' /\ heard \in [Texts -> Nat]
      /\ \A i \in DOMAIN pending : pending[i].text \in Texts
      /\ wake.at \in {"showing", "sending", "sent", "answered"} => wake.next.text \in Texts
  BY SpentTyped, WakeForms, PendingForms DEF TextsOK, TypeOK
<1>1. \A x : AtWake(x)' => AtWake(x) /\ wake'.next = wake.next
  BY DEF AtWake
<1>2. \A x : Waits(x)' <=> Waits(x)
  BY DEF Waits
<1>3. \A x \in unused' \cap Texts :
        heard'[x] = 0 /\ ~Waits(x)' /\ ~AtWake(x)' /\ \A c \in Callers : ~InCall(c, x)'
  BY <1>1, <1>2 DEF PlacesInv
<1>4. \A c \in Callers : \A x \in Texts : InCall(c, x)' =>
        heard'[x] = 0 /\ ~Waits(x)' /\ ~AtWake(x)' /\ \A d \in Callers \ {c} : ~InCall(d, x)'
  BY <1>1, <1>2 DEF PlacesInv
<1>5. /\ \A i, j \in DOMAIN pending' : pending'[i].text = pending'[j].text => pending'[i].task = pending'[j].task
      /\ \A i \in DOMAIN pending' : AtWake(pending[i].text)' => pending'[i].task = wake'.next.task
  BY <1>1 DEF PlacesInv
<1>6. \A i \in DOMAIN pending : heard[pending[i].text] <= Spent'
        \/ (wake'.at = "sent" /\ wake'.next.text = pending[i].text)
  <2> SUFFICES ASSUME NEW i \in DOMAIN pending
               PROVE  heard[pending[i].text] <= Spent'
                        \/ (wake'.at = "sent" /\ wake'.next.text = pending[i].text)
    OBVIOUS
  <2>1. heard[pending[i].text] \in Nat /\ heard[pending[i].text] <= 1 + Spent
    BY <1>0 DEF PlacesInv
  <2>2. heard[pending[i].text] <= Spent \/ (wake.at = "sent" /\ wake.next.text = pending[i].text)
    BY DEF PlacesInv, AtWake
  <2>3. wake.at = "sent" => wake' = wake \/ Spent' = Spent + 1
    OBVIOUS
  <2> QED
    BY <1>0, <2>1, <2>2, <2>3
<1>7. wake'.at \in {"showing", "sending"} => heard'[wake'.next.text] <= Spent'
  <2> SUFFICES ASSUME wake'.at \in {"showing", "sending"} PROVE heard[wake'.next.text] <= Spent'
    OBVIOUS
  <2>1. wake'.next = wake.next /\ wake.at \in {"showing", "sending"}
    OBVIOUS
  <2>2. heard[wake.next.text] <= Spent /\ heard[wake.next.text] \in Nat
    BY <1>0, <2>1 DEF PlacesInv
  <2> QED
    BY <1>0, <2>1, <2>2
<1>8. \A x \in Texts : heard'[x] <= 1 + Spent'
  BY <1>0 DEF PlacesInv
<1> QED
  BY <1>3, <1>4, <1>5, <1>6, <1>7, <1>8 DEF PlacesInv, AtWake

\* A call that has its text takes it out of every other place.
LEMMA PlacesTell ==
  ASSUME TextsOK, PlacesInv, [Next]_vars, NEW c \in Callers, NEW x \in Texts,
         NEW t \in Tasks \cup {NoTask}, NEW ask \in BOOLEAN, Tell(c, x, t, ask)
  PROVE  PlacesInv'
<1> DEFINE r == [at |-> "decided", text |-> x, task |-> t, ask |-> ask, day |-> "today",
                 count |-> OfToday(told)]
<1>1. /\ x \in unused /\ unused' = unused \ {x} /\ call' = [call EXCEPT ![c] = r]
      /\ UNCHANGED <<told, pending, waits, heard, wake, early, today, troubles>>
  BY DEF Tell
<1>2. call \in [Callers -> CallRecord] /\ r.at = "decided" /\ r.text = x
  BY DEF TextsOK, TypeOK
<1> HIDE DEF r
<1>3. \A d \in Callers : \A y : InCall(d, y)' <=> IF d = c THEN y = x ELSE InCall(d, y)
  BY <1>1, <1>2 DEF InCall
<1>4. Spent' = Spent /\ (\A y : Waits(y)' <=> Waits(y)) /\ (\A y : AtWake(y)' <=> AtWake(y))
  BY <1>1 DEF Spent, Waits, AtWake
<1>5. heard[x] = 0 /\ ~Waits(x) /\ ~AtWake(x) /\ \A d \in Callers : ~InCall(d, x)
  BY <1>1 DEF PlacesInv
<1>6. \A y \in unused' \cap Texts :
        heard'[y] = 0 /\ ~Waits(y)' /\ ~AtWake(y)' /\ \A d \in Callers : ~InCall(d, y)'
  BY <1>1, <1>3, <1>4 DEF PlacesInv
<1>7. \A d \in Callers : \A y \in Texts : InCall(d, y)' =>
        heard'[y] = 0 /\ ~Waits(y)' /\ ~AtWake(y)' /\ \A e \in Callers \ {d} : ~InCall(e, y)'
  BY <1>1, <1>3, <1>4, <1>5 DEF PlacesInv
<1> QED
  BY <1>1, <1>4, <1>6, <1>7 DEF PlacesInv, AtWake

\* A text its call sends, perhaps with a trouble, is in no other place.
LEMMA PlacesSent ==
  ASSUME TextsOK, PlacesInv, [Next]_vars, NEW c \in Callers, call[c].at = "decided",
         Deliver(call[c].text), UNCHANGED <<pending, wake>>, unused' \subseteq unused,
         call'[c].at # "decided", \A d \in Callers \ {c} : call'[d] = call[d]
  PROVE  PlacesInv'
<1> DEFINE x == call[c].text
<1>0. /\ Spent \in Nat /\ Spent' \in Nat /\ Spent <= Spent' /\ heard \in [Texts -> Nat]
      /\ x \in Texts
  BY SpentTyped, CallForms DEF TextsOK, TypeOK
<1>1. heard'[x] = heard[x] + 1 /\ \A y \in Texts \ {x} : heard'[y] = heard[y]
  BY <1>0, DeliverEffect DEF TextsOK
<1>2. InCall(c, x) /\ heard[x] = 0 /\ ~Waits(x) /\ ~AtWake(x) /\ x \notin unused
  BY <1>0 DEF InCall, PlacesInv
<1>3. \A d \in Callers : \A y : InCall(d, y)' => d # c /\ InCall(d, y)
  BY DEF InCall
<1>4. (\A y : Waits(y)' <=> Waits(y)) /\ (\A y : AtWake(y)' <=> AtWake(y))
  BY DEF Waits, AtWake
<1>5. \A i \in DOMAIN pending : pending[i].text \in Texts /\ pending[i].text # x
  BY <1>2, PendingForms DEF Waits, TextsOK
<1>6. wake.at \in {"showing", "sending"} => wake.next.text \in Texts /\ wake.next.text # x
  BY <1>2, WakeForms DEF AtWake, TextsOK
<1> HIDE DEF x
<1>7. \A y \in unused' \cap Texts :
        heard'[y] = 0 /\ ~Waits(y)' /\ ~AtWake(y)' /\ \A d \in Callers : ~InCall(d, y)'
  BY <1>1, <1>2, <1>3, <1>4 DEF PlacesInv
<1>8. \A d \in Callers : \A y \in Texts : InCall(d, y)' =>
        heard'[y] = 0 /\ ~Waits(y)' /\ ~AtWake(y)' /\ \A e \in Callers \ {d} : ~InCall(e, y)'
  <2> SUFFICES ASSUME NEW d \in Callers, NEW y \in Texts, InCall(d, y)'
               PROVE  heard'[y] = 0 /\ ~Waits(y)' /\ ~AtWake(y)' /\ \A e \in Callers \ {d} : ~InCall(e, y)'
    OBVIOUS
  <2>1. d # c /\ InCall(d, y)
    BY <1>3
  <2>2. y # x
    BY <1>2, <2>1 DEF PlacesInv
  <2> QED
    BY <1>1, <1>3, <1>4, <2>1, <2>2 DEF PlacesInv
<1>9. /\ \A i, j \in DOMAIN pending' : pending'[i].text = pending'[j].text => pending'[i].task = pending'[j].task
      /\ \A i \in DOMAIN pending' : AtWake(pending[i].text)' => pending'[i].task = wake'.next.task
  BY <1>4 DEF PlacesInv, AtWake
<1>10. \A i \in DOMAIN pending' : heard'[pending'[i].text] <= Spent'
         \/ (wake'.at = "sent" /\ AtWake(pending[i].text)')
  <2> SUFFICES ASSUME NEW i \in DOMAIN pending
               PROVE  heard'[pending[i].text] <= Spent' \/ (wake.at = "sent" /\ AtWake(pending[i].text))
    BY DEF AtWake
  <2>1. heard[pending[i].text] <= Spent \/ (wake.at = "sent" /\ AtWake(pending[i].text))
    BY DEF PlacesInv
  <2>2. heard'[pending[i].text] = heard[pending[i].text] /\ heard[pending[i].text] \in Nat
    BY <1>0, <1>1, <1>5
  <2> QED
    BY <1>0, <2>1, <2>2
<1>11. wake'.at \in {"showing", "sending"} => heard'[wake'.next.text] <= Spent'
  <2> SUFFICES ASSUME wake.at \in {"showing", "sending"} PROVE heard'[wake.next.text] <= Spent'
    OBVIOUS
  <2>1. heard[wake.next.text] <= Spent /\ heard'[wake.next.text] = heard[wake.next.text]
    BY <1>1, <1>6 DEF PlacesInv
  <2>2. heard[wake.next.text] \in Nat
    BY <1>0, <1>6
  <2> QED
    BY <1>0, <2>1, <2>2
<1>12. \A y \in Texts : heard'[y] <= 1 + Spent'
  <2> SUFFICES ASSUME NEW y \in Texts PROVE heard'[y] <= 1 + Spent'
    OBVIOUS
  <2>1. heard[y] \in Nat /\ heard[y] <= 1 + Spent
    BY <1>0 DEF PlacesInv
  <2>2. CASE y = x
    BY <1>0, <1>1, <1>2, <2>2
  <2>3. CASE y # x
    BY <1>0, <1>1, <2>1, <2>3
  <2> QED
    BY <2>2, <2>3
<1> QED
  BY <1>7, <1>8, <1>9, <1>10, <1>11, <1>12 DEF PlacesInv, AtWake

\* A text over the limit waits in the place of what waited for its task.
LEMMA PlacesQueue ==
  ASSUME TextsOK, PlacesInv, [Next]_vars, NEW c \in Callers, Queue(c)
  PROVE  PlacesInv'
<1> DEFINE x == call[c].text
           t == call[c].task
           p == [text |-> x, task |-> t]
<1>0. /\ call[c].at = "decided" /\ x \in Texts
      /\ Spent \in Nat /\ heard \in [Texts -> Nat] /\ pending \in Seq(Waiting)
  BY SpentTyped, CallForms DEF TextsOK, TypeOK, Queue
<1>1. /\ pending' = Append(Others(t), p) /\ call' = [call EXCEPT ![c] = Idle]
      /\ UNCHANGED <<told, heard, wake, early, today, troubles>> /\ unused' \subseteq unused
  BY <1>0, AskedTyped DEF Queue
<1>2. InCall(c, x) /\ heard[x] = 0 /\ ~Waits(x) /\ ~AtWake(x) /\ x \notin unused
  BY <1>0 DEF InCall, PlacesInv
<1>3. \A d \in Callers : \A y : InCall(d, y)' => d # c /\ InCall(d, y)
  BY <1>1, CallEnds DEF InCall
<1>4. Spent' = Spent /\ (\A y : AtWake(y)' <=> AtWake(y))
  BY <1>1 DEF Spent, AtWake
<1> HIDE DEF x, t
<1>5. \A k \in DOMAIN pending' :
        \/ pending'[k] = p
        \/ \E i \in DOMAIN pending : pending'[k] = pending[i]
  <2>1. Others(t) \in Seq(Waiting) /\ \A k \in DOMAIN Others(t) : \E i \in DOMAIN pending :
              Others(t)[k] = pending[i]
    BY <1>0, OthersAre
  <2>2. \A k \in DOMAIN pending' : pending'[k] = p \/ (k \in DOMAIN Others(t) /\ pending'[k] = Others(t)[k])
    BY <1>1, <2>1
  <2> QED
    BY <2>1, <2>2
<1>6. p.text = x /\ p.task = t /\ (\A i \in DOMAIN pending : pending[i].text # x /\ pending[i].text \in Texts)
  BY <1>2, PendingForms DEF Waits, TextsOK
<1> HIDE DEF p
<1>7. \A y : Waits(y)' => y = x \/ Waits(y)
  BY <1>5, <1>6 DEF Waits
<1>8. \A y \in unused' \cap Texts :
        heard'[y] = 0 /\ ~Waits(y)' /\ ~AtWake(y)' /\ \A d \in Callers : ~InCall(d, y)'
  BY <1>1, <1>2, <1>3, <1>4, <1>7 DEF PlacesInv
<1>9. \A d \in Callers : \A y \in Texts : InCall(d, y)' =>
        heard'[y] = 0 /\ ~Waits(y)' /\ ~AtWake(y)' /\ \A e \in Callers \ {d} : ~InCall(e, y)'
  <2> SUFFICES ASSUME NEW d \in Callers, NEW y \in Texts, InCall(d, y)'
               PROVE  heard'[y] = 0 /\ ~Waits(y)' /\ ~AtWake(y)' /\ \A e \in Callers \ {d} : ~InCall(e, y)'
    OBVIOUS
  <2>1. d # c /\ InCall(d, y)
    BY <1>3
  <2>2. y # x
    BY <1>0, <1>2, <2>1 DEF PlacesInv
  <2> QED
    BY <1>1, <1>3, <1>4, <1>7, <2>1, <2>2 DEF PlacesInv
<1>10. \A i, j \in DOMAIN pending' : pending'[i].text = pending'[j].text => pending'[i].task = pending'[j].task
  BY <1>5, <1>6 DEF PlacesInv
<1>11. \A i \in DOMAIN pending' : AtWake(pending'[i].text) => pending'[i].task = wake.next.task
  BY <1>2, <1>5, <1>6 DEF PlacesInv
<1>12. \A i \in DOMAIN pending' : heard[pending'[i].text] <= Spent
         \/ (wake.at = "sent" /\ AtWake(pending'[i].text))
  BY <1>0, <1>2, <1>5, <1>6 DEF PlacesInv
<1> QED
  BY <1>1, <1>4, <1>8, <1>9, <1>10, <1>11, <1>12 DEF PlacesInv, AtWake

\* The wake check takes the first of the waiting texts.
LEMMA PlacesPick ==
  ASSUME TextsOK, PlacesInv, [Next]_vars, Pick
  PROVE  PlacesInv'
<1>1. /\ wake.at = "texts" /\ UNCHANGED <<texts, early, today, troubles>>
  BY DEF Pick
<1>2. UNCHANGED <<pending, unused, call, heard>> /\ Spent' = Spent
  BY <1>1 DEF texts, Spent
<1>3. CASE wake' = [at |-> "team"]
  <2>1. wake'.at = "team"
    BY <1>3
  <2> QED
    BY <1>1, <1>2, <2>1, PlacesKeep DEF InCall
<1>4. CASE wake' = [at |-> "showing", next |-> Head(pending)] /\ pending # <<>>
  <2>1. Head(pending) = pending[1] /\ 1 \in DOMAIN pending
    BY <1>4 DEF TextsOK, TypeOK
  <2>2. wake'.at = "showing" /\ wake'.next = pending[1]
    BY <1>4, <2>1
  <2>3. \A y : AtWake(y)' => Waits(y) /\ y = pending[1].text
    BY <2>1, <2>2 DEF AtWake, Waits
  <2>4. (\A y : Waits(y)' <=> Waits(y)) /\ (\A d \in Callers : \A y : InCall(d, y)' <=> InCall(d, y))
    BY <1>2 DEF Waits, InCall
  <2>5. \A i \in DOMAIN pending : heard[pending[i].text] <= Spent
    BY <1>1 DEF PlacesInv
  <2>6. \A y \in unused' \cap Texts :
        heard'[y] = 0 /\ ~Waits(y)' /\ ~AtWake(y)' /\ \A d \in Callers : ~InCall(d, y)'
    BY <1>2, <2>3, <2>4 DEF PlacesInv
  <2>7. \A d \in Callers : \A y \in Texts : InCall(d, y)' =>
        heard'[y] = 0 /\ ~Waits(y)' /\ ~AtWake(y)' /\ \A e \in Callers \ {d} : ~InCall(e, y)'
    BY <1>2, <2>3, <2>4 DEF PlacesInv
  <2>8. /\ \A i, j \in DOMAIN pending' : pending'[i].text = pending'[j].text => pending'[i].task = pending'[j].task
        /\ \A i \in DOMAIN pending' : AtWake(pending[i].text)' => pending'[i].task = wake'.next.task
    BY <1>2, <2>1, <2>2, <2>3 DEF PlacesInv
  <2>9. /\ \A i \in DOMAIN pending' : heard'[pending'[i].text] <= Spent'
        /\ heard'[wake'.next.text] <= Spent'
    BY <1>2, <2>1, <2>2, <2>5
  <2> QED
    BY <1>2, <2>2, <2>6, <2>7, <2>8, <2>9 DEF PlacesInv, AtWake
<1> QED
  BY <1>3, <1>4 DEF Pick

\* The wake check sends its text, or fails when the text has already gone out.
LEMMA PlacesWakeSends ==
  ASSUME TextsOK, PlacesInv, [Next]_vars, wake.at = "sending", Deliver(wake.next.text),
         UNCHANGED <<pending, unused, call>>,
         \/ wake' = [wake EXCEPT !.at = "sent"]
         \/ wake' = [at |-> "team"] /\ Spent' = Spent + 1
  PROVE  PlacesInv'
<1> DEFINE x == wake.next.text
<1>0. /\ Spent \in Nat /\ Spent' \in Nat /\ Spent <= Spent' /\ heard \in [Texts -> Nat]
      /\ x \in Texts /\ wake = [at |-> wake.at, next |-> wake.next]
      /\ \A i \in DOMAIN pending : pending[i].text \in Texts
  BY SpentTyped, WakeForms, PendingForms DEF TextsOK, TypeOK
<1>1. heard'[x] = heard[x] + 1 /\ \A y \in Texts \ {x} : heard'[y] = heard[y]
  BY <1>0, DeliverEffect DEF TextsOK
<1>2. AtWake(x) /\ heard[x] <= Spent /\ heard[x] \in Nat
  BY <1>0 DEF AtWake, PlacesInv
<1>3. \/ wake'.at = "sent" /\ wake'.next = wake.next
      \/ wake'.at = "team" /\ Spent' = Spent + 1
  BY <1>0
<1>4. /\ \A y : AtWake(y)' => AtWake(y) /\ y = x /\ wake'.at = "sent" /\ wake'.next = wake.next
      /\ \A y : Waits(y)' <=> Waits(y)
      /\ \A d \in Callers : \A y : InCall(d, y)' <=> InCall(d, y)
      /\ wake'.at = "sent" => AtWake(x)'
  BY <1>2, <1>3 DEF AtWake, Waits, InCall
<1> HIDE DEF x
<1>5. \A y \in unused' \cap Texts :
        heard'[y] = 0 /\ ~Waits(y)' /\ ~AtWake(y)' /\ \A d \in Callers : ~InCall(d, y)'
  BY <1>1, <1>2, <1>4 DEF PlacesInv
<1>6. \A d \in Callers : \A y \in Texts : InCall(d, y)' =>
        heard'[y] = 0 /\ ~Waits(y)' /\ ~AtWake(y)' /\ \A e \in Callers \ {d} : ~InCall(e, y)'
  <2> SUFFICES ASSUME NEW d \in Callers, NEW y \in Texts, InCall(d, y)
               PROVE  heard'[y] = 0 /\ ~Waits(y) /\ ~AtWake(y)' /\ \A e \in Callers \ {d} : ~InCall(e, y)
    BY <1>4
  <2>1. y # x
    BY <1>2 DEF PlacesInv
  <2> QED
    BY <1>1, <1>4, <2>1 DEF PlacesInv
<1>7. /\ \A i, j \in DOMAIN pending' : pending'[i].text = pending'[j].text => pending'[i].task = pending'[j].task
      /\ \A i \in DOMAIN pending' : AtWake(pending[i].text)' => pending'[i].task = wake'.next.task
  BY <1>4 DEF PlacesInv
<1>8. \A i \in DOMAIN pending : heard'[pending[i].text] <= Spent'
        \/ (wake'.at = "sent" /\ AtWake(pending[i].text)')
  <2> SUFFICES ASSUME NEW i \in DOMAIN pending
               PROVE  heard'[pending[i].text] <= Spent' \/ (wake'.at = "sent" /\ AtWake(pending[i].text)')
    OBVIOUS
  <2>1. CASE pending[i].text = x
    BY <1>0, <1>1, <1>2, <1>3, <1>4, <2>1
  <2>2. CASE pending[i].text # x
    <3>1. heard'[pending[i].text] = heard[pending[i].text] /\ heard[pending[i].text] \in Nat
      BY <1>0, <1>1, <2>2
    <3>2. heard[pending[i].text] <= Spent
      BY DEF PlacesInv
    <3> QED
      BY <1>0, <3>1, <3>2
  <2> QED
    BY <2>1, <2>2
<1>9. wake'.at \notin {"showing", "sending"}
  BY <1>3
<1>10. \A y \in Texts : heard'[y] <= 1 + Spent'
  <2> SUFFICES ASSUME NEW y \in Texts PROVE heard'[y] <= 1 + Spent'
    OBVIOUS
  <2>1. heard[y] \in Nat /\ heard[y] <= 1 + Spent
    BY <1>0 DEF PlacesInv
  <2>2. CASE y = x
    BY <1>0, <1>1, <1>2, <2>2
  <2>3. CASE y # x
    BY <1>0, <1>1, <2>1, <2>3
  <2> QED
    BY <2>2, <2>3
<1> QED
  BY <1>5, <1>6, <1>7, <1>8, <1>9, <1>10 DEF PlacesInv, AtWake

\* The text that was sent, or whose task was answered, leaves with all that waits of its task.
LEMMA PlacesRemove ==
  ASSUME TextsOK, PlacesInv, [Next]_vars, Remove
  PROVE  PlacesInv'
<1> DEFINE t == wake.next.task
<1>0. /\ wake.at \in {"sent", "answered"} /\ wake'.at = "texts" /\ pending' = Others(t)
      /\ UNCHANGED <<unused, call, heard>> /\ Spent' = Spent
  BY DEF Remove, Spent
<1>1. \A k \in DOMAIN pending' : \E i \in DOMAIN pending :
        pending'[k] = pending[i] /\ pending[i].task # t
  BY <1>0, OthersAre, SMTT(30) DEF TextsOK, TypeOK
<1>2. \A i \in DOMAIN pending : pending[i].task # t => heard[pending[i].text] <= Spent
  BY DEF PlacesInv
<1> HIDE DEF t
<1>3. /\ \A y : Waits(y)' => Waits(y)
      /\ \A y : ~AtWake(y)'
      /\ \A d \in Callers : \A y : InCall(d, y)' <=> InCall(d, y)
  BY <1>0, <1>1 DEF Waits, AtWake, InCall
<1>4. \A y \in unused' \cap Texts :
        heard'[y] = 0 /\ ~Waits(y)' /\ ~AtWake(y)' /\ \A d \in Callers : ~InCall(d, y)'
  BY <1>0, <1>3 DEF PlacesInv
<1>5. \A d \in Callers : \A y \in Texts : InCall(d, y)' =>
        heard'[y] = 0 /\ ~Waits(y)' /\ ~AtWake(y)' /\ \A e \in Callers \ {d} : ~InCall(e, y)'
  BY <1>0, <1>3 DEF PlacesInv
<1>6. \A i, j \in DOMAIN pending' : pending'[i].text = pending'[j].text => pending'[i].task = pending'[j].task
  BY <1>1 DEF PlacesInv
<1>7. \A i \in DOMAIN pending' : heard'[pending'[i].text] <= Spent'
  BY <1>0, <1>1, <1>2
<1>8. \A y \in Texts : heard'[y] <= 1 + Spent'
  BY <1>0 DEF PlacesInv
<1> QED
  BY <1>0, <1>3, <1>4, <1>5, <1>6, <1>7, <1>8 DEF PlacesInv, AtWake

LEMMA PlacesStep ==
  ASSUME TextsOK, PlacesInv, [Next]_vars PROVE PlacesInv'
<1>1. ASSUME NEW c \in Callers, NEW x \in Texts, NEW t \in Tasks \cup {NoTask}, NEW ask \in BOOLEAN,
             Tell(c, x, t, ask)
      PROVE  PlacesInv'
  BY <1>1, PlacesTell
<1>2. ASSUME NEW c \in Callers, CallSteps(c) \/ TellFails(c) PROVE PlacesInv'
  <2>1. CASE Queue(c)
    BY <2>1, PlacesQueue
  <2>2. CASE SendText(c) \/ (TellFails(c) /\ Asked(c) /\ Deliver(call[c].text))
    <3>1. /\ call[c].at = "decided" /\ Asked(c) /\ Deliver(call[c].text) /\ UNCHANGED <<pending, wake>>
          /\ call' = [call EXCEPT ![c].at = "sent"] \/ call' = [call EXCEPT ![c] = Idle]
      BY <2>2 DEF SendText, TellFails
    <3>2. /\ call \in [Callers -> CallRecord] /\ Idle.at = "idle"
          /\ call[c] = [at |-> call[c].at, text |-> call[c].text, task |-> call[c].task,
                        ask |-> call[c].ask, day |-> call[c].day, count |-> call[c].count]
      BY <3>1, CallForms DEF TextsOK, TypeOK, Idle
    <3>3. call'[c].at # "decided" /\ \A d \in Callers \ {c} : call'[d] = call[d]
      BY <3>1, <3>2
    <3>4. unused' \subseteq unused
      BY <3>1, AskedTyped
    <3> QED
      BY <3>1, <3>3, <3>4, PlacesSent
  <2>3. CASE CountText(c) \/ (TellFails(c) /\ UNCHANGED <<heard, today>>)
    <3>1. call' = [call EXCEPT ![c] = Idle] /\ UNCHANGED <<pending, heard, wake>>
      BY <2>3 DEF CountText, TellFails
    <3>2. unused' \subseteq unused
      <4>1. UNCHANGED unused \/ (call[c].at = "decided" /\ Asked(c))
        BY <2>3 DEF CountText, TellFails
      <4> QED
        BY <4>1, AskedTyped
    <3>3. \A d \in Callers, x \in Texts : InCall(d, x)' => InCall(d, x)
      BY <3>1, CallEnds DEF InCall
    <3> QED
      BY <3>1, <3>2, <3>3, PlacesKeep
  <2> QED
    BY <1>2, <2>1, <2>2, <2>3 DEF CallSteps, TellFails
<1>3. CASE \/ \E t \in Tasks : Answer(t)
           \/ NewsArrives \/ StandupReads \/ Track \/ UNCHANGED vars
  <2>1. UNCHANGED <<pending, heard, unused, call, wake>>
    BY <1>3 DEF Answer, NewsArrives, StandupReads, Track, vars, texts
  <2> QED
    BY <2>1, PlacesKeep DEF InCall
<1>4. CASE WakeStarts \/ WakeRests \/ DecideToWake \/ RunStandup \/ RunFails \/ CountWake
  <2>1. UNCHANGED <<pending, heard, unused, call>>
    BY <1>4 DEF WakeStarts, WakeRests, DecideToWake, RunStandup, RunFails, CountWake, texts
  <2>2. wake.at # "sent"
    BY <1>4 DEF WakeStarts, WakeRests, DecideToWake, RunStandup, RunFails, CountWake, Idle
  <2>3. wake'.at \notin {"showing", "sending", "sent", "answered"}
    <3>1. \/ wake' \in {Idle, [at |-> "texts"], [at |-> "running", upTo |-> news]}
          \/ RunStandup
      BY <1>4 DEF WakeStarts, WakeRests, DecideToWake, RunStandup, RunFails, CountWake
    <3>2. CASE wake' \in {Idle, [at |-> "texts"], [at |-> "running", upTo |-> news]}
      BY <3>2 DEF Idle
    <3>3. CASE RunStandup
      <4>1. wake = [at |-> wake.at, upTo |-> wake.upTo] /\ wake' = [wake EXCEPT !.at = "began"]
        BY <3>3, WakeForms DEF RunStandup, TextsOK
      <4> QED
        BY <4>1
    <3> QED
      BY <3>1, <3>2, <3>3
  <2> QED
    BY <2>1, <2>2, <2>3, PlacesKeep DEF InCall
<1>5. CASE Pick
  BY <1>5, PlacesPick
<1>6. CASE Show \/ ShowFails
  <2>1. UNCHANGED <<pending, heard, unused, call>> /\ wake.at = "showing"
    BY <1>6 DEF Show, ShowFails, texts
  <2>2. wake = [at |-> wake.at, next |-> wake.next]
    BY <2>1, WakeForms DEF TextsOK
  <2>3. \/ wake' \in {[wake EXCEPT !.at = "sending"], [wake EXCEPT !.at = "answered"]}
        \/ wake' = [at |-> "team"]
    BY <1>6 DEF Show, ShowFails
  <2>4. \/ wake'.at \in {"sending", "answered"} /\ wake'.next = wake.next
        \/ wake'.at = "team"
    BY <2>2, <2>3
  <2> QED
    BY <2>1, <2>4, PlacesKeep DEF InCall
<1>7. CASE WakeSends \/ (WakeSendFails /\ Deliver(wake.next.text))
  <2>1. /\ wake.at = "sending" /\ Deliver(wake.next.text) /\ UNCHANGED <<pending, unused, call>>
        /\ \/ wake' = [wake EXCEPT !.at = "sent"]
           \/ wake' = [at |-> "team"] /\ Trouble("failed")
    BY <1>7 DEF WakeSends, WakeSendFails
  <2> QED
    BY <2>1, SpentTyped, PlacesWakeSends
<1>8. CASE WakeSendFails /\ UNCHANGED <<heard, today>>
  <2>1. /\ UNCHANGED <<pending, heard, unused, call>> /\ wake.at = "sending" /\ wake'.at = "team"
    BY <1>8 DEF WakeSendFails
  <2> QED
    BY <2>1, PlacesKeep DEF InCall
<1>9. CASE Remove
  BY <1>9, PlacesRemove
<1>10. CASE NextDay
  <2>1. UNCHANGED <<pending, heard, unused, wake>>
    BY <1>10 DEF NextDay
  <2>2. ASSUME NEW c \in Callers, NEW x \in Texts, InCall(c, x)' PROVE InCall(c, x)
    <3>1. call'[c] = IF call[c] = Idle THEN Idle ELSE [call[c] EXCEPT !.day = "before"]
      BY <1>10 DEF NextDay
    <3>2. CASE call[c] = Idle
      BY <2>2, <3>1, <3>2 DEF InCall, Idle
    <3>3. CASE call[c] # Idle
      <4>1. call[c] = [at |-> call[c].at, text |-> call[c].text, task |-> call[c].task,
                       ask |-> call[c].ask, day |-> call[c].day, count |-> call[c].count]
        BY <3>3, CallForms DEF TextsOK
      <4> QED
        BY <2>2, <3>1, <3>3, <4>1 DEF InCall
    <3> QED
      BY <3>2, <3>3
  <2> QED
    BY <2>1, <2>2, PlacesKeep
<1>11. CASE Crash
  <2>1. /\ UNCHANGED <<pending, heard, unused>> /\ wake'.at = "idle" /\ Spent' = Spent + 1
        /\ call' = [c \in Callers |-> Idle] /\ Idle.at = "idle"
    BY <1>11, SpentTyped DEF Crash, Idle
  <2>2. \A c \in Callers : \A x : ~InCall(c, x)'
    BY <2>1 DEF InCall
  <2> QED
    BY <2>1, <2>2, PlacesKeep
<1> QED
  BY <1>1, <1>2, <1>3, <1>4, <1>5, <1>6, <1>7, <1>8, <1>9, <1>10, <1>11 DEF Next, WakeSteps, WakeSendFails

\* The owner gets a text again only after a restart or a failed delivery, whether it went
\* out at once or waited (service.ts sendPendingTexts).
THEOREM Once == Spec => []TextedOnce
<1>1. Init => PlacesInv
  BY TextsInit
<1>2. TextsOK /\ PlacesInv /\ [Next]_vars => PlacesInv'
  BY PlacesStep
<1>3. TextsOK /\ PlacesInv => TextedOnce
  <2> SUFFICES ASSUME TextsOK, PlacesInv, NEW x \in Texts
               PROVE  heard[x] <= 1 + troubles.failed + troubles.restarts
    BY DEF TextedOnce
  <2>1. /\ heard[x] \in Nat /\ heard[x] <= 1 + (troubles.failed + troubles.restarts)
        /\ troubles.failed \in Nat /\ troubles.restarts \in Nat
    BY TextsAssumption DEF TextsOK, TypeOK, PlacesInv, Spent
  <2> QED
    BY <2>1
<1>4. TypeOK /\ LimitsInv => TextsOK
  BY DEF TextsOK
<1> QED
  BY <1>1, <1>2, <1>3, <1>4, TypeCorrect, PTL DEF Spec

=============================================================================
