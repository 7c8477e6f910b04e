-------------------------------- MODULE TeamTexts --------------------------------
(***************************************************************************)
(* The texts of a team to its owner, and the early team stand-ups          *)
(* (teams/service.ts tellOwner and wakeCheck, wake.ts).  A call of         *)
(* team_tell_owner reads the day's count, and much later, after Kanban and *)
(* the text channel have answered, writes it; over the limit its text      *)
(* waits in pendingTexts.  The wake check sends what waits, one text after *)
(* another, and starts the team stand-up early when the room has news.     *)
(*                                                                         *)
(* A date is "today" or "before": days go by without a bound.              *)
(***************************************************************************)
EXTENDS Integers, Sequences, FiniteSets

CONSTANTS
  Callers,   \* calls of team_tell_owner that may run side by side
  Texts,     \* bound: the texts, each for one call
  Tasks,     \* Kanban tasks of the team board
  NoTask,
  MaxTexts,  \* MAX_TELL_OWNER_PER_DAY
  MaxEarly,  \* MAX_EARLY_STANDUPS_PER_DAY
  MaxNews,   \* bound: entries of the room that need this box
  MaxTroubles \* bound: calls that fail and restarts, together

ASSUME TextsAssumption ==
  /\ NoTask \notin Tasks \cup Texts /\ Texts \cap Tasks = {}
  /\ MaxTexts \in Nat \ {0} /\ MaxEarly \in Nat \ {0} /\ MaxNews \in Nat /\ MaxTroubles \in Nat

VARIABLES
  told,    \* tellOwnerDay and tellOwnerCount
  pending, \* pendingTexts
  unused,  \* texts nobody has written and tasks nobody has made yet
  call,    \* call[c]: a call of tellOwner, with the day and the count it read
  waits,   \* tasks that are blocked for the owner
  wake,    \* the wake check, and the waiting text it is at
  news,    \* the last entry of the room that needs this box
  read,    \* the last of them at or before lastReadId
  woke,    \* wakeDay, wakeCount and wakeSeq
  team,    \* whether the wake check follows the team: cronJobId and rejectedAt
  heard,   \* heard[x]: how often the owner got x (history)
  today,   \* texts the owner got and stand-ups that began early today (history)
  troubles  \* the calls that failed and the restarts so far

texts == <<told, pending, unused, call, waits, heard>>
early == <<news, read, woke, team>>
vars == <<texts, wake, early, today, troubles>>

------------------------------------------------------------------------------
Days == {"today", "before"}

Idle == [at |-> "idle"]

Waiting == [text : Texts, task : Tasks]

CallRecord == {Idle} \cup [at : {"decided", "sent"}, text : Texts, task : Tasks \cup {NoTask},
                           ask : BOOLEAN, day : Days, count : Nat]

WakeRecord ==
  {Idle} \cup [at : {"texts", "team"}] \cup [at : {"showing", "sending", "sent", "answered"}, next : Waiting]
    \cup [at : {"running", "began"}, upTo : 1..MaxNews]

\* The count of a record that is of today.
OfToday(r) == IF r.day = "today" THEN r.count ELSE 0

Trouble(what) ==
  /\ troubles.failed + troubles.restarts < MaxTroubles
  /\ troubles' = [troubles EXCEPT ![what] = @ + 1]

Init ==
  /\ told = [day |-> "before", count |-> 0] /\ pending = <<>>
  /\ call = [c \in Callers |-> Idle] /\ waits \in SUBSET Tasks /\ unused = Texts \cup (Tasks \ waits)
  /\ wake = Idle
  /\ news = 0 /\ read = 0 /\ woke = [day |-> "before", count |-> 0, seq |-> 0]
  /\ team \in {"followed", "jobless"}
  /\ heard = [x \in Texts |-> 0] /\ today = [texts |-> 0, standups |-> 0]
  /\ troubles = [failed |-> 0, restarts |-> 0]

------------------------------------------------------------------------------
(* team_tell_owner.                                                          *)

\* The membership is read.  ask makes a task of its own; without a task a text over the
\* limit is refused.
Tell(c, x, t, ask) ==
  /\ call[c] = Idle /\ x \in unused /\ ask = (t \in unused)
  /\ ask => \A d \in {d \in Callers : call[d] # Idle} : call[d].task # t
  /\ OfToday(told) >= MaxTexts => t # NoTask
  /\ unused' = unused \ {x}
  /\ call' = [call EXCEPT ![c] = [at |-> "decided", text |-> x, task |-> t, ask |-> ask,
                                  day |-> "today", count |-> OfToday(told)]]
  /\ UNCHANGED <<told, pending, waits, heard, wake, early, today, troubles>>

\* createTeamTask, and then what the call does with its text.
Asked(c) ==
  IF call[c].ask
  THEN waits' = waits \cup {call[c].task} /\ unused' = unused \ {call[c].task}
  ELSE UNCHANGED <<waits, unused>>

\* What waits of other tasks, in its order.
Others(t) ==
  LET kept == {i \in DOMAIN pending : pending[i].task # t} IN
  [k \in 1..Cardinality(kept) |->
     pending[CHOOSE i \in kept : Cardinality({j \in kept : j <= i}) = k]]

\* Over the limit of the day it read, the text waits; an older one of the task goes.
Queue(c) ==
  /\ call[c].at = "decided" /\ call[c].count >= MaxTexts /\ Asked(c)
  /\ pending' = Append(Others(call[c].task), [text |-> call[c].text, task |-> call[c].task])
  /\ call' = [call EXCEPT ![c] = Idle]
  /\ UNCHANGED <<told, heard, wake, early, today, troubles>>

Deliver(x) ==
  /\ heard' = [heard EXCEPT ![x] = @ + 1]
  /\ today' = [today EXCEPT !.texts = @ + 1]

SendText(c) ==
  /\ call[c].at = "decided" /\ call[c].count < MaxTexts /\ Asked(c)
  /\ Deliver(call[c].text) /\ call' = [call EXCEPT ![c].at = "sent"]
  /\ UNCHANGED <<told, pending, wake, early, troubles>>

\* Kanban or the text channel fails, the channel perhaps after the text has gone out.
TellFails(c) ==
  /\ call[c].at = "decided" /\ Trouble("failed")
  /\ \/ Asked(c) /\ Deliver(call[c].text) /\ call[c].count < MaxTexts
     \/ Asked(c) /\ UNCHANGED <<heard, today>>
     \/ UNCHANGED <<waits, unused, heard, today>>
  /\ call' = [call EXCEPT ![c] = Idle]
  /\ UNCHANGED <<told, pending, wake, early>>

\* memberships.update, with the day and the count the call read.
CountText(c) ==
  /\ call[c].at = "sent" /\ call' = [call EXCEPT ![c] = Idle]
  /\ told' = [day |-> call[c].day, count |-> call[c].count + 1]
  /\ UNCHANGED <<pending, unused, waits, heard, wake, early, today, troubles>>

\* The owner answers a task, or it is settled otherwise.
Answer(t) ==
  /\ t \in waits /\ waits' = waits \ {t}
  /\ UNCHANGED <<told, pending, unused, call, heard, wake, early, today, troubles>>

------------------------------------------------------------------------------
(* The wake check (one at a time, server.ts): the texts that wait, and then the news. *)

\* In the wake window, hours after the calls of the day before; a team whose boss rejects
\* this box, or whose stand-up Hermes did not create, is passed over.
WakeStarts ==
  /\ wake = Idle /\ team = "followed" /\ wake' = [at |-> "texts"]
  /\ \A c \in {c \in Callers : call[c] # Idle} : call[c].day = "today"
  /\ UNCHANGED <<texts, early, today, troubles>>

\* The oldest of the waiting texts, within the limit of the day.
Pick ==
  /\ wake.at = "texts"
  /\ wake' = IF pending = <<>> \/ OfToday(told) >= MaxTexts THEN [at |-> "team"]
             ELSE [at |-> "showing", next |-> Head(pending)]
  /\ UNCHANGED <<texts, early, today, troubles>>

\* Kanban shows the task.
Show ==
  /\ wake.at = "showing"
  /\ wake' = [wake EXCEPT !.at = IF wake.next.task \in waits THEN "sending" ELSE "answered"]
  /\ UNCHANGED <<texts, early, today, troubles>>

\* Kanban fails: an answer without success counts as a task that does not wait, and
\* a bridge that does not answer ends the texts of this check.
ShowFails ==
  /\ wake.at = "showing" /\ Trouble("failed")
  /\ wake' \in {[wake EXCEPT !.at = "answered"], [at |-> "team"]}
  /\ UNCHANGED <<texts, early, today>>

WakeSends ==
  /\ wake.at = "sending" /\ Deliver(wake.next.text) /\ wake' = [wake EXCEPT !.at = "sent"]
  /\ UNCHANGED <<told, pending, unused, call, waits, early, troubles>>

WakeSendFails ==
  /\ wake.at = "sending" /\ Trouble("failed") /\ wake' = [at |-> "team"]
  /\ Deliver(wake.next.text) \/ UNCHANGED <<heard, today>>
  /\ UNCHANGED <<told, pending, unused, call, waits, early>>

\* Mutant: only a text that was sent leaves.
RemoveSent ==
  /\ wake.at \in {"sent", "answered"} /\ wake' = [at |-> "texts"]
  /\ pending' = IF wake.at = "sent" THEN Others(wake.next.task) ELSE pending
  /\ told' = IF wake.at = "sent" THEN [day |-> "today", count |-> OfToday(told) + 1] ELSE told
  /\ UNCHANGED <<unused, call, waits, heard, early, today, troubles>>

\* Mutant: what was sent stays, to be told apart by the next check.
RemoveAnswered ==
  /\ wake.at \in {"sent", "answered"} /\ wake' = [at |-> "texts"]
  /\ pending' = IF wake.at = "sent" THEN pending ELSE Others(wake.next.task)
  /\ told' = IF wake.at = "sent" THEN [day |-> "today", count |-> OfToday(told) + 1] ELSE told
  /\ UNCHANGED <<unused, call, waits, heard, early, today, troubles>>

\* What waits of the task goes, and a text that was sent counts.
Remove ==
  /\ wake.at \in {"sent", "answered"} /\ wake' = [at |-> "texts"]
  /\ pending' = Others(wake.next.task)
  /\ told' = IF wake.at = "sent" THEN [day |-> "today", count |-> OfToday(told) + 1] ELSE told
  /\ UNCHANGED <<unused, call, waits, heard, early, today, troubles>>

\* The room is read: without news, at the limit, fifteen minutes after a stand-up or
\* with a boss that does not answer, nothing starts.
WakeRests ==
  /\ wake.at = "team" /\ wake' = Idle
  /\ UNCHANGED <<texts, early, today, troubles>>

\* Mutant: the limit is not looked at.
DecideAlways ==
  /\ wake.at = "team" /\ news > read /\ news > woke.seq
  /\ wake' = [at |-> "running", upTo |-> news]
  /\ UNCHANGED <<texts, early, today, troubles>>

\* What came after the entries that woke the stand-up before, and after its cursor.
DecideToWake ==
  /\ wake.at = "team" /\ news > read /\ news > woke.seq
  /\ OfToday(woke) < MaxEarly /\ wake' = [at |-> "running", upTo |-> news]
  /\ UNCHANGED <<texts, early, today, troubles>>

\* The Hermes cron job runs.
RunStandup ==
  /\ wake.at = "running" /\ wake' = [wake EXCEPT !.at = "began"]
  /\ today' = [today EXCEPT !.standups = @ + 1]
  /\ UNCHANGED <<texts, early, troubles>>

\* The call fails, perhaps after Hermes took it: nothing is counted, and the next check
\* tries again.
RunFails ==
  /\ wake.at = "running" /\ Trouble("failed") /\ wake' = Idle
  /\ UNCHANGED today \/ today' = [today EXCEPT !.standups = @ + 1]
  /\ UNCHANGED <<texts, early>>

CountWake ==
  /\ wake.at = "began" /\ wake' = Idle
  /\ woke' = [day |-> "today", count |-> OfToday(woke) + 1, seq |-> wake.upTo]
  /\ UNCHANGED <<texts, news, read, team, today, troubles>>

------------------------------------------------------------------------------
\* Another member writes something that needs this box, or a team stand-up reads.
NewsArrives ==
  /\ news < MaxNews /\ news' = news + 1
  /\ UNCHANGED <<texts, wake, read, woke, team, today, troubles>>

StandupReads ==
  /\ read < news /\ read' = news
  /\ UNCHANGED <<texts, wake, news, woke, team, today, troubles>>

\* A call to the team boss that is answered with 404, or again with success.
Track ==
  /\ team # "jobless" /\ team' \in {"followed", "rejected"} \ {team}
  /\ UNCHANGED <<texts, wake, news, read, woke, today, troubles>>

\* Midnight, outside the wake window.
NextDay ==
  /\ wake = Idle
  /\ told' = [told EXCEPT !.day = "before"] /\ woke' = [woke EXCEPT !.day = "before"]
  /\ call' = [c \in Callers |-> IF call[c] = Idle THEN Idle ELSE [call[c] EXCEPT !.day = "before"]]
  /\ today' = [texts |-> 0, standups |-> 0]
  /\ UNCHANGED <<pending, unused, waits, heard, wake, news, read, team, troubles>>

Crash ==
  /\ Trouble("restarts") /\ wake' = Idle /\ call' = [c \in Callers |-> Idle]
  /\ UNCHANGED <<told, pending, unused, waits, heard, early, today>>

CallSteps(c) == Queue(c) \/ SendText(c) \/ CountText(c)

WakeSteps ==
  \/ Pick \/ Show \/ WakeSends \/ Remove
  \/ WakeRests \/ DecideToWake \/ RunStandup \/ CountWake

Next ==
  \/ \E c \in Callers, x \in Texts, t \in Tasks \cup {NoTask}, ask \in BOOLEAN : Tell(c, x, t, ask)
  \/ \E c \in Callers : CallSteps(c) \/ TellFails(c)
  \/ \E t \in Tasks : Answer(t)
  \/ WakeStarts \/ WakeSteps \/ ShowFails \/ WakeSendFails \/ RunFails
  \/ NewsArrives \/ StandupReads \/ Track \/ NextDay \/ Crash

Spec == Init /\ [][Next]_vars

\* Calls end, the wake check comes round and ends, and so does the day.
FairSpec ==
  /\ Spec /\ \A c \in Callers : WF_vars(CallSteps(c))
  /\ WF_vars(WakeStarts) /\ WF_vars(WakeSteps) /\ SF_vars(NextDay)

------------------------------------------------------------------------------
(* Properties.                                                               *)

\* The types (service.ts, the fields of the membership).
TypeOK ==
  /\ told \in [day : Days, count : 0..(MaxTexts + 1)] /\ pending \in Seq(Waiting)
  /\ unused \subseteq Texts \cup Tasks /\ call \in [Callers -> CallRecord] /\ waits \subseteq Tasks
  /\ wake \in WakeRecord /\ news \in 0..MaxNews /\ read \in 0..news
  /\ woke \in [day : Days, count : 0..MaxEarly, seq : 0..news]
  /\ team \in {"followed", "rejected", "jobless"}
  /\ heard \in [Texts -> Nat] /\ today \in [texts : Nat, standups : Nat]
  /\ troubles \in [failed : 0..MaxTroubles, restarts : 0..MaxTroubles]

\* The owner gets a text again only after a restart or a failed delivery, whether it went
\* out at once or waited (service.ts sendPendingTexts).
TextedOnce == \A x \in Texts : heard[x] <= 1 + troubles.failed + troubles.restarts

\* No more early stand-ups a day than the limit, but for those that a restart, or a call to
\* Hermes that fails, keeps from being counted (service.ts wakeTeam).
EarlyStandupsAreFew == today.standups <= MaxEarly + troubles.failed + troubles.restarts

Waits(x) == \E i \in DOMAIN pending : pending[i].text = x

\* No text waits for ever, however many texts come in between, as long as the wake check
\* follows its team (service.ts wakeCheck, sendPendingTexts).
NoTextWaitsForever == \A x \in Texts : []<>(~Waits(x) \/ team # "followed")

------------------------------------------------------------------------------
(* What the repository says of the texts and the code does not keep.         *)

\* "Most texts that `team_tell_owner` sends for one team in one day" (service.ts:47).
AtMostTheLimit == today.texts <= MaxTexts

\* "waits in `pendingTexts` and goes out on the next workday [...] unless the owner already
\* answered its Kanban task" (docs/teams.md:66): what leaves was sent, or its task is
\* answered, or a newer text of the task waits in its place.
WaitingTextsGoOut ==
  [][\A i \in DOMAIN pending :
       LET p == pending[i] IN
         \/ Waits(p.text)' \/ heard[p.text] > 0 \/ p.task \notin waits
         \/ \E j \in DOMAIN pending' : pending'[j].task = p.task]_vars

\* The same sentence: a text also leaves when the boss has rejected the box for good, or
\* the stand-up of the team was never created.
WaitingTextsLeave == \A x \in Texts : []<>~Waits(x)

===============================================================================
