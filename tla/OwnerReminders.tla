------------------------------ MODULE OwnerReminders ------------------------------
(***************************************************************************)
(* The reminders of the owner (ownerReminders/service.ts).  A reminder is  *)
(* a record of the box, a script, and a cron job of Hermes that runs the   *)
(* script, which calls /fire.  They are made and unmade one after another, *)
(* with a call to Hermes in between; a run reads the record, sends its     *)
(* text for up to 45 seconds, and writes the record.  Hermes, which has a  *)
(* life of its own, runs a job once at a time, and a one-time job once.    *)
(***************************************************************************)
EXTENDS Integers, FiniteSets

CONSTANTS
  Reminders,
  OneTime,   \* those with a one-time schedule
  NoOne,
  MaxActive, \* MAX_ACTIVE_REMINDERS
  MaxTime,   \* bound: the times that runs are told apart by
  MaxTroubles \* bound: calls that fail (Hermes, Kanban, the text channel) and restarts, together

ASSUME RemindersAssumption ==
  /\ OneTime \subseteq Reminders /\ NoOne \notin Reminders
  /\ MaxActive \in Nat /\ MaxTime \in Nat \ {0} /\ MaxTroubles \in Nat

VARIABLES
  status,  \* status[r]: the status of the record; failed: retired as one_time_failed
  jobId,   \* reminders whose record has its cronJobId
  lastRun, \* lastRun[r]: the time of the newest delivered run in the record, 0 for none
  script,  \* scripts there are
  job,     \* jobs Hermes has
  spent,   \* one-time jobs that have run
  create,  \* create[r]: how far create is
  run,     \* run[r]: how far the run of the job is, and its `now`
  clean,   \* calls of removeHermesJob under way, with the record each has
  over,    \* reminders whose end time is past or whose linked task is closed
  now,
  texted,  \* the reminder whose text the owner got last, until a DONE (history)
  known,   \* retired reminders whose record had its cronJobId then (history)
  late,    \* late[r]: texts of r after it was retired (history)
  troubles  \* the calls that failed and the restarts so far

record == <<status, jobId, lastRun>>
hermes == <<job, spent>>
history == <<texted, known, late>>
vars == <<record, script, hermes, create, run, clean, over, now, history, troubles>>

------------------------------------------------------------------------------
Statuses == {"none", "active", "retired", "failed", "removed"}

CreateSteps == {"none", "admitted", "scripted", "made", "refused", "undone", "ended"}

NoRun == [at |-> "none", time |-> 0]

RunRecord == [at : {"none", "sending", "delivered", "failed"}, time : 0..MaxTime]

Active == {r \in Reminders : status[r] = "active"}

Trouble(what) ==
  /\ troubles.failed + troubles.restarts < MaxTroubles
  /\ troubles' = [troubles EXCEPT ![what] = @ + 1]

Init ==
  /\ status = [r \in Reminders |-> "none"] /\ jobId = {}
  /\ lastRun = [r \in Reminders |-> 0] /\ script = {} /\ job = {} /\ spent = {}
  /\ create = [r \in Reminders |-> "none"] /\ run = [r \in Reminders |-> NoRun]
  /\ clean = {} /\ over = {} /\ now = 1
  /\ texted = NoOne /\ known = {} /\ late = [r \in Reminders |-> 0]
  /\ troubles = [failed |-> 0, restarts |-> 0]

------------------------------------------------------------------------------
(* create.                                                                   *)

To(r, step) == create' = [create EXCEPT ![r] = step]

\* The record first, within the limit.
Admit(r) ==
  /\ status[r] = "none" /\ create[r] = "none" /\ Cardinality(Active) < MaxActive
  /\ status' = [status EXCEPT ![r] = "active"] /\ To(r, "admitted")
  /\ UNCHANGED <<jobId, lastRun, script, hermes, run, clean, over, now, history, troubles>>

WriteScript(r) ==
  /\ create[r] = "admitted" /\ script' = script \cup {r} /\ To(r, "scripted")
  /\ UNCHANGED <<record, hermes, run, clean, over, now, history, troubles>>

MakeJob(r) ==
  /\ create[r] = "scripted" /\ job' = job \cup {r} /\ To(r, "made")
  /\ UNCHANGED <<record, script, spent, run, clean, over, now, history, troubles>>

\* Hermes makes no job, or the answer that it made one is lost.
MakeFails(r) ==
  /\ create[r] = "scripted" /\ Trouble("failed") /\ To(r, "refused")
  /\ job' \in {job, job \cup {r}}
  /\ UNCHANGED <<record, script, spent, run, clean, over, now, history>>

\* The record gets the job's id, retired or not.
SaveJob(r) ==
  /\ create[r] = "made" /\ jobId' = jobId \cup {r} /\ To(r, "ended")
  /\ UNCHANGED <<status, lastRun, script, hermes, run, clean, over, now, history, troubles>>

\* Without a job, the record goes, and then the script.
UndoRecord(r) ==
  /\ create[r] = "refused" /\ To(r, "undone")
  /\ status' = [status EXCEPT ![r] = "removed"]
  /\ UNCHANGED <<jobId, lastRun, script, hermes, run, clean, over, now, history, troubles>>

UndoScript(r) ==
  /\ create[r] = "undone" /\ script' = script \ {r} /\ To(r, "ended")
  /\ UNCHANGED <<record, hermes, run, clean, over, now, history, troubles>>

------------------------------------------------------------------------------
(* retire and removeHermesJob.                                               *)

\* The record as removeHermesJob gets it.
Removal(r) == [of |-> r, withJob |-> r \in jobId]

\* retire: an active record ends with the reason, and the job goes next, but for a
\* one-time reminder that failed.
Retire(r, ended) ==
  /\ status' = [status EXCEPT ![r] = IF @ = "active" THEN ended ELSE @]
  /\ clean' = IF ended = "failed" \/ status[r] = "removed" THEN clean ELSE clean \cup {Removal(r)}
  /\ known' = IF status[r] = "active" /\ ended = "retired" /\ r \in jobId
              THEN known \cup {r} ELSE known

\* The owner's companion stops it.
Stop(r) ==
  /\ status[r] \in {"active", "retired", "failed"} /\ Retire(r, "retired")
  /\ UNCHANGED <<jobId, lastRun, script, hermes, create, run, over, now, texted, late, troubles>>

\* Mutant: the script goes without the job.
RemoveScript(c) ==
  /\ c \in clean /\ clean' = clean \ {c} /\ UNCHANGED <<job, troubles>>
  /\ script' = script \ {c.of}
  /\ UNCHANGED <<record, spent, create, run, over, now, history>>

\* Hermes removes the job the record knows, or fails; the script goes either way.
RemoveJob(c) ==
  /\ c \in clean /\ clean' = clean \ {c}
  /\ \/ job' = (IF c.withJob THEN job \ {c.of} ELSE job) /\ UNCHANGED troubles
     \/ c.withJob /\ Trouble("failed") /\ UNCHANGED job
  /\ script' = script \ {c.of}
  /\ UNCHANGED <<record, spent, create, run, over, now, history>>

------------------------------------------------------------------------------
(* fire.                                                                     *)

\* Hermes runs the script.
Runs(r) == r \in (job \cap script) \ spent /\ run[r] = NoRun

\* Mutant: every job is taken for a one-time job.
RanOnce(r) == spent' = spent \cup {r}

Ran(r) == spent' = IF r \in OneTime THEN spent \cup {r} ELSE spent

\* Mutant: the status is not looked at.
FireAnyway(r) ==
  /\ Runs(r) /\ status[r] # "removed" /\ r \notin over /\ Ran(r)
  /\ run' = [run EXCEPT ![r] = [at |-> "sending", time |-> now]]
  /\ now' = IF now < MaxTime THEN now + 1 ELSE now
  /\ UNCHANGED <<record, script, job, create, clean, over, history, troubles>>

\* An active reminder that is not over sends; one whose task Kanban does not show, too.
Fire(r) ==
  /\ Runs(r) /\ status[r] = "active" /\ Ran(r)
  /\ \/ r \notin over /\ UNCHANGED troubles
     \/ r \in over /\ Trouble("failed")
  /\ run' = [run EXCEPT ![r] = [at |-> "sending", time |-> now]]
  /\ now' = IF now < MaxTime THEN now + 1 ELSE now
  /\ UNCHANGED <<record, script, job, create, clean, over, history>>

\* One that is over is retired.
FireOver(r) ==
  /\ Runs(r) /\ status[r] = "active" /\ r \in over /\ Ran(r) /\ Retire(r, "retired")
  /\ UNCHANGED <<jobId, lastRun, script, job, create, run, over, now, texted, late, troubles>>

\* A retired one has its job removed, which a restart or a failure may have kept.
FireRetired(r) ==
  /\ Runs(r) /\ status[r] = "retired" /\ Ran(r) /\ clean' = clean \cup {Removal(r)}
  /\ UNCHANGED <<record, script, job, create, run, over, now, history, troubles>>

\* The text reaches the owner.
Text(r) ==
  /\ run[r].at = "sending" /\ run' = [run EXCEPT ![r].at = "delivered"]
  /\ texted' = r /\ late' = [late EXCEPT ![r] = IF status[r] = "active" THEN @ ELSE @ + 1]
  /\ UNCHANGED <<record, script, hermes, create, clean, over, now, known, troubles>>

TextFails(r) ==
  /\ run[r].at = "sending" /\ run' = [run EXCEPT ![r].at = "failed"] /\ Trouble("failed")
  /\ UNCHANGED <<record, script, hermes, create, clean, over, now, history>>

\* pushRun.
Noted(r) ==
  lastRun' = IF run[r].at = "delivered" /\ status[r] # "removed"
             THEN [lastRun EXCEPT ![r] = run[r].time] ELSE lastRun

\* The receipt: the run is recorded, and a one-time reminder retired.
Record(r) ==
  /\ run[r].at \in {"delivered", "failed"} /\ run' = [run EXCEPT ![r] = NoRun] /\ Noted(r)
  /\ IF r \in OneTime
     THEN Retire(r, IF run[r].at = "delivered" THEN "retired" ELSE "failed")
     ELSE UNCHANGED <<status, clean, known>>
  /\ UNCHANGED <<jobId, script, hermes, create, over, now, texted, late, troubles>>

\* DONE by SMS: the active reminder with the newest delivered run.
Done(r) ==
  /\ status[r] = "active" /\ lastRun[r] > 0
  /\ \A s \in Active : lastRun[s] <= lastRun[r]
  /\ Retire(r, "retired") /\ texted' = NoOne
  /\ UNCHANGED <<jobId, lastRun, script, hermes, create, run, over, now, late, troubles>>

------------------------------------------------------------------------------
\* The end time passes, or the linked task is closed.
Passes(r) ==
  /\ r \notin over /\ status[r] = "active" /\ over' = over \cup {r}
  /\ UNCHANGED <<record, script, hermes, create, run, clean, now, history, troubles>>

\* What was under way is gone; Hermes has its jobs.
Crash ==
  /\ Trouble("restarts") /\ run' = [r \in Reminders |-> NoRun] /\ clean' = {}
  /\ create' = [r \in Reminders |-> IF create[r] = "none" THEN "none" ELSE "ended"]
  /\ UNCHANGED <<record, script, hermes, over, now, history>>

CreateStep(r) == WriteScript(r) \/ MakeJob(r) \/ SaveJob(r) \/ UndoRecord(r) \/ UndoScript(r)

FireStep(r) == Fire(r) \/ FireOver(r) \/ FireRetired(r)

Next ==
  \/ \E r \in Reminders :
       \/ Admit(r) \/ CreateStep(r) \/ MakeFails(r) \/ Stop(r)
       \/ FireStep(r) \/ Text(r) \/ TextFails(r) \/ Record(r) \/ Done(r) \/ Passes(r)
  \/ \E c \in clean : RemoveJob(c)
  \/ Crash

Spec == Init /\ [][Next]_vars

\* Requests end, and Hermes runs its jobs on schedule.
FairSpec ==
  /\ Spec
  /\ \A r \in Reminders :
       /\ WF_vars(CreateStep(r)) /\ WF_vars(FireStep(r)) /\ WF_vars(Text(r)) /\ WF_vars(Record(r))
       /\ \A b \in BOOLEAN : WF_vars(RemoveJob([of |-> r, withJob |-> b]))

------------------------------------------------------------------------------
(* Properties.                                                               *)

\* The types (types.ts).
TypeOK ==
  /\ status \in [Reminders -> Statuses] /\ jobId \subseteq Reminders
  /\ lastRun \in [Reminders -> 0..MaxTime] /\ script \subseteq Reminders
  /\ job \subseteq Reminders /\ spent \subseteq OneTime
  /\ create \in [Reminders -> CreateSteps] /\ run \in [Reminders -> RunRecord]
  /\ clean \subseteq [of : Reminders, withJob : BOOLEAN] /\ over \subseteq Reminders
  /\ now \in 1..MaxTime /\ texted \in Reminders \cup {NoOne} /\ known \subseteq Reminders
  /\ late \in [Reminders -> Nat]
  /\ troubles \in [failed : 0..MaxTroubles, restarts : 0..MaxTroubles]

\* No more reminders are active than the limit, however many are made at once
\* (service.ts create).
ActiveAreFew == Cardinality(Active) <= MaxActive

\* Once a reminder has ended, for whatever reason, the owner gets at most the text that
\* was on its way (service.ts fire, retire).
OneLateTextAtMost == \A r \in Reminders : late[r] <= 1

\* A retired reminder whose record had the id of its job loses the job, unless a call
\* fails: a restart before that is made good by the job's next run (service.ts fire,
\* removeHermesJob).
KnownJobsGo ==
  \A r \in Reminders \ OneTime : []<>(r \notin known \cap job \/ troubles.failed > 0)

------------------------------------------------------------------------------
(* What the repository says of the reminders and the code does not keep.     *)

\* "Mark the record retired, then remove the Hermes cron job and delete the script"
\* (service.ts:291).
RetiredJobsGo == \A r \in Reminders : (status[r] = "retired") ~> (r \notin job)

\* "Joshu keeps the owner reminder in `<files>/.joshu/owner-reminders/state.json` and runs
\* it as a Hermes cron job" (docs/executive-assistant.md:126).
ActiveHasItsJob == \A r \in Reminders : (status[r] = "active") ~> (r \in job \/ status[r] # "active")

\* "the active owner reminder with the newest delivered SMS run" (service.ts:100).
DoneIsForTheNewest ==
  [][texted' = NoOne /\ texted \in Active => status'[texted] # "active"]_vars

===============================================================================
