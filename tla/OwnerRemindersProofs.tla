------------------------- MODULE OwnerRemindersProofs -------------------------
(***************************************************************************)
(* Theorems about the owner's reminders, for every set of reminders and    *)
(* every bound.                                                            *)
(***************************************************************************)
EXTENDS OwnerReminders, FiniteSetTheorems, TLAPS

\* Types: what removeHermesJob gets, what retire writes, and a trouble that is counted.
LEMMA RemovalTyped ==
  ASSUME NEW r \in Reminders
  PROVE  Removal(r) \in [of : Reminders, withJob : BOOLEAN]
  BY DEF Removal

LEMMA RetireTyped ==
  ASSUME TypeOK, NEW r \in Reminders, NEW ended \in {"retired", "failed"}, Retire(r, ended)
  PROVE  /\ status' \in [Reminders -> Statuses] /\ known' \subseteq Reminders
         /\ clean' \subseteq [of : Reminders, withJob : BOOLEAN]
<1>1. status' \in [Reminders -> Statuses]
  BY DEF TypeOK, Retire, Statuses
<1> QED
  BY <1>1, RemovalTyped DEF TypeOK, Retire

LEMMA TroubleTyped ==
  ASSUME TypeOK, NEW what \in {"failed", "restarts"}, Trouble(what)
  PROVE  troubles' \in [failed : 0..MaxTroubles, restarts : 0..MaxTroubles]
  BY RemindersAssumption DEF TypeOK, Trouble

\* A step keeps the types.
LEMMA TypeStep ==
  ASSUME TypeOK, [Next]_vars
  PROVE  TypeOK'
<1> USE DEF TypeOK, record, hermes, history
<1>1. ASSUME NEW r \in Reminders, Admit(r) PROVE TypeOK'
  BY <1>1 DEF Admit, To, Statuses, CreateSteps
<1>2. ASSUME NEW r \in Reminders, CreateStep(r) PROVE TypeOK'
  <2>1. ASSUME NEW step \in CreateSteps, To(r, step) PROVE create' \in [Reminders -> CreateSteps]
    BY <2>1 DEF To
  <2>2. CASE WriteScript(r)
    BY <2>1, <2>2 DEF WriteScript, CreateSteps
  <2>3. CASE MakeJob(r)
    BY <2>1, <2>3 DEF MakeJob, CreateSteps
  <2>4. CASE SaveJob(r)
    BY <2>1, <2>4 DEF SaveJob, CreateSteps
  <2>5. CASE UndoRecord(r)
    BY <2>1, <2>5 DEF UndoRecord, CreateSteps, Statuses
  <2>6. CASE UndoScript(r)
    BY <2>1, <2>6 DEF UndoScript, CreateSteps
  <2> QED
    BY <1>2, <2>2, <2>3, <2>4, <2>5, <2>6 DEF CreateStep
<1>3. ASSUME NEW r \in Reminders, MakeFails(r) PROVE TypeOK'
  BY <1>3, TroubleTyped DEF MakeFails, To, CreateSteps
<1>4. ASSUME NEW r \in Reminders, Stop(r) PROVE TypeOK'
  BY <1>4, RetireTyped DEF Stop
<1>5. ASSUME NEW r \in Reminders, FireStep(r) PROVE TypeOK'
  <2>1. Ran(r) => spent' \subseteq OneTime
    BY DEF Ran
  <2>2. CASE Fire(r)
    <3>1. /\ run' \in [Reminders -> RunRecord] /\ now' \in 1..MaxTime
      BY <2>2, RemindersAssumption DEF Fire, RunRecord
    <3>2. troubles' \in [failed : 0..MaxTroubles, restarts : 0..MaxTroubles]
      BY <2>2, TroubleTyped DEF Fire
    <3> QED
      BY <2>1, <2>2, <3>1, <3>2 DEF Fire
  <2>3. CASE FireOver(r)
    BY <2>1, <2>3, RetireTyped DEF FireOver
  <2>4. CASE FireRetired(r)
    <3>1. clean' \subseteq [of : Reminders, withJob : BOOLEAN]
      BY <2>4, RemovalTyped DEF FireRetired
    <3> QED
      BY <2>1, <2>4, <3>1 DEF FireRetired
  <2> QED
    BY <1>5, <2>2, <2>3, <2>4 DEF FireStep
<1>6. ASSUME NEW r \in Reminders, Text(r) \/ TextFails(r) PROVE TypeOK'
  <2>1. run' \in [Reminders -> RunRecord]
    <3>1. \A a \in {"delivered", "failed"} : [run[r] EXCEPT !.at = a] \in RunRecord
      BY DEF RunRecord
    <3> QED
      BY <1>6, <3>1 DEF Text, TextFails
  <2>2. late' \in [Reminders -> Nat]
    BY <1>6 DEF Text, TextFails
  <2>3. troubles' \in [failed : 0..MaxTroubles, restarts : 0..MaxTroubles]
    BY <1>6, TroubleTyped DEF Text, TextFails
  <2> QED
    BY <1>6, <2>1, <2>2, <2>3 DEF Text, TextFails
<1>7. ASSUME NEW r \in Reminders, Record(r) PROVE TypeOK'
  <2>1. run' \in [Reminders -> RunRecord]
    BY <1>7, RemindersAssumption DEF Record, RunRecord, NoRun
  <2>2. lastRun' \in [Reminders -> 0..MaxTime]
    BY <1>7 DEF Record, Noted, RunRecord
  <2>3. CASE r \in OneTime
    BY <1>7, <2>1, <2>2, <2>3, RetireTyped DEF Record
  <2>4. CASE r \notin OneTime
    BY <1>7, <2>1, <2>2, <2>4 DEF Record
  <2> QED
    BY <2>3, <2>4
<1>8. ASSUME NEW r \in Reminders, Done(r) PROVE TypeOK'
  BY <1>8, RetireTyped DEF Done
<1>9. ASSUME NEW r \in Reminders, Passes(r) PROVE TypeOK'
  BY <1>9 DEF Passes
<1>10. ASSUME NEW c \in clean, RemoveJob(c) PROVE TypeOK'
  BY <1>10, TroubleTyped DEF RemoveJob
<1>11. CASE Crash
  <2>1. run' \in [Reminders -> RunRecord] /\ create' \in [Reminders -> CreateSteps]
    BY <1>11, RemindersAssumption DEF Crash, NoRun, RunRecord, CreateSteps
  <2> QED
    BY <1>11, <2>1, TroubleTyped DEF Crash
<1>12. CASE UNCHANGED vars
  BY <1>12 DEF vars
<1> QED
  BY <1>1, <1>2, <1>3, <1>4, <1>5, <1>6, <1>7, <1>8, <1>9, <1>10, <1>11, <1>12 DEF Next

\* The types of the records, of Hermes' jobs and of the requests under way, in every
\* instance.
THEOREM TypeCorrect == Spec => []TypeOK
<1>1. Init => TypeOK
  BY RemindersAssumption
     DEF Init, TypeOK, Statuses, CreateSteps, NoRun, RunRecord
<1>2. TypeOK /\ [Next]_vars => TypeOK'
  BY TypeStep
<1> QED
  BY <1>1, <1>2, PTL DEF Spec
------------------------------------------------------------------------------
(* Late texts.                                                               *)

\* A reminder that is active, or not made yet, has no late text; while a text is on its
\* way there has been none; and nothing is sent of one that is not made yet.
LateInv ==
  \A r \in Reminders :
    /\ status[r] \in {"none", "active"} => late[r] = 0
    /\ run[r].at = "sending" => status[r] # "none" /\ late[r] = 0
    /\ late[r] <= 1

\* Ending a reminder makes no other active.
LEMMA RetireEnds ==
  ASSUME TypeOK, NEW r \in Reminders, NEW ended \in {"retired", "failed"}, Retire(r, ended)
  PROVE  \A s \in Reminders : \/ status'[s] = status[s]
                              \/ status[s] = "active" /\ status'[s] \in {"retired", "failed"}
  BY DEF TypeOK, Retire

\* Once ended, always ended: only a new reminder becomes active, and none becomes new.
LEMMA StatusWriters ==
  ASSUME TypeOK, [Next]_vars, NEW s \in Reminders
  PROVE  \/ status'[s] = status[s]
         \/ Admit(s)
         \/ status'[s] \in {"retired", "failed", "removed"}
<1> USE DEF TypeOK, record, hermes, history
<1> DEFINE Good == \/ status'[s] = status[s]
                   \/ Admit(s)
                   \/ status'[s] \in {"retired", "failed", "removed"}
<1>1. ASSUME NEW r \in Reminders, Admit(r) PROVE Good
  BY <1>1 DEF Admit
<1>2. ASSUME NEW r \in Reminders, CreateStep(r) \/ MakeFails(r) PROVE Good
  BY <1>2 DEF CreateStep, MakeFails, WriteScript, MakeJob, SaveJob, UndoRecord, UndoScript
<1>3. ASSUME NEW r \in Reminders, Stop(r) \/ FireOver(r) \/ Done(r) PROVE Good
  BY <1>3, RetireEnds DEF Stop, FireOver, Done
<1>4. ASSUME NEW r \in Reminders, Record(r) PROVE Good
  BY <1>4, RetireEnds DEF Record
<1>5. ASSUME NEW r \in Reminders,
             Fire(r) \/ FireRetired(r) \/ Text(r) \/ TextFails(r) \/ Passes(r)
      PROVE  Good
  BY <1>5 DEF Fire, FireRetired, Text, TextFails, Passes
<1>6. ASSUME NEW c \in clean, RemoveJob(c) PROVE Good
  BY <1>6 DEF RemoveJob
<1>7. CASE Crash \/ UNCHANGED vars
  BY <1>7 DEF Crash, vars
<1> QED
  BY <1>1, <1>2, <1>3, <1>4, <1>5, <1>6, <1>7 DEF Next, FireStep

\* What a step does to the run and the late texts of one reminder.
LEMMA RunWriters ==
  ASSUME TypeOK, [Next]_vars, NEW s \in Reminders
  PROVE  \/ UNCHANGED <<run[s], late[s]>>
         \/ status[s] = "active" /\ UNCHANGED <<status, late>>
         \/ run[s].at = "sending" /\ run'[s].at = "delivered" /\ UNCHANGED status
            /\ late'[s] = IF status[s] = "active" THEN late[s] ELSE late[s] + 1
         \/ run'[s].at # "sending" /\ UNCHANGED late
<1> USE DEF TypeOK, record, hermes, history
<1> DEFINE Good ==
      \/ UNCHANGED <<run[s], late[s]>>
      \/ status[s] = "active" /\ UNCHANGED <<status, late>>
      \/ run[s].at = "sending" /\ run'[s].at = "delivered" /\ UNCHANGED status
         /\ late'[s] = IF status[s] = "active" THEN late[s] ELSE late[s] + 1
      \/ run'[s].at # "sending" /\ UNCHANGED late
<1>1. UNCHANGED <<run, late>> => Good
  OBVIOUS
<1>2. ASSUME NEW r \in Reminders,
             \/ Admit(r) \/ CreateStep(r) \/ MakeFails(r) \/ Stop(r)
             \/ FireOver(r) \/ FireRetired(r) \/ Done(r) \/ Passes(r)
      PROVE  Good
  BY <1>1, <1>2 DEF Admit, CreateStep, WriteScript, MakeJob, SaveJob, UndoRecord, UndoScript,
     MakeFails, Stop, FireOver, FireRetired, Done, Passes
<1>3. ASSUME NEW r \in Reminders, Fire(r) PROVE Good
  BY <1>3 DEF Fire
<1>4. ASSUME NEW r \in Reminders, Text(r) PROVE Good
  <2>1. CASE r = s
    BY <1>4, <2>1 DEF Text, RunRecord
  <2>2. CASE r # s
    BY <1>4, <2>2 DEF Text
  <2> QED
    BY <2>1, <2>2
<1>5. ASSUME NEW r \in Reminders, TextFails(r) PROVE Good
  <2>1. CASE r = s
    BY <1>5, <2>1 DEF TextFails, RunRecord
  <2>2. CASE r # s
    BY <1>5, <2>2 DEF TextFails
  <2> QED
    BY <2>1, <2>2
<1>6. ASSUME NEW r \in Reminders, Record(r) PROVE Good
  BY <1>6 DEF Record, NoRun
<1>7. ASSUME NEW c \in clean, RemoveJob(c) PROVE Good
  BY <1>1, <1>7 DEF RemoveJob
<1>8. CASE Crash
  BY <1>8 DEF Crash, NoRun
<1>9. CASE UNCHANGED vars
  BY <1>1, <1>9 DEF vars
<1> QED
  BY <1>2, <1>3, <1>4, <1>5, <1>6, <1>7, <1>8, <1>9 DEF Next, FireStep

\* OneLateTextAtMost for every instance: the text that is on its way when a reminder ends
\* is the last one, whatever Hermes, the owner and a restart do.
THEOREM OneLateText == Spec => []OneLateTextAtMost
<1>1. Init => LateInv
  BY DEF Init, LateInv, NoRun
<1>2. TypeOK /\ LateInv /\ [Next]_vars => LateInv'
  <2> SUFFICES ASSUME TypeOK, LateInv, [Next]_vars, NEW s \in Reminders
               PROVE  /\ status'[s] \in {"none", "active"} => late'[s] = 0
                      /\ run'[s].at = "sending" => status'[s] # "none" /\ late'[s] = 0
                      /\ late'[s] <= 1
    BY DEF LateInv
  <2>1. late[s] \in Nat
    BY DEF TypeOK
  <2> QED
    BY <2>1, StatusWriters, RunWriters DEF LateInv, Admit, history, TypeOK
<1>3. LateInv => OneLateTextAtMost
  BY DEF LateInv, OneLateTextAtMost
<1> QED
  BY <1>1, <1>2, <1>3, TypeCorrect, PTL DEF Spec
------------------------------------------------------------------------------
(* The limit.                                                                *)

\* ActiveAreFew for every instance: calls of create that run side by side cannot pass the
\* limit, because the record is made in the transaction that counts.
THEOREM FewActive == Spec => []ActiveAreFew
<1> DEFINE Few == IsFiniteSet(Active) /\ Cardinality(Active) <= MaxActive
<1>1. Init => Few
  <2>1. Init => Active = {}
    BY DEF Init, Active
  <2> QED
    BY <2>1, FS_EmptySet, RemindersAssumption
<1>2. TypeOK /\ Few /\ [Next]_vars => Few'
  <2> SUFFICES ASSUME TypeOK, Few, [Next]_vars PROVE Few'
    OBVIOUS
  <2>1. ASSUME Active' \subseteq Active PROVE Few'
    <3>1. IsFiniteSet(Active') /\ Cardinality(Active') <= Cardinality(Active)
      BY <2>1, FS_Subset
    <3>2. Cardinality(Active) \in Nat /\ Cardinality(Active') \in Nat
      BY <3>1, FS_CardinalityType
    <3> QED
      BY <3>1, <3>2, RemindersAssumption
  <2>2. ASSUME NEW r \in Reminders, Admit(r) PROVE Few'
    <3>1. Active' = Active \cup {r} /\ r \notin Active
      BY <2>2 DEF Admit, Active, TypeOK
    <3>2. IsFiniteSet(Active') /\ Cardinality(Active') = Cardinality(Active) + 1
      BY <3>1, FS_AddElement
    <3>3. Cardinality(Active) \in Nat /\ Cardinality(Active) < MaxActive
      BY <2>2, FS_CardinalityType DEF Admit
    <3> QED
      BY <3>2, <3>3, RemindersAssumption
  <2>3. CASE \A r \in Reminders : ~Admit(r)
    <3>1. ASSUME NEW s \in Reminders, status'[s] = "active" PROVE status[s] = "active"
      BY <2>3, <3>1, StatusWriters
    <3> QED
      BY <2>1, <3>1 DEF Active
  <2> QED
    BY <2>2, <2>3
<1>3. Few => ActiveAreFew
  BY DEF ActiveAreFew
<1> QED
  BY <1>1, <1>2, <1>3, TypeCorrect, PTL DEF Spec
------------------------------------------------------------------------------
(* Why the job of a retired reminder goes.                                   *)

\* As long as no call fails, a retired reminder whose record knew its job keeps the
\* script as long as Hermes has the job: the next run finds the record retired and has the
\* job removed, also after a restart.  It is what KnownJobsGo rests on.
KnownKeepsItsScript ==
  troubles.failed = 0 =>
    \A r \in known \cap job : r \in script /\ r \in jobId /\ status[r] = "retired"

\* Only a create that has ended has saved the job's id; what is known stays retired, and
\* every removal of it under way has the job's id; an active reminder has no removal under
\* way and, once its job may be known, its script; and only a reminder there is runs.
JobInv ==
  \A r \in Reminders :
    /\ create[r] # "ended" => r \notin jobId
    /\ r \in known => r \in jobId /\ status[r] = "retired"
    /\ \A c \in clean : c.of = r => status[r] \notin {"none", "active"} /\ (r \in known => c.withJob)
    /\ status[r] = "active" /\ (r \in jobId \/ create[r] \in {"scripted", "made"}) => r \in script
    /\ troubles.failed = 0 /\ r \in known \cap job => r \in script
    /\ run[r].at # "none" => status[r] # "none"

\* A retired reminder: the removal it gets and what is known of it.
LEMMA RetireKeeps ==
  ASSUME TypeOK, JobInv, NEW r \in Reminders, status[r] # "none",
         NEW ended \in {"retired", "failed"}, Retire(r, ended),
         UNCHANGED <<jobId, script, job, create, troubles>>,
         \A s \in Reminders : run'[s].at # "none" => run[s].at # "none"
  PROVE  JobInv'
<1>1. Removal(r).of = r /\ (r \in jobId => Removal(r).withJob)
  BY DEF Removal
<1> SUFFICES ASSUME NEW s \in Reminders
             PROVE  /\ create'[s] # "ended" => s \notin jobId'
                    /\ s \in known' => s \in jobId' /\ status'[s] = "retired"
                    /\ \A c \in clean' : c.of = s => /\ status'[s] \notin {"none", "active"}
                                                     /\ s \in known' => c.withJob
                    /\ status'[s] = "active" /\ (s \in jobId' \/ create'[s] \in {"scripted", "made"})
                         => s \in script'
                    /\ troubles'.failed = 0 /\ s \in known' \cap job' => s \in script'
                    /\ run'[s].at # "none" => status'[s] # "none"
  BY DEF JobInv
<1>2. CASE s # r
  <2>1. status'[s] = status[s] /\ (s \in known' <=> s \in known)
    BY <1>2 DEF Retire, TypeOK
  <2>2. \A c \in clean' : c.of = s => c \in clean
    BY <1>1, <1>2 DEF Retire
  <2>3. run'[s].at # "none" => status'[s] # "none"
    BY <2>1 DEF JobInv
  <2> QED
    BY <2>1, <2>2, <2>3 DEF JobInv
<1>3. CASE s = r
  <2>1. status'[r] = IF status[r] = "active" THEN ended ELSE status[r]
    BY DEF Retire, TypeOK
  <2>2. s \in known' => s \in jobId /\ status'[s] = "retired"
    BY <1>3, <2>1 DEF Retire, JobInv
  <2>3. ASSUME NEW c \in clean', c.of = s
        PROVE  status'[s] \notin {"none", "active"} /\ (s \in known' => c.withJob)
    <3>1. CASE c \in clean
      BY <1>3, <2>1, <2>3, <3>1 DEF Retire, JobInv
    <3>2. CASE c = Removal(r)
      BY <1>1, <1>3, <2>1, <2>2, <3>2
    <3> QED
      BY <2>3, <3>1, <3>2 DEF Retire
  <2>4. status'[s] # "active"
    BY <1>3, <2>1
  <2>5. troubles'.failed = 0 /\ s \in known' \cap job' => s \in script'
    BY <1>3 DEF Retire, JobInv
  <2>6. status'[s] # "none"
    BY <1>3, <2>1
  <2> QED
    BY <2>2, <2>3, <2>4, <2>5, <2>6 DEF JobInv
<1> QED
  BY <1>2, <1>3

\* A step keeps JobInv.
LEMMA JobStep ==
  ASSUME TypeOK, JobInv, [Next]_vars
  PROVE  JobInv'
<1> USE DEF record, hermes, history
<1>1. ASSUME NEW r \in Reminders, Admit(r) PROVE JobInv'
  BY <1>1 DEF Admit, To, JobInv, TypeOK
<1>2. ASSUME NEW r \in Reminders, WriteScript(r) \/ MakeJob(r) PROVE JobInv'
  BY <1>2 DEF WriteScript, MakeJob, To, JobInv, TypeOK
<1>3. ASSUME NEW r \in Reminders, MakeFails(r) PROVE JobInv'
  <2>1. troubles'.failed # 0
    BY <1>3 DEF MakeFails, Trouble, TypeOK
  <2> QED
    BY <1>3, <2>1 DEF MakeFails, To, JobInv, TypeOK
<1>4. ASSUME NEW r \in Reminders, SaveJob(r) PROVE JobInv'
  BY <1>4 DEF SaveJob, To, JobInv, TypeOK
<1>5. ASSUME NEW r \in Reminders, UndoRecord(r) \/ UndoScript(r) PROVE JobInv'
  BY <1>5 DEF UndoRecord, UndoScript, To, JobInv, TypeOK
<1>6. ASSUME NEW r \in Reminders, Stop(r) \/ FireOver(r) \/ Done(r) PROVE JobInv'
  BY <1>6, RetireKeeps DEF Stop, FireOver, Done
<1>7. ASSUME NEW r \in Reminders, Record(r) PROVE JobInv'
  <2>1. status[r] # "none"
    BY <1>7 DEF Record, JobInv
  <2>2. \A s \in Reminders : run'[s].at # "none" => run[s].at # "none"
    BY <1>7 DEF Record, NoRun, TypeOK
  <2>3. CASE r \in OneTime
    BY <1>7, <2>1, <2>2, <2>3, RetireKeeps DEF Record
  <2>4. CASE r \notin OneTime
    BY <1>7, <2>2, <2>4 DEF Record, JobInv
  <2> QED
    BY <2>3, <2>4
<1>8. ASSUME NEW r \in Reminders, FireRetired(r) PROVE JobInv'
  <2>1. Removal(r).of = r /\ (r \in jobId => Removal(r).withJob)
    BY DEF Removal
  <2> QED
    BY <1>8, <2>1 DEF FireRetired, JobInv
<1>9. ASSUME NEW r \in Reminders, Fire(r) \/ Text(r) \/ TextFails(r) \/ Passes(r)
      PROVE  JobInv'
  <2>1. troubles'.failed = 0 => troubles.failed = 0
    BY <1>9 DEF Fire, Text, TextFails, Passes, Trouble, TypeOK
  <2>2. \A s \in Reminders : run'[s].at # "none" => run[s].at # "none" \/ status[s] = "active"
    BY <1>9 DEF Fire, Text, TextFails, Passes, TypeOK
  <2> QED
    BY <1>9, <2>1, <2>2 DEF Fire, Text, TextFails, Passes, JobInv
<1>10. ASSUME NEW c \in clean, RemoveJob(c) PROVE JobInv'
  <2>1. c.of \in Reminders /\ (c.of \in known => c.withJob)
    BY DEF TypeOK, JobInv
  <2>2. \/ job' = (IF c.withJob THEN job \ {c.of} ELSE job) /\ UNCHANGED troubles
        \/ troubles'.failed # 0 /\ UNCHANGED job
    BY <1>10 DEF RemoveJob, Trouble, TypeOK
  <2>3. status[c.of] # "active"
    BY <2>1 DEF JobInv
  <2> QED
    BY <1>10, <2>1, <2>2, <2>3 DEF RemoveJob, JobInv
<1>11. CASE Crash
  <2>1. troubles'.failed = troubles.failed
    BY <1>11 DEF Crash, Trouble, TypeOK
  <2>2. \A r \in Reminders : create'[r] \in {"none", "ended"} /\ (create[r] = "ended" => create'[r] = "ended")
    BY <1>11 DEF Crash
  <2>3. clean' = {} /\ UNCHANGED <<status, jobId, script, job, known>>
    BY <1>11 DEF Crash
  <2>4. \A r \in Reminders : run'[r].at = "none"
    BY <1>11 DEF Crash, NoRun
  <2> QED
    BY <2>1, <2>2, <2>3, <2>4 DEF JobInv
<1>12. CASE UNCHANGED vars
  BY <1>12 DEF vars, JobInv
<1> QED
  BY <1>1, <1>2, <1>3, <1>4, <1>5, <1>6, <1>7, <1>8, <1>9, <1>10, <1>11, <1>12
     DEF Next, CreateStep, FireStep

\* KnownKeepsItsScript for every instance.
THEOREM KnownKeeps == Spec => []KnownKeepsItsScript
<1>1. Init => JobInv
  BY DEF Init, JobInv, NoRun
<1>2. TypeOK /\ JobInv /\ [Next]_vars => JobInv'
  BY JobStep
<1>3. TypeOK /\ JobInv => KnownKeepsItsScript
  BY DEF JobInv, KnownKeepsItsScript, TypeOK
<1> QED
  BY <1>1, <1>2, <1>3, TypeCorrect, PTL DEF Spec
=============================================================================
