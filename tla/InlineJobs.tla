------------------------------ MODULE InlineJobs ------------------------------
(***************************************************************************)
(* Inline jobs (realtimeGoals/inlineJobs.ts): the turns of a phone call,   *)
(* run by the box within a time budget or, past it, followed by the voice  *)
(* service until the answer lands.  The call speaks the answer, or the     *)
(* owner outbox gets it: OwnerOutbox!AddAnswer is the other end.           *)
(*                                                                         *)
(* The jobs live in memory, and in a file that persist() writes whole at   *)
(* the points below.  An await of the code is a set of jobs whose handler  *)
(* is suspended, and a request on its way is a set too, so that a hang-up, *)
(* a timer or a restart may come first.                                    *)
(***************************************************************************)
EXTENDS Naturals, FiniteSets

CONSTANTS Jobs,
          MaxFaults,   \* bound: requests and outbox writes that fail
          MaxCrashes   \* bound: restarts of the box

ASSUME InlineAssumption == MaxFaults \in Nat /\ MaxCrashes \in Nat

VARIABLES
  job,        \* job[j]: the job in memory, as JobRecord
  disk,       \* disk[j]: the job as inline-jobs.json has it
  turns,      \* jobs whose Hermes turn runs
  ending,     \* jobs whose run() has finished the job and awaits recordBoxTurn
  waiting,    \* POST handlers that wait for the job within the budget
  timer,      \* jobs whose unclaimed timer runs
  handing,    \* jobs whose addAnswer is awaited
  saving,     \* jobs the outbox has, and persist() is to follow
  speaking,   \* claims that await the speakable text
  recovering, \* jobs recover() found running and has not reported
  box,        \* the box is up
  onLine,     \* the owner is on the call
  client,     \* client[j]: what the voice service does about j
  claims,     \* claim requests on their way to the box
  outbox,     \* outbox[j]: what the owner outbox was given for j
  budget      \* the faults and crashes left

handlers == <<ending, waiting, speaking, recovering, saving>>
callVars == <<onLine, client, claims>>
vars == <<job, disk, turns, handlers, timer, handing, box, callVars, outbox, budget>>

------------------------------------------------------------------------------
JobRecord == [status : {"none", "running", "done", "failed", "lost"},
              source : {"none", "broker", "hermes"},
              claimed : BOOLEAN, detached : BOOLEAN, delivered : BOOLEAN]

NoJob == [status |-> "none", source |-> "none", claimed |-> FALSE,
          detached |-> FALSE, delivered |-> FALSE]

Clients == {"idle", "asked", "following", "claiming", "detaching",
            "spoke", "gone", "direct"}

\* What deliverElsewhere says of a job that is over.
Texts == {"answer", "sorry", "restarted"}

TextOf(r) == CASE r.status = "done" -> "answer"
               [] r.status = "lost" -> "restarted"
               [] OTHER -> "sorry"

Init ==
  /\ job = [j \in Jobs |-> NoJob] /\ disk = job
  /\ turns = {} /\ ending = {} /\ waiting = {} /\ timer = {} /\ handing = {}
  /\ saving = {} /\ speaking = {} /\ recovering = {} /\ box = TRUE
  /\ onLine = TRUE /\ client = [j \in Jobs |-> "idle"] /\ claims = {}
  /\ outbox = [j \in Jobs |-> {}]
  /\ budget = [faults |-> MaxFaults, crashes |-> MaxCrashes]

Spend(what) ==
  /\ budget[what] > 0
  /\ budget' = [budget EXCEPT ![what] = @ - 1]

\* A request of the voice service fails while the box is down, or by a fault.
RequestLost == IF box THEN Spend("faults") ELSE UNCHANGED budget

\* Mutant: a turn that still runs is handed over too.
DeliversRunning(r) == ~r.delivered /\ r.source # "broker" /\ (r.claimed => r.detached)

\* The early returns of deliverElsewhere.
Delivers(r) ==
  /\ r.status \in {"done", "failed", "lost"} /\ ~r.delivered /\ r.source # "broker"
  /\ r.claimed => r.detached

\* j's record becomes r, and deliverElsewhere is called on it: up to its await,
\* or back to the caller, which persists.
HandOver(j, r) ==
  IF Delivers(r)
  THEN /\ job' = [job EXCEPT ![j] = [r EXCEPT !.delivered = TRUE]]
       /\ handing' = handing \cup {j} /\ timer' = timer \ {j} /\ UNCHANGED disk
  ELSE /\ job' = [job EXCEPT ![j] = r] /\ disk' = job' /\ UNCHANGED <<handing, timer>>

------------------------------------------------------------------------------
(* The turn.                                                                 *)

\* POST /jobs: the goal broker answers itself, or a Hermes turn starts.
Start(j) ==
  /\ box /\ onLine /\ client[j] = "idle"
  /\ \/ /\ job' = [job EXCEPT ![j].status = "done", ![j].source = "broker"]
        /\ UNCHANGED turns
     \/ /\ job' = [job EXCEPT ![j].status = "running"]
        /\ turns' = turns \cup {j}
  /\ disk' = job' /\ waiting' = waiting \cup {j}
  /\ client' = [client EXCEPT ![j] = "asked"]
  /\ UNCHANGED <<saving, ending, speaking, recovering, timer, handing, box, onLine,
                 claims, outbox, budget>>

Outcomes == {[status |-> "done", source |-> "hermes"],
             [status |-> "failed", source |-> "none"]}

\* Hermes answers, or the turn fails or is aborted after JOB_MAX_MS.
Finish(j) ==
  /\ j \in turns /\ turns' = turns \ {j} /\ ending' = ending \cup {j}
  /\ \E o \in Outcomes :
       job' = [job EXCEPT ![j].status = o.status, ![j].source = o.source]
  /\ disk' = job'
  /\ UNCHANGED <<saving, waiting, speaking, recovering, timer, handing, box, callVars,
                 outbox, budget>>

\* Mutant: an answer nobody claims is left to the voice service.
AfterRunUntimed(j) ==
  /\ j \in ending /\ ending' = ending \ {j}
  /\ IF job[j].detached THEN HandOver(j, job[j])
     ELSE disk' = job /\ UNCHANGED <<job, handing, timer>>
  /\ UNCHANGED <<saving, turns, waiting, speaking, recovering, box, callVars, outbox, budget>>

\* The end of run(): a detached job goes elsewhere; one that nobody claimed yet
\* will, unless it is claimed within UNCLAIMED_DELIVERY_MS.
AfterRun(j) ==
  /\ j \in ending /\ ending' = ending \ {j}
  /\ IF job[j].detached THEN HandOver(j, job[j])
     ELSE /\ timer' = IF job[j].claimed THEN timer ELSE timer \cup {j}
          /\ disk' = job /\ UNCHANGED <<job, handing>>
  /\ UNCHANGED <<saving, turns, waiting, speaking, recovering, box, callVars, outbox, budget>>

\* A POST handler that still waits is woken by the end of the turn, long before.
TimerFires(j) ==
  /\ j \in timer \ waiting /\ ~job[j].claimed
  /\ HandOver(j, job[j])
  /\ UNCHANGED <<turns, handlers, box, callVars, outbox, budget>>

\* The outbox has the text of j, once.
AddAnswer(j) ==
  /\ j \in handing /\ handing' = handing \ {j} /\ saving' = saving \cup {j}
  /\ outbox' = [outbox EXCEPT ![j] = @ \cup {TextOf(job[j])}]
  /\ UNCHANGED <<job, disk, turns, ending, waiting, speaking, recovering, timer, box,
                 callVars, budget>>

\* The caller of deliverElsewhere persists, recover() when it has reported every
\* job.
Persist(j) ==
  /\ j \in saving /\ saving' = saving \ {j}
  /\ disk' = IF job[j].status = "lost" /\ recovering # {} THEN disk ELSE job
  /\ UNCHANGED <<job, turns, ending, waiting, speaking, recovering, timer, handing, box,
                 callVars, outbox, budget>>

\* The outbox transaction fails: recovery ends there.  Anywhere else nothing
\* catches the rejection and the process ends, which is Crash.
AddAnswerFails(j) ==
  /\ j \in handing /\ job[j].status = "lost" /\ Spend("faults")
  /\ handing' = handing \ {j} /\ recovering' = {}
  /\ UNCHANGED <<saving, job, disk, turns, ending, waiting, speaking, timer, box, callVars, outbox>>

------------------------------------------------------------------------------
(* The call.                                                                 *)

\* The job finished while its POST waited: the handler claims it for the call.
AnswerInBudget(j) ==
  /\ j \in waiting /\ job[j].status # "running"
  /\ waiting' = waiting \ {j} /\ speaking' = speaking \cup {j}
  /\ job' = [job EXCEPT ![j].claimed = TRUE] /\ timer' = timer \ {j}
  /\ UNCHANGED <<saving, disk, turns, ending, recovering, handing, box, callVars, outbox, budget>>

\* Where a request that was answered leaves the voice service: a call that has
\* ended has the job delivered elsewhere.
Then(j, next) ==
  client' = [client EXCEPT ![j] = IF @ # "asked" THEN @ ELSE
                                  IF onLine THEN next ELSE "detaching"]

\* Past the budget the call says "still working" and follows the job.
BudgetPasses(j) ==
  /\ j \in waiting /\ job[j].status = "running" /\ waiting' = waiting \ {j}
  /\ Then(j, "following")
  /\ UNCHANGED <<saving, job, disk, turns, ending, speaking, recovering, timer, handing,
                 box, onLine, claims, outbox, budget>>

\* The POST fails on its way back: the voice service asks Hermes itself.
AskFails(j) ==
  /\ client[j] = "asked" /\ Spend("faults")
  /\ client' = [client EXCEPT ![j] = "direct"]
  /\ UNCHANGED <<job, disk, turns, handlers, timer, handing, box, onLine, claims, outbox>>

\* A poll of followLateAnswer finds the job over.
Follow(j) ==
  /\ box /\ client[j] = "following" /\ job[j].status # "running"
  /\ client' = [client EXCEPT ![j] = "claiming"] /\ claims' = claims \cup {j}
  /\ UNCHANGED <<job, disk, turns, handlers, timer, handing, box, onLine, outbox, budget>>

\* LATE_ANSWER_MAX_MS has passed, or a poll or the claim failed: the job is
\* left to the box.
GiveUp(j) ==
  /\ \/ client[j] = "following" /\ job[j].status = "running" /\ UNCHANGED budget
     \/ client[j] \in {"following", "claiming"} /\ Spend("faults")
  /\ client' = [client EXCEPT ![j] = "detaching"]
  /\ UNCHANGED <<job, disk, turns, handlers, timer, handing, box, onLine, claims, outbox>>

\* Mutant: an answer delivered elsewhere is claimed all the same.
ClaimAnyway(j) ==
  /\ box /\ j \in claims /\ claims' = claims \ {j}
  /\ IF job[j].status = "running" \/ job[j].detached
     THEN /\ client' = [client EXCEPT ![j] = IF @ = "claiming" THEN "gone" ELSE @]
          /\ UNCHANGED <<job, timer, speaking>>
     ELSE /\ job' = [job EXCEPT ![j].claimed = TRUE] /\ timer' = timer \ {j}
          /\ speaking' = speaking \cup {j} /\ UNCHANGED client
  /\ UNCHANGED <<saving, disk, turns, ending, waiting, recovering, handing, box, onLine,
                 outbox, budget>>

\* claim(): refused once the answer is delivered elsewhere or left to be.
ClaimArrives(j) ==
  /\ box /\ j \in claims /\ claims' = claims \ {j}
  /\ IF job[j].status = "running" \/ job[j].delivered \/ job[j].detached
     THEN /\ client' = [client EXCEPT ![j] = IF @ = "claiming" THEN "gone" ELSE @]
          /\ UNCHANGED <<job, timer, speaking>>
     ELSE /\ job' = [job EXCEPT ![j].claimed = TRUE] /\ timer' = timer \ {j}
          /\ speaking' = speaking \cup {j} /\ UNCHANGED client
  /\ UNCHANGED <<saving, disk, turns, ending, waiting, recovering, handing, box, onLine,
                 outbox, budget>>

\* The links are texted, and the reply lets the call speak if it is still up.
Reply(j) ==
  /\ j \in speaking /\ speaking' = speaking \ {j} /\ disk' = job
  /\ IF client[j] = "claiming" THEN client' = [client EXCEPT ![j] = "spoke"]
     ELSE Then(j, "spoke")
  /\ UNCHANGED <<saving, job, turns, ending, waiting, recovering, timer, handing, box,
                 onLine, claims, outbox, budget>>

\* close(): what is followed is left to the box at once, a POST when it returns.
HangUp ==
  /\ onLine /\ onLine' = FALSE
  /\ client' = [j \in Jobs |-> IF client[j] \in {"following", "claiming"}
                               THEN "detaching" ELSE client[j]]
  /\ UNCHANGED <<job, disk, turns, handlers, timer, handing, box, claims, outbox, budget>>

\* detach(): an answer that is over goes elsewhere at once.
DetachArrives(j) ==
  /\ box /\ client[j] = "detaching" /\ client' = [client EXCEPT ![j] = "gone"]
  /\ HandOver(j, [job[j] EXCEPT !.detached = TRUE])
  /\ UNCHANGED <<turns, handlers, box, onLine, claims, outbox, budget>>

\* detachPhoneThinkJob tries once.
DetachFails(j) ==
  /\ client[j] = "detaching" /\ RequestLost
  /\ client' = [client EXCEPT ![j] = "gone"]
  /\ UNCHANGED <<job, disk, turns, handlers, timer, handing, box, onLine, claims, outbox>>

------------------------------------------------------------------------------
(* Restarts.                                                                 *)

\* Requests are cut off: a POST falls back to Hermes, a followed job is left.
Crash ==
  /\ box /\ Spend("crashes") /\ box' = FALSE /\ job' = disk
  /\ turns' = {} /\ ending' = {} /\ waiting' = {} /\ timer' = {} /\ handing' = {}
  /\ saving' = {} /\ speaking' = {} /\ recovering' = {} /\ claims' = {}
  /\ client' = [j \in Jobs |->
       CASE client[j] = "asked" -> "direct"
         [] client[j] \in {"following", "claiming"} -> "detaching"
         [] OTHER -> client[j]]
  /\ UNCHANGED <<disk, onLine, outbox>>

\* recover() reads the file and takes the jobs that were running.
Boot ==
  /\ ~box /\ box' = TRUE
  /\ recovering' = {j \in Jobs : job[j].status = "running"}
  /\ UNCHANGED <<saving, job, disk, turns, ending, waiting, speaking, timer, handing,
                 callVars, outbox, budget>>

\* Mutant: a job that was running is only marked as lost.
RecoverSilently(j) ==
  /\ j \in recovering /\ recovering' = recovering \ {j}
  /\ job' = [job EXCEPT ![j].status = "lost"] /\ disk' = job'
  /\ UNCHANGED <<saving, turns, ending, waiting, speaking, timer, handing, box, callVars,
                 outbox, budget>>

\* One lost job at a time is reported, in an order of its own.
RecoverNext(j) ==
  /\ j \in recovering /\ \A k \in handing \cup saving : job[k].status # "lost"
  /\ recovering' = recovering \ {j}
  /\ HandOver(j, [job[j] EXCEPT !.status = "lost"])
  /\ UNCHANGED <<saving, turns, ending, waiting, speaking, box, callVars, outbox, budget>>

------------------------------------------------------------------------------
BoxSteps(j) ==
  \/ Finish(j) \/ AfterRun(j) \/ TimerFires(j) \/ AddAnswer(j) \/ Persist(j)
  \/ AnswerInBudget(j) \/ Reply(j) \/ RecoverNext(j)

Requests(j) == Follow(j) \/ ClaimArrives(j) \/ DetachArrives(j)

Next ==
  \/ \E j \in Jobs :
       \/ Start(j) \/ BoxSteps(j) \/ BudgetPasses(j) \/ Requests(j)
       \/ AskFails(j) \/ GiveUp(j) \/ DetachFails(j) \/ AddAnswerFails(j)
  \/ HangUp \/ Crash \/ Boot

Spec == Init /\ [][Next]_vars

\* Handlers, timers and requests go on, and the box is started again; nothing is
\* asked of the owner.  A step of a job is never undone, so that fairness of their
\* disjunction is that of each.
FairSpec ==
  /\ Spec /\ WF_vars(Boot)
  /\ \A j \in Jobs : WF_vars(BoxSteps(j)) /\ WF_vars(Requests(j))

------------------------------------------------------------------------------
(* Properties.                                                               *)

Over(j) == job[j].status \in {"done", "failed", "lost"}

\* The types, and that what runs or waits belongs to a job of the right status
\* (InlineJobs and its maps).
TypeOK ==
  /\ job \in [Jobs -> JobRecord] /\ disk \in [Jobs -> JobRecord]
  /\ \A s \in {turns, ending, waiting, timer, handing, saving, speaking,
               recovering, claims} :
       s \subseteq Jobs
  /\ box \in BOOLEAN /\ onLine \in BOOLEAN
  /\ client \in [Jobs -> Clients] /\ outbox \in [Jobs -> SUBSET Texts]
  /\ budget \in [faults : 0..MaxFaults, crashes : 0..MaxCrashes]
  /\ \A j \in turns : job[j].status = "running"
  /\ \A j \in ending \cup timer \cup handing \cup saving : Over(j)

\* An answer the call speaks is not sent as well, whatever crosses the claim:
\* the unclaimed timer, a hang-up, a poll or a claim that fails, a restart
\* (inlineJobs.ts claim, deliverElsewhere).
SpokenIsNotTexted ==
  \A j \in Jobs : client[j] = "spoke" => j \notin handing /\ outbox[j] = {}

\* The owner is told one thing of a job: never an answer and then, after a
\* restart, that it was lost (inlineJobs.ts finish, deliverElsewhere, recover).
OneTextPerJob == \A j \in Jobs : Cardinality(outbox[j]) <= 1

Asked(j) == j \in turns

\* The job is spoken or in the outbox, or the voice service asked Hermes itself.
Reached(j) == client[j] \in {"spoke", "direct"} \/ outbox[j] # {}

\* A Hermes turn reaches the owner while the box is up, whatever order the claim,
\* the timer and the hang-up come in; lost requests lose only an answer the call
\* has claimed (inlineJobs.ts run, claim, detach).
Answered ==
  \A j \in Jobs :
    Asked(j) ~> \/ Reached(j) \/ ~box
                \/ job[j].claimed /\ budget.faults < MaxFaults

\* A turn that the last restart interrupts is reported to the owner, unless a
\* request or the outbox fails (inlineJobs.ts recover).
RestartIsTold ==
  \A j \in Jobs :
    (~box /\ disk[j].status = "running" /\ budget.crashes = 0)
      ~> (outbox[j] # {} \/ budget.faults < MaxFaults)

------------------------------------------------------------------------------
(* What the repository says of the jobs and the code does not keep.          *)

\* "Its answer is spoken when it lands if the owner is still on the line, and otherwise
\* delivered by the owner outbox - never dropped" (inlineJobs.ts:8), restarts of the box
\* included.
NeverDropped == \A j \in Jobs : Asked(j) ~> Reached(j)

===============================================================================
