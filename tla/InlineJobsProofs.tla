--------------------------- MODULE InlineJobsProofs ---------------------------
(***************************************************************************)
(* Theorems about the turns of a phone call, for every set of jobs and     *)
(* every bound.                                                            *)
(***************************************************************************)
EXTENDS InlineJobs, FiniteSetTheorems, TLAPS

\* What the outbox gets of a job if it is handed over, a running one after a restart.
Says(r) == IF r.status = "running" THEN "restarted" ELSE TextOf(r)

Untold(j) == j \notin handing /\ outbox[j] = {}

\* Where a restart leaves the voice service.
Parted == {"direct", "detaching", "gone", "spoke"}

\* The life of a job, as the requests of the call and the memory of the box see it.
Good(j) ==
  /\ client[j] = "idle" => /\ job[j].status = "none" /\ disk[j].status = "none"
                           /\ outbox[j] = {} /\ j \notin waiting \cup speaking
  /\ j \in recovering => /\ job[j].status = "running" /\ client[j] \in Parted
                         /\ j \notin turns \cup waiting
  /\ ~box => /\ client[j] \in {"idle"} \cup Parted
             /\ j \notin turns \cup ending \cup waiting \cup timer \cup handing \cup
                         saving \cup speaking \cup recovering \cup claims
  /\ client[j] = "asked" => j \in waiting \cup speaking
  /\ j \in waiting => client[j] \in {"asked", "direct"} /\ j \notin speaking /\ Untold(j)
  /\ j \in speaking => /\ job[j].claimed /\ job[j].status # "running"
                       /\ client[j] # "following" /\ j \notin claims
                       /\ client[j] \in {"asked", "claiming"} => Untold(j)
  /\ j \in claims => client[j] \in {"claiming", "detaching", "gone"}
  /\ client[j] \in {"following", "claiming"} => Untold(j) \/ job[j].delivered
  /\ client[j] = "spoke" => Untold(j) /\ job[j].claimed /\ disk[j].claimed
  /\ client[j] \notin {"detaching", "gone"} => ~job[j].detached /\ ~disk[j].detached
  /\ Says(disk[j]) = Says(job[j]) /\ outbox[j] \subseteq {Says(job[j])}
  /\ j \in turns => job[j].status = "running" /\ outbox[j] = {}
  /\ j \in ending \cup timer \cup handing \cup saving => Over(j)

Types ==
  /\ job \in [Jobs -> JobRecord] /\ disk \in [Jobs -> JobRecord]
  /\ client \in [Jobs -> Clients] /\ outbox \in [Jobs -> SUBSET Texts]
  /\ turns \subseteq Jobs /\ ending \subseteq Jobs /\ waiting \subseteq Jobs
  /\ timer \subseteq Jobs /\ handing \subseteq Jobs /\ saving \subseteq Jobs
  /\ speaking \subseteq Jobs /\ recovering \subseteq Jobs /\ claims \subseteq Jobs
  /\ box \in BOOLEAN /\ onLine \in BOOLEAN
  /\ budget \in [faults : 0..MaxFaults, crashes : 0..MaxCrashes]

Inv == Types /\ \A j \in Jobs : Good(j)

\* A step leaves job k alone, but for its copy on disk.
Kept(k) ==
  /\ job'[k] = job[k] /\ disk'[k] \in {disk[k], job[k]} /\ client'[k] = client[k]
  /\ outbox'[k] = outbox[k] /\ box' = box
  /\ k \in turns' <=> k \in turns
  /\ k \in ending' <=> k \in ending
  /\ k \in waiting' <=> k \in waiting
  /\ k \in timer' <=> k \in timer
  /\ k \in handing' <=> k \in handing
  /\ k \in saving' <=> k \in saving
  /\ k \in speaking' <=> k \in speaking
  /\ k \in recovering' => k \in recovering
  /\ k \in claims' <=> k \in claims

\* The record of j is written, and nothing else of the jobs; or it is handed over too.
Written(j, r) ==
  /\ ~Delivers(r) /\ job'[j] = r /\ disk'[j] = r
  /\ handing' = handing /\ timer' = timer

Handed(j, r) ==
  /\ Delivers(r) /\ job'[j] = [r EXCEPT !.delivered = TRUE] /\ disk'[j] = disk[j]
  /\ handing' = handing \cup {j} /\ timer' = timer \ {j}

\* The record of j after a step: its status, and whether it is claimed, left or delivered.
Is(q, status, claimed, detached, delivered) ==
  q.status = status /\ q.claimed = claimed /\ q.detached = detached /\ q.delivered = delivered

Same(q, r) == Is(q, r.status, r.claimed, r.detached, r.delivered)

\* What becomes of a record leaves one, and changes what it says.
LEMMA JobTyped ==
  ASSUME NEW r \in JobRecord
  PROVE  /\ [r EXCEPT !.status = "running"] \in JobRecord
         /\ [r EXCEPT !.status = "lost"] \in JobRecord
         /\ [r EXCEPT !.status = "done", !.source = "broker"] \in JobRecord
         /\ [r EXCEPT !.claimed = TRUE] \in JobRecord
         /\ [r EXCEPT !.detached = TRUE] \in JobRecord
         /\ [r EXCEPT !.delivered = TRUE] \in JobRecord
         /\ \A o \in Outcomes : [r EXCEPT !.status = o.status, !.source = o.source] \in JobRecord
         /\ Is([r EXCEPT !.status = "running"], "running", r.claimed, r.detached, r.delivered)
         /\ Is([r EXCEPT !.status = "lost"], "lost", r.claimed, r.detached, r.delivered)
         /\ Is([r EXCEPT !.status = "done", !.source = "broker"], "done", r.claimed, r.detached, r.delivered)
         /\ Is([r EXCEPT !.detached = TRUE], r.status, r.claimed, TRUE, r.delivered)
         /\ Is([r EXCEPT !.delivered = TRUE], r.status, r.claimed, r.detached, TRUE)
         /\ \A o \in Outcomes :
              Is([r EXCEPT !.status = o.status, !.source = o.source], o.status, r.claimed, r.detached, r.delivered)
<1>1. \A o \in Outcomes : o.status \in {"done", "failed"} /\ o.source \in {"none", "hermes"}
  BY DEF Outcomes
<1>2. \A o \in Outcomes : [r EXCEPT !.status = o.status, !.source = o.source] \in JobRecord
  BY <1>1 DEF JobRecord
<1>3. /\ Is([r EXCEPT !.status = "running"], "running", r.claimed, r.detached, r.delivered)
      /\ Is([r EXCEPT !.status = "lost"], "lost", r.claimed, r.detached, r.delivered)
  BY DEF JobRecord, Is
<1>4. Is([r EXCEPT !.status = "done", !.source = "broker"], "done", r.claimed, r.detached, r.delivered)
  BY DEF JobRecord, Is
<1>5. Is([r EXCEPT !.detached = TRUE], r.status, r.claimed, TRUE, r.delivered)
  BY DEF JobRecord, Is
<1>6. Is([r EXCEPT !.delivered = TRUE], r.status, r.claimed, r.detached, TRUE)
  BY DEF JobRecord, Is
<1>7. \A o \in Outcomes :
        Is([r EXCEPT !.status = o.status, !.source = o.source], o.status, r.claimed, r.detached, r.delivered)
  BY DEF JobRecord, Is
<1>8. /\ [r EXCEPT !.status = "running"] \in JobRecord
      /\ [r EXCEPT !.status = "lost"] \in JobRecord
      /\ [r EXCEPT !.status = "done", !.source = "broker"] \in JobRecord
      /\ [r EXCEPT !.claimed = TRUE] \in JobRecord
      /\ [r EXCEPT !.detached = TRUE] \in JobRecord
      /\ [r EXCEPT !.delivered = TRUE] \in JobRecord
  BY DEF JobRecord
<1> QED
  BY <1>2, <1>3, <1>4, <1>5, <1>6, <1>7, <1>8

\* The invariant is inductive.
LEMMA Step ==
  ASSUME Inv, [Next]_vars
  PROVE  Inv'
<1>1. /\ job \in [Jobs -> JobRecord] /\ disk \in [Jobs -> JobRecord]
      /\ client \in [Jobs -> Clients] /\ outbox \in [Jobs -> SUBSET Texts]
  BY DEF Inv, Types
<1>2. ASSUME NEW k \in Jobs, Kept(k) PROVE Good(k)'
  <2>1. Good(k)
    BY DEF Inv
  <2> QED
    BY <1>2, <2>1 DEF Kept, Good, Untold, Over
<1>3. ASSUME NEW j \in Jobs, NEW r \in JobRecord, HandOver(j, r)
      PROVE  /\ job' \in [Jobs -> JobRecord] /\ disk' \in [Jobs -> JobRecord]
             /\ Written(j, r) \/ Handed(j, r)
             /\ \A k \in Jobs \ {j} : /\ job'[k] = job[k] /\ disk'[k] \in {disk[k], job[k]}
                                      /\ k \in handing' <=> k \in handing
                                      /\ k \in timer' <=> k \in timer
  BY <1>1, <1>3, JobTyped DEF HandOver, Written, Handed
<1>4. ASSUME NEW j \in Jobs, Start(j) PROVE Inv'
  <2>1. \A k \in Jobs \ {j} : Kept(k)
    BY <1>1, <1>4 DEF Start, Kept, callVars, handlers
  <2> DEFINE broker == [job[j] EXCEPT !.status = "done", !.source = "broker"]
             hermes == [job[j] EXCEPT !.status = "running"]
  <2>8. \/ job' = [job EXCEPT ![j] = broker] /\ turns' = turns
        \/ job' = [job EXCEPT ![j] = hermes] /\ turns' = turns \cup {j}
    BY <1>1, <1>4 DEF Start
  <2>9. job[j] \in JobRecord
    BY <1>1
  <2>10. /\ broker \in JobRecord /\ hermes \in JobRecord
         /\ Is(broker, "done", job[j].claimed, job[j].detached, job[j].delivered)
         /\ Is(hermes, "running", job[j].claimed, job[j].detached, job[j].delivered)
    BY <2>9, JobTyped
  <2>11. disk' = job'
    BY <1>4 DEF Start
  <2> HIDE DEF broker, hermes
  <2>2. job' \in [Jobs -> JobRecord] /\ disk' \in [Jobs -> JobRecord]
    BY <1>1, <2>8, <2>10, <2>11
  <2>3. client' \in [Jobs -> Clients] /\ outbox' \in [Jobs -> SUBSET Texts]
    BY <1>1, <1>4 DEF Start, callVars, Clients, Texts, TextOf
  <2>4. Types'
    BY <1>4, <2>2, <2>3, InlineAssumption DEF Inv, Types, Start, callVars, handlers, Spend, RequestLost
  <2>5. /\ box /\ client[j] = "idle"
        /\ \/ Is(job'[j], "done", job[j].claimed, job[j].detached, job[j].delivered) /\ turns' = turns
           \/ Is(job'[j], "running", job[j].claimed, job[j].detached, job[j].delivered) /\ turns' = turns \cup {j}
        /\ disk'[j] = job'[j]
        /\ client'[j] = "asked"
        /\ waiting' = waiting \cup {j}
        /\ UNCHANGED <<outbox, ending, timer, handing, saving, speaking, recovering, claims, box>>
    <3>1. \/ job'[j] = broker /\ turns' = turns
          \/ job'[j] = hermes /\ turns' = turns \cup {j}
      BY <1>1, <2>8
    <3>2. /\ box /\ client[j] = "idle" /\ client'[j] = "asked" /\ waiting' = waiting \cup {j}
          /\ UNCHANGED <<outbox, ending, timer, handing, saving, speaking, recovering, claims, box>>
      BY <1>1, <1>4 DEF Start, callVars, handlers
    <3> QED
      BY <2>10, <2>11, <3>1, <3>2 DEF Is
  <2>6. Good(j)
    BY DEF Inv
  <2>7. Good(j)'
    BY <2>5, <2>6 DEF Good, Untold, Over, Says, TextOf, Parted, Is
  <2> QED
    BY <1>2, <2>1, <2>4, <2>7 DEF Inv
<1>5. ASSUME NEW j \in Jobs, Finish(j) PROVE Inv'
  <2>1. \A k \in Jobs \ {j} : Kept(k)
    BY <1>1, <1>5 DEF Finish, Kept, callVars, handlers
  <2>8. PICK o \in Outcomes :
          job' = [job EXCEPT ![j] = [job[j] EXCEPT !.status = o.status, !.source = o.source]]
    BY <1>1, <1>5 DEF Finish
  <2> DEFINE r == [job[j] EXCEPT !.status = o.status, !.source = o.source]
  <2>9. job[j] \in JobRecord
    BY <1>1
  <2>10. r \in JobRecord /\ Is(r, o.status, job[j].claimed, job[j].detached, job[j].delivered)
    BY <2>9, JobTyped
  <2>11. disk' = job'
    BY <1>5 DEF Finish
  <2> HIDE DEF r
  <2>12. job' = [job EXCEPT ![j] = r]
    BY <2>8 DEF r
  <2>2. job' \in [Jobs -> JobRecord] /\ disk' \in [Jobs -> JobRecord]
    BY <1>1, <2>10, <2>11, <2>12
  <2>3. client' \in [Jobs -> Clients] /\ outbox' \in [Jobs -> SUBSET Texts]
    BY <1>1, <1>5 DEF Finish, callVars, Clients, Texts, TextOf
  <2>4. Types'
    BY <1>5, <2>2, <2>3, InlineAssumption DEF Inv, Types, Finish, callVars, handlers, Spend, RequestLost
  <2>5. /\ j \in turns
        /\ \E x \in {"done", "failed"} : Is(job'[j], x, job[j].claimed, job[j].detached, job[j].delivered)
        /\ disk'[j] = job'[j]
        /\ turns' = turns \ {j}
        /\ ending' = ending \cup {j}
        /\ UNCHANGED <<client, outbox, waiting, timer, handing, saving, speaking, recovering, claims, box>>
    <3>1. job'[j] = r
      BY <1>1, <2>12
    <3>2. o.status \in {"done", "failed"}
      BY <2>8 DEF Outcomes
    <3>3. /\ j \in turns /\ turns' = turns \ {j} /\ ending' = ending \cup {j}
          /\ UNCHANGED <<client, outbox, waiting, timer, handing, saving, speaking, recovering, claims, box>>
      BY <1>5 DEF Finish, callVars, handlers
    <3>4. Is(job'[j], o.status, job[j].claimed, job[j].detached, job[j].delivered)
      BY <2>10, <3>1
    <3>5. disk'[j] = job'[j]
      BY <2>11
    <3> QED
      BY <3>2, <3>3, <3>4, <3>5
  <2>6. Good(j)
    BY DEF Inv
  <2>7. Good(j)'
    BY <2>5, <2>6 DEF Good, Untold, Over, Says, TextOf, Parted, Is
  <2> QED
    BY <1>2, <2>1, <2>4, <2>7 DEF Inv
<1>6. ASSUME NEW j \in Jobs, AddAnswer(j) PROVE Inv'
  <2>1. \A k \in Jobs \ {j} : Kept(k)
    BY <1>1, <1>6 DEF AddAnswer, Kept, callVars, handlers
  <2>2. job' \in [Jobs -> JobRecord] /\ disk' \in [Jobs -> JobRecord]
    BY <1>1, <1>6, JobTyped DEF AddAnswer
  <2>3. client' \in [Jobs -> Clients] /\ outbox' \in [Jobs -> SUBSET Texts]
    BY <1>1, <1>6 DEF AddAnswer, callVars, Clients, Texts, TextOf
  <2>4. Types'
    BY <1>6, <2>2, <2>3, InlineAssumption DEF Inv, Types, AddAnswer, callVars, handlers, Spend, RequestLost
  <2>5. /\ j \in handing
        /\ outbox'[j] = outbox[j] \cup {TextOf(job[j])}
        /\ handing' = handing \ {j}
        /\ saving' = saving \cup {j}
        /\ UNCHANGED <<job, disk, client, turns, ending, waiting, timer, speaking, recovering, claims, box>>
    BY <1>1, <1>6 DEF AddAnswer, callVars, handlers, JobRecord, Is
  <2>6. Good(j)
    BY DEF Inv
  <2>7. Good(j)'
    BY <2>5, <2>6 DEF Good, Untold, Over, Says, TextOf, Parted, Is
  <2> QED
    BY <1>2, <2>1, <2>4, <2>7 DEF Inv
<1>7. ASSUME NEW j \in Jobs, Persist(j) PROVE Inv'
  <2>1. \A k \in Jobs \ {j} : Kept(k)
    BY <1>1, <1>7 DEF Persist, Kept, callVars, handlers
  <2>2. job' \in [Jobs -> JobRecord] /\ disk' \in [Jobs -> JobRecord]
    BY <1>1, <1>7, JobTyped DEF Persist
  <2>3. client' \in [Jobs -> Clients] /\ outbox' \in [Jobs -> SUBSET Texts]
    BY <1>1, <1>7 DEF Persist, callVars, Clients, Texts, TextOf
  <2>4. Types'
    BY <1>7, <2>2, <2>3, InlineAssumption DEF Inv, Types, Persist, callVars, handlers, Spend, RequestLost
  <2>5. /\ j \in saving
        /\ disk'[j] \in {disk[j], job[j]}
        /\ saving' = saving \ {j}
        /\ UNCHANGED <<job, client, outbox, turns, ending, waiting, timer, handing, speaking, recovering, claims, box>>
    BY <1>1, <1>7 DEF Persist, callVars, handlers, JobRecord, Is
  <2>6. Good(j)
    BY DEF Inv
  <2>7. Good(j)'
    BY <2>5, <2>6 DEF Good, Untold, Over, Says, TextOf, Parted, Is
  <2> QED
    BY <1>2, <2>1, <2>4, <2>7 DEF Inv
<1>8. ASSUME NEW j \in Jobs, AddAnswerFails(j) PROVE Inv'
  <2>1. \A k \in Jobs \ {j} : Kept(k)
    BY <1>1, <1>8 DEF AddAnswerFails, Kept, callVars, handlers
  <2>2. job' \in [Jobs -> JobRecord] /\ disk' \in [Jobs -> JobRecord]
    BY <1>1, <1>8, JobTyped DEF AddAnswerFails
  <2>3. client' \in [Jobs -> Clients] /\ outbox' \in [Jobs -> SUBSET Texts]
    BY <1>1, <1>8 DEF AddAnswerFails, callVars, Clients, Texts, TextOf
  <2>4. Types'
    BY <1>8, <2>2, <2>3, InlineAssumption DEF Inv, Types, AddAnswerFails, callVars, handlers, Spend, RequestLost
  <2>5. /\ j \in handing
        /\ handing' = handing \ {j}
        /\ recovering' = {}
        /\ UNCHANGED <<job, disk, client, outbox, turns, ending, waiting, timer, saving, speaking, claims, box>>
    BY <1>1, <1>8 DEF AddAnswerFails, callVars, handlers, JobRecord, Is
  <2>6. Good(j)
    BY DEF Inv
  <2>7. Good(j)'
    BY <2>5, <2>6 DEF Good, Untold, Over, Says, TextOf, Parted, Is
  <2> QED
    BY <1>2, <2>1, <2>4, <2>7 DEF Inv
<1>9. ASSUME NEW j \in Jobs, AnswerInBudget(j) PROVE Inv'
  <2>1. \A k \in Jobs \ {j} : Kept(k)
    BY <1>1, <1>9 DEF AnswerInBudget, Kept, callVars, handlers
  <2>2. job' \in [Jobs -> JobRecord] /\ disk' \in [Jobs -> JobRecord]
    BY <1>1, <1>9, JobTyped DEF AnswerInBudget
  <2>3. client' \in [Jobs -> Clients] /\ outbox' \in [Jobs -> SUBSET Texts]
    BY <1>1, <1>9 DEF AnswerInBudget, callVars, Clients, Texts, TextOf
  <2>4. Types'
    BY <1>9, <2>2, <2>3, InlineAssumption DEF Inv, Types, AnswerInBudget, callVars, handlers, Spend, RequestLost
  <2>5. /\ j \in waiting /\ job[j].status # "running"
        /\ Is(job'[j], job[j].status, TRUE, job[j].detached, job[j].delivered)
        /\ waiting' = waiting \ {j}
        /\ timer' = timer \ {j}
        /\ speaking' = speaking \cup {j}
        /\ UNCHANGED <<disk, client, outbox, turns, ending, handing, saving, recovering, claims, box>>
    BY <1>1, <1>9 DEF AnswerInBudget, callVars, handlers, JobRecord, Is
  <2>6. Good(j)
    BY DEF Inv
  <2>7. Good(j)'
    BY <2>5, <2>6 DEF Good, Untold, Over, Says, TextOf, Parted, Is
  <2> QED
    BY <1>2, <2>1, <2>4, <2>7 DEF Inv
<1>10. ASSUME NEW j \in Jobs, BudgetPasses(j) PROVE Inv'
  <2>1. \A k \in Jobs \ {j} : Kept(k)
    BY <1>1, <1>10 DEF BudgetPasses, Kept, callVars, handlers, Then
  <2>2. job' \in [Jobs -> JobRecord] /\ disk' \in [Jobs -> JobRecord]
    BY <1>1, <1>10, JobTyped DEF BudgetPasses
  <2>3. client' \in [Jobs -> Clients] /\ outbox' \in [Jobs -> SUBSET Texts]
    BY <1>1, <1>10 DEF BudgetPasses, callVars, Clients, Texts, TextOf, Then
  <2>4. Types'
    BY <1>10, <2>2, <2>3, InlineAssumption DEF Inv, Types, BudgetPasses, callVars, handlers, Spend, RequestLost
  <2>5. /\ j \in waiting
        /\ client'[j] \in IF client[j] = "asked" THEN {"following", "detaching"} ELSE {client[j]}
        /\ waiting' = waiting \ {j}
        /\ UNCHANGED <<job, disk, outbox, turns, ending, timer, handing, saving, speaking, recovering, claims, box>>
    BY <1>1, <1>10 DEF BudgetPasses, callVars, handlers, JobRecord, Is, Then
  <2>6. Good(j)
    BY DEF Inv
  <2>7. Good(j)'
    BY <2>5, <2>6 DEF Good, Untold, Over, Says, TextOf, Parted, Is
  <2> QED
    BY <1>2, <2>1, <2>4, <2>7 DEF Inv
<1>11. ASSUME NEW j \in Jobs, AskFails(j) PROVE Inv'
  <2>1. \A k \in Jobs \ {j} : Kept(k)
    BY <1>1, <1>11 DEF AskFails, Kept, callVars, handlers
  <2>2. job' \in [Jobs -> JobRecord] /\ disk' \in [Jobs -> JobRecord]
    BY <1>1, <1>11, JobTyped DEF AskFails
  <2>3. client' \in [Jobs -> Clients] /\ outbox' \in [Jobs -> SUBSET Texts]
    BY <1>1, <1>11 DEF AskFails, callVars, Clients, Texts, TextOf
  <2>4. Types'
    BY <1>11, <2>2, <2>3, InlineAssumption DEF Inv, Types, AskFails, callVars, handlers, Spend, RequestLost
  <2>5. /\ client[j] = "asked"
        /\ client'[j] = "direct"
        /\ UNCHANGED <<job, disk, outbox, turns, ending, waiting, timer, handing, saving, speaking, recovering, claims, box>>
    BY <1>1, <1>11 DEF AskFails, callVars, handlers, JobRecord, Is
  <2>6. Good(j)
    BY DEF Inv
  <2>7. Good(j)'
    BY <2>5, <2>6 DEF Good, Untold, Over, Says, TextOf, Parted, Is
  <2> QED
    BY <1>2, <2>1, <2>4, <2>7 DEF Inv
<1>12. ASSUME NEW j \in Jobs, Follow(j) PROVE Inv'
  <2>1. \A k \in Jobs \ {j} : Kept(k)
    BY <1>1, <1>12 DEF Follow, Kept, callVars, handlers
  <2>2. job' \in [Jobs -> JobRecord] /\ disk' \in [Jobs -> JobRecord]
    BY <1>1, <1>12, JobTyped DEF Follow
  <2>3. client' \in [Jobs -> Clients] /\ outbox' \in [Jobs -> SUBSET Texts]
    BY <1>1, <1>12 DEF Follow, callVars, Clients, Texts, TextOf
  <2>4. Types'
    BY <1>12, <2>2, <2>3, InlineAssumption DEF Inv, Types, Follow, callVars, handlers, Spend, RequestLost
  <2>5. /\ box /\ client[j] = "following"
        /\ client'[j] = "claiming"
        /\ claims' = claims \cup {j}
        /\ UNCHANGED <<job, disk, outbox, turns, ending, waiting, timer, handing, saving, speaking, recovering, box>>
    BY <1>1, <1>12 DEF Follow, callVars, handlers, JobRecord, Is
  <2>6. Good(j)
    BY DEF Inv
  <2>7. Good(j)'
    BY <2>5, <2>6 DEF Good, Untold, Over, Says, TextOf, Parted, Is
  <2> QED
    BY <1>2, <2>1, <2>4, <2>7 DEF Inv
<1>13. ASSUME NEW j \in Jobs, GiveUp(j) PROVE Inv'
  <2>1. \A k \in Jobs \ {j} : Kept(k)
    BY <1>1, <1>13 DEF GiveUp, Kept, callVars, handlers
  <2>2. job' \in [Jobs -> JobRecord] /\ disk' \in [Jobs -> JobRecord]
    BY <1>1, <1>13, JobTyped DEF GiveUp
  <2>3. client' \in [Jobs -> Clients] /\ outbox' \in [Jobs -> SUBSET Texts]
    BY <1>1, <1>13 DEF GiveUp, callVars, Clients, Texts, TextOf
  <2>4. Types'
    BY <1>13, <2>2, <2>3, InlineAssumption DEF Inv, Types, GiveUp, callVars, handlers, Spend, RequestLost
  <2>5. /\ client[j] \in {"following", "claiming"}
        /\ client'[j] = "detaching"
        /\ UNCHANGED <<job, disk, outbox, turns, ending, waiting, timer, handing, saving, speaking, recovering, claims, box>>
    BY <1>1, <1>13 DEF GiveUp, callVars, handlers, JobRecord, Is
  <2>6. Good(j)
    BY DEF Inv
  <2>7. Good(j)'
    BY <2>5, <2>6 DEF Good, Untold, Over, Says, TextOf, Parted, Is
  <2> QED
    BY <1>2, <2>1, <2>4, <2>7 DEF Inv
<1>14. ASSUME NEW j \in Jobs, ClaimArrives(j) PROVE Inv'
  <2>1. \A k \in Jobs \ {j} : Kept(k)
    BY <1>1, <1>14 DEF ClaimArrives, Kept, callVars, handlers
  <2>2. job' \in [Jobs -> JobRecord] /\ disk' \in [Jobs -> JobRecord]
    <3>1. job[j] \in JobRecord /\ [job[j] EXCEPT !.claimed = TRUE] \in JobRecord
      BY <1>1, JobTyped
    <3>2. job' = job \/ job' = [job EXCEPT ![j] = [job[j] EXCEPT !.claimed = TRUE]]
      BY <1>14 DEF ClaimArrives
    <3>3. disk' = disk
      BY <1>14 DEF ClaimArrives
    <3> QED
      BY <1>1, <3>1, <3>2, <3>3
  <2>3. client' \in [Jobs -> Clients] /\ outbox' \in [Jobs -> SUBSET Texts]
    BY <1>1, <1>14 DEF ClaimArrives, callVars, Clients, Texts, TextOf
  <2>4. Types'
    BY <1>14, <2>2, <2>3, InlineAssumption DEF Inv, Types, ClaimArrives, callVars, handlers, Spend, RequestLost
  <2>5. /\ box /\ j \in claims
        /\ claims' = claims \ {j}
        /\ \/ /\ UNCHANGED <<job, timer, speaking>>
              /\ client'[j] \in IF client[j] = "claiming" THEN {"gone"} ELSE {client[j]}
           \/ /\ ~(job[j].status = "running" \/ job[j].delivered \/ job[j].detached)
              /\ Is(job'[j], job[j].status, TRUE, job[j].detached, job[j].delivered) /\ UNCHANGED client
              /\ timer' = timer \ {j} /\ speaking' = speaking \cup {j}
        /\ UNCHANGED <<disk, outbox, turns, ending, waiting, handing, saving, recovering, box>>
    BY <1>1, <1>14 DEF ClaimArrives, callVars, handlers, JobRecord, Is
  <2>6. Good(j)
    BY DEF Inv
  <2>7. Good(j)'
    BY <2>5, <2>6 DEF Good, Untold, Over, Says, TextOf, Parted, Is
  <2> QED
    BY <1>2, <2>1, <2>4, <2>7 DEF Inv
<1>15. ASSUME NEW j \in Jobs, Reply(j) PROVE Inv'
  <2>1. \A k \in Jobs \ {j} : Kept(k)
    BY <1>1, <1>15 DEF Reply, Kept, callVars, handlers, Then
  <2>2. job' \in [Jobs -> JobRecord] /\ disk' \in [Jobs -> JobRecord]
    BY <1>1, <1>15, JobTyped DEF Reply
  <2>3. client' \in [Jobs -> Clients] /\ outbox' \in [Jobs -> SUBSET Texts]
    BY <1>1, <1>15 DEF Reply, callVars, Clients, Texts, TextOf, Then
  <2>4. Types'
    BY <1>15, <2>2, <2>3, InlineAssumption DEF Inv, Types, Reply, callVars, handlers, Spend, RequestLost
  <2>5. /\ j \in speaking
        /\ disk'[j] = job[j]
        /\ client'[j] \in CASE client[j] = "claiming" -> {"spoke"}
                            [] client[j] = "asked" -> {"spoke", "detaching"}
                            [] OTHER -> {client[j]}
        /\ speaking' = speaking \ {j}
        /\ UNCHANGED <<job, outbox, turns, ending, waiting, timer, handing, saving, recovering, claims, box>>
    BY <1>1, <1>15 DEF Reply, callVars, handlers, JobRecord, Is, Then
  <2>6. Good(j)
    BY DEF Inv
  <2>7. Good(j)'
    BY <2>5, <2>6 DEF Good, Untold, Over, Says, TextOf, Parted, Is
  <2> QED
    BY <1>2, <2>1, <2>4, <2>7 DEF Inv
<1>16. ASSUME NEW j \in Jobs, DetachFails(j) PROVE Inv'
  <2>1. \A k \in Jobs \ {j} : Kept(k)
    BY <1>1, <1>16 DEF DetachFails, Kept, callVars, handlers
  <2>2. job' \in [Jobs -> JobRecord] /\ disk' \in [Jobs -> JobRecord]
    BY <1>1, <1>16, JobTyped DEF DetachFails
  <2>3. client' \in [Jobs -> Clients] /\ outbox' \in [Jobs -> SUBSET Texts]
    BY <1>1, <1>16 DEF DetachFails, callVars, Clients, Texts, TextOf
  <2>4. Types'
    BY <1>16, <2>2, <2>3, InlineAssumption DEF Inv, Types, DetachFails, callVars, handlers, Spend, RequestLost
  <2>5. /\ client[j] = "detaching"
        /\ client'[j] = "gone"
        /\ UNCHANGED <<job, disk, outbox, turns, ending, waiting, timer, handing, saving, speaking, recovering, claims, box>>
    BY <1>1, <1>16 DEF DetachFails, callVars, handlers, JobRecord, Is
  <2>6. Good(j)
    BY DEF Inv
  <2>7. Good(j)'
    BY <2>5, <2>6 DEF Good, Untold, Over, Says, TextOf, Parted, Is
  <2> QED
    BY <1>2, <2>1, <2>4, <2>7 DEF Inv
<1>17. ASSUME NEW j \in Jobs, AfterRun(j) PROVE Inv'
  <2> DEFINE r == job[j]
  <2>1. r \in JobRecord /\ Is(r, job[j].status, job[j].claimed, job[j].detached, job[j].delivered)
    <3>1. job[j] \in JobRecord
      BY <1>1
    <3> QED
      BY <3>1, JobTyped DEF Is
  <2>2. CASE HandOver(j, r) /\ job[j].detached
    <3>1. /\ job' \in [Jobs -> JobRecord] /\ disk' \in [Jobs -> JobRecord]
          /\ Written(j, r) \/ Handed(j, r)
          /\ \A k \in Jobs \ {j} : /\ job'[k] = job[k] /\ disk'[k] \in {disk[k], job[k]}
                                   /\ k \in handing' <=> k \in handing
                                   /\ k \in timer' <=> k \in timer
      BY <1>3, <2>1, <2>2
    <3>2. /\ j \in ending /\ job[j].detached /\ ending' = ending \ {j}
          /\ UNCHANGED <<client, outbox, turns, waiting, saving, speaking, recovering, claims, box>>
      BY <1>1, <1>17, <2>2 DEF AfterRun, callVars, handlers
    <3>3. \A k \in Jobs \ {j} : Kept(k)
      BY <1>1, <1>17, <3>1, <3>2 DEF AfterRun, Kept
    <3>4. client' \in [Jobs -> Clients]
      BY <1>1, <1>17 DEF AfterRun, callVars, Clients
    <3>5. Types'
      BY <1>17, <3>1, <3>2, <3>4 DEF Inv, Types, AfterRun, callVars, handlers, HandOver
    <3>6. \/ /\ Same(job'[j], r) /\ Same(disk'[j], r) /\ ~Delivers(r)
             /\ UNCHANGED <<handing, timer>>
          \/ /\ Delivers(r) /\ Is(job'[j], r.status, r.claimed, r.detached, TRUE)
             /\ disk'[j] = disk[j] /\ handing' = handing \cup {j} /\ timer' = timer \ {j}
      <4>1. Is([r EXCEPT !.delivered = TRUE], r.status, r.claimed, r.detached, TRUE)
        BY <2>1, JobTyped
      <4> HIDE DEF r
      <4> QED
        BY <3>1, <4>1 DEF Written, Handed, Is, Same
    <3>7. Good(j)
      BY DEF Inv
    <3>8. Good(j)'
      BY <2>1, <3>2, <3>6, <3>7 DEF Good, Untold, Over, Says, TextOf, Parted, Is, Same, Delivers
    <3> QED
      BY <1>2, <3>3, <3>5, <3>8 DEF Inv
  <2>3. CASE ~job[j].detached
    <3>1. \A k \in Jobs \ {j} : Kept(k)
      BY <1>1, <1>17, <2>3 DEF AfterRun, Kept, callVars
    <3>2. /\ j \in ending /\ ending' = ending \ {j} /\ timer' \in {timer, timer \cup {j}}
          /\ disk' = job
          /\ UNCHANGED <<job, handing, saving, turns, waiting, speaking, recovering, box,
                         client, claims, outbox, onLine, budget>>
      BY <1>17, <2>3 DEF AfterRun, callVars
    <3>3. Types'
      BY <3>2 DEF Inv, Types
    <3>4. Good(j)
      BY DEF Inv
    <3>5. Good(j)'
      BY <3>2, <3>4 DEF Good, Untold, Over, Says, TextOf, Parted
    <3> QED
      BY <1>2, <3>1, <3>3, <3>5 DEF Inv
  <2> QED
    BY <1>17, <2>2, <2>3 DEF AfterRun
<1>18. ASSUME NEW j \in Jobs, TimerFires(j) PROVE Inv'
  <2> DEFINE r == job[j]
  <2>1. r \in JobRecord /\ Is(r, job[j].status, job[j].claimed, job[j].detached, job[j].delivered)
    <3>1. job[j] \in JobRecord
      BY <1>1
    <3> QED
      BY <3>1, JobTyped DEF Is
  <2>2. CASE HandOver(j, r)
    <3>1. /\ job' \in [Jobs -> JobRecord] /\ disk' \in [Jobs -> JobRecord]
          /\ Written(j, r) \/ Handed(j, r)
          /\ \A k \in Jobs \ {j} : /\ job'[k] = job[k] /\ disk'[k] \in {disk[k], job[k]}
                                   /\ k \in handing' <=> k \in handing
                                   /\ k \in timer' <=> k \in timer
      BY <1>3, <2>1, <2>2
    <3>2. /\ j \in timer \ waiting /\ ~job[j].claimed
          /\ UNCHANGED <<client, outbox, turns, ending, waiting, saving, speaking, recovering, claims, box>>
      BY <1>1, <1>18, <2>2 DEF TimerFires, callVars, handlers
    <3>3. \A k \in Jobs \ {j} : Kept(k)
      BY <1>1, <1>18, <3>1, <3>2 DEF TimerFires, Kept
    <3>4. client' \in [Jobs -> Clients]
      BY <1>1, <1>18 DEF TimerFires, callVars, Clients
    <3>5. Types'
      BY <1>18, <3>1, <3>2, <3>4 DEF Inv, Types, TimerFires, callVars, handlers, HandOver
    <3>6. \/ /\ Same(job'[j], r) /\ Same(disk'[j], r) /\ ~Delivers(r)
             /\ UNCHANGED <<handing, timer>>
          \/ /\ Delivers(r) /\ Is(job'[j], r.status, r.claimed, r.detached, TRUE)
             /\ disk'[j] = disk[j] /\ handing' = handing \cup {j} /\ timer' = timer \ {j}
      <4>1. Is([r EXCEPT !.delivered = TRUE], r.status, r.claimed, r.detached, TRUE)
        BY <2>1, JobTyped
      <4> HIDE DEF r
      <4> QED
        BY <3>1, <4>1 DEF Written, Handed, Is, Same
    <3>7. Good(j)
      BY DEF Inv
    <3>8. Good(j)'
      BY <2>1, <3>2, <3>6, <3>7 DEF Good, Untold, Over, Says, TextOf, Parted, Is, Same, Delivers
    <3> QED
      BY <1>2, <3>3, <3>5, <3>8 DEF Inv
  <2> QED
    BY <1>18, <2>2 DEF TimerFires
<1>19. ASSUME NEW j \in Jobs, DetachArrives(j) PROVE Inv'
  <2> DEFINE r == [job[j] EXCEPT !.detached = TRUE]
  <2>1. r \in JobRecord /\ Is(r, job[j].status, job[j].claimed, TRUE, job[j].delivered)
    <3>1. job[j] \in JobRecord
      BY <1>1
    <3> QED
      BY <3>1, JobTyped DEF Is
  <2>2. CASE HandOver(j, r)
    <3>1. /\ job' \in [Jobs -> JobRecord] /\ disk' \in [Jobs -> JobRecord]
          /\ Written(j, r) \/ Handed(j, r)
          /\ \A k \in Jobs \ {j} : /\ job'[k] = job[k] /\ disk'[k] \in {disk[k], job[k]}
                                   /\ k \in handing' <=> k \in handing
                                   /\ k \in timer' <=> k \in timer
      BY <1>3, <2>1, <2>2
    <3>2. /\ box /\ client[j] = "detaching" /\ client'[j] = "gone"
          /\ UNCHANGED <<outbox, turns, ending, waiting, saving, speaking, recovering, claims, box>>
      BY <1>1, <1>19, <2>2 DEF DetachArrives, callVars, handlers
    <3>3. \A k \in Jobs \ {j} : Kept(k)
      BY <1>1, <1>19, <3>1, <3>2 DEF DetachArrives, Kept
    <3>4. client' \in [Jobs -> Clients]
      BY <1>1, <1>19 DEF DetachArrives, callVars, Clients
    <3>5. Types'
      BY <1>19, <3>1, <3>2, <3>4 DEF Inv, Types, DetachArrives, callVars, handlers, HandOver
    <3>6. \/ /\ Same(job'[j], r) /\ Same(disk'[j], r) /\ ~Delivers(r)
             /\ UNCHANGED <<handing, timer>>
          \/ /\ Delivers(r) /\ Is(job'[j], r.status, r.claimed, r.detached, TRUE)
             /\ disk'[j] = disk[j] /\ handing' = handing \cup {j} /\ timer' = timer \ {j}
      <4>1. Is([r EXCEPT !.delivered = TRUE], r.status, r.claimed, r.detached, TRUE)
        BY <2>1, JobTyped
      <4> HIDE DEF r
      <4> QED
        BY <3>1, <4>1 DEF Written, Handed, Is, Same
    <3>7. Good(j)
      BY DEF Inv
    <3>8. Good(j)'
      BY <2>1, <3>2, <3>6, <3>7, ZenonT(60) DEF Good, Untold, Over, Says, TextOf, Parted, Is, Same, Delivers
    <3> QED
      BY <1>2, <3>3, <3>5, <3>8 DEF Inv
  <2> QED
    BY <1>19, <2>2 DEF DetachArrives
<1>20. ASSUME NEW j \in Jobs, RecoverNext(j) PROVE Inv'
  <2> DEFINE r == [job[j] EXCEPT !.status = "lost"]
  <2>1. r \in JobRecord /\ Is(r, "lost", job[j].claimed, job[j].detached, job[j].delivered)
    <3>1. job[j] \in JobRecord
      BY <1>1
    <3> QED
      BY <3>1, JobTyped DEF Is
  <2>2. CASE HandOver(j, r)
    <3>1. /\ job' \in [Jobs -> JobRecord] /\ disk' \in [Jobs -> JobRecord]
          /\ Written(j, r) \/ Handed(j, r)
          /\ \A k \in Jobs \ {j} : /\ job'[k] = job[k] /\ disk'[k] \in {disk[k], job[k]}
                                   /\ k \in handing' <=> k \in handing
                                   /\ k \in timer' <=> k \in timer
      BY <1>3, <2>1, <2>2
    <3>2. /\ j \in recovering /\ recovering' = recovering \ {j}
          /\ UNCHANGED <<client, outbox, turns, ending, waiting, saving, speaking, claims, box>>
      BY <1>1, <1>20, <2>2 DEF RecoverNext, callVars, handlers
    <3>3. \A k \in Jobs \ {j} : Kept(k)
      BY <1>1, <1>20, <3>1, <3>2 DEF RecoverNext, Kept
    <3>4. client' \in [Jobs -> Clients]
      BY <1>1, <1>20 DEF RecoverNext, callVars, Clients
    <3>5. Types'
      BY <1>20, <3>1, <3>2, <3>4 DEF Inv, Types, RecoverNext, callVars, handlers, HandOver
    <3>6. \/ /\ Same(job'[j], r) /\ Same(disk'[j], r) /\ ~Delivers(r)
             /\ UNCHANGED <<handing, timer>>
          \/ /\ Delivers(r) /\ Is(job'[j], r.status, r.claimed, r.detached, TRUE)
             /\ disk'[j] = disk[j] /\ handing' = handing \cup {j} /\ timer' = timer \ {j}
      <4>1. Is([r EXCEPT !.delivered = TRUE], r.status, r.claimed, r.detached, TRUE)
        BY <2>1, JobTyped
      <4> HIDE DEF r
      <4> QED
        BY <3>1, <4>1 DEF Written, Handed, Is, Same
    <3>7. Good(j)
      BY DEF Inv
    <3>8. Good(j)'
      BY <2>1, <3>2, <3>6, <3>7 DEF Good, Untold, Over, Says, TextOf, Parted, Is, Same, Delivers
    <3> QED
      BY <1>2, <3>3, <3>5, <3>8 DEF Inv
  <2> QED
    BY <1>20, <2>2 DEF RecoverNext
<1>21. ASSUME NEW k \in Jobs, HangUp PROVE Good(k)'
  <2>1. Good(k)
    BY DEF Inv
  <2>2. /\ client'[k] = IF client[k] \in {"following", "claiming"} THEN "detaching" ELSE client[k]
        /\ UNCHANGED <<job, disk, turns, ending, waiting, timer, handing, saving, speaking,
                       recovering, claims, outbox, box>>
    BY <1>21 DEF HangUp, handlers
  <2> QED
    BY <2>1, <2>2 DEF Good, Untold, Over, Parted
<1>22. CASE HangUp
  <2>1. Types'
    BY <1>1, <1>22 DEF Inv, Types, HangUp, handlers, Clients
  <2> QED
    BY <1>21, <1>22, <2>1 DEF Inv
<1>23. ASSUME NEW k \in Jobs, Crash PROVE Good(k)'
  <2>1. Good(k)
    BY DEF Inv
  <2>2. /\ client'[k] = CASE client[k] = "asked" -> "direct"
                          [] client[k] \in {"following", "claiming"} -> "detaching"
                          [] OTHER -> client[k]
        /\ job' = disk /\ turns' = {} /\ ending' = {} /\ waiting' = {} /\ timer' = {}
        /\ handing' = {} /\ saving' = {} /\ speaking' = {} /\ recovering' = {}
        /\ claims' = {} /\ UNCHANGED <<disk, outbox>>
    BY <1>23 DEF Crash
  <2>3. client[k] \in Clients
    BY <1>1
  <2>4. client'[k] \in {"idle"} \cup Parted /\ (client'[k] \in {"idle", "spoke"} => client'[k] = client[k])
    BY <2>2, <2>3 DEF Clients, Parted
  <2> QED
    BY <2>1, <2>2, <2>3, <2>4 DEF Good, Untold, Parted, Clients
<1>24. CASE Crash
  <2>1. client' \in [Jobs -> Clients]
    BY <1>1, <1>24 DEF Crash, Clients
  <2>2. Types'
    <3>1. budget' \in [faults : 0..MaxFaults, crashes : 0..MaxCrashes]
      BY <1>24, InlineAssumption DEF Inv, Types, Crash, Spend
    <3>2. disk \in [Jobs -> JobRecord] /\ outbox \in [Jobs -> SUBSET Texts] /\ onLine \in BOOLEAN
      BY DEF Inv, Types
    <3>3. /\ job' = disk /\ disk' = disk /\ outbox' = outbox /\ onLine' = onLine /\ box' = FALSE
          /\ turns' = {} /\ ending' = {} /\ waiting' = {} /\ timer' = {} /\ handing' = {}
          /\ saving' = {} /\ speaking' = {} /\ recovering' = {} /\ claims' = {}
      BY <1>24 DEF Crash
    <3> QED
      BY <2>1, <3>1, <3>2, <3>3 DEF Types
  <2> QED
    BY <1>23, <1>24, <2>2 DEF Inv
<1>25. CASE Boot
  <2>1. Types'
    BY <1>1, <1>25 DEF Inv, Types, Boot, callVars
  <2>2. ASSUME NEW k \in Jobs PROVE Good(k)'
    <3>1. Good(k)
      BY DEF Inv
    <3>2. UNCHANGED <<job, disk, turns, ending, waiting, timer, handing, saving, speaking,
                      claims, client, outbox>>
      BY <1>25 DEF Boot, callVars
    <3>3. ~box /\ box' /\ (k \in recovering' <=> job[k].status = "running")
      BY <1>25 DEF Boot
    <3> QED
      BY <3>1, <3>2, <3>3 DEF Good, Untold, Parted, Over
  <2> QED
    BY <2>1, <2>2 DEF Inv
<1>26. CASE UNCHANGED vars
  BY <1>26 DEF vars, Inv, Types, Good, Untold, callVars, handlers, Over
<1> QED
  BY <1>4, <1>5, <1>6, <1>7, <1>8, <1>9, <1>10, <1>11, <1>12, <1>13, <1>14, <1>15, <1>16, <1>17, <1>18, <1>19, <1>20, <1>22, <1>24, <1>25, <1>26 DEF Next, BoxSteps, Requests

\* Types, and what runs or waits belongs to a job of the right status, in every state
\* (InlineJobs and its maps); and the invariant the other theorems rest on.
THEOREM TypeCorrect == Spec => [](TypeOK /\ Inv)
<1>1. Init => Inv
  <2> SUFFICES ASSUME Init PROVE Inv
    OBVIOUS
  <2>1. NoJob \in JobRecord
    BY DEF NoJob, JobRecord
  <2>2. /\ job \in [Jobs -> JobRecord] /\ disk \in [Jobs -> JobRecord]
        /\ client \in [Jobs -> Clients] /\ outbox \in [Jobs -> SUBSET Texts]
    BY <2>1 DEF Init, Clients
  <2>3. Types
    BY <2>2, InlineAssumption DEF Init, Types
  <2>4. ASSUME NEW j \in Jobs PROVE Good(j)
    <3>1. job[j] = NoJob /\ disk[j] = NoJob /\ client[j] = "idle" /\ outbox[j] = {}
      BY DEF Init
    <3> QED
      BY <3>1 DEF Init, Good, NoJob, Untold, Parted
  <2> QED
    BY <2>3, <2>4 DEF Inv
<1>2. Inv => TypeOK
  <2> SUFFICES ASSUME Inv PROVE TypeOK
    OBVIOUS
  <2>1. \A j \in turns : job[j].status = "running"
    BY DEF Inv, Types, Good
  <2>2. \A j \in ending \cup timer \cup handing \cup saving : Over(j)
    BY DEF Inv, Types, Good
  <2> QED
    BY <2>1, <2>2 DEF Inv, Types, TypeOK
<1> QED
  BY <1>1, <1>2, Step, PTL DEF Spec

\* Whatever crosses the claim of an answer, the owner is not told it twice: what the
\* call speaks is not sent, and what is sent of a job is one thing, whatever restarts
\* come between (inlineJobs.ts claim, finish, deliverElsewhere, recover).
THEOREM ToldOnce == Spec => [](SpokenIsNotTexted /\ OneTextPerJob)
<1>1. Inv => SpokenIsNotTexted
  BY DEF Inv, Good, Untold, SpokenIsNotTexted
<1>2. Inv => OneTextPerJob
  <2> SUFFICES ASSUME Inv, NEW j \in Jobs PROVE Cardinality(outbox[j]) <= 1
    BY DEF OneTextPerJob
  <2>1. outbox[j] \subseteq {Says(job[j])}
    BY DEF Inv, Good
  <2>2. CASE outbox[j] = {}
    BY <2>2, FS_EmptySet
  <2>3. CASE outbox[j] = {Says(job[j])}
    BY <2>3, FS_Singleton
  <2> QED
    BY <2>1, <2>2, <2>3
<1> QED
  BY <1>1, <1>2, TypeCorrect, PTL

===============================================================================
