------------------------------ MODULE ActionGuard ------------------------------
(***************************************************************************)
(* The action guard's approval requests (actionGuard/pending.ts, gate.ts): *)
(* a write that needs the owner is a file while it is open, and a waiter   *)
(* in memory.  A restart loses the waiters and keeps the files.            *)
(*                                                                         *)
(* Named abstractions: every request is of the same guarded action, and    *)
(* the policy, the exemptions and the classifier have let it through; the  *)
(* audit log is left out; so is the Telegram path, which SMS replaced.     *)
(***************************************************************************)
EXTENDS Integers, FiniteSets

CONSTANT Requests   \* in the order of their createdAt

\* Of several requests one is the newest.
ASSUME RequestAssumption ==
  /\ Requests \subseteq Nat
  /\ \A S \in SUBSET Requests : S # {} => \E r \in S : \A k \in S : k <= r

VARIABLE request    \* request[r]: its file, its process, and what came of it

Decisions == {"approved", "denied"}

\* file: the status in the pending directory; late: past expiresAt; at: where
\* awaitOwnerApproval is, "lost" when the box restarted under it; out: what it returned.
RequestRecord == [file : {"none", "pending", "timeout"} \cup Decisions,
                  late : BOOLEAN,
                  at : {"no", "notify", "wait", "over", "lost"},
                  out : {"none", "timeout", "unavailable"} \cup Decisions]

NoRequest == [file |-> "none", late |-> FALSE, at |-> "no", out |-> "none"]

GuardInit == request = [r \in Requests |-> NoRequest]

\* The audit entry, cleanupPending and the return of awaitOwnerApproval.
Ended(q, out) == [q EXCEPT !.file = "none", !.late = FALSE, !.at = "over", !.out = out]

\* createPending; the text to the owner goes out.
Ask(r) ==
  /\ request[r].at = "no" /\ \A k \in Requests : k < r => request[k].at # "no"
  /\ request' = [request EXCEPT ![r].file = "pending", ![r].at = "notify"]

\* Mutant: what the owner decided meanwhile is not looked up.
NotifiedBlindly(r) ==
  /\ request[r].at = "notify"
  /\ request' = [request EXCEPT ![r].at = "wait"]

\* Twilio took the text and no carrier refused it: waitForPendingDecision returns what
\* was decided meanwhile, or waits.
Notified(r) ==
  /\ request[r].at = "notify"
  /\ request' = [request EXCEPT ![r] =
       IF @.file = "pending" THEN [@ EXCEPT !.at = "wait"] ELSE Ended(@, @.file)]

\* The text failed or was refused: cleanupPending, whatever was decided meanwhile.
NotNotified(r) ==
  /\ request[r].at = "notify"
  /\ request' = [request EXCEPT ![r] = Ended(@, "unavailable")]

\* expiresAt passes, for a request still on file.
Expires(r) ==
  /\ request[r].file # "none" /\ ~request[r].late
  /\ request' = [request EXCEPT ![r].late = TRUE]

\* Mutant: the timer goes when listOpenPending marks the request.
TimesOutUnmarked(r) ==
  /\ request[r].at = "wait" /\ request[r].late /\ request[r].file = "pending"
  /\ request' = [request EXCEPT ![r] = Ended(@, "timeout")]

\* The waiter's timer, started after the text: the same time, so it fires later.
TimesOut(r) ==
  /\ request[r].at = "wait" /\ request[r].late
  /\ request' = [request EXCEPT ![r] = Ended(@, "timeout")]

\* What listOpenPending returns.
Open(r) == request[r].file = "pending" /\ ~request[r].late

\* It also marks what is expired; a waiter is left to its timer.
Swept == [r \in Requests |-> IF request[r].file = "pending" /\ request[r].late
                             THEN [request[r] EXCEPT !.file = "timeout"] ELSE request[r]]

\* resolvePending: the file, and the waiter if there is one.
Resolve(r, d) ==
  request' = [Swept EXCEPT ![r] = IF @.at = "wait" THEN Ended(@, d)
                                  ELSE [@ EXCEPT !.file = d]]

\* The box restarts.
GuardCrash ==
  request' = [r \in Requests |->
    IF request[r].at \in {"notify", "wait"} THEN [request[r] EXCEPT !.at = "lost"]
    ELSE request[r]]

==============================================================================
