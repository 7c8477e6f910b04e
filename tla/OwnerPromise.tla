---------------------------- MODULE OwnerPromise ----------------------------
(***************************************************************************)
(* What the owner outbox promises of the items it is given, whatever       *)
(* channel, carrier or call they go out on: an item stays open until the   *)
(* owner heard it or it was dropped, and neither is taken back; an item    *)
(* goes out in one hand at a time; the items a callback carries are in its *)
(* hand exactly as long as the callback is the one in flight.              *)
(***************************************************************************)
CONSTANTS Items, Batches,
          Free        \* nobody: no hand holds the item, no callback in flight

VARIABLES fate,       \* fate[i]: "absent", "open", "heard" or "dropped"
          hand,       \* hand[i]: Free, "send" or the callback that carries i
          flying      \* the callback in flight, or Free

vars == <<fate, hand, flying>>

Hands == {"send", Free} \cup Batches
Open(i) == fate[i] = "open"

Init ==
  /\ fate = [i \in Items |-> "absent"]
  /\ hand = [i \in Items |-> Free]
  /\ flying = Free

\* A new item; those it replaces are dropped, out of whatever hand they are in.
Publish(i, S) ==
  /\ fate[i] = "absent" /\ \A j \in S : Open(j)
  /\ fate' = [j \in Items |-> IF j = i THEN "open" ELSE IF j \in S THEN "dropped" ELSE fate[j]]
  /\ hand' = [j \in Items |-> IF j \in S \cup {i} THEN Free ELSE hand[j]]
  /\ UNCHANGED flying

\* The owner heard the items S, or they are dropped.
Close(S, how) ==
  /\ \A j \in S : Open(j)
  /\ fate' = [j \in Items |-> IF j \in S THEN how ELSE fate[j]]
  /\ hand' \in [Items -> Hands]
  /\ \A j \in Items : hand'[j] = hand[j] \/ (j \in S /\ hand'[j] = Free)
  /\ UNCHANGED flying

\* A text or a surface delivery takes an item, and lets go of it.
Take(i) ==
  /\ Open(i) /\ hand[i] = Free
  /\ hand' = [hand EXCEPT ![i] = "send"] /\ UNCHANGED <<fate, flying>>

LetGo(i) ==
  /\ hand[i] = "send"
  /\ hand' = [hand EXCEPT ![i] = Free] /\ UNCHANGED <<fate, flying>>

\* A callback takes the items S, and its end frees what it still carries.
Dial(b, S) ==
  /\ flying = Free /\ \A j \in S : Open(j) /\ hand[j] = Free
  /\ flying' = b /\ hand' = [j \in Items |-> IF j \in S THEN b ELSE hand[j]]
  /\ UNCHANGED fate

Land(b) ==
  /\ flying = b /\ flying' = Free
  /\ hand' = [j \in Items |-> IF hand[j] = b THEN Free ELSE hand[j]]
  /\ UNCHANGED fate

Next ==
  \/ \E i \in Items : Take(i) \/ LetGo(i) \/ \E S \in SUBSET Items : Publish(i, S)
  \/ \E S \in SUBSET Items, how \in {"heard", "dropped"} : Close(S, how)
  \/ \E b \in Batches : Land(b) \/ \E S \in SUBSET Items : Dial(b, S)

Spec == Init /\ [][Next]_vars
=============================================================================
