-------------------------------- MODULE TeamRoom --------------------------------
(***************************************************************************)
(* The team room (teams/roomStore.ts, membership.ts, service.ts): the box  *)
(* of the team boss keeps the room and its log, the boxes of the members   *)
(* read and write over HTTP with a member token, and each team stand-up    *)
(* reads what came after its cursor.                                       *)
(*                                                                         *)
(* An operation on the room holds the room's lock.  One that writes an     *)
(* entry appends it to log.jsonl and then replaces room.json: Append and   *)
(* Save.  A read takes no lock, but for the read position it leaves.  A    *)
(* message and a change of a team card are entries alike.  An entry past   *)
(* its retention stays in the log of the model as gone: no read looks at   *)
(* it, and the next append of the code takes it out.                       *)
(***************************************************************************)
EXTENDS Integers, Sequences, FiniteSets

CONSTANTS
  Boxes,      \* the boxes of other owners
  Boss,       \* the box of the team boss, and its member id
  Codes,      \* invite codes; the member a code made has its name
  NoOne,
  MaxWrites,  \* MAX_DAILY_WRITES
  MaxEntries, \* bound: entries of the log
  MaxTroubles \* bound: replies that are lost and restarts of a box, together

ASSUME TeamAssumption ==
  /\ Boss \notin Boxes \cup Codes /\ NoOne \notin Codes \cup {Boss}
  /\ MaxWrites \in Nat \ {0} /\ MaxEntries \in Nat
  /\ MaxTroubles \in Nat

VARIABLES
  member,   \* member[m]: what room.json has of the invite code or the member m
  seq,      \* room.json's seq
  seen,     \* seen[m]: seenSeq of m, 0 for none
  log,      \* log.jsonl
  writing,  \* the member whose entry is in the log and not in room.json, or NoOne
  admitted, \* members with a write whose token was accepted
  mine,     \* mine[b]: the membership on box b, or NoOne
  joining,  \* joining[b]: the member id on its way to b, or NoOne
  cursor,   \* cursor[b]: the number in lastReadId, 0 for none
  reading,  \* reading[b]: the read of b's team stand-up; told: whether b had a rejectedAt
  given,    \* given[b]: the lines of the log b's team stand-up was given (history)
  missed,   \* missed[b]: the lines too old for the read of b that asked for them (history)
  rejected, \* boxes with rejectedAt
  troubles  \* the replies lost and the restarts so far

room == <<member, seq, seen, log, writing>>
box == <<mine, joining, cursor, given, missed, rejected>>
vars == <<room, admitted, box, reading, troubles>>

Members == Codes \cup {Boss}
All == Boxes \cup {Boss}

------------------------------------------------------------------------------
Statuses == {"none", "open", "expired", "active", "removed", "left"}

\* The age of an entry: of this day, of the last READ_DEFAULT_DAYS days, older, and older
\* than RETENTION_DAYS.
Days == {"today", "before", "old", "gone"}

EntryRecord == [seq : 1..MaxEntries, author : Members, day : Days]

NotReading == [at |-> "none", as |-> NoOne, told |-> FALSE, got |-> {}]

ReadRecord == [at : {"none", "read", "answered", "kept"}, as : Members \cup {NoOne},
               told : BOOLEAN, got : SUBSET (1..MaxEntries)]

Init ==
  /\ member = [m \in Members |-> IF m = Boss THEN "active" ELSE "none"]
  /\ seq = 0 /\ seen = [m \in Members |-> 0] /\ log = <<>> /\ writing = NoOne
  /\ admitted = {} /\ mine = [b \in All |-> IF b = Boss THEN Boss ELSE NoOne]
  /\ joining = [b \in All |-> NoOne] /\ cursor = [b \in All |-> 0]
  /\ reading = [b \in All |-> NotReading] /\ given = [b \in All |-> {}]
  /\ missed = [b \in All |-> {}]
  /\ rejected = {}
  /\ troubles = [lost |-> 0, restarts |-> 0]

Trouble(what) ==
  /\ troubles.lost + troubles.restarts < MaxTroubles
  /\ troubles' = [troubles EXCEPT ![what] = @ + 1]

\* withLock: nothing else of the room is under way.
Unlocked == writing = NoOne

------------------------------------------------------------------------------
(* Members.                                                                  *)

MakeInvite(c) ==
  /\ Unlocked /\ member[c] = "none" /\ member' = [member EXCEPT ![c] = "open"]
  /\ UNCHANGED <<seq, seen, log, writing, admitted, box, reading, troubles>>

InviteExpires(c) ==
  /\ member[c] = "open" /\ member' = [member EXCEPT ![c] = "expired"]
  /\ UNCHANGED <<seq, seen, log, writing, admitted, box, reading, troubles>>

\* POST /join at the boss, from a box that is not in the team.
JoinRoom(b, c) ==
  /\ Unlocked /\ mine[b] = NoOne /\ joining[b] = NoOne
  /\ member[c] = "open" /\ member' = [member EXCEPT ![c] = "active"]
  /\ joining' = [joining EXCEPT ![b] = c]
  /\ UNCHANGED <<seq, seen, log, writing, admitted, mine, cursor, given, missed, rejected, reading,
                 troubles>>

\* The reply: the box has a membership with a cursor of its own.
Joined(b) ==
  /\ joining[b] # NoOne /\ joining' = [joining EXCEPT ![b] = NoOne]
  /\ mine' = [mine EXCEPT ![b] = joining[b]]
  /\ UNCHANGED <<room, admitted, cursor, given, missed, rejected, reading, troubles>>

\* The reply is lost: the code is used and nobody has the member's token.
JoinLost(b) ==
  /\ joining[b] # NoOne /\ joining' = [joining EXCEPT ![b] = NoOne] /\ Trouble("lost")
  /\ UNCHANGED <<room, admitted, mine, cursor, given, missed, rejected, reading>>

RemoveMember(m) ==
  /\ Unlocked /\ m # Boss /\ member[m] = "active"
  /\ member' = [member EXCEPT ![m] = "removed"]
  /\ UNCHANGED <<seq, seen, log, writing, admitted, box, reading, troubles>>

\* leave: the membership goes, whether or not the boss hears of it.
Leave(b) ==
  /\ b # Boss /\ mine[b] # NoOne
  /\ \/ Unlocked /\ UNCHANGED troubles
        /\ member' = [member EXCEPT ![mine[b]] = IF @ = "active" THEN "left" ELSE @]
     \/ Trouble("lost") /\ UNCHANGED member
  /\ mine' = [mine EXCEPT ![b] = NoOne] /\ cursor' = [cursor EXCEPT ![b] = 0]
  /\ rejected' = rejected \ {b}
  /\ UNCHANGED <<seq, seen, log, writing, admitted, joining, given, missed, reading>>

------------------------------------------------------------------------------
(* Writes.                                                                   *)

\* authenticate, before the lock; the boss writes to its own store, and passes by it.
Admit(b) ==
  /\ b # Boss /\ mine[b] # NoOne /\ member[mine[b]] = "active"
  /\ admitted' = admitted \cup {mine[b]}
  /\ UNCHANGED <<room, box, reading, troubles>>

WritesToday(m) == Cardinality({i \in DOMAIN log : log[i].author = m /\ log[i].day = "today"})

\* Looked up again in the lock, within the limit of the day.
MayWrite(m) == member[m] = "active" /\ WritesToday(m) < MaxWrites

\* append.
Appends(m) ==
  /\ writing' = m
  /\ log' = Append(log, [seq |-> seq + 1, author |-> m, day |-> "today"])

\* Mutant: the member is not looked up again in the lock.
AppendAsAdmitted(m) ==
  /\ Unlocked /\ m \in admitted \cup {Boss} /\ admitted' = admitted \ {m}
  /\ IF WritesToday(m) < MaxWrites /\ Len(log) < MaxEntries THEN Appends(m)
     ELSE UNCHANGED <<log, writing>>
  /\ UNCHANGED <<member, seq, seen, box, reading, troubles>>

\* post and card.
AppendEntry(m) ==
  /\ Unlocked /\ m \in admitted \cup {Boss} /\ admitted' = admitted \ {m}
  /\ IF MayWrite(m) /\ Len(log) < MaxEntries THEN Appends(m)
     ELSE UNCHANGED <<log, writing>>
  /\ UNCHANGED <<member, seq, seen, box, reading, troubles>>

\* card with the id of no team card: 404 as well, which track takes for a rejection.
CardUnknown(b) ==
  /\ b # Boss /\ Unlocked /\ mine[b] # NoOne /\ MayWrite(mine[b])
  /\ rejected' = rejected \cup {b}
  /\ UNCHANGED <<room, admitted, mine, joining, cursor, given, missed, reading, troubles>>

\* Mutant: the entry is counted again.
SaveTwice ==
  /\ ~Unlocked /\ writing' = NoOne /\ seq' = seq + 2
  /\ UNCHANGED <<member, seen, log, admitted, box, reading, troubles>>

\* writeRoom.
SaveRoom ==
  /\ ~Unlocked /\ writing' = NoOne /\ seq' = seq + 1
  /\ UNCHANGED <<member, seen, log, admitted, box, reading, troubles>>

------------------------------------------------------------------------------
(* Reads of the team stand-up (advance, seen).                               *)

\* The lines after an entry, those of them that are too old for a read that asks for them,
\* without a cursor or with one, and those it gives.
After(since) == {i \in DOMAIN log : log[i].seq > since}

TooOld(since) == {i \in After(since) :
                    log[i].day = "gone" \/ (since = 0 /\ log[i].day = "old")}

\* Mutant: the last days also with a cursor.
FreshDays(since) == {i \in After(since) : log[i].day \in {"today", "before"}}

Fresh(since) == {i \in After(since) :
                   log[i].day # "gone" /\ (since > 0 \/ log[i].day \in {"today", "before"})}

\* b's stand-up asks for what is after an entry.
AskAfter(b, since) ==
  /\ mine[b] # NoOne /\ reading[b] = NotReading /\ member[mine[b]] = "active"
  /\ reading' = [reading EXCEPT ![b] = [at |-> "read", as |-> mine[b], told |-> b \in rejected,
                                       got |-> Fresh(since)]]
  /\ missed' = [missed EXCEPT ![b] = @ \cup TooOld(since)]
  /\ UNCHANGED <<room, admitted, mine, joining, cursor, given, rejected, troubles>>

\* Mutant: the boss's read position is the cursor.
AskUnseen(b) == AskAfter(b, seen[mine[b]])

\* authenticate, the first look at the room, and readLog: one step, of the moment the log
\* is read.
AskRead(b) == AskAfter(b, cursor[b])

\* Everyone who is not a member gets 404, and the box notes it.
RejectRead(b) ==
  /\ mine[b] # NoOne /\ reading[b] = NotReading /\ member[mine[b]] # "active"
  /\ rejected' = rejected \cup {b}
  /\ UNCHANGED <<room, admitted, mine, joining, cursor, given, missed, reading, troubles>>

\* The last of some lines of the log.
LastOf(lines) == CHOOSE i \in lines : \A j \in lines : j <= i

Newest(lines) == IF lines = {} THEN 0 ELSE log[LastOf(lines)].seq

\* seenSeq, in the lock.
NoteSeen(b) ==
  /\ reading[b].at = "read"
  /\ LET r == reading[b] IN
       IF Newest(r.got) > seen[r.as]
       THEN Unlocked /\ seen' = [seen EXCEPT ![r.as] = Newest(r.got)]
       ELSE (r.got # {} => Unlocked) /\ UNCHANGED seen
  /\ reading' = [reading EXCEPT ![b].at = "answered"]
  /\ UNCHANGED <<member, seq, log, writing, admitted, box, troubles>>

\* The cursor of the membership there is by now moves to the last entry of the answer,
\* and track clears rejectedAt when it was there, or when the hour is another one.
Receive(b) ==
  /\ reading[b].at = "answered" /\ reading' = [reading EXCEPT ![b].at = "kept"]
  /\ IF mine[b] = NoOne THEN UNCHANGED <<cursor, rejected>>
     ELSE /\ \/ rejected' = rejected \ {b}
             \/ ~reading[b].told /\ UNCHANGED rejected
          /\ cursor' = IF reading[b].got = {} THEN cursor
                       ELSE [cursor EXCEPT ![b] = Newest(reading[b].got)]
  /\ UNCHANGED <<room, admitted, mine, joining, given, missed, troubles>>

\* The answer of the local route: the team stand-up has the entries.
Hand(b) ==
  /\ reading[b].at = "kept" /\ reading' = [reading EXCEPT ![b] = NotReading]
  /\ given' = [given EXCEPT ![b] = @ \cup reading[b].got]
  /\ UNCHANGED <<room, admitted, mine, joining, cursor, missed, rejected, troubles>>

\* The reply is lost, late, or not read: nothing of the box moves.
ReadLost(b) ==
  /\ b # Boss /\ reading[b].at = "answered" /\ Trouble("lost")
  /\ reading' = [reading EXCEPT ![b] = NotReading]
  /\ UNCHANGED <<room, admitted, box>>

------------------------------------------------------------------------------
NextDay ==
  /\ log' = [i \in DOMAIN log |-> [log[i] EXCEPT !.day = IF @ = "today" THEN "before" ELSE @]]
  /\ UNCHANGED <<member, seq, seen, writing, admitted, box, reading, troubles>>

\* An entry passes READ_DEFAULT_DAYS or RETENTION_DAYS, and with it those of its age that
\* were written before it.
Ages(n) ==
  LET next == IF log[n].day = "before" THEN "old" ELSE "gone" IN
  /\ n \in DOMAIN log /\ log[n].day \in {"before", "old"}
  /\ log' = [i \in DOMAIN log |->
               IF i <= n /\ log[i].day = log[n].day THEN [log[i] EXCEPT !.day = next] ELSE log[i]]
  /\ UNCHANGED <<member, seq, seen, writing, admitted, box, reading, troubles>>

\* The boss restarts: requests are cut off, and what is on disk stays.
Crash ==
  /\ Trouble("restarts") /\ writing' = NoOne /\ admitted' = {}
  /\ joining' = [b \in All |-> NoOne] /\ reading' = [b \in All |-> NotReading]
  /\ UNCHANGED <<member, seq, seen, log, mine, cursor, given, missed, rejected>>

\* A member's box restarts, and its read is cut off.
Restart(b) ==
  /\ b # Boss /\ reading[b] # NotReading /\ Trouble("restarts")
  /\ reading' = [reading EXCEPT ![b] = NotReading]
  /\ UNCHANGED <<room, admitted, box>>

ReadSteps(b) ==
  \/ AskRead(b) \/ RejectRead(b) \/ NoteSeen(b) \/ Receive(b) \/ Hand(b)

Next ==
  \/ \E c \in Codes : MakeInvite(c) \/ InviteExpires(c)
  \/ \E b \in Boxes, c \in Codes : JoinRoom(b, c)
  \/ \E b \in Boxes : Joined(b) \/ JoinLost(b) \/ Leave(b)
                        \/ ReadLost(b) \/ Restart(b)
  \/ \E m \in Members : RemoveMember(m) \/ AppendEntry(m)
  \/ \E b \in All : Admit(b) \/ CardUnknown(b) \/ ReadSteps(b)
  \/ \E n \in 1..MaxEntries : Ages(n)
  \/ SaveRoom \/ NextDay \/ Crash

Spec == Init /\ [][Next]_vars

\* A write and a join that were begun end, and each box has its stand-ups and their reads.
FairSpec ==
  /\ Spec /\ WF_vars(SaveRoom)
  /\ \A b \in All : WF_vars(ReadSteps(b))
  /\ \A b \in Boxes : WF_vars(Joined(b))

------------------------------------------------------------------------------
(* Properties.                                                               *)

\* The types, and the entries in the order of their numbers (roomStore.ts, its maps).
TypeOK ==
  /\ member \in [Members -> Statuses] /\ seq \in 0..MaxEntries
  /\ seen \in [Members -> 0..MaxEntries] /\ log \in Seq(EntryRecord)
  /\ Len(log) <= MaxEntries /\ writing \in Members \cup {NoOne}
  /\ admitted \subseteq Codes /\ mine \in [All -> Members \cup {NoOne}]
  /\ joining \in [All -> Codes \cup {NoOne}] /\ cursor \in [All -> 0..MaxEntries]
  /\ reading \in [All -> ReadRecord] /\ given \in [All -> SUBSET (1..MaxEntries)]
  /\ missed \in [All -> SUBSET (1..MaxEntries)]
  /\ rejected \subseteq Boxes
  /\ troubles \in [lost : 0..MaxTroubles, restarts : 0..MaxTroubles]

\* What a stand-up's cursor has passed, the stand-up was given, but for what was older than
\* READ_DEFAULT_DAYS when it first asked, and what was older than RETENTION_DAYS when it
\* asked on: whatever is written while it reads, and whatever reply is lost, unless a box
\* has restarted (roomStore.ts read, service.ts read).
Unbroken == troubles.restarts = 0

NothingSkipped ==
  Unbroken =>
    \A b \in All : \A i \in DOMAIN log :
      log[i].seq <= cursor[b] =>
        i \in given[b] \cup missed[b] \cup (IF reading[b].at = "kept" THEN reading[b].got ELSE {})

\* Who was removed or has left writes no more, a request that was let in before
\* included (roomStore.ts post, card, removeMember, leave).
GoneIsSilent ==
  [][\A i \in DOMAIN log' \ DOMAIN log : member[log'[i].author] = "active"]_vars

\* A token belongs to one box: an invite link that was forwarded twice lets one box in,
\* and so does one that crosses a lost reply (roomStore.ts join).
OneBoxPerCode ==
  \A b, c \in Boxes : \A m \in {mine[b], joining[b]} \cap {mine[c], joining[c]} :
    m # NoOne => b = c

\* No member writes more than the limit in a day, restarts included (roomStore.ts
\* writesToday).
DailyWrites ==
  \A m \in Members : WritesToday(m) <= MaxWrites

In(b) == mine[b] # NoOne /\ member[mine[b]] = "active"

\* Every entry reaches the stand-up of every member that asks for it in time: again and
\* again a box has had all of the log, but for what was too old when it asked, or it is in
\* the team no more, or a box has restarted (service.ts read, roomStore.ts read).
EveryoneReads ==
  \A b \in All : []<>(DOMAIN log \subseteq given[b] \cup missed[b] \/ ~In(b) \/ ~Unbroken)

------------------------------------------------------------------------------
(* What the repository says of the room and the code does not keep.          *)

\* "Sequence number of the newest entry that the team stand-up of this member read"
\* (types.ts:26).
SeenWasRead ==
  \A b \in All : \A i \in DOMAIN log :
    mine[b] # NoOne /\ reading[b] = NotReading /\ log[i].seq = seen[mine[b]] =>
      i \in given[b]

\* "Id of the last message or event that the team stand-up read" (membership.ts:30).
CursorWasRead ==
  \A b \in All : \A i \in DOMAIN log :
    reading[b] = NotReading /\ log[i].seq = cursor[b] => i \in given[b]

\* "The team boss rejected the member token (removed)" (membership.ts:35).
RejectedIsGone ==
  \A b \in rejected : reading[b] = NotReading => member[mine[b]] # "active"

\* "Last sequence number of the log" (types.ts:67).
SeqIsTheLast == Unlocked => seq = Newest(DOMAIN log)

===============================================================================
