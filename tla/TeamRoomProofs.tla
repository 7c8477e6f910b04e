----------------------------- MODULE TeamRoomProofs -----------------------------
(***************************************************************************)
(* Theorems about the team room, for every set of boxes and invite codes   *)
(* and every bound.                                                        *)
(***************************************************************************)
EXTENDS TeamRoom, FiniteSetTheorems, WellFoundedInduction, TLAPS

\* A set of numbers with an upper bound that is not empty has a largest one.
LEMMA LargestOf ==
  ASSUME NEW n \in Nat, NEW S \in SUBSET (1..n), S # {}
  PROVE  LastOf(S) \in S /\ \A j \in S : j <= LastOf(S)
<1> DEFINE R == OpToRel(<, Nat)
           T == {n - i : i \in S}
<1>1. IsWellFoundedOn(R, Nat)
  BY NatLessThanWellFounded
<1>2. \A x, y \in Nat : y < x => <<y, x>> \in R
  <2> SUFFICES ASSUME NEW x \in Nat, NEW y \in Nat, y < x
               PROVE  <<y, x>> \in {ss \in Nat \X Nat : ss[1] < ss[2]}
    BY DEF OpToRel
  <2> QED
    OBVIOUS
<1> HIDE DEF R
<1>3. T \subseteq Nat /\ T # {}
  <2>1. PICK i \in S : TRUE
    OBVIOUS
  <2>2. n - i \in T
    OBVIOUS
  <2>3. \A k \in 1..n : n - k \in Nat
    OBVIOUS
  <2> QED
    BY <2>2, <2>3
<1>4. PICK x \in T : \A y \in T : ~ (<<y, x>> \in R)
  BY <1>1, <1>3, WFMin
<1>5. PICK i \in S : x = n - i
  BY <1>4
<1>6. ASSUME NEW j \in S PROVE j <= i
  <2>1. n - j \in T
    OBVIOUS
  <2>2. ~ (<<n - j, x>> \in R)
    BY <1>4, <2>1
  <2>3. n - j \in Nat /\ x \in Nat
    BY <1>3, <1>4, <2>1
  <2>4. ~ (n - j < x)
    BY <1>2, <2>2, <2>3
  <2> QED
    BY <1>5, <2>4
<1> QED
  BY <1>6 DEF LastOf

------------------------------------------------------------------------------
(* Types.                                                                    *)

\* What room.json counts is at most one entry behind the log, the boss stays, and what a
\* read has got are lines of the log.
RoomInv ==
  /\ seq <= Len(log) /\ (~Unlocked => seq < Len(log))
  /\ member[Boss] = "active" /\ mine[Boss] = Boss
  /\ \A b \in Boxes : mine[b] # Boss
  /\ \A b \in All : reading[b].got \subseteq DOMAIN log

RoomOK == TypeOK /\ RoomInv

\* The last number a read has got is one of the log's.
LEMMA NewestTyped ==
  ASSUME RoomOK, NEW b \in All
  PROVE  Newest(reading[b].got) \in 0..MaxEntries
<1>1. log \in Seq(EntryRecord) /\ reading[b].got \subseteq 1..Len(log) /\ MaxEntries \in Nat
      /\ Len(log) \in Nat
  BY TeamAssumption DEF RoomOK, TypeOK, RoomInv
<1>2. CASE reading[b].got = {}
  BY <1>1, <1>2 DEF Newest
<1>3. CASE reading[b].got # {}
  <2>1. LastOf(reading[b].got) \in 1..Len(log)
    BY <1>1, <1>3, LargestOf
  <2>2. log[LastOf(reading[b].got)] \in EntryRecord
    BY <1>1, <2>1
  <2> QED
    BY <1>1, <1>3, <2>2 DEF Newest, EntryRecord
<1> QED
  BY <1>2, <1>3

\* Time goes by.
Aging == NextDay \/ \E n \in 1..MaxEntries : Ages(n)

\* The age of the entries is all that changes with the time, and none gets younger.
LEMMA AgingEffect ==
  ASSUME log \in Seq(EntryRecord), Aging
  PROVE  /\ UNCHANGED <<member, seq, seen, writing, admitted, box, reading, troubles>>
         /\ log' \in Seq(EntryRecord) /\ Len(log') = Len(log)
         /\ \A i \in DOMAIN log : /\ log'[i].seq = log[i].seq
                                  /\ log'[i].author = log[i].author
                                  /\ log'[i].day = "today" => log[i].day = "today"
<1>1. \A i \in 1..Len(log) : log[i] \in EntryRecord
  OBVIOUS
<1>2. ASSUME NEW i \in 1..Len(log), NEW day \in Days
      PROVE  /\ [log[i] EXCEPT !.day = day] \in EntryRecord
             /\ [log[i] EXCEPT !.day = day].seq = log[i].seq
             /\ [log[i] EXCEPT !.day = day].author = log[i].author
             /\ [log[i] EXCEPT !.day = day].day = day
  BY <1>1 DEF EntryRecord
<1>3. Len(log) \in Nat /\ DOMAIN log = 1..Len(log)
  OBVIOUS
<1>4. ASSUME NEW day, log' = [i \in 1..Len(log) |-> [log[i] EXCEPT !.day = day[i]]],
             \A i \in 1..Len(log) : day[i] \in Days /\ (day[i] = "today" => log[i].day = "today")
      PROVE  /\ log' \in Seq(EntryRecord) /\ Len(log') = Len(log)
             /\ \A i \in DOMAIN log : /\ log'[i].seq = log[i].seq
                                      /\ log'[i].author = log[i].author
                                      /\ log'[i].day = "today" => log[i].day = "today"
  <2>1. \A i \in 1..Len(log) : /\ log'[i] \in EntryRecord
                                /\ log'[i].seq = log[i].seq /\ log'[i].author = log[i].author
                                /\ log'[i].day = day[i]
    BY <1>2, <1>4
  <2>2. log' \in Seq(EntryRecord) /\ Len(log') = Len(log)
    BY <1>3, <1>4, <2>1
  <2> QED
    BY <1>3, <1>4, <2>1, <2>2
<1>5. CASE NextDay
  <2> DEFINE day == [i \in 1..Len(log) |-> IF log[i].day = "today" THEN "before" ELSE log[i].day]
  <2>1. log' = [i \in 1..Len(log) |-> [log[i] EXCEPT !.day = day[i]]]
    BY <1>3, <1>5 DEF NextDay
  <2>2. \A i \in 1..Len(log) : day[i] \in Days /\ (day[i] = "today" => log[i].day = "today")
    BY <1>1 DEF EntryRecord, Days
  <2> HIDE DEF day
  <2> QED
    BY <1>4, <1>5, <2>1, <2>2 DEF NextDay
<1>6. ASSUME NEW n \in 1..MaxEntries, Ages(n)
      PROVE  /\ UNCHANGED <<member, seq, seen, writing, admitted, box, reading, troubles>>
             /\ log' \in Seq(EntryRecord) /\ Len(log') = Len(log)
             /\ \A i \in DOMAIN log : /\ log'[i].seq = log[i].seq
                                      /\ log'[i].author = log[i].author
                                      /\ log'[i].day = "today" => log[i].day = "today"
  <2> DEFINE next == IF log[n].day = "before" THEN "old" ELSE "gone"
             day == [i \in 1..Len(log) |-> IF i <= n /\ log[i].day = log[n].day THEN next ELSE log[i].day]
  <2>1. next \in Days \ {"today"}
    BY DEF Days
  <2>2. log' = [i \in 1..Len(log) |->
                 IF i <= n /\ log[i].day = log[n].day THEN [log[i] EXCEPT !.day = next] ELSE log[i]]
    BY <1>3, <1>6 DEF Ages
  <2> HIDE DEF next
  <2>3. \A i \in 1..Len(log) : log[i] = [log[i] EXCEPT !.day = log[i].day]
    BY <1>1 DEF EntryRecord
  <2>4. log' = [i \in 1..Len(log) |-> [log[i] EXCEPT !.day = day[i]]]
    BY <2>2, <2>3
  <2>5. \A i \in 1..Len(log) : day[i] \in Days /\ (day[i] = "today" => log[i].day = "today")
    BY <1>1, <2>1 DEF EntryRecord
  <2> HIDE DEF day
  <2> QED
    BY <1>4, <1>6, <2>4, <2>5 DEF Ages
<1> QED
  BY <1>5, <1>6 DEF Aging

LEMMA AppendEffect ==
  ASSUME RoomOK, NEW m \in Members, AppendEntry(m), ~UNCHANGED log
  PROVE  /\ MayWrite(m) /\ Unlocked /\ writing' = m /\ UNCHANGED seq
         /\ log' \in Seq(EntryRecord) /\ Len(log') = Len(log) + 1 /\ Len(log) < MaxEntries
         /\ \A i \in DOMAIN log : log'[i] = log[i]
         /\ log'[Len(log) + 1] = [seq |-> seq + 1, author |-> m, day |-> "today"]
<1> DEFINE e == [seq |-> seq + 1, author |-> m, day |-> "today"]
<1>1. /\ log \in Seq(EntryRecord) /\ Len(log) \in Nat /\ seq \in Nat /\ MaxEntries \in Nat
      /\ seq <= Len(log)
  BY TeamAssumption DEF RoomOK, TypeOK, RoomInv
<1>2. /\ MayWrite(m) /\ Unlocked /\ writing' = m /\ UNCHANGED seq /\ Len(log) < MaxEntries
      /\ log' = Append(log, e)
  BY DEF AppendEntry, Appends
<1>3. e \in EntryRecord
  BY <1>1, <1>2 DEF EntryRecord, Days
<1> HIDE DEF e
<1>4. log' \in Seq(EntryRecord) /\ Len(log') = Len(log) + 1
      /\ (\A i \in DOMAIN log : log'[i] = log[i]) /\ log'[Len(log) + 1] = e
  BY <1>1, <1>2, <1>3
<1> QED
  BY <1>2, <1>4 DEF e

\* What is counted of the troubles stays within its bound.
LEMMA TroublesTyped ==
  ASSUME TypeOK, Trouble("lost") \/ Trouble("restarts")
  PROVE  troubles' \in [lost : 0..MaxTroubles, restarts : 0..MaxTroubles]
<1>1. /\ MaxTroubles \in Nat /\ troubles.lost \in 0..MaxTroubles /\ troubles.restarts \in 0..MaxTroubles
      /\ troubles \in [lost : 0..MaxTroubles, restarts : 0..MaxTroubles]
      /\ troubles.lost + troubles.restarts < MaxTroubles
  BY TeamAssumption DEF TypeOK, Trouble
<1>2. troubles.lost + 1 \in 0..MaxTroubles /\ troubles.restarts + 1 \in 0..MaxTroubles
  BY <1>1
<1>3. \/ troubles' = [troubles EXCEPT !.lost = troubles.lost + 1]
      \/ troubles' = [troubles EXCEPT !.restarts = troubles.restarts + 1]
  BY DEF Trouble
<1> QED
  BY <1>1, <1>2, <1>3

LEMMA RoomInit ==
  ASSUME Init PROVE RoomOK
<1>1. MaxEntries \in Nat /\ MaxTroubles \in Nat /\ Boss \notin Boxes \cup Codes /\ NoOne \notin Codes \cup {Boss}
  BY TeamAssumption
<1>2. NotReading \in ReadRecord /\ NotReading.got = {}
  BY DEF NotReading, ReadRecord
<1>3. <<>> \in Seq(EntryRecord) /\ Len(<<>>) = 0
  OBVIOUS
<1>4. TypeOK
  BY <1>1, <1>2, <1>3 DEF Init, TypeOK, Members, All, Statuses
<1>5. RoomInv
  BY <1>1, <1>2, <1>3 DEF Init, RoomInv, Members, All, Unlocked
<1> QED
  BY <1>4, <1>5 DEF RoomOK

\* The steps that leave the log, the lock and the reads alone.
LEMMA MembersStep ==
  ASSUME RoomOK,
         \/ \E c \in Codes : MakeInvite(c) \/ InviteExpires(c)
         \/ \E b \in Boxes, c \in Codes : JoinRoom(b, c)
         \/ \E b \in Boxes : Joined(b) \/ JoinLost(b) \/ Leave(b)
         \/ \E m \in Members : RemoveMember(m)
         \/ \E b \in All : Admit(b) \/ CardUnknown(b) \/ RejectRead(b)
  PROVE  RoomOK'
<1>0. /\ MaxEntries \in Nat /\ MaxTroubles \in Nat /\ Boss \notin Boxes \cup Codes
      /\ NoOne \notin Codes \cup {Boss}
  BY TeamAssumption
<1>1. UNCHANGED <<seq, log, writing, reading>>
  BY DEF MakeInvite, InviteExpires, JoinRoom, Joined, JoinLost, Leave, RemoveMember, Admit, CardUnknown,
     RejectRead, room, box
<1>2. CASE \E c \in Codes : MakeInvite(c) \/ InviteExpires(c)
  BY <1>0, <1>1, <1>2, ZenonT(60) DEF RoomOK, TypeOK, RoomInv, MakeInvite, InviteExpires, box, Members, Statuses, Unlocked
<1>3. CASE \E b \in Boxes, c \in Codes : JoinRoom(b, c)
  BY <1>0, <1>1, <1>3 DEF RoomOK, TypeOK, RoomInv, JoinRoom, All, Members, Statuses, Unlocked
<1>4. CASE \E b \in Boxes : Joined(b) \/ JoinLost(b)
  <2>1. troubles' \in [lost : 0..MaxTroubles, restarts : 0..MaxTroubles]
    BY <1>4, TroublesTyped DEF Joined, JoinLost, RoomOK, TypeOK
  <2>2. PICK b \in Boxes : Joined(b) \/ JoinLost(b)
    BY <1>4
  <2>3. b \in All /\ b # Boss /\ joining[b] \in Codes /\ UNCHANGED <<room, admitted, cursor, given, missed, rejected>>
    BY <1>0, <2>2 DEF RoomOK, TypeOK, Joined, JoinLost, All
  <2>4. joining' \in [All -> Codes \cup {NoOne}]
    BY <2>2 DEF RoomOK, TypeOK, Joined, JoinLost
  <2>5. mine' = mine \/ mine' = [mine EXCEPT ![b] = joining[b]]
    BY <2>2 DEF Joined, JoinLost
  <2>6. /\ mine' \in [All -> Members \cup {NoOne}] /\ mine'[Boss] = Boss
        /\ \A c \in Boxes : mine'[c] # Boss
    BY <1>0, <2>3, <2>5, ZenonT(60) DEF RoomOK, TypeOK, RoomInv, Members, All
  <2> QED
    BY <1>1, <2>1, <2>3, <2>4, <2>6 DEF RoomOK, TypeOK, RoomInv, room, Unlocked
<1>5. CASE \E b \in Boxes : Leave(b)
  <2>1. troubles' \in [lost : 0..MaxTroubles, restarts : 0..MaxTroubles]
    BY <1>5, TroublesTyped DEF Leave, RoomOK, TypeOK
  <2>2. member' \in [Members -> Statuses] /\ member'[Boss] = "active"
    <3>1. PICK b \in Boxes : Leave(b)
      BY <1>5
    <3>2. member' = member \/ member' = [member EXCEPT ![mine[b]] = IF @ = "active" THEN "left" ELSE @]
      BY <3>1 DEF Leave
    <3>3. /\ mine[b] # Boss /\ member \in [Members -> Statuses] /\ member[Boss] = "active"
          /\ mine[b] \in Members
      BY <1>0, <3>1 DEF RoomOK, TypeOK, RoomInv, Leave, All
    <3> DEFINE st == IF member[mine[b]] = "active" THEN "left" ELSE member[mine[b]]
    <3>4. st \in Statuses
      BY <3>3 DEF Statuses
    <3>5. member' = member \/ member' = [member EXCEPT ![mine[b]] = st]
      BY <3>2, <3>3
    <3> HIDE DEF st
    <3> QED
      BY <3>3, <3>4, <3>5 DEF Members
  <2> QED
    BY <1>0, <1>1, <1>5, <2>1, <2>2, SMTT(30) DEF RoomOK, TypeOK, RoomInv, Leave, All, Members, Unlocked
<1>6. CASE \E m \in Members : RemoveMember(m)
  BY <1>0, <1>1, <1>6 DEF RoomOK, TypeOK, RoomInv, RemoveMember, box, Members, Statuses, Unlocked
<1>7. CASE \E b \in All : Admit(b) \/ CardUnknown(b) \/ RejectRead(b)
  BY <1>0, <1>1, <1>7 DEF RoomOK, TypeOK, RoomInv, Admit, CardUnknown, RejectRead, room, box, All, Members,
     Unlocked
<1> QED
  BY <1>2, <1>3, <1>4, <1>5, <1>6, <1>7

\* Writes, and the days.
LEMMA WritesStep ==
  ASSUME RoomOK, (\E m \in Members : AppendEntry(m)) \/ SaveRoom \/ Aging
  PROVE  RoomOK'
<1>0. /\ MaxEntries \in Nat /\ Boss \notin Boxes \cup Codes /\ NoOne \notin Codes \cup {Boss}
      /\ Len(log) \in Nat /\ seq \in Nat
  BY TeamAssumption DEF RoomOK, TypeOK
<1>1. ASSUME NEW m \in Members, AppendEntry(m) PROVE RoomOK'
  <2>1. /\ UNCHANGED <<member, seq, seen, box, reading, troubles>> /\ admitted' \subseteq admitted
    BY <1>1 DEF AppendEntry
  <2>2. CASE UNCHANGED <<log, writing>>
    BY <2>1, <2>2 DEF RoomOK, TypeOK, RoomInv, box, Unlocked
  <2>3. CASE ~UNCHANGED <<log, writing>>
    <3>1. ~UNCHANGED log
      <4>1. log' = Append(log, [seq |-> seq + 1, author |-> m, day |-> "today"])
        BY <1>1, <2>3 DEF AppendEntry, Appends
      <4>2. Len(log') = Len(log) + 1
        BY <4>1 DEF RoomOK, TypeOK
      <4> QED
        BY <1>0, <4>2
    <3>2. /\ writing' = m /\ log' \in Seq(EntryRecord) /\ Len(log') = Len(log) + 1
          /\ Len(log) < MaxEntries
      BY <1>1, <3>1, AppendEffect
    <3>3. DOMAIN log = 1..Len(log) /\ DOMAIN log' = 1..Len(log')
      BY <3>2 DEF RoomOK, TypeOK
    <3>4. TypeOK'
      BY <1>0, <2>1, <3>2 DEF RoomOK, TypeOK, box
    <3>5. RoomInv'
      BY <1>0, <2>1, <3>2, <3>3 DEF RoomOK, RoomInv, box, Unlocked
    <3> QED
      BY <3>4, <3>5 DEF RoomOK
  <2> QED
    BY <2>2, <2>3
<1>2. CASE SaveRoom
  BY <1>0, <1>2 DEF RoomOK, TypeOK, RoomInv, SaveRoom, box, Unlocked
<1>3. CASE Aging
  <2>1. /\ log' \in Seq(EntryRecord) /\ Len(log') = Len(log)
        /\ UNCHANGED <<member, seq, seen, writing, admitted, box, reading, troubles>>
    BY <1>3, AgingEffect DEF RoomOK, TypeOK
  <2>2. DOMAIN log' = DOMAIN log
    BY <2>1 DEF RoomOK, TypeOK
  <2> QED
    BY <2>1, <2>2 DEF RoomOK, TypeOK, RoomInv, box, Unlocked
<1> QED
  BY <1>1, <1>2, <1>3

\* Reads, and restarts.
LEMMA ReadsStep ==
  ASSUME RoomOK,
         \/ \E b \in All : AskRead(b) \/ NoteSeen(b) \/ Receive(b) \/ Hand(b)
         \/ \E b \in Boxes : ReadLost(b) \/ Restart(b)
         \/ Crash
  PROVE  RoomOK'
<1>0. /\ MaxEntries \in Nat /\ MaxTroubles \in Nat /\ Boss \notin Boxes \cup Codes
      /\ NoOne \notin Codes \cup {Boss} /\ Len(log) \in Nat
      /\ DOMAIN log = 1..Len(log) /\ Len(log) <= MaxEntries
      /\ reading \in [All -> ReadRecord] /\ cursor \in [All -> 0..MaxEntries]
      /\ Boxes \subseteq All
  BY TeamAssumption DEF RoomOK, TypeOK, All
<1>1. NotReading \in ReadRecord /\ NotReading.got = {}
  BY DEF NotReading, ReadRecord
<1>2. ASSUME NEW b \in All, AskRead(b) PROVE RoomOK'
  <2> DEFINE r == [at |-> "read", as |-> mine[b], told |-> b \in rejected, got |-> Fresh(cursor[b])]
  <2>1. Fresh(cursor[b]) \subseteq DOMAIN log /\ TooOld(cursor[b]) \subseteq 1..MaxEntries
    BY <1>0 DEF Fresh, TooOld, After
  <2>2. r \in ReadRecord /\ r.got \subseteq DOMAIN log
    BY <1>0, <2>1 DEF RoomOK, TypeOK, ReadRecord
  <2>3. /\ reading' = [reading EXCEPT ![b] = r]
        /\ missed' = [missed EXCEPT ![b] = @ \cup TooOld(cursor[b])]
        /\ UNCHANGED <<room, admitted, mine, joining, cursor, given, rejected, troubles>>
    BY <1>2 DEF AskRead, AskAfter
  <2> HIDE DEF r
  <2>4. missed' \in [All -> SUBSET (1..MaxEntries)]
    BY <2>1, <2>3 DEF RoomOK, TypeOK
  <2> QED
    BY <1>0, <2>2, <2>3, <2>4 DEF RoomOK, TypeOK, RoomInv, room, Unlocked
<1>3. ASSUME NEW b \in All, NEW at \in {"answered", "kept"}, reading' = [reading EXCEPT ![b].at = at],
             UNCHANGED log
      PROVE  reading' \in [All -> ReadRecord] /\ \A k \in All : reading'[k].got \subseteq DOMAIN log'
  <2> DEFINE r == [reading[b] EXCEPT !.at = at]
  <2>1. r \in ReadRecord /\ r.got = reading[b].got
    BY <1>0 DEF ReadRecord
  <2>2. reading' = [reading EXCEPT ![b] = r]
    BY <1>3
  <2> HIDE DEF r
  <2> QED
    BY <1>0, <1>3, <2>1, <2>2 DEF RoomOK, RoomInv
<1>4. ASSUME NEW b \in All, NoteSeen(b) PROVE RoomOK'
  <2>1. seen' \in [Members -> 0..MaxEntries]
    BY <1>4, NewestTyped DEF NoteSeen, RoomOK, TypeOK
  <2>2. UNCHANGED <<member, seq, log, writing, admitted, box, troubles>>
        /\ reading' = [reading EXCEPT ![b].at = "answered"]
    BY <1>4 DEF NoteSeen
  <2> QED
    BY <1>3, <2>1, <2>2 DEF RoomOK, TypeOK, RoomInv, box, Unlocked
<1>5. ASSUME NEW b \in All, Receive(b) PROVE RoomOK'
  <2>1. cursor' \in [All -> 0..MaxEntries] /\ rejected' \subseteq rejected
    BY <1>0, <1>5, NewestTyped DEF Receive
  <2>2. UNCHANGED <<room, admitted, mine, joining, given, missed, troubles>>
        /\ reading' = [reading EXCEPT ![b].at = "kept"]
    BY <1>5 DEF Receive
  <2> QED
    BY <1>3, <2>1, <2>2 DEF RoomOK, TypeOK, RoomInv, room, Unlocked
<1>6. ASSUME NEW b \in All, reading' = [reading EXCEPT ![b] = NotReading], UNCHANGED log
      PROVE  reading' \in [All -> ReadRecord] /\ \A k \in All : reading'[k].got \subseteq DOMAIN log'
  BY <1>0, <1>1, <1>6 DEF RoomOK, RoomInv
<1>7. ASSUME NEW b \in All, Hand(b) PROVE RoomOK'
  <2>1. given' \in [All -> SUBSET (1..MaxEntries)]
    <3>1. reading[b].got \subseteq 1..MaxEntries
      BY <1>0 DEF RoomOK, RoomInv
    <3> QED
      BY <1>7, <3>1 DEF Hand, RoomOK, TypeOK
  <2>2. UNCHANGED <<room, admitted, mine, joining, cursor, missed, rejected, troubles>>
        /\ reading' = [reading EXCEPT ![b] = NotReading]
    BY <1>7 DEF Hand
  <2> QED
    BY <1>6, <2>1, <2>2 DEF RoomOK, TypeOK, RoomInv, room, Unlocked
<1>8. ASSUME NEW b \in Boxes, ReadLost(b) \/ Restart(b) PROVE RoomOK'
  <2>1. /\ reading' = [reading EXCEPT ![b] = NotReading] /\ UNCHANGED <<room, admitted, box>>
        /\ Trouble("lost") \/ Trouble("restarts")
    BY <1>8 DEF ReadLost, Restart
  <2>2. troubles' \in [lost : 0..MaxTroubles, restarts : 0..MaxTroubles]
    BY <2>1, TroublesTyped DEF RoomOK
  <2> QED
    BY <1>0, <1>6, <2>1, <2>2 DEF RoomOK, TypeOK, RoomInv, room, box, Unlocked
<1>9. CASE Crash
  <2>1. troubles' \in [lost : 0..MaxTroubles, restarts : 0..MaxTroubles]
    BY <1>9, TroublesTyped DEF RoomOK, Crash
  <2> QED
    BY <1>0, <1>1, <1>9, <2>1 DEF RoomOK, TypeOK, RoomInv, Crash, Unlocked, Members
<1> QED
  BY <1>2, <1>4, <1>5, <1>7, <1>8, <1>9

LEMMA RoomStep ==
  ASSUME RoomOK, [Next]_vars PROVE RoomOK'
<1>1. CASE UNCHANGED vars
  BY <1>1 DEF vars, room, box, RoomOK, TypeOK, RoomInv, Unlocked
<1>2. CASE Next
  BY <1>2, MembersStep, WritesStep, ReadsStep DEF Next, ReadSteps, Aging
<1> QED
  BY <1>1, <1>2

\* The types; and the log is never behind what room.json counts, restarts of the boss
\* between append and writeRoom included.
THEOREM TypeCorrect == Spec => [](TypeOK /\ RoomInv)
<1>1. Init => RoomOK
  BY RoomInit
<1>2. RoomOK /\ [Next]_vars => RoomOK'
  BY RoomStep
<1>3. RoomOK => TypeOK /\ RoomInv
  BY DEF RoomOK
<1> QED
  BY <1>1, <1>2, <1>3, PTL DEF Spec
------------------------------------------------------------------------------
(* Who writes.                                                               *)

\* The log grows by one entry, of a member; time and everything else leave its numbers and
\* authors as they are.
LEMMA LogStep ==
  ASSUME RoomOK, [Next]_vars
  PROVE  \/ UNCHANGED log
         \/ Aging
         \/ \E m \in Members : AppendEntry(m) /\ ~UNCHANGED log
<1>1. CASE UNCHANGED vars
  BY <1>1 DEF vars, room
<1>2. CASE Next
  BY <1>2 DEF Next, MakeInvite, InviteExpires, JoinRoom, Joined, JoinLost, Leave, ReadLost, Restart,
     RemoveMember, Admit, CardUnknown, ReadSteps, AskRead, AskAfter, RejectRead, NoteSeen, Receive, Hand, SaveRoom,
     Crash, Aging, room
<1> QED
  BY <1>1, <1>2

LEMMA Domains ==
  ASSUME RoomOK, [Next]_vars
  PROVE  /\ DOMAIN log = 1..Len(log) /\ Len(log) \in Nat
         /\ DOMAIN log' = 1..Len(log') /\ Len(log') \in Nat
  BY RoomStep DEF RoomOK, TypeOK

\* Who was removed or has left writes no more, a request that was let in before
\* included (roomStore.ts post, card, removeMember, leave).
THEOREM Gone == Spec => GoneIsSilent
<1>1. RoomOK /\ [Next]_vars =>
        [\A i \in DOMAIN log' \ DOMAIN log : member[log'[i].author] = "active"]_vars
  <2> SUFFICES ASSUME RoomOK, [Next]_vars, NEW i \in DOMAIN log' \ DOMAIN log
               PROVE  member[log'[i].author] = "active"
    OBVIOUS
  <2>1. CASE Aging
    BY <2>1, AgingEffect, Domains DEF RoomOK, TypeOK
  <2>2. ASSUME NEW m \in Members, AppendEntry(m), ~UNCHANGED log
        PROVE  member[log'[i].author] = "active"
    <3>1. /\ MayWrite(m) /\ Len(log') = Len(log) + 1
          /\ log'[Len(log) + 1] = [seq |-> seq + 1, author |-> m, day |-> "today"]
      BY <2>2, AppendEffect
    <3>2. i = Len(log) + 1
      BY <3>1, Domains
    <3> QED
      BY <3>1, <3>2 DEF MayWrite
  <2> QED
    BY <2>1, <2>2, LogStep
<1>2. TypeOK /\ RoomInv => RoomOK
  BY DEF RoomOK
<1> QED
  BY <1>1, <1>2, TypeCorrect, PTL DEF Spec, GoneIsSilent

------------------------------------------------------------------------------
(* What the stand-ups are given.                                             *)

\* As long as no box restarts the entries are numbered without a gap; no cursor is beyond
\* the log or what its stand-up has had, and what a box reads has, with what it had before,
\* every entry up to the last one it reads.
Kept(b) == IF reading[b].at = "kept" THEN reading[b].got ELSE {}

\* What b's stand-up was given, or asked for too late.
Had(b) == given[b] \cup missed[b]

BoxReads(b) ==
  /\ cursor[b] <= Len(log) /\ 1..cursor[b] \subseteq Had(b) \cup Kept(b)
  /\ reading[b].at \in {"read", "answered"} =>
       \A j \in reading[b].got : 1..j \subseteq Had(b) \cup reading[b].got

Gapless ==
  /\ \A i \in DOMAIN log : log[i].seq = i
  /\ Len(log) = seq + IF Unlocked THEN 0 ELSE 1
  /\ \A b \in All : BoxReads(b)

SkipInv == Unbroken => Gapless

LEMMA SkipLog ==
  ASSUME RoomOK, SkipInv, [Next]_vars, Unbroken'
  PROVE  /\ Unbroken
         /\ \A i \in DOMAIN log' : log'[i].seq = i
         /\ Len(log') = seq' + IF Unlocked' THEN 0 ELSE 1
         /\ DOMAIN log \subseteq DOMAIN log' /\ Len(log) <= Len(log')
         /\ \A i \in DOMAIN log' \ DOMAIN log : i > Len(log)
<1>0. /\ log \in Seq(EntryRecord) /\ troubles \in [lost : 0..MaxTroubles, restarts : 0..MaxTroubles]
      /\ Len(log) \in Nat /\ seq \in Nat /\ MaxTroubles \in Nat
  BY TeamAssumption DEF RoomOK, TypeOK
<1>1. UNCHANGED troubles \/ Trouble("lost") \/ Trouble("restarts")
  BY DEF Next, MakeInvite, InviteExpires, JoinRoom, Joined, JoinLost, Leave, ReadLost, Restart,
     RemoveMember, AppendEntry, Admit, CardUnknown, ReadSteps, AskRead, AskAfter, RejectRead, NoteSeen, Receive, Hand,
     SaveRoom, NextDay, Ages, Crash, vars
<1>2. Unbroken /\ ~Trouble("restarts")
  BY <1>0, <1>1 DEF Unbroken, Trouble
<1>3. Gapless
  BY <1>2 DEF SkipInv
<1>4. CASE UNCHANGED <<log, seq, writing>>
  BY <1>0, <1>2, <1>3, <1>4 DEF Gapless, Unlocked
<1>5. CASE SaveRoom
  BY <1>0, <1>2, <1>3, <1>5 DEF Gapless, Unlocked, SaveRoom
<1>6. CASE Aging
  BY <1>0, <1>2, <1>3, <1>6, AgingEffect, Domains DEF Gapless, Unlocked
<1>7. ASSUME NEW m \in Members, AppendEntry(m), ~UNCHANGED log
      PROVE  /\ \A i \in DOMAIN log' : log'[i].seq = i
             /\ Len(log') = seq' + IF Unlocked' THEN 0 ELSE 1
             /\ DOMAIN log \subseteq DOMAIN log' /\ Len(log) <= Len(log')
             /\ \A i \in DOMAIN log' \ DOMAIN log : i > Len(log)
  <2>1. /\ Unlocked /\ writing' = m /\ UNCHANGED seq /\ Len(log') = Len(log) + 1
        /\ \A i \in DOMAIN log : log'[i] = log[i]
        /\ log'[Len(log) + 1] = [seq |-> seq + 1, author |-> m, day |-> "today"]
    BY <1>7, AppendEffect
  <2>2. ~Unlocked'
    BY <2>1, TeamAssumption DEF Unlocked, Members
  <2>3. Len(log) = seq
    BY <1>0, <1>3, <2>1 DEF Gapless
  <2>4. log'[Len(log) + 1].seq = Len(log) + 1
    BY <2>1, <2>3
  <2> QED
    BY <1>0, <1>3, <2>1, <2>2, <2>3, <2>4, Domains DEF Gapless
<1>8. (\E m \in Members : AppendEntry(m)) /\ UNCHANGED log => UNCHANGED <<log, seq, writing>>
  <2> SUFFICES ASSUME NEW m \in Members, AppendEntry(m), UNCHANGED log
               PROVE  UNCHANGED <<log, seq, writing>>
    OBVIOUS
  <2>1. Len(Append(log, [seq |-> seq + 1, author |-> m, day |-> "today"])) = Len(log) + 1
    BY <1>0
  <2>2. ~Appends(m)
    BY <1>0, <2>1 DEF Appends
  <2> QED
    BY <2>2 DEF AppendEntry
<1>9. \/ UNCHANGED <<log, seq, writing>> \/ SaveRoom \/ Aging
      \/ \E m \in Members : AppendEntry(m)
  BY <1>2 DEF Next, MakeInvite, InviteExpires, JoinRoom, Joined, JoinLost, Leave, ReadLost, Restart,
     RemoveMember, Admit, CardUnknown, ReadSteps, AskRead, AskAfter, RejectRead, NoteSeen, Receive, Hand, Crash,
     Aging, vars, room
<1> QED
  BY <1>2, <1>4, <1>5, <1>6, <1>7, <1>8, <1>9
\* The steps that touch what box b has read.
LEMMA BoxSteps ==
  ASSUME RoomOK, [Next]_vars, NEW b \in All
  PROVE  \/ cursor'[b] = cursor[b] /\ reading'[b] = reading[b] /\ Had(b)' = Had(b)
         \/ AskRead(b) \/ NoteSeen(b) \/ Receive(b) \/ Hand(b) \/ Leave(b) \/ ReadLost(b)
         \/ Trouble("restarts")
<1>0. cursor \in [All -> 0..MaxEntries] /\ reading \in [All -> ReadRecord]
      /\ given \in [All -> SUBSET (1..MaxEntries)] /\ missed \in [All -> SUBSET (1..MaxEntries)]
      /\ Boxes \subseteq All
  BY DEF RoomOK, TypeOK, All
<1>1. CASE UNCHANGED <<cursor, reading, given, missed>>
  BY <1>1 DEF Had
<1>2. ASSUME NEW c \in All, c # b,
             AskRead(c) \/ NoteSeen(c) \/ Receive(c) \/ Hand(c) \/ Leave(c) \/ ReadLost(c)
      PROVE  cursor'[b] = cursor[b] /\ reading'[b] = reading[b] /\ Had(b)' = Had(b)
  BY <1>0, <1>2 DEF AskRead, AskAfter, NoteSeen, Receive, Hand, Leave, ReadLost, box, room, Had
<1>3. \/ UNCHANGED <<cursor, reading, given, missed>>
      \/ \E c \in All : AskRead(c) \/ NoteSeen(c) \/ Receive(c) \/ Hand(c) \/ Leave(c) \/ ReadLost(c)
      \/ Trouble("restarts")
  BY <1>0 DEF Next, MakeInvite, InviteExpires, JoinRoom, Joined, JoinLost, Restart, RemoveMember,
     AppendEntry, Admit, CardUnknown, ReadSteps, RejectRead, SaveRoom, NextDay, Ages, Crash, vars, box
<1> QED
  BY <1>1, <1>2, <1>3

LEMMA SkipBox ==
  ASSUME RoomOK, SkipInv, [Next]_vars, Unbroken', NEW b \in All
  PROVE  BoxReads(b)'
<1>0. /\ cursor \in [All -> 0..MaxEntries] /\ reading \in [All -> ReadRecord] /\ reading[b] \in ReadRecord
      /\ given \in [All -> SUBSET (1..MaxEntries)] /\ missed \in [All -> SUBSET (1..MaxEntries)]
      /\ MaxEntries \in Nat
      /\ cursor[b] \in Nat /\ Len(log) \in Nat /\ DOMAIN log = 1..Len(log)
      /\ reading[b].got \subseteq DOMAIN log
  BY Domains, TeamAssumption DEF RoomOK, TypeOK, RoomInv
<1>1. Unbroken /\ Gapless /\ Len(log) <= Len(log') /\ Len(log') \in Nat
  BY SkipLog, Domains DEF SkipInv
<1>2. BoxReads(b)
  BY <1>1 DEF Gapless
<1>3. ~Trouble("restarts")
  BY <1>1, TeamAssumption DEF Unbroken, Trouble, RoomOK, TypeOK
<1>4. CASE cursor'[b] = cursor[b] /\ reading'[b] = reading[b] /\ Had(b)' = Had(b)
  BY <1>0, <1>1, <1>2, <1>4 DEF BoxReads, Kept
<1>5. ASSUME NEW r \in ReadRecord, reading' = [reading EXCEPT ![b] = r] PROVE reading'[b] = r
  BY <1>0, <1>5
<1>6. CASE AskRead(b)
  <2> DEFINE since == cursor[b]
             r == [at |-> "read", as |-> mine[b], told |-> b \in rejected, got |-> Fresh(since)]
  <2>1. /\ reading' = [reading EXCEPT ![b] = r] /\ reading[b] = NotReading
        /\ UNCHANGED <<cursor, given, log>>
        /\ missed' = [missed EXCEPT ![b] = @ \cup TooOld(since)]
    BY <1>6 DEF AskRead, AskAfter, room
  <2>2. reading'[b] = r /\ Had(b)' = Had(b) \cup TooOld(since)
    BY <1>0, <2>1 DEF Had
  <2>3. reading'[b].at = "read" /\ reading'[b].got = Fresh(since)
    BY <2>2
  <2>4. 1..since \subseteq Had(b)
    BY <1>2, <2>1 DEF BoxReads, Kept, NotReading
  <2>5. \A i \in 1..Len(log) : i > since => i \in After(since)
    BY <1>0, <1>1 DEF Gapless, After
  <2>6. Fresh(since) \subseteq 1..Len(log)
    BY <1>0 DEF Fresh, After
  <2>7. After(since) \subseteq Fresh(since) \cup TooOld(since)
    <3> SUFFICES ASSUME NEW i \in After(since)
                 PROVE  i \in Fresh(since) \/ i \in TooOld(since)
      OBVIOUS
    <3>1. i \in 1..Len(log) /\ log \in Seq(EntryRecord)
      BY <1>0 DEF After, RoomOK, TypeOK
    <3>2. log[i] \in EntryRecord
      BY <3>1
    <3>3. since > 0 \/ since = 0
      BY <1>0
    <3> QED
      BY <3>2, <3>3 DEF Fresh, TooOld, EntryRecord, Days
  <2>8. 1..Len(log) \subseteq Had(b)' \cup Fresh(since)
    BY <1>0, <2>2, <2>4, <2>5, <2>7
  <2> HIDE DEF r
  <2> QED
    BY <1>0, <1>1, <1>2, <2>1, <2>2, <2>3, <2>4, <2>6, <2>8 DEF BoxReads, Kept
<1>7. CASE NoteSeen(b)
  <2> DEFINE r == [reading[b] EXCEPT !.at = "answered"]
  <2>1. /\ r \in ReadRecord /\ r.at = "answered" /\ r.got = reading[b].got
        /\ reading' = [reading EXCEPT ![b] = r] /\ reading[b].at = "read" /\ UNCHANGED <<cursor, given, missed>>
    BY <1>0, <1>7 DEF NoteSeen, box, ReadRecord
  <2> HIDE DEF r
  <2> QED
    BY <1>0, <1>1, <1>2, <1>5, <2>1 DEF BoxReads, Had, Kept
<1>8. CASE Receive(b)
  <2> DEFINE r == [reading[b] EXCEPT !.at = "kept"]
             got == reading[b].got
  <2>1. /\ r \in ReadRecord /\ r.at = "kept" /\ r.got = got
        /\ reading' = [reading EXCEPT ![b] = r] /\ reading[b].at = "answered" /\ UNCHANGED <<given, missed>>
    BY <1>0, <1>8 DEF Receive, ReadRecord
  <2> HIDE DEF r
  <2>2. reading'[b] = r
    BY <1>5, <2>1
  <2>3. CASE cursor'[b] = cursor[b]
    BY <1>0, <1>1, <1>2, <2>1, <2>2, <2>3 DEF BoxReads, Had, Kept
  <2>4. CASE cursor'[b] = Newest(got) /\ got # {}
    <3>1. LastOf(got) \in got
      BY <1>0, <2>4, LargestOf
    <3>2. cursor'[b] = LastOf(got) /\ LastOf(got) \in 1..Len(log)
      BY <1>0, <1>1, <2>4, <3>1 DEF Gapless, Newest
    <3>3. 1..LastOf(got) \subseteq Had(b) \cup got
      BY <1>2, <2>1, <3>1 DEF BoxReads
    <3> QED
      BY <1>0, <1>1, <2>1, <2>2, <3>2, <3>3 DEF BoxReads, Had, Kept
  <2>5. \/ cursor'[b] = cursor[b]
        \/ cursor'[b] = Newest(got) /\ got # {}
    BY <1>0, <1>8 DEF Receive
  <2> QED
    BY <2>3, <2>4, <2>5
<1>9. CASE Hand(b)
  <2>1. /\ reading'[b] = NotReading /\ reading[b].at = "kept" /\ UNCHANGED <<cursor, missed>>
        /\ given'[b] = given[b] \cup reading[b].got
    BY <1>0, <1>9 DEF Hand
  <2> QED
    BY <1>0, <1>1, <1>2, <2>1 DEF BoxReads, Had, Kept, NotReading
<1>10. CASE Leave(b)
  <2>1. cursor'[b] = 0 /\ UNCHANGED <<reading, given, missed>>
    BY <1>0, <1>10 DEF Leave
  <2> QED
    BY <1>0, <1>1, <1>2, <2>1 DEF BoxReads, Had
<1>11. CASE ReadLost(b)
  <2>1. reading'[b] = NotReading /\ reading[b].at = "answered" /\ UNCHANGED <<cursor, given, missed>>
    BY <1>0, <1>11 DEF ReadLost, box
  <2> QED
    BY <1>0, <1>1, <1>2, <2>1 DEF BoxReads, Had, Kept, NotReading
<1> QED
  BY <1>3, <1>4, <1>6, <1>7, <1>8, <1>9, <1>10, <1>11, BoxSteps

\* What a stand-up's cursor has passed, the stand-up was given, or asked for when it was
\* too old: whatever is written while it reads, and whatever reply is lost, as long as no
\* box restarts (roomStore.ts read, service.ts read).
THEOREM Nothing == Spec => []NothingSkipped
<1>1. Init => SkipInv
  <2> SUFFICES ASSUME Init PROVE Gapless
    BY DEF SkipInv
  <2>1. /\ log = <<>> /\ Len(log) = 0 /\ DOMAIN log = {} /\ seq = 0 /\ Unlocked
        /\ \A b \in All : cursor[b] = 0 /\ reading[b] = NotReading
    BY DEF Init, Unlocked
  <2> QED
    BY <2>1 DEF Gapless, BoxReads, NotReading
<1>2. RoomOK /\ SkipInv /\ [Next]_vars => SkipInv'
  BY SkipLog, SkipBox DEF SkipInv, Gapless
<1>3. RoomOK /\ SkipInv => NothingSkipped
  <2> SUFFICES ASSUME RoomOK, Gapless, NEW b \in All, NEW i \in DOMAIN log, log[i].seq <= cursor[b]
               PROVE  i \in Had(b) \cup Kept(b)
    BY DEF SkipInv, NothingSkipped, Kept, Had
  <2>1. i \in 1..cursor[b]
    BY DEF RoomOK, TypeOK, Gapless
  <2> QED
    BY <2>1 DEF Gapless, BoxReads
<1>4. TypeOK /\ RoomInv => RoomOK
  BY DEF RoomOK
<1> QED
  BY <1>1, <1>2, <1>3, <1>4, TypeCorrect, PTL DEF Spec
------------------------------------------------------------------------------
(* Tokens and limits.                                                        *)

\* A member id a box holds, or has on its way, is of a code that was used.
TokensInv ==
  /\ \A b \in Boxes : \A m \in {mine[b], joining[b]} :
       m # NoOne => member[m] \notin {"none", "open", "expired"}
  /\ OneBoxPerCode

LEMMA TokensStep ==
  ASSUME RoomOK, TokensInv, [Next]_vars PROVE TokensInv'
<1>0. /\ Boss \notin Boxes /\ NoOne \notin Members /\ Boxes \subseteq All
      /\ mine \in [All -> Members \cup {NoOne}] /\ joining \in [All -> Codes \cup {NoOne}]
      /\ member \in [Members -> Statuses] /\ Codes \subseteq Members
  BY TeamAssumption DEF RoomOK, TypeOK, Members, All
<1> DEFINE Used(m) == member[m] \notin {"none", "open", "expired"}
<1>1. ASSUME \A b \in Boxes : {mine'[b], joining'[b]} \subseteq {mine[b], joining[b], NoOne},
             \A m \in Members : Used(m) => Used(m)'
      PROVE  TokensInv'
  <2>1. ASSUME NEW b \in Boxes, NEW m \in {mine'[b], joining'[b]}, m # NoOne
        PROVE  m \in {mine[b], joining[b]} /\ Used(m)'
    BY <1>0, <1>1, <2>1 DEF TokensInv
  <2>2. ASSUME NEW b \in Boxes, NEW c \in Boxes,
               NEW m \in {mine'[b], joining'[b]} \cap {mine'[c], joining'[c]}, m # NoOne
        PROVE  b = c
    BY <2>1, <2>2 DEF TokensInv, OneBoxPerCode
  <2> QED
    BY <2>1, <2>2 DEF TokensInv, OneBoxPerCode
<1>2. CASE UNCHANGED <<member, mine, joining>>
  BY <1>1, <1>2
<1>3. ASSUME NEW c \in Codes, MakeInvite(c) \/ InviteExpires(c) PROVE TokensInv'
  BY <1>0, <1>1, <1>3 DEF MakeInvite, InviteExpires, box
<1>4. ASSUME NEW b \in Boxes, NEW c \in Codes, JoinRoom(b, c) PROVE TokensInv'
  <2>1. /\ member[c] = "open" /\ member' = [member EXCEPT ![c] = "active"] /\ UNCHANGED mine
        /\ joining' = [joining EXCEPT ![b] = c] /\ c \in Members /\ c # NoOne
        /\ mine[b] = NoOne
    BY <1>0, <1>4 DEF JoinRoom
  <2>2. \A k \in Boxes : c \notin {mine[k], joining[k]}
    BY <2>1 DEF TokensInv
  <2>3. ASSUME NEW k \in Boxes, NEW m \in {mine'[k], joining'[k]}, m # NoOne
        PROVE  /\ member'[m] \notin {"none", "open", "expired"}
               /\ (m = c /\ k = b) \/ (m # c /\ m \in {mine[k], joining[k]})
    BY <1>0, <2>1, <2>2, <2>3 DEF TokensInv
  <2>4. ASSUME NEW k \in Boxes, NEW l \in Boxes,
               NEW m \in {mine'[k], joining'[k]} \cap {mine'[l], joining'[l]}, m # NoOne
        PROVE  k = l
    BY <2>3, <2>4 DEF TokensInv, OneBoxPerCode
  <2> QED
    BY <2>3, <2>4 DEF TokensInv, OneBoxPerCode
<1>5. ASSUME NEW b \in Boxes, Joined(b) \/ JoinLost(b) PROVE TokensInv'
  BY <1>0, <1>1, <1>5 DEF Joined, JoinLost, room
<1>6. ASSUME NEW b \in Boxes, Leave(b) PROVE TokensInv'
  <2>1. /\ UNCHANGED joining /\ mine' = [mine EXCEPT ![b] = NoOne]
        /\ \/ member' = member
           \/ member' = [member EXCEPT ![mine[b]] = IF @ = "active" THEN "left" ELSE @]
    BY <1>6 DEF Leave
  <2>2. mine[b] \in Members
    BY <1>0, <1>6 DEF Leave
  <2>3. \A m \in Members : Used(m) => Used(m)'
    BY <1>0, <2>1, <2>2
  <2>4. \A k \in Boxes : {mine'[k], joining'[k]} \subseteq {mine[k], joining[k], NoOne}
    BY <1>0, <2>1
  <2> QED
    BY <1>1, <2>3, <2>4
<1>7. ASSUME NEW m \in Members, RemoveMember(m) PROVE TokensInv'
  BY <1>0, <1>1, <1>7 DEF RemoveMember, box
<1>8. CASE Crash
  <2>1. UNCHANGED <<member, mine>> /\ joining' = [b \in All |-> NoOne]
    BY <1>8 DEF Crash
  <2> QED
    BY <1>0, <1>1, <2>1
<1> QED
  BY <1>2, <1>3, <1>4, <1>5, <1>6, <1>7, <1>8
  DEF Next, ReadLost, Restart, AppendEntry, Admit, CardUnknown, ReadSteps, AskRead, AskAfter, RejectRead, NoteSeen,
      Receive, Hand, SaveRoom, NextDay, Ages, vars, room, box

\* A token belongs to one box: an invite link that was forwarded twice lets one box in,
\* and so does one that crosses a lost reply (roomStore.ts join).
THEOREM OneBox == Spec => []OneBoxPerCode
<1>1. Init => TokensInv
  BY TeamAssumption DEF Init, TokensInv, OneBoxPerCode, All
<1>2. RoomOK /\ TokensInv /\ [Next]_vars => TokensInv'
  BY TokensStep
<1>3. TokensInv => OneBoxPerCode
  BY DEF TokensInv
<1>4. TypeOK /\ RoomInv => RoomOK
  BY DEF RoomOK
<1> QED
  BY <1>1, <1>2, <1>3, <1>4, TypeCorrect, PTL DEF Spec

\* What m wrote today.
TodayOf(m) == {i \in DOMAIN log : log[i].author = m /\ log[i].day = "today"}

LEMMA DailyStep ==
  ASSUME RoomOK, DailyWrites, [Next]_vars PROVE DailyWrites'
<1> SUFFICES ASSUME NEW m \in Members PROVE Cardinality(TodayOf(m)') <= MaxWrites
  BY DEF DailyWrites, WritesToday, TodayOf
<1>0. /\ DOMAIN log = 1..Len(log) /\ Len(log) \in Nat /\ DOMAIN log' = 1..Len(log') /\ MaxWrites \in Nat
      /\ Cardinality(TodayOf(m)) <= MaxWrites
  BY Domains, TeamAssumption DEF DailyWrites, WritesToday, TodayOf
<1>1. IsFiniteSet(TodayOf(m)) /\ Cardinality(TodayOf(m)) \in Nat
  <2>1. IsFiniteSet(1..Len(log))
    BY <1>0, FS_Interval
  <2>2. TodayOf(m) \subseteq 1..Len(log)
    BY <1>0 DEF TodayOf
  <2> QED
    BY <2>1, <2>2, FS_Subset, FS_CardinalityType
<1>2. CASE UNCHANGED log
  BY <1>0, <1>2 DEF TodayOf
<1>3. CASE Aging
  <2>1. TodayOf(m)' \subseteq TodayOf(m)
    BY <1>0, <1>3, AgingEffect DEF TodayOf, RoomOK, TypeOK
  <2>2. Cardinality(TodayOf(m)') <= Cardinality(TodayOf(m)) /\ Cardinality(TodayOf(m)') \in Nat
    BY <1>1, <2>1, FS_Subset, FS_CardinalityType
  <2> QED
    BY <1>0, <1>1, <2>2
<1>4. ASSUME NEW a \in Members, AppendEntry(a), ~UNCHANGED log
      PROVE  Cardinality(TodayOf(m)') <= MaxWrites
  <2>1. /\ MayWrite(a) /\ Len(log') = Len(log) + 1 /\ \A i \in DOMAIN log : log'[i] = log[i]
        /\ log'[Len(log) + 1] = [seq |-> seq + 1, author |-> a, day |-> "today"]
    BY <1>4, AppendEffect
  <2>2. CASE a # m
    <3>1. TodayOf(m)' = TodayOf(m)
      BY <1>0, <2>1, <2>2 DEF TodayOf
    <3> QED
      BY <1>0, <3>1
  <2>3. CASE a = m
    <3>1. TodayOf(m)' = TodayOf(m) \cup {Len(log) + 1} /\ Len(log) + 1 \notin TodayOf(m)
      BY <1>0, <2>1, <2>3 DEF TodayOf
    <3>2. Cardinality(TodayOf(m)') = Cardinality(TodayOf(m)) + 1
      BY <1>1, <3>1, FS_AddElement
    <3>3. Cardinality(TodayOf(m)) < MaxWrites
      BY <2>1, <2>3 DEF MayWrite, WritesToday, TodayOf
    <3> QED
      BY <1>0, <1>1, <3>2, <3>3
  <2> QED
    BY <2>2, <2>3
<1> QED
  BY <1>2, <1>3, <1>4, LogStep

\* No member writes more than the limit in a day, restarts included (roomStore.ts
\* writesToday).
THEOREM Daily == Spec => []DailyWrites
<1>1. Init => DailyWrites
  <2> SUFFICES ASSUME Init, NEW m \in Members PROVE Cardinality(TodayOf(m)) <= MaxWrites
    BY DEF DailyWrites, WritesToday, TodayOf
  <2>1. TodayOf(m) = {}
    BY DEF Init, TodayOf
  <2> QED
    BY <2>1, FS_EmptySet, TeamAssumption
<1>2. RoomOK /\ DailyWrites /\ [Next]_vars => DailyWrites'
  BY DailyStep
<1>3. TypeOK /\ RoomInv => RoomOK
  BY DEF RoomOK
<1> QED
  BY <1>1, <1>2, <1>3, TypeCorrect, PTL DEF Spec
=============================================================================
