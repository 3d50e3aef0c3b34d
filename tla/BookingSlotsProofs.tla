-------------------------- MODULE BookingSlotsProofs --------------------------
(***************************************************************************)
(* Proofs about BookingSlots for every number of handlers, every set of    *)
(* students, booths and requests and every value of the policy.            *)
(***************************************************************************)
EXTENDS BookingSlots, FiniteSetTheorems, TLAPS

-----------------------------------------------------------------------------
(* Types *)

\* What the label of a process says of the fields it has.
LEMMA LocalFields ==
  ASSUME NEW l \in Local
  PROVE  /\ l.pc \in {"booth", "slot", "count", "capacity", "insert"} => l.q \in Requested
         /\ l.pc = "capacity" => l.seen \in Nat
         /\ l.pc = "write" => l.row \in Nat /\ l.to \in BookingStatus
         /\ l.pc \in {"upcoming", "standing", "present", "next", "mark", "enter"}
              => l.who \in Student /\ l.booth \in Booth /\ l.at \in Nat
         /\ l.pc \in {"upcoming", "standing", "present"}
              => l = [pc |-> l.pc, who |-> l.who, booth |-> l.booth, at |-> l.at]
         /\ l.pc \in {"next", "mark"} => l.fresh \in BOOLEAN
         /\ l.pc = "next" => l.marked \in BOOLEAN
         /\ l.pc = "mark" => l.row \in Nat
         /\ l.pc = "enter" => l.end \in Nat
         /\ l.pc = "transfer"
              => /\ l.from \in Booth /\ l.to \in Booth /\ l.at \in Nat
                 /\ l.todo \in SUBSET Nat /\ l.moved \in SUBSET Nat
                 /\ l.dropped \in SUBSET Nat
                 /\ l = [pc |-> "transfer", from |-> l.from, to |-> l.to, at |-> l.at,
                         todo |-> l.todo, moved |-> l.moved, dropped |-> l.dropped]
<1>1. CASE l = Idle
  BY <1>1 DEF Idle
<1>2. CASE l \in Creating
  BY <1>2 DEF Creating
<1>3. CASE l \in Writing
  BY <1>3 DEF Writing
<1>4. CASE l \in WalkingIn
  BY <1>4 DEF WalkingIn
<1>5. CASE l \in Transferring
  BY <1>5 DEF Transferring
<1> QED
  BY <1>1, <1>2, <1>3, <1>4, <1>5 DEF Local

\* The local states the actions build.
LEMMA LocalTypes ==
  /\ Idle \in Local
  /\ \A q \in Requested : \A pc \in {"booth", "slot", "count", "insert"} :
       [pc |-> pc, q |-> q] \in Local
  /\ \A q \in Requested : \A n \in Nat : [pc |-> "capacity", q |-> q, seen |-> n] \in Local
  /\ \A i \in Nat : \A to \in BookingStatus : [pc |-> "write", row |-> i, to |-> to] \in Local
<1>1. \A q \in Requested : \A pc \in {"booth", "slot", "count", "insert"} :
        [pc |-> pc, q |-> q] \in Local
  BY DEF Local, Creating
<1>2. \A q \in Requested : \A n \in Nat : [pc |-> "capacity", q |-> q, seen |-> n] \in Local
  BY DEF Local, Creating
<1>3. \A i \in Nat : \A to \in BookingStatus :
        [pc |-> "write", row |-> i, to |-> to] \in Local
  BY DEF Local, Writing
<1> QED
  BY <1>1, <1>2, <1>3 DEF Local

LEMMA WalkInTypes ==
  ASSUME NEW who \in Student, NEW k \in Booth, NEW at \in Nat
  PROVE  /\ \A pc \in {"upcoming", "standing", "present"} :
              [pc |-> pc, who |-> who, booth |-> k, at |-> at] \in Local
         /\ \A fresh, marked \in BOOLEAN :
              [pc |-> "next", who |-> who, booth |-> k, at |-> at,
               fresh |-> fresh, marked |-> marked] \in Local
         /\ \A fresh \in BOOLEAN : \A i \in Nat :
              [pc |-> "mark", who |-> who, booth |-> k, at |-> at,
               fresh |-> fresh, row |-> i] \in Local
         /\ \A end \in Nat :
              [pc |-> "enter", who |-> who, booth |-> k, at |-> at, end |-> end] \in Local
<1>1. \A pc \in {"upcoming", "standing", "present"} :
        [pc |-> pc, who |-> who, booth |-> k, at |-> at] \in Local
  BY DEF Local, WalkingIn
<1>2. \A fresh, marked \in BOOLEAN :
        [pc |-> "next", who |-> who, booth |-> k, at |-> at,
         fresh |-> fresh, marked |-> marked] \in Local
  BY DEF Local, WalkingIn
<1>3. \A fresh \in BOOLEAN : \A i \in Nat :
        [pc |-> "mark", who |-> who, booth |-> k, at |-> at,
         fresh |-> fresh, row |-> i] \in Local
  BY DEF Local, WalkingIn
<1>4. \A end \in Nat :
        [pc |-> "enter", who |-> who, booth |-> k, at |-> at, end |-> end] \in Local
  BY DEF Local, WalkingIn
<1> QED
  BY <1>1, <1>2, <1>3, <1>4

LEMMA TransferType ==
  ASSUME NEW from \in Booth, NEW to \in Booth, NEW at \in Nat,
         NEW todo \in SUBSET Nat, NEW moved \in SUBSET Nat, NEW dropped \in SUBSET Nat
  PROVE  Transfer(from, to, at, todo, moved, dropped) \in Local
  BY DEF Transfer, Local, Transferring

\* A local state that refers only to bookings there are.
Refers(l, ids) ==
  /\ l \in Local
  /\ l.pc \in {"write", "mark"} => l.row \in ids
  /\ l.pc = "transfer" => l.todo \cup l.moved \cup l.dropped \subseteq ids

ProcOK == proc \in [Process -> Local] /\ \A p \in Process : Refers(proc[p], Ids)

RowsOK == rows \in Seq(Row)

LEMMA TypeParts ==
  TypeOK <=> now \in 0..Horizon /\ active \in [Booth -> BOOLEAN] /\ RowsOK /\ ProcOK
  BY DEF TypeOK, RowsOK, ProcOK, Refers

\* The same of the next state.
LEMMA TypePartsNext ==
  TypeOK' <=> now' \in 0..Horizon /\ active' \in [Booth -> BOOLEAN] /\ RowsOK' /\ ProcOK'
  BY DEF TypeOK, RowsOK, ProcOK, Refers

LEMMA RowTypes ==
  ASSUME RowsOK, NEW i \in Ids
  PROVE  /\ rows[i] \in Row /\ i \in Nat /\ Ids = 1..Len(rows) /\ Len(rows) \in Nat
         /\ rows[i].who \in Student /\ rows[i].booth \in Booth
         /\ rows[i].start \in Nat /\ rows[i].end \in Nat /\ rows[i].date \in Nat
         /\ rows[i].status \in BookingStatus /\ rows[i].walkIn \in BOOLEAN
<1>1. rows[i] \in Row /\ i \in Nat /\ Ids = 1..Len(rows) /\ Len(rows) \in Nat
  BY DEF RowsOK, Ids
<1> QED
  BY <1>1 DEF Row

\* A process that goes on while no booking disappears.
LEMMA GotoType ==
  ASSUME ProcOK, NEW p \in Process, NEW next, Goto(p, next), Ids \subseteq Ids',
         Refers(next, Ids')
  PROVE  ProcOK'
  BY DEF ProcOK, Goto, Refers

LEMMA EndType ==
  ASSUME ProcOK, NEW p \in Process, End(p), Ids \subseteq Ids'
  PROVE  ProcOK'
<1>1. Refers(Idle, Ids')
  BY LocalTypes DEF Refers, Idle
<1> QED
  BY <1>1, GotoType DEF End

\* The rows after one of them got another status, and after one was added.
LEMMA StatusRows ==
  ASSUME RowsOK, NEW i \in Ids, NEW to \in BookingStatus,
         rows' = [rows EXCEPT ![i] = [@ EXCEPT !.status = to]]
  PROVE  /\ RowsOK' /\ Ids' = Ids
         /\ rows'[i].status = to
         /\ \A j \in Ids : j # i => rows'[j] = rows[j]
         /\ \A j \in Ids : /\ rows'[j].who = rows[j].who /\ rows'[j].booth = rows[j].booth
                           /\ rows'[j].kind = rows[j].kind /\ rows'[j].start = rows[j].start
                           /\ rows'[j].end = rows[j].end /\ rows'[j].date = rows[j].date
                           /\ rows'[j].walkIn = rows[j].walkIn
<1> DEFINE r == [rows[i] EXCEPT !.status = to]
<1>1. rows[i] \in Row
  BY RowTypes
<1>2. r \in Row /\ r.status = to
  BY <1>1 DEF Row
<1>3. /\ r.who = rows[i].who /\ r.booth = rows[i].booth /\ r.kind = rows[i].kind
      /\ r.start = rows[i].start /\ r.end = rows[i].end /\ r.date = rows[i].date
      /\ r.walkIn = rows[i].walkIn
  BY <1>1 DEF Row
<1>4. rows' = [rows EXCEPT ![i] = r]
  OBVIOUS
<1> HIDE DEF r
<1>5. RowsOK' /\ Ids' = Ids /\ rows'[i] = r /\ \A j \in Ids : j # i => rows'[j] = rows[j]
  BY <1>2, <1>4 DEF RowsOK, Ids
<1> QED
  BY <1>2, <1>3, <1>5

LEMMA AppendRows ==
  ASSUME RowsOK, NEW r \in Row, rows' = Append(rows, r)
  PROVE  /\ RowsOK' /\ Ids' = Ids \cup {Len(rows) + 1} /\ Len(rows) + 1 \notin Ids
         /\ rows'[Len(rows) + 1] = r
         /\ \A j \in Ids : rows'[j] = rows[j]
  BY DEF RowsOK, Ids

LEMMA InitTypeOK == Init => TypeOK
  BY LocalTypes, SlotLengthsAssumption DEF Init, TypeOK, Idle, Ids

\* The steps of a process that leave clock, booths and bookings alone.
LEMMA MoveType ==
  ASSUME TypeOK, NEW p \in Process, NEW next, Goto(p, next), Refers(next, Ids),
         UNCHANGED <<now, active, rows>>
  PROVE  TypeOK'
<1>1. RowsOK' /\ Ids' = Ids
  BY TypeParts DEF RowsOK, Ids
<1>2. ProcOK'
  BY <1>1, TypeParts, GotoType
<1> QED
  BY <1>1, <1>2, TypeParts, TypePartsNext

LEMMA StopType ==
  ASSUME TypeOK, NEW p \in Process, End(p), UNCHANGED <<now, active, rows>>
  PROVE  TypeOK'
<1>1. Refers(Idle, Ids)
  BY LocalTypes DEF Refers, Idle
<1> QED
  BY <1>1, MoveType DEF End

LEMMA CreateType == ASSUME TypeOK, NEW p \in Process, CreateStep(p) PROVE TypeOK'
<1> USE TypeParts, TypePartsNext
<1>0. proc[p] \in Local
  BY DEF ProcOK
<1>1. ASSUME NEW q \in Requested, CreateGap(p, q) PROVE TypeOK'
  <2>1. Refers([pc |-> "booth", q |-> q], Ids)
    BY LocalTypes DEF Refers
  <2> QED
    BY <1>1, <2>1, MoveType DEF CreateGap
<1>2. CASE CreateBooth(p)
  <2>1. proc[p].q \in Requested
    BY <1>0, <1>2, LocalFields DEF CreateBooth
  <2>2. Refers([pc |-> "slot", q |-> proc[p].q], Ids)
    BY <2>1, LocalTypes DEF Refers
  <2> QED
    BY <1>2, <2>2, MoveType DEF CreateBooth
<1>3. CASE CreateSlot(p)
  <2>1. proc[p].q \in Requested
    BY <1>0, <1>3, LocalFields DEF CreateSlot
  <2>2. Refers([pc |-> "count", q |-> proc[p].q], Ids)
    BY <2>1, LocalTypes DEF Refers
  <2> QED
    BY <1>3, <2>2, MoveType DEF CreateSlot
<1>4. CASE CreateCount(p)
  <2>1. proc[p].q \in Requested
    BY <1>0, <1>4, LocalFields DEF CreateCount
  <2>2. Cardinality({k \in Booth : active[k]}) \in Nat
    BY FiniteAssumption, FS_Subset, FS_CardinalityType
  <2>3. Refers([pc |-> "capacity", q |-> proc[p].q,
                seen |-> Cardinality({k \in Booth : active[k]})], Ids)
    BY <2>1, <2>2, LocalTypes DEF Refers
  <2> QED
    BY <1>4, <2>3, MoveType DEF CreateCount
<1>5. CASE CreateCapacity(p)
  <2>1. proc[p].q \in Requested
    BY <1>0, <1>5, LocalFields DEF CreateCapacity
  <2>2. Refers([pc |-> "insert", q |-> proc[p].q], Ids)
    BY <2>1, LocalTypes DEF Refers
  <2> QED
    BY <1>5, <2>2, MoveType DEF CreateCapacity
<1>6. CASE CreateFull(p)
  BY <1>6, StopType DEF CreateFull
<1>7. CASE CreateInsert(p)
  <2>1. proc[p].q \in Requested
    BY <1>0, <1>7, LocalFields DEF CreateInsert
  <2>2. RowOf(proc[p].q) \in Row
    BY <2>1, RequestedAssumption DEF RowOf, Row, Request, BookingStatus
  <2>3. RowsOK' /\ Ids \subseteq Ids'
    BY <1>7, <2>2, AppendRows DEF CreateInsert
  <2>4. ProcOK'
    BY <1>7, <2>3, EndType DEF CreateInsert
  <2> QED
    BY <1>7, <2>3, <2>4 DEF CreateInsert
<1> QED
  BY <1>1, <1>2, <1>3, <1>4, <1>5, <1>6, <1>7 DEF CreateStep

LEMMA StatusType == ASSUME TypeOK, NEW p \in Process, StatusStep(p) PROVE TypeOK'
<1> USE TypeParts, TypePartsNext
<1>1. ASSUME NEW i \in Ids, NEW to \in BookingStatus, StatusRead(p, i, to) PROVE TypeOK'
  <2>1. i \in Nat
    BY RowTypes
  <2>2. Refers([pc |-> "write", row |-> i, to |-> to], Ids)
    BY <2>1, LocalTypes DEF Refers
  <2> QED
    BY <1>1, <2>2, MoveType DEF StatusRead
<1>2. CASE StatusWrite(p)
  <2>1. proc[p].row \in Ids /\ proc[p].to \in BookingStatus
    BY <1>2, LocalFields DEF StatusWrite, ProcOK, Refers
  <2>2. RowsOK' /\ Ids' = Ids
    BY <1>2, <2>1, StatusRows DEF StatusWrite
  <2>3. ProcOK'
    BY <1>2, <2>2, EndType DEF StatusWrite
  <2> QED
    BY <1>2, <2>2, <2>3 DEF StatusWrite
<1> QED
  BY <1>1, <1>2 DEF StatusStep

LEMMA SettleType == ASSUME TypeOK, NEW i \in Ids, Settle(i) PROVE TypeOK'
<1> USE TypeParts, TypePartsNext
<1>1. PICK to \in BookingStatus : rows' = [rows EXCEPT ![i] = [@ EXCEPT !.status = to]]
  BY DEF Settle, BookingStatus
<1>2. RowsOK' /\ Ids' = Ids
  BY <1>1, StatusRows
<1>3. ProcOK'
  BY <1>2 DEF Settle, ProcOK
<1> QED
  BY <1>2, <1>3 DEF Settle

LEMMA WalkInType == ASSUME TypeOK, NEW p \in Process, WalkInStep(p) PROVE TypeOK'
<1> USE TypeParts, TypePartsNext
<1> DEFINE w == proc[p]
<1>t. now \in Nat
  BY SlotLengthsAssumption
<1>0. proc[p] \in Local /\ Refers(proc[p], Ids)
  BY DEF ProcOK
<1>f. w.pc \in {"upcoming", "standing", "present", "next", "mark", "enter"}
        => w.who \in Student /\ w.booth \in Booth /\ w.at \in Nat
  BY <1>0, LocalFields
<1>1. ASSUME NEW v \in WalkIns, WalkInWindow(p, v[1], v[2]) PROVE TypeOK'
  <2>1. v[1] \in Student /\ v[2] \in Booth
    BY InputsAssumption
  <2>2. Refers([pc |-> "upcoming", who |-> v[1], booth |-> v[2], at |-> now], Ids)
    BY <1>t, <2>1, WalkInTypes DEF Refers
  <2> QED
    BY <1>1, <2>2, MoveType DEF WalkInWindow
<1>2. CASE WalkInUpcoming(p)
  <2>1. Refers([pc |-> "standing", who |-> w.who, booth |-> w.booth, at |-> w.at], Ids)
    BY <1>2, <1>f, WalkInTypes DEF WalkInUpcoming, Refers
  <2> QED
    BY <1>2, <2>1, MoveType DEF WalkInUpcoming
<1>3. CASE WalkInBooth(p)
  <2>1. Refers([pc |-> "present", who |-> w.who, booth |-> w.booth, at |-> now], Ids)
    BY <1>3, <1>f, <1>t, WalkInTypes DEF WalkInBooth, Refers
  <2> QED
    BY <1>3, <2>1, MoveType DEF WalkInBooth
<1>4. CASE WalkInPresent(p)
  <2>1. PICK fresh \in BOOLEAN :
          Goto(p, [pc |-> "next", who |-> w.who, booth |-> w.booth, at |-> w.at,
                   fresh |-> fresh, marked |-> FALSE])
    BY <1>4 DEF WalkInPresent
  <2>2. Refers([pc |-> "next", who |-> w.who, booth |-> w.booth, at |-> w.at,
                fresh |-> fresh, marked |-> FALSE], Ids)
    BY <1>4, <1>f, WalkInTypes DEF WalkInPresent, Refers
  <2> QED
    BY <1>4, <2>1, <2>2, MoveType DEF WalkInPresent
<1>5. ASSUME NEW i \in Ids, WalkInFindMissed(p, i) PROVE TypeOK'
  <2>1. i \in Nat /\ w.fresh \in BOOLEAN
    BY <1>0, <1>5, RowTypes, LocalFields DEF WalkInFindMissed
  <2>2. Refers([pc |-> "mark", who |-> w.who, booth |-> w.booth, at |-> w.at,
                fresh |-> w.fresh, row |-> i], Ids)
    BY <1>5, <1>f, <2>1, WalkInTypes DEF WalkInFindMissed, Refers
  <2> QED
    BY <1>5, <2>2, MoveType DEF WalkInFindMissed
<1>6. CASE WalkInMark(p)
  <2>1. w.row \in Ids /\ w.fresh \in BOOLEAN
    BY <1>0, <1>6, LocalFields DEF WalkInMark, Refers
  <2>2. PICK to \in BookingStatus : rows' = [rows EXCEPT ![w.row] = [@ EXCEPT !.status = to]]
    <3>1. rows[w.row].status \in BookingStatus
      BY <2>1, RowTypes
    <3> QED
      BY <1>6, <3>1 DEF WalkInMark, BookingStatus
  <2>3. RowsOK' /\ Ids' = Ids
    BY <2>1, <2>2, StatusRows
  <2>4. Refers([pc |-> "next", who |-> w.who, booth |-> w.booth, at |-> w.at,
                fresh |-> w.fresh, marked |-> TRUE], Ids')
    BY <1>6, <1>f, <2>1, WalkInTypes DEF WalkInMark, Refers
  <2>5. ProcOK'
    BY <1>6, <2>3, <2>4, GotoType DEF WalkInMark
  <2> QED
    BY <1>6, <2>3, <2>5 DEF WalkInMark
<1>e. ASSUME NEW end \in Nat, Enter(p, end) PROVE TypeOK'
  <2>1. Refers([pc |-> "enter", who |-> w.who, booth |-> w.booth, at |-> w.at, end |-> end], Ids)
    BY <1>e, <1>f, WalkInTypes DEF Enter, Refers
  <2>2. CASE w.fresh
    BY <1>e, <2>1, <2>2, MoveType DEF Enter
  <2>3. CASE ~w.fresh
    BY <1>e, <2>3, StopType DEF Enter
  <2> QED
    BY <2>2, <2>3
<1>10. ASSUME NEW i \in Ids, WalkInBefore(p, i) PROVE TypeOK'
  <2>1. w.at \in Nat /\ rows[i].start \in Nat /\ ForceBefore \in Nat
    BY <1>10, <1>f, RowTypes, SlotLengthsAssumption DEF WalkInBefore, Enter
  <2>2. w.at < rows[i].start - ForceBefore /\ Enter(p, rows[i].start - ForceBefore)
    BY <1>10 DEF WalkInBefore
  <2>3. rows[i].start - ForceBefore \in Nat
    BY <2>1, <2>2
  <2> QED
    BY <1>e, <2>2, <2>3
<1>7. ASSUME NEW i \in Ids, WalkInAfter(p, i) PROVE TypeOK'
  <2>1. w.at \in Nat
    BY <1>7, <1>f DEF WalkInAfter, Enter
  <2>2. w.at + WalkInLength \in Nat
    BY <2>1, SlotLengthsAssumption
  <2> QED
    BY <1>7, <1>e, <2>2 DEF WalkInAfter
<1>9. CASE WalkInFree(p)
  <2>1. w.at \in Nat
    BY <1>9, <1>f DEF WalkInFree, Enter
  <2>2. w.at + WalkInLength \in Nat
    BY <2>1, SlotLengthsAssumption
  <2> QED
    BY <1>9, <1>e, <2>2 DEF WalkInFree
<1>8. CASE WalkInInsert(p)
  <2> DEFINE r == [who |-> w.who, booth |-> w.booth, kind |-> "PRACTICE", start |-> w.at,
                   end |-> w.end, date |-> DayOf(w.at), status |-> "CHECKED_IN", walkIn |-> TRUE]
  <2>1. w.who \in Student /\ w.booth \in Booth /\ w.at \in Nat /\ w.end \in Nat
    BY <1>0, <1>8, LocalFields DEF WalkInInsert
  <2>2. DayOf(w.at) \in Nat
    BY <2>1, SlotLengthsAssumption DEF DayOf
  <2>3. r \in Row
    BY <2>1, <2>2 DEF Row, BookingStatus, Kind
  <2>4. rows' = Append(rows, r)
    BY <1>8 DEF WalkInInsert
  <2>5. RowsOK' /\ Ids \subseteq Ids'
    BY <2>3, <2>4, AppendRows
  <2>6. ProcOK'
    BY <1>8, <2>5, EndType DEF WalkInInsert
  <2> QED
    BY <1>8, <2>5, <2>6 DEF WalkInInsert
<1> QED
  BY <1>1, <1>2, <1>3, <1>4, <1>5, <1>6, <1>10, <1>7, <1>8, <1>9 DEF WalkInStep

LEMMA LookedType ==
  ASSUME TypeOK, NEW p \in Process, proc[p].pc = "transfer", NEW i \in Ids,
         NEW moved \in SUBSET {i}, NEW dropped \in SUBSET {i}
  PROVE  Refers(Looked(proc[p], i, moved, dropped), Ids)
<1>1. proc[p] \in Local /\ Refers(proc[p], Ids) /\ i \in Nat
  BY TypeParts, RowTypes DEF ProcOK
<1>2. Looked(proc[p], i, moved, dropped) \in Local
  BY <1>1, LocalFields, TransferType DEF Looked
<1> QED
  BY <1>1, <1>2 DEF Refers, Looked, Transfer

\* The rows after the commit of transfer p.
LEMMA CommitRows ==
  ASSUME TypeOK, NEW p \in Process, TransferCommit(p)
  PROVE  /\ RowsOK' /\ Ids' = Ids
         /\ \A i \in Ids :
              /\ rows'[i].who = rows[i].who /\ rows'[i].kind = rows[i].kind
              /\ rows'[i].start = rows[i].start /\ rows'[i].end = rows[i].end
              /\ rows'[i].date = rows[i].date /\ rows'[i].walkIn = rows[i].walkIn
              /\ rows'[i].booth = IF i \in proc[p].moved THEN proc[p].to ELSE rows[i].booth
              /\ i \notin proc[p].dropped \/ i \in proc[p].moved => rows'[i].status = rows[i].status
              /\ i \in proc[p].dropped \ proc[p].moved => rows'[i].status = "CANCEL"
<1> DEFINE t == proc[p]
           r(i) == IF i \in t.moved THEN [rows[i] EXCEPT !.booth = t.to]
                   ELSE IF i \in t.dropped THEN [rows[i] EXCEPT !.status = "CANCEL"]
                   ELSE rows[i]
<1>1. t.to \in Booth
  BY TypeParts, LocalFields DEF ProcOK, TransferCommit
<1>2. ASSUME NEW i \in Ids PROVE rows[i] \in Row
  BY <1>2, TypeParts, RowTypes
<1>3. ASSUME NEW i \in Ids
      PROVE  /\ r(i) \in Row
             /\ r(i).who = rows[i].who /\ r(i).kind = rows[i].kind
             /\ r(i).start = rows[i].start /\ r(i).end = rows[i].end
             /\ r(i).date = rows[i].date /\ r(i).walkIn = rows[i].walkIn
             /\ r(i).booth = IF i \in proc[p].moved THEN proc[p].to ELSE rows[i].booth
             /\ i \notin proc[p].dropped \/ i \in proc[p].moved => r(i).status = rows[i].status
             /\ i \in proc[p].dropped \ proc[p].moved => r(i).status = "CANCEL"
  BY <1>1, <1>2 DEF Row, BookingStatus
<1>4. rows' = [i \in Ids |-> r(i)]
  BY DEF TransferCommit
<1>5. Ids = 1..Len(rows) /\ Len(rows) \in Nat
  BY TypeParts DEF RowsOK, Ids
<1> HIDE DEF r
<1>6. rows' \in [Ids -> Row]
  BY <1>3, <1>4
<1>7. RowsOK' /\ Ids' = Ids
  BY <1>5, <1>6 DEF RowsOK, Ids
<1> QED
  BY <1>3, <1>4, <1>7

LEMMA TransferStepType == ASSUME TypeOK, NEW p \in Process, TransferStep(p) PROVE TypeOK'
<1> USE TypeParts, TypePartsNext
<1>1. ASSUME NEW from \in Failing, NEW to \in Booth, NEW chosen \in SUBSET Ids,
             TransferRead(p, from, to, chosen)
      PROVE  TypeOK'
  <2>1. from \in Booth /\ now \in Nat /\ chosen \in SUBSET Nat
    BY InputsAssumption, SlotLengthsAssumption, RowTypes
  <2>2. Transfer(from, to, now, chosen, {}, {}) \in Local
    BY <2>1, TransferType
  <2>3. Refers(Transfer(from, to, now, chosen, {}, {}), Ids)
    BY <2>2 DEF Refers, Transfer
  <2> QED
    BY <1>1, <2>3, MoveType DEF TransferRead
<1>2. ASSUME NEW i \in Ids, TransferMove(p, i) \/ TransferDrop(p, i) \/ TransferSkip(p, i)
      PROVE  TypeOK'
  <2>1. PICK moved \in SUBSET {i}, dropped \in SUBSET {i} :
          proc[p].pc = "transfer" /\ Goto(p, Looked(proc[p], i, moved, dropped))
    BY <1>2 DEF TransferMove, TransferDrop, TransferSkip
  <2>2. Refers(Looked(proc[p], i, moved, dropped), Ids)
    BY <2>1, LookedType
  <2> QED
    BY <1>2, <2>1, <2>2, MoveType DEF TransferMove, TransferDrop, TransferSkip
<1>3. CASE TransferCommit(p)
  <2>1. RowsOK' /\ Ids' = Ids
    BY <1>3, CommitRows
  <2>2. ProcOK'
    BY <1>3, <2>1, EndType DEF TransferCommit
  <2> QED
    BY <1>3, <2>1, <2>2 DEF TransferCommit
<1> QED
  BY <1>1, <1>2, <1>3 DEF TransferStep

LEMMA NextTypeOK == TypeOK /\ [Next]_vars => TypeOK'
<1> SUFFICES ASSUME TypeOK, [Next]_vars PROVE TypeOK'
  OBVIOUS
<1> USE TypeParts, TypePartsNext
<1>1. ASSUME NEW p \in Process, CreateStep(p) \/ StatusStep(p) \/ WalkInStep(p) \/ TransferStep(p)
      PROVE  TypeOK'
  BY <1>1, CreateType, StatusType, WalkInType, TransferStepType
<1>2. ASSUME NEW p \in Process, Fail(p) PROVE TypeOK'
  BY <1>2, StopType DEF Fail
<1>3. ASSUME NEW i \in Ids, Settle(i) PROVE TypeOK'
  BY <1>3, SettleType
<1>4. ASSUME NEW k \in Failing, BoothStatusChange(k) PROVE TypeOK'
  BY <1>4 DEF BoothStatusChange, ProcOK, RowsOK, Ids
<1>5. CASE Tick
  BY <1>5, SlotLengthsAssumption DEF Tick, ProcOK, RowsOK, Ids
<1>6. CASE UNCHANGED vars
  BY <1>6 DEF vars, ProcOK, RowsOK, Ids
<1> QED
  BY <1>1, <1>2, <1>3, <1>4, <1>5, <1>6 DEF Next

(***************************************************************************)
(* Bookings keep their columns' types, and a handler refers only to rows   *)
(* there are (TypeOK).                                                     *)
(***************************************************************************)
THEOREM SlotsTypes == Spec => []TypeOK
  BY InitTypeOK, NextTypeOK, PTL DEF Spec

-----------------------------------------------------------------------------
(* Counting *)

\* Fewer of both.
LEMMA CountShrinks ==
  ASSUME NEW A, NEW B, IsFiniteSet(A), IsFiniteSet(B), NEW n \in Nat,
         Cardinality(A) + Cardinality(B) <= n,
         NEW C \in SUBSET A, NEW D \in SUBSET B
  PROVE  Cardinality(C) + Cardinality(D) <= n
<1>1. Cardinality(C) <= Cardinality(A) /\ Cardinality(D) <= Cardinality(B)
  BY FS_Subset
<1>2. /\ Cardinality(A) \in Nat /\ Cardinality(B) \in Nat
      /\ Cardinality(C) \in Nat /\ Cardinality(D) \in Nat
  BY FS_Subset, FS_CardinalityType
<1> QED
  BY <1>1, <1>2

\* One of the second turns into one of the first.
LEMMA CountMoves ==
  ASSUME NEW A, NEW B, IsFiniteSet(A), IsFiniteSet(B), NEW n \in Nat,
         Cardinality(A) + Cardinality(B) <= n,
         NEW x, NEW y \in B, NEW C \in SUBSET (A \cup {x}), NEW D \in SUBSET (B \ {y})
  PROVE  Cardinality(C) + Cardinality(D) <= n
<1>0. Cardinality(A) \in Nat
  BY FS_CardinalityType
<1>1. IsFiniteSet(A \cup {x}) /\ Cardinality(A \cup {x}) <= Cardinality(A) + 1
  <2>1. /\ IsFiniteSet(A \cup {x})
        /\ Cardinality(A \cup {x})
             = IF x \in A THEN Cardinality(A) ELSE Cardinality(A) + 1
    BY FS_AddElement
  <2>2. CASE x \in A
    BY <1>0, <2>1, <2>2
  <2>3. CASE x \notin A
    BY <1>0, <2>1, <2>3
  <2> QED
    BY <2>2, <2>3
<1>2. /\ IsFiniteSet(B \ {y}) /\ Cardinality(B \ {y}) = Cardinality(B) - 1
      /\ Cardinality(B) \in Nat
  BY FS_RemoveElement, FS_CardinalityType
<1>3. Cardinality(A \cup {x}) \in Nat /\ Cardinality(B \ {y}) \in Nat
  BY <1>1, <1>2, FS_CardinalityType
<1>4. Cardinality(A \cup {x}) + Cardinality(B \ {y}) <= n
  BY <1>0, <1>1, <1>2, <1>3
<1> QED
  BY <1>1, <1>2, <1>4, CountShrinks

\* Every element of the first has a process of its own, outside the second.
LEMMA CountFits ==
  ASSUME NEW P, IsFiniteSet(P), NEW W \in SUBSET P, NEW A, IsFiniteSet(A),
         NEW f \in [A -> W], \A x, y \in A : f[x] = f[y] => x = y,
         NEW D \in SUBSET (P \ W)
  PROVE  Cardinality(A) + Cardinality(D) <= Cardinality(P)
<1>1. IsFiniteSet(W) /\ IsFiniteSet(P \ W) /\ Cardinality(D) <= Cardinality(P \ W)
  BY FS_Subset
<1>2. /\ Cardinality(W) \in Nat /\ Cardinality(P \ W) \in Nat /\ Cardinality(P) \in Nat
      /\ Cardinality(A) \in Nat /\ Cardinality(D) \in Nat
  BY <1>1, FS_Subset, FS_CardinalityType
<1>3. ~(Cardinality(W) < Cardinality(A))
  BY <1>1, FS_PigeonHole
<1>4. Cardinality(W) + Cardinality(P \ W) = Cardinality(P)
  <2>1. P \cap W = W
    OBVIOUS
  <2>2. Cardinality(P \ W) = Cardinality(P) - Cardinality(P \cap W)
    BY FS_Difference
  <2>3. Cardinality(P \ W) = Cardinality(P) - Cardinality(W)
    BY <2>1, <2>2, Zenon
  <2> QED
    BY <1>2, <2>3
<1> QED
  BY <1>1, <1>2, <1>3, <1>4

-----------------------------------------------------------------------------
(* Who occupies a slot *)

\* A handler is about to make booking i live.
Pending(i) ==
  \E p \in Process : proc[p].pc = "write" /\ proc[p].row = i /\ proc[p].to \in Live

\* Booking i has its slot, or may get it back.
Occupies(i) == ~rows[i].walkIn /\ (IsLive(i) \/ Pending(i))

\* Bookings may change their status and their booth, nothing else.
RowsKept ==
  /\ Ids \subseteq Ids'
  /\ \A i \in Ids : /\ rows'[i].who = rows[i].who /\ rows'[i].walkIn = rows[i].walkIn
                    /\ rows'[i].start = rows[i].start /\ rows'[i].end = rows[i].end
                    /\ rows'[i].date = rows[i].date

\* No booking begins to occupy a slot.
Quiet ==
  /\ RowsKept
  /\ \A i \in Ids' : Occupies(i)'
       => i \in Ids /\ Occupies(i) /\ rows'[i].booth = rows[i].booth

LEMMA GotoQuiet ==
  ASSUME TypeOK, NEW p \in Process, NEW next, Goto(p, next), UNCHANGED rows,
         next.pc = "write" /\ next.to \in Live => IsLive(next.row)
  PROVE  Quiet
<1>1. RowsKept /\ Ids' = Ids
  BY DEF RowsKept, Ids
<1>2. ASSUME NEW i \in Ids', Pending(i)' PROVE IsLive(i) \/ Pending(i)
  <2>1. PICK r \in Process : proc'[r].pc = "write" /\ proc'[r].row = i /\ proc'[r].to \in Live
    BY <1>2 DEF Pending, Live
  <2>2. CASE r = p
    <3>1. proc'[r] = next
      BY <2>2, TypeParts DEF Goto, ProcOK
    <3> QED
      BY <2>1, <3>1
  <2>3. CASE r # p
    <3>1. proc'[r] = proc[r]
      BY <2>3, TypeParts DEF Goto, ProcOK
    <3> QED
      BY <2>1, <3>1 DEF Pending
  <2> QED
    BY <2>2, <2>3
<1>3. ASSUME NEW i \in Ids', Occupies(i)' PROVE Occupies(i)
  BY <1>2, <1>3 DEF Occupies, IsLive
<1> QED
  BY <1>1, <1>3 DEF Quiet

\* A process that ends leaves nobody pending who was not.
LEMMA EndPending ==
  ASSUME TypeOK, NEW p \in Process, NEW next, Goto(p, next), next.pc # "write", NEW i, Pending(i)'
  PROVE  Pending(i)
<1>1. PICK r \in Process : proc'[r].pc = "write" /\ proc'[r].row = i /\ proc'[r].to \in Live
  BY DEF Pending, Live
<1>2. r # p /\ proc'[r] = proc[r]
  BY <1>1, TypeParts DEF Goto, ProcOK
<1> QED
  BY <1>1, <1>2 DEF Pending

\* A status is written that is dead, or that the process was pending to write.
LEMMA WriteQuiet ==
  ASSUME TypeOK, NEW i \in Ids, NEW to \in BookingStatus,
         rows' = [rows EXCEPT ![i] = [@ EXCEPT !.status = to]],
         to \in Live => IsLive(i) \/ Pending(i),
         \A j : Pending(j)' => Pending(j)
  PROVE  Quiet
<1>1. /\ Ids' = Ids /\ rows'[i].status = to /\ \A j \in Ids : j # i => rows'[j] = rows[j]
      /\ \A j \in Ids : /\ rows'[j].who = rows[j].who /\ rows'[j].booth = rows[j].booth
                        /\ rows'[j].start = rows[j].start /\ rows'[j].end = rows[j].end
                        /\ rows'[j].date = rows[j].date /\ rows'[j].walkIn = rows[j].walkIn
  BY TypeParts, StatusRows
<1>2. RowsKept
  BY <1>1 DEF RowsKept
<1>3. ASSUME NEW j \in Ids, Occupies(j)' PROVE Occupies(j)
  <2>1. rows'[j].status \in Live => IsLive(j) \/ Pending(j)
    BY <1>1 DEF IsLive
  <2>2. Pending(j)' => Pending(j)
    OBVIOUS
  <2>3. ~rows'[j].walkIn /\ (rows'[j].status \in Live \/ Pending(j)')
    BY <1>3 DEF Occupies, IsLive, Live
  <2> QED
    BY <1>1, <2>1, <2>2, <2>3 DEF Occupies
<1> QED
  BY <1>1, <1>2, <1>3 DEF Quiet

\* The bookings with booth k at the instant t, and those that keep a student.
Claims(k, t) ==
  {i \in Ids : Occupies(i) /\ rows[i].booth = k /\ rows[i].start <= t /\ t < rows[i].end}
Holds(who, t) ==
  {i \in Ids : Occupies(i) /\ rows[i].who = who /\ rows[i].start <= t /\ t < rows[i].end + Gap}

LEMMA ClaimsFinite ==
  ASSUME TypeOK, NEW k, NEW who, NEW t
  PROVE  IsFiniteSet(Claims(k, t)) /\ IsFiniteSet(Holds(who, t))
<1>1. IsFiniteSet(Ids)
  BY TypeParts, FS_Interval DEF RowsOK, Ids
<1>2. Claims(k, t) \subseteq Ids /\ Holds(who, t) \subseteq Ids
  BY DEF Claims, Holds
<1> QED
  BY <1>1, <1>2, FS_Subset

LEMMA QuietClaims ==
  ASSUME Quiet, NEW k, NEW who, NEW t
  PROVE  Claims(k, t)' \subseteq Claims(k, t) /\ Holds(who, t)' \subseteq Holds(who, t)
  BY DEF Quiet, RowsKept, Claims, Holds

\* A process past the check of its slot, and a transfer that has moved a booking.
Makes(l, k, t) ==
  l.pc \in {"count", "capacity", "insert"} /\ l.q.booth = k /\ l.q.start <= t /\ t < l.q.end
Moves(l, k, t) ==
  /\ l.pc = "transfer" /\ l.to = k
  /\ \E i \in l.moved : ~rows[i].walkIn /\ rows[i].start <= t /\ t < rows[i].end
Busy(k, t) == {p \in Process : Makes(proc[p], k, t) \/ Moves(proc[p], k, t)}

\* A process past the check of its student's other sessions.
Asks(l, who, t) ==
  /\ l.pc \in {"booth", "slot", "count", "capacity", "insert"}
  /\ l.q.who = who /\ l.q.start <= t /\ t < l.q.end + Gap
Asking(who, t) == {p \in Process : Asks(proc[p], who, t)}

LEMMA OthersBusy ==
  ASSUME TypeOK, RowsKept, NEW p \in Process, NEW next, Goto(p, next), NEW k, NEW who, NEW t
  PROVE  /\ proc'[p] = next
         /\ \A r \in Busy(k, t)' : r # p => r \in Busy(k, t)
         /\ \A r \in Asking(who, t)' : r # p => r \in Asking(who, t)
<1>1. proc'[p] = next /\ \A r \in Process : r # p => proc'[r] = proc[r]
  BY TypeParts DEF Goto, ProcOK
<1>2. ASSUME NEW r \in Process, proc[r].pc = "transfer", NEW i \in proc[r].moved PROVE i \in Ids
  BY <1>2, TypeParts DEF ProcOK, Refers
<1>3. ASSUME NEW r \in Process, r # p, Moves(proc[r], k, t)' PROVE Moves(proc[r], k, t)
  BY <1>1, <1>2, <1>3 DEF Moves, RowsKept
<1>4. ASSUME NEW r \in Process, r # p, Makes(proc[r], k, t)' PROVE Makes(proc[r], k, t)
  BY <1>1, <1>4 DEF Makes
<1>5. ASSUME NEW r \in Process, r # p, Asks(proc[r], who, t)' PROVE Asks(proc[r], who, t)
  BY <1>1, <1>5 DEF Asks
<1> QED
  BY <1>1, <1>3, <1>4, <1>5 DEF Busy, Asking

\* The processes not past a check are not busy.
LEMMA NotBusy ==
  ASSUME TypeOK, RowsKept, NEW p \in Process, NEW next, Goto(p, next), NEW k, NEW who, NEW t,
         next.pc \notin {"booth", "slot", "count", "capacity", "insert"},
         next.pc = "transfer" => next.moved = {}
  PROVE  Busy(k, t)' \subseteq Busy(k, t) \ {p} /\ Asking(who, t)' \subseteq Asking(who, t) \ {p}
<1>1. proc'[p] = next
  BY OthersBusy
<1>2. ~Makes(proc[p], k, t)' /\ ~Moves(proc[p], k, t)' /\ ~Asks(proc[p], who, t)'
  BY <1>1 DEF Makes, Moves, Asks
<1>3. p \notin Busy(k, t)' /\ p \notin Asking(who, t)'
  BY <1>2 DEF Busy, Asking
<1> QED
  BY <1>3, OthersBusy

\* A request that goes on asks for the same.
LEMMA SameRequest ==
  ASSUME TypeOK, RowsKept, NEW p \in Process, NEW next, Goto(p, next), NEW k, NEW who, NEW t,
         next.pc \in {"slot", "count", "capacity", "insert"},
         proc[p].pc \in {"booth", "slot", "count", "capacity"}, next.q = proc[p].q,
         next.pc \in {"count", "capacity", "insert"} => proc[p].pc \in {"count", "capacity"}
  PROVE  Busy(k, t)' \subseteq Busy(k, t) /\ Asking(who, t)' \subseteq Asking(who, t)
<1>1. proc'[p] = next
  BY OthersBusy
<1>2. /\ Makes(proc[p], k, t)' => Makes(proc[p], k, t)
      /\ ~Moves(proc[p], k, t)' /\ (Asks(proc[p], who, t)' => Asks(proc[p], who, t))
  BY <1>1 DEF Makes, Moves, Asks
<1>3. /\ p \in Busy(k, t)' => p \in Busy(k, t)
      /\ p \in Asking(who, t)' => p \in Asking(who, t)
  BY <1>2 DEF Busy, Asking
<1> QED
  BY <1>3, OthersBusy

\* A transfer that moves nothing more.
LEMMA SameMoves ==
  ASSUME TypeOK, UNCHANGED rows, NEW p \in Process, NEW next, Goto(p, next),
         NEW k, NEW who, NEW t, next.pc = "transfer", proc[p].pc = "transfer",
         next.to = proc[p].to, next.moved = proc[p].moved
  PROVE  Busy(k, t)' \subseteq Busy(k, t) /\ Asking(who, t)' \subseteq Asking(who, t)
<1>0. RowsKept
  BY DEF RowsKept, Ids
<1>1. proc'[p] = next
  BY <1>0, OthersBusy
<1>2. ~Makes(proc[p], k, t)' /\ (Moves(proc[p], k, t)' => Moves(proc[p], k, t))
      /\ ~Asks(proc[p], who, t)'
  BY <1>1 DEF Makes, Moves, Asks
<1>3. (p \in Busy(k, t)' => p \in Busy(k, t)) /\ p \notin Asking(who, t)'
  BY <1>2 DEF Busy, Asking
<1> QED
  BY <1>0, <1>3, OthersBusy

-----------------------------------------------------------------------------
(* One date *)

RowsDated == \A i \in Ids : ~rows[i].walkIn => WellDated(rows[i])

\* Sessions of a student or a booth at one instant are on one date.
LEMMA OneDate ==
  ASSUME NEW a \in Int, NEW b \in Int, NEW t \in Int,
         a * Day <= t, t < (a + 1) * Day, b * Day <= t, t < (b + 1) * Day
  PROVE  a = b
<1>1. ASSUME NEW x \in Int, NEW y \in Int, NEW d \in Nat, x * d < y * d PROVE x < y
  <2>1. SUFFICES ASSUME y <= x PROVE FALSE
    BY SMT
  <2>2. PICK z \in Nat : x = y + z
    BY <2>1
  <2>3. x * d = y * d + z * d /\ z * d >= 0
    BY <2>2
  <2> QED
    BY <1>1, <2>3
<1>2. Day \in Nat
  BY SlotLengthsAssumption
<1>3. a * Day < (b + 1) * Day /\ b * Day < (a + 1) * Day
  BY <1>2
<1>4. a < b + 1 /\ b < a + 1
  BY <1>1, <1>2, <1>3
<1> QED
  BY <1>4

-----------------------------------------------------------------------------
(* The counts *)

\* The bookings a transfer has moved do not overlap.
MovesApart ==
  \A p \in Process : proc[p].pc = "transfer"
    => \A i, j \in proc[p].moved : i # j => ~Overlap(rows[i], rows[j])

\* Those that have the booth or the student at the instant t, or may get them
\* back, and those that are about to take them.
BoothCount(k, t) ==
  Cardinality(Claims(k, t)) + Cardinality(Busy(k, t)) <= Cardinality(Process)
StudentCount(who, t) ==
  Cardinality(Holds(who, t)) + Cardinality(Asking(who, t)) <= Cardinality(Process)
Counts(k, who, t) == BoothCount(k, t) /\ StudentCount(who, t)

LEMMA ProcessesFinite ==
  ASSUME NEW k, NEW who, NEW t
  PROVE  /\ Cardinality(Process) \in Nat
         /\ IsFiniteSet(Busy(k, t)) /\ IsFiniteSet(Asking(who, t))
<1>1. Busy(k, t) \subseteq Process /\ Asking(who, t) \subseteq Process
  BY DEF Busy, Asking
<1> QED
  BY <1>1, FiniteAssumption, FS_Subset, FS_CardinalityType

\* A step after which no more are counted than before.
LEMMA CalmBooth ==
  ASSUME TypeOK, NEW k, NEW t, BoothCount(k, t),
         Claims(k, t)' \subseteq Claims(k, t), Busy(k, t)' \subseteq Busy(k, t)
  PROVE  BoothCount(k, t)'
<1>1. IsFiniteSet(Claims(k, t)) /\ IsFiniteSet(Busy(k, t)) /\ Cardinality(Process) \in Nat
  BY ClaimsFinite, ProcessesFinite
<1>2. Cardinality(Claims(k, t)') + Cardinality(Busy(k, t)') <= Cardinality(Process)
  BY <1>1, CountShrinks DEF BoothCount
<1> QED
  BY <1>2 DEF BoothCount

LEMMA CalmStudent ==
  ASSUME TypeOK, NEW who, NEW t, StudentCount(who, t),
         Holds(who, t)' \subseteq Holds(who, t), Asking(who, t)' \subseteq Asking(who, t)
  PROVE  StudentCount(who, t)'
<1>1. IsFiniteSet(Holds(who, t)) /\ IsFiniteSet(Asking(who, t)) /\ Cardinality(Process) \in Nat
  BY ClaimsFinite, ProcessesFinite
<1>2. Cardinality(Holds(who, t)') + Cardinality(Asking(who, t)') <= Cardinality(Process)
  BY <1>1, CountShrinks DEF StudentCount
<1> QED
  BY <1>2 DEF StudentCount

LEMMA Calm ==
  ASSUME TypeOK, Quiet, NEW k, NEW who, NEW t, Counts(k, who, t),
         Busy(k, t)' \subseteq Busy(k, t), Asking(who, t)' \subseteq Asking(who, t)
  PROVE  Counts(k, who, t)'
<1>1. BoothCount(k, t)'
  BY QuietClaims, CalmBooth DEF Counts
<1>2. StudentCount(who, t)'
  BY QuietClaims, CalmStudent DEF Counts
<1> QED
  BY <1>1, <1>2 DEF Counts

\* Bookings that are only pending have as many writers, none of which is counted
\* among the others; loc is where the processes are.
LEMMA AllPending ==
  ASSUME NEW loc, NEW A, IsFiniteSet(A),
         \A i \in A : \E r \in Process : loc[r].pc = "write" /\ loc[r].row = i,
         NEW D \in SUBSET {r \in Process : loc[r].pc # "write"}
  PROVE  Cardinality(A) + Cardinality(D) <= Cardinality(Process)
<1> DEFINE W == {r \in Process : loc[r].pc = "write"}
           f == [i \in A |-> CHOOSE r \in W : loc[r].row = i]
<1>1. ASSUME NEW i \in A PROVE f[i] \in W /\ loc[f[i]].row = i
  <2>1. \E r \in W : loc[r].row = i
    OBVIOUS
  <2> QED
    BY <2>1
<1>2. f \in [A -> W] /\ \A x, y \in A : f[x] = f[y] => x = y
  BY <1>1
<1>3. W \in SUBSET Process /\ D \in SUBSET (Process \ W)
  OBVIOUS
<1> HIDE DEF W, f
<1> QED
  BY <1>2, <1>3, CountFits, FiniteAssumption

\* When no booking counted is live, all of them are pending.
LEMMA BoothOfPending ==
  ASSUME TypeOK', NEW k, NEW t, \A i \in Claims(k, t)' : ~IsLive(i)'
  PROVE  BoothCount(k, t)'
<1>1. IsFiniteSet(Claims(k, t)')
  BY FS_Interval, FS_Subset, TypePartsNext DEF Claims, RowsOK, Ids
<1>2. ASSUME NEW i \in Claims(k, t)'
      PROVE  \E r \in Process : proc'[r].pc = "write" /\ proc'[r].row = i
  BY <1>2 DEF Claims, Occupies, Pending
<1>3. Busy(k, t)' \in SUBSET {r \in Process : proc'[r].pc # "write"}
  BY DEF Busy, Makes, Moves
<1>4. Cardinality(Claims(k, t)') + Cardinality(Busy(k, t)') <= Cardinality(Process)
  BY <1>1, <1>2, <1>3, AllPending
<1> QED
  BY <1>4 DEF BoothCount

LEMMA StudentOfPending ==
  ASSUME TypeOK', NEW who, NEW t, \A i \in Holds(who, t)' : ~IsLive(i)'
  PROVE  StudentCount(who, t)'
<1>1. IsFiniteSet(Holds(who, t)')
  BY FS_Interval, FS_Subset, TypePartsNext DEF Holds, RowsOK, Ids
<1>2. ASSUME NEW i \in Holds(who, t)'
      PROVE  \E r \in Process : proc'[r].pc = "write" /\ proc'[r].row = i
  BY <1>2 DEF Holds, Occupies, Pending
<1>3. Asking(who, t)' \in SUBSET {r \in Process : proc'[r].pc # "write"}
  BY DEF Asking, Asks
<1>4. Cardinality(Holds(who, t)') + Cardinality(Asking(who, t)') <= Cardinality(Process)
  BY <1>1, <1>2, <1>3, AllPending
<1> QED
  BY <1>4 DEF StudentCount

-----------------------------------------------------------------------------
(* The counts step by step *)

AllWellDated == \A q \in Requested : WellDated(q)

\* A booking and a request that keep their student at one instant are too close.
LEMMA SameInstant ==
  ASSUME TypeOK, RowsDated, AllWellDated, NEW q \in Requested, NEW i \in Ids, NEW t \in Nat,
         ~rows[i].walkIn, q.start <= t, t < q.end + Gap,
         rows[i].start <= t, t < rows[i].end + Gap
  PROVE  rows[i].date = q.date /\ TooClose(q, rows[i])
<1>1. /\ q.start \in Nat /\ q.end \in Nat /\ q.date \in Nat /\ Gap \in Nat /\ Day \in Nat
      /\ rows[i].start \in Nat /\ rows[i].end \in Nat /\ rows[i].date \in Nat
  BY TypeParts, RowTypes, RequestedAssumption, SlotLengthsAssumption DEF Request
<1>2. /\ q.date * Day <= q.start /\ q.end + Gap <= (q.date + 1) * Day
      /\ rows[i].date * Day <= rows[i].start /\ rows[i].end + Gap <= (rows[i].date + 1) * Day
  BY DEF RowsDated, AllWellDated, WellDated
<1>3. /\ q.date * Day <= t /\ t < (q.date + 1) * Day
      /\ rows[i].date * Day <= t /\ t < (rows[i].date + 1) * Day
  <2>1. /\ q.date * Day \in Nat /\ (q.date + 1) * Day \in Nat
        /\ rows[i].date * Day \in Nat /\ (rows[i].date + 1) * Day \in Nat
    BY <1>1
  <2> QED
    BY <1>1, <1>2, <2>1
<1>4. rows[i].date = q.date
  <2>1. rows[i].date \in Int /\ q.date \in Int /\ t \in Int
    BY <1>1
  <2> QED
    BY <1>3, <2>1, OneDate, Zenon
<1>5. TooClose(q, rows[i])
  BY <1>1 DEF TooClose
<1> QED
  BY <1>4, <1>5

LEMMA CreateCounts ==
  ASSUME TypeOK, TypeOK', RowsDated, AllWellDated, NEW p \in Process, CreateStep(p),
         NEW k \in Booth, NEW who \in Student, NEW t \in Nat, Counts(k, who, t)
  PROVE  Counts(k, who, t)'
<1>0. proc[p] \in Local
  BY TypeParts DEF ProcOK
<1>1. ASSUME NEW q \in Requested, CreateGap(p, q) PROVE Counts(k, who, t)'
  <2> DEFINE next == [pc |-> "booth", q |-> q]
  <2>1. Goto(p, next) /\ UNCHANGED rows /\ RowsKept /\ Ids' = Ids
    BY <1>1 DEF CreateGap, RowsKept, Ids
  <2>2. Quiet
    BY <2>1, GotoQuiet
  <2>3. proc'[p] = next
    BY <2>1, OthersBusy
  <2>4. Busy(k, t)' \subseteq Busy(k, t)
    <3>1. p \notin Busy(k, t)'
      BY <2>3 DEF Busy, Makes, Moves
    <3> QED
      BY <2>1, <3>1, OthersBusy
  <2>5. BoothCount(k, t)'
    BY <2>2, <2>4, QuietClaims, CalmBooth DEF Counts
  <2>6. CASE q.who = who /\ q.start <= t /\ t < q.end + Gap
    <3>1. ASSUME NEW i \in Holds(who, t)' PROVE ~IsLive(i)'
      <4>1. /\ i \in Ids /\ ~rows[i].walkIn /\ rows[i].who = q.who
            /\ rows[i].start <= t /\ t < rows[i].end + Gap
        BY <2>1, <2>6, <3>1 DEF Holds, Occupies
      <4>2. rows[i].date = q.date /\ TooClose(q, rows[i])
        BY <2>6, <4>1, SameInstant
      <4>3. ~IsLive(i)
        BY <1>1, <4>1, <4>2 DEF CreateGap
      <4> QED
        BY <2>1, <4>3 DEF IsLive
    <3>2. StudentCount(who, t)'
      BY <3>1, StudentOfPending
    <3> QED
      BY <2>5, <3>2 DEF Counts
  <2>7. CASE ~(q.who = who /\ q.start <= t /\ t < q.end + Gap)
    <3>1. p \notin Asking(who, t)'
      BY <2>3, <2>7 DEF Asking, Asks
    <3>2. Asking(who, t)' \subseteq Asking(who, t)
      BY <2>1, <3>1, OthersBusy
    <3> QED
      BY <2>2, <2>4, <3>2, Calm
  <2> QED
    BY <2>6, <2>7
<1>2. CASE CreateBooth(p)
  <2> DEFINE next == [pc |-> "slot", q |-> proc[p].q]
  <2>1. Goto(p, next) /\ UNCHANGED rows /\ RowsKept /\ proc[p].pc = "booth"
    BY <1>2 DEF CreateBooth, RowsKept, Ids
  <2>2. Quiet
    BY <2>1, GotoQuiet
  <2>3. next.pc = "slot" /\ next.q = proc[p].q
    OBVIOUS
  <2> HIDE DEF next
  <2>4. Busy(k, t)' \subseteq Busy(k, t) /\ Asking(who, t)' \subseteq Asking(who, t)
    BY <2>1, <2>3, SameRequest
  <2> QED
    BY <2>2, <2>4, Calm
<1>3. CASE CreateSlot(p)
  <2> DEFINE q == proc[p].q
             next == [pc |-> "count", q |-> proc[p].q]
  <2>1. Goto(p, next) /\ UNCHANGED rows /\ RowsKept /\ Ids' = Ids /\ proc[p].pc = "slot"
    BY <1>3 DEF CreateSlot, RowsKept, Ids
  <2>q. q \in Requested
    BY <1>0, <2>1, LocalFields
  <2>2. Quiet
    BY <2>1, GotoQuiet
  <2>3. proc'[p] = next
    BY <2>1, OthersBusy
  <2>4. Asking(who, t)' \subseteq Asking(who, t)
    <3>1. Asks(proc[p], who, t)' => Asks(proc[p], who, t)
      BY <2>1, <2>3 DEF Asks
    <3>2. p \in Asking(who, t)' => p \in Asking(who, t)
      BY <3>1 DEF Asking
    <3> QED
      BY <2>1, <3>2, OthersBusy
  <2>5. StudentCount(who, t)'
    BY <2>2, <2>4, QuietClaims, CalmStudent DEF Counts
  <2>6. CASE q.booth = k /\ q.start <= t /\ t < q.end
    <3>1. ASSUME NEW i \in Claims(k, t)' PROVE ~IsLive(i)'
      <4>1. /\ i \in Ids /\ ~rows[i].walkIn /\ rows[i].booth = q.booth
            /\ rows[i].start <= t /\ t < rows[i].end
        BY <2>1, <2>6, <3>1 DEF Claims, Occupies
      <4>2. /\ q.start \in Nat /\ q.end \in Nat /\ Gap \in Nat
            /\ rows[i].start \in Nat /\ rows[i].end \in Nat
        BY <2>q, <4>1, TypeParts, RowTypes, RequestedAssumption, SlotLengthsAssumption DEF Request
      <4>3. t < q.end + Gap /\ t < rows[i].end + Gap /\ Overlap(q, rows[i])
        BY <2>6, <4>1, <4>2 DEF Overlap
      <4>4. rows[i].date = q.date
        BY <2>6, <2>q, <4>1, <4>3, SameInstant
      <4>5. ~IsLive(i)
        BY <1>3, <4>1, <4>3, <4>4 DEF CreateSlot, Rivals
      <4> QED
        BY <2>1, <4>5 DEF IsLive
    <3>2. BoothCount(k, t)'
      BY <3>1, BoothOfPending
    <3> QED
      BY <2>5, <3>2 DEF Counts
  <2>7. CASE ~(q.booth = k /\ q.start <= t /\ t < q.end)
    <3>1. p \notin Busy(k, t)'
      BY <2>3, <2>7 DEF Busy, Makes, Moves
    <3>2. Busy(k, t)' \subseteq Busy(k, t)
      BY <2>1, <3>1, OthersBusy
    <3> QED
      BY <2>2, <2>4, <3>2, Calm
  <2> QED
    BY <2>6, <2>7
<1>4. CASE CreateCount(p)
  <2>0. PICK next : Goto(p, next) /\ next.pc = "capacity" /\ next.q = proc[p].q
    BY <1>4 DEF CreateCount
  <2>1. UNCHANGED rows /\ RowsKept /\ proc[p].pc = "count"
    BY <1>4 DEF CreateCount, RowsKept, Ids
  <2>2. Quiet
    BY <2>0, <2>1, GotoQuiet
  <2>4. Busy(k, t)' \subseteq Busy(k, t) /\ Asking(who, t)' \subseteq Asking(who, t)
    BY <2>0, <2>1, SameRequest
  <2> QED
    BY <2>2, <2>4, Calm
<1>5. CASE CreateCapacity(p)
  <2> DEFINE next == [pc |-> "insert", q |-> proc[p].q]
  <2>1. Goto(p, next) /\ UNCHANGED rows /\ RowsKept /\ proc[p].pc = "capacity"
    BY <1>5 DEF CreateCapacity, RowsKept, Ids
  <2>2. Quiet
    BY <2>1, GotoQuiet
  <2>3. next.pc = "insert" /\ next.q = proc[p].q
    OBVIOUS
  <2> HIDE DEF next
  <2>4. Busy(k, t)' \subseteq Busy(k, t) /\ Asking(who, t)' \subseteq Asking(who, t)
    BY <2>1, <2>3, SameRequest
  <2> QED
    BY <2>2, <2>4, Calm
<1>6. CASE CreateFull(p)
  <2>1. Goto(p, Idle) /\ UNCHANGED rows /\ RowsKept /\ Idle.pc = "idle"
    BY <1>6 DEF CreateFull, RowsKept, Ids, End, Idle
  <2>2. Quiet
    BY <2>1, GotoQuiet
  <2>3. Busy(k, t)' \subseteq Busy(k, t) /\ Asking(who, t)' \subseteq Asking(who, t)
    BY <2>1, NotBusy
  <2> QED
    BY <2>2, <2>3, Calm
<1>7. CASE CreateInsert(p)
  <2> DEFINE q == proc[p].q
             n == Len(rows) + 1
  <2>q. q \in Requested /\ proc[p].pc = "insert"
    BY <1>0, <1>7, LocalFields DEF CreateInsert
  <2>1. RowOf(q) \in Row
    BY <2>q, RequestedAssumption DEF RowOf, Row, Request, BookingStatus
  <2>2. /\ Ids' = Ids \cup {n} /\ n \notin Ids /\ rows'[n] = RowOf(q)
        /\ \A j \in Ids : rows'[j] = rows[j]
    BY <1>7, <2>1, TypeParts, AppendRows DEF CreateInsert
  <2>3. Goto(p, Idle) /\ RowsKept /\ Idle.pc = "idle"
    BY <1>7, <2>2 DEF CreateInsert, RowsKept, End, Idle
  <2>4. Busy(k, t)' \subseteq Busy(k, t) \ {p} /\ Asking(who, t)' \subseteq Asking(who, t) \ {p}
    BY <2>3, NotBusy
  <2>5. ASSUME NEW j \in Ids, Occupies(j)' PROVE Occupies(j)
    BY <2>2, <2>3, <2>5, EndPending DEF Occupies, IsLive
  <2>6. /\ Claims(k, t)' \subseteq Claims(k, t) \cup {n}
        /\ Holds(who, t)' \subseteq Holds(who, t) \cup {n}
    BY <2>2, <2>5 DEF Claims, Holds
  <2>7. /\ n \in Claims(k, t)' => p \in Busy(k, t)
        /\ n \in Holds(who, t)' => p \in Asking(who, t)
    BY <2>q, <2>2 DEF Claims, Holds, Busy, Makes, Asking, Asks, RowOf
  <2>f. /\ IsFiniteSet(Claims(k, t)) /\ IsFiniteSet(Busy(k, t)) /\ Cardinality(Process) \in Nat
        /\ IsFiniteSet(Holds(who, t)) /\ IsFiniteSet(Asking(who, t))
    BY ClaimsFinite, ProcessesFinite
  <2>8. BoothCount(k, t)'
    <3>1. CASE n \in Claims(k, t)'
      <4>1. p \in Busy(k, t) /\ Cardinality(Claims(k, t)) + Cardinality(Busy(k, t)) <= Cardinality(Process)
        BY <2>7, <3>1 DEF BoothCount, Counts
      <4>2. Claims(k, t)' \in SUBSET (Claims(k, t) \cup {n}) /\ Busy(k, t)' \in SUBSET (Busy(k, t) \ {p})
        BY <2>4, <2>6
      <4> HIDE DEF n
      <4>3. Cardinality(Claims(k, t)') + Cardinality(Busy(k, t)') <= Cardinality(Process)
        BY <2>f, <4>1, <4>2, CountMoves
      <4> QED
        BY <4>3 DEF BoothCount
    <3>2. CASE n \notin Claims(k, t)'
      <4>1. Claims(k, t)' \subseteq Claims(k, t)
        BY <2>6, <3>2
      <4> QED
        BY <2>4, <4>1, CalmBooth DEF Counts
    <3> QED
      BY <3>1, <3>2
  <2>9. StudentCount(who, t)'
    <3>1. CASE n \in Holds(who, t)'
      <4>1. p \in Asking(who, t) /\ Cardinality(Holds(who, t)) + Cardinality(Asking(who, t)) <= Cardinality(Process)
        BY <2>7, <3>1 DEF StudentCount, Counts
      <4>2. Holds(who, t)' \in SUBSET (Holds(who, t) \cup {n}) /\ Asking(who, t)' \in SUBSET (Asking(who, t) \ {p})
        BY <2>4, <2>6
      <4> HIDE DEF n
      <4>3. Cardinality(Holds(who, t)') + Cardinality(Asking(who, t)') <= Cardinality(Process)
        BY <2>f, <4>1, <4>2, CountMoves
      <4> QED
        BY <4>3 DEF StudentCount
    <3>2. CASE n \notin Holds(who, t)'
      <4>1. Holds(who, t)' \subseteq Holds(who, t)
        BY <2>6, <3>2
      <4> QED
        BY <2>4, <4>1, CalmStudent DEF Counts
    <3> QED
      BY <3>1, <3>2
  <2> QED
    BY <2>8, <2>9 DEF Counts
<1> QED
  BY <1>1, <1>2, <1>3, <1>4, <1>5, <1>6, <1>7 DEF CreateStep

\* A process that goes somewhere it is not counted, and writes nothing live.
LEMMA GotoCalm ==
  ASSUME TypeOK, NEW p \in Process, NEW next, Goto(p, next), UNCHANGED rows,
         next.pc \notin {"booth", "slot", "count", "capacity", "insert"},
         next.pc = "transfer" => next.moved = {},
         next.pc = "write" /\ next.to \in Live => IsLive(next.row),
         NEW k, NEW who, NEW t, Counts(k, who, t)
  PROVE  Counts(k, who, t)'
<1>1. RowsKept
  BY DEF RowsKept, Ids
<1>2. Quiet
  BY GotoQuiet
<1>3. Busy(k, t)' \subseteq Busy(k, t) /\ Asking(who, t)' \subseteq Asking(who, t)
  BY <1>1, NotBusy
<1> QED
  BY <1>2, <1>3, Calm

LEMMA StatusCounts ==
  ASSUME TypeOK, NEW p \in Process, StatusStep(p),
         NEW k \in Booth, NEW who \in Student, NEW t \in Nat, Counts(k, who, t)
  PROVE  Counts(k, who, t)'
<1>1. ASSUME NEW i \in Ids, NEW to \in BookingStatus, StatusRead(p, i, to)
      PROVE  Counts(k, who, t)'
  <2>1. to \in Live => IsLive(i)
    BY <1>1 DEF StatusRead, Intended, IsLive, Live
  <2> QED
    BY <1>1, <2>1, GotoCalm DEF StatusRead
<1>2. CASE StatusWrite(p)
  <2> DEFINE i == proc[p].row
             to == proc[p].to
  <2>1. /\ i \in Ids /\ to \in BookingStatus /\ Goto(p, Idle) /\ Idle.pc = "idle"
        /\ rows' = [rows EXCEPT ![i] = [@ EXCEPT !.status = to]]
    BY <1>2, TypeParts, LocalFields DEF StatusWrite, ProcOK, Refers, End, Idle
  <2>2. to \in Live => Pending(i)
    BY <1>2 DEF StatusWrite, Pending
  <2>3. \A j : Pending(j)' => Pending(j)
    BY <2>1, EndPending
  <2> HIDE DEF i, to
  <2>4. Quiet
    BY <2>1, <2>2, <2>3, WriteQuiet
  <2>5. Busy(k, t)' \subseteq Busy(k, t) /\ Asking(who, t)' \subseteq Asking(who, t)
    BY <2>1, <2>4, NotBusy DEF Quiet
  <2> QED
    BY <2>4, <2>5, Calm
<1> QED
  BY <1>1, <1>2 DEF StatusStep

LEMMA WalkInCounts ==
  ASSUME TypeOK, NEW p \in Process, WalkInStep(p),
         NEW k \in Booth, NEW who \in Student, NEW t \in Nat, Counts(k, who, t)
  PROVE  Counts(k, who, t)'
<1> DEFINE Calmly == \E next : /\ Goto(p, next) /\ UNCHANGED rows
                              /\ next.pc \in {"idle", "upcoming", "standing", "present",
                                              "next", "mark", "enter"}
<1>c. Calmly => Counts(k, who, t)'
  BY GotoCalm
<1>1. ASSUME NEW v \in WalkIns, WalkInWindow(p, v[1], v[2]) PROVE Calmly
  BY <1>1 DEF WalkInWindow
<1>2. ASSUME WalkInUpcoming(p) \/ WalkInBooth(p) \/ WalkInPresent(p) PROVE Calmly
  <2>1. CASE WalkInUpcoming(p)
    BY <2>1 DEF WalkInUpcoming
  <2>2. CASE WalkInBooth(p)
    BY <2>2 DEF WalkInBooth
  <2>3. CASE WalkInPresent(p)
    <3>1. PICK fresh \in BOOLEAN :
            Goto(p, [pc |-> "next", who |-> proc[p].who, booth |-> proc[p].booth,
                     at |-> proc[p].at, fresh |-> fresh, marked |-> FALSE])
      BY <2>3 DEF WalkInPresent
    <3>2. UNCHANGED rows
      BY <2>3 DEF WalkInPresent
    <3> QED
      BY <3>1, <3>2
  <2> QED
    BY <1>2, <2>1, <2>2, <2>3
<1>3. ASSUME NEW end, Enter(p, end) PROVE Calmly
  BY <1>3 DEF Enter, End, Idle
<1>4. ASSUME NEW i \in Ids, WalkInFindMissed(p, i) \/ WalkInBefore(p, i) \/ WalkInAfter(p, i)
      PROVE  Calmly
  BY <1>3, <1>4 DEF WalkInFindMissed, WalkInBefore, WalkInAfter
<1>5. WalkInFree(p) => Calmly
  BY <1>3 DEF WalkInFree
<1>6. CASE WalkInMark(p)
  <2> DEFINE i == proc[p].row
             to == IF rows[i].status = "CONFIRM" THEN "ABSENT" ELSE rows[i].status
  <2>1. /\ i \in Ids /\ rows[i].status \in BookingStatus
        /\ rows' = [rows EXCEPT ![i] = [@ EXCEPT !.status = to]]
    BY <1>6, TypeParts, RowTypes DEF WalkInMark, ProcOK, Refers
  <2>2. PICK next : Goto(p, next) /\ next.pc = "next"
    BY <1>6 DEF WalkInMark
  <2>3. to \in BookingStatus /\ (to \in Live => IsLive(i))
    BY <2>1 DEF BookingStatus, Live, IsLive
  <2>4. \A j : Pending(j)' => Pending(j)
    BY <2>2, EndPending
  <2> HIDE DEF i, to
  <2>5. Quiet
    BY <2>1, <2>3, <2>4, WriteQuiet
  <2>6. Busy(k, t)' \subseteq Busy(k, t) /\ Asking(who, t)' \subseteq Asking(who, t)
    BY <2>2, <2>5, NotBusy DEF Quiet
  <2> QED
    BY <2>5, <2>6, Calm
<1>7. CASE WalkInInsert(p)
  <2> DEFINE w == proc[p]
             r == [who |-> w.who, booth |-> w.booth, kind |-> "PRACTICE", start |-> w.at,
                   end |-> w.end, date |-> DayOf(w.at), status |-> "CHECKED_IN", walkIn |-> TRUE]
             n == Len(rows) + 1
  <2>1. w.who \in Student /\ w.booth \in Booth /\ w.at \in Nat /\ w.end \in Nat
    BY <1>7, TypeParts, LocalFields DEF WalkInInsert, ProcOK
  <2>2. DayOf(w.at) \in Nat
    BY <2>1, SlotLengthsAssumption DEF DayOf
  <2>3. r \in Row /\ r.walkIn
    BY <2>1, <2>2 DEF Row, BookingStatus, Kind
  <2>4. rows' = Append(rows, r) /\ Goto(p, Idle) /\ Idle.pc = "idle"
    BY <1>7 DEF WalkInInsert, End, Idle
  <2> HIDE DEF r
  <2>5. Ids' = Ids \cup {n} /\ rows'[n] = r /\ \A j \in Ids : rows'[j] = rows[j]
    BY <2>3, <2>4, TypeParts, AppendRows
  <2>6. RowsKept
    BY <2>5 DEF RowsKept
  <2>7. ASSUME NEW j \in Ids', Occupies(j)' PROVE j \in Ids /\ Occupies(j)
    <3>1. j \in Ids
      BY <2>3, <2>5, <2>7 DEF Occupies
    <3> QED
      BY <2>4, <2>5, <2>7, <3>1, EndPending DEF Occupies, IsLive
  <2>8. Quiet
    BY <2>5, <2>6, <2>7 DEF Quiet
  <2>9. Busy(k, t)' \subseteq Busy(k, t) /\ Asking(who, t)' \subseteq Asking(who, t)
    BY <2>4, <2>6, NotBusy
  <2> QED
    BY <2>8, <2>9, Calm
<1> QED
  BY <1>c, <1>1, <1>2, <1>4, <1>5, <1>6, <1>7 DEF WalkInStep

LEMMA OutsideCounts ==
  ASSUME TypeOK, UNCHANGED proc,
         \/ \E i \in Ids : Settle(i)
         \/ UNCHANGED rows,
         NEW k \in Booth, NEW who \in Student, NEW t \in Nat, Counts(k, who, t)
  PROVE  Counts(k, who, t)'
<1>1. Quiet
  <2>1. ASSUME NEW i \in Ids, Settle(i) PROVE Quiet
    <3>1. PICK to \in {"COMPLETED", "ABSENT"} :
            rows' = [rows EXCEPT ![i] = [@ EXCEPT !.status = to]]
      BY <2>1 DEF Settle
    <3>2. to \in BookingStatus /\ to \notin Live
      BY DEF BookingStatus, Live
    <3>3. \A j : Pending(j)' => Pending(j)
      BY DEF Pending
    <3> QED
      BY <3>1, <3>2, <3>3, WriteQuiet
  <2>2. CASE UNCHANGED rows
    BY <2>2 DEF Quiet, RowsKept, Ids, Occupies, IsLive, Pending
  <2> QED
    BY <2>1, <2>2
<1>2. ASSUME NEW p \in Process, proc[p].pc = "transfer" PROVE proc[p].moved \subseteq Ids
  BY <1>2, TypeParts DEF ProcOK, Refers
<1>3. ASSUME NEW p \in Process, Moves(proc[p], k, t)' PROVE Moves(proc[p], k, t)
  BY <1>1, <1>2, <1>3 DEF Moves, Quiet, RowsKept
<1>4. Busy(k, t)' \subseteq Busy(k, t) /\ Asking(who, t)' \subseteq Asking(who, t)
  BY <1>3 DEF Busy, Asking, Makes, Asks
<1> QED
  BY <1>1, <1>4, Calm

\* Two bookings that have an instant in common overlap.
LEMMA CommonInstant ==
  ASSUME RowsOK, NEW i \in Ids, NEW j \in Ids, NEW t \in Nat,
         rows[i].start <= t, t < rows[i].end, rows[j].start <= t, t < rows[j].end
  PROVE  Overlap(rows[i], rows[j])
<1>1. /\ rows[i].start \in Nat /\ rows[i].end \in Nat
      /\ rows[j].start \in Nat /\ rows[j].end \in Nat
  BY RowTypes
<1> QED
  BY <1>1 DEF Overlap

LEMMA TransferMoveCounts ==
  ASSUME TypeOK, TypeOK', NEW p \in Process, NEW i \in Ids, TransferMove(p, i),
         NEW k \in Booth, NEW who \in Student, NEW t \in Nat, Counts(k, who, t)
  PROVE  Counts(k, who, t)'
<1> DEFINE next == Looked(proc[p], i, {i}, {})
<1>1. Goto(p, next) /\ UNCHANGED rows /\ RowsKept /\ Ids' = Ids /\ proc[p].pc = "transfer"
  BY DEF TransferMove, RowsKept, Ids
<1>2. next.pc = "transfer" /\ next.to = proc[p].to /\ next.moved = proc[p].moved \cup {i}
  BY DEF Looked, Transfer
<1> HIDE DEF next
<1>3. Quiet
  BY <1>1, <1>2, GotoQuiet
<1>4. proc'[p] = next
  BY <1>1, OthersBusy
<1>5. Asking(who, t)' \subseteq Asking(who, t)
  <2>1. p \notin Asking(who, t)'
    BY <1>2, <1>4 DEF Asking, Asks
  <2> QED
    BY <1>1, <2>1, OthersBusy
<1>6. StudentCount(who, t)'
  BY <1>3, <1>5, QuietClaims, CalmStudent DEF Counts
<1>7. CASE /\ proc[p].to = k
           /\ ~rows[i].walkIn /\ rows[i].start <= t /\ t < rows[i].end
  <2>1. ASSUME NEW j \in Claims(k, t)' PROVE ~IsLive(j)'
    <3>1. j \in Ids /\ rows[j].booth = k /\ rows[j].start <= t /\ t < rows[j].end
      BY <1>1, <2>1 DEF Claims
    <3>2. Overlap(rows[i], rows[j])
      BY <1>7, <3>1, CommonInstant, TypeParts
    <3>3. ~IsLive(j)
      BY <1>7, <3>1, <3>2 DEF TransferMove, TransferConflict
    <3> QED
      BY <1>1, <3>3 DEF IsLive
  <2>2. BoothCount(k, t)'
    BY <2>1, BoothOfPending
  <2> QED
    BY <1>6, <2>2 DEF Counts
<1>8. CASE ~(/\ proc[p].to = k
             /\ ~rows[i].walkIn /\ rows[i].start <= t /\ t < rows[i].end)
  <2>1. Moves(proc[p], k, t)' => Moves(proc[p], k, t)
    BY <1>1, <1>2, <1>4, <1>8 DEF Moves
  <2>2. ~Makes(proc[p], k, t)'
    BY <1>2, <1>4 DEF Makes
  <2>3. p \in Busy(k, t)' => p \in Busy(k, t)
    BY <2>1, <2>2 DEF Busy
  <2>4. Busy(k, t)' \subseteq Busy(k, t)
    BY <1>1, <2>3, OthersBusy
  <2> QED
    BY <1>3, <1>5, <2>4, Calm
<1> QED
  BY <1>7, <1>8

LEMMA TransferCommitCounts ==
  ASSUME TypeOK, TypeOK', MovesApart, NEW p \in Process, TransferCommit(p),
         NEW k \in Booth, NEW who \in Student, NEW t \in Nat, Counts(k, who, t)
  PROVE  Counts(k, who, t)'
<1> DEFINE moved == proc[p].moved
<1>1. proc[p].pc = "transfer" /\ Goto(p, Idle) /\ Idle.pc = "idle" /\ moved \subseteq Ids
  BY TypeParts DEF TransferCommit, End, Idle, ProcOK, Refers
<1>2. /\ Ids' = Ids
      /\ \A i \in Ids :
           /\ rows'[i].who = rows[i].who
           /\ rows'[i].start = rows[i].start /\ rows'[i].end = rows[i].end
           /\ rows'[i].date = rows[i].date /\ rows'[i].walkIn = rows[i].walkIn
           /\ rows'[i].booth = IF i \in moved THEN proc[p].to ELSE rows[i].booth
           /\ i \notin proc[p].dropped \/ i \in moved => rows'[i].status = rows[i].status
           /\ i \in proc[p].dropped \ moved => rows'[i].status = "CANCEL"
  BY CommitRows
<1>3. RowsKept
  BY <1>2 DEF RowsKept
<1>4. ASSUME NEW i \in Ids, Occupies(i)' PROVE Occupies(i)
  <2>1. IsLive(i)' => IsLive(i)
    BY <1>2 DEF IsLive, Live
  <2>2. Pending(i)' => Pending(i)
    BY <1>1, EndPending
  <2>3. ~rows[i].walkIn /\ (IsLive(i)' \/ Pending(i)')
    BY <1>2, <1>4 DEF Occupies
  <2> QED
    BY <2>1, <2>2, <2>3 DEF Occupies
<1>5. Busy(k, t)' \subseteq Busy(k, t) \ {p} /\ Asking(who, t)' \subseteq Asking(who, t) \ {p}
  BY <1>1, <1>3, NotBusy
<1>6. Holds(who, t)' \subseteq Holds(who, t)
  BY <1>2, <1>4 DEF Holds
<1>7. StudentCount(who, t)'
  BY <1>5, <1>6, CalmStudent DEF Counts
<1>8. CASE \E x \in moved : /\ proc[p].to = k /\ ~rows[x].walkIn
                            /\ rows[x].start <= t /\ t < rows[x].end
  <2>1. PICK x \in moved : /\ proc[p].to = k /\ ~rows[x].walkIn
                           /\ rows[x].start <= t /\ t < rows[x].end
    BY <1>8
  <2>2. p \in Busy(k, t)
    BY <1>1, <2>1 DEF Busy, Moves
  <2>3. ASSUME NEW i \in Claims(k, t)', i # x PROVE i \in Claims(k, t)
    <3>1. i \in Ids /\ Occupies(i) /\ rows[i].start <= t /\ t < rows[i].end
      BY <1>2, <1>4, <2>3 DEF Claims
    <3>2. i \notin moved
      <4>1. Overlap(rows[i], rows[x])
        BY <1>1, <2>1, <3>1, CommonInstant, TypeParts
      <4> QED
        BY <1>1, <2>1, <2>3, <4>1 DEF MovesApart
    <3>3. rows[i].booth = k
      BY <1>2, <2>3, <3>1, <3>2 DEF Claims
    <3> QED
      BY <3>1, <3>3 DEF Claims
  <2>4. /\ Claims(k, t)' \in SUBSET (Claims(k, t) \cup {x})
        /\ Busy(k, t)' \in SUBSET (Busy(k, t) \ {p})
    BY <1>5, <2>3
  <2>5. /\ IsFiniteSet(Claims(k, t)) /\ IsFiniteSet(Busy(k, t)) /\ Cardinality(Process) \in Nat
        /\ Cardinality(Claims(k, t)) + Cardinality(Busy(k, t)) <= Cardinality(Process)
    BY ClaimsFinite, ProcessesFinite DEF Counts, BoothCount
  <2>6. Cardinality(Claims(k, t)') + Cardinality(Busy(k, t)') <= Cardinality(Process)
    BY <2>2, <2>4, <2>5, CountMoves
  <2> QED
    BY <1>7, <2>6 DEF Counts, BoothCount
<1>9. CASE ~\E x \in moved : /\ proc[p].to = k /\ ~rows[x].walkIn
                             /\ rows[x].start <= t /\ t < rows[x].end
  <2>1. ASSUME NEW i \in Claims(k, t)' PROVE i \in Claims(k, t)
    <3>1. /\ i \in Ids /\ Occupies(i) /\ ~rows[i].walkIn
          /\ rows[i].start <= t /\ t < rows[i].end /\ rows'[i].booth = k
      BY <1>2, <1>4, <2>1 DEF Claims, Occupies
    <3>2. rows[i].booth = k
      BY <1>2, <1>9, <3>1
    <3> QED
      BY <3>1, <3>2 DEF Claims
  <2>2. BoothCount(k, t)'
    BY <1>5, <2>1, CalmBooth DEF Counts
  <2> QED
    BY <1>7, <2>2 DEF Counts
<1> QED
  BY <1>8, <1>9

LEMMA TransferCounts ==
  ASSUME TypeOK, TypeOK', MovesApart, NEW p \in Process, TransferStep(p),
         NEW k \in Booth, NEW who \in Student, NEW t \in Nat, Counts(k, who, t)
  PROVE  Counts(k, who, t)'
<1>1. ASSUME NEW from, NEW to, NEW chosen, TransferRead(p, from, to, chosen)
      PROVE  Counts(k, who, t)'
  <2> DEFINE next == Transfer(from, to, now, chosen, {}, {})
  <2>1. Goto(p, next) /\ UNCHANGED rows
    BY <1>1 DEF TransferRead
  <2>2. next.pc = "transfer" /\ next.moved = {}
    BY DEF Transfer
  <2> HIDE DEF next
  <2> QED
    BY <2>1, <2>2, GotoCalm
<1>2. ASSUME NEW i \in Ids, TransferDrop(p, i) \/ TransferSkip(p, i)
      PROVE  Counts(k, who, t)'
  <2>1. PICK dropped \in SUBSET {i} : Goto(p, Looked(proc[p], i, {}, dropped))
    BY <1>2 DEF TransferDrop, TransferSkip
  <2> DEFINE next == Looked(proc[p], i, {}, dropped)
  <2>2. UNCHANGED rows /\ proc[p].pc = "transfer"
    BY <1>2 DEF TransferDrop, TransferSkip
  <2>3. next.pc = "transfer" /\ next.to = proc[p].to /\ next.moved = proc[p].moved
    BY DEF Looked, Transfer
  <2>4. Goto(p, next)
    BY <2>1
  <2> HIDE DEF next
  <2>5. Busy(k, t)' \subseteq Busy(k, t) /\ Asking(who, t)' \subseteq Asking(who, t)
    BY <2>2, <2>3, <2>4, SameMoves
  <2>6. Quiet
    BY <2>2, <2>3, <2>4, GotoQuiet
  <2> QED
    BY <2>5, <2>6, Calm
<1> QED
  BY <1>1, <1>2, TransferMoveCounts, TransferCommitCounts DEF TransferStep

-----------------------------------------------------------------------------
(* The invariant *)

\* What a step may do to the bookings: nothing, a status, a new row, a commit.
LEMMA StepRows ==
  ASSUME TypeOK, [Next]_vars
  PROVE  \/ UNCHANGED rows
         \/ \E i \in Ids : \E to \in BookingStatus :
              ~Locked(i) /\ rows' = [rows EXCEPT ![i] = [@ EXCEPT !.status = to]]
         \/ \E r \in Row : /\ rows' = Append(rows, r)
                           /\ r.walkIn \/ \E q \in Requested : r = RowOf(q)
         \/ \E p \in Process : TransferCommit(p)
<1> DEFINE Kept == UNCHANGED rows
           Written == \E i \in Ids : \E to \in BookingStatus :
                        /\ ~Locked(i)
                        /\ rows' = [rows EXCEPT ![i] = [@ EXCEPT !.status = to]]
           Added == \E r \in Row : /\ rows' = Append(rows, r)
                                   /\ r.walkIn \/ \E q \in Requested : r = RowOf(q)
<1>1. ASSUME NEW p \in Process, CreateStep(p) PROVE Kept \/ Added
  <2>1. CASE CreateInsert(p)
    <3>1. proc[p].q \in Requested
      BY <2>1, TypeParts, LocalFields DEF CreateInsert, ProcOK
    <3>2. RowOf(proc[p].q) \in Row
      BY <3>1, RequestedAssumption DEF RowOf, Row, Request, BookingStatus
    <3> QED
      BY <2>1, <3>1, <3>2 DEF CreateInsert
  <2>2. CASE ~CreateInsert(p)
    BY <1>1, <2>2 DEF CreateStep, CreateGap, CreateBooth, CreateSlot, CreateCount,
                      CreateCapacity, CreateFull
  <2> QED
    BY <2>1, <2>2
<1>2. ASSUME NEW p \in Process, StatusStep(p) PROVE Kept \/ Written
  <2>1. CASE StatusWrite(p)
    <3>1. proc[p].row \in Ids /\ proc[p].to \in BookingStatus
      BY <2>1, TypeParts, LocalFields DEF StatusWrite, ProcOK, Refers
    <3> QED
      BY <2>1, <3>1 DEF StatusWrite
  <2>2. CASE ~StatusWrite(p)
    BY <1>2, <2>2 DEF StatusStep, StatusRead
  <2> QED
    BY <2>1, <2>2
<1>3. ASSUME NEW p \in Process, WalkInStep(p) PROVE Kept \/ Written \/ Added
  <2>1. CASE WalkInMark(p)
    <3> DEFINE w == proc[p]
               to == IF rows[w.row].status = "CONFIRM" THEN "ABSENT" ELSE rows[w.row].status
    <3>1. /\ w.row \in Ids /\ ~Locked(w.row)
          /\ rows' = [rows EXCEPT ![w.row] = [@ EXCEPT !.status = to]]
      BY <2>1, TypeParts DEF WalkInMark, ProcOK, Refers
    <3>2. to \in BookingStatus
      BY <3>1, TypeParts, RowTypes DEF BookingStatus
    <3> HIDE DEF to
    <3> QED
      BY <3>1, <3>2
  <2>2. CASE WalkInInsert(p)
    <3> DEFINE w == proc[p]
               r == [who |-> w.who, booth |-> w.booth, kind |-> "PRACTICE", start |-> w.at,
                     end |-> w.end, date |-> DayOf(w.at), status |-> "CHECKED_IN", walkIn |-> TRUE]
    <3>1. w.who \in Student /\ w.booth \in Booth /\ w.at \in Nat /\ w.end \in Nat
      BY <2>2, TypeParts, LocalFields DEF WalkInInsert, ProcOK
    <3>2. DayOf(w.at) \in Nat
      BY <3>1, SlotLengthsAssumption DEF DayOf
    <3>3. r \in Row /\ r.walkIn
      BY <3>1, <3>2 DEF Row, BookingStatus, Kind
    <3>4. rows' = Append(rows, r)
      BY <2>2 DEF WalkInInsert
    <3> HIDE DEF r
    <3> QED
      BY <3>3, <3>4
  <2>3. CASE ~WalkInMark(p) /\ ~WalkInInsert(p)
    BY <1>3, <2>3 DEF WalkInStep, WalkInWindow, WalkInUpcoming, WalkInBooth, WalkInPresent,
                      WalkInFindMissed, WalkInBefore, WalkInAfter, WalkInFree, Enter
  <2> QED
    BY <2>1, <2>2, <2>3
<1>4. ASSUME NEW p \in Process, TransferStep(p) PROVE Kept \/ TransferCommit(p)
  BY <1>4 DEF TransferStep, TransferRead, TransferMove, TransferDrop, TransferSkip
<1>5. ASSUME NEW i \in Ids, Settle(i) PROVE Written
  BY <1>5 DEF Settle, BookingStatus
<1>6. ASSUME NEW p \in Process, Fail(p) PROVE Kept
  BY <1>6 DEF Fail
<1>7. ASSUME NEW k \in Failing, BoothStatusChange(k) PROVE Kept
  BY <1>7 DEF BoothStatusChange
<1>8. Tick \/ UNCHANGED vars => Kept
  BY DEF Tick, vars
<1> HIDE DEF Kept, Written, Added
<1>9. Kept \/ Written \/ Added \/ \E p \in Process : TransferCommit(p)
  BY <1>1, <1>2, <1>3, <1>4, <1>5, <1>6, <1>7, <1>8 DEF Next
<1> QED
  BY <1>9 DEF Kept, Written, Added

LEMMA StepKeeps ==
  ASSUME TypeOK, [Next]_vars, RowsDated, AllWellDated
  PROVE  RowsKept /\ RowsDated'
<1>1. CASE UNCHANGED rows
  BY <1>1 DEF RowsKept, Ids, RowsDated, WellDated
<1>2. CASE \E i \in Ids : \E to \in BookingStatus :
             ~Locked(i) /\ rows' = [rows EXCEPT ![i] = [@ EXCEPT !.status = to]]
  <2>1. RowsKept /\ Ids' = Ids
    BY <1>2, TypeParts, StatusRows DEF RowsKept
  <2> QED
    BY <2>1 DEF RowsKept, RowsDated, WellDated
<1>3. CASE \E r \in Row : /\ rows' = Append(rows, r)
                          /\ r.walkIn \/ \E q \in Requested : r = RowOf(q)
  <2>1. PICK r \in Row : /\ rows' = Append(rows, r)
                         /\ r.walkIn \/ \E q \in Requested : r = RowOf(q)
    BY <1>3
  <2>2. /\ Ids' = Ids \cup {Len(rows) + 1} /\ rows'[Len(rows) + 1] = r
        /\ \A j \in Ids : rows'[j] = rows[j]
    BY <2>1, TypeParts, AppendRows
  <2>3. ~r.walkIn => WellDated(r)
    BY <2>1 DEF AllWellDated, WellDated, RowOf
  <2> QED
    BY <2>2, <2>3 DEF RowsKept, RowsDated, WellDated
<1>4. CASE \E p \in Process : TransferCommit(p)
  <2>1. RowsKept /\ Ids' = Ids
    BY <1>4, CommitRows DEF RowsKept
  <2> QED
    BY <2>1 DEF RowsKept, RowsDated, WellDated
<1> QED
  BY <1>1, <1>2, <1>3, <1>4, StepRows

\* A process that takes a step, when what it has moved stays apart.
LEMMA GotoApart ==
  ASSUME TypeOK, RowsKept, MovesApart, NEW p \in Process, NEW next, Goto(p, next),
         next.pc = "transfer"
           => \A i, j \in next.moved : i \in Ids /\ (i # j => ~Overlap(rows[i], rows[j]))
  PROVE  MovesApart'
<1>1. ASSUME NEW r \in Process, proc'[r].pc = "transfer",
             NEW i \in proc'[r].moved, NEW j \in proc'[r].moved, i # j
      PROVE  i \in Ids /\ j \in Ids /\ ~Overlap(rows[i], rows[j])
  <2>1. CASE r = p
    <3>1. proc'[r] = next
      BY <2>1, TypeParts DEF Goto, ProcOK
    <3> QED
      BY <1>1, <3>1
  <2>2. CASE r # p
    <3>1. proc'[r] = proc[r]
      BY <2>2, TypeParts DEF Goto, ProcOK
    <3>2. proc[r].moved \subseteq Ids
      BY <1>1, <3>1, TypeParts DEF ProcOK, Refers
    <3> QED
      BY <1>1, <3>1, <3>2 DEF MovesApart
  <2> QED
    BY <2>1, <2>2
<1> QED
  BY <1>1 DEF MovesApart, RowsKept, Overlap

\* A process goes on, but not with a transfer.
Elsewhere(p) == \E next : Goto(p, next) /\ next.pc # "transfer"

LEMMA CreateElsewhere ==
  ASSUME NEW p \in Process, CreateStep(p)
  PROVE  Elsewhere(p)
<1>1. ASSUME NEW q \in Requested, CreateGap(p, q) PROVE Elsewhere(p)
  BY <1>1 DEF CreateGap, Elsewhere
<1>2. CASE CreateBooth(p)
  BY <1>2 DEF CreateBooth, Elsewhere
<1>3. CASE CreateSlot(p)
  BY <1>3 DEF CreateSlot, Elsewhere
<1>4. CASE CreateCount(p)
  BY <1>4 DEF CreateCount, Elsewhere
<1>5. CASE CreateCapacity(p)
  BY <1>5 DEF CreateCapacity, Elsewhere
<1>6. CASE CreateFull(p) \/ CreateInsert(p)
  BY <1>6 DEF CreateFull, CreateInsert, End, Idle, Elsewhere
<1> QED
  BY <1>1, <1>2, <1>3, <1>4, <1>5, <1>6 DEF CreateStep

LEMMA StatusElsewhere ==
  ASSUME NEW p \in Process, StatusStep(p)
  PROVE  Elsewhere(p)
<1>1. CASE StatusWrite(p)
  BY <1>1 DEF StatusWrite, End, Idle, Elsewhere
<1>2. ASSUME NEW i \in Ids, NEW to \in BookingStatus, StatusRead(p, i, to) PROVE Elsewhere(p)
  BY <1>2 DEF StatusRead, Elsewhere
<1> QED
  BY <1>1, <1>2 DEF StatusStep

LEMMA WalkInElsewhere ==
  ASSUME NEW p \in Process, WalkInStep(p)
  PROVE  Elsewhere(p)
<1>0. ASSUME NEW end, Enter(p, end) PROVE Elsewhere(p)
  BY <1>0 DEF Enter, End, Idle, Elsewhere
<1>1. CASE WalkInPresent(p)
  BY <1>1 DEF WalkInPresent, Elsewhere
<1>2. CASE WalkInInsert(p)
  BY <1>2 DEF WalkInInsert, End, Idle, Elsewhere
<1>3. CASE WalkInMark(p)
  BY <1>3 DEF WalkInMark, Elsewhere
<1>4. CASE WalkInUpcoming(p)
  BY <1>4 DEF WalkInUpcoming, Elsewhere
<1>5. ASSUME NEW i \in Ids, WalkInFindMissed(p, i) PROVE Elsewhere(p)
  BY <1>5 DEF WalkInFindMissed, Elsewhere
<1>6. ASSUME NEW i \in Ids, WalkInBefore(p, i) \/ WalkInAfter(p, i) PROVE Elsewhere(p)
  BY <1>0, <1>6 DEF WalkInBefore, WalkInAfter
<1>7. CASE WalkInFree(p)
  BY <1>0, <1>7 DEF WalkInFree
<1>8. CASE WalkInBooth(p)
  BY <1>8 DEF WalkInBooth, Elsewhere
<1>9. ASSUME NEW v \in WalkIns, WalkInWindow(p, v[1], v[2]) PROVE Elsewhere(p)
  BY <1>9 DEF WalkInWindow, Elsewhere
<1> QED
  BY <1>1, <1>2, <1>3, <1>4, <1>5, <1>6, <1>7, <1>8, <1>9 DEF WalkInStep

\* A transfer goes on with what it has looked at.
Looks(p, i) == TransferMove(p, i) \/ TransferDrop(p, i) \/ TransferSkip(p, i)

LEMMA StepElsewhere ==
  ASSUME [Next]_vars
  PROVE  \/ UNCHANGED proc
         \/ \E p \in Process : Elsewhere(p)
         \/ \E p \in Process : \E from \in Failing, to \in Booth, chosen \in SUBSET Ids :
              TransferRead(p, from, to, chosen)
         \/ \E p \in Process : \E i \in Ids : Looks(p, i)
<1>1. ASSUME NEW p \in Process, TransferCommit(p) \/ Fail(p) PROVE Elsewhere(p)
  BY <1>1 DEF TransferCommit, Fail, End, Idle, Elsewhere
<1>2. ASSUME \/ \E i \in Ids : Settle(i)
             \/ \E k \in Failing : BoothStatusChange(k)
             \/ Tick
             \/ UNCHANGED vars
      PROVE  UNCHANGED proc
  BY <1>2 DEF Settle, BoothStatusChange, Tick, vars
<1> QED
  BY <1>1, <1>2, CreateElsewhere, StatusElsewhere, WalkInElsewhere DEF Next, TransferStep, Looks

LEMMA StepApart ==
  ASSUME TypeOK, [Next]_vars, RowsKept, MovesApart
  PROVE  MovesApart'
<1>1. ASSUME NEW p \in Process, Elsewhere(p) PROVE MovesApart'
  BY <1>1, GotoApart DEF Elsewhere
<1>2. ASSUME NEW p \in Process, NEW from, NEW to, NEW chosen, TransferRead(p, from, to, chosen)
      PROVE  MovesApart'
  <2> DEFINE next == Transfer(from, to, now, chosen, {}, {})
  <2>1. Goto(p, next) /\ next.moved = {}
    BY <1>2 DEF TransferRead, Transfer
  <2> HIDE DEF next
  <2> QED
    BY <2>1, GotoApart
<1>3. ASSUME NEW p \in Process, NEW i \in Ids, Looks(p, i) PROVE MovesApart'
  <2>1. \E moved \in SUBSET {i} : \E dropped \in SUBSET {i} :
          /\ proc[p].pc = "transfer" /\ Goto(p, Looked(proc[p], i, moved, dropped))
          /\ moved = {} \/ ~TransferConflict(p, i)
    BY <1>3 DEF Looks, TransferMove, TransferDrop, TransferSkip
  <2>2. PICK moved \in SUBSET {i}, dropped \in SUBSET {i} :
          /\ proc[p].pc = "transfer" /\ Goto(p, Looked(proc[p], i, moved, dropped))
          /\ moved = {} \/ ~TransferConflict(p, i)
    BY <2>1
  <2> DEFINE next == Looked(proc[p], i, moved, dropped)
  <2>3. Goto(p, next) /\ next.moved = proc[p].moved \cup moved
    BY <2>2 DEF Looked, Transfer
  <2>4. proc[p].moved \subseteq Ids
    BY <2>2, TypeParts DEF ProcOK, Refers
  <2>5. ASSUME NEW j \in proc[p].moved, NEW l \in proc[p].moved, j # l
        PROVE  ~Overlap(rows[j], rows[l])
    BY <2>2, <2>5 DEF MovesApart
  <2>6. ASSUME i \in moved, NEW j \in proc[p].moved
        PROVE  ~Overlap(rows[i], rows[j]) /\ ~Overlap(rows[j], rows[i])
    BY <2>2, <2>6 DEF TransferConflict, Overlap
  <2>7. \A j, l \in next.moved : j \in Ids /\ (j # l => ~Overlap(rows[j], rows[l]))
    BY <2>3, <2>4, <2>5, <2>6
  <2> HIDE DEF next
  <2> QED
    BY <2>3, <2>7, GotoApart
<1>4. CASE UNCHANGED proc
  <2>1. ASSUME NEW r \in Process, proc[r].pc = "transfer" PROVE proc[r].moved \subseteq Ids
    BY <2>1, TypeParts DEF ProcOK, Refers
  <2> QED
    BY <1>4, <2>1 DEF MovesApart, RowsKept, Overlap
<1> QED
  BY <1>1, <1>2, <1>3, <1>4, StepElsewhere

\* Inductive: the counts hold at every instant, not only at the start of a booking.
SlotInv ==
  /\ TypeOK
  /\ RowsDated
  /\ MovesApart
  /\ \A k \in Booth : \A who \in Student : \A t \in Nat : Counts(k, who, t)

LEMMA InitSlotInv == Init => SlotInv
<1> SUFFICES ASSUME Init PROVE SlotInv
  OBVIOUS
<1>1. Ids = {} /\ \A p \in Process : proc[p].pc = "idle"
  BY DEF Init, Ids, Idle
<1>2. ASSUME NEW k, NEW who, NEW t PROVE Counts(k, who, t)
  <2>1. Claims(k, t) = {} /\ Holds(who, t) = {} /\ Busy(k, t) = {} /\ Asking(who, t) = {}
    BY <1>1 DEF Claims, Holds, Busy, Asking, Makes, Moves, Asks
  <2>2. Cardinality({}) = 0 /\ Cardinality(Process) \in Nat
    BY FS_EmptySet, ProcessesFinite
  <2>3. Cardinality({}) + Cardinality({}) <= Cardinality(Process)
    BY <2>2
  <2> QED
    BY <2>1, <2>3 DEF Counts, BoothCount, StudentCount
<1>3. RowsDated /\ MovesApart
  BY <1>1 DEF RowsDated, MovesApart
<1> QED
  BY <1>2, <1>3, InitTypeOK DEF SlotInv

LEMMA NextSlotInv ==
  ASSUME AllWellDated
  PROVE  SlotInv /\ [Next]_vars => SlotInv'
<1> SUFFICES ASSUME SlotInv, [Next]_vars PROVE SlotInv'
  OBVIOUS
<1>1. TypeOK /\ RowsDated /\ MovesApart
  BY DEF SlotInv
<1>2. TypeOK'
  BY <1>1, NextTypeOK
<1>3. RowsKept /\ RowsDated'
  BY <1>1, StepKeeps
<1>4. MovesApart'
  BY <1>1, <1>3, StepApart
<1>5. ASSUME NEW k \in Booth, NEW who \in Student, NEW t \in Nat PROVE Counts(k, who, t)'
  <2>0. Counts(k, who, t)
    BY DEF SlotInv
  <2>1. ASSUME NEW p \in Process, CreateStep(p) PROVE Counts(k, who, t)'
    BY <1>1, <1>2, <2>0, <2>1, CreateCounts
  <2>2. ASSUME NEW p \in Process, StatusStep(p) PROVE Counts(k, who, t)'
    BY <1>1, <2>0, <2>2, StatusCounts
  <2>3. ASSUME NEW p \in Process, WalkInStep(p) PROVE Counts(k, who, t)'
    BY <1>1, <2>0, <2>3, WalkInCounts
  <2>4. ASSUME NEW p \in Process, TransferStep(p) PROVE Counts(k, who, t)'
    BY <1>1, <1>2, <2>0, <2>4, TransferCounts
  <2>5. ASSUME NEW p \in Process, Fail(p) PROVE Counts(k, who, t)'
    <3>1. Goto(p, Idle) /\ UNCHANGED rows /\ Idle.pc = "idle"
      BY <2>5 DEF Fail, End, Idle
    <3> QED
      BY <1>1, <2>0, <3>1, GotoCalm
  <2>6. ASSUME \/ \E i \in Ids : Settle(i)
               \/ \E b \in Failing : BoothStatusChange(b)
               \/ Tick
               \/ UNCHANGED vars
        PROVE  Counts(k, who, t)'
    <3>1. UNCHANGED proc /\ (UNCHANGED rows \/ \E i \in Ids : Settle(i))
      BY <2>6 DEF Settle, BoothStatusChange, Tick, vars
    <3> QED
      BY <1>1, <2>0, <3>1, OutsideCounts
  <2> QED
    BY <2>1, <2>2, <2>3, <2>4, <2>5, <2>6 DEF Next
<1> QED
  BY <1>2, <1>3, <1>4, <1>5 DEF SlotInv

\* Bookings counted by the properties are among those the invariant counts.
LEMMA InvBoothsAtMost == SlotInv => BoothsAtMost
<1> SUFFICES ASSUME SlotInv, NEW i \in Ids
             PROVE  Cardinality(BookedAt(rows[i].booth, rows[i].start)) <= Cardinality(Process)
  BY DEF BoothsAtMost
<1> DEFINE k == rows[i].booth
           t == rows[i].start
<1>1. TypeOK /\ k \in Booth /\ t \in Nat /\ rows[i].who \in Student
  BY TypeParts, RowTypes DEF SlotInv
<1>2. BoothCount(k, t)
  BY <1>1 DEF SlotInv, Counts
<1>3. BookedAt(k, t) \in SUBSET Claims(k, t)
  BY DEF BookedAt, Claims, IsBooked, Occupies
<1> HIDE DEF k, t
<1>4. /\ IsFiniteSet(Claims(k, t)) /\ IsFiniteSet(Busy(k, t)) /\ Cardinality(Process) \in Nat
  BY <1>1, ClaimsFinite, ProcessesFinite
<1>5. Cardinality(BookedAt(k, t)) <= Cardinality(Claims(k, t))
  BY <1>3, <1>4, FS_Subset
<1>6. /\ Cardinality(BookedAt(k, t)) \in Nat /\ Cardinality(Claims(k, t)) \in Nat
      /\ Cardinality(Busy(k, t)) \in Nat
  BY <1>3, <1>4, FS_Subset, FS_CardinalityType
<1>7. Cardinality(BookedAt(k, t)) <= Cardinality(Process)
  BY <1>2, <1>4, <1>5, <1>6 DEF BoothCount
<1> QED
  BY <1>7 DEF k, t

LEMMA InvStudentsAtMost == SlotInv => StudentsAtMost
<1> SUFFICES ASSUME SlotInv, NEW i \in Ids
             PROVE  Cardinality(HeldAt(rows[i].who, rows[i].start)) <= Cardinality(Process)
  BY DEF StudentsAtMost
<1> DEFINE who == rows[i].who
           t == rows[i].start
<1>1. TypeOK /\ who \in Student /\ t \in Nat /\ rows[i].booth \in Booth
  BY TypeParts, RowTypes DEF SlotInv
<1>2. StudentCount(who, t)
  BY <1>1 DEF SlotInv, Counts
<1>3. HeldAt(who, t) \in SUBSET Holds(who, t)
  BY DEF HeldAt, Holds, IsBooked, Occupies
<1> HIDE DEF who, t
<1>4. /\ IsFiniteSet(Holds(who, t)) /\ IsFiniteSet(Asking(who, t)) /\ Cardinality(Process) \in Nat
  BY <1>1, ClaimsFinite, ProcessesFinite
<1>5. Cardinality(HeldAt(who, t)) <= Cardinality(Holds(who, t))
  BY <1>3, <1>4, FS_Subset
<1>6. /\ Cardinality(HeldAt(who, t)) \in Nat /\ Cardinality(Holds(who, t)) \in Nat
      /\ Cardinality(Asking(who, t)) \in Nat
  BY <1>3, <1>4, FS_Subset, FS_CardinalityType
<1>7. Cardinality(HeldAt(who, t)) <= Cardinality(Process)
  BY <1>2, <1>4, <1>5, <1>6 DEF StudentCount
<1> QED
  BY <1>7 DEF who, t

(***************************************************************************)
(* When requests name the date of their times, no booth is booked more     *)
(* often at one instant than there are handlers, although create and the   *)
(* transfer check and write separately, bookings are made and moved        *)
(* without end and stale logins bring cancelled bookings back              *)
(* (BoothsAtMost): every booking above the first was let in by a handler   *)
(* that was past its check when another one took the slot.                 *)
(***************************************************************************)
THEOREM SlotsBoothsAtMost ==
  ASSUME AllWellDated
  PROVE  Spec => []BoothsAtMost
<1>1. SlotInv /\ [Next]_vars => SlotInv'
  BY NextSlotInv
<1> QED
  BY <1>1, InitSlotInv, InvBoothsAtMost, PTL DEF Spec

(***************************************************************************)
(* The same for the sessions of a student and the gap between them         *)
(* (StudentsAtMost).                                                       *)
(***************************************************************************)
THEOREM SlotsStudentsAtMost ==
  ASSUME AllWellDated
  PROVE  Spec => []StudentsAtMost
<1>1. SlotInv /\ [Next]_vars => SlotInv'
  BY NextSlotInv
<1> QED
  BY <1>1, InitSlotInv, InvStudentsAtMost, PTL DEF Spec

-----------------------------------------------------------------------------
(* Only live bookings move *)

\* The bookings a transfer has updated, which it locks until it commits.
Touched(p) == proc[p].moved \cup proc[p].dropped

\* A booking that is moved is live, and one transfer at a time has updated it.
MovesLive ==
  \A p \in Process : proc[p].pc = "transfer" =>
    /\ \A i \in proc[p].moved : IsLive(i)
    /\ \A r \in Process \ {p} :
         proc[r].pc = "transfer" => Touched(p) \cap Touched(r) = {}

LEMMA TouchedLocked ==
  ASSUME NEW p \in Process, proc[p].pc = "transfer", NEW i \in Touched(p)
  PROVE  Locked(i)
  BY DEF Locked, Touched

\* A booking that is locked stays live until the transfer that moves it commits.
LEMMA LockedStays ==
  ASSUME TypeOK, MovesLive, [Next]_vars, NEW r \in Process, proc[r].pc = "transfer",
         ~TransferCommit(r), NEW i \in proc[r].moved
  PROVE  IsLive(i)'
<1>1. IsLive(i) /\ Locked(i)
  BY TouchedLocked DEF MovesLive, Touched
<1>2. i \in Ids
  BY TypeParts DEF ProcOK, Refers
<1>3. CASE UNCHANGED rows
  BY <1>1, <1>3 DEF IsLive
<1>4. ASSUME NEW j \in Ids, NEW to \in BookingStatus, ~Locked(j),
             rows' = [rows EXCEPT ![j] = [@ EXCEPT !.status = to]]
      PROVE  IsLive(i)'
  <2>1. i # j /\ rows'[i] = rows[i]
    BY <1>1, <1>2, <1>4, TypeParts, StatusRows
  <2> QED
    BY <1>1, <2>1 DEF IsLive
<1>5. ASSUME NEW row \in Row, rows' = Append(rows, row) PROVE IsLive(i)'
  <2>1. rows'[i] = rows[i]
    BY <1>2, <1>5, TypeParts, AppendRows
  <2> QED
    BY <1>1, <2>1 DEF IsLive
<1>6. ASSUME NEW p \in Process, TransferCommit(p) PROVE IsLive(i)'
  <2>1. p # r /\ proc[p].pc = "transfer"
    BY <1>6 DEF TransferCommit
  <2>2. i \notin proc[p].dropped
    BY <2>1 DEF MovesLive, Touched
  <2>3. rows'[i].status = rows[i].status
    BY <1>2, <1>6, <2>2, CommitRows
  <2> QED
    BY <1>1, <2>3 DEF IsLive
<1> QED
  BY <1>3, <1>4, <1>5, <1>6, StepRows

\* Two processes do not step at once.
LEMMA OneSteps ==
  ASSUME TypeOK, NEW p \in Process, NEW next, Goto(p, next), NEW r \in Process \ {p}
  PROVE  ~TransferCommit(r)
<1>1. proc'[r] = proc[r]
  BY TypeParts DEF Goto, ProcOK
<1>2. TransferCommit(r) => proc[r].pc = "transfer" /\ proc'[r] = Idle
  BY TypeParts DEF TransferCommit, End, Goto, ProcOK
<1> QED
  BY <1>1, <1>2 DEF Idle

\* A process that goes on leaves alone what the transfers of others have updated.
LEMMA GotoMovesLive ==
  ASSUME TypeOK, MovesLive, [Next]_vars, NEW p \in Process, NEW next, Goto(p, next),
         next.pc = "transfer" =>
           /\ \A i \in next.moved : IsLive(i)'
           /\ \A r \in Process \ {p} : proc[r].pc = "transfer" =>
                (next.moved \cup next.dropped) \cap Touched(r) = {}
  PROVE  MovesLive'
<1>1. proc'[p] = next /\ \A r \in Process \ {p} : proc'[r] = proc[r]
  BY TypeParts DEF Goto, ProcOK
<1>2. ASSUME NEW r \in Process \ {p}, proc[r].pc = "transfer", NEW i \in proc[r].moved
      PROVE  IsLive(i)'
  BY <1>2, OneSteps, LockedStays
<1>3. ASSUME NEW r \in Process, proc'[r].pc = "transfer", NEW i \in proc'[r].moved
      PROVE  IsLive(i)'
  BY <1>1, <1>2, <1>3
<1>4. Touched(p)' = next.moved \cup next.dropped
      /\ \A r \in Process \ {p} : Touched(r)' = Touched(r)
  BY <1>1 DEF Touched
<1>5. ASSUME NEW r \in Process, NEW s \in Process \ {r},
             proc'[r].pc = "transfer", proc'[s].pc = "transfer"
      PROVE  Touched(r)' \cap Touched(s)' = {}
  <2>1. CASE r # p /\ s # p
    BY <1>1, <1>4, <1>5, <2>1 DEF MovesLive
  <2>2. CASE r = p
    BY <1>1, <1>4, <1>5, <2>2
  <2>3. CASE s = p
    BY <1>1, <1>4, <1>5, <2>3
  <2> QED
    BY <2>1, <2>2, <2>3
<1> QED
  BY <1>3, <1>5 DEF MovesLive

LEMMA NextMovesLive ==
  ASSUME TypeOK, MovesLive, [Next]_vars
  PROVE  MovesLive'
<1>1. ASSUME NEW p \in Process, Elsewhere(p) PROVE MovesLive'
  BY <1>1, GotoMovesLive DEF Elsewhere
<1>2. ASSUME NEW p \in Process, NEW from, NEW to, NEW chosen, TransferRead(p, from, to, chosen)
      PROVE  MovesLive'
  <2> DEFINE next == Transfer(from, to, now, chosen, {}, {})
  <2>1. Goto(p, next) /\ next.moved = {} /\ next.dropped = {}
    BY <1>2 DEF TransferRead, Transfer
  <2> HIDE DEF next
  <2> QED
    BY <2>1, GotoMovesLive
<1>3. ASSUME NEW p \in Process, NEW i \in Ids, Looks(p, i) PROVE MovesLive'
  <2>1. \E moved \in SUBSET {i} : \E dropped \in SUBSET {i} :
          /\ proc[p].pc = "transfer" /\ Goto(p, Looked(proc[p], i, moved, dropped))
          /\ ~Locked(i) /\ UNCHANGED rows /\ (moved = {} \/ IsLive(i))
    BY <1>3 DEF Looks, TransferMove, TransferDrop, TransferSkip, Transferable
  <2>2. PICK moved \in SUBSET {i}, dropped \in SUBSET {i} :
          /\ proc[p].pc = "transfer" /\ Goto(p, Looked(proc[p], i, moved, dropped))
          /\ ~Locked(i) /\ UNCHANGED rows /\ (moved = {} \/ IsLive(i))
    BY <2>1
  <2> DEFINE next == Looked(proc[p], i, moved, dropped)
  <2>3. /\ Goto(p, next) /\ next.moved = proc[p].moved \cup moved
        /\ next.moved \cup next.dropped \subseteq Touched(p) \cup {i}
    BY <2>2 DEF Looked, Transfer, Touched
  <2>4. \A j \in next.moved : IsLive(j)'
    BY <2>2, <2>3 DEF MovesLive, IsLive
  <2>5. ASSUME NEW r \in Process \ {p}, proc[r].pc = "transfer"
        PROVE  (next.moved \cup next.dropped) \cap Touched(r) = {}
    <3>1. i \notin Touched(r)
      BY <2>2, <2>5, TouchedLocked
    <3>2. Touched(p) \cap Touched(r) = {}
      BY <2>2, <2>5 DEF MovesLive
    <3> QED
      BY <2>3, <3>1, <3>2
  <2> HIDE DEF next
  <2> QED
    BY <2>3, <2>4, <2>5, GotoMovesLive
<1>4. CASE UNCHANGED proc
  <2>1. \A r \in Process : ~TransferCommit(r)
    BY <1>4, TypeParts DEF TransferCommit, End, Goto, ProcOK, Idle
  <2>2. ASSUME NEW r \in Process, proc[r].pc = "transfer", NEW i \in proc[r].moved
        PROVE  IsLive(i)'
    BY <2>1, <2>2, LockedStays
  <2>3. \A r \in Process : Touched(r)' = Touched(r)
    BY <1>4 DEF Touched
  <2> QED
    BY <1>4, <2>2, <2>3 DEF MovesLive
<1> QED
  BY <1>1, <1>2, <1>3, <1>4, StepElsewhere

(***************************************************************************)
(* transferBookingsFromIncidentBooth: however many handlers write between  *)
(* its statements, a booking is at another booth after a step only if it   *)
(* was live, and it keeps its status (OnlyLiveBookingsMove): the update    *)
(* asks for the status again and locks the booking, and no other transfer  *)
(* cancels what this one moves.                                            *)
(***************************************************************************)
THEOREM SlotsOnlyLiveMove == Spec => OnlyLiveBookingsMove
<1>1. ASSUME TypeOK, MovesLive, [Next]_vars, NEW i \in Ids, rows'[i].booth # rows[i].booth
      PROVE  IsLive(i) /\ rows'[i].status = rows[i].status
  <2>1. CASE UNCHANGED rows
    BY <1>1, <2>1
  <2>2. ASSUME NEW j \in Ids, NEW to \in BookingStatus,
               rows' = [rows EXCEPT ![j] = [@ EXCEPT !.status = to]]
        PROVE  FALSE
    BY <1>1, <2>2, TypeParts, StatusRows
  <2>3. ASSUME NEW row \in Row, rows' = Append(rows, row) PROVE FALSE
    BY <1>1, <2>3, TypeParts, AppendRows
  <2>4. ASSUME NEW p \in Process, TransferCommit(p)
        PROVE  IsLive(i) /\ rows'[i].status = rows[i].status
    <3>1. i \in proc[p].moved /\ rows'[i].status = rows[i].status
      BY <1>1, <2>4, CommitRows
    <3> QED
      BY <1>1, <2>4, <3>1 DEF TransferCommit, MovesLive
  <2> QED
    BY <1>1, <2>1, <2>2, <2>3, <2>4, StepRows
<1>2. TypeOK /\ MovesLive /\ [Next]_vars
        => [\A i \in Ids : rows'[i].booth # rows[i].booth
              => IsLive(i) /\ rows'[i].status = rows[i].status]_vars
  BY <1>1
<1>3. Init => MovesLive
  BY DEF Init, MovesLive, Idle
<1> QED
  BY <1>2, <1>3, InitTypeOK, NextTypeOK, NextMovesLive, PTL DEF Spec, OnlyLiveBookingsMove

-----------------------------------------------------------------------------
(* No walk-in disturbs an EXAM *)

LiveIn(r) == r.status \in Live

\* A booking is over by the end of its date.
InDay(r) == r.walkIn => r.end <= (r.date + 1) * Day

\* Bookings are on the date they begin, and a walk-in is no EXAM.
RowSound(r) ==
  /\ r.date * Day <= r.start /\ r.start < r.end
  /\ IF r.walkIn THEN r.kind = "PRACTICE" ELSE WellDated(r)

RowsSound == \A i \in Ids : RowSound(rows[i])

\* Booking i is live, or may be made so again.
Standing(i) == IsLive(i) \/ Pending(i)

\* Nothing that stands, or may again, overlaps an EXAM of its booth.
ExamsApart ==
  \A i, j \in Ids :
    i # j /\ Standing(i) /\ Standing(j) /\ rows[i].booth = rows[j].booth
      /\ InDay(rows[i]) /\ rows[j].kind = "EXAM"
    => ~Overlap(rows[i], rows[j])

\* Booking i, of the bookings R, is an EXAM at booth k.
ExamAt(R, i, k) == R[i].kind = "EXAM" /\ LiveIn(R[i]) /\ R[i].booth = k

\* What a request has seen of the bookings R is still so: the slot it asks for is free;
\* but for the EXAM about to be marked none has begun; the walk-in ends before the next
\* EXAM; what is moved finds its booth free.
Clear(l, R) ==
  /\ l.pc \in {"count", "capacity", "insert"} =>
       \A i \in DOMAIN R :
         R[i].booth = l.q.booth /\ LiveIn(R[i]) /\ InDay(R[i]) => ~Overlap(l.q, R[i])
  /\ l.pc = "mark" =>
       /\ R[l.row].status # "CHECKED_IN"
       /\ \A i \in DOMAIN R :
            ExamAt(R, i, l.booth) /\ l.at <= R[i].end => i = l.row \/ l.at <= R[i].start
  /\ l.pc = "next" /\ l.marked =>
       \A i \in DOMAIN R : ExamAt(R, i, l.booth) /\ l.at <= R[i].end => l.at <= R[i].start
  /\ l.pc = "enter" =>
       /\ l.at < l.end
       /\ \A i \in DOMAIN R :
            ExamAt(R, i, l.booth) => ~(R[i].start < l.end /\ l.at < R[i].end)
  /\ l.pc = "transfer" =>
       /\ l.from # l.to
       /\ \A i \in l.moved :
            /\ R[i].booth = l.from
            /\ \A j \in DOMAIN R :
                 R[j].booth = l.to /\ LiveIn(R[j]) => ~Overlap(R[i], R[j])

ExamInv ==
  /\ RowsSound
  /\ ExamsApart
  /\ \A p \in Process : Clear(proc[p], rows)

\* One handler at a time.
Alone == \A p, q \in Process : p = q

\* Bookings keep what they are of, and none becomes live or checked in.
Fades ==
  /\ Ids' = Ids
  /\ \A i \in Ids :
       /\ rows'[i].kind = rows[i].kind /\ rows'[i].booth = rows[i].booth
       /\ rows'[i].start = rows[i].start /\ rows'[i].end = rows[i].end
       /\ rows'[i].date = rows[i].date /\ rows'[i].walkIn = rows[i].walkIn
       /\ LiveIn(rows'[i]) => LiveIn(rows[i])
       /\ rows'[i].status = "CHECKED_IN" => rows[i].status = "CHECKED_IN"

LEMMA RowsFade == UNCHANGED rows => Fades
  BY DEF Fades, Ids

\* What a request has seen stays so while bookings fade.
LEMMA FadesClear ==
  ASSUME Fades, NEW l, Clear(l, rows), l.pc = "mark" => l.row \in Ids,
         l.pc = "transfer" => l.moved \subseteq Ids
  PROVE  Clear(l, rows')
<1>0. DOMAIN rows = Ids /\ DOMAIN rows' = Ids
  BY DEF Fades, Ids
<1>1. \A i \in Ids : /\ InDay(rows'[i]) <=> InDay(rows[i])
                     /\ \A k : ExamAt(rows', i, k) => ExamAt(rows, i, k)
  BY DEF Fades, InDay, ExamAt
<1>2. \A i \in Ids : /\ rows'[i].booth = rows[i].booth /\ LiveIn(rows'[i]) => LiveIn(rows[i])
                     /\ rows'[i].start = rows[i].start /\ rows'[i].end = rows[i].end
  BY DEF Fades
<1>3. ASSUME l.pc \in {"count", "capacity", "insert"}, NEW i \in Ids, rows'[i].booth = l.q.booth,
             LiveIn(rows'[i]), InDay(rows'[i])
      PROVE  ~Overlap(l.q, rows'[i])
  <2>1. ~Overlap(l.q, rows[i])
    BY <1>0, <1>1, <1>3 DEF Clear, Fades
  <2> QED
    BY <1>2, <1>3, <2>1 DEF Overlap, Fades
<1>4. ASSUME l.pc = "mark"
      PROVE  /\ rows'[l.row].status # "CHECKED_IN"
             /\ \A i \in Ids : ExamAt(rows', i, l.booth) /\ l.at <= rows'[i].end
                                 => i = l.row \/ l.at <= rows'[i].start
  BY <1>0, <1>1, <1>4 DEF Clear, Fades
<1>5. ASSUME l.pc = "next" /\ l.marked
      PROVE  \A i \in Ids : ExamAt(rows', i, l.booth) /\ l.at <= rows'[i].end
                              => l.at <= rows'[i].start
  BY <1>0, <1>1, <1>5 DEF Clear, Fades
<1>6. ASSUME l.pc = "enter"
      PROVE  /\ l.at < l.end
             /\ \A i \in Ids : ExamAt(rows', i, l.booth)
                                 => ~(rows'[i].start < l.end /\ l.at < rows'[i].end)
  BY <1>0, <1>1, <1>6 DEF Clear, Fades
<1>7. ASSUME l.pc = "transfer"
      PROVE  /\ l.from # l.to
             /\ \A i \in l.moved :
                  /\ rows'[i].booth = l.from
                  /\ \A j \in Ids : rows'[j].booth = l.to /\ LiveIn(rows'[j])
                                      => ~Overlap(rows'[i], rows'[j])
  <2>1. \A i \in l.moved, j \in Ids : Overlap(rows'[i], rows'[j]) => Overlap(rows[i], rows[j])
    BY <1>7 DEF Overlap, Fades
  <2> QED
    BY <1>0, <1>7, <2>1 DEF Clear, Fades
<1> QED
  BY <1>0, <1>3, <1>4, <1>5, <1>6, <1>7 DEF Clear

\* A request that has seen nothing on which it relies.
LEMMA ClearAtOnce ==
  ASSUME NEW l, NEW R,
         l.pc \notin {"count", "capacity", "insert", "mark", "next", "enter", "transfer"}
  PROVE  Clear(l, R)
  BY DEF Clear

LEMMA ClearIdle == \A R : Clear(Idle, R)
  BY ClearAtOnce DEF Idle

\* When bookings fade, those that stand are sound and apart as before.
LEMMA FadesApart ==
  ASSUME ExamInv, Fades, \A i \in Ids : Pending(i)' => Standing(i)
  PROVE  RowsSound' /\ ExamsApart'
<1>1. \A i \in Ids : RowSound(rows[i]) => RowSound(rows'[i])
  BY DEF RowSound, WellDated, Fades
<1>2. RowsSound'
  BY <1>1 DEF RowsSound, ExamInv, Fades
<1>3. \A i \in Ids : Standing(i)' => Standing(i)
  BY DEF Standing, IsLive, LiveIn, Fades
<1>4. ASSUME NEW i \in Ids, NEW j \in Ids, i # j, Standing(i)', Standing(j)',
             rows'[i].booth = rows'[j].booth, InDay(rows'[i]), rows'[j].kind = "EXAM"
      PROVE  ~Overlap(rows'[i], rows'[j])
  <2>1. /\ rows[i].booth = rows[j].booth /\ InDay(rows[i]) /\ rows[j].kind = "EXAM"
        /\ Standing(i) /\ Standing(j)
    BY <1>3, <1>4 DEF InDay, Fades
  <2>2. ~Overlap(rows[i], rows[j])
    BY <1>4, <2>1 DEF ExamInv, ExamsApart
  <2> QED
    BY <2>2 DEF Overlap, Fades
<1>5. Ids' = Ids
  BY DEF Fades
<1>6. ExamsApart'
  BY <1>4, <1>5 DEF ExamsApart
<1> QED
  BY <1>2, <1>6

LEMMA Rests ==
  ASSUME TypeOK, ExamInv, Fades, UNCHANGED proc
  PROVE  ExamInv'
<1>1. \A i \in Ids : Pending(i)' => Standing(i)
  BY DEF Pending, Standing
<1>2. ASSUME NEW p \in Process PROVE Clear(proc[p], rows')
  <2>1. /\ proc[p].pc = "mark" => proc[p].row \in Ids
        /\ proc[p].pc = "transfer" => proc[p].moved \subseteq Ids
    BY TypeParts DEF ProcOK, Refers
  <2> QED
    BY <2>1, FadesClear DEF ExamInv
<1> QED
  BY <1>1, <1>2, FadesApart DEF ExamInv

LEMMA GoesOn ==
  ASSUME Alone, TypeOK, ExamInv, Fades, NEW p \in Process, NEW next, Goto(p, next),
         Clear(next, rows'), next.pc = "write" /\ next.to \in Live => IsLive(next.row)
  PROVE  ExamInv'
<1>1. proc'[p] = next /\ \A r \in Process : r = p
  BY TypeParts DEF Goto, ProcOK, Alone
<1>2. \A i \in Ids : Pending(i)' => Standing(i)
  BY <1>1 DEF Pending, Standing
<1>3. \A r \in Process : Clear(proc'[r], rows')
  BY <1>1
<1> QED
  BY <1>2, <1>3, FadesApart DEF ExamInv

\* Bookings within a date that overlap are of one date.
LEMMA SameDate ==
  ASSUME NEW a, NEW b, a.start \in Nat, a.end \in Nat, a.date \in Nat,
         b.start \in Nat, b.end \in Nat, b.date \in Nat,
         a.date * Day <= a.start, a.start < a.end, a.end <= (a.date + 1) * Day,
         b.date * Day <= b.start, b.start < b.end, b.end <= (b.date + 1) * Day,
         Overlap(a, b)
  PROVE  a.date = b.date
<1> DEFINE t == IF a.start <= b.start THEN b.start ELSE a.start
<1>1. t \in Int /\ a.start <= t /\ t < a.end /\ b.start <= t /\ t < b.end
  BY DEF Overlap
<1>2. Day \in Nat
  BY SlotLengthsAssumption
<1>3. /\ a.date * Day \in Int /\ (a.date + 1) * Day \in Int
      /\ b.date * Day \in Int /\ (b.date + 1) * Day \in Int
  BY <1>2
<1> HIDE DEF t
<1>4. /\ a.date * Day <= t /\ t < (a.date + 1) * Day
      /\ b.date * Day <= t /\ t < (b.date + 1) * Day
  BY <1>1, <1>3
<1> QED
  BY <1>1, <1>4, OneDate

\* A booking that is none of a walk-in, or of one that ends in time, is within its date.
LEMMA WithinDate ==
  ASSUME RowsOK, RowsSound, NEW i \in Ids, InDay(rows[i])
  PROVE  /\ rows[i].date * Day <= rows[i].start /\ rows[i].start < rows[i].end
         /\ rows[i].end <= (rows[i].date + 1) * Day
<1>1. RowSound(rows[i])
  BY DEF RowsSound
<1>2. CASE rows[i].walkIn
  BY <1>1, <1>2 DEF RowSound, InDay
<1>3. CASE ~rows[i].walkIn
  <2>1. rows[i].end \in Nat /\ rows[i].date \in Nat /\ Gap \in Nat /\ Day \in Nat
    BY RowTypes, SlotLengthsAssumption
  <2>2. (rows[i].date + 1) * Day \in Nat
    BY <2>1
  <2>3. rows[i].end + Gap <= (rows[i].date + 1) * Day
    BY <1>1, <1>3 DEF RowSound, WellDated
  <2> QED
    BY <1>1, <2>1, <2>2, <2>3 DEF RowSound
<1> QED
  BY <1>2, <1>3

LEMMA RequestedSound ==
  ASSUME AllWellDated, NEW q \in Requested
  PROVE  /\ q.start \in Nat /\ q.end \in Nat /\ q.date \in Nat
         /\ q.date * Day <= q.start /\ q.start < q.end /\ q.end <= (q.date + 1) * Day
         /\ WellDated(q)
<1>1. /\ q.start \in Nat /\ q.end \in Nat /\ q.date \in Nat /\ q.start < q.end
      /\ Gap \in Nat /\ Day \in Nat
  BY RequestedAssumption, SlotLengthsAssumption DEF Request
<1>2. q.date * Day <= q.start /\ q.end + Gap <= (q.date + 1) * Day /\ WellDated(q)
  BY DEF AllWellDated, WellDated
<1>3. (q.date + 1) * Day \in Nat
  BY <1>1
<1>4. q.end <= (q.date + 1) * Day
  BY <1>1, <1>2, <1>3
<1> QED
  BY <1>1, <1>2, <1>4

\* An EXAM is within its date.
LEMMA ExamInDay ==
  ASSUME RowsSound, NEW i \in Ids, rows[i].kind = "EXAM"
  PROVE  ~rows[i].walkIn /\ InDay(rows[i])
<1>1. RowSound(rows[i])
  BY DEF RowsSound
<1> QED
  BY <1>1, Zenon DEF RowSound, InDay

\* A booking is made where nothing overlaps it that should not.
LEMMA Inserts ==
  ASSUME Alone, TypeOK, ExamInv, NEW p \in Process, End(p), proc[p].pc # "write",
         NEW r \in Row, rows' = Append(rows, r), RowSound(r),
         \A i \in Ids : LiveIn(rows[i]) /\ rows[i].booth = r.booth =>
           /\ r.kind = "EXAM" /\ InDay(rows[i]) => ~Overlap(rows[i], r)
           /\ rows[i].kind = "EXAM" /\ InDay(r) => ~Overlap(r, rows[i])
  PROVE  ExamInv'
<1> DEFINE n == Len(rows) + 1
<1>1. /\ Ids' = Ids \cup {n} /\ n \notin Ids /\ rows'[n] = r
      /\ \A i \in Ids : rows'[i] = rows[i]
  BY TypeParts, AppendRows
<1> HIDE DEF n
<1>2. proc'[p] = Idle /\ \A s \in Process : s = p
  BY TypeParts DEF End, Goto, ProcOK, Alone
<1>3. \A s \in Process : Clear(proc'[s], rows')
  BY <1>2, ClearIdle
<1>4. RowsSound'
  BY <1>1 DEF RowsSound, ExamInv
<1>5. \A i : ~Pending(i) /\ ~Pending(i)'
  BY <1>2 DEF Pending, Idle
<1>6. \A i \in Ids' : Standing(i)' => LiveIn(rows'[i])
  BY <1>5 DEF Standing, IsLive, LiveIn
<1>7. ASSUME NEW i \in Ids', NEW j \in Ids', i # j, Standing(i)', Standing(j)',
             rows'[i].booth = rows'[j].booth, InDay(rows'[i]), rows'[j].kind = "EXAM"
      PROVE  ~Overlap(rows'[i], rows'[j])
  <2>1. CASE i \in Ids /\ j \in Ids
    <3>1. Standing(i) /\ Standing(j)
      BY <1>1, <1>6, <1>7, <2>1 DEF Standing, IsLive, LiveIn
    <3> QED
      BY <1>1, <1>7, <2>1, <3>1 DEF ExamInv, ExamsApart
  <2>2. CASE i = n
    BY <1>1, <1>6, <1>7, <2>2
  <2>3. CASE j = n
    BY <1>1, <1>6, <1>7, <2>3
  <2> QED
    BY <1>1, <2>1, <2>2, <2>3
<1>8. ExamsApart'
  BY <1>7 DEF ExamsApart
<1> QED
  BY <1>3, <1>4, <1>8 DEF ExamInv

LEMMA CreateExams ==
  ASSUME Alone, AllWellDated, TypeOK, ExamInv, NEW p \in Process, CreateStep(p)
  PROVE  ExamInv'
<1>0. /\ proc[p] \in Local /\ Clear(proc[p], rows)
      /\ RowsOK /\ RowsSound
  BY TypeParts DEF ProcOK, ExamInv
<1>1. ASSUME NEW q \in Requested, NEW pc \in {"booth", "slot"}, Goto(p, [pc |-> pc, q |-> q]),
             UNCHANGED rows
      PROVE  ExamInv'
  <2> DEFINE next == [pc |-> pc, q |-> q]
  <2>1. next.pc \in {"booth", "slot"} /\ Goto(p, next)
    BY <1>1
  <2> HIDE DEF next
  <2> QED
    BY <1>1, <2>1, RowsFade, ClearAtOnce, GoesOn
<1>2. ASSUME NEW next, next.pc \in {"count", "capacity", "insert"},
             Goto(p, next), UNCHANGED rows,
             \A i \in Ids : rows[i].booth = next.q.booth /\ LiveIn(rows[i]) /\ InDay(rows[i])
                              => ~Overlap(next.q, rows[i])
      PROVE  ExamInv'
  <2>1. Clear(next, rows')
    BY <1>2 DEF Clear, Ids
  <2> QED
    BY <1>2, <2>1, RowsFade, GoesOn
<1>3. ASSUME NEW q \in Requested, CreateGap(p, q) PROVE ExamInv'
  BY <1>1, <1>3 DEF CreateGap
<1>4. CASE CreateBooth(p)
  <2>1. proc[p].q \in Requested
    BY <1>0, <1>4, LocalFields DEF CreateBooth
  <2> QED
    BY <1>1, <1>4, <2>1 DEF CreateBooth
<1>5. CASE CreateSlot(p)
  <2> DEFINE q == proc[p].q
             next == [pc |-> "count", q |-> q]
  <2>1. q \in Requested
    BY <1>0, <1>5, LocalFields DEF CreateSlot
  <2>2. ASSUME NEW i \in Ids, rows[i].booth = q.booth, LiveIn(rows[i]), InDay(rows[i]),
               Overlap(q, rows[i])
        PROVE  FALSE
    <3>1. /\ rows[i].start \in Nat /\ rows[i].end \in Nat /\ rows[i].date \in Nat
          /\ rows[i].date * Day <= rows[i].start /\ rows[i].start < rows[i].end
          /\ rows[i].end <= (rows[i].date + 1) * Day
      BY <1>0, <2>2, RowTypes, WithinDate
    <3>2. rows[i].date = q.date
      BY <2>1, <2>2, <3>1, RequestedSound, SameDate
    <3> QED
      BY <1>5, <2>2, <3>2 DEF CreateSlot, Rivals, IsLive, LiveIn
  <2>3. /\ Goto(p, next) /\ UNCHANGED rows /\ next.pc = "count" /\ next.q = q
    BY <1>5 DEF CreateSlot
  <2> HIDE DEF next
  <2> QED
    BY <1>2, <2>2, <2>3
<1>6. CASE CreateCount(p)
  <2> DEFINE next == [pc |-> "capacity", q |-> proc[p].q,
                      seen |-> Cardinality({k \in Booth : active[k]})]
  <2>1. /\ Goto(p, next) /\ UNCHANGED rows /\ next.pc = "capacity" /\ next.q = proc[p].q
        /\ proc[p].pc = "count"
    BY <1>6 DEF CreateCount
  <2> HIDE DEF next
  <2> QED
    BY <1>0, <1>2, <2>1 DEF Clear, Ids
<1>7. CASE CreateCapacity(p)
  <2> DEFINE next == [pc |-> "insert", q |-> proc[p].q]
  <2>1. /\ Goto(p, next) /\ UNCHANGED rows /\ next.pc = "insert" /\ next.q = proc[p].q
        /\ proc[p].pc = "capacity"
    BY <1>7 DEF CreateCapacity
  <2> HIDE DEF next
  <2> QED
    BY <1>0, <1>2, <2>1 DEF Clear, Ids
<1>8. CASE CreateFull(p)
  <2>1. Goto(p, Idle) /\ UNCHANGED rows /\ Idle.pc = "idle"
    BY <1>8 DEF CreateFull, End, Idle
  <2> QED
    BY <2>1, RowsFade, ClearIdle, GoesOn
<1>9. CASE CreateInsert(p)
  <2> DEFINE q == proc[p].q
             r == RowOf(q)
  <2>1. q \in Requested /\ proc[p].pc = "insert"
    BY <1>0, <1>9, LocalFields DEF CreateInsert
  <2>2. r \in Row
    BY <2>1, RequestedAssumption DEF RowOf, Row, Request, BookingStatus
  <2>3. /\ r.start = q.start /\ r.end = q.end /\ r.date = q.date /\ r.booth = q.booth
        /\ ~r.walkIn
    BY DEF RowOf
  <2>4. RowSound(r)
    BY <2>1, <2>3, RequestedSound DEF RowSound, WellDated
  <2>5. End(p) /\ rows' = Append(rows, r)
    BY <1>9 DEF CreateInsert
  <2>6. ASSUME NEW i \in Ids, LiveIn(rows[i]), rows[i].booth = r.booth, InDay(rows[i])
        PROVE  ~Overlap(rows[i], r) /\ ~Overlap(r, rows[i])
    <3>1. ~Overlap(q, rows[i])
      BY <1>0, <2>1, <2>3, <2>6 DEF Clear, Ids
    <3> QED
      BY <2>3, <3>1 DEF Overlap
  <2>7. \A i \in Ids : rows[i].kind = "EXAM" => InDay(rows[i])
    BY <1>0, ExamInDay
  <2> HIDE DEF r
  <2> QED
    BY <2>1, <2>2, <2>4, <2>5, <2>6, <2>7, Inserts
<1> QED
  BY <1>3, <1>4, <1>5, <1>6, <1>7, <1>8, <1>9 DEF CreateStep

LEMMA StatusExams ==
  ASSUME Alone, TypeOK, ExamInv, NEW p \in Process, StatusStep(p)
  PROVE  ExamInv'
<1>1. ASSUME NEW i \in Ids, NEW to \in BookingStatus, StatusRead(p, i, to) PROVE ExamInv'
  <2> DEFINE next == [pc |-> "write", row |-> i, to |-> to]
  <2>1. Goto(p, next) /\ UNCHANGED rows /\ next.pc = "write" /\ next.row = i /\ next.to = to
    BY <1>1 DEF StatusRead
  <2>2. to \in Live => IsLive(i)
    BY <1>1 DEF StatusRead, Intended, Live, IsLive
  <2> HIDE DEF next
  <2> QED
    BY <2>1, <2>2, RowsFade, ClearAtOnce, GoesOn
<1>2. CASE StatusWrite(p)
  <2> DEFINE i == proc[p].row
             to == proc[p].to
  <2>1. i \in Ids /\ to \in BookingStatus /\ proc[p].pc = "write"
    BY <1>2, TypeParts, LocalFields DEF StatusWrite, ProcOK, Refers
  <2>2. rows' = [rows EXCEPT ![i] = [@ EXCEPT !.status = to]] /\ End(p)
    BY <1>2 DEF StatusWrite
  <2> HIDE DEF i, to
  <2>3. /\ Ids' = Ids /\ rows'[i].status = to
        /\ \A j \in Ids : j # i => rows'[j] = rows[j]
        /\ \A j \in Ids : /\ rows'[j].booth = rows[j].booth
                          /\ rows'[j].kind = rows[j].kind /\ rows'[j].start = rows[j].start
                          /\ rows'[j].end = rows[j].end /\ rows'[j].date = rows[j].date
                          /\ rows'[j].walkIn = rows[j].walkIn
    BY <2>1, <2>2, TypeParts, StatusRows
  <2>4. proc'[p] = Idle /\ \A s \in Process : s = p
    BY <2>2, TypeParts DEF End, Goto, ProcOK, Alone
  <2>5. \A s \in Process : Clear(proc'[s], rows')
    BY <2>4, ClearIdle
  <2>6. \A j : ~Pending(j)'
    BY <2>4 DEF Pending, Idle
  <2>7. to \in Live => Pending(i)
    BY <2>1 DEF Pending, i, to
  <2>8. \A j \in Ids : Standing(j)' => Standing(j)
    BY <2>3, <2>6, <2>7 DEF Standing, IsLive
  <2>9. RowsSound'
    <3>1. \A j \in Ids : RowSound(rows[j]) => RowSound(rows'[j])
      BY <2>3 DEF RowSound, WellDated
    <3> QED
      BY <2>3, <3>1 DEF RowsSound, ExamInv
  <2>10. ASSUME NEW j \in Ids, NEW k \in Ids, j # k, Standing(j)', Standing(k)',
                rows'[j].booth = rows'[k].booth, InDay(rows'[j]), rows'[k].kind = "EXAM"
         PROVE  ~Overlap(rows'[j], rows'[k])
    <3>1. /\ rows[j].booth = rows[k].booth /\ InDay(rows[j]) /\ rows[k].kind = "EXAM"
          /\ Standing(j) /\ Standing(k)
      BY <2>3, <2>8, <2>10 DEF InDay
    <3>2. ~Overlap(rows[j], rows[k])
      BY <2>10, <3>1 DEF ExamInv, ExamsApart
    <3> QED
      BY <2>3, <3>2 DEF Overlap
  <2>11. ExamsApart'
    BY <2>3, <2>10 DEF ExamsApart
  <2> QED
    BY <2>5, <2>9, <2>11 DEF ExamInv
<1> QED
  BY <1>1, <1>2 DEF StatusStep

\* A walk-in that goes on without looking at the EXAMs of its booth, or stops.
LEMMA WalksOn ==
  ASSUME Alone, TypeOK, ExamInv, NEW p \in Process, NEW next, Goto(p, next), UNCHANGED rows,
         \/ next.pc \in {"idle", "upcoming", "standing", "present"}
         \/ next.pc = "next" /\ ~next.marked
  PROVE  ExamInv'
<1>1. Clear(next, rows')
  BY DEF Clear
<1> QED
  BY <1>1, RowsFade, GoesOn

\* The walk-in ends before an EXAM of its booth begins.
LEMMA EnterExams ==
  ASSUME Alone, TypeOK, ExamInv, NEW p \in Process, NEW end \in Int, Enter(p, end),
         proc[p].at < end,
         \A i \in ExamsOf(proc[p].booth, proc[p].at) : end <= rows[i].start
  PROVE  ExamInv'
<1> DEFINE w == proc[p]
           next == [pc |-> "enter", who |-> w.who, booth |-> w.booth, at |-> w.at, end |-> end]
<1>1. UNCHANGED rows /\ (Goto(p, next) \/ Goto(p, Idle))
  BY DEF Enter, End
<1>2. /\ next.pc = "enter" /\ next.booth = w.booth /\ next.at = w.at /\ next.end = end
      /\ Idle.pc = "idle"
  BY DEF Idle
<1> HIDE DEF next
<1>3. ASSUME Goto(p, Idle) PROVE ExamInv'
  BY <1>1, <1>2, <1>3, WalksOn
<1>4. ASSUME NEW i \in Ids, ExamAt(rows, i, w.booth), rows[i].start < end, w.at < rows[i].end
      PROVE  FALSE
  <2>1. rows[i].end \in Nat /\ rows[i].start \in Nat /\ w.at \in Nat
    BY TypeParts, RowTypes, LocalFields DEF ProcOK, Enter
  <2>2. i \in ExamsOf(w.booth, w.at)
    BY <1>4, <2>1 DEF ExamsOf, ExamAt, LiveIn, IsLive
  <2>3. end <= rows[i].start
    BY <2>2
  <2>4. w.at < end
    OBVIOUS
  <2> QED
    BY <1>4, <2>1, <2>3, <2>4
<1>5. Clear(next, rows')
  <2>1. w.at < end
    OBVIOUS
  <2> QED
    BY <1>1, <1>2, <1>4, <2>1 DEF Clear, Ids
<1>6. ASSUME Goto(p, next) PROVE ExamInv'
  BY <1>1, <1>2, <1>5, <1>6, RowsFade, GoesOn
<1> QED
  BY <1>1, <1>3, <1>6

LEMMA WalkInExams ==
  ASSUME Alone, AllWellDated, TypeOK, ExamInv, NEW p \in Process, WalkInStep(p)
  PROVE  ExamInv'
<1> DEFINE w == proc[p]
<1>0. /\ w \in Local /\ Clear(w, rows) /\ RowsOK /\ RowsSound /\ DOMAIN rows = Ids
      /\ Grace \in Nat /\ ForceBefore \in Nat /\ WalkInLength \in Nat \ {0}
  BY TypeParts, LengthsAssumption, SlotLengthsAssumption DEF ProcOK, ExamInv, Ids
<1>1. ASSUME NEW v \in WalkIns, WalkInWindow(p, v[1], v[2]) PROVE ExamInv'
  <2> DEFINE next == [pc |-> "upcoming", who |-> v[1], booth |-> v[2], at |-> now]
  <2>1. Goto(p, next) /\ UNCHANGED rows /\ next.pc = "upcoming"
    BY <1>1 DEF WalkInWindow
  <2> HIDE DEF next
  <2> QED
    BY <2>1, WalksOn
<1>2. CASE WalkInUpcoming(p)
  <2> DEFINE next == [pc |-> "standing", who |-> w.who, booth |-> w.booth, at |-> w.at]
  <2>1. Goto(p, next) /\ UNCHANGED rows /\ next.pc = "standing"
    BY <1>2 DEF WalkInUpcoming
  <2> HIDE DEF next
  <2> QED
    BY <2>1, WalksOn
<1>3. CASE WalkInBooth(p)
  <2> DEFINE next == [pc |-> "present", who |-> w.who, booth |-> w.booth, at |-> now]
  <2>1. Goto(p, next) /\ UNCHANGED rows /\ next.pc = "present"
    BY <1>3 DEF WalkInBooth
  <2> HIDE DEF next
  <2> QED
    BY <2>1, WalksOn
<1>4. CASE WalkInPresent(p)
  <2>1. PICK fresh \in BOOLEAN :
          /\ Goto(p, [pc |-> "next", who |-> w.who, booth |-> w.booth, at |-> w.at,
                      fresh |-> fresh, marked |-> FALSE])
          /\ UNCHANGED rows
    BY <1>4 DEF WalkInPresent
  <2> DEFINE next == [pc |-> "next", who |-> w.who, booth |-> w.booth, at |-> w.at,
                      fresh |-> fresh, marked |-> FALSE]
  <2>2. Goto(p, next) /\ next.pc = "next" /\ ~next.marked
    BY <2>1
  <2> HIDE DEF next
  <2> QED
    BY <2>1, <2>2, WalksOn
<1>5. ASSUME NEW i \in Ids, WalkInFindMissed(p, i) PROVE ExamInv'
  <2> DEFINE next == [pc |-> "mark", who |-> w.who, booth |-> w.booth, at |-> w.at,
                      fresh |-> w.fresh, row |-> i]
  <2>1. /\ Goto(p, next) /\ UNCHANGED rows /\ next.pc = "mark" /\ next.row = i
        /\ next.booth = w.booth /\ next.at = w.at
        /\ w.pc = "next" /\ IsNextExam(i, w.booth, w.at)
        /\ rows[i].status = "CONFIRM" /\ rows[i].start + Grace <= w.at
    BY <1>5 DEF WalkInFindMissed
  <2> HIDE DEF next
  <2>2. w.at \in Nat /\ rows[i].start \in Nat /\ rows[i].end \in Nat
    BY <1>0, <2>1, RowTypes, LocalFields
  <2>3. ASSUME NEW k \in Ids, ExamAt(rows, k, w.booth), w.at <= rows[k].end, k # i
        PROVE  w.at <= rows[k].start
    <3>1. k \in ExamsOf(w.booth, w.at)
      BY <2>3 DEF ExamsOf, ExamAt, LiveIn, IsLive
    <3>2. rows[i].start <= rows[k].start
      BY <2>1, <3>1 DEF IsNextExam
    <3>3. /\ rows[i].booth = w.booth /\ rows[i].kind = "EXAM" /\ IsLive(i) /\ IsLive(k)
          /\ rows[k].booth = w.booth /\ rows[k].kind = "EXAM" /\ w.at <= rows[i].end
      BY <2>1, <3>1 DEF IsNextExam, ExamsOf
    <3>4. ~Overlap(rows[i], rows[k])
      <4>1. InDay(rows[i])
        BY <1>0, <3>3, ExamInDay
      <4> QED
        BY <2>3, <3>3, <4>1 DEF ExamInv, ExamsApart, Standing
    <3>5. rows[k].start \in Nat /\ rows[k].end \in Nat /\ rows[k].start < rows[k].end
      BY <1>0, RowTypes DEF RowsSound, RowSound
    <3> QED
      BY <2>2, <3>2, <3>3, <3>4, <3>5 DEF Overlap
  <2>4. Clear(next, rows')
    BY <1>0, <2>1, <2>3 DEF Clear
  <2> QED
    BY <2>1, <2>4, RowsFade, GoesOn
<1>6. CASE WalkInMark(p)
  <2> DEFINE i == w.row
             to == IF rows[i].status = "CONFIRM" THEN "ABSENT" ELSE rows[i].status
             next == [pc |-> "next", who |-> w.who, booth |-> w.booth, at |-> w.at,
                      fresh |-> w.fresh, marked |-> TRUE]
  <2>1. i \in Ids /\ w.pc = "mark" /\ rows' = [rows EXCEPT ![i] = [@ EXCEPT !.status = to]]
    BY <1>6, TypeParts DEF WalkInMark, ProcOK, Refers
  <2>2. /\ Goto(p, next) /\ next.pc = "next" /\ next.booth = w.booth /\ next.at = w.at
    BY <1>6 DEF WalkInMark
  <2>3. to \in BookingStatus /\ to \notin Live
    <3>1. rows[i].status \in BookingStatus /\ rows[i].status # "CHECKED_IN"
      BY <1>0, <2>1, RowTypes DEF Clear
    <3> QED
      BY <3>1 DEF BookingStatus, Live
  <2> HIDE DEF to, i, next
  <2>4. /\ Ids' = Ids /\ rows'[i].status = to
        /\ \A j \in Ids : j # i => rows'[j] = rows[j]
        /\ \A j \in Ids : /\ rows'[j].booth = rows[j].booth
                          /\ rows'[j].kind = rows[j].kind /\ rows'[j].start = rows[j].start
                          /\ rows'[j].end = rows[j].end /\ rows'[j].date = rows[j].date
                          /\ rows'[j].walkIn = rows[j].walkIn
    BY <1>0, <2>1, <2>3, StatusRows
  <2>5. Fades
    BY <2>3, <2>4 DEF Fades, LiveIn, Live
  <2>6. ASSUME NEW k \in Ids, ExamAt(rows', k, w.booth), w.at <= rows'[k].end
        PROVE  w.at <= rows'[k].start
    <3>1. k # i
      BY <2>3, <2>4, <2>6 DEF ExamAt, LiveIn
    <3>2. rows'[k] = rows[k] /\ ExamAt(rows, k, w.booth)
      BY <2>4, <2>6, <3>1 DEF ExamAt
    <3> QED
      BY <1>0, <2>1, <2>6, <3>1, <3>2 DEF Clear, i
  <2>7. DOMAIN rows' = Ids
    BY <2>4 DEF Ids
  <2>8. Clear(next, rows')
    BY <2>2, <2>6, <2>7 DEF Clear
  <2> QED
    BY <2>2, <2>5, <2>8, GoesOn
<1>7. CASE WalkInFree(p)
  <2>1. w.at \in Nat
    BY <1>0, <1>7, LocalFields DEF WalkInFree, Enter
  <2>2. w.at < w.at + WalkInLength /\ w.at + WalkInLength \in Int
    BY <1>0, <2>1
  <2> QED
    BY <1>7, <2>2, EnterExams DEF WalkInFree
<1>8. ASSUME NEW i \in Ids, WalkInBefore(p, i) PROVE ExamInv'
  <2>1. /\ Enter(p, rows[i].start - ForceBefore) /\ IsNextExam(i, w.booth, w.at)
        /\ w.at < rows[i].start - ForceBefore
    BY <1>8 DEF WalkInBefore
  <2>2. ASSUME NEW k \in ExamsOf(w.booth, w.at) PROVE rows[i].start - ForceBefore <= rows[k].start
    <3>1. rows[i].start <= rows[k].start /\ k \in Ids
      BY <2>1 DEF IsNextExam, ExamsOf
    <3>2. rows[i].start \in Nat /\ rows[k].start \in Nat
      BY <1>0, <3>1, RowTypes
    <3> QED
      BY <1>0, <3>1, <3>2
  <2>3. rows[i].start - ForceBefore \in Int
    BY <1>0, RowTypes
  <2> QED
    BY <2>1, <2>2, <2>3, EnterExams
<1>9. ASSUME NEW i \in Ids, WalkInAfter(p, i) PROVE FALSE
  <2>1. /\ w.pc = "next" /\ w.marked /\ i \in ExamsOf(w.booth, w.at)
        /\ rows[i].start + Grace < w.at
    BY <1>9 DEF WalkInAfter, Enter, IsNextExam
  <2>2. w.at <= rows[i].start
    BY <1>0, <2>1 DEF Clear, ExamsOf, ExamAt, LiveIn, IsLive
  <2>3. w.at \in Nat /\ rows[i].start \in Nat
    BY <1>0, <2>1, RowTypes, LocalFields
  <2> QED
    BY <1>0, <2>1, <2>2, <2>3
<1>10. CASE WalkInInsert(p)
  <2> DEFINE r == [who |-> w.who, booth |-> w.booth, kind |-> "PRACTICE", start |-> w.at,
                   end |-> w.end, date |-> DayOf(w.at), status |-> "CHECKED_IN", walkIn |-> TRUE]
  <2>1. /\ w.who \in Student /\ w.booth \in Booth /\ w.at \in Nat /\ w.end \in Nat
        /\ w.pc = "enter" /\ w.at < w.end
    BY <1>0, <1>10, LocalFields DEF WalkInInsert, Clear
  <2>2. DayOf(w.at) \in Nat /\ DayOf(w.at) * Day <= w.at
    <3>1. \A a \in Nat, d \in Nat \ {0} : a \div d \in Nat /\ (a \div d) * d <= a
      OBVIOUS
    <3> QED
      BY <2>1, <3>1, SlotLengthsAssumption DEF DayOf
  <2>3. r \in Row /\ RowSound(r)
    BY <2>1, <2>2 DEF Row, BookingStatus, Kind, RowSound
  <2>4. End(p) /\ rows' = Append(rows, r)
    BY <1>10 DEF WalkInInsert
  <2>5. r.kind # "EXAM" /\ r.booth = w.booth /\ r.start = w.at /\ r.end = w.end
    OBVIOUS
  <2> HIDE DEF r
  <2>6. ASSUME NEW i \in Ids, LiveIn(rows[i]), rows[i].booth = r.booth, rows[i].kind = "EXAM"
        PROVE  ~Overlap(r, rows[i])
    BY <1>0, <2>1, <2>5, <2>6 DEF Clear, ExamAt, Overlap
  <2> QED
    BY <2>1, <2>3, <2>4, <2>5, <2>6, Inserts
<1> QED
  BY <1>1, <1>2, <1>3, <1>4, <1>5, <1>6, <1>7, <1>8, <1>9, <1>10 DEF WalkInStep

LEMMA TransferExams ==
  ASSUME Alone, TypeOK, MovesApart, ExamInv, NEW p \in Process, TransferStep(p)
  PROVE  ExamInv'
<1> DEFINE l == proc[p]
<1>0. l \in Local /\ Clear(l, rows) /\ DOMAIN rows = Ids
  BY TypeParts DEF ProcOK, ExamInv, Ids
<1>1. ASSUME NEW from, NEW to, NEW chosen, TransferRead(p, from, to, chosen) PROVE ExamInv'
  <2> DEFINE next == Transfer(from, to, now, chosen, {}, {})
  <2>1. /\ Goto(p, next) /\ UNCHANGED rows /\ next.pc = "transfer" /\ next.moved = {}
        /\ next.from = from /\ next.to = to /\ from # to
    BY <1>1 DEF TransferRead, Transfer
  <2> HIDE DEF next
  <2>2. Clear(next, rows')
    BY <2>1 DEF Clear
  <2> QED
    BY <2>1, <2>2, RowsFade, GoesOn
<1>2. ASSUME NEW i \in Ids, Looks(p, i) PROVE ExamInv'
  <2>1. \E moved \in SUBSET {i} : \E dropped \in SUBSET {i} :
          /\ l.pc = "transfer" /\ Goto(p, Looked(l, i, moved, dropped)) /\ UNCHANGED rows
          /\ moved = {} \/ (rows[i].booth = l.from /\ ~TransferConflict(p, i))
    BY <1>2 DEF Looks, TransferMove, TransferDrop, TransferSkip, Transferable
  <2>2. PICK moved \in SUBSET {i}, dropped \in SUBSET {i} :
          /\ l.pc = "transfer" /\ Goto(p, Looked(l, i, moved, dropped)) /\ UNCHANGED rows
          /\ moved = {} \/ (rows[i].booth = l.from /\ ~TransferConflict(p, i))
    BY <2>1
  <2> DEFINE next == Looked(l, i, moved, dropped)
  <2>3. /\ Goto(p, next) /\ next.pc = "transfer" /\ next.moved = l.moved \cup moved
        /\ next.from = l.from /\ next.to = l.to
    BY <2>2 DEF Looked, Transfer
  <2> HIDE DEF next
  <2>4. ASSUME NEW k \in next.moved
        PROVE  /\ rows[k].booth = l.from
               /\ \A j \in Ids : rows[j].booth = l.to /\ LiveIn(rows[j])
                                   => ~Overlap(rows[k], rows[j])
    <3>1. CASE k \in l.moved
      BY <1>0, <2>2, <3>1 DEF Clear
    <3>2. CASE k \in moved
      BY <2>2, <3>2 DEF TransferConflict, IsLive, LiveIn
    <3> QED
      BY <2>3, <2>4, <3>1, <3>2
  <2>5. l.from # l.to
    BY <1>0, <2>2 DEF Clear
  <2>6. Clear(next, rows')
    BY <1>0, <2>2, <2>3, <2>4, <2>5 DEF Clear
  <2> QED
    BY <2>2, <2>3, <2>6, RowsFade, GoesOn
<1>3. CASE TransferCommit(p)
  <2> DEFINE moved == l.moved
  <2>1. l.pc = "transfer" /\ End(p) /\ moved \subseteq Ids
    BY <1>3, TypeParts DEF TransferCommit, ProcOK, Refers
  <2>2. /\ Ids' = Ids
        /\ \A i \in Ids :
             /\ rows'[i].kind = rows[i].kind
             /\ rows'[i].start = rows[i].start /\ rows'[i].end = rows[i].end
             /\ rows'[i].date = rows[i].date /\ rows'[i].walkIn = rows[i].walkIn
             /\ rows'[i].booth = IF i \in moved THEN l.to ELSE rows[i].booth
             /\ i \notin l.dropped \/ i \in moved => rows'[i].status = rows[i].status
             /\ i \in l.dropped \ moved => rows'[i].status = "CANCEL"
    BY <1>3, CommitRows
  <2>3. proc'[p] = Idle /\ \A s \in Process : s = p
    BY <2>1, TypeParts DEF End, Goto, ProcOK, Alone
  <2>4. \A s \in Process : Clear(proc'[s], rows')
    BY <2>3, ClearIdle
  <2>5. \A i : ~Pending(i)'
    BY <2>3 DEF Pending, Idle
  <2>6. ASSUME NEW i \in Ids, Standing(i)' PROVE LiveIn(rows[i]) /\ Standing(i)
    <3>1. LiveIn(rows'[i])
      BY <2>5, <2>6 DEF Standing, IsLive, LiveIn
    <3>2. LiveIn(rows[i])
      BY <2>2, <3>1 DEF LiveIn, Live
    <3> QED
      BY <3>2 DEF Standing, IsLive, LiveIn
  <2>7. RowsSound'
    <3>1. \A i \in Ids : RowSound(rows[i]) => RowSound(rows'[i])
      BY <2>2 DEF RowSound, WellDated
    <3> QED
      BY <2>2, <3>1 DEF RowsSound, ExamInv
  <2>8. ASSUME NEW i \in moved, NEW j \in Ids, rows[j].booth = l.to, LiveIn(rows[j])
        PROVE  ~Overlap(rows[i], rows[j]) /\ ~Overlap(rows[j], rows[i])
    <3>1. ~Overlap(rows[i], rows[j])
      BY <1>0, <2>1, <2>8 DEF Clear
    <3> QED
      BY <3>1 DEF Overlap
  <2>9. ASSUME NEW i \in Ids, NEW j \in Ids, i # j, Standing(i)', Standing(j)',
               rows'[i].booth = rows'[j].booth, InDay(rows'[i]), rows'[j].kind = "EXAM"
        PROVE  ~Overlap(rows'[i], rows'[j])
    <3>1. /\ LiveIn(rows[i]) /\ LiveIn(rows[j]) /\ Standing(i) /\ Standing(j)
          /\ InDay(rows[i]) /\ rows[j].kind = "EXAM"
      BY <2>2, <2>6, <2>9 DEF InDay
    <3>2. ASSUME i \in moved, j \in moved PROVE ~Overlap(rows[i], rows[j])
      BY <2>1, <2>9, <3>2 DEF MovesApart
    <3>3. ASSUME i \in moved, j \notin moved PROVE ~Overlap(rows[i], rows[j])
      BY <2>2, <2>8, <2>9, <3>1, <3>3
    <3>4. ASSUME i \notin moved, j \in moved PROVE ~Overlap(rows[i], rows[j])
      BY <2>2, <2>8, <2>9, <3>1, <3>4
    <3>5. ASSUME i \notin moved, j \notin moved PROVE ~Overlap(rows[i], rows[j])
      BY <2>2, <2>9, <3>1, <3>5 DEF ExamInv, ExamsApart
    <3>6. ~Overlap(rows[i], rows[j])
      BY <3>2, <3>3, <3>4, <3>5
    <3> QED
      BY <2>2, <3>6 DEF Overlap
  <2>10. ExamsApart'
    BY <2>2, <2>9 DEF ExamsApart
  <2> QED
    BY <2>4, <2>7, <2>10 DEF ExamInv
<1> QED
  BY <1>1, <1>2, <1>3 DEF TransferStep, Looks

LEMMA SettleFades ==
  ASSUME TypeOK, NEW i \in Ids, Settle(i)
  PROVE  Fades
<1>1. PICK to \in {"COMPLETED", "ABSENT"} : rows' = [rows EXCEPT ![i] = [@ EXCEPT !.status = to]]
  BY DEF Settle
<1>2. to \in BookingStatus /\ to \notin Live /\ to # "CHECKED_IN"
  BY DEF BookingStatus, Live
<1>3. /\ Ids' = Ids /\ rows'[i].status = to
      /\ \A j \in Ids : j # i => rows'[j] = rows[j]
      /\ \A j \in Ids : /\ rows'[j].booth = rows[j].booth
                        /\ rows'[j].kind = rows[j].kind /\ rows'[j].start = rows[j].start
                        /\ rows'[j].end = rows[j].end /\ rows'[j].date = rows[j].date
                        /\ rows'[j].walkIn = rows[j].walkIn
  BY <1>1, <1>2, TypeParts, StatusRows
<1> QED
  BY <1>2, <1>3 DEF Fades, LiveIn

LEMMA NextExamInv ==
  ASSUME Alone, AllWellDated, TypeOK, MovesApart, ExamInv, [Next]_vars
  PROVE  ExamInv'
<1>1. ASSUME NEW p \in Process, Fail(p) PROVE ExamInv'
  <2>1. Goto(p, Idle) /\ UNCHANGED rows /\ Idle.pc = "idle"
    BY <1>1 DEF Fail, End, Idle
  <2> QED
    BY <2>1, RowsFade, ClearIdle, GoesOn
<1>2. ASSUME NEW i \in Ids, Settle(i) PROVE ExamInv'
  <2>1. UNCHANGED proc
    BY <1>2 DEF Settle
  <2> QED
    BY <1>2, <2>1, SettleFades, Rests
<1>3. ASSUME \/ \E k \in Failing : BoothStatusChange(k)
             \/ Tick
             \/ UNCHANGED vars
      PROVE  ExamInv'
  <2>1. UNCHANGED <<rows, proc>>
    BY <1>3 DEF BoothStatusChange, Tick, vars
  <2> QED
    BY <2>1, RowsFade, Rests
<1> QED
  BY <1>1, <1>2, <1>3, CreateExams, StatusExams, WalkInExams, TransferExams DEF Next

(***************************************************************************)
(* createWalkInPracticeForBoothLogin, create and the transfer: when        *)
(* handlers run one after the other and requests name the date of their    *)
(* times, no walk-in that ends on its date overlaps an EXAM of its booth,  *)
(* whatever the job settles between two queries and wherever bookings are  *)
(* moved (ExamsUndisturbed).  That EXAMs of a booth do not overlap each    *)
(* other is part of the argument: when one has been marked as missed, no   *)
(* other has begun.                                                        *)
(***************************************************************************)
THEOREM SlotsExamsUndisturbed ==
  ASSUME AllWellDated, Cardinality(Process) = 1
  PROVE  Spec => []ExamsUndisturbed
<1>1. Alone
  <2>1. \E x : Process = {x}
    BY FiniteAssumption, FS_Singleton
  <2> QED
    BY <2>1 DEF Alone
<1> DEFINE Inv == TypeOK /\ RowsDated /\ MovesApart /\ ExamInv
<1>2. Init => Inv
  <2> SUFFICES ASSUME Init PROVE Inv
    OBVIOUS
  <2>1. Ids = {} /\ \A p \in Process : proc[p] = Idle
    BY DEF Init, Ids
  <2>2. RowsDated /\ MovesApart /\ RowsSound /\ ExamsApart
    BY <2>1 DEF RowsDated, MovesApart, RowsSound, ExamsApart, Idle
  <2> QED
    BY <2>1, <2>2, InitTypeOK, ClearIdle DEF ExamInv
<1>3. Inv /\ [Next]_vars => Inv'
  <2> SUFFICES ASSUME Inv, [Next]_vars PROVE Inv'
    OBVIOUS
  <2>1. TypeOK' /\ RowsKept /\ RowsDated'
    BY NextTypeOK, StepKeeps
  <2>2. MovesApart'
    BY <2>1, StepApart
  <2> QED
    BY <1>1, <2>1, <2>2, NextExamInv
<1>4. Inv => ExamsUndisturbed
  <2> SUFFICES ASSUME Inv, NEW i \in Ids, NEW j \in Ids,
                      rows[i].walkIn, IsLive(i), EndsThatDay(i), rows[j].kind = "EXAM", IsLive(j),
                      rows[i].booth = rows[j].booth, Overlap(rows[i], rows[j])
               PROVE  FALSE
    BY DEF ExamsUndisturbed
  <2>1. i # j
    BY ExamInDay DEF ExamInv
  <2> QED
    BY <2>1 DEF ExamInv, ExamsApart, Standing, InDay, EndsThatDay
<1> HIDE DEF Inv
<1> QED
  BY <1>2, <1>3, <1>4, PTL DEF Spec

=============================================================================
