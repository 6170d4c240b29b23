--------------------------- MODULE BookingsProofs ---------------------------
(***************************************************************************)
(* What holds of the bookings, customers and audit log of a tenant for any *)
(* number of requests, whatever they are asked to do and wherever they     *)
(* fail: rows, entries and customers come together, no update is lost, and *)
(* the log says what was replaced unless two requests met.                 *)
(***************************************************************************)
EXTENDS Bookings, FiniteSetTheorems, SequenceTheorems, WellFoundedInduction, TLAPS

Inserts(r) == op[r].kind \in {"create", "portal"}
Changes(r) == op[r].kind \in {"patch", "cancel"}
Writes(r)  == op[r].kind \in {"create", "portal", "patch"}

\* The statements of each handler, in their order.
Path == [create   |-> {"write", "audit", "commit"},
         portal   |-> {"match", "person", "write", "audit", "commit"},
         patch    |-> {"select", "write", "audit", "commit"},
         cancel   |-> {"write", "commit"},
         customer |-> {"person", "commit"}]

\* What a request has behind it when it waits for a statement.
Underway(r) ==
    /\ op[r] \in Ops /\ pc[r] \in Path[op[r].kind] /\ answer[r] = "none"
    /\ tx[r].row # NoRow => pc[r] \in {"audit", "commit"} /\ op[r].kind # "customer"
    /\ pc[r] = "audit" => tx[r].row # NoRow
    /\ pc[r] = "commit" /\ Inserts(r) => tx[r].row # NoRow
    /\ op[r].kind # "patch" => tx[r].before = NoRow
    /\ op[r].kind = "patch" /\ (pc[r] \in {"write", "audit"} \/ tx[r].row # NoRow) => tx[r].before # NoRow
    /\ tx[r].entry = IF pc[r] = "commit" /\ Writes(r) /\ tx[r].row # NoRow THEN AuditEntry(r) ELSE NoRow
    /\ Inserts(r) /\ tx[r].row # NoRow => tx[r].row.customer = tx[r].customer
    /\ Inserts(r) /\ pc[r] \in {"write", "audit", "commit"} => tx[r].customer \in Ids

\* Which requests there are, and which of them met.
Requested ==
    \A r \in Requests :
        /\ pc[r] = "new" => op[r] = NoRow /\ answer[r] = "none" /\ overlaps[r] = {}
        /\ r \in Running => Underway(r)
        /\ pc[r] = "done" => (op[r] = NoRow) = (answer[r] = "invalid")
        /\ \A s \in Requests :
              /\ s \in overlaps[r] => r \in overlaps[s] /\ op[s] # NoRow
              /\ r # s /\ r \in Running /\ s \in Running => s \in overlaps[r]

\* A row that is changed is locked, and is what the UPDATE made of it; a row
\* that was read stays.
Locked ==
    /\ \A r \in Running : tx[r].before # NoRow => bookings[Target(r)] # NoRow
    /\ \A b \in Ids : lock[b] # NoRow =>
          /\ lock[b] \in Running /\ Changes(lock[b]) /\ Target(lock[b]) = b
          /\ tx[lock[b]].row # NoRow
    /\ \A r \in Running : Changes(r) /\ tx[r].row # NoRow =>
          /\ lock[Target(r)] = r
          /\ bookings[Target(r)] # NoRow
          /\ tx[r].row = IF op[r].kind = "patch" THEN Patched(bookings[Target(r)], op[r])
                         ELSE Cancelled(bookings[Target(r)])

\* Only a committed request has put a row where there was none.
Committed(r) == r \in Requests /\ pc[r] = "done" /\ op[r] \in Ops
Inserted ==
    /\ \A b \in Ids : bookings[b] # NoRow => b \in Seeds \/ (Committed(b) /\ Inserts(b))
    /\ \A c \in Ids : customers[c] # NoRow =>
          c \in Seeds \/ (Committed(c) /\ op[c].kind \in {"portal", "customer"} /\ customers[c] = op[c].email)
    /\ \A c \in Seeds : customers[c] # NoRow

Logged(r) == \E i \in DOMAIN audit : audit[i].id = r

\* All of a transaction or nothing, for what is still to be decided as well.
Whole ==
    /\ \A i \in DOMAIN audit :
          \/ audit[i].id \in Seeds /\ audit[i].action = "CREATE"
          \/ Committed(audit[i].id) /\ Writes(audit[i].id)
    /\ \A r \in Requests : op[r] # NoRow =>
          /\ Inserts(r) => (bookings[r] # NoRow <=> Logged(r))
          /\ op[r].kind = "portal" /\ customers[r] # NoRow => bookings[r] # NoRow
          /\ Inserts(r) /\ answer[r] = "created" => Logged(r)
          /\ op[r].kind = "patch" /\ answer[r] = "updated" => Logged(r)

\* i is the last committed of the entries of b in the log, among those before n.
LastEntry(log, i, b, n) ==
    /\ i \in DOMAIN log /\ i < n /\ log[i].booking = b
    /\ \A j \in DOMAIN log : j < n /\ log[j].booking = b => j <= i
Reported(log, b, n, row) == \E i \in DOMAIN log : LastEntry(log, i, b, n) /\ Explains(log[i], row)

Explained == \A b \in Ids : bookings[b] # NoRow => Reported(audit, b, Len(audit) + 1, bookings[b])

\* Another request was changing the booking.
Disturbed(r, b) == \E s \in overlaps[r] : Changes(s) /\ op[s].booking = b

\* The row a PATCH has read is the one its entry replaces, from the SELECT on.
OldKnown ==
    /\ \A r \in Running : tx[r].before # NoRow =>
          \/ Reported(audit, Target(r), Len(audit) + 1, tx[r].before)
          \/ Disturbed(r, Target(r))
    /\ \A i \in DOMAIN audit : audit[i].action = "UPDATE" =>
          \/ Reported(audit, audit[i].booking, i, audit[i].old)
          \/ Disturbed(audit[i].id, audit[i].booking)

\* The customer of a portal booking, from the SELECT on.
Person(r, c) ==
    /\ customers[c] # NoRow
    /\ IF op[r].email = NoEmail THEN customers[c] = NoEmail
                                ELSE SameAddress(customers[c], op[r].email)
Found(r) ==
    /\ op[r].kind = "portal" =>
          /\ pc[r] = "match" => op[r].email # NoEmail
          /\ pc[r] \in {"match", "person"} => tx[r].person = NoRow
          /\ pc[r] \in {"write", "audit", "commit"} =>
                \/ tx[r].customer = r /\ tx[r].person = op[r].email
                \/ tx[r].person = NoRow /\ tx[r].customer \in Ids /\ Person(r, tx[r].customer)
    /\ op[r].kind = "customer" /\ pc[r] = "commit" => tx[r].person = op[r].email
    /\ tx[r].person # NoRow => op[r].kind \in {"portal", "customer"} /\ pc[r] # "person"
CustomerFound == \A r \in Running : Found(r)

\* An address that is about to be added is somebody's only if that one came
\* while this one was looking.
Free(r) ==
    op[r].kind = "portal" /\ (pc[r] = "person" \/ tx[r].person # NoRow) =>
        \A c \in Ids \ {r} :
            customers[c] # NoRow /\ ByPortal(c) /\ SameAddress(op[r].email, customers[c]) => c \in overlaps[r]
AddressFree == \A r \in Running : Free(r)

\* Every transaction began at a time of its own.  What began after a request
\* that has not ended overlaps with it, so of two entries of one booking the one
\* committed first is also the older, unless the two requests met.
Timed ==
    /\ clock > 0
    /\ \A r \in Requests : op[r] # NoRow => 0 < tx[r].began /\ tx[r].began < clock
    /\ \A r \in Running : \A s \in Requests \ {r} :
          op[s] # NoRow /\ tx[s].began >= tx[r].began => s \in overlaps[r]
    /\ \A i \in DOMAIN audit :
          audit[i].created_at = IF audit[i].id \in Requests THEN tx[audit[i].id].began ELSE 0
    /\ \A i, j \in DOMAIN audit :
          i < j /\ audit[i].booking = audit[j].booking /\ audit[i].created_at >= audit[j].created_at
             => audit[i].id \in Requests /\ audit[j].id \in overlaps[audit[i].id]

Tables == Inserted /\ Whole /\ Explained

IInv == TypeOK /\ Requested /\ Locked /\ Timed /\ Tables /\ OldKnown /\ CustomerFound /\ AddressFree
        /\ PortalBookingHasCustomer /\ DuplicatesOnlyWhenConcurrent

-----------------------------------------------------------------------------
(* Operations, rows and entries. *)

Tx == [before : Row \cup {NoRow}, row : Row \cup {NoRow}, customer : Ids \cup {NoRow},
       person : MaybeEmail \cup {NoRow}, entry : Entry \cup {NoRow}, began : Nat]

LEMMA OpShape ==
    ASSUME NEW o \in Ops
    PROVE  /\ o # NoRow
           /\ o.kind \in {"create", "patch", "cancel", "portal", "customer"}
           /\ o.kind = "create" => o.customer \in Named /\ o.price \in MaybePrice
           /\ o.kind = "patch" => /\ o.booking \in Named /\ o.fields \subseteq Fields
                                  /\ o.status \in Statuses /\ o.price \in Prices
           /\ o.kind = "cancel" => o.booking \in Named
           /\ o.kind = "portal" => o.email \in MaybeEmail /\ o.price \in MaybePrice
           /\ o.kind = "customer" => o.email \in MaybeEmail
<1>1. o # NoRow
  BY NullAssumption
<1> QED
  BY <1>1 DEF Ops

LEMMA RowsStayRows ==
    ASSUME NEW row \in Row
    PROVE  /\ row # NoRow
           /\ Cancelled(row) \in Row /\ Cancelled(row).customer = row.customer
           /\ Cancelled(Cancelled(row)) = Cancelled(row)
           /\ \A o \in Ops : o.kind = "patch" =>
                 Patched(row, o) \in Row /\ Patched(row, o).customer = row.customer
<1>1. row # NoRow
  BY NullAssumption
<1>2. Cancelled(row) \in Row /\ Cancelled(row).customer = row.customer
      /\ Cancelled(Cancelled(row)) = Cancelled(row)
  BY BookingsAssumption DEF Cancelled, Row
<1>3. ASSUME NEW o \in Ops, o.kind = "patch"
      PROVE  Patched(row, o) \in Row /\ Patched(row, o).customer = row.customer
  <2>1. o.status \in Statuses /\ o.price \in MaybePrice
    BY <1>3, OpShape DEF MaybePrice
  <2> QED
    BY <2>1 DEF Patched, Row
<1> QED
  BY <1>1, <1>2, <1>3

LEMMA TargetIsId ==
    ASSUME TypeOK, NEW r \in Requests, op[r] \in Ops
    PROVE  Target(r) \in Ids /\ (~Changes(r) => Target(r) = r) /\ (Changes(r) => Target(r) = op[r].booking)
BY OpShape DEF TypeOK, Target, Changes, Ids

LEMMA SentinelsDiffer ==
    /\ NoRow \notin Row /\ NoRow \notin Entry /\ NoRow \notin Ops /\ NoRow \notin Ids
    /\ NoRow \notin MaybeEmail
BY NullAssumption, BookingsAssumption DEF Ids, MaybeEmail

-----------------------------------------------------------------------------
(* Steps. *)

\* A statement that the transaction goes on after.
Statement(r) ==
    \/ SelectBefore(r) \/ MatchCustomer(r) \/ InsertCustomer(r) \/ InsertBooking(r)
    \/ UpdateBooking(r) \/ CancelBooking(r) \/ InsertAudit(r)

Ends(r) == Commit(r) \/ CommitUnheard(r)

\* The other requests are where they were.
OthersStay(r) ==
    \A s \in Requests \ {r} :
        pc'[s] = pc[s] /\ tx'[s] = tx[s] /\ op'[s] = op[s] /\ answer'[s] = answer[s]

LEMMA NextSplit ==
    ASSUME Next
    PROVE  \/ \E r \in Requests : Refuse(r) \/ Statement(r) \/ Ends(r) \/ Abort(r)
           \/ \E r \in Requests, o \in Ops : Start(r, o)
           \/ UNCHANGED vars
BY DEF Next, Step, Statement, Ends, AllDone

LEMMA StatementFrame ==
    ASSUME TypeOK, NEW r \in Requests, Statement(r)
    PROVE  /\ r \in Running /\ Running' = Running /\ pc'[r] \in {"write", "person", "audit", "commit"}
           /\ OthersStay(r) /\ op' = op /\ answer' = answer
           /\ UNCHANGED <<bookings, customers, audit, clock, overlaps>> /\ tx'[r].began = tx[r].began
<1>1. /\ pc[r] \in {"select", "match", "person", "write", "audit"}
      /\ UNCHANGED <<op, answer, bookings, customers, audit, overlaps>>
  BY DEF Statement, SelectBefore, MatchCustomer, InsertCustomer, InsertBooking,
         UpdateBooking, CancelBooking, InsertAudit
<1>2. \E p \in {"write", "person", "audit", "commit"} : pc' = [pc EXCEPT ![r] = p]
  BY DEF Statement, SelectBefore, MatchCustomer, InsertCustomer, InsertBooking,
         UpdateBooking, CancelBooking, InsertAudit
<1>3. \E t : tx' = [tx EXCEPT ![r] = t]
  <2>1. CASE SelectBefore(r)
    BY <2>1 DEF SelectBefore
  <2>2. CASE MatchCustomer(r)
    <3>1. CASE UNCHANGED tx
      <4>1. tx' = [tx EXCEPT ![r] = tx[r]]
        BY <3>1 DEF TypeOK
      <4> QED
        BY <4>1
    <3> QED
      BY <2>2, <3>1 DEF MatchCustomer
  <2>3. CASE InsertCustomer(r)
    BY <2>3 DEF InsertCustomer
  <2>4. CASE InsertBooking(r)
    BY <2>4 DEF InsertBooking
  <2>5. CASE UpdateBooking(r)
    BY <2>5 DEF UpdateBooking
  <2>6. CASE CancelBooking(r)
    <3>1. CASE UNCHANGED tx
      <4>1. tx' = [tx EXCEPT ![r] = tx[r]]
        BY <3>1 DEF TypeOK
      <4> QED
        BY <4>1
    <3> QED
      BY <2>6, <3>1 DEF CancelBooking
  <2>7. CASE InsertAudit(r)
    BY <2>7 DEF InsertAudit
  <2> QED
    BY <2>1, <2>2, <2>3, <2>4, <2>5, <2>6, <2>7 DEF Statement
<1>4. \A s \in Requests \ {r} : pc'[s] = pc[s] /\ tx'[s] = tx[s]
  BY <1>2, <1>3 DEF TypeOK
<1>5. pc'[r] \in {"write", "person", "audit", "commit"}
  BY <1>2 DEF TypeOK
<1>7. clock' = clock
  BY DEF Statement, SelectBefore, MatchCustomer, InsertCustomer, InsertBooking,
         UpdateBooking, CancelBooking, InsertAudit
<1>8. tx'[r].began = tx[r].began
  <2>0. tx[r] \in Tx /\ DOMAIN tx = Requests
    BY DEF TypeOK, Tx
  <2>1. ASSUME SelectBefore(r) \/ CancelBooking(r) PROVE tx'[r].began = tx[r].began
    BY <2>0, <2>1 DEF SelectBefore, CancelBooking, Tx
  <2>2. ASSUME MatchCustomer(r) \/ InsertCustomer(r) PROVE tx'[r].began = tx[r].began
    BY <2>0, <2>2 DEF MatchCustomer, InsertCustomer, Tx
  <2>3. ASSUME InsertBooking(r) \/ UpdateBooking(r) PROVE tx'[r].began = tx[r].began
    BY <2>0, <2>3 DEF InsertBooking, UpdateBooking, Tx
  <2>4. ASSUME InsertAudit(r) PROVE tx'[r].began = tx[r].began
    BY <2>0, <2>4 DEF InsertAudit, Tx
  <2> QED
    BY <2>1, <2>2, <2>3, <2>4 DEF Statement
<1>6. \A s \in Requests : pc'[s] \in {"new", "done"} <=> pc[s] \in {"new", "done"}
  BY <1>1, <1>4, <1>5
<1> QED
  BY <1>1, <1>4, <1>5, <1>6, <1>7, <1>8 DEF Running, OthersStay

LEMMA EndFrame ==
    ASSUME TypeOK, NEW r \in Requests, Ends(r) \/ Abort(r)
    PROVE  /\ r \in Running /\ Running' = Running \ {r} /\ pc'[r] = "done"
           /\ OthersStay(r) /\ op' = op /\ tx' = tx /\ overlaps' = overlaps
           /\ lock' = Unlocked(r) /\ clock' = clock
<1>1. /\ r \in Running /\ pc' = [pc EXCEPT ![r] = "done"] /\ op' = op /\ tx' = tx /\ overlaps' = overlaps
      /\ lock' = Unlocked(r) /\ clock' = clock /\ \A s \in Requests \ {r} : answer'[s] = answer[s]
  BY DEF TypeOK, Ends, Commit, CommitUnheard, Install, Abort, Running
<1> QED
  BY <1>1 DEF TypeOK, Running, OthersStay

LEMMA StartFrame ==
    ASSUME TypeOK, NEW r \in Requests, NEW o \in Ops, Start(r, o)
    PROVE  /\ pc[r] = "new" /\ Running' = Running \cup {r} /\ r \notin Running
           /\ OthersStay(r) /\ op'[r] = o /\ answer' = answer
           /\ pc'[r] = First(o) /\ First(o) \in {"select", "write", "match", "person"}
           /\ tx'[r] = [Idle EXCEPT !.customer = IF o.kind = "create" THEN o.customer ELSE NoRow, !.began = clock]
           /\ overlaps'[r] = Running
           /\ \A s \in Requests \ {r} :
                 overlaps'[s] = IF s \in Running THEN overlaps[s] \cup {r} ELSE overlaps[s]
           /\ UNCHANGED <<bookings, customers, audit, lock>> /\ clock' = clock + 1
<1>1. First(o) \in {"select", "write", "match", "person"}
  BY OpShape DEF First
<1>2. pc[r] = "new" /\ pc' = [pc EXCEPT ![r] = First(o)] /\ op' = [op EXCEPT ![r] = o]
      /\ tx' = [tx EXCEPT ![r] = [Idle EXCEPT !.customer = IF o.kind = "create" THEN o.customer ELSE NoRow, !.began = clock]]
      /\ UNCHANGED <<answer, bookings, customers, audit, lock>> /\ clock' = clock + 1
  BY DEF Start
<1>3. /\ overlaps'[r] = Running
      /\ \A s \in Requests \ {r} :
            overlaps'[s] = IF s \in Running THEN overlaps[s] \cup {r} ELSE overlaps[s]
  <2>1. overlaps' = [s \in Requests |-> CASE s = r -> Running
                                          [] s \in Running -> overlaps[s] \cup {r}
                                          [] OTHER -> overlaps[s]]
    BY DEF Start
  <2>2. r \notin Running
    BY <1>2 DEF Running
  <2> QED
    BY <2>1, <2>2
<1>4. OthersStay(r)
  BY <1>2 DEF TypeOK, OthersStay
<1>5. Running' = Running \cup {r} /\ r \notin Running
  BY <1>1, <1>2 DEF TypeOK, Running
<1> QED
  BY <1>1, <1>2, <1>3, <1>4, <1>5 DEF TypeOK

LEMMA RefuseFrame ==
    ASSUME TypeOK, NEW r \in Requests, Refuse(r)
    PROVE  /\ pc[r] = "new" /\ pc'[r] = "done" /\ answer'[r] = "invalid"
           /\ Running' = Running /\ r \notin Running /\ OthersStay(r)
           /\ UNCHANGED <<op, tx, bookings, customers, audit, lock, clock, overlaps>>
BY DEF TypeOK, Refuse, Running, OthersStay

-----------------------------------------------------------------------------
(* Types. *)

LEMMA UnderwayHas ==
    ASSUME IInv, NEW r \in Running
    PROVE  /\ r \in Requests /\ Underway(r) /\ op[r] \in Ops /\ Target(r) \in Ids
           /\ tx[r] \in Tx
BY TargetIsId DEF IInv, Requested, Running, Underway, TypeOK, Tx

LEMMA TypedInitially == Init => TypeOK
<1> SUFFICES ASSUME Init PROVE TypeOK
  OBVIOUS
<1> DEFINE n == Cardinality(Seeds)
<1>1. n \in Nat
  BY BookingsAssumption, FS_CardinalityType
<1>2. \A b \in Seeds : bookings[b] \in Row
  BY BookingsAssumption DEF Init, Row, Ids, MaybePrice
<1>3. audit \in [1..n -> Entry]
  BY <1>2 DEF Init, Entry, Ids
<1>4. audit \in Seq(Entry)
  BY <1>1, <1>3, SeqDef
<1>5. bookings \in [Ids -> Row \cup {NoRow}]
  BY <1>2 DEF Init
<1>6. customers \in [Ids -> MaybeEmail \cup {NoRow}]
  BY BookingsAssumption DEF Init, MaybeEmail
<1>7. tx \in [Requests -> Tx]
  BY DEF Init, Idle, Tx
<1> QED
  BY <1>4, <1>5, <1>6, <1>7 DEF Init, TypeOK, Tx

\* What the statements leave in a transaction has its type.
LEMMA StatementTyped ==
    ASSUME IInv, NEW r \in Requests, Statement(r)
    PROVE  tx'[r] \in Tx /\ tx' = [tx EXCEPT ![r] = tx'[r]] /\ lock' \in [Ids -> Requests \cup {NoRow}]
<1>0. /\ r \in Running /\ Underway(r) /\ op[r] \in Ops /\ Target(r) \in Ids /\ tx[r] \in Tx
      /\ tx = [s \in Requests |-> tx[s]] /\ bookings \in [Ids -> Row \cup {NoRow}]
      /\ lock \in [Ids -> Requests \cup {NoRow}]
  BY StatementFrame, UnderwayHas DEF IInv, TypeOK
<1>1. CASE SelectBefore(r)
  BY <1>0, <1>1 DEF SelectBefore, Tx
<1>2. CASE MatchCustomer(r)
  <2>1. \A c \in Matches(op[r].email) : c \in Ids
    BY DEF Matches
  <2> QED
    BY <1>0, <1>2, <2>1 DEF MatchCustomer, Tx
<1>3. CASE InsertCustomer(r)
  <2>1. op[r].email \in MaybeEmail
    BY <1>0, <1>3, OpShape DEF InsertCustomer, Underway, Path
  <2>2. tx'[r] = [tx[r] EXCEPT !.person = op[r].email, !.customer = r]
    BY <1>0, <1>3 DEF InsertCustomer
  <2>3. tx'[r] \in Tx
    BY <1>0, <2>1, <2>2 DEF Tx, Ids
  <2> QED
    BY <1>0, <1>3, <2>3 DEF InsertCustomer
<1>4. CASE InsertBooking(r)
  <2> DEFINE row == [status |-> "pending", price |-> StoredPrice(op[r]), customer |-> tx[r].customer]
  <2>1. row \in Row
    <3>1. StoredPrice(op[r]) \in MaybePrice
      BY <1>0, <1>4, OpShape DEF InsertBooking, StoredPrice, MaybePrice
    <3>2. tx[r].customer \in Ids
      BY <1>0, <1>4 DEF InsertBooking, Underway, Inserts
    <3> QED
      BY <3>1, <3>2, BookingsAssumption DEF Row
  <2>2. tx' = [tx EXCEPT ![r] = [tx[r] EXCEPT !.row = row]]
    BY <1>0, <1>4 DEF InsertBooking
  <2> HIDE DEF row
  <2>3. [tx[r] EXCEPT !.row = row] \in Tx
    BY <1>0, <2>1 DEF Tx
  <2> QED
    BY <1>0, <1>4, <2>2, <2>3 DEF InsertBooking
<1>5. CASE UpdateBooking(r)
  <2> DEFINE row == Patched(bookings[Target(r)], op[r])
  <2>1. row \in Row
    <3>1. bookings[Target(r)] # NoRow
      BY <1>0, <1>5 DEF UpdateBooking, Underway, IInv, Locked
    <3> QED
      BY <1>0, <1>5, <3>1, RowsStayRows DEF UpdateBooking
  <2>2. tx' = [tx EXCEPT ![r] = [tx[r] EXCEPT !.row = row]]
    BY <1>0, <1>5 DEF UpdateBooking
  <2> HIDE DEF row
  <2>3. [tx[r] EXCEPT !.row = row] \in Tx
    BY <1>0, <2>1 DEF Tx
  <2>4. lock' = [lock EXCEPT ![Target(r)] = r]
    BY <1>5 DEF UpdateBooking
  <2> QED
    BY <1>0, <2>2, <2>3, <2>4
<1>6. CASE CancelBooking(r)
  <2>1. CASE bookings[Target(r)] = NoRow
    BY <1>0, <1>6, <2>1 DEF CancelBooking
  <2>2. CASE bookings[Target(r)] # NoRow
    <3> DEFINE row == Cancelled(bookings[Target(r)])
    <3>1. row \in Row
      BY <1>0, <2>2, RowsStayRows
    <3>2. tx' = [tx EXCEPT ![r] = [tx[r] EXCEPT !.row = row]]
      BY <1>0, <1>6, <2>2 DEF CancelBooking, Cancelled
    <3> HIDE DEF row
    <3>3. [tx[r] EXCEPT !.row = row] \in Tx
      BY <1>0, <3>1 DEF Tx
    <3>4. lock' = [lock EXCEPT ![Target(r)] = r]
      BY <1>6, <2>2 DEF CancelBooking
    <3> QED
      BY <1>0, <3>2, <3>3, <3>4
  <2> QED
    BY <2>1, <2>2
<1>7. CASE InsertAudit(r)
  <2>1. AuditEntry(r) \in Entry
    BY <1>0, <1>7, SentinelsDiffer DEF InsertAudit, AuditEntry, Entry, Underway, Tx, Ids
  <2>2. tx' = [tx EXCEPT ![r] = [tx[r] EXCEPT !.entry = AuditEntry(r)]]
    BY <1>0, <1>7 DEF InsertAudit
  <2>3. [tx[r] EXCEPT !.entry = AuditEntry(r)] \in Tx
    BY <1>0, <2>1 DEF Tx
  <2> QED
    BY <1>0, <1>7, <2>2, <2>3 DEF InsertAudit
<1> QED
  BY <1>1, <1>2, <1>3, <1>4, <1>5, <1>6, <1>7 DEF Statement

\* What a commit does to the tables.
LEMMA EndTyped ==
    ASSUME IInv, NEW r \in Requests, Ends(r)
    PROVE  /\ bookings' = IF tx[r].row = NoRow THEN bookings ELSE [bookings EXCEPT ![Target(r)] = tx[r].row]
           /\ customers' = IF tx[r].person = NoRow THEN customers ELSE [customers EXCEPT ![r] = tx[r].person]
           /\ audit' = IF tx[r].entry = NoRow THEN audit ELSE Append(audit, tx[r].entry)
           /\ bookings' \in [Ids -> Row \cup {NoRow}]
           /\ customers' \in [Ids -> MaybeEmail \cup {NoRow}]
           /\ audit' \in Seq(Entry)
           /\ pc[r] = "commit" /\ pc' = [pc EXCEPT ![r] = "done"]
           /\ \E a \in {Reply(r), "error"} : answer' = [answer EXCEPT ![r] = a]
           /\ Reply(r) \in {"created", "updated", "not found"}
<1>1. /\ bookings' = IF tx[r].row = NoRow THEN bookings ELSE [bookings EXCEPT ![Target(r)] = tx[r].row]
      /\ customers' = IF tx[r].person = NoRow THEN customers ELSE [customers EXCEPT ![r] = tx[r].person]
      /\ audit' = IF tx[r].entry = NoRow THEN audit ELSE Append(audit, tx[r].entry)
      /\ pc[r] = "commit" /\ pc' = [pc EXCEPT ![r] = "done"]
  BY DEF Ends, Commit, CommitUnheard, Install
<1>2. r \in Running /\ tx[r] \in Tx /\ op[r] \in Ops /\ Target(r) \in Ids
  BY EndFrame, UnderwayHas DEF IInv
<1>3. bookings' \in [Ids -> Row \cup {NoRow}] /\ customers' \in [Ids -> MaybeEmail \cup {NoRow}]
  BY <1>1, <1>2 DEF Tx, IInv, TypeOK
<1>4. audit' \in Seq(Entry)
  BY <1>1, <1>2, AppendProperties DEF Tx, IInv, TypeOK
<1>5. \E a \in {Reply(r), "error"} : answer' = [answer EXCEPT ![r] = a]
  BY DEF Ends, Commit, CommitUnheard
<1>6. Reply(r) \in {"created", "updated", "not found"}
  BY <1>2, OpShape DEF Reply
<1> QED
  BY <1>1, <1>3, <1>4, <1>5, <1>6

LEMMA UnlockedTyped ==
    ASSUME TypeOK, NEW r \in Requests
    PROVE  Unlocked(r) \in [Ids -> Requests \cup {NoRow}]
BY DEF TypeOK, Unlocked

LEMMA TypedStep == IInv /\ [Next]_vars => TypeOK'
<1> SUFFICES ASSUME IInv, [Next]_vars PROVE TypeOK'
  OBVIOUS
<1>0. TypeOK
  BY DEF IInv
<1>1. ASSUME NEW r \in Requests, Refuse(r) PROVE TypeOK'
  BY <1>0, <1>1 DEF Refuse, TypeOK
<1>2. ASSUME NEW r \in Requests, Statement(r) PROVE TypeOK'
  <2>1. /\ tx' \in [Requests -> Tx] /\ lock' \in [Ids -> Requests \cup {NoRow}]
        /\ UNCHANGED <<op, answer, bookings, customers, audit, clock, overlaps>>
    <3>1. tx \in [Requests -> Tx]
      BY <1>0 DEF TypeOK, Tx
    <3>2. tx'[r] \in Tx /\ tx' = [tx EXCEPT ![r] = tx'[r]] /\ lock' \in [Ids -> Requests \cup {NoRow}]
      BY <1>2, StatementTyped
    <3>3. UNCHANGED <<op, answer, bookings, customers, audit, clock, overlaps>>
      BY <1>0, <1>2, StatementFrame
    <3> QED
      BY <3>1, <3>2, <3>3
  <2>2. \E p \in {"write", "person", "audit", "commit"} : pc' = [pc EXCEPT ![r] = p]
    BY <1>2 DEF Statement, SelectBefore, MatchCustomer, InsertCustomer, InsertBooking,
         UpdateBooking, CancelBooking, InsertAudit
  <2> QED
    BY <1>0, <2>1, <2>2 DEF TypeOK, Tx
<1>3. ASSUME NEW r \in Requests, Ends(r) PROVE TypeOK'
  <2>1. /\ bookings' \in [Ids -> Row \cup {NoRow}]
        /\ customers' \in [Ids -> MaybeEmail \cup {NoRow}]
        /\ audit' \in Seq(Entry)
        /\ pc' = [pc EXCEPT ![r] = "done"]
    BY <1>3, EndTyped
  <2>3. \E a \in {"created", "updated", "not found", "error"} : answer' = [answer EXCEPT ![r] = a]
    <3>1. PICK a \in {Reply(r), "error"} : answer' = [answer EXCEPT ![r] = a]
      BY <1>3, EndTyped
    <3>2. Reply(r) \in {"created", "updated", "not found"}
      BY <1>3, EndTyped
    <3> QED
      BY <3>1, <3>2
  <2>2. lock' \in [Ids -> Requests \cup {NoRow}] /\ UNCHANGED <<op, tx, clock, overlaps>>
    BY <1>0, <1>3, EndFrame, UnlockedTyped
  <2> QED
    BY <1>0, <2>1, <2>2, <2>3 DEF TypeOK
<1>4. ASSUME NEW r \in Requests, Abort(r) PROVE TypeOK'
  BY <1>0, <1>4, UnlockedTyped DEF Abort, TypeOK
<1>5. ASSUME NEW r \in Requests, NEW o \in Ops, Start(r, o) PROVE TypeOK'
  <2>1. [Idle EXCEPT !.customer = IF o.kind = "create" THEN o.customer ELSE NoRow, !.began = clock] \in Tx
    BY <1>0, OpShape DEF Idle, Tx, Ids, TypeOK
  <2>2. tx' \in [Requests -> Tx]
    BY <1>0, <1>5, <2>1 DEF Start, TypeOK, Tx
  <2>3. pc' \in [Requests -> {"new", "select", "match", "person", "write", "audit", "commit", "done"}]
    BY <1>0, <1>5, StartFrame DEF Start, TypeOK
  <2>4. overlaps' \in [Requests -> SUBSET Requests]
    <3>1. overlaps' = [s \in Requests |-> CASE s = r -> Running
                                            [] s \in Running -> overlaps[s] \cup {r}
                                            [] OTHER -> overlaps[s]]
      BY <1>5 DEF Start
    <3>2. \A s \in Requests : overlaps'[s] \in SUBSET Requests
      <4>1. Running \subseteq Requests /\ \A s \in Requests : overlaps[s] \in SUBSET Requests
        BY <1>0 DEF TypeOK, Running
      <4>2. /\ overlaps'[r] = Running
            /\ \A s \in Requests \ {r} :
                  overlaps'[s] = IF s \in Running THEN overlaps[s] \cup {r} ELSE overlaps[s]
        BY <1>0, <1>5, StartFrame
      <4> QED
        BY <4>1, <4>2
    <3> QED
      BY <3>1, <3>2
  <2>5. op' \in [Requests -> Ops \cup {NoRow}]
    BY <1>0, <1>5 DEF Start, TypeOK
  <2>6. UNCHANGED <<answer, bookings, customers, audit, lock>>
    BY <1>0, <1>5 DEF Start, TypeOK
  <2>7. clock' \in Nat
    <3>1. clock \in Nat /\ clock' = clock + 1
      BY <1>0, <1>5 DEF Start, TypeOK
    <3> QED
      BY <3>1
  <2> QED
    BY <1>0, <2>2, <2>3, <2>4, <2>5, <2>6, <2>7 DEF TypeOK, Tx
<1>6. CASE UNCHANGED vars
  BY <1>0, <1>6 DEF vars, TypeOK
<1> QED
  BY <1>1, <1>2, <1>3, <1>4, <1>5, <1>6, NextSplit

-----------------------------------------------------------------------------
(* Where a request is, and whom it met. *)

\* Before anything is asked the log has one entry for each booking.
LEMMA InitiallyAll == Init => IInv
<1> SUFFICES ASSUME Init PROVE IInv
  OBVIOUS
<1> DEFINE n == Cardinality(Seeds)
<1>1. Running = {} /\ TypeOK
  BY TypedInitially DEF Init, Running
<1>2. /\ n \in Nat /\ Len(audit) = n /\ DOMAIN audit = 1..n
      /\ \A i \in 1..n : /\ audit[i].booking \in Seeds /\ audit[i].id \in Seeds
                         /\ audit[i].action = "CREATE"
                         /\ audit[i].new = bookings[audit[i].booking]
                         /\ audit[i].created_at = 0
               /\ audit[i].created_at = 0
  <2>1. n \in Nat
    BY BookingsAssumption, FS_CardinalityType
  <2>2. Len(audit) = n /\ DOMAIN audit = 1..n
    BY <1>1, <2>1, LenProperties DEF TypeOK, Init
  <2>3. ASSUME NEW i \in 1..n
        PROVE  /\ audit[i].booking \in Seeds /\ audit[i].id \in Seeds
               /\ audit[i].action = "CREATE"
               /\ audit[i].new = bookings[audit[i].booking]
               /\ audit[i].created_at = 0
    <3>1. PICK b \in Seeds : audit[i] = [id |-> b, booking |-> b, action |-> "CREATE", old |-> NoRow,
                                        new |-> bookings[b], created_at |-> 0]
      <4>1. audit \in [1..n -> {[id |-> b, booking |-> b, action |-> "CREATE", old |-> NoRow,
                                new |-> bookings[b], created_at |-> 0] : b \in Seeds}]
        BY DEF Init
      <4> QED
        BY <4>1
    <3> QED
      BY <3>1
  <2> QED
    BY <2>1, <2>2, <2>3
<1>3. \A i, j \in 1..n : audit[i].booking = audit[j].booking => i = j
  <2> DEFINE f == [i \in 1..n |-> audit[i].booking]
  <2>1. f \in Surjection(1..n, Seeds)
    BY <1>2 DEF Init, Surjection
  <2>2. IsFiniteSet(1..n) /\ Cardinality(1..n) = n
    BY <1>2, FS_Interval
  <2>3. f \in Injection(1..n, Seeds)
    BY <2>1, <2>2, FS_SurjSameCardinalityImpliesInj
  <2> QED
    BY <2>3 DEF Injection, IsInjective
<1>4. Explained
  <2> SUFFICES ASSUME NEW b \in Ids, bookings[b] # NoRow
               PROVE  Reported(audit, b, Len(audit) + 1, bookings[b])
    BY DEF Explained
  <2>1. b \in Seeds
    BY DEF Init
  <2>2. PICK i \in 1..n : audit[i].booking = b
    BY <1>2, <2>1 DEF Init
  <2>3. LastEntry(audit, i, b, n + 1)
    BY <1>2, <1>3, <2>2 DEF LastEntry
  <2> QED
    BY <1>2, <2>2, <2>3 DEF Reported, Explains
<1>5. Requested /\ Locked /\ CustomerFound /\ AddressFree
  BY <1>1 DEF Init, Requested, Locked, CustomerFound, AddressFree
<1>6. Inserted /\ Whole
  <2>1. /\ \A b \in Ids : bookings[b] # NoRow => b \in Seeds
        /\ \A c \in Ids : customers[c] # NoRow => c \in Seeds
    BY DEF Init
  <2>2. \A c \in Seeds : customers[c] # NoRow
    BY SentinelsDiffer, BookingsAssumption DEF Init, Ids
  <2>3. Whole
    BY <1>2 DEF Init, Whole
  <2> QED
    BY <2>1, <2>2, <2>3 DEF Inserted
<1>7. OldKnown
  BY <1>1, <1>2 DEF OldKnown
<1>9. Timed
  <2>1. \A i \in 1..n : audit[i].id \notin Requests
    BY <1>2, BookingsAssumption
  <2>2. \A i, j \in 1..n : i < j => audit[i].booking # audit[j].booking
    BY <1>2, <1>3
  <2> QED
    BY <1>1, <1>2, <2>1, <2>2 DEF Init, Timed
<1>8. PortalBookingHasCustomer /\ DuplicatesOnlyWhenConcurrent
  <2>1. \A r \in Requests : customers[r] = NoRow /\ pc[r] = "new"
    BY BookingsAssumption DEF Init, Ids
  <2> QED
    BY <2>1 DEF PortalBookingHasCustomer, IsDone, DuplicatesOnlyWhenConcurrent
<1> QED
  BY <1>1, <1>4, <1>5, <1>6, <1>7, <1>8, <1>9 DEF IInv, Tables

LEMMA UnderwayStays ==
    ASSUME NEW s, Underway(s), pc'[s] = pc[s], tx'[s] = tx[s], op'[s] = op[s], answer'[s] = answer[s]
    PROVE  Underway(s)'
BY DEF Underway, Inserts, Changes, Writes, AuditEntry, Target

LEMMA StatementUnderway ==
    ASSUME IInv, NEW r \in Requests, Statement(r)
    PROVE  Underway(r)'
<1>0. /\ r \in Running /\ Underway(r) /\ op[r] \in Ops /\ tx[r] \in Tx /\ TypeOK
      /\ op' = op /\ answer' = answer /\ Target(r) \in Ids
      /\ pc = [s \in Requests |-> pc[s]] /\ tx = [s \in Requests |-> tx[s]]
      /\ bookings \in [Ids -> Row \cup {NoRow}]
  BY StatementFrame, UnderwayHas DEF IInv, TypeOK
<1> USE DEF Inserts, Changes, Writes, Path
<1>1. CASE SelectBefore(r)
  <2>1. op[r].kind = "patch"
    BY <1>0, <1>1, OpShape DEF SelectBefore, Underway
  <2>2. tx'[r] = [tx[r] EXCEPT !.before = bookings[Target(r)]]
        /\ pc'[r] = IF bookings[Target(r)] = NoRow THEN "commit" ELSE "write"
    BY <1>0, <1>1 DEF SelectBefore
  <2>3. tx[r].row = NoRow /\ tx[r].entry = NoRow
    BY <1>0, <1>1 DEF SelectBefore, Underway
  <2> QED
    BY <1>0, <2>1, <2>2, <2>3 DEF Underway, Tx
<1>2. CASE MatchCustomer(r)
  <2>1. op[r].kind = "portal"
    BY <1>0, <1>2, OpShape DEF MatchCustomer, Underway
  <2>2. tx[r].row = NoRow /\ tx[r].entry = NoRow /\ tx[r].before = NoRow
    BY <1>0, <1>2, <2>1 DEF MatchCustomer, Underway
  <2>3. \/ pc'[r] = "person" /\ tx'[r] = tx[r]
        \/ \E c \in Ids : pc'[r] = "write" /\ tx'[r] = [tx[r] EXCEPT !.customer = c]
    BY <1>0, <1>2 DEF MatchCustomer, Matches
  <2>4. /\ tx'[r].row = tx[r].row /\ tx'[r].entry = tx[r].entry /\ tx'[r].before = tx[r].before
        /\ pc'[r] \in {"person", "write"} /\ (pc'[r] = "write" => tx'[r].customer \in Ids)
    BY <1>0, <2>3 DEF Tx
  <2> QED
    BY <1>0, <2>1, <2>2, <2>4 DEF Underway
<1>3. CASE InsertCustomer(r)
  <2>1. op[r].kind \in {"portal", "customer"}
    BY <1>0, <1>3, OpShape DEF InsertCustomer, Underway
  <2>2. tx[r].row = NoRow /\ tx[r].entry = NoRow /\ tx[r].before = NoRow
    BY <1>0, <1>3, <2>1 DEF InsertCustomer, Underway
  <2>3. /\ pc'[r] = IF op[r].kind = "portal" THEN "write" ELSE "commit"
        /\ tx'[r] = [tx[r] EXCEPT !.person = op[r].email, !.customer = r]
    BY <1>0, <1>3 DEF InsertCustomer
  <2> QED
    BY <1>0, <2>1, <2>2, <2>3 DEF Underway, Tx, Ids
<1>4. CASE InsertBooking(r)
  <2> DEFINE row == [status |-> "pending", price |-> StoredPrice(op[r]), customer |-> tx[r].customer]
  <2>1. /\ pc[r] = "write" /\ pc'[r] = "audit" /\ tx'[r] = [tx[r] EXCEPT !.row = row]
        /\ op[r].kind \in {"create", "portal"}
    BY <1>0, <1>4 DEF InsertBooking
  <2>2. tx'[r] \in Tx
    BY <1>4, StatementTyped
  <2>3. tx'[r].row = row /\ row.customer = tx[r].customer /\ tx'[r].customer = tx[r].customer
        /\ tx'[r].entry = tx[r].entry /\ tx'[r].before = tx[r].before
    BY <1>0, <2>1 DEF Tx
  <2>4. row # NoRow
    <3>1. tx[r].customer \in Ids
      BY <1>0, <2>1 DEF Underway
    <3>2. StoredPrice(op[r]) \in MaybePrice
      BY <1>0, <2>1, OpShape DEF StoredPrice, MaybePrice
    <3>3. row \in Row
      BY <3>1, <3>2, BookingsAssumption DEF Row
    <3> QED
      BY <3>3, SentinelsDiffer
  <2> HIDE DEF row
  <2> QED
    BY <1>0, <2>1, <2>3, <2>4 DEF Underway
<1>5. CASE UpdateBooking(r)
  <2>1. /\ pc[r] = "write" /\ pc'[r] = "audit"
        /\ tx'[r] = [tx[r] EXCEPT !.row = Patched(bookings[Target(r)], op[r])]
        /\ op[r].kind = "patch"
    BY <1>0, <1>5 DEF UpdateBooking
  <2>2. Patched(bookings[Target(r)], op[r]) # NoRow
    <3>1. bookings[Target(r)] \in Row
      BY <1>0, <2>1 DEF Underway, IInv, Locked
    <3> QED
      BY <1>0, <2>1, <3>1, RowsStayRows, SentinelsDiffer
  <2>3. tx'[r].row # NoRow /\ tx'[r].before = tx[r].before /\ tx'[r].entry = tx[r].entry
    BY <1>0, <2>1, <2>2 DEF Tx
  <2> QED
    BY <1>0, <2>1, <2>3 DEF Underway
<1>6. CASE CancelBooking(r)
  <2>1. pc[r] = "write" /\ pc'[r] = "commit" /\ op[r].kind = "cancel"
    BY <1>0, <1>6 DEF CancelBooking
  <2>2. \/ tx'[r] = tx[r]
        \/ tx'[r] = [tx[r] EXCEPT !.row = [bookings[Target(r)] EXCEPT !.status = "cancelled"]]
    BY <1>0, <1>6 DEF CancelBooking
  <2>3. tx'[r].before = tx[r].before /\ tx'[r].entry = tx[r].entry
    BY <1>0, <2>2 DEF Tx
  <2> QED
    BY <1>0, <2>1, <2>3 DEF Underway
<1>7. CASE InsertAudit(r)
  <2>1. pc[r] = "audit" /\ pc'[r] = "commit" /\ tx'[r] = [tx[r] EXCEPT !.entry = AuditEntry(r)]
    BY <1>0, <1>7 DEF InsertAudit
  <2>2. /\ tx'[r].row = tx[r].row /\ tx'[r].before = tx[r].before /\ tx'[r].customer = tx[r].customer
        /\ tx'[r].entry = AuditEntry(r) /\ tx'[r].began = tx[r].began
    BY <1>0, <2>1 DEF Tx
  <2>3. AuditEntry(r)' = AuditEntry(r)
    BY <1>0, <2>2 DEF AuditEntry, Target
  <2>4. op[r].kind \in {"create", "portal", "patch"} /\ tx[r].row # NoRow
    BY <1>0, <2>1, OpShape DEF Underway
  <2> QED
    BY <1>0, <2>1, <2>2, <2>3, <2>4 DEF Underway
<1> QED
  BY <1>1, <1>2, <1>3, <1>4, <1>5, <1>6, <1>7 DEF Statement

LEMMA StartUnderway ==
    ASSUME IInv, NEW r \in Requests, NEW o \in Ops, Start(r, o)
    PROVE  Underway(r)'
<1>1. /\ op'[r] = o /\ pc'[r] = First(o) /\ answer'[r] = "none"
      /\ tx'[r] = [Idle EXCEPT !.customer = IF o.kind = "create" THEN o.customer ELSE NoRow, !.began = clock]
  <2>1. answer[r] = "none"
    BY StartFrame DEF IInv, Requested
  <2> QED
    BY <2>1, StartFrame DEF IInv
<1>2. /\ tx'[r].row = NoRow /\ tx'[r].before = NoRow /\ tx'[r].entry = NoRow
      /\ o.kind = "create" => tx'[r].customer = o.customer
  BY <1>1 DEF Idle
<1>3. First(o) \in Path[o.kind] /\ First(o) \notin {"audit", "commit"}
      /\ (First(o) = "write" => o.kind \in {"create", "cancel"})
  BY OpShape DEF First, Path
<1>4. o.kind = "create" => o.customer \in Ids
  BY OpShape DEF Ids
<1> QED
  BY <1>1, <1>2, <1>3, <1>4 DEF Underway, Inserts, Writes

LEMMA RequestedStep == IInv /\ [Next]_vars => Requested'
<1> SUFFICES ASSUME IInv, [Next]_vars PROVE Requested'
  OBVIOUS
<1>0. TypeOK /\ Requested
  BY DEF IInv
<1>a. ASSUME NEW r \in Requests, OthersStay(r), Running' \ {r} = Running \ {r}
      PROVE  \A s \in Requests \ {r} : s \in Running' => Underway(s)'
  BY <1>0, <1>a, UnderwayStays DEF OthersStay, Requested
<1>1. ASSUME NEW r \in Requests, Refuse(r) PROVE Requested'
  BY <1>0, <1>1, <1>a, RefuseFrame DEF Requested, OthersStay
<1>2. ASSUME NEW r \in Requests, Statement(r) PROVE Requested'
  <2>1. \A s \in Requests : s \in Running' => Underway(s)'
    BY <1>0, <1>2, <1>a, StatementFrame, StatementUnderway
  <2> QED
    BY <1>0, <1>2, <2>1, StatementFrame DEF Requested, OthersStay
<1>3. ASSUME NEW r \in Requests, Ends(r) \/ Abort(r) PROVE Requested'
  <2>1. /\ r \in Running /\ Running' = Running \ {r} /\ pc'[r] = "done"
        /\ OthersStay(r) /\ op' = op /\ overlaps' = overlaps
    BY <1>0, <1>3, EndFrame
  <2>2. answer'[r] # "invalid" /\ op[r] # NoRow
    <3>1. op[r] # NoRow
      BY <2>1, UnderwayHas, SentinelsDiffer
    <3>2. CASE Abort(r)
      BY <1>0, <3>1, <3>2 DEF Abort, TypeOK
    <3>3. CASE Ends(r)
      <4>1. PICK a \in {Reply(r), "error"} : answer' = [answer EXCEPT ![r] = a]
        BY <3>3, EndTyped
      <4>2. Reply(r) \in {"created", "updated", "not found"}
        BY <3>3, EndTyped
      <4> QED
        BY <1>0, <3>1, <4>1, <4>2 DEF TypeOK
    <3> QED
      BY <1>3, <3>2, <3>3
  <2> QED
    BY <1>0, <1>a, <2>1, <2>2 DEF Requested, OthersStay
<1>4. ASSUME NEW r \in Requests, NEW o \in Ops, Start(r, o) PROVE Requested'
  <2>1. /\ Running' = Running \cup {r} /\ r \notin Running /\ pc[r] = "new" /\ pc'[r] = First(o)
        /\ First(o) \notin {"new", "done"}
        /\ OthersStay(r) /\ op'[r] = o /\ overlaps'[r] = Running
        /\ \A s \in Requests \ {r} :
              overlaps'[s] = IF s \in Running THEN overlaps[s] \cup {r} ELSE overlaps[s]
    BY <1>0, <1>4, StartFrame
  <2>2. \A s \in Requests : s \in Running' => Underway(s)'
    BY <1>4, <1>a, <2>1, StartUnderway
  <2>3. o # NoRow /\ \A s \in Running : op[s] # NoRow
    BY UnderwayHas, SentinelsDiffer
  <2>4. \A s \in Requests : r \notin overlaps[s]
    BY <1>0, <2>1 DEF Requested
  <2>5. \A s, q \in Requests :
           /\ q \in overlaps'[s] => s \in overlaps'[q] /\ op'[q] # NoRow
           /\ s # q /\ s \in Running' /\ q \in Running' => q \in overlaps'[s]
    <3> SUFFICES ASSUME NEW s \in Requests, NEW q \in Requests
                 PROVE  /\ q \in overlaps'[s] => s \in overlaps'[q] /\ op'[q] # NoRow
                        /\ s # q /\ s \in Running' /\ q \in Running' => q \in overlaps'[s]
      OBVIOUS
    <3>1. CASE s = r /\ q = r
      BY <2>1, <3>1
    <3>2. CASE s = r /\ q # r
      <4>1. op'[q] = op[q]
        BY <2>1, <3>2 DEF OthersStay
      <4>2. q \in Running' <=> q \in Running
        BY <2>1, <3>2
      <4>3. overlaps'[s] = Running /\ (q \in Running => overlaps'[q] = overlaps[q] \cup {r})
        BY <2>1, <3>2
      <4> QED
        BY <2>3, <3>2, <4>1, <4>2, <4>3
    <3>3. CASE s # r /\ q = r
      <4>1. op'[s] = op[s]
        BY <2>1, <3>3 DEF OthersStay
      <4>2. s \in Running' <=> s \in Running
        BY <2>1, <3>3
      <4>3. /\ overlaps'[q] = Running
            /\ overlaps'[s] = IF s \in Running THEN overlaps[s] \cup {r} ELSE overlaps[s]
        BY <2>1, <3>3
      <4> QED
        BY <2>1, <2>3, <2>4, <3>3, <4>1, <4>2, <4>3
    <3>4. CASE s # r /\ q # r
      <4>1. overlaps'[s] \ {r} = overlaps[s] \ {r} /\ overlaps'[q] \ {r} = overlaps[q] \ {r}
            /\ op'[q] = op[q] /\ (s \in Running' <=> s \in Running) /\ (q \in Running' <=> q \in Running)
        BY <2>1, <3>4 DEF OthersStay
      <4> QED
        BY <1>0, <3>4, <4>1 DEF Requested
    <3> QED
      BY <3>1, <3>2, <3>3, <3>4
  <2>6. \A s \in Requests \ {r} : pc[s] = "new" => overlaps'[s] = overlaps[s]
    BY <2>1 DEF Running
  <2> QED
    <3>1. answer' = answer
      BY <1>0, <1>4, StartFrame
    <3>2. ASSUME NEW s \in Requests, pc'[s] = "new"
          PROVE  op'[s] = NoRow /\ answer'[s] = "none" /\ overlaps'[s] = {}
      <4>1. s # r
        BY <2>1, <3>2
      <4> QED
        BY <1>0, <2>1, <2>6, <3>1, <3>2, <4>1 DEF Requested, OthersStay
    <3>3. ASSUME NEW s \in Requests, pc'[s] = "done"
          PROVE  (op'[s] = NoRow) = (answer'[s] = "invalid")
      <4>1. s # r
        BY <2>1, <3>3
      <4> QED
        BY <1>0, <2>1, <3>1, <3>3, <4>1 DEF Requested, OthersStay
    <3> QED
      BY <2>2, <2>5, <3>2, <3>3 DEF Requested
<1>5. CASE UNCHANGED vars
  <2>1. Running' = Running /\ \A s \in Running : Underway(s)'
    BY <1>0, <1>5, UnderwayStays DEF vars, Running, Requested
  <2> QED
    BY <1>0, <1>5, <2>1 DEF vars, Requested
<1> QED
  BY <1>1, <1>2, <1>3, <1>4, <1>5, NextSplit

-----------------------------------------------------------------------------
(* Row locks. *)

Changed(r) ==
    IF op[r].kind = "patch" THEN Patched(bookings[Target(r)], op[r]) ELSE Cancelled(bookings[Target(r)])

\* What a statement of a handler does to its row and to the locks.
LEMMA StatementLocks ==
    ASSUME IInv, NEW r \in Requests, Statement(r)
    PROVE  /\ \/ tx'[r].row = tx[r].row /\ lock' = lock
              \/ Inserts(r) /\ lock' = lock
              \/ /\ Changes(r) /\ lock[Target(r)] = NoRow /\ lock' = [lock EXCEPT ![Target(r)] = r]
                 /\ bookings[Target(r)] # NoRow /\ tx'[r].row = Changed(r) /\ tx'[r].row # NoRow
           /\ \/ tx'[r].before = tx[r].before
              \/ op[r].kind = "patch" /\ tx'[r].before = bookings[Target(r)]
<1>0. /\ r \in Running /\ Underway(r) /\ op[r] \in Ops /\ tx[r] \in Tx /\ Target(r) \in Ids
      /\ tx = [s \in Requests |-> tx[s]] /\ bookings \in [Ids -> Row \cup {NoRow}]
  BY StatementFrame, UnderwayHas DEF IInv, TypeOK
<1>1. CASE SelectBefore(r)
  <2>1. op[r].kind = "patch"
    BY <1>0, <1>1, OpShape DEF SelectBefore, Underway, Path
  <2>2. tx'[r] = [tx[r] EXCEPT !.before = bookings[Target(r)]] /\ lock' = lock
    BY <1>0, <1>1 DEF SelectBefore
  <2> QED
    BY <1>0, <2>1, <2>2 DEF Tx
<1>2. CASE MatchCustomer(r) \/ InsertCustomer(r) \/ InsertAudit(r)
  <2>1. lock' = lock
    BY <1>2 DEF MatchCustomer, InsertCustomer, InsertAudit
  <2>2. tx'[r].row = tx[r].row /\ tx'[r].before = tx[r].before
    <3>1. CASE MatchCustomer(r)
      BY <1>0, <3>1 DEF MatchCustomer, Tx
    <3>2. CASE InsertCustomer(r)
      BY <1>0, <3>2 DEF InsertCustomer, Tx
    <3>3. CASE InsertAudit(r)
      <4>1. tx'[r] = [tx[r] EXCEPT !.entry = AuditEntry(r)]
        BY <1>0, <3>3 DEF InsertAudit
      <4> QED
        BY <1>0, <4>1 DEF Tx
    <3> QED
      BY <1>2, <3>1, <3>2, <3>3
  <2> QED
    BY <2>1, <2>2
<1>3. CASE InsertBooking(r)
  <2>1. tx'[r].before = tx[r].before /\ lock' = lock
    BY <1>0, <1>3 DEF InsertBooking, Tx
  <2> QED
    BY <1>3, <2>1 DEF InsertBooking, Inserts
<1>4. CASE UpdateBooking(r)
  <2>1. /\ pc[r] = "write" /\ op[r].kind = "patch" /\ lock[Target(r)] = NoRow
        /\ lock' = [lock EXCEPT ![Target(r)] = r]
        /\ tx'[r] = [tx[r] EXCEPT !.row = Patched(bookings[Target(r)], op[r])]
    BY <1>0, <1>4 DEF UpdateBooking
  <2>2. bookings[Target(r)] # NoRow
    BY <1>0, <2>1 DEF Underway, IInv, Locked
  <2>3. Patched(bookings[Target(r)], op[r]) # NoRow
    BY <1>0, <2>1, <2>2, RowsStayRows, SentinelsDiffer
  <2> QED
    BY <1>0, <2>1, <2>2, <2>3 DEF Changes, Changed, Tx
<1>5. CASE CancelBooking(r)
  <2>1. CASE bookings[Target(r)] = NoRow
    <3>1. tx' = tx /\ lock' = lock
      BY <1>5, <2>1 DEF CancelBooking
    <3> QED
      BY <3>1
  <2>2. CASE bookings[Target(r)] # NoRow
    <3>1. /\ op[r].kind = "cancel" /\ lock[Target(r)] = NoRow
          /\ lock' = [lock EXCEPT ![Target(r)] = r]
          /\ tx'[r] = [tx[r] EXCEPT !.row = Cancelled(bookings[Target(r)])]
      BY <1>0, <1>5, <2>2 DEF CancelBooking, Cancelled
    <3>2. Cancelled(bookings[Target(r)]) # NoRow
      BY <1>0, <2>2, RowsStayRows, SentinelsDiffer
    <3> QED
      BY <1>0, <2>2, <3>1, <3>2 DEF Changes, Changed, Tx
  <2> QED
    BY <2>1, <2>2
<1> QED
  BY <1>1, <1>2, <1>3, <1>4, <1>5 DEF Statement

\* A commit writes one row, which nobody else holds.
LEMMA EndWrites ==
    ASSUME IInv, NEW r \in Requests, Ends(r)
    PROVE  /\ r \in Running /\ op[r] \in Ops /\ tx[r] \in Tx /\ Target(r) \in Ids
           /\ \A b \in Ids : b # Target(r) => bookings'[b] = bookings[b]
           /\ tx[r].row = NoRow => bookings' = bookings
           /\ tx[r].row # NoRow => bookings'[Target(r)] = tx[r].row
           /\ \A b \in Ids : bookings[b] # NoRow => bookings'[b] # NoRow
           /\ Inserts(r) => bookings[r] = NoRow
           /\ Changes(r) /\ tx[r].row # NoRow => bookings[Target(r)] # NoRow /\ tx[r].row = Changed(r)
           /\ \A s \in Running \ {r} : Changes(s) /\ tx[s].row # NoRow =>
                 bookings'[Target(s)] = bookings[Target(s)] /\ lock'[Target(s)] = s
<1>0. /\ r \in Running /\ op[r] \in Ops /\ tx[r] \in Tx /\ Target(r) \in Ids /\ Underway(r)
      /\ bookings \in [Ids -> Row \cup {NoRow}] /\ pc[r] = "commit"
      /\ bookings' = IF tx[r].row = NoRow THEN bookings ELSE [bookings EXCEPT ![Target(r)] = tx[r].row]
  BY EndFrame, EndTyped, UnderwayHas DEF IInv, TypeOK
<1>1. /\ \A b \in Ids : b # Target(r) => bookings'[b] = bookings[b]
      /\ tx[r].row = NoRow => bookings' = bookings
      /\ tx[r].row # NoRow => bookings'[Target(r)] = tx[r].row
      /\ \A b \in Ids : bookings[b] # NoRow => bookings'[b] # NoRow
  BY <1>0
<1>2. Inserts(r) => bookings[r] = NoRow
  BY <1>0, BookingsAssumption DEF IInv, Tables, Inserted, Committed, Ids
<1>3. Changes(r) /\ tx[r].row # NoRow => bookings[Target(r)] # NoRow /\ tx[r].row = Changed(r)
  BY <1>0 DEF IInv, Locked, Changed
<1>4. ASSUME NEW s \in Running \ {r}, Changes(s), tx[s].row # NoRow
      PROVE  bookings'[Target(s)] = bookings[Target(s)] /\ lock'[Target(s)] = s
  <2>1. lock[Target(s)] = s /\ bookings[Target(s)] # NoRow /\ Target(s) \in Ids
    BY <1>4, UnderwayHas DEF IInv, Locked
  <2>2. lock'[Target(s)] = s
    BY <1>4, <2>1, EndFrame DEF IInv, Unlocked
  <2>3. CASE tx[r].row = NoRow
    BY <1>1, <2>2, <2>3
  <2>4. CASE tx[r].row # NoRow
    <3>1. Target(s) # Target(r)
      <4>1. CASE Changes(r)
        BY <1>0, <1>4, <2>1, <2>4, <4>1 DEF IInv, Locked
      <4>2. CASE ~Changes(r)
        <5>1. Target(r) = r
          BY <1>0, <4>2, TargetIsId DEF IInv
        <5>2. Inserts(r)
          BY <1>0, <2>4, <4>2, OpShape DEF Underway, Inserts, Changes
        <5> QED
          BY <1>2, <2>1, <5>1, <5>2
      <4> QED
        BY <4>1, <4>2
    <3> QED
      BY <1>1, <2>1, <2>2, <3>1
  <2> QED
    BY <2>3, <2>4
<1> QED
  BY <1>0, <1>1, <1>2, <1>3, <1>4

LEMMA LockedStep == IInv /\ [Next]_vars => Locked'
<1> SUFFICES ASSUME IInv, [Next]_vars PROVE Locked'
  OBVIOUS
<1>0. TypeOK /\ Locked /\ lock = [b \in Ids |-> lock[b]]
  BY DEF IInv, TypeOK
\* A request that stays where it was sees to its locks if they stay.
<1>a. ASSUME NEW s \in Running, op'[s] = op[s], tx'[s] = tx[s], s \in Running',
             \A b \in Ids : bookings[b] # NoRow => bookings'[b] # NoRow,
             Changes(s) /\ tx[s].row # NoRow =>
                bookings'[Target(s)] = bookings[Target(s)] /\ lock'[Target(s)] = s
      PROVE  /\ tx'[s].before # NoRow => bookings'[Target(s)'] # NoRow
             /\ Changes(s)' /\ tx'[s].row # NoRow =>
                   /\ lock'[Target(s)'] = s
                   /\ bookings'[Target(s)'] # NoRow
                   /\ tx'[s].row = Changed(s)'
  <2>1. Target(s)' = Target(s) /\ (Changes(s)' <=> Changes(s)) /\ Target(s) \in Ids
    BY <1>a, UnderwayHas DEF Target, Changes
  <2>2. bookings'[Target(s)] = bookings[Target(s)] => Changed(s)' = Changed(s)
    BY <1>a, <2>1 DEF Changed, Patched, Cancelled
  <2> QED
    BY <1>0, <1>a, <2>1, <2>2 DEF Locked, Changed
<1>b. ASSUME NEW r \in Requests, OthersStay(r), lock' = lock, bookings' = bookings
      PROVE  \A s \in Running \ {r} : s \in Running' =>
             /\ tx'[s].before # NoRow => bookings'[Target(s)'] # NoRow
             /\ Changes(s)' /\ tx'[s].row # NoRow =>
                   /\ lock'[Target(s)'] = s
                   /\ bookings'[Target(s)'] # NoRow
                   /\ tx'[s].row = Changed(s)'
  BY <1>0, <1>a, <1>b, UnderwayHas DEF OthersStay, Locked
<1>1. ASSUME NEW r \in Requests, Refuse(r) PROVE Locked'
  <2>1. /\ UNCHANGED <<op, tx, bookings, lock>> /\ Running' = Running
    BY <1>0, <1>1, RefuseFrame
  <2> QED
    BY <1>0, <2>1 DEF Locked, Target, Changes
<1>2. ASSUME NEW r \in Requests, Statement(r) PROVE Locked'
  <2>0. /\ r \in Running /\ Running' = Running /\ OthersStay(r) /\ op' = op /\ bookings' = bookings
        /\ Target(r) \in Ids
        /\ \A s \in Requests : Target(s)' = Target(s) /\ (Changes(s)' <=> Changes(s)) /\ Changed(s)' = Changed(s)
    BY <1>0, <1>2, StatementFrame, UnderwayHas DEF Target, Changes, Changed
  <2>1. \A s \in Running \ {r} :
           /\ tx'[s] = tx[s]
           /\ tx[s].before # NoRow => bookings[Target(s)] # NoRow
           /\ Changes(s) /\ tx[s].row # NoRow =>
                 lock[Target(s)] = s /\ bookings[Target(s)] # NoRow /\ tx[s].row = Changed(s)
    BY <1>0, <2>0 DEF Locked, OthersStay, Changed, Running
  <2>2. tx'[r].before # NoRow => bookings[Target(r)] # NoRow
    BY <1>0, <1>2, <2>0, StatementLocks DEF Locked
  <2>3. CASE tx'[r].row = tx[r].row /\ lock' = lock
    <3>1. Changes(r) /\ tx[r].row # NoRow =>
             lock[Target(r)] = r /\ bookings[Target(r)] # NoRow /\ tx[r].row = Changed(r)
      BY <1>0, <2>0 DEF Locked, Changed
    <3>2. \A b \in Ids : lock[b] # NoRow =>
             lock[b] \in Running /\ Changes(lock[b]) /\ Target(lock[b]) = b /\ tx'[lock[b]].row # NoRow
      BY <1>0, <2>0, <2>1, <2>3 DEF Locked
    <3> QED
      BY <2>0, <2>1, <2>2, <2>3, <3>1, <3>2 DEF Locked, Changed, Running
  <2>4. CASE Inserts(r) /\ lock' = lock
    <3>1. ~Changes(r)
      BY <2>4 DEF Inserts, Changes
    <3>2. \A b \in Ids : lock[b] # NoRow =>
             lock[b] \in Running /\ Changes(lock[b]) /\ Target(lock[b]) = b /\ tx'[lock[b]].row # NoRow
      BY <1>0, <2>0, <2>1, <3>1 DEF Locked
    <3> QED
      BY <2>0, <2>1, <2>2, <2>4, <3>1, <3>2 DEF Locked, Changed, Running
  <2>5. CASE /\ Changes(r) /\ lock[Target(r)] = NoRow /\ lock' = [lock EXCEPT ![Target(r)] = r]
             /\ bookings[Target(r)] # NoRow /\ tx'[r].row = Changed(r) /\ tx'[r].row # NoRow
    <3>1. lock'[Target(r)] = r /\ \A b \in Ids \ {Target(r)} : lock'[b] = lock[b]
      BY <1>0, <2>0, <2>5
    <3>2. \A b \in Ids : lock'[b] # NoRow =>
             lock'[b] \in Running /\ Changes(lock'[b]) /\ Target(lock'[b]) = b /\ tx'[lock'[b]].row # NoRow
      <4> SUFFICES ASSUME NEW b \in Ids, lock'[b] # NoRow
                   PROVE  /\ lock'[b] \in Running /\ Changes(lock'[b]) /\ Target(lock'[b]) = b
                          /\ tx'[lock'[b]].row # NoRow
        OBVIOUS
      <4>1. CASE b = Target(r)
        BY <2>0, <2>5, <3>1, <4>1
      <4>2. CASE b # Target(r)
        <5>1. /\ lock'[b] = lock[b] /\ lock[b] \in Running /\ Changes(lock[b]) /\ Target(lock[b]) = b
              /\ tx[lock[b]].row # NoRow
          BY <1>0, <3>1, <4>2 DEF Locked
        <5> QED
          BY <2>0, <2>1, <2>5, <5>1
      <4> QED
        BY <4>1, <4>2
    <3>3. \A s \in Running \ {r} : Changes(s) /\ tx[s].row # NoRow => lock'[Target(s)] = s
      <4> SUFFICES ASSUME NEW s \in Running \ {r}, Changes(s), tx[s].row # NoRow
                   PROVE  lock'[Target(s)] = s
        OBVIOUS
      <4>1. Target(s) \in Ids /\ s # NoRow
        BY UnderwayHas, SentinelsDiffer DEF Ids
      <4> QED
        BY <2>1, <2>5, <3>1, <4>1
    <3> QED
      BY <2>0, <2>1, <2>2, <2>5, <3>1, <3>2, <3>3 DEF Locked, Changed, Running
  <2> QED
    BY <1>2, <2>3, <2>4, <2>5, StatementLocks
<1>3. ASSUME NEW r \in Requests, Ends(r) \/ Abort(r) PROVE Locked'
  <2>0. /\ r \in Running /\ Running' = Running \ {r} /\ OthersStay(r) /\ op' = op /\ tx' = tx
        /\ lock' = Unlocked(r)
    BY <1>0, <1>3, EndFrame
  <2>1. /\ \A b \in Ids : bookings[b] # NoRow => bookings'[b] # NoRow
        /\ \A s \in Running \ {r} : Changes(s) /\ tx[s].row # NoRow =>
              bookings'[Target(s)] = bookings[Target(s)] /\ lock'[Target(s)] = s
    <3>1. CASE Ends(r)
      BY <3>1, EndWrites
    <3>2. CASE Abort(r)
      <4>1. bookings' = bookings
        BY <3>2 DEF Abort
      <4>2. ASSUME NEW s \in Running \ {r}, Changes(s), tx[s].row # NoRow
            PROVE  lock'[Target(s)] = s
        BY <1>0, <2>0, <4>2, UnderwayHas DEF Locked, Unlocked
      <4> QED
        BY <4>1, <4>2
    <3> QED
      BY <1>3, <3>1, <3>2
  <2>2. \A s \in Running' :
           /\ tx'[s].before # NoRow => bookings'[Target(s)'] # NoRow
           /\ Changes(s)' /\ tx'[s].row # NoRow =>
                 /\ lock'[Target(s)'] = s
                 /\ bookings'[Target(s)'] # NoRow
                 /\ tx'[s].row = Changed(s)'
    BY <1>a, <2>0, <2>1
  <2>3. \A b \in Ids : lock'[b] # NoRow =>
           /\ lock'[b] = lock[b] /\ lock[b] \in Running' /\ Changes(lock[b]) /\ Target(lock[b]) = b
           /\ tx'[lock[b]].row # NoRow
    <3>1. \A b \in Ids : lock'[b] # NoRow => lock'[b] = lock[b] /\ lock[b] # r
      BY <2>0 DEF Unlocked
    <3> QED
      BY <1>0, <2>0, <3>1 DEF Locked
  <2> QED
    BY <2>0, <2>2, <2>3 DEF Locked, Changed, Changes, Target
<1>4. ASSUME NEW r \in Requests, NEW o \in Ops, Start(r, o) PROVE Locked'
  <2>0. /\ Running' = Running \cup {r} /\ r \notin Running /\ OthersStay(r)
        /\ UNCHANGED <<bookings, lock>>
        /\ tx'[r] = [Idle EXCEPT !.customer = IF o.kind = "create" THEN o.customer ELSE NoRow, !.began = clock]
    BY <1>0, <1>4, StartFrame
  <2>1. tx'[r].before = NoRow /\ tx'[r].row = NoRow
    BY <2>0 DEF Idle
  <2>2. \A s \in Running' :
           /\ tx'[s].before # NoRow => bookings'[Target(s)'] # NoRow
           /\ Changes(s)' /\ tx'[s].row # NoRow =>
                 /\ lock'[Target(s)'] = s
                 /\ bookings'[Target(s)'] # NoRow
                 /\ tx'[s].row = Changed(s)'
    BY <1>b, <2>0, <2>1
  <2>3. \A b \in Ids : lock[b] # NoRow =>
           lock[b] \in Running /\ Changes(lock[b])' /\ Target(lock[b])' = b /\ tx'[lock[b]].row # NoRow
    BY <1>0, <2>0 DEF Locked, Changes, Target, OthersStay, Running
  <2> QED
    BY <2>0, <2>2, <2>3 DEF Locked, Changed
<1>5. CASE UNCHANGED vars
  BY <1>0, <1>5 DEF vars, Running, Locked, Target, Changes
<1> QED
  BY <1>1, <1>2, <1>3, <1>4, <1>5, NextSplit

-----------------------------------------------------------------------------
(* Rows, entries and customers. *)

LEMMA TablesStill ==
    ASSUME IInv, [Next]_vars
    PROVE  (\E r \in Requests : Ends(r)) \/ UNCHANGED <<bookings, customers, audit>>
<1>1. ASSUME NEW r \in Requests, Refuse(r) PROVE UNCHANGED <<bookings, customers, audit>>
  BY <1>1 DEF Refuse
<1>2. ASSUME NEW r \in Requests, Statement(r) PROVE UNCHANGED <<bookings, customers, audit>>
  BY <1>2, StatementFrame DEF IInv
<1>3. ASSUME NEW r \in Requests, Abort(r) PROVE UNCHANGED <<bookings, customers, audit>>
  BY <1>3 DEF Abort
<1>4. ASSUME NEW r \in Requests, NEW o \in Ops, Start(r, o) PROVE UNCHANGED <<bookings, customers, audit>>
  BY <1>4 DEF Start
<1> QED
  BY <1>1, <1>2, <1>3, <1>4, NextSplit DEF vars

\* Requests keep what they were asked and, when they are done, their answer.
LEMMA RequestsStay ==
    ASSUME IInv, [Next]_vars, NEW s \in Requests
    PROVE  /\ op[s] # NoRow => op'[s] = op[s]
           /\ pc[s] = "done" => pc'[s] = "done" /\ op'[s] = op[s] /\ answer'[s] = answer[s]
           /\ overlaps[s] \subseteq overlaps'[s]
           /\ ~Ends(s) => answer'[s] \in {answer[s], "error", "invalid"}
<1>0. TypeOK /\ Requested
  BY DEF IInv
<1>2. CASE \E r \in Requests : Refuse(r)
  <2>1. PICK r \in Requests : Refuse(r)
    BY <1>2
  <2>2. pc[r] = "new" /\ answer'[r] = "invalid" /\ OthersStay(r)
        /\ UNCHANGED <<op, tx, overlaps>> /\ pc'[r] = "done"
    BY <1>0, <2>1, RefuseFrame
  <2> QED
    BY <2>2 DEF OthersStay
<1>3. CASE \E r \in Requests : Statement(r)
  <2>1. PICK r \in Requests : Statement(r)
    BY <1>3
  <2>2. r \in Running /\ OthersStay(r) /\ op' = op /\ answer' = answer /\ overlaps' = overlaps
        /\ pc'[r] # "done"
    BY <1>0, <2>1, StatementFrame
  <2> QED
    BY <2>2 DEF OthersStay, Running
<1>4. CASE \E r \in Requests : Ends(r) \/ Abort(r)
  <2>1. PICK r \in Requests : Ends(r) \/ Abort(r)
    BY <1>4
  <2>2. r \in Running /\ OthersStay(r) /\ op' = op /\ tx' = tx /\ overlaps' = overlaps
    BY <1>0, <2>1, EndFrame
  <2>3. Abort(r) => answer'[r] = "error"
    BY <1>0 DEF Abort, TypeOK
  <2> QED
    BY <2>1, <2>2, <2>3 DEF OthersStay, Running
<1>5. CASE \E r \in Requests, o \in Ops : Start(r, o)
  <2>1. PICK r \in Requests, o \in Ops : Start(r, o)
    BY <1>5
  <2>2. pc[r] = "new" /\ OthersStay(r) /\ answer' = answer /\ overlaps'[r] = Running /\ pc'[r] # "done"
        /\ \A q \in Requests \ {r} :
              overlaps'[q] = IF q \in Running THEN overlaps[q] \cup {r} ELSE overlaps[q]
    BY <1>0, <2>1, StartFrame
  <2>3. op[r] = NoRow /\ overlaps[r] = {}
    BY <1>0, <2>2 DEF Requested
  <2> QED
    BY <2>2, <2>3 DEF OthersStay
<1>6. CASE UNCHANGED vars
  BY <1>6 DEF vars
<1> QED
  BY <1>2, <1>3, <1>4, <1>5, <1>6, NextSplit

LEMMA CommittedStays ==
    ASSUME IInv, [Next]_vars, NEW s, Committed(s)
    PROVE  Committed(s)' /\ op'[s] = op[s] /\ answer'[s] = answer[s]
BY RequestsStay DEF Committed

\* The log after a commit.
LEMMA AuditGrows ==
    ASSUME IInv, NEW r \in Requests, Ends(r)
    PROVE  /\ Len(audit) \in Nat /\ DOMAIN audit = 1..Len(audit)
           /\ \/ /\ Writes(r) /\ tx[r].row # NoRow
                 /\ Len(audit') = Len(audit) + 1 /\ DOMAIN audit' = 1..(Len(audit) + 1)
                 /\ audit'[Len(audit) + 1] = AuditEntry(r)
                 /\ \A i \in 1..Len(audit) : audit'[i] = audit[i]
              \/ (~Writes(r) \/ tx[r].row = NoRow) /\ audit' = audit
<1>0. /\ r \in Running /\ Underway(r) /\ tx[r] \in Tx /\ pc[r] = "commit" /\ audit \in Seq(Entry)
      /\ audit' = IF tx[r].entry = NoRow THEN audit ELSE Append(audit, tx[r].entry)
  BY EndFrame, EndTyped, UnderwayHas DEF IInv, TypeOK
<1>1. Len(audit) \in Nat /\ DOMAIN audit = 1..Len(audit)
  BY <1>0, LenProperties
<1>2. CASE Writes(r) /\ tx[r].row # NoRow
  <2>1. tx[r].entry = AuditEntry(r) /\ AuditEntry(r) # NoRow
    <3>1. tx[r].entry = AuditEntry(r)
      BY <1>0, <1>2 DEF Underway
    <3>2. AuditEntry(r) # NoRow
      <4>1. op[r].kind \in {"create", "portal", "patch"} /\ op[r] \in Ops
        BY <1>0, <1>2 DEF Writes, Underway
      <4>2. op[r].kind = "patch" => tx[r].before # NoRow
        BY <1>0, <1>2 DEF Underway
      <4>3. Target(r) \in Ids
        BY <1>0, <4>1, TargetIsId DEF IInv
      <4>4. AuditEntry(r) \in Entry
        BY <1>0, <1>2, <4>3 DEF AuditEntry, Entry, Tx, Ids
      <4> QED
        BY <4>4, SentinelsDiffer
    <3> QED
      BY <3>1, <3>2
  <2>2. AuditEntry(r) \in Entry /\ audit' = Append(audit, AuditEntry(r))
    BY <1>0, <2>1 DEF Tx
  <2>3. /\ audit' \in Seq(Entry) /\ Len(audit') = Len(audit) + 1
        /\ \A i \in 1..Len(audit) : audit'[i] = audit[i]
        /\ audit'[Len(audit) + 1] = AuditEntry(r)
    BY <1>0, <2>2, AppendProperties
  <2>4. DOMAIN audit' = 1..(Len(audit) + 1)
    BY <2>3, LenProperties
  <2> QED
    BY <1>1, <1>2, <2>3, <2>4
<1>3. CASE ~(Writes(r) /\ tx[r].row # NoRow)
  <2>1. tx[r].entry = NoRow
    BY <1>0, <1>3 DEF Underway
  <2> QED
    BY <1>0, <1>1, <1>3, <2>1
<1> QED
  BY <1>2, <1>3

LEMMA InsertedStep == IInv /\ [Next]_vars => Inserted'
<1> SUFFICES ASSUME IInv, [Next]_vars PROVE Inserted'
  OBVIOUS
<1>0. TypeOK /\ Inserted
  BY DEF IInv, Tables
<1>1. \A s : Committed(s) => Committed(s)' /\ op'[s] = op[s]
  BY CommittedStays
<1>2. CASE UNCHANGED <<bookings, customers, audit>>
  BY <1>0, <1>1, <1>2 DEF Inserted, Inserts
<1>3. ASSUME NEW r \in Requests, Ends(r) PROVE Inserted'
  <2>0. /\ r \in Running /\ op[r] \in Ops /\ Underway(r) /\ tx[r] \in Tx /\ op' = op /\ pc'[r] = "done"
        /\ pc[r] = "commit"
    BY <1>0, <1>3, EndFrame, EndTyped, UnderwayHas
  <2>1. Committed(r)'
    BY <2>0 DEF Committed
  <2>2. \A b \in Ids : bookings'[b] # NoRow => b \in Seeds \/ (Committed(b)' /\ Inserts(b)')
    <3>1. ASSUME NEW b \in Ids, bookings'[b] # NoRow, bookings[b] = NoRow
          PROVE  b = r /\ Inserts(r)
      <4>1. b = Target(r) /\ tx[r].row # NoRow
        BY <1>3, <3>1, EndWrites
      <4>2. ~Changes(r)
        BY <1>3, <3>1, <4>1, EndWrites
      <4>3. op[r].kind # "customer"
        BY <2>0, <4>1 DEF Underway
      <4> QED
        BY <2>0, <4>1, <4>2, <4>3, OpShape, TargetIsId, <1>0 DEF Inserts, Changes
    <3> QED
      BY <1>0, <1>1, <2>0, <2>1, <3>1 DEF Inserted, Inserts
  <2>3. \A c \in Ids : customers'[c] # NoRow =>
           c \in Seeds \/ (Committed(c)' /\ op'[c].kind \in {"portal", "customer"} /\ customers'[c] = op'[c].email)
    <3>1. customers' = IF tx[r].person = NoRow THEN customers ELSE [customers EXCEPT ![r] = tx[r].person]
      BY <1>3, EndTyped
    <3>2. tx[r].person # NoRow => op[r].kind \in {"portal", "customer"} /\ tx[r].person = op[r].email
      BY <2>0 DEF IInv, CustomerFound, Found
    <3>3. customers = [c \in Ids |-> customers[c]]
      BY <1>0 DEF TypeOK
    <3> QED
      BY <1>0, <1>1, <2>0, <2>1, <3>1, <3>2, <3>3 DEF Inserted
  <2>4. \A c \in Seeds : customers'[c] # NoRow
    <3>1. customers' = IF tx[r].person = NoRow THEN customers ELSE [customers EXCEPT ![r] = tx[r].person]
      BY <1>3, EndTyped
    <3> QED
      BY <1>0, <3>1, BookingsAssumption DEF TypeOK, Inserted, Ids
  <2> QED
    BY <2>2, <2>3, <2>4 DEF Inserted
<1> QED
  BY <1>2, <1>3, TablesStill

LEMMA WholeStep == IInv /\ [Next]_vars => Whole'
<1> SUFFICES ASSUME IInv, [Next]_vars PROVE Whole'
  OBVIOUS
<1>0. TypeOK /\ Requested /\ Whole /\ Inserted
  BY DEF IInv, Tables
<1>1. \A s : Committed(s) => Committed(s)' /\ op'[s] = op[s]
  BY CommittedStays
\* Nothing of a request is there before it commits.
<1>2. ASSUME NEW s \in Requests, pc[s] # "done"
      PROVE  bookings[s] = NoRow /\ customers[s] = NoRow /\ ~Logged(s)
  BY <1>0, <1>2, BookingsAssumption DEF Inserted, Whole, Logged, Committed, Ids
<1>3. CASE UNCHANGED <<bookings, customers, audit>> /\ ~\E r \in Requests : Ends(r)
  <2>1. \A i \in DOMAIN audit : \A s : s = audit[i].id =>
           (s \in Seeds /\ audit[i].action = "CREATE") \/ (Committed(s)' /\ Writes(s)')
    BY <1>0, <1>1 DEF Whole, Writes
  <2>2. ASSUME NEW s \in Requests, op'[s] # NoRow
        PROVE  /\ Inserts(s)' => (bookings'[s] # NoRow <=> Logged(s)')
               /\ op'[s].kind = "portal" /\ customers'[s] # NoRow => bookings'[s] # NoRow
               /\ Inserts(s)' /\ answer'[s] = "created" => Logged(s)'
               /\ op'[s].kind = "patch" /\ answer'[s] = "updated" => Logged(s)'
    <3>1. Logged(s)' <=> Logged(s)
      BY <1>3 DEF Logged
    <3>2. answer'[s] \in {answer[s], "error", "invalid"}
      BY <1>3, RequestsStay
    <3>3. CASE op[s] = NoRow
      <4>1. pc[s] = "new"
        <5>1. pc[s] = "done" => op'[s] = op[s]
          BY RequestsStay
        <5>2. s \in Running => op[s] # NoRow
          BY UnderwayHas, SentinelsDiffer
        <5> QED
          BY <2>2, <3>3, <5>1, <5>2 DEF Running
      <4>2. answer[s] = "none"
        BY <1>0, <4>1 DEF Requested
      <4> QED
        BY <1>2, <1>3, <3>1, <3>2, <4>1, <4>2
    <3>4. CASE op[s] # NoRow
      <4>1. op'[s] = op[s]
        BY <3>4, RequestsStay
      <4> QED
        BY <1>0, <1>3, <3>1, <3>2, <3>4, <4>1 DEF Whole, Inserts
    <3> QED
      BY <3>3, <3>4
  <2> QED
    BY <1>3, <2>1, <2>2 DEF Whole
<1>4. ASSUME NEW r \in Requests, Ends(r) PROVE Whole'
  <2>0. /\ r \in Running /\ op[r] \in Ops /\ Underway(r) /\ tx[r] \in Tx /\ op' = op /\ pc'[r] = "done"
        /\ pc[r] = "commit" /\ OthersStay(r) /\ Committed(r)'
    BY <1>0, <1>4, EndFrame, EndTyped, UnderwayHas DEF Committed
  <2>1. \A i \in DOMAIN audit' :
           \A s : s = audit'[i].id =>
              (s \in Seeds /\ audit'[i].action = "CREATE") \/ (Committed(s)' /\ Writes(s)')
    <3>1. AuditEntry(r).id = r
      BY DEF AuditEntry
    <3>2. \A s : Writes(s)' <=> Writes(s)
      BY <2>0 DEF Writes
    <3>3. \A i \in DOMAIN audit' : (i \in DOMAIN audit /\ audit'[i] = audit[i])
                                   \/ (audit'[i].id = r /\ Writes(r))
      BY <1>4, <3>1, AuditGrows
    <3> QED
      BY <1>0, <1>1, <2>0, <3>2, <3>3 DEF Whole
  <2>2. \A s \in Requests : Logged(s)' <=> Logged(s) \/ (s = r /\ Writes(r) /\ tx[r].row # NoRow)
    <3>1. AuditEntry(r).id = r
      BY DEF AuditEntry
    <3> QED
      BY <1>4, <3>1, AuditGrows DEF Logged
  <2>3. /\ customers' = IF tx[r].person = NoRow THEN customers ELSE [customers EXCEPT ![r] = tx[r].person]
        /\ \E a \in {Reply(r), "error"} : answer' = [answer EXCEPT ![r] = a]
    BY <1>4, EndTyped
  <2>4. ASSUME NEW s \in Requests, op'[s] # NoRow
        PROVE  /\ Inserts(s) => (bookings'[s] # NoRow <=> Logged(s)')
               /\ op[s].kind = "portal" /\ customers'[s] # NoRow => bookings'[s] # NoRow
               /\ Inserts(s) /\ answer'[s] = "created" => Logged(s)'
               /\ op[s].kind = "patch" /\ answer'[s] = "updated" => Logged(s)'
    <3>1. CASE s = r
      <4>1. Inserts(r) => tx[r].row # NoRow /\ Writes(r) /\ Target(r) = r
        BY <2>0 DEF Underway, Inserts, Writes, Target
      <4>2. Inserts(r) => bookings'[r] # NoRow /\ Logged(r)'
        BY <1>4, <2>2, <4>1, EndWrites
      <4>3. op[r].kind = "patch" /\ answer'[r] = "updated" => tx[r].row # NoRow
        BY <1>0, <2>3 DEF TypeOK, Reply
      <4> QED
        BY <2>2, <3>1, <4>2, <4>3 DEF Inserts, Writes
    <3>2. CASE s # r
      <4>1. answer'[s] = answer[s] /\ customers'[s] = customers[s] /\ op[s] # NoRow /\ s \in Ids
        BY <1>0, <2>0, <2>3, <2>4, <3>2 DEF OthersStay, TypeOK, Ids
      <4>2. bookings'[s] # NoRow <=> bookings[s] # NoRow
        <5>1. CASE s = Target(r) /\ tx[r].row # NoRow
          <6>1. Changes(r)
            BY <1>0, <2>0, <3>2, <5>1, TargetIsId
          <6> QED
            BY <1>4, <4>1, <5>1, <6>1, EndWrites
        <5>2. CASE ~(s = Target(r) /\ tx[r].row # NoRow)
          BY <1>4, <4>1, <5>2, EndWrites
        <5> QED
          BY <5>1, <5>2
      <4>3. Logged(s)' <=> Logged(s)
        BY <2>2, <3>2
      <4> QED
        BY <1>0, <4>1, <4>2, <4>3 DEF Whole
    <3> QED
      BY <3>1, <3>2
  <2>5. \A s : Inserts(s)' <=> Inserts(s)
    BY <2>0 DEF Inserts
  <2> QED
    BY <2>0, <2>1, <2>4, <2>5 DEF Whole
<1> QED
  BY <1>3, <1>4, TablesStill

-----------------------------------------------------------------------------
(* The log explains the rows. *)

\* What a log reports stays so when an entry is added after it, or one of
\* another booking.
LEMMA ReportedStays ==
    ASSUME NEW log, NEW longer, NEW n \in Nat, DOMAIN log = 1..n, DOMAIN longer = 1..(n + 1),
           \A i \in 1..n : longer[i] = log[i]
    PROVE  /\ \A b, row : \A k \in 1..(n + 1) : Reported(log, b, k, row) => Reported(longer, b, k, row)
           /\ \A b, row : longer[n + 1].booking # b /\ Reported(log, b, n + 1, row)
                             => Reported(longer, b, n + 2, row)
           /\ \A row : Explains(longer[n + 1], row) => Reported(longer, longer[n + 1].booking, n + 2, row)
<1>1. ASSUME NEW b, NEW row, NEW k \in 1..(n + 1), Reported(log, b, k, row)
      PROVE  Reported(longer, b, k, row)
  <2>1. PICK i \in 1..n : LastEntry(log, i, b, k) /\ Explains(log[i], row)
    BY <1>1 DEF Reported
  <2>2. \A j \in 1..(n + 1) : j < k => j \in 1..n
    BY <1>1
  <2>3. LastEntry(longer, i, b, k)
    BY <2>1, <2>2 DEF LastEntry
  <2> QED
    BY <2>1, <2>3 DEF Reported
<1>2. ASSUME NEW b, NEW row, longer[n + 1].booking # b, Reported(log, b, n + 1, row)
      PROVE  Reported(longer, b, n + 2, row)
  <2>1. PICK i \in 1..n : LastEntry(log, i, b, n + 1) /\ Explains(log[i], row)
    BY <1>2 DEF Reported
  <2>2. \A j \in 1..(n + 1) : longer[j].booking = b => j \in 1..n
    BY <1>2
  <2>3. LastEntry(longer, i, b, n + 2)
    BY <2>1, <2>2 DEF LastEntry
  <2> QED
    BY <2>1, <2>3 DEF Reported
<1>3. ASSUME NEW row, Explains(longer[n + 1], row)
      PROVE  Reported(longer, longer[n + 1].booking, n + 2, row)
  <2>1. LastEntry(longer, n + 1, longer[n + 1].booking, n + 2)
    BY DEF LastEntry
  <2>2. n + 1 \in DOMAIN longer
    OBVIOUS
  <2> QED
    BY <1>3, <2>1, <2>2 DEF Reported
<1> QED
  BY <1>1, <1>2, <1>3

LEMMA ExplainsCancelled ==
    ASSUME NEW e, NEW row \in Row, e.new \in Row, Explains(e, row)
    PROVE  Explains(e, Cancelled(row))
BY RowsStayRows DEF Explains

LEMMA EntryShape ==
    ASSUME TypeOK, NEW i \in DOMAIN audit
    PROVE  audit[i] \in Entry /\ audit[i].new \in Row /\ audit[i].booking \in Ids
<1>1. audit \in Seq(Entry)
  BY DEF TypeOK
<1>2. i \in 1..Len(audit)
  BY <1>1, LenProperties
<1>3. audit[i] \in Entry
  BY <1>1, <1>2, ElementOfSeq
<1> QED
  BY <1>3 DEF Entry

LEMMA ExplainedStep == IInv /\ [Next]_vars => Explained'
<1> SUFFICES ASSUME IInv, [Next]_vars PROVE Explained'
  OBVIOUS
<1>0. TypeOK /\ Explained
  BY DEF IInv, Tables
<1>1. CASE UNCHANGED <<bookings, customers, audit>>
  BY <1>0, <1>1 DEF Explained
<1>2. ASSUME NEW r \in Requests, Ends(r) PROVE Explained'
  <2> DEFINE n == Len(audit)
  <2>0. /\ r \in Running /\ op[r] \in Ops /\ Underway(r) /\ tx[r] \in Tx /\ Target(r) \in Ids
    BY <1>0, <1>2, EndFrame, UnderwayHas
  <2>1. n \in Nat /\ DOMAIN audit = 1..n
    BY <1>2, AuditGrows
  <2>2. CASE /\ Writes(r) /\ tx[r].row # NoRow
             /\ Len(audit') = n + 1 /\ DOMAIN audit' = 1..(n + 1)
             /\ audit'[n + 1] = AuditEntry(r)
             /\ \A i \in 1..n : audit'[i] = audit[i]
    <3>1. AuditEntry(r).booking = Target(r) /\ AuditEntry(r).new = tx[r].row
      BY DEF AuditEntry
    <3>2. ASSUME NEW b \in Ids, bookings'[b] # NoRow
          PROVE  Reported(audit', b, n + 2, bookings'[b])
      <4>1. CASE b = Target(r)
        <5>1. bookings'[b] = tx[r].row
          BY <1>2, <2>2, <4>1, EndWrites
        <5>2. Explains(audit'[n + 1], bookings'[b])
          BY <2>2, <3>1, <5>1 DEF Explains
        <5>3. \A row : Explains(audit'[n + 1], row) => Reported(audit', audit'[n + 1].booking, n + 2, row)
          BY <2>1, <2>2, ReportedStays
        <5>4. audit'[n + 1].booking = b
          BY <2>2, <3>1, <4>1
        <5> QED
          BY <5>2, <5>3, <5>4
      <4>2. CASE b # Target(r)
        <5>1. bookings'[b] = bookings[b]
          BY <1>2, <4>2, EndWrites
        <5>2. Reported(audit, b, n + 1, bookings[b])
          BY <1>0, <3>2, <5>1 DEF Explained
        <5> QED
          BY <2>1, <2>2, <3>1, <4>2, <5>1, <5>2, ReportedStays
      <4> QED
        BY <4>1, <4>2
    <3>3. Len(audit') + 1 = n + 2
      BY <2>1, <2>2
    <3> QED
      BY <3>2, <3>3 DEF Explained
  <2>3. CASE (~Writes(r) \/ tx[r].row = NoRow) /\ audit' = audit
    <3>1. ASSUME NEW b \in Ids, bookings'[b] # NoRow
          PROVE  Reported(audit, b, n + 1, bookings'[b])
      <4>1. CASE bookings'[b] = bookings[b]
        BY <1>0, <3>1, <4>1 DEF Explained
      <4>2. CASE bookings'[b] # bookings[b]
        <5>1. b = Target(r) /\ tx[r].row # NoRow /\ bookings'[b] = tx[r].row
          BY <1>2, <4>2, EndWrites
        <5>2. op[r].kind = "cancel"
          BY <2>0, <2>3, <5>1, OpShape DEF Underway, Writes
        <5>3. bookings[b] # NoRow /\ bookings'[b] = Cancelled(bookings[b])
          BY <1>2, <5>1, <5>2, EndWrites DEF Changes, Changed
        <5>4. Reported(audit, b, n + 1, bookings[b]) /\ bookings[b] \in Row
          BY <1>0, <5>3 DEF Explained, TypeOK
        <5>5. PICK i \in DOMAIN audit : LastEntry(audit, i, b, n + 1) /\ Explains(audit[i], bookings[b])
          BY <5>4 DEF Reported
        <5>6. Explains(audit[i], bookings'[b])
          BY <1>0, <5>3, <5>4, <5>5, ExplainsCancelled, EntryShape
        <5> QED
          BY <5>5, <5>6 DEF Reported
      <4> QED
        BY <4>1, <4>2
    <3> QED
      BY <2>3, <3>1 DEF Explained
  <2> QED
    BY <1>2, <2>2, <2>3, AuditGrows
<1> QED
  BY <1>1, <1>2, TablesStill

-----------------------------------------------------------------------------
(* When the transactions began. *)

\* A transaction keeps the time at which it began.
LEMMA BeganStays ==
    ASSUME IInv, [Next]_vars, NEW s \in Requests, op[s] # NoRow
    PROVE  tx'[s].began = tx[s].began
<1>0. TypeOK /\ Requested
  BY DEF IInv
<1>1. ASSUME NEW r \in Requests, Refuse(r) PROVE tx' = tx
  BY <1>1 DEF Refuse
<1>2. ASSUME NEW r \in Requests, Statement(r) PROVE tx'[s].began = tx[s].began
  BY <1>0, <1>2, StatementFrame DEF OthersStay
<1>3. ASSUME NEW r \in Requests, Ends(r) \/ Abort(r) PROVE tx' = tx
  BY <1>0, <1>3, EndFrame
<1>4. ASSUME NEW r \in Requests, NEW o \in Ops, Start(r, o) PROVE tx'[s].began = tx[s].began
  <2>1. pc[r] = "new" /\ OthersStay(r)
    BY <1>0, <1>4, StartFrame
  <2>2. s # r
    BY <1>0, <2>1 DEF Requested
  <2> QED
    BY <2>1, <2>2 DEF OthersStay
<1>5. CASE UNCHANGED vars
  BY <1>5 DEF vars
<1> QED
  BY <1>1, <1>2, <1>3, <1>4, <1>5, NextSplit

\* Who is asked for nothing, who runs, and the clock, step by step: the times of
\* the requests and the overlaps that follow from them.
LEMMA TimesStep ==
    ASSUME IInv, [Next]_vars
    PROVE  /\ clock' > 0
           /\ \A r \in Requests : op'[r] # NoRow => 0 < tx'[r].began /\ tx'[r].began < clock'
           /\ \A r \in Running' : \A s \in Requests \ {r} :
                 op'[s] # NoRow /\ tx'[s].began >= tx'[r].began => s \in overlaps'[r]
<1> DEFINE Times(rr, oo, tt, cc, vv) ==
              /\ cc > 0
              /\ \A r \in Requests : oo[r] # NoRow => 0 < tt[r].began /\ tt[r].began < cc
              /\ \A r \in rr : \A s \in Requests \ {r} :
                    oo[s] # NoRow /\ tt[s].began >= tt[r].began => s \in vv[r]
<1>0. /\ TypeOK /\ Requested /\ clock \in Nat /\ Running \subseteq Requests
      /\ Times(Running, op, tx, clock, overlaps)
      /\ \A r \in Running : op[r] # NoRow
  <2>1. \A r \in Running : op[r] # NoRow
    BY UnderwayHas, SentinelsDiffer
  <2>2. TypeOK /\ Requested /\ Timed /\ clock \in Nat /\ Running \subseteq Requests
    BY DEF IInv, TypeOK, Running
  <2>3. Times(Running, op, tx, clock, overlaps)
    BY <2>2 DEF Timed
  <2> QED
    BY <2>1, <2>2, <2>3
<1>1. ASSUME Running' \subseteq Running, op' = op, clock' = clock, overlaps' = overlaps,
             \A s \in Requests : op[s] # NoRow => tx'[s].began = tx[s].began
      PROVE  Times(Running', op', tx', clock', overlaps')
  BY <1>0, <1>1
<1>2. ASSUME NEW r \in Requests, NEW o \in Ops, Start(r, o)
      PROVE  Times(Running', op', tx', clock', overlaps')
  <2>1. /\ Running' = Running \cup {r} /\ r \notin Running /\ clock' = clock + 1
        /\ OthersStay(r) /\ op'[r] = o /\ overlaps'[r] = Running
        /\ \A s \in Requests \ {r} :
              overlaps'[s] = IF s \in Running THEN overlaps[s] \cup {r} ELSE overlaps[s]
        /\ tx'[r] = [Idle EXCEPT !.customer = IF o.kind = "create" THEN o.customer ELSE NoRow, !.began = clock]
    BY <1>0, <1>2, StartFrame
  <2>2. tx'[r].began = clock
    BY <2>1 DEF Idle
  <2>3. \A s \in Requests \ {r} : op'[s] = op[s] /\ tx'[s] = tx[s]
    BY <2>1 DEF OthersStay
  <2>4. \A s \in Requests : op'[s] # NoRow => 0 < tx'[s].began /\ tx'[s].began < clock'
    <3> SUFFICES ASSUME NEW s \in Requests, op'[s] # NoRow
                 PROVE  0 < tx'[s].began /\ tx'[s].began < clock'
      OBVIOUS
    <3>1. CASE s = r
      <4>1. clock \in Nat /\ clock > 0 /\ clock' = clock + 1
        BY <1>0, <2>1
      <4> QED
        BY <2>2, <3>1, <4>1
    <3>2. CASE s # r
      <4>1. tx[s].began \in Nat /\ 0 < tx[s].began /\ tx[s].began < clock
        BY <1>0, <2>3, <3>2 DEF TypeOK
      <4> QED
        BY <1>0, <2>1, <2>3, <3>2, <4>1
    <3> QED
      BY <3>1, <3>2
  <2>5. ASSUME NEW q \in Running', NEW s \in Requests \ {q}, op'[s] # NoRow,
               tx'[s].began >= tx'[q].began
        PROVE  s \in overlaps'[q]
    <3>1. CASE q = r
      <4>1. s # r /\ tx[s].began \in Nat /\ tx[s].began < clock /\ tx'[s].began = tx[s].began
        BY <1>0, <2>3, <2>5, <3>1 DEF TypeOK
      <4>2. clock <= tx[s].began
        BY <2>2, <2>5, <3>1, <4>1
      <4> QED
        BY <1>0, <4>1, <4>2
    <3>2. CASE q # r /\ s = r
      BY <1>0, <2>1, <3>2
    <3>3. CASE q # r /\ s # r
      <4>1. q \in Running /\ op[s] # NoRow /\ tx[s].began >= tx[q].began
        BY <1>0, <2>1, <2>3, <2>5, <3>3
      <4> QED
        BY <1>0, <2>1, <3>3, <4>1
    <3> QED
      BY <3>1, <3>2, <3>3
  <2> QED
    BY <1>0, <2>1, <2>4, <2>5
<1>3. ASSUME NEW r \in Requests, Refuse(r) PROVE Times(Running', op', tx', clock', overlaps')
  BY <1>0, <1>1, <1>3, RefuseFrame
<1>4. ASSUME NEW r \in Requests, Statement(r) PROVE Times(Running', op', tx', clock', overlaps')
  BY <1>0, <1>1, <1>4, StatementFrame, BeganStays
<1>5. ASSUME NEW r \in Requests, Ends(r) \/ Abort(r) PROVE Times(Running', op', tx', clock', overlaps')
  BY <1>0, <1>1, <1>5, EndFrame
<1>6. CASE UNCHANGED vars
  BY <1>0, <1>6 DEF vars, Running
<1> QED
  BY <1>2, <1>3, <1>4, <1>5, <1>6, NextSplit

LEMMA TimedStep == IInv /\ [Next]_vars => Timed'
<1> SUFFICES ASSUME IInv, [Next]_vars PROVE Timed'
  OBVIOUS
<1>0. TypeOK /\ Requested /\ Timed /\ Whole
  BY DEF IInv, Tables
\* Whoever has an entry was asked for something, and keeps its time.
<1>1. \A i \in DOMAIN audit : \A s : s = audit[i].id =>
         /\ s \in Requests => op[s] # NoRow /\ tx'[s].began = tx[s].began
                             /\ overlaps[s] \subseteq overlaps'[s]
         /\ s \in Seeds \/ Committed(s)
         /\ s \in Seeds => s \notin Requests
  <2>1. \A i \in DOMAIN audit : audit[i].id \in Seeds \/ Committed(audit[i].id)
    BY <1>0 DEF Whole
  <2>2. \A s \in Requests : Committed(s) => op[s] # NoRow
    BY SentinelsDiffer DEF Committed
  <2> QED
    BY <2>1, <2>2, BeganStays, RequestsStay, BookingsAssumption
\* What holds of the entries that are there goes on.
<1>2. /\ \A i \in DOMAIN audit :
            audit[i].created_at = IF audit[i].id \in Requests THEN tx'[audit[i].id].began ELSE 0
      /\ \A i, j \in DOMAIN audit :
            i < j /\ audit[i].booking = audit[j].booking /\ audit[i].created_at >= audit[j].created_at
               => audit[i].id \in Requests /\ audit[j].id \in overlaps'[audit[i].id]
  <2>1. ASSUME NEW i \in DOMAIN audit
        PROVE  audit[i].created_at = IF audit[i].id \in Requests THEN tx'[audit[i].id].began ELSE 0
    BY <1>0, <1>1 DEF Timed
  <2>2. ASSUME NEW i \in DOMAIN audit, NEW j \in DOMAIN audit, i < j,
               audit[i].booking = audit[j].booking, audit[i].created_at >= audit[j].created_at
        PROVE  audit[i].id \in Requests /\ audit[j].id \in overlaps'[audit[i].id]
    <3>1. audit[i].id \in Requests /\ audit[j].id \in overlaps[audit[i].id]
      BY <1>0, <2>2 DEF Timed
    <3> QED
      BY <1>1, <3>1
  <2> QED
    BY <2>1, <2>2
<1>3. CASE UNCHANGED <<bookings, customers, audit>>
  BY <1>2, <1>3, TimesStep DEF Timed
<1>4. ASSUME NEW r \in Requests, Ends(r) PROVE Timed'
  <2> DEFINE n == Len(audit)
  <2>0. /\ r \in Running /\ tx' = tx /\ overlaps' = overlaps /\ op[r] # NoRow
        /\ tx[r].began \in Nat /\ 0 < tx[r].began
    <3>1. r \in Running /\ tx' = tx /\ overlaps' = overlaps
      BY <1>0, <1>4, EndFrame
    <3>2. op[r] # NoRow
      BY <3>1, UnderwayHas, SentinelsDiffer
    <3> QED
      BY <1>0, <3>1, <3>2 DEF Timed, TypeOK
  <2>1. n \in Nat /\ DOMAIN audit = 1..n
    BY <1>4, AuditGrows
  <2>2. CASE audit' = audit
    BY <1>2, <2>2, TimesStep DEF Timed
  <2>3. CASE /\ Writes(r) /\ tx[r].row # NoRow
             /\ Len(audit') = n + 1 /\ DOMAIN audit' = 1..(n + 1)
             /\ audit'[n + 1] = AuditEntry(r)
             /\ \A i \in 1..n : audit'[i] = audit[i]
    <3>1. audit'[n + 1].id = r /\ audit'[n + 1].created_at = tx[r].began
      BY <2>3 DEF AuditEntry
    <3>2. ASSUME NEW i \in DOMAIN audit'
          PROVE  audit'[i].created_at = IF audit'[i].id \in Requests THEN tx'[audit'[i].id].began ELSE 0
      <4>1. CASE i \in 1..n
        BY <1>2, <2>1, <2>3, <4>1
      <4>2. CASE i = n + 1
        BY <2>0, <3>1, <4>2
      <4> QED
        BY <2>1, <2>3, <4>1, <4>2
    <3>3. ASSUME NEW i \in DOMAIN audit', NEW j \in DOMAIN audit', i < j,
                 audit'[i].booking = audit'[j].booking, audit'[i].created_at >= audit'[j].created_at
          PROVE  audit'[i].id \in Requests /\ audit'[j].id \in overlaps'[audit'[i].id]
      <4>1. i \in 1..n /\ audit'[i] = audit[i]
        BY <2>1, <2>3, <3>3
      <4>2. CASE j \in 1..n
        <5>1. audit'[j] = audit[j] /\ i \in DOMAIN audit /\ j \in DOMAIN audit
          BY <2>1, <2>3, <4>1, <4>2
        <5> QED
          BY <1>2, <3>3, <4>1, <5>1
      <4>3. CASE j = n + 1
        <5> DEFINE s == audit[i].id
        <5>1. audit[i].created_at >= tx[r].began /\ i \in DOMAIN audit
          BY <2>1, <3>1, <3>3, <4>1, <4>3
        <5>2. s \in Requests /\ audit[i].created_at = tx[s].began
          BY <1>0, <2>0, <5>1 DEF Timed
        <5>3. op[s] # NoRow /\ Committed(s)
          BY <1>1, <5>1, <5>2
        <5>4. s # r
          BY <2>0, <5>3 DEF Committed, Running
        <5>5. s \in overlaps[r]
          BY <1>0, <2>0, <5>1, <5>2, <5>3, <5>4 DEF Timed
        <5>6. r \in overlaps[s]
          BY <1>0, <5>2, <5>5 DEF Requested
        <5> QED
          BY <2>0, <3>1, <4>1, <4>3, <5>2, <5>6
      <4> QED
        BY <2>1, <2>3, <4>2, <4>3
    <3> QED
      BY <3>2, <3>3, TimesStep DEF Timed
  <2> QED
    BY <1>4, <2>2, <2>3, AuditGrows
<1> QED
  BY <1>3, <1>4, TablesStill

-----------------------------------------------------------------------------
(* What a PATCH has read. *)

LEMMA DisturbedStays ==
    ASSUME IInv, [Next]_vars
    PROVE  \A r \in Requests : \A b : Disturbed(r, b) => Disturbed(r, b)'
<1> SUFFICES ASSUME NEW r \in Requests, NEW b, Disturbed(r, b)  PROVE Disturbed(r, b)'
  OBVIOUS
<1>1. PICK s \in overlaps[r] : Changes(s) /\ op[s].booking = b
  BY DEF Disturbed
<1>2. s \in Requests /\ op[s] # NoRow
  BY <1>1 DEF IInv, TypeOK, Requested
<1>3. s \in overlaps'[r] /\ op'[s] = op[s]
  BY <1>1, <1>2, RequestsStay
<1> QED
  BY <1>1, <1>3 DEF Disturbed, Changes

\* Who committed an UPDATE is a request.
LEMMA UpdatesAreRequests ==
    ASSUME IInv, NEW i \in DOMAIN audit, audit[i].action = "UPDATE"
    PROVE  audit[i].id \in Requests
BY DEF IInv, Tables, Whole, Committed

OldRead(r) ==
    \/ Reported(audit, Target(r), Len(audit) + 1, tx[r].before)
    \/ Disturbed(r, Target(r))

LEMMA OldReadStays ==
    ASSUME IInv, [Next]_vars, NEW r \in Running, OldRead(r), op'[r] = op[r],
           UNCHANGED audit, tx'[r].before = tx[r].before
    PROVE  OldRead(r)'
<1>1. Target(r)' = Target(r) /\ r \in Requests
  BY DEF Target, Running
<1>2. Disturbed(r, Target(r)) => Disturbed(r, Target(r))'
  <2>1. \A b : Disturbed(r, b) => Disturbed(r, b)'
    BY <1>1, DisturbedStays
  <2> QED
    BY <1>1, <2>1 DEF Disturbed
<1> QED
  BY <1>1, <1>2 DEF OldRead

LEMMA OldKnownStep == IInv /\ [Next]_vars => OldKnown'
<1> SUFFICES ASSUME IInv, [Next]_vars PROVE OldKnown'
  OBVIOUS
<1>0. /\ TypeOK /\ Requested /\ Explained
      /\ \A r \in Running : tx[r].before # NoRow => OldRead(r)
      /\ \A i \in DOMAIN audit : audit[i].action = "UPDATE" =>
            Reported(audit, audit[i].booking, i, audit[i].old) \/ Disturbed(audit[i].id, audit[i].booking)
  BY DEF IInv, Tables, OldKnown, OldRead
\* Entries that are there stay explained.
<1>1. ASSUME UNCHANGED audit
      PROVE  \A i \in DOMAIN audit' : audit'[i].action = "UPDATE" =>
                Reported(audit', audit'[i].booking, i, audit'[i].old) \/ Disturbed(audit[i].id, audit[i].booking)'
  <2>1. \A i \in DOMAIN audit : \A id, b : id = audit[i].id /\ b = audit[i].booking /\ audit[i].action = "UPDATE" =>
            (Disturbed(id, b) => Disturbed(id, b)')
    BY DisturbedStays, UpdatesAreRequests
  <2> QED
    BY <1>0, <1>1, <2>1 DEF Disturbed
<1>2. ASSUME NEW r \in Requests, Refuse(r) PROVE OldKnown'
  <2>1. UNCHANGED <<op, tx, audit>> /\ Running' = Running
    BY <1>0, <1>2, RefuseFrame
  <2>2. \A s \in Running : tx[s].before # NoRow => OldRead(s)'
    BY <1>0, <2>1, OldReadStays
  <2> QED
    BY <1>1, <2>1, <2>2 DEF OldKnown, OldRead
<1>3. ASSUME NEW r \in Requests, Statement(r) PROVE OldKnown'
  <2>1. /\ UNCHANGED <<op, audit, bookings>> /\ Running' = Running /\ OthersStay(r) /\ r \in Running
        /\ Running \subseteq Requests
    BY <1>0, <1>3, StatementFrame DEF Running
  <2>2. \A s \in Running \ {r} : tx'[s].before # NoRow => OldRead(s)'
    BY <1>0, <2>1, OldReadStays DEF OthersStay
  <2>3. tx'[r].before # NoRow => OldRead(r)'
    <3>1. CASE tx'[r].before = tx[r].before
      BY <1>0, <2>1, <3>1, OldReadStays
    <3>2. CASE tx'[r].before = bookings[Target(r)]
      <4>1. Target(r)' = Target(r) /\ Target(r) \in Ids
        BY <2>1, UnderwayHas DEF Target
      <4> QED
        BY <1>0, <2>1, <3>2, <4>1 DEF Explained, OldRead
    <3> QED
      BY <1>3, <3>1, <3>2, StatementLocks
  <2> QED
    BY <1>1, <2>1, <2>2, <2>3 DEF OldKnown, OldRead
<1>4. ASSUME NEW r \in Requests, Abort(r) PROVE OldKnown'
  <2>1. /\ UNCHANGED <<op, tx, audit>> /\ Running' = Running \ {r}
    BY <1>0, <1>4, EndFrame DEF Abort
  <2>2. \A s \in Running : tx[s].before # NoRow => OldRead(s)'
    BY <1>0, <2>1, OldReadStays
  <2> QED
    BY <1>1, <2>1, <2>2 DEF OldKnown, OldRead
<1>5. ASSUME NEW r \in Requests, NEW o \in Ops, Start(r, o) PROVE OldKnown'
  <2>1. /\ UNCHANGED audit /\ Running' = Running \cup {r} /\ OthersStay(r) /\ r \notin Running
        /\ tx'[r] = [Idle EXCEPT !.customer = IF o.kind = "create" THEN o.customer ELSE NoRow, !.began = clock]
        /\ Running \subseteq Requests
    BY <1>0, <1>5, StartFrame DEF Running
  <2>2. \A s \in Running : tx'[s].before # NoRow => OldRead(s)'
    BY <1>0, <2>1, OldReadStays DEF OthersStay
  <2>3. tx'[r].before = NoRow
    BY <2>1 DEF Idle
  <2> QED
    BY <1>1, <2>1, <2>2, <2>3 DEF OldKnown, OldRead
<1>6. ASSUME NEW r \in Requests, Ends(r) PROVE OldKnown'
  <2> DEFINE n == Len(audit)
  <2>0. /\ r \in Running /\ Running' = Running \ {r} /\ op' = op /\ tx' = tx /\ overlaps' = overlaps
        /\ op[r] \in Ops /\ Target(r) \in Ids /\ Underway(r) /\ Running \subseteq Requests
    BY <1>0, <1>6, EndFrame, UnderwayHas DEF Running
  <2>1. n \in Nat /\ DOMAIN audit = 1..n
    BY <1>6, AuditGrows
  <2>2. CASE audit' = audit
    <3>1. \A s \in Running : tx[s].before # NoRow => OldRead(s)'
      BY <1>0, <2>0, <2>2, OldReadStays
    <3> QED
      BY <1>1, <2>0, <2>2, <3>1 DEF OldKnown, OldRead
  <2>3. CASE /\ Writes(r) /\ tx[r].row # NoRow
             /\ Len(audit') = n + 1 /\ DOMAIN audit' = 1..(n + 1)
             /\ audit'[n + 1] = AuditEntry(r)
             /\ \A i \in 1..n : audit'[i] = audit[i]
    <3>1. /\ AuditEntry(r).booking = Target(r) /\ AuditEntry(r).old = tx[r].before
          /\ AuditEntry(r).id = r
          /\ AuditEntry(r).action = "UPDATE" => op[r].kind = "patch"
      BY DEF AuditEntry
    <3>2. /\ \A q, b : Disturbed(q, b)' <=> Disturbed(q, b)
          /\ \A q : Target(q)' = Target(q)
      BY <2>0 DEF Disturbed, Changes, Target
    <3>3. \A s \in Running' : tx'[s].before # NoRow => OldRead(s)'
      <4> SUFFICES ASSUME NEW s \in Running \ {r}, tx[s].before # NoRow  PROVE OldRead(s)'
        BY <2>0
      <4>1. Len(audit') + 1 = n + 2
        BY <2>1, <2>3
      <4>2. CASE Target(s) = Target(r)
        <5>1. bookings[Target(r)] # NoRow
          BY <4>2 DEF IInv, Locked
        <5>2. Changes(r)
          <6>1. ~Changes(r) => Inserts(r) /\ Target(r) = r
            BY <1>0, <2>0, <2>3, TargetIsId DEF Writes, Inserts, Changes
          <6> QED
            BY <1>6, <5>1, <6>1, EndWrites
        <5>3. r \in overlaps[s] /\ op[r].booking = Target(r)
          BY <1>0, <2>0, <5>2, TargetIsId DEF Requested
        <5>4. Disturbed(s, Target(s))
          BY <4>2, <5>2, <5>3 DEF Disturbed
        <5> QED
          BY <2>0, <3>2, <5>4 DEF OldRead, Disturbed
      <4>3. CASE Target(s) # Target(r)
        <5>1. CASE Disturbed(s, Target(s))
          BY <2>0, <3>2, <5>1 DEF OldRead, Disturbed
        <5>2. CASE Reported(audit, Target(s), n + 1, tx[s].before)
          <6>1. Reported(audit', Target(s), n + 2, tx[s].before)
            BY <2>1, <2>3, <3>1, <4>3, <5>2, ReportedStays
          <6> QED
            BY <2>0, <3>2, <4>1, <6>1 DEF OldRead
        <5> QED
          BY <1>0, <5>1, <5>2 DEF OldRead
      <4> QED
        BY <4>2, <4>3
    <3>4. \A i \in 1..(n + 1) : audit'[i].action = "UPDATE" =>
             \/ Reported(audit', audit'[i].booking, i, audit'[i].old)
             \/ Disturbed(audit'[i].id, audit'[i].booking)
      <4> SUFFICES ASSUME NEW i \in 1..(n + 1), audit'[i].action = "UPDATE"
                   PROVE  \/ Reported(audit', audit'[i].booking, i, audit'[i].old)
                          \/ Disturbed(audit'[i].id, audit'[i].booking)
        OBVIOUS
      <4>1. CASE i \in 1..n
        <5>1. Reported(audit, audit[i].booking, i, audit[i].old) => Reported(audit', audit[i].booking, i, audit[i].old)
          BY <2>1, <2>3, <4>1, ReportedStays
        <5> QED
          BY <1>0, <2>1, <2>3, <4>1, <5>1
      <4>2. CASE i = n + 1
        <5>1. audit'[i] = AuditEntry(r) /\ op[r].kind = "patch"
          BY <2>3, <3>1, <4>2
        <5>2. OldRead(r)
          BY <1>0, <2>0, <2>3, <5>1 DEF Underway
        <5>3. CASE Disturbed(r, Target(r))
          BY <3>1, <5>1, <5>3
        <5>4. CASE Reported(audit, Target(r), n + 1, tx[r].before)
          <6>1. n + 1 \in 1..(n + 1)
            BY <2>1
          <6>2. Reported(audit', Target(r), n + 1, tx[r].before)
            BY <2>1, <2>3, <5>4, <6>1, ReportedStays
          <6> QED
            BY <3>1, <4>2, <5>1, <6>2
        <5> QED
          BY <5>2, <5>3, <5>4 DEF OldRead
      <4> QED
        BY <2>1, <4>1, <4>2
    <3>5. \A i \in 1..(n + 1) : audit'[i].action = "UPDATE" =>
             \/ Reported(audit', audit'[i].booking, i, audit'[i].old)
             \/ \E s \in overlaps'[audit'[i].id] : op'[s].kind \in {"patch", "cancel"} /\ op'[s].booking = audit'[i].booking
      BY <2>0, <3>4 DEF Disturbed, Changes
    <3> QED
      BY <2>3, <3>3, <3>5 DEF OldKnown, OldRead, Disturbed, Changes
  <2> QED
    BY <1>6, <2>2, <2>3, AuditGrows
<1>7. CASE UNCHANGED vars
  <2>1. UNCHANGED <<op, tx, audit>> /\ Running' = Running
    BY <1>7 DEF vars, Running
  <2>2. \A s \in Running : tx[s].before # NoRow => OldRead(s)'
    BY <1>0, <2>1, OldReadStays
  <2> QED
    BY <1>1, <2>1, <2>2 DEF OldKnown, OldRead
<1> QED
  BY <1>2, <1>3, <1>4, <1>5, <1>6, <1>7, NextSplit

-----------------------------------------------------------------------------
(* Customers of the portal. *)

\* A customer that is there stays as it is; one that comes is the one a request
\* inserted that commits.
LEMMA CustomersStay ==
    ASSUME IInv, [Next]_vars, NEW c \in Ids
    PROVE  /\ customers[c] # NoRow => /\ customers'[c] = customers[c]
                                      /\ ByPortal(c)' <=> ByPortal(c)
           /\ customers[c] = NoRow /\ customers'[c] # NoRow =>
                 /\ c \in Running /\ Ends(c) /\ tx[c].person = customers'[c] /\ Underway(c)
                 /\ \A d \in Ids \ {c} : customers'[d] = customers[d]
<1>0. TypeOK /\ Inserted
  BY DEF IInv, Tables
<1>1. customers[c] # NoRow => (ByPortal(c)' <=> ByPortal(c))
  <2>1. CASE c \in Seeds
    BY <2>1 DEF ByPortal
  <2>2. CASE Committed(c)
    <3>1. op'[c] = op[c]
      BY <2>2, CommittedStays
    <3> QED
      BY <3>1 DEF ByPortal
  <2> QED
    BY <1>0, <2>1, <2>2 DEF Inserted
<1>2. CASE UNCHANGED customers
  BY <1>1, <1>2
<1>3. ASSUME NEW r \in Requests, Ends(r)
      PROVE  /\ customers[c] # NoRow => customers'[c] = customers[c]
             /\ customers[c] = NoRow /\ customers'[c] # NoRow =>
                   /\ c \in Running /\ Ends(c) /\ tx[c].person = customers'[c] /\ Underway(c)
                   /\ \A d \in Ids \ {c} : customers'[d] = customers[d]
  <2>1. /\ r \in Running /\ Underway(r) /\ r \in Ids
        /\ customers' = IF tx[r].person = NoRow THEN customers ELSE [customers EXCEPT ![r] = tx[r].person]
    BY <1>0, <1>3, EndFrame, EndTyped, UnderwayHas DEF Ids
  <2>2. customers[r] = NoRow
    BY <1>0, <2>1, BookingsAssumption DEF Inserted, Committed, Running, Ids
  <2>3. customers \in [Ids -> MaybeEmail \cup {NoRow}]
    BY <1>0 DEF TypeOK
  <2> QED
    BY <1>3, <2>1, <2>2, <2>3
<1> QED
  BY <1>1, <1>2, <1>3, TablesStill

LEMMA PersonStays ==
    ASSUME IInv, [Next]_vars, NEW r \in Requests, op'[r] = op[r], NEW c \in Ids, Person(r, c)
    PROVE  Person(r, c)'
BY CustomersStay DEF Person

LEMMA SameAddressSymmetric == \A e, f : SameAddress(e, f) <=> SameAddress(f, e)
BY DEF SameAddress

\* A request that waits while another one moves.
LEMMA FoundStays ==
    ASSUME IInv, [Next]_vars, NEW s \in Running, pc'[s] = pc[s], tx'[s] = tx[s], op'[s] = op[s]
    PROVE  Found(s)' /\ Free(s)'
<1>0. Found(s) /\ Free(s) /\ s \in Requests /\ TypeOK /\ Requested
  BY DEF IInv, CustomerFound, AddressFree, Running
<1>1. \A c \in Ids : Person(s, c) => Person(s, c)'
  BY <1>0, PersonStays
<1>2. Found(s)'
  <2>1. tx[s].customer \in Ids /\ Person(s, tx[s].customer) => Person(s, tx[s].customer)'
    BY <1>1 DEF Person
  <2> QED
    BY <1>0, <2>1 DEF Found, Person
<1>3. Free(s)'
  <2> SUFFICES ASSUME op[s].kind = "portal", pc[s] = "person" \/ tx[s].person # NoRow,
                      NEW c \in Ids \ {s},
                      customers'[c] # NoRow, ByPortal(c)', SameAddress(op[s].email, customers'[c])
               PROVE  c \in overlaps'[s]
    BY DEF Free
  <2>1. overlaps[s] \subseteq overlaps'[s]
    BY <1>0, RequestsStay
  <2>2. CASE customers[c] # NoRow
    BY <1>0, <2>1, <2>2, CustomersStay DEF Free
  <2>3. CASE customers[c] = NoRow
    <3>1. c \in Running
      BY <2>3, CustomersStay
    <3>2. c \in overlaps[s]
      BY <1>0, <3>1 DEF Requested, Running
    <3> QED
      BY <2>1, <3>2
  <2> QED
    BY <2>2, <2>3
<1> QED
  BY <1>2, <1>3

\* The statements that look for a customer or add one.
LEMMA StatementFinds ==
    ASSUME IInv, [Next]_vars, NEW r \in Requests, Statement(r)
    PROVE  Found(r)' /\ Free(r)'
<1>0. /\ r \in Running /\ Underway(r) /\ op[r] \in Ops /\ tx[r] \in Tx /\ TypeOK
      /\ op' = op /\ Found(r) /\ Free(r) /\ UNCHANGED <<customers, overlaps>> /\ r \in Ids
      /\ pc = [s \in Requests |-> pc[s]] /\ tx = [s \in Requests |-> tx[s]]
  BY StatementFrame, UnderwayHas DEF IInv, TypeOK, CustomerFound, AddressFree, Ids
<1>a. Free(r)' <=>
        (op[r].kind = "portal" /\ (pc'[r] = "person" \/ tx'[r].person # NoRow) =>
            \A c \in Ids \ {r} :
               customers[c] # NoRow /\ ByPortal(c) /\ SameAddress(op[r].email, customers[c]) => c \in overlaps[r])
  BY <1>0 DEF Free, ByPortal
<1>b. Found(r)' <=>
        /\ op[r].kind = "portal" =>
              /\ pc'[r] = "match" => op[r].email # NoEmail
              /\ pc'[r] \in {"match", "person"} => tx'[r].person = NoRow
              /\ pc'[r] \in {"write", "audit", "commit"} =>
                    \/ tx'[r].customer = r /\ tx'[r].person = op[r].email
                    \/ tx'[r].person = NoRow /\ tx'[r].customer \in Ids /\ Person(r, tx'[r].customer)
        /\ op[r].kind = "customer" /\ pc'[r] = "commit" => tx'[r].person = op[r].email
        /\ tx'[r].person # NoRow => op[r].kind \in {"portal", "customer"} /\ pc'[r] # "person"
  BY <1>0 DEF Found, Person
<1>1. CASE MatchCustomer(r)
  <2>1. op[r].kind = "portal" /\ pc[r] = "match" /\ op[r].email # NoEmail /\ tx[r].person = NoRow
    BY <1>0, <1>1, OpShape DEF MatchCustomer, Underway, Path, Found
  <2>2. CASE Matches(op[r].email) = {} /\ pc' = [pc EXCEPT ![r] = "person"] /\ tx' = tx
    <3>1. \A c \in Ids : customers[c] # NoRow => ~SameAddress(op[r].email, customers[c])
      BY <2>2, SameAddressSymmetric DEF Matches
    <3>2. pc'[r] = "person" /\ tx'[r] = tx[r]
      BY <1>0, <2>2
    <3> QED
      BY <1>a, <1>b, <2>1, <3>1, <3>2
  <2>3. ASSUME NEW c \in Matches(op[r].email), tx' = [tx EXCEPT ![r].customer = c],
               pc' = [pc EXCEPT ![r] = "write"]
        PROVE  Found(r)' /\ Free(r)'
    <3>1. pc'[r] = "write" /\ tx'[r].customer = c /\ tx'[r].person = NoRow
      BY <1>0, <2>1, <2>3 DEF Tx
    <3>2. c \in Ids /\ Person(r, c)
      BY <2>1 DEF Matches, Person
    <3> QED
      BY <1>a, <1>b, <2>1, <3>1, <3>2
  <2> QED
    BY <1>1, <2>2, <2>3 DEF MatchCustomer
<1>2. CASE InsertCustomer(r)
  <2>1. op[r].kind \in {"portal", "customer"} /\ pc[r] = "person"
    BY <1>0, <1>2, OpShape DEF InsertCustomer, Underway, Path
  <2>2. /\ pc'[r] = IF op[r].kind = "portal" THEN "write" ELSE "commit"
        /\ tx'[r].person = op[r].email /\ tx'[r].customer = r
    BY <1>0, <1>2 DEF InsertCustomer, Tx
  <2>3. Found(r)'
    BY <1>b, <2>1, <2>2
  <2>4. Free(r)'
    BY <1>0, <1>a, <2>1 DEF Free
  <2> QED
    BY <2>3, <2>4
<1>3. ASSUME SelectBefore(r) \/ InsertBooking(r) \/ UpdateBooking(r) \/ CancelBooking(r) \/ InsertAudit(r)
      PROVE  Found(r)' /\ Free(r)'
  <2>1. /\ pc[r] \in {"select", "write", "audit"} /\ pc'[r] \in {"write", "audit", "commit"}
        /\ pc[r] = "select" => op[r].kind = "patch"
    BY <1>0, <1>3, OpShape DEF SelectBefore, InsertBooking, UpdateBooking, CancelBooking, InsertAudit, Underway, Path
  <2>2. op[r].kind # "customer"
    BY <1>0, <2>1 DEF Underway, Path
  <2>3. tx'[r].customer = tx[r].customer /\ tx'[r].person = tx[r].person
    <3>1. CASE SelectBefore(r)
      BY <1>0, <3>1 DEF SelectBefore, Tx
    <3>2. CASE InsertBooking(r)
      BY <1>0, <3>2 DEF InsertBooking, Tx
    <3>3. CASE UpdateBooking(r)
      BY <1>0, <3>3 DEF UpdateBooking, Tx
    <3>4. CASE CancelBooking(r)
      BY <1>0, <3>4 DEF CancelBooking, Tx
    <3>5. CASE InsertAudit(r)
      <4>1. tx'[r] = [tx[r] EXCEPT !.entry = AuditEntry(r)]
        BY <1>0, <3>5 DEF InsertAudit
      <4> QED
        BY <1>0, <4>1 DEF Tx
    <3> QED
      BY <1>3, <3>1, <3>2, <3>3, <3>4, <3>5
  <2>4. op[r].kind = "portal" => pc[r] \in {"write", "audit", "commit"}
    BY <2>1
  <2> QED
    BY <1>0, <1>a, <1>b, <2>1, <2>2, <2>3, <2>4 DEF Found, Free
<1> QED
  BY <1>1, <1>2, <1>3 DEF Statement

LEMMA StartFinds ==
    ASSUME IInv, NEW r \in Requests, NEW o \in Ops, Start(r, o)
    PROVE  Found(r)' /\ Free(r)'
<1>1. /\ op'[r] = o /\ pc'[r] = First(o) /\ First(o) \in {"select", "write", "match", "person"}
      /\ tx'[r] = [Idle EXCEPT !.customer = IF o.kind = "create" THEN o.customer ELSE NoRow, !.began = clock]
  BY StartFrame DEF IInv
<1>2. tx'[r].person = NoRow
  BY <1>1 DEF Idle
<1>3. /\ o.kind = "portal" => First(o) = IF o.email = NoEmail THEN "person" ELSE "match"
      /\ o.kind = "customer" => First(o) = "person"
  BY DEF First
<1>4. Found(r)'
  BY <1>1, <1>2, <1>3 DEF Found
<1>5. \A f : ~SameAddress(NoEmail, f)
  BY DEF SameAddress
<1>6. Free(r)'
  BY <1>1, <1>2, <1>3, <1>5 DEF Free
<1> QED
  BY <1>4, <1>6

LEMMA FoundStep == IInv /\ [Next]_vars => CustomerFound' /\ AddressFree'
<1> SUFFICES ASSUME IInv, [Next]_vars PROVE \A s \in Running' : Found(s)' /\ Free(s)'
  BY DEF CustomerFound, AddressFree
<1>0. TypeOK
  BY DEF IInv
<1>1. ASSUME NEW r \in Requests, Refuse(r) PROVE \A s \in Running' : Found(s)' /\ Free(s)'
  BY <1>0, <1>1, FoundStays, RefuseFrame DEF OthersStay, Running
<1>2. ASSUME NEW r \in Requests, Statement(r) PROVE \A s \in Running' : Found(s)' /\ Free(s)'
  BY <1>0, <1>2, FoundStays, StatementFinds, StatementFrame DEF OthersStay, Running
<1>3. ASSUME NEW r \in Requests, Ends(r) \/ Abort(r) PROVE \A s \in Running' : Found(s)' /\ Free(s)'
  BY <1>0, <1>3, FoundStays, EndFrame DEF OthersStay, Running
<1>4. ASSUME NEW r \in Requests, NEW o \in Ops, Start(r, o) PROVE \A s \in Running' : Found(s)' /\ Free(s)'
  <2>1. Running' = Running \cup {r} /\ r \notin Running /\ Running \subseteq Requests /\ OthersStay(r)
    BY <1>0, <1>4, StartFrame DEF Running
  <2>2. \A s \in Running : Found(s)' /\ Free(s)'
    BY <2>1, FoundStays DEF OthersStay
  <2> QED
    BY <1>4, <2>1, <2>2, StartFinds
<1>5. CASE UNCHANGED vars
  BY <1>5, FoundStays DEF vars, Running
<1> QED
  BY <1>1, <1>2, <1>3, <1>4, <1>5, NextSplit

LEMMA PortalStep == IInv /\ [Next]_vars => PortalBookingHasCustomer'
<1> SUFFICES ASSUME IInv, [Next]_vars, NEW r \in Requests, IsDone(r, {"portal"})', bookings'[r] # NoRow,
                    NEW c, c = bookings'[r].customer
             PROVE  Person(r, c)'
  BY DEF PortalBookingHasCustomer, Person
<1>0. TypeOK /\ Requested /\ Inserted /\ r \in Ids
  BY DEF IInv, Tables, Ids
<1>1. CASE bookings[r] # NoRow
  <2>1. Committed(r)
    BY <1>0, <1>1, BookingsAssumption DEF Inserted
  <2>2. op'[r] = op[r] /\ IsDone(r, {"portal"}) /\ bookings[r] \in Row
    BY <1>0, <1>1, <2>1, RequestsStay, SentinelsDiffer DEF IsDone, Committed, TypeOK
  <2>3. c = bookings[r].customer => Person(r, c)
    BY <1>1, <2>2 DEF IInv, PortalBookingHasCustomer, Person
  <2>4. c \in Ids /\ c = bookings[r].customer => Person(r, c)'
    BY <2>2, <2>3, PersonStays
  <2>5. bookings'[r].customer = bookings[r].customer
    <3>1. CASE UNCHANGED bookings
      BY <3>1
    <3>2. ASSUME NEW q \in Requests, Ends(q) PROVE bookings'[r].customer = bookings[r].customer
      <4>1. CASE r = Target(q) /\ tx[q].row # NoRow
        <5>1. Changes(q)
          <6>1. ~Changes(q) => Inserts(q) /\ q = r
            BY <1>0, <3>2, <4>1, EndWrites, UnderwayHas, OpShape, TargetIsId DEF Underway, Inserts, Changes
          <6> QED
            BY <1>1, <3>2, <6>1, EndWrites
        <5>2. bookings'[r] = Changed(q) /\ op[q] \in Ops
          BY <3>2, <4>1, <5>1, EndWrites
        <5>3. op[q].kind = "patch" => Patched(bookings[r], op[q]).customer = bookings[r].customer
          BY <2>2, <5>2, RowsStayRows
        <5>4. Cancelled(bookings[r]).customer = bookings[r].customer
          BY <2>2, RowsStayRows
        <5> QED
          BY <4>1, <5>2, <5>3, <5>4 DEF Changed
      <4>2. CASE ~(r = Target(q) /\ tx[q].row # NoRow)
        BY <1>0, <3>2, <4>2, EndWrites
      <4> QED
        BY <4>1, <4>2
    <3> QED
      BY <3>1, <3>2, TablesStill
  <2>6. bookings[r].customer \in Ids
    BY <2>2 DEF Row
  <2> QED
    BY <2>4, <2>5, <2>6
<1>2. CASE bookings[r] = NoRow
  <2>1. PICK q \in Requests : Ends(q)
    BY <1>2, TablesStill
  <2>2. r = Target(q) /\ tx[q].row # NoRow /\ bookings'[r] = tx[q].row /\ ~Changes(q)
    BY <1>0, <1>2, <2>1, EndWrites
  <2>3. q = r
    BY <1>0, <2>1, <2>2, EndWrites, TargetIsId
  <2>4. op'[r] = op[r] /\ op[r].kind = "portal" /\ r \in Running /\ Underway(r) /\ pc[r] = "commit"
        /\ op[r] \in Ops
    BY <1>0, <2>1, <2>3, EndFrame, EndTyped, UnderwayHas DEF IsDone
  <2>5. bookings'[r].customer = tx[r].customer
    BY <2>2, <2>3, <2>4 DEF Underway, Inserts
  <2>6. CASE tx[r].customer = r /\ tx[r].person = op[r].email
    <3>1. op[r].email \in MaybeEmail /\ op[r].email # NoRow
      BY <2>4, OpShape, SentinelsDiffer
    <3>2. customers' = IF tx[r].person = NoRow THEN customers ELSE [customers EXCEPT ![r] = tx[r].person]
      BY <2>1, <2>3, EndTyped
    <3>3. customers'[r] = op[r].email
      BY <1>0, <2>6, <3>1, <3>2 DEF TypeOK
    <3>4. c = r
      BY <2>5, <2>6
    <3> QED
      BY <2>4, <3>1, <3>3, <3>4 DEF Person, SameAddress
  <2>7. CASE tx[r].person = NoRow /\ tx[r].customer \in Ids /\ Person(r, tx[r].customer)
    <3>1. c \in Ids /\ Person(r, c)
      BY <2>5, <2>7
    <3> QED
      BY <2>4, <3>1, PersonStays
  <2> QED
    BY <2>4, <2>6, <2>7 DEF IInv, CustomerFound, Found
<1> QED
  BY <1>1, <1>2

LEMMA DuplicatesStep == IInv /\ [Next]_vars => DuplicatesOnlyWhenConcurrent'
<1> SUFFICES ASSUME IInv, [Next]_vars, NEW r \in Requests, NEW c \in Ids \ {r},
                    customers'[r] # NoRow, customers'[c] # NoRow, op'[r].kind = "portal", ByPortal(c)',
                    SameAddress(customers'[r], customers'[c])
             PROVE  c \in overlaps'[r]
  BY DEF DuplicatesOnlyWhenConcurrent
<1>0. /\ TypeOK /\ Requested /\ Inserted /\ r \in Ids /\ r \notin Seeds /\ overlaps[r] \subseteq overlaps'[r]
      /\ \A s \in Running : Found(s) /\ Free(s)
  BY RequestsStay, BookingsAssumption DEF IInv, Tables, Ids, CustomerFound, AddressFree
<1>1. CASE customers[r] = NoRow
  <2>1. /\ r \in Running /\ Ends(r) /\ tx[r].person = customers'[r] /\ Underway(r)
        /\ customers'[c] = customers[c] /\ op'[r] = op[r] /\ pc[r] = "commit"
    BY <1>0, <1>1, CustomersStay, EndFrame, EndTyped
  <2>2. tx[r].person = op[r].email /\ ByPortal(c)
    BY <1>0, <2>1, CustomersStay DEF Found
  <2> QED
    BY <1>0, <2>1, <2>2 DEF Free
<1>2. CASE customers[r] # NoRow /\ customers[c] = NoRow
  <2>1. /\ c \in Running /\ Ends(c) /\ tx[c].person = customers'[c] /\ Underway(c)
        /\ customers'[r] = customers[r]
    BY <1>0, <1>2, CustomersStay
  <2>2. c \in Requests /\ op'[c] = op[c] /\ op[c].kind = "portal" /\ pc[c] = "commit"
    <3>1. c \in Requests /\ c \notin Seeds
      BY <2>1, BookingsAssumption DEF Running
    <3> QED
      BY <1>0, <2>1, <3>1, EndFrame, EndTyped DEF ByPortal
  <2>3. tx[c].person = op[c].email
    BY <1>0, <1>2, <2>1, <2>2 DEF Found
  <2>4. ByPortal(r)
    <3>1. Committed(r)
      BY <1>0, <1>2 DEF Inserted
    <3>2. op'[r] = op[r]
      BY <3>1, CommittedStays
    <3> QED
      BY <3>1, <3>2, SentinelsDiffer DEF Committed, ByPortal
  <2>5. SameAddress(op[c].email, customers[r])
    BY <2>1, <2>3, SameAddressSymmetric
  <2>6. r \in overlaps[c]
    BY <1>0, <1>2, <2>1, <2>2, <2>4, <2>5 DEF Free
  <2> QED
    BY <1>0, <2>2, <2>6 DEF Requested
<1>3. CASE customers[r] # NoRow /\ customers[c] # NoRow
  <2>1. customers'[r] = customers[r] /\ customers'[c] = customers[c] /\ ByPortal(c)
    BY <1>0, <1>3, CustomersStay
  <2>2. op'[r] = op[r]
    BY <1>0, <1>3, CommittedStays DEF Inserted
  <2> QED
    BY <1>0, <1>3, <2>1, <2>2 DEF IInv, DuplicatesOnlyWhenConcurrent
<1> QED
  BY <1>1, <1>2, <1>3

LEMMA Inductive == IInv /\ [Next]_vars => IInv'
<1> SUFFICES ASSUME IInv, [Next]_vars PROVE IInv'
  OBVIOUS
<1> QED
  BY TypedStep, RequestedStep, LockedStep, TimedStep, InsertedStep, WholeStep, ExplainedStep, OldKnownStep,
     FoundStep, PortalStep, DuplicatesStep DEF IInv, Tables

LEMMA Always == Spec => []IInv
BY InitiallyAll, Inductive, PTL DEF Spec

-----------------------------------------------------------------------------
(* The theorems. *)

\* The newest entry is the one the CHOOSE of Latest takes.
LEMMA LatestIsNewest ==
    ASSUME TypeOK, NEW b, NEW n \in Nat, NEW i, LastEntry(audit, i, b, n)
    PROVE  Latest({j \in Entries(b) : j < n}) = i /\ i \in Entries(b)
<1> DEFINE I == {j \in Entries(b) : j < n}
<1>1. DOMAIN audit \subseteq Nat
  <2>1. audit \in Seq(Entry)
    BY DEF TypeOK
  <2> QED
    BY <2>1, LenProperties
<1>2. i \in I /\ \A j \in I : j <= i
  BY DEF LastEntry, Entries
<1>3. \A k \in I : (\A j \in I : j <= k) => k = i
  BY <1>1, <1>2 DEF Entries
<1> QED
  BY <1>2, <1>3 DEF Latest

\* The tables, the locks and what a transaction has read keep their types
\* (bookings.js, customers.js, public.js:110-180).
THEOREM TablesAreTyped == Spec => []TypeOK
BY Always, PTL DEF IInv

\* bookings.js:64-79, public.js:133-172: whichever statement fails, and
\* whether or not the answer is heard, a booking is there with its CREATE entry
\* and the customer added for it, or none of them is.
THEOREM TransactionsAreAtomic == Spec => []AllOrNothing
<1>1. IInv => AllOrNothing
  <2> SUFFICES ASSUME IInv PROVE AllOrNothing
    OBVIOUS
  <2>0. Requested /\ Whole
    BY DEF IInv, Tables
  <2>1. ASSUME NEW r \in Requests, op[r] = NoRow
        PROVE  ~Logged(r)
    BY <2>1, BookingsAssumption, SentinelsDiffer, <2>0 DEF Whole, Logged, Committed
  <2>2. ASSUME NEW r \in Requests, answer[r] = "invalid"
        PROVE  op[r] = NoRow
    BY <2>0, <2>2 DEF Requested, Running, Underway
  <2> QED
    BY <2>0, <2>1, <2>2 DEF AllOrNothing, IsDone, Whole, Logged, Inserts
<1> QED
  BY <1>1, Always, PTL

\* The entry that ORDER BY created_at DESC returns first.
\* Among the finite set of the initial segments that end in N there is a
\* smallest one.
LEMMA SmallestNumber ==
    ASSUME NEW m \in Nat, NEW N \in SUBSET (0 .. m), N # {}
    PROVE  \E n \in N : \A k \in N : n =< k
<1> DEFINE B == {0 .. n : n \in N}
           M == 0 .. m
<1>1. B \subseteq FiniteSubsetsOf(M) /\ B # {}
  <2>1. ASSUME NEW n \in N PROVE 0 .. n \in FiniteSubsetsOf(M)
    <3>1. n \in Nat /\ 0 .. n \in SUBSET M
      OBVIOUS
    <3> QED
      BY <3>1, FS_Interval DEF FiniteSubsetsOf
  <2> QED
    BY <2>1
<1>2. PICK t \in B : \A u \in B : <<u, t>> \notin StrictSubsetOrdering(M)
  <2>1. IsFiniteSet(M)
    BY FS_Interval
  <2> HIDE DEF B, M
  <2> QED
    BY <1>1, <2>1, WFMin, FS_StrictSubsetOrderingWellFounded
<1>3. PICK n \in N : t = 0 .. n
  OBVIOUS
<1>4. ASSUME NEW k \in N, ~(n =< k) PROVE FALSE
  <2>1. 0 .. k \subseteq 0 .. n /\ 0 .. k # 0 .. n
    BY <1>4
  <2>2. 0 .. k \in B /\ 0 .. k \in SUBSET M /\ t \in SUBSET M
    BY <1>3
  <2> QED
    BY <1>2, <1>3, <2>1, <2>2 DEF StrictSubsetOrdering
<1> QED
  BY <1>4

LEMMA NewestIsThere ==
    ASSUME IInv, NEW b, Entries(b) # {}
    PROVE  /\ Newest(Entries(b)) \in Entries(b)
           /\ \A j \in Entries(b) : audit[j].created_at <= audit[Newest(Entries(b))].created_at
<1> DEFINE Time(i) == audit[i].created_at
           Age(i) == clock - Time(i)
           N == {Age(i) : i \in Entries(b)}
<1>1. ASSUME NEW i \in Entries(b) PROVE Time(i) \in Nat /\ Time(i) < clock
  <2>1. i \in DOMAIN audit /\ clock > 0 /\ clock \in Nat
    BY DEF Entries, IInv, Timed, TypeOK
  <2>2. audit[i] \in Entry /\ audit[i].id \in Ids
    BY <2>1, EntryShape DEF Entry, IInv
  <2>3. Time(i) = IF audit[i].id \in Requests THEN tx[audit[i].id].began ELSE 0
    BY <2>1 DEF IInv, Timed
  <2>4. CASE audit[i].id \in Requests
    <3>1. op[audit[i].id] # NoRow
      BY <2>1, <2>4, SentinelsDiffer, BookingsAssumption DEF IInv, Tables, Whole, Committed
    <3> QED
      BY <2>2, <2>3, <2>4, <3>1 DEF IInv, Timed, Entry
  <2>5. CASE audit[i].id \notin Requests
    BY <2>1, <2>3, <2>5
  <2> QED
    BY <2>4, <2>5
<1>2. clock \in Nat
  BY DEF IInv, TypeOK
<1>3. N \in SUBSET (0 .. clock) /\ N # {}
  BY <1>1, <1>2
<1>4. PICK n \in N : \A k \in N : n =< k
  <2> DEFINE m == clock
  <2>1. m \in Nat /\ N \in SUBSET (0 .. m) /\ N # {}
    BY <1>2, <1>3
  <2> HIDE DEF m, N
  <2> QED
    BY <2>1, SmallestNumber
<1>5. PICK i \in Entries(b) : n = Age(i)
  OBVIOUS
<1>6. ASSUME NEW j \in Entries(b) PROVE Time(j) <= Time(i)
  <2>1. Time(i) \in Nat /\ Time(j) \in Nat
    BY <1>1
  <2>2. Age(i) =< Age(j)
    BY <1>4, <1>5
  <2> HIDE DEF Time
  <2> QED
    BY <1>2, <2>1, <2>2
<1> QED
  BY <1>6 DEF Newest

\* admin-tenant-detail.js:285, bookings.js:72-76, 106-110, 126-132: the newest
\* entry of a booking, in the order in which readers get the log, reports the
\* row that is there, or the row a DELETE cancelled since; if it does not, the
\* entry that does is of a handler that overlapped with the newest one's.
THEOREM LogKeepsUp == Spec => []AuditExplainsRows
<1>1. IInv => AuditExplainsRows
  <2> SUFFICES ASSUME IInv, NEW b \in Ids, bookings[b] # NoRow
               PROVE  /\ Entries(b) # {}
                      /\ \E i \in Entries(b) :
                            /\ Explains(audit[i], bookings[b])
                            /\ \/ i = Newest(Entries(b))
                               \/ audit[i].id \in overlaps[audit[Newest(Entries(b))].id]
    BY DEF AuditExplainsRows
  <2> DEFINE n == Len(audit) + 1
             m == Newest(Entries(b))
  <2>0. audit \in Seq(Entry) /\ TypeOK /\ Timed
    BY DEF IInv, TypeOK
  <2>1. n \in Nat /\ DOMAIN audit = 1..(n - 1)
    BY <2>0, LenProperties
  <2>2. PICK i \in DOMAIN audit : LastEntry(audit, i, b, n) /\ Explains(audit[i], bookings[b])
    BY DEF IInv, Tables, Explained, Reported
  <2>3. i \in Entries(b)
    BY <2>2 DEF LastEntry, Entries
  <2>4. m \in Entries(b) /\ audit[i].created_at <= audit[m].created_at
    BY <2>0, <2>3, NewestIsThere
  <2>5. m <= i /\ m \in DOMAIN audit /\ audit[m].booking = b
    BY <2>1, <2>2, <2>4 DEF LastEntry, Entries
  <2>6. audit[i].created_at \in Nat /\ audit[m].created_at \in Nat
    BY <2>0, <2>5, EntryShape DEF Entry
  <2>7. CASE m < i
    <3>1. audit[i].booking = b /\ audit[m].created_at >= audit[i].created_at
      BY <2>2, <2>4, <2>6 DEF LastEntry
    <3>2. audit[i].id \in overlaps[audit[m].id]
      BY <2>0, <2>5, <2>7, <3>1 DEF Timed
    <3> QED
      BY <2>2, <2>3, <3>2
  <2>8. CASE m = i
    BY <2>2, <2>3, <2>8
  <2> QED
    BY <2>1, <2>5, <2>7, <2>8
<1> QED
  BY <1>1, Always, PTL

\* bookings.js:90-110: the SELECT before the UPDATE takes no lock, and still
\* old_value is the row the UPDATE replaced unless another handler was
\* changing that booking at the time.
THEOREM LogSaysWhatWasReplaced == Spec => []OldValueIsReplaced
<1>1. IInv => OldValueIsReplaced
  <2> SUFFICES ASSUME IInv, NEW i \in DOMAIN audit, audit[i].action = "UPDATE"
               PROVE  \/ Explains(audit[Latest(EntriesBefore(i))], audit[i].old)
                      \/ \E s \in overlaps[audit[i].id] :
                            op[s].kind \in {"patch", "cancel"} /\ op[s].booking = audit[i].booking
    BY DEF OldValueIsReplaced
  <2>0. audit \in Seq(Entry)
    BY DEF IInv, TypeOK
  <2>1. i \in Nat
    BY <2>0, LenProperties
  <2>2. CASE Reported(audit, audit[i].booking, i, audit[i].old)
    <3>1. PICK j \in DOMAIN audit : LastEntry(audit, j, audit[i].booking, i) /\ Explains(audit[j], audit[i].old)
      BY <2>2 DEF Reported
    <3> QED
      BY <2>1, <3>1, LatestIsNewest DEF IInv, EntriesBefore
  <2>3. CASE Disturbed(audit[i].id, audit[i].booking)
    BY <2>3 DEF Disturbed, Changes
  <2> QED
    BY <2>2, <2>3 DEF IInv, OldKnown
<1> QED
  BY <1>1, Always, PTL

\* public.js:133-151: the customer of a portal booking is there, under the
\* address that was given or under none if none was.
THEOREM CustomerIsThere == Spec => []PortalBookingHasCustomer
BY Always, PTL DEF IInv

\* public.js:134-151: the portal adds a customer for an address that has one
\* only if the other was being added at the same time.
THEOREM DuplicatesNeedARace == Spec => []DuplicatesOnlyWhenConcurrent
BY Always, PTL DEF IInv

\* bookings.js:99-104: of handlers that change one booking at the same time
\* each takes effect on what the one before it left; the same UPDATE with the
\* values of the SELECT would lose the other's.
THEOREM NoUpdateIsLost == Spec => NoLostUpdate
<1> DEFINE Kept(b) ==
       bookings[b] # NoRow /\ bookings'[b] # bookings[b] =>
          \E r \in Requests :
             /\ pc[r] = "commit" /\ pc'[r] = "done" /\ Target(r) = b
             /\ bookings'[b] = IF op[r].kind = "patch" THEN Patched(bookings[b], op[r])
                                                       ELSE Cancelled(bookings[b])
<1>1. IInv /\ [Next]_vars => [\A b \in Ids : Kept(b)]_vars
  <2> SUFFICES ASSUME IInv, [Next]_vars, NEW b \in Ids, bookings[b] # NoRow, bookings'[b] # bookings[b]
               PROVE  \E r \in Requests :
                         /\ pc[r] = "commit" /\ pc'[r] = "done" /\ Target(r) = b
                         /\ bookings'[b] = IF op[r].kind = "patch" THEN Patched(bookings[b], op[r])
                                                                   ELSE Cancelled(bookings[b])
    OBVIOUS
  <2>1. PICK r \in Requests : Ends(r)
    BY TablesStill
  <2>2. /\ r \in Running /\ op[r] \in Ops /\ b = Target(r) /\ tx[r].row # NoRow /\ bookings'[b] = tx[r].row
        /\ pc[r] = "commit" /\ pc'[r] = "done" /\ Underway(r)
    <3>1. TypeOK /\ pc[r] = "commit"
      BY <2>1, EndTyped DEF IInv
    <3>2. r \in Running /\ pc'[r] = "done"
      BY <2>1, <3>1, EndFrame
    <3>3. op[r] \in Ops /\ b = Target(r) /\ tx[r].row # NoRow /\ bookings'[b] = tx[r].row
      BY <2>1, EndWrites
    <3> QED
      BY <3>1, <3>2, <3>3, UnderwayHas
  <2>3. Changes(r)
    <3>1. ~Changes(r) => Inserts(r) /\ b = r
      BY <2>2, OpShape, TargetIsId DEF Underway, Inserts, Changes, IInv
    <3> QED
      BY <2>1, <3>1, EndWrites
  <2>4. tx[r].row = Changed(r)
    BY <2>1, <2>2, <2>3, EndWrites
  <2> QED
    BY <2>2, <2>4 DEF Changed
<1> QED
  BY <1>1, Always, PTL DEF Spec, NoLostUpdate
=============================================================================
