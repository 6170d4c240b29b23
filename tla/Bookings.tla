------------------------------ MODULE Bookings ------------------------------
(***************************************************************************)
(* One tenant's bookings, customers and audit log, and the handlers that   *)
(* write them: booking-service routes/bookings.js and routes/customers.js, *)
(* and the portal's POST /tenants/:slug/bookings of tenant-service.        *)
(*                                                                         *)
(* Every handler is one withTenant transaction (TenantDb shows what that   *)
(* gives); here its SQL statements are separate steps, so that handlers    *)
(* interleave between them as PostgreSQL's READ COMMITTED lets them: a     *)
(* SELECT takes no lock, an UPDATE locks its row until the transaction     *)
(* ends and works on the row's newest version, nothing is visible to       *)
(* others before COMMIT.  Row ids are fresh: a row a request inserts is    *)
(* named by the request.                                                   *)
(***************************************************************************)
EXTENDS Naturals, Sequences, FiniteSets

CONSTANTS Requests,    \* the handler invocations, each runs once
          Seeds,       \* the bookings, and their customers, there from before
          Named,       \* the row ids that paths and bodies name
          Kinds,       \* the handlers these requests may call
          Statuses,    \* the values of the enum in updateSchema a run uses
          Prices,      \* the quoted prices a body may carry
          NoPrice,     \* quoted_price absent, and NULL in the row
          Emails,      \* the addresses a body may carry
          NoEmail,     \* a customer without one
          Lower(_),    \* PostgreSQL's LOWER on addresses
          SeedEmail,   \* the address of the customers there from before
          NoRow        \* no such row, nothing written, nothing read

ASSUME BookingsAssumption ==
    /\ Requests \cap Seeds = {}
    /\ {"pending", "cancelled"} \subseteq Statuses
    /\ Kinds \subseteq {"create", "patch", "cancel", "portal", "customer"}
    /\ NoPrice \notin Prices
    /\ NoEmail \notin Emails
    /\ SeedEmail \in Emails
    /\ NoRow \notin Requests \cup Seeds \cup Named
    /\ NoRow \notin Emails \cup {NoEmail}
    /\ IsFiniteSet(Seeds)

VARIABLES pc,          \* the statement each request is at
          op,          \* what it was asked to do
          tx,          \* what its transaction has read and written
          answer,      \* the outcome its caller was told
          bookings,    \* the committed rows of bookings
          customers,   \* the committed rows of customers: their addresses
          audit,       \* the committed rows of audit_logs, in commit order;
                       \* readers order them by created_at
          lock,        \* the row lock of each booking
          clock,       \* the time, counted in transactions begun
          overlaps     \* history: the requests that ran at the same time

vars == <<pc, op, tx, answer, bookings, customers, audit, lock, clock, overlaps>>

Ids == Requests \cup Seeds \cup Named
Fields == {"status", "price"}
MaybePrice == Prices \cup {NoPrice}
MaybeEmail == Emails \cup {NoEmail}
Row == [status : Statuses, price : MaybePrice, customer : Ids]
Entry == [id : Ids, booking : Ids, action : {"CREATE", "UPDATE"}, old : Row \cup {NoRow}, new : Row,
          created_at : Nat]

\* A body: the fields of updateSchema for a patch, of createSchema, of the
\* portal's bookingSchema.  Notes, staff and times behave like these.
Ops ==
    [kind : {"create"} \cap Kinds, customer : Named, price : MaybePrice]
    \cup [kind : {"patch"} \cap Kinds, booking : Named, fields : SUBSET Fields \ {{}},
          status : Statuses, price : Prices]
    \cup [kind : {"cancel"} \cap Kinds, booking : Named]
    \cup [kind : {"portal"} \cap Kinds, email : MaybeEmail, price : MaybePrice]
    \cup [kind : {"customer"} \cap Kinds, email : MaybeEmail]

ASSUME NullAssumption == NoRow \notin Row \cup Entry \cup Ops

Idle == [before |-> NoRow, row |-> NoRow, customer |-> NoRow, person |-> NoRow, entry |-> NoRow,
         began |-> 0]

\* The booking a request writes: the one in its path, or the one it inserts.
Target(r) == IF op[r].kind \in {"patch", "cancel"} THEN op[r].booking ELSE r

Running == {r \in Requests : pc[r] \notin {"new", "done"}}

Init ==
    /\ pc = [r \in Requests |-> "new"]
    /\ op = [r \in Requests |-> NoRow]
    /\ tx = [r \in Requests |-> Idle]
    /\ answer = [r \in Requests |-> "none"]
    /\ bookings = [b \in Ids |-> IF b \in Seeds
                     THEN [status |-> "pending", price |-> NoPrice, customer |-> b] ELSE NoRow]
    /\ customers = [c \in Ids |-> IF c \in Seeds THEN SeedEmail ELSE NoRow]
    /\ audit \in [1..Cardinality(Seeds) ->
                    {[id |-> b, booking |-> b, action |-> "CREATE", old |-> NoRow, new |-> bookings[b],
                      created_at |-> 0] : b \in Seeds}]
    /\ \A b \in Seeds : \E i \in DOMAIN audit : audit[i].booking = b
    /\ lock = [b \in Ids |-> NoRow]
    /\ clock = 1
    /\ overlaps = [r \in Requests |-> {}]

-----------------------------------------------------------------------------
\* The body fails its schema, or a PATCH has no fields: 400, no transaction.
Refuse(r) ==
    /\ pc[r] = "new"
    /\ pc' = [pc EXCEPT ![r] = "done"]
    /\ answer' = [answer EXCEPT ![r] = "invalid"]
    /\ UNCHANGED <<op, tx, bookings, customers, audit, lock, clock, overlaps>>

\* The first statement of each handler.  The portal looks for the customer only
\* when it was given an address.
First(o) ==
    CASE o.kind = "patch" -> "select"
      [] o.kind \in {"create", "cancel"} -> "write"
      [] o.kind = "portal" -> IF o.email = NoEmail THEN "person" ELSE "match"
      [] o.kind = "customer" -> "person"

\* BEGIN: the time of the transaction is the time of its start, what NOW()
\* gives to every row it writes.
Start(r, o) ==
    /\ pc[r] = "new"
    /\ pc' = [pc EXCEPT ![r] = First(o)]
    /\ op' = [op EXCEPT ![r] = o]
    /\ tx' = [tx EXCEPT ![r] = [Idle EXCEPT !.customer = IF o.kind = "create" THEN o.customer ELSE NoRow,
                                            !.began = clock]]
    /\ clock' = clock + 1
    /\ overlaps' = [s \in Requests |-> CASE s = r -> Running
                                         [] s \in Running -> overlaps[s] \cup {r}
                                         [] OTHER -> overlaps[s]]
    /\ UNCHANGED <<answer, bookings, customers, audit, lock>>

\* PATCH: SELECT * FROM bookings WHERE id = $1, no FOR UPDATE.  No row: 404.
SelectBefore(r) ==
    /\ pc[r] = "select"
    /\ tx' = [tx EXCEPT ![r].before = bookings[Target(r)]]
    /\ pc' = [pc EXCEPT ![r] = IF bookings[Target(r)] = NoRow THEN "commit" ELSE "write"]
    /\ UNCHANGED <<op, answer, bookings, customers, audit, lock, clock, overlaps>>

\* Portal: SELECT id FROM customers WHERE LOWER(email) = LOWER($1) LIMIT 1.
SameAddress(e, f) == e # NoEmail /\ f # NoEmail /\ Lower(e) = Lower(f)

\* Mutants: the address is compared as it was typed; the WHERE is dropped.
MatchesAsTyped(e) == {c \in Ids : customers[c] = e}
MatchesAnybody(e) == {c \in Ids : customers[c] # NoRow}

Matches(e) == {c \in Ids : customers[c] # NoRow /\ SameAddress(customers[c], e)}

\* Mutant: a customer that is not found is not inserted.
MatchWithoutInsert(r) ==
    /\ pc[r] = "match"
    /\ tx' = [tx EXCEPT ![r].customer = IF Matches(op[r].email) = {} THEN NoRow
                                       ELSE CHOOSE c \in Matches(op[r].email) : TRUE]
    /\ pc' = [pc EXCEPT ![r] = "write"]
    /\ UNCHANGED <<op, answer, bookings, customers, audit, lock, clock, overlaps>>

MatchCustomer(r) ==
    /\ pc[r] = "match"
    /\ \/ /\ Matches(op[r].email) = {}
          /\ pc' = [pc EXCEPT ![r] = "person"]
          /\ UNCHANGED tx
       \/ \E c \in Matches(op[r].email) :
             /\ tx' = [tx EXCEPT ![r].customer = c]
             /\ pc' = [pc EXCEPT ![r] = "write"]
    /\ UNCHANGED <<op, answer, bookings, customers, audit, lock, clock, overlaps>>

\* INSERT INTO customers, by the portal or by POST /customers.
InsertCustomer(r) ==
    /\ pc[r] = "person"
    /\ tx' = [tx EXCEPT ![r].person = op[r].email, ![r].customer = r]
    /\ pc' = [pc EXCEPT ![r] = IF op[r].kind = "portal" THEN "write" ELSE "commit"]
    /\ UNCHANGED <<op, answer, bookings, customers, audit, lock, clock, overlaps>>

\* POST /bookings stores quoted_price || null, which makes NULL of zero; the
\* portal stores quoted_price ?? null.
StoredPrice(o) == IF o.kind = "create" /\ o.price = 0 THEN NoPrice ELSE o.price

\* INSERT INTO bookings ... RETURNING *.
InsertBooking(r) ==
    /\ pc[r] = "write"
    /\ op[r].kind \in {"create", "portal"}
    /\ tx' = [tx EXCEPT ![r].row = [status |-> "pending", price |-> StoredPrice(op[r]),
                                    customer |-> tx[r].customer]]
    /\ pc' = [pc EXCEPT ![r] = "audit"]
    /\ UNCHANGED <<op, answer, bookings, customers, audit, lock, clock, overlaps>>

\* SET the fields of the body, and those alone.
Patched(row, o) ==
    [row EXCEPT !.status = IF "status" \in o.fields THEN o.status ELSE @,
                !.price = IF "price" \in o.fields THEN o.price ELSE @]

\* Mutant: the whole row is saved as the SELECT returned it, with the changes.
UpdateFromBefore(r) ==
    LET b == Target(r)
    IN  /\ pc[r] = "write"
        /\ op[r].kind = "patch"
        /\ lock[b] = NoRow
        /\ lock' = [lock EXCEPT ![b] = r]
        /\ tx' = [tx EXCEPT ![r].row = Patched(tx[r].before, op[r])]
        /\ pc' = [pc EXCEPT ![r] = "audit"]
        /\ UNCHANGED <<op, answer, bookings, customers, audit, clock, overlaps>>

\* UPDATE bookings SET <fields> WHERE id = $1 RETURNING *.
UpdateBooking(r) ==
    LET b == Target(r)
    IN  /\ pc[r] = "write"
        /\ op[r].kind = "patch"
        /\ lock[b] = NoRow
        /\ lock' = [lock EXCEPT ![b] = r]
        /\ tx' = [tx EXCEPT ![r].row = Patched(bookings[b], op[r])]
        /\ pc' = [pc EXCEPT ![r] = "audit"]
        /\ UNCHANGED <<op, answer, bookings, customers, audit, clock, overlaps>>

\* DELETE: UPDATE bookings SET status = 'cancelled' WHERE id = $1; no row: 404.
CancelBooking(r) ==
    LET b == Target(r)
    IN  /\ pc[r] = "write"
        /\ op[r].kind = "cancel"
        /\ lock[b] = NoRow
        /\ IF bookings[b] = NoRow
             THEN UNCHANGED <<lock, tx>>
             ELSE /\ lock' = [lock EXCEPT ![b] = r]
                  /\ tx' = [tx EXCEPT ![r].row = [bookings[b] EXCEPT !.status = "cancelled"]]
        /\ pc' = [pc EXCEPT ![r] = "commit"]
        /\ UNCHANGED <<op, answer, bookings, customers, audit, clock, overlaps>>

\* Mutants: old and new swapped; the SELECT made after the UPDATE.
AuditEntrySwapped(r) ==
    IF op[r].kind = "patch"
      THEN [id |-> r, booking |-> Target(r), action |-> "UPDATE",
            old |-> tx[r].row, new |-> tx[r].before, created_at |-> tx[r].began]
      ELSE [id |-> r, booking |-> Target(r), action |-> "CREATE",
            old |-> NoRow, new |-> tx[r].row, created_at |-> tx[r].began]
AuditEntryReadLate(r) ==
    [id |-> r, booking |-> Target(r),
     action |-> IF op[r].kind = "patch" THEN "UPDATE" ELSE "CREATE",
     old |-> tx[r].row, new |-> tx[r].row, created_at |-> tx[r].began]

\* INSERT INTO audit_logs: CREATE with the new row, UPDATE with the row the
\* SELECT returned and the row the UPDATE returned; created_at DEFAULT NOW().
AuditEntry(r) ==
    [id |-> r, booking |-> Target(r),
     action |-> IF op[r].kind = "patch" THEN "UPDATE" ELSE "CREATE",
     old |-> tx[r].before, new |-> tx[r].row, created_at |-> tx[r].began]

InsertAudit(r) ==
    /\ pc[r] = "audit"
    /\ tx' = [tx EXCEPT ![r].entry = AuditEntry(r)]
    /\ pc' = [pc EXCEPT ![r] = "commit"]
    /\ UNCHANGED <<op, answer, bookings, customers, audit, lock, clock, overlaps>>

Unlocked(r) == [b \in Ids |-> IF lock[b] = r THEN NoRow ELSE lock[b]]

\* What the caller of a committed transaction is told.
Reply(r) ==
    CASE op[r].kind \in {"create", "portal", "customer"} -> "created"
      [] tx[r].row = NoRow -> "not found"
      [] OTHER -> "updated"

\* The writes of the transaction become visible, all at once.
Install(r) ==
    /\ bookings' = IF tx[r].row = NoRow THEN bookings ELSE [bookings EXCEPT ![Target(r)] = tx[r].row]
    /\ customers' = IF tx[r].person = NoRow THEN customers ELSE [customers EXCEPT ![r] = tx[r].person]
    /\ audit' = IF tx[r].entry = NoRow THEN audit ELSE Append(audit, tx[r].entry)
    /\ lock' = Unlocked(r)
    /\ pc' = [pc EXCEPT ![r] = "done"]
    /\ UNCHANGED <<op, tx, clock, overlaps>>

Commit(r) ==
    /\ pc[r] = "commit"
    /\ Install(r)
    /\ answer' = [answer EXCEPT ![r] = Reply(r)]

\* The connection drops after the server committed: an error is answered for
\* writes that stay.
CommitUnheard(r) ==
    /\ pc[r] = "commit"
    /\ Install(r)
    /\ answer' = [answer EXCEPT ![r] = "error"]

\* Mutants: the customer is inserted outside the transaction; the transaction
\* of a failed handler is left open.
AbortKeepsCustomer(r) ==
    /\ r \in Running
    /\ customers' = IF tx[r].person = NoRow THEN customers ELSE [customers EXCEPT ![r] = tx[r].person]
    /\ lock' = Unlocked(r)
    /\ answer' = [answer EXCEPT ![r] = "error"]
    /\ pc' = [pc EXCEPT ![r] = "done"]
    /\ UNCHANGED <<op, tx, bookings, audit, clock, overlaps>>
AbortWithoutRollback(r) ==
    /\ r \in Running
    /\ answer' = [answer EXCEPT ![r] = "error"]
    /\ pc' = [pc EXCEPT ![r] = "done"]
    /\ UNCHANGED <<op, tx, bookings, customers, audit, lock, clock, overlaps>>

\* A statement fails or the connection drops before COMMIT: ROLLBACK; the
\* portal answers 400, the others 500.
Abort(r) ==
    /\ r \in Running
    /\ lock' = Unlocked(r)
    /\ answer' = [answer EXCEPT ![r] = "error"]
    /\ pc' = [pc EXCEPT ![r] = "done"]
    /\ UNCHANGED <<op, tx, bookings, customers, audit, clock, overlaps>>

Step(r) ==
    \/ SelectBefore(r)
    \/ MatchCustomer(r)
    \/ InsertCustomer(r)
    \/ InsertBooking(r)
    \/ UpdateBooking(r)
    \/ CancelBooking(r)
    \/ InsertAudit(r)
    \/ Commit(r)

\* All requests have been answered.
AllDone == (\A r \in Requests : pc[r] = "done") /\ UNCHANGED vars

Next ==
    \/ \E r \in Requests : Refuse(r) \/ Step(r) \/ CommitUnheard(r) \/ Abort(r)
    \/ \E r \in Requests, o \in Ops : Start(r, o)
    \/ AllDone

\* The server runs the statements it is sent and the service sends the next.
FairSpec == Init /\ [][Next]_vars /\ \A r \in Requests : WF_vars(Step(r))

Spec == Init /\ [][Next]_vars

-----------------------------------------------------------------------------
(***************************************************************************)
(* Properties.                                                             *)
(***************************************************************************)

\* The type of the tables, the locks and the transactions in progress.
TypeOK ==
    /\ pc \in [Requests -> {"new", "select", "match", "person", "write", "audit", "commit", "done"}]
    /\ op \in [Requests -> Ops \cup {NoRow}]
    /\ tx \in [Requests -> [before : Row \cup {NoRow}, row : Row \cup {NoRow},
                             customer : Ids \cup {NoRow}, person : MaybeEmail \cup {NoRow},
                             entry : Entry \cup {NoRow}, began : Nat]]
    /\ answer \in [Requests -> {"none", "created", "updated", "not found", "invalid", "error"}]
    /\ bookings \in [Ids -> Row \cup {NoRow}]
    /\ customers \in [Ids -> MaybeEmail \cup {NoRow}]
    /\ audit \in Seq(Entry)
    /\ lock \in [Ids -> Requests \cup {NoRow}]
    /\ clock \in Nat
    /\ overlaps \in [Requests -> SUBSET Requests]

Entries(b) == {i \in DOMAIN audit : audit[i].booking = b}
EntriesBefore(i) == {j \in Entries(audit[i].booking) : j < i}
Latest(I) == CHOOSE i \in I : \A j \in I : j <= i
\* The first of the entries I in ORDER BY created_at DESC.
Newest(I) == CHOOSE i \in I : \A j \in I : audit[j].created_at <= audit[i].created_at
Cancelled(row) == [row EXCEPT !.status = "cancelled"]

\* The row is the one the entry reports, or that row cancelled since: a DELETE
\* leaves no entry.
Explains(e, row) == row \in {e.new, Cancelled(e.new)}

IsDone(r, kinds) == pc[r] = "done" /\ op[r] # NoRow /\ op[r].kind \in kinds

\* bookings.js:64-79, public.js:133-172: a booking, its CREATE entry and the
\* customer the portal adds for it are there together or not at all, whichever
\* statement fails, and they are there if the caller was told so.
AllOrNothing ==
    \A r \in Requests :
        LET logged == \E i \in DOMAIN audit : audit[i].id = r
        IN  /\ IsDone(r, {"create", "portal"}) => (bookings[r] # NoRow) = logged
            /\ IsDone(r, {"portal"}) /\ customers[r] # NoRow => bookings[r] # NoRow
            /\ IsDone(r, {"create", "portal"}) /\ answer[r] = "created" => logged
            /\ IsDone(r, {"patch"}) => (answer[r] = "updated" => logged)
            /\ answer[r] = "invalid" => ~logged

\* admin-tenant-detail.js:285: the newest audit entry of a booking, by
\* created_at, reports the row that is there, but for a cancellation.  Only when
\* its handler overlapped with another that wrote to the booking may that one's
\* entry be the one to report the row: created_at is the time a transaction
\* began, and the one that began first may commit last.
AuditExplainsRows ==
    \A b \in Ids : bookings[b] # NoRow =>
        /\ Entries(b) # {}
        /\ \E i \in Entries(b) :
              /\ Explains(audit[i], bookings[b])
              /\ LET n == Newest(Entries(b))
                 IN  i = n \/ audit[i].id \in overlaps[audit[n].id]

\* The old_value of an UPDATE entry is the row it replaced unless another
\* handler was changing the same booking at the time: the SELECT before the
\* UPDATE takes no lock.
OldValueIsReplaced ==
    \A i \in DOMAIN audit : audit[i].action = "UPDATE" =>
        \/ Explains(audit[Latest(EntriesBefore(i))], audit[i].old)
        \/ \E s \in overlaps[audit[i].id] :
              op[s].kind \in {"patch", "cancel"} /\ op[s].booking = audit[i].booking

\* bookings.js:93,101: two handlers that change one booking at the same time
\* both take effect: what commits is the newest row with the fields of the body
\* changed and no other.
NoLostUpdate ==
    [][\A b \in Ids : bookings[b] # NoRow /\ bookings'[b] # bookings[b] =>
          \E r \in Requests :
             /\ pc[r] = "commit" /\ pc'[r] = "done" /\ Target(r) = b
             /\ bookings'[b] = IF op[r].kind = "patch" THEN Patched(bookings[b], op[r])
                                                       ELSE Cancelled(bookings[b])]_vars

\* public.js:119-120: the customer of a portal booking exists and has the
\* address that was given, in any case of letters.
PortalBookingHasCustomer ==
    \A r \in Requests : IsDone(r, {"portal"}) /\ bookings[r] # NoRow =>
        LET c == bookings[r].customer
        IN  /\ customers[c] # NoRow
            /\ IF op[r].email = NoEmail THEN customers[c] = NoEmail
                                        ELSE SameAddress(customers[c], op[r].email)

ByPortal(c) == c \in Seeds \/ (op[c] # NoRow /\ op[c].kind = "portal")

\* The portal adds a second customer for an address only when another portal
\* booking with that address was in progress.
DuplicatesOnlyWhenConcurrent ==
    \A r \in Requests : \A c \in Ids \ {r} :
        /\ customers[r] # NoRow /\ customers[c] # NoRow
        /\ op[r].kind = "portal" /\ ByPortal(c)
        /\ SameAddress(customers[r], customers[c])
        => c \in overlaps[r]

\* Row locks are all released and a waiting UPDATE goes ahead: every request
\* that was started is answered.
EveryRequestIsAnswered == \A r \in Requests : (r \in Running) ~> (pc[r] = "done")

\* public.js:134, "Match existing customer by email (case-insensitive) or create
\* new": at most one customer of the portal has an address.
OneCustomerPerAddress ==
    \A c, d \in Ids : c # d /\ ByPortal(c) /\ ByPortal(d)
        /\ customers[c] # NoRow /\ customers[d] # NoRow
        => ~SameAddress(customers[c], customers[d])
=============================================================================
