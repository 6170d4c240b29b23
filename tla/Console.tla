------------------------------ MODULE Console -------------------------------
(***************************************************************************)
(* A page of the super-admin console (apps/web/src/app/admin) open in      *)
(* several administrators' browsers, over the one table it manages         *)
(* (tenant-service, routes/admin*.js).  Which page, of those in            *)
(* ConsolePages, is the initial state's choice.                            *)
(*                                                                         *)
(* A call is adminFetch: it is sent, one SQL statement serves it, and its  *)
(* answer reaches the browser; or it fails, on the way there (network,     *)
(* gateway, a token that is no longer good) or on the way back.  Calls are *)
(* served and answered in any order.  A confirmation box that is answered  *)
(* no is no step.                                                          *)
(***************************************************************************)
EXTENDS ConsolePages, Integers, FiniteSets

CONSTANTS Admins,      \* the browsers that have the page open
          Ids,         \* row ids; row 1 is there from the start
          MaxClicks(_), \* bound: clicks, and ticks of a timer, that send something on a page
          MaxFails,    \* bound: calls that fail
          NoRow,       \* no row with this id
          NoForm,      \* the editor is closed
          NoCall       \* a call slot at rest

ASSUME ConsoleAssumption ==
    /\ \A p \in Pages : MaxClicks(p) \in Nat
    /\ MaxFails \in Nat
    /\ Ids \subseteq Nat /\ 1 \in Ids /\ NoRow \notin Ids
    /\ IsFiniteSet(Ids) /\ IsFiniteSet(Admins)

VARIABLES page,        \* the page this is; it never changes
          rows,        \* the table
          used,        \* the ids ever inserted
          shown,       \* each browser's list
          gone,        \* an error is shown in the page's place
          loading,     \* its loading flag (where there is none: the first load is not back)
          filter,      \* its filter, where the server filters
          form,        \* its editor
          busy,        \* the button that its busy or saving flag names
          calls,       \* its calls in flight
          clicks,      \* how many clicks there were
          fails,       \* how many calls failed
          missed,      \* history: something changed that it was not told of
          late,        \* history: its slots whose answer is older than a change
          asked,       \* history: new rows it asked for, less the rows inserted for it
          resent       \* history: it sent a new row again, unsure of the first time

vars == <<page, gone, rows, used, shown, loading, filter, form, busy, calls, clicks, fails, missed, late, asked, resent>>

Slots == {1, 2}
Row == [key : Keys, body : {0, 1}, on : BOOLEAN, until : {"never", "day", "time"}]
Draft == [key : Keys, body : {0, 1}, on : BOOLEAN, until : {"never", "day", "time", "blank"}]
List == [Ids -> Row \cup {NoRow}]
Empty == [i \in Ids |-> NoRow]
Form == [id : Ids \cup {NoRow}, row : Draft, base : Row \cup {NoRow}, typed : SUBSET Columns,
         sent : BOOLEAN, unsure : BOOLEAN]
Call == [kind : {"load", "post", "patch", "delete", "all"}, id : Ids \cup {NoRow},
         row : Draft \cup {NoRow}, cols : SUBSET Columns, base : Row \cup {NoRow},
         typed : SUBSET Columns, saves : BOOLEAN, filter : BOOLEAN, list : List,
         at : {"sent", "done", "refused"}]

ASSUME NothingAssumption ==
    /\ NoRow \notin Row \cup Draft
    /\ NoForm \notin Form
    /\ NoCall \notin Call \cup ({"save", "flip"} \X Ids)

\* A call with nothing in it but its kind.
Request(kind) ==
    [kind |-> kind, id |-> NoRow, row |-> NoRow, cols |-> {}, base |-> NoRow, typed |-> {},
     saves |-> FALSE, filter |-> FALSE, list |-> Empty, at |-> "sent"]

LoadWith(f) == [Request("load") EXCEPT !.filter = f]

Passes(r) == IF page.filter = "on" THEN r.on ELSE r.body = 1

\* The rows a list endpoint answers with.
View(f) ==
    [i \in Ids |-> IF rows[i] # NoRow /\ (f => Passes(rows[i])) THEN rows[i] ELSE NoRow]

\* One browser opens the page, which the others have on the screen.
Init ==
    /\ page \in Pages
    /\ \E u \in page.editor.dates :
          rows = [Empty EXCEPT ![1] = [key |-> 1, body |-> 0, on |-> FALSE, until |-> u]]
    /\ used = {1}
    /\ \E opening \in Admins :
          /\ shown = [a \in Admins |-> IF a = opening \/ page.unrouted THEN Empty ELSE View(FALSE)]
          /\ loading = [a \in Admins |-> a = opening]
          /\ missed = [a \in Admins |-> a # opening /\ page.unrouted]
          /\ calls = [a \in Admins |-> [s \in Slots |-> IF a = opening /\ s = 1 THEN LoadWith(FALSE) ELSE NoCall]]
    /\ filter = [a \in Admins |-> FALSE]
    /\ gone = [a \in Admins |-> FALSE]
    /\ form = [a \in Admins |-> NoForm]
    /\ busy = [a \in Admins |-> NoCall]
    /\ clicks = 0 /\ fails = 0
    /\ late = [a \in Admins |-> {}]
    /\ asked = [a \in Admins |-> 0]
    /\ resent = [a \in Admins |-> FALSE]

-----------------------------------------------------------------------------
(* The browser: what is typed and clicked. *)

\* The rows, and their buttons, are on the screen.
Listed(a, i) == shown[a][i] # NoRow /\ ~(page.hides /\ loading[a]) /\ ~gone[a]

\* A form that is open is not seeded again by a panel.  (Bound: forms are
\* left alone when there is no click left to save one.)
MayOpen(a) == clicks < MaxClicks(page) /\ (form[a] = NoForm \/ page.editor.reseeds)

\* (Bound: one new row at a time is filled in; the next may be before the last
\* one is saved for good.)
OpenNew(a) ==
    /\ page.adds /\ MayOpen(a)
    /\ \A b \in Admins \ {a} : form[b] # NoForm /\ form[b].id = NoRow => form[b].sent
    /\ \E k \in IF "key" \in page.editor.fields THEN Keys ELSE {1} :
          form' = [form EXCEPT ![a] =
                     [id |-> NoRow, base |-> NoRow, typed |-> Columns, sent |-> FALSE, unsure |-> FALSE,
                      row |-> [key |-> k, body |-> 0, on |-> TRUE, until |-> page.editor.starts]]]
    /\ UNCHANGED <<page, gone, rows, used, shown, loading, filter, busy, calls, clicks, fails, missed, late, asked, resent>>

\* What the editor makes of a row: a date input takes no time of day,
\* valid_until?.slice(0, 10) || '', released_at?.slice(0, 10).
Seeded(r) ==
    IF page.editor.cuts
    THEN [r EXCEPT !.until = IF @ = "never" THEN "blank" ELSE "day"] ELSE r

OpenRow(a, i) ==
    /\ page.edits /\ MayOpen(a) /\ Listed(a, i)
    /\ form' = [form EXCEPT ![a] =
                  [id |-> i, base |-> shown[a][i], typed |-> {}, sent |-> FALSE, unsure |-> FALSE,
                   row |-> Seeded(shown[a][i])]]
    /\ UNCHANGED <<page, gone, rows, used, shown, loading, filter, busy, calls, clicks, fails, missed, late, asked, resent>>

\* A date that must be there cannot be emptied.
Typable == [key |-> Keys, body |-> {0, 1}, on |-> BOOLEAN,
            until |-> IF page.editor.starts = "blank" THEN {"day", "blank"} ELSE {"day"}]

\* One field of a listed row is changed (bound: one per form; which day it is
\* is left out, so that a day can only be typed over something else).
Type(a) ==
    /\ clicks < MaxClicks(page) /\ form[a] # NoForm /\ form[a].typed = {}
    /\ \E c \in page.editor.fields : \E v \in Typable[c] \ {form[a].row[c]} :
          form' = [form EXCEPT ![a].row[c] = v, ![a].typed = {c}]
    /\ UNCHANGED <<page, gone, rows, used, shown, loading, filter, busy, calls, clicks, fails, missed, late, asked, resent>>

Cancel(a) ==
    /\ clicks < MaxClicks(page) /\ form[a] # NoForm /\ page.editor.closes
    /\ form' = [form EXCEPT ![a] = NoForm]
    /\ UNCHANGED <<page, gone, rows, used, shown, loading, filter, busy, calls, clicks, fails, missed, late, asked, resent>>

Send(a, call) ==
    /\ clicks < MaxClicks(page) /\ clicks' = clicks + 1
    /\ \E s \in Slots :
          /\ calls[a][s] = NoCall /\ \A t \in Slots : calls[a][t] = NoCall => s <= t
          /\ calls' = [calls EXCEPT ![a][s] = call]

InFlight(a, kind) == \E s \in Slots : calls[a][s] # NoCall /\ calls[a][s].kind = kind

\* A button is disabled while the flag names it; Save of every row while one
\* is saved.
Ready(a, button, i) ==
    button \in page.guards => busy[a] \notin {button} \X (IF button = "save" THEN Ids ELSE {i})
Flag(a, button, i) ==
    busy' = IF button \in page.guards THEN [busy EXCEPT ![a] = <<button, i>>] ELSE busy

IsSent(a, s, kind) == calls[a][s] # NoCall /\ calls[a][s].kind = kind /\ calls[a][s].at = "sent"
SentPosts == {q \in Admins \X Slots : IsSent(q[1], q[2], "post")}

\* A write belongs to the render that its button was in, with the filter it
\* had: the load() that follows is that one's.
Write(a, kind) == [Request(kind) EXCEPT !.filter = filter[a]]

\* What save() sends of a form: a post that is published with no date yet is
\* dated now.
Sent(d) ==
    IF page.editor.stamps /\ d.on /\ d.until = "never" THEN [d EXCEPT !.until = "time"] ELSE d

\* save(): a form without an id is a POST, one with an id a PATCH.
\* (Bound: there is an id left for it.)
SaveNew(a) ==
    /\ form[a] # NoForm /\ form[a].id = NoRow
    /\ Cardinality(Ids \ used) > Cardinality(SentPosts)
    /\ Send(a, [Write(a, "post") EXCEPT !.row = Sent(form[a].row), !.saves = TRUE])
    /\ asked' = IF form[a].sent THEN asked ELSE [asked EXCEPT ![a] = @ + 1]
    /\ resent' = [resent EXCEPT ![a] = @ \/ form[a].unsure \/ InFlight(a, "post")]
    /\ form' = [form EXCEPT ![a].sent = TRUE]
    /\ UNCHANGED <<page, gone, rows, used, shown, loading, filter, busy, fails, missed, late>>

SaveRow(a) ==
    /\ form[a] # NoForm /\ form[a].id # NoRow /\ Ready(a, "save", form[a].id)
    /\ page.editor.differs => shown[a][form[a].id] # NoRow /\ form[a].row.body # shown[a][form[a].id].body
    /\ Send(a, [Write(a, "patch") EXCEPT !.id = form[a].id, !.row = Sent(form[a].row), !.base = form[a].base,
                  !.cols = IF page.editor.whole THEN Columns ELSE page.editor.fields,
                  !.typed = form[a].typed, !.saves = TRUE])
    /\ Flag(a, "save", form[a].id)
    /\ UNCHANGED <<page, gone, rows, used, shown, loading, filter, form, fails, missed, late, asked, resent>>

\* toggle(), setStatus(), markPaid(), markRead(): from what the list shows.
Press(a, i) ==
    /\ page.button # "none" /\ Listed(a, i) /\ Ready(a, "flip", i)
    /\ page.button = "raise" => ~shown[a][i].on
    /\ Send(a, [Write(a, "patch") EXCEPT !.id = i, !.row = [shown[a][i] EXCEPT !.on = ~@],
                  !.base = shown[a][i], !.cols = {"on"}, !.typed = {"on"}])
    /\ Flag(a, "flip", i)
    /\ UNCHANGED <<page, gone, rows, used, shown, loading, filter, form, fails, missed, late, asked, resent>>

MarkAllRead(a) ==
    /\ page.all /\ \E i \in Ids : shown[a][i] # NoRow /\ ~shown[a][i].on
    /\ Send(a, Write(a, "all"))
    /\ UNCHANGED <<page, gone, rows, used, shown, loading, filter, form, busy, fails, missed, late, asked, resent>>

Remove(a, i) ==
    /\ page.removes /\ Listed(a, i)
    /\ Send(a, [Write(a, "delete") EXCEPT !.id = i])
    /\ UNCHANGED <<page, gone, rows, used, shown, loading, filter, form, busy, fails, missed, late, asked, resent>>

\* The effect that depends on the filter runs again, while what is on its way
\* keeps the filter it was sent under; a timer ticks.
LoadAgain(a) ==
    /\ page.polls \/ page.filter # "none"
    /\ filter' = [filter EXCEPT ![a] = IF page.polls THEN @ ELSE ~@]
    /\ late' = [late EXCEPT ![a] = IF page.polls THEN @ ELSE {s \in Slots : calls[a][s] # NoCall}]
    /\ Send(a, LoadWith(filter'[a]))
    /\ loading' = [loading EXCEPT ![a] = @ \/ page.hides]
    /\ UNCHANGED <<page, gone, rows, used, shown, form, busy, fails, missed, asked, resent>>

-----------------------------------------------------------------------------
(* The server: one statement each. *)

\* A call that was served keeps what its continuation uses.
Served(a, s, call, outcome) ==
    calls' = [calls EXCEPT ![a][s] =
                IF page.after = "patch" THEN [call EXCEPT !.at = outcome, !.base = NoRow, !.typed = {}]
                ELSE [Request(call.kind) EXCEPT !.at = outcome, !.id = call.id, !.list = call.list,
                                               !.saves = call.saves, !.filter = call.filter]]

IsDone(a, s) == calls[a][s] # NoCall /\ calls[a][s].at = "done"

\* The answer to a call that was served is not what it would be now.
Outdated(call) ==
    \/ call.kind = "load" /\ rows' # rows
    \/ call.kind = "patch" /\ page.after = "patch" /\ rows'[call.id] # rows[call.id]

\* The others' lists are behind a table that changed; so is a list that was
\* answered before, and a row that was and will be put into a list.
Tell(a) ==
    /\ missed' = [b \in Admins |-> missed[b] \/ (b # a /\ rows' # rows)]
    /\ late' = [b \in Admins |-> late[b] \cup {s \in Slots : IsDone(b, s) /\ Outdated(calls[b][s])}]

Taken(key, i) == key \in page.endpoint.unique /\ \E j \in Ids \ {i} : rows[j] # NoRow /\ rows[j].key = key

ServeLoad(a, s) ==
    /\ IsSent(a, s, "load")
    /\ LET call == calls[a][s] IN
       IF page.unrouted /\ ~call.filter THEN Served(a, s, call, "refused")
       ELSE Served(a, s, [call EXCEPT !.list = View(call.filter)], "done")
    /\ UNCHANGED <<page, gone, rows, used, shown, loading, filter, form, busy, clicks, fails, missed, late, asked, resent>>

\* Mutant: '' is inserted as it came.
StoredAsTyped(d) == d

\* b.valid_until || null.
Stored(d) == IF d.until = "blank" THEN [d EXCEPT !.until = "never"] ELSE d

\* POST: refused for a key that is taken, unless the endpoint updates its row.
ServePost(a, s) ==
    /\ IsSent(a, s, "post")
    /\ LET call == calls[a][s]
           new  == CHOOSE i \in Ids : i \notin used IN
       \/ /\ ~Taken(call.row.key, NoRow)
          /\ rows' = [rows EXCEPT ![new] = Stored(call.row)]
          /\ used' = used \cup {new}
          /\ asked' = [asked EXCEPT ![a] = @ - 1]
          /\ Served(a, s, call, "done")
       \/ /\ Taken(call.row.key, NoRow) /\ page.endpoint.upserts
          /\ rows' = [i \in Ids |-> IF rows[i] # NoRow /\ rows[i].key = call.row.key
                                    THEN [rows[i] EXCEPT !.on = call.row.on] ELSE rows[i]]
          /\ Served(a, s, call, "done")
          /\ UNCHANGED <<used, asked>>
       \/ /\ Taken(call.row.key, NoRow) /\ ~page.endpoint.upserts
          /\ Served(a, s, call, "refused")
          /\ UNCHANGED <<rows, used, asked>>
    /\ Tell(a)
    /\ UNCHANGED <<page, gone, shown, loading, filter, form, busy, clicks, fails, resent>>

\* Mutant: a button sends the row it shows, too.
PatchedWhole(old, call) ==
    [c \in Columns |-> IF c \in page.endpoint.writes THEN call.row[c] ELSE old[c]]

\* The row a PATCH makes of an old one.
Patched(old, call) ==
    [c \in Columns |-> IF c \in call.cols \cap page.endpoint.writes THEN call.row[c] ELSE old[c]]

\* PATCH: '' is no date, a key may be taken, the row may be gone.
ServePatch(a, s) ==
    /\ IsSent(a, s, "patch")
    /\ LET call == calls[a][s]
           i    == call.id IN
       \/ /\ rows[i] # NoRow /\ Patched(rows[i], call) \in Row /\ ~Taken(Patched(rows[i], call).key, i)
          /\ rows' = [rows EXCEPT ![i] = Patched(rows[i], call)]
          /\ Served(a, s, [call EXCEPT !.row = rows'[i]], "done")
       \/ /\ rows[i] # NoRow /\ (Patched(rows[i], call) \notin Row \/ Taken(Patched(rows[i], call).key, i))
          /\ Served(a, s, call, "refused")
          /\ UNCHANGED rows
       \/ /\ rows[i] = NoRow
          /\ Served(a, s, call, IF "patch" \in page.endpoint.misses THEN "refused" ELSE "done")
          /\ UNCHANGED rows
    /\ Tell(a)
    /\ UNCHANGED <<page, gone, used, shown, loading, filter, form, busy, clicks, fails, asked, resent>>

\* adminFetch says that the body is JSON when there is none, which Fastify
\* refuses before the handler.  (Over-approximation: or the handler runs, as
\* it does for a client that leaves the header out.)
RefuseBare(a, s) ==
    /\ calls[a][s] # NoCall /\ calls[a][s].at = "sent"
    /\ calls[a][s].kind \in {"delete", "all"} \/ (calls[a][s].kind = "patch" /\ page.bare)
    /\ Served(a, s, calls[a][s], "refused")
    /\ UNCHANGED <<page, gone, rows, used, shown, loading, filter, form, busy, clicks, fails, missed, late, asked, resent>>

ServeAll(a, s) ==
    /\ IsSent(a, s, "all")
    /\ rows' = [i \in Ids |-> IF rows[i] = NoRow THEN NoRow ELSE [rows[i] EXCEPT !.on = TRUE]]
    /\ Served(a, s, calls[a][s], "done")
    /\ Tell(a)
    /\ UNCHANGED <<page, gone, used, shown, loading, filter, form, busy, clicks, fails, asked, resent>>

ServeDelete(a, s) ==
    /\ IsSent(a, s, "delete")
    /\ LET i == calls[a][s].id IN
       /\ rows' = [rows EXCEPT ![i] = NoRow]
       /\ Served(a, s, calls[a][s],
                 IF rows[i] = NoRow /\ "delete" \in page.endpoint.misses THEN "refused" ELSE "done")
    /\ Tell(a)
    /\ UNCHANGED <<page, gone, used, shown, loading, filter, form, busy, clicks, fails, asked, resent>>

-----------------------------------------------------------------------------
(* The browser again: what follows an answer. *)

\* finally { setSaving(false) }: whatever the flag names by now.
Unflag(a, call) ==
    busy' = IF \/ call.saves /\ "save" \in page.guards
               \/ call.kind = "patch" /\ ~call.saves /\ "flip" \in page.guards
            THEN [busy EXCEPT ![a] = NoCall] ELSE busy

\* (History: the slot is at rest again.)
Rest(a, s) == late' = [late EXCEPT ![a] = @ \ {s}]

AnswerLoad(a, s) ==
    /\ IsDone(a, s) /\ calls[a][s].kind = "load"
    /\ shown' = [shown EXCEPT ![a] = calls[a][s].list]
    /\ loading' = [loading EXCEPT ![a] = FALSE]
    /\ calls' = [calls EXCEPT ![a][s] = NoCall]
    /\ missed' = [missed EXCEPT ![a] = s \in late[a]]
    /\ Rest(a, s)
    /\ UNCHANGED <<page, gone, rows, used, filter, form, busy, clicks, fails, asked, resent>>

\* Mutant: the editor is left open.
KeepsEditor(a, call) == form' = form

\* setEditing(null): the editor is put away, whichever row it shows by now.
PutAway(a, call) ==
    form' = IF call.saves /\ page.editor.closes THEN [form EXCEPT ![a] = NoForm] ELSE form

\* Mutant: it is not.
AnswerAndRest(a, s) ==
    /\ IsDone(a, s) /\ calls[a][s].kind # "load" /\ page.after = "load"
    /\ PutAway(a, calls[a][s])
    /\ calls' = [calls EXCEPT ![a][s] = NoCall]
    /\ Unflag(a, calls[a][s])
    /\ Rest(a, s)
    /\ UNCHANGED <<page, gone, rows, used, shown, loading, filter, clicks, fails, missed, asked, resent>>

\* The write is followed by the load() of the render it was pressed in.
AnswerAndLoad(a, s) ==
    /\ IsDone(a, s) /\ calls[a][s].kind # "load" /\ page.after = "load"
    /\ PutAway(a, calls[a][s])
    /\ calls' = [calls EXCEPT ![a][s] = LoadWith(calls[a][s].filter)]
    /\ loading' = [loading EXCEPT ![a] = @ \/ page.hides]
    /\ Unflag(a, calls[a][s])
    /\ UNCHANGED <<page, gone, rows, used, shown, filter, clicks, fails, missed, late, asked, resent>>

\* The row was written again since, and that answer was heard before this one.
Overtaken(a, s) ==
    /\ s \in late[a]
    /\ \A t \in Slots \ {s} : ~(IsDone(a, t) /\ calls[a][t].id = calls[a][s].id)

\* The list is mapped: the row gets what was written.
AnswerAndPatch(a, s) ==
    /\ IsDone(a, s) /\ calls[a][s].kind # "load" /\ page.after = "patch"
    /\ LET call == calls[a][s] IN
       /\ shown' = [shown EXCEPT ![a][call.id] =
                      IF @ = NoRow THEN NoRow
                      ELSE [c \in Columns |-> IF c \in call.cols THEN call.row[c] ELSE @[c]]]
       /\ PutAway(a, call)
       /\ Unflag(a, call)
    /\ calls' = [calls EXCEPT ![a][s] = NoCall]
    /\ missed' = [missed EXCEPT ![a] = @ \/ Overtaken(a, s)]
    /\ Rest(a, s)
    /\ UNCHANGED <<page, gone, rows, used, loading, filter, clicks, fails, asked, resent>>

\* setError: beside the page, whose editor stays open, or in its place.
ReplacePage(a, call) ==
    /\ gone' = [gone EXCEPT ![a] = @ \/ call.kind \in page.ends]
    /\ form' = CASE gone'[a] -> [form EXCEPT ![a] = NoForm]
                 [] call.kind = "post" /\ ~gone'[a] /\ form[a] # NoForm -> [form EXCEPT ![a].unsure = TRUE]
                 [] OTHER -> form

\* Mutant: setLoading(false) is left to the load that succeeds.
CaughtStillLoading(a, s) ==
    /\ ReplacePage(a, calls[a][s])
    /\ Unflag(a, calls[a][s])
    /\ calls' = [calls EXCEPT ![a][s] = NoCall]
    /\ Rest(a, s)
    /\ UNCHANGED <<page, rows, used, shown, loading, filter, clicks, asked, resent>>

\* catch: the call is over, whatever it was.
Caught(a, s) ==
    /\ loading' = IF calls[a][s].kind = "load" THEN [loading EXCEPT ![a] = FALSE] ELSE loading
    /\ ReplacePage(a, calls[a][s])
    /\ Unflag(a, calls[a][s])
    /\ calls' = [calls EXCEPT ![a][s] = NoCall]
    /\ Rest(a, s)
    /\ UNCHANGED <<page, rows, used, shown, filter, clicks, asked, resent>>

AnswerError(a, s) ==
    /\ calls[a][s] # NoCall /\ calls[a][s].at = "refused"
    /\ missed' = [missed EXCEPT ![a] = @ \/ calls[a][s].kind = "load"]
    /\ Caught(a, s)
    /\ UNCHANGED fails

\* The call does not get there, or its answer does not come back.
Fail(a, s) ==
    /\ fails < MaxFails /\ fails' = fails + 1
    /\ calls[a][s] # NoCall /\ calls[a][s].at # "refused"
    /\ missed' = [missed EXCEPT ![a] = @ \/ calls[a][s].kind = "load" \/ calls[a][s].at = "done"]
    /\ Caught(a, s)

-----------------------------------------------------------------------------
Click(a) ==
    \/ OpenNew(a) \/ Type(a) \/ Cancel(a) \/ SaveNew(a) \/ SaveRow(a) \/ MarkAllRead(a) \/ LoadAgain(a)
    \/ \E i \in Ids : OpenRow(a, i) \/ Press(a, i) \/ Remove(a, i)

Serve(a, s) ==
    \/ ServeLoad(a, s) \/ ServePost(a, s) \/ ServePatch(a, s) \/ ServeAll(a, s) \/ ServeDelete(a, s)
    \/ RefuseBare(a, s)

Hear(a, s) ==
    AnswerLoad(a, s) \/ AnswerAndLoad(a, s) \/ AnswerAndPatch(a, s) \/ AnswerError(a, s) \/ Fail(a, s)

Next == \E a \in Admins : Click(a) \/ \E s \in Slots : Serve(a, s) \/ Hear(a, s)

Spec == Init /\ [][Next]_vars

-----------------------------------------------------------------------------
(* Properties. *)

\* Types of the variables.
TypeOK ==
    /\ page \in Pages
    /\ rows \in List
    /\ used \subseteq Ids /\ \A i \in Ids : rows[i] # NoRow => i \in used
    /\ shown \in [Admins -> List]
    /\ loading \in [Admins -> BOOLEAN]
    /\ filter \in [Admins -> BOOLEAN]
    /\ gone \in [Admins -> BOOLEAN]
    /\ form \in [Admins -> Form \cup {NoForm}]
    /\ busy \in [Admins -> ({"save", "flip"} \X Ids) \cup {NoCall}]
    /\ calls \in [Admins -> [Slots -> Call \cup {NoCall}]]
    /\ clicks \in 0..MaxClicks(page) /\ fails \in 0..MaxFails
    /\ missed \in [Admins -> BOOLEAN]
    /\ late \in [Admins -> SUBSET Slots]
    /\ asked \in [Admins -> Int]
    /\ resent \in [Admins -> BOOLEAN]

Quiet(a) == \A s \in Slots : calls[a][s] = NoCall

\* When a browser has no call left, its list is what the server would list,
\* and is on the screen: every write it was told of was followed by a load,
\* or put into the list by hand.  Excused is what the pages do get wrong, by
\* its cause: another browser wrote; the last load, or the answer to a write
\* that was made, failed; the last answer was to a load that was sent, or
\* that followed a write that was pressed, under another filter; it was to a
\* load that was served before a write; or, where answers are put into the
\* list, to a write of the row that a later one's answer had overtaken.
ShownIsCurrent ==
    \A a \in Admins : Quiet(a) /\ ~missed[a] /\ ~gone[a] => shown[a] = View(filter[a]) /\ ~loading[a]

\* A row is inserted once for each form that was filled in: there are more
\* only where Save was clicked again before the first answer, or after an
\* answer that was an error (the row may be there).
DuplicatesAreResends == \A a \in Admins : asked[a] >= 0 \/ resent[a]

\* No page waits for nothing: a list is hidden only while a load is on its
\* way, whichever call ended how, and a button is disabled only while a call
\* for its row is.
WaitsAreExplained ==
    \A a \in Admins :
        /\ loading[a] => InFlight(a, "load")
        /\ busy[a] # NoCall => \E s \in Slots :
               calls[a][s] # NoCall /\ calls[a][s].kind = "patch" /\ calls[a][s].id = busy[a][2]

Redated(old, new) ==
    \/ page.editor.cuts /\ old.until = "time" /\ new.until = "day"
    \/ page.editor.stamps /\ new.on /\ old.until = "never" /\ new.until = "time"

\* A PATCH writes what its administrator typed or pressed, and nothing else:
\* a column that was not touched changes only where an editor sends it, and
\* then only if the row has changed since it was put into the editor (an
\* older value comes back over another administrator's, or over one's own).
\* The exceptions are dates: the editors that show a day cut the time of day
\* off, and publishing a post without a date dates it.
NothingRevertedUnlessStale ==
    [][\A a \in Admins, s \in Slots :
          IsSent(a, s, "patch") /\ calls'[a][s] # NoCall /\ calls'[a][s].at = "done" =>
              LET call == calls[a][s]
                  old  == rows[call.id]
                  new  == rows'[call.id] IN
              old = NoRow \/ \A c \in Columns :
                  \/ new[c] = old[c] /\ c \notin call.typed \cap page.endpoint.writes
                  \/ c \in call.typed /\ new[c] = call.row[c]
                  \/ c \in call.cols /\ call.saves /\ old # call.base
                  \/ c = "until" /\ call.saves /\ Redated(old, new)]_vars
=============================================================================
