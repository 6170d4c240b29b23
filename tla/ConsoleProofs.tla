--------------------------- MODULE ConsoleProofs ----------------------------
(***************************************************************************)
(* What holds of every page of the console for any number of browsers,     *)
(* rows, clicks and failures: what a quiet list shows, who inserted twice, *)
(* what waits, and what a PATCH may write over.                            *)
(***************************************************************************)
EXTENDS Console, FiniteSetTheorems, TLAPS

-----------------------------------------------------------------------------
(* The inductive invariant, in its parts. *)

\* There is an id for every new row that is on its way.
Room == Cardinality(Ids \ used) >= Cardinality(SentPosts)

\* A column that was not touched is as the editor found it.
FormFits(f) ==
    IF f.id = NoRow THEN page.adds
    ELSE /\ page.edits /\ ~f.sent /\ f.base \in Row /\ f.typed \subseteq page.editor.fields
         /\ \A c \in Columns \ f.typed : f.row[c] = Seeded(f.base)[c]

\* It is sent like that, or dated now.
Stamped(call) ==
    /\ page.editor.stamps /\ "on" \in call.cols /\ call.row.on
    /\ call.base.until = "never" /\ call.row.until = "time"
Untouched(call, c) == call.row[c] = Seeded(call.base)[c] \/ (c = "until" /\ Stamped(call))

\* The columns that a page without loads writes.
Cols == IF page.edits THEN Columns ELSE {"on"}

CallFits(call) ==
    /\ call.kind \in {"patch", "delete"} => call.id \in Ids
    /\ call.kind = "post" => page.adds /\ call.saves /\ (call.at = "sent" => call.row \in Draft)
    /\ call.kind = "patch" /\ call.at = "sent" =>
          /\ call.row \in Draft /\ call.base \in Row /\ call.typed \subseteq call.cols
          /\ ~call.saves => call.cols = call.typed
          /\ \A c \in call.cols \ call.typed : Untouched(call, c)
    /\ page.after = "patch" =>
          /\ call.kind \in {"load", "patch"}
          /\ call.kind = "load" => ~call.filter
          /\ call.kind = "patch" => call.cols = Cols /\ (call.at = "done" => call.row \in Row)

\* A page without loads has had its only one or waits for it alone.
LoadsOnce(a) ==
    page.after = "patch" =>
        /\ ~filter[a] /\ ~gone[a]
        /\ InFlight(a, "load") =>
              /\ shown[a] = Empty /\ form[a] = NoForm
              /\ \E s \in Slots : \A t \in Slots \ {s} : calls[a][t] = NoCall

\* Unless it is late, a call has the filter that is set, and a list that was
\* answered is what it would be now.  Where answers are put into the list, only
\* an answer is late.
Answers(a) ==
    /\ \A s \in Slots \ late[a] : calls[a][s] # NoCall =>
          /\ calls[a][s].filter = filter[a]
          /\ IsDone(a, s) /\ calls[a][s].kind = "load" => calls[a][s].list = View(filter[a])
    /\ page.after = "patch" => \A s \in late[a] : IsDone(a, s)

\* An answer to a write of a row is on its way.
Written(a, s, i) == IsDone(a, s) /\ calls[a][s].kind = "patch" /\ calls[a][s].id = i

\* A list is behind the table only while something is on its way that will
\* bring it up: a load or a write that one follows, or the row itself, as it
\* is if the answer is not late.
CurrentByLoad(a) ==
    page.after = "load" /\ ~missed[a] /\ ~gone[a] =>
        \/ shown[a] = View(filter[a])
        \/ InFlight(a, "load")
        \/ \E s \in Slots : IsDone(a, s) /\ calls[a][s].kind # "load"
ByHand(a, i) ==
    /\ \/ shown[a][i] = rows[i]
       \/ /\ shown[a][i] # NoRow /\ rows[i] # NoRow
          /\ \A c \in Columns \ Cols : shown[a][i][c] = rows[i][c]
          /\ \E s \in Slots : Written(a, s, i) /\ calls[a][s].row = rows[i]
    /\ \A s \in Slots \ late[a] : Written(a, s, i) => calls[a][s].row = rows[i]
    /\ \E s \in Slots : ~(s \in late[a] /\ Written(a, s, i))
CurrentByHand(a) ==
    page.after = "patch" /\ ~missed[a] /\ ~InFlight(a, "load") => \A i \in Ids : ByHand(a, i)

\* What waits has its call.
Waits(a) ==
    /\ loading[a] => InFlight(a, "load")
    /\ busy[a] # NoCall =>
          /\ busy[a][1] \in page.guards
          /\ \E s \in Slots : /\ calls[a][s] # NoCall /\ calls[a][s].kind = "patch"
                              /\ calls[a][s].id = busy[a][2]
                              /\ calls[a][s].saves <=> busy[a][1] = "save"

\* Who has sent nothing again has one new row on its way at most, and asked
\* for it; a form that was sent waits for that one or was told of an error.
Resends(a) ==
    ~resent[a] =>
        /\ ~\A s \in Slots : calls[a][s] # NoCall /\ calls[a][s].kind = "post"
        /\ asked[a] >= 0
        /\ (\E s \in Slots : IsSent(a, s, "post")) => asked[a] >= 1
        /\ form[a] # NoForm /\ form[a].sent => form[a].unsure \/ InFlight(a, "post")

Fits ==
    /\ \A a \in Admins : form[a] # NoForm => FormFits(form[a])
    /\ \A a \in Admins, s \in Slots : calls[a][s] # NoCall => CallFits(calls[a][s])

Each(a) == LoadsOnce(a) /\ Answers(a) /\ CurrentByLoad(a) /\ CurrentByHand(a) /\ Waits(a) /\ Resends(a)

IInv == TypeOK /\ Room /\ Fits /\ \A a \in Admins : Each(a)

-----------------------------------------------------------------------------
(* What the pages have in common. *)

EditorFits(e) ==
    /\ e.fields \subseteq Columns /\ e.starts \in {"never", "day", "blank"}
    /\ e.dates \subseteq {"never", "day", "time"}

PageFits(p) ==
    /\ EditorFits(p.editor) /\ (p.editor.stamps => p.editor.whole /\ "on" \in p.endpoint.writes)
    /\ p.hides \in BOOLEAN /\ p.unrouted \in BOOLEAN /\ p.after \in {"load", "patch"}
    /\ p.adds => p.editor.closes /\ p.after = "load"
    /\ p.after = "patch" =>
          /\ ~p.adds /\ ~p.removes /\ ~p.all /\ ~p.polls /\ ~p.unrouted /\ ~p.hides
          /\ p.filter = "none" /\ p.ends = {} /\ "patch" \in p.endpoint.misses
          /\ p.edits => p.button = "none" /\ p.editor.whole

Plain(e) == EditorFits(e) /\ e.closes /\ ~e.stamps

LEMMA EditorsFit ==
    /\ Plain(Panel) /\ Plain(KeyPanel) /\ Plain(DiscountEditor) /\ Plain(ChangelogEditor)
    /\ Plain(PriceEditor) /\ Plain(FlagForm) /\ Plain(NoEditor)
    /\ EditorFits(BlogEditor) /\ BlogEditor.closes /\ BlogEditor.whole
    /\ EditorFits(TemplateEditor) /\ TemplateEditor.whole /\ ~TemplateEditor.stamps
    /\ EditorFits(ChoiceEditor) /\ ~ChoiceEditor.stamps
<1>1. Plain(Panel) /\ Plain(KeyPanel) /\ Plain(DiscountEditor) /\ Plain(ChangelogEditor)
  BY DEF Plain, EditorFits, Panel, KeyPanel, DiscountEditor, ChangelogEditor, Editor, Columns
<1>2. Plain(PriceEditor) /\ Plain(FlagForm) /\ Plain(NoEditor)
  BY DEF Plain, EditorFits, PriceEditor, FlagForm, NoEditor, Editor, Columns
<1>3. EditorFits(BlogEditor) /\ BlogEditor.closes /\ BlogEditor.whole
  BY DEF EditorFits, BlogEditor, KeyPanel, Editor, Columns
<1>4. /\ EditorFits(TemplateEditor) /\ TemplateEditor.whole /\ ~TemplateEditor.stamps
      /\ EditorFits(ChoiceEditor) /\ ~ChoiceEditor.stamps
  BY DEF EditorFits, TemplateEditor, ChoiceEditor, Editor, Columns
<1> QED
  BY <1>1, <1>2, <1>3, <1>4

\* A page after whose writes the list is loaded, with an editor that is put
\* away when it is done or opened for listed rows alone.
LEMMA LoadingPageFits ==
    ASSUME NEW p, EditorFits(p.editor), p.after = "load", p.hides \in BOOLEAN,
           p.unrouted \in BOOLEAN, p.adds => p.editor.closes,
           p.editor.stamps => p.editor.whole /\ "on" \in p.endpoint.writes
    PROVE  PageFits(p)
BY DEF PageFits

LEMMA PagesFit == \A p \in Pages : PageFits(p)
<1>1. \A p \in {TaxesPage, DiscountsPage, AnnouncementsPage, ServiceTemplatesPage, CategoryTemplatesPage,
                BlogAdminPage, ChangelogAdminPage, WebhooksPage, ThemesPage, ApiKeysPage} : PageFits(p)
  <2>1. PageFits(TaxesPage)
    BY EditorsFit, LoadingPageFits DEF TaxesPage, TaxEditor, Plain, CrudPage, ListPage
  <2>2. PageFits(DiscountsPage)
    BY EditorsFit, LoadingPageFits DEF DiscountsPage, Plain, CrudPage, ListPage
  <2>3. PageFits(AnnouncementsPage)
    BY EditorsFit, LoadingPageFits DEF AnnouncementsPage, AnnouncementEditor, Plain, CrudPage, ListPage
  <2>4. PageFits(ServiceTemplatesPage)
    BY EditorsFit, LoadingPageFits DEF ServiceTemplatesPage, ServiceEditor, Plain, CrudPage, ListPage
  <2>5. PageFits(CategoryTemplatesPage)
    BY EditorsFit, LoadingPageFits DEF CategoryTemplatesPage, CategoryEditor, Plain, CrudPage, ListPage
  <2>6. PageFits(BlogAdminPage)
    BY EditorsFit, LoadingPageFits DEF BlogAdminPage, BlogPosts, Crud, Endpoint, Columns, CrudPage, ListPage
  <2>7. PageFits(ChangelogAdminPage)
    BY EditorsFit, LoadingPageFits DEF ChangelogAdminPage, Plain, CrudPage, ListPage
  <2>8. PageFits(WebhooksPage)
    BY EditorsFit, LoadingPageFits DEF WebhooksPage, WebhookEditor, Plain, CrudPage, ListPage
  <2>9. PageFits(ThemesPage)
    BY EditorsFit, LoadingPageFits DEF ThemesPage, ThemeEditor, Plain, CrudPage, ListPage
  <2>10. PageFits(ApiKeysPage)
    BY EditorsFit, LoadingPageFits DEF ApiKeysPage, ApiKeyCreator, Plain, CrudPage, ListPage
  <2> QED
    BY <2>1, <2>2, <2>3, <2>4, <2>5, <2>6, <2>7, <2>8, <2>9, <2>10
<1>2. \A p \in {FeatureFlagsPage, PlansPage, SubscriptionsPage, InvoicesPage, NotificationsPage,
                TenantDetail, TenantSettingsTab, UserSettingsTab, TenantRevenueTab,
                EmailTemplatesPage, TenantsList} : PageFits(p)
  <2>1. PageFits(FeatureFlagsPage)
    BY EditorsFit, LoadingPageFits DEF FeatureFlagsPage, ListPage, Plain
  <2>2. PageFits(PlansPage)
    BY EditorsFit, LoadingPageFits DEF PlansPage, ListPage, Plain
  <2>3. PageFits(SubscriptionsPage)
    BY EditorsFit, LoadingPageFits DEF SubscriptionsPage, ListPage, Plain
  <2>4. PageFits(InvoicesPage)
    BY EditorsFit, LoadingPageFits DEF InvoicesPage, ListPage, Plain
  <2>5. PageFits(NotificationsPage)
    BY EditorsFit, LoadingPageFits DEF NotificationsPage, ListPage, Plain
  <2>6. PageFits(TenantDetail)
    BY EditorsFit, LoadingPageFits DEF TenantDetail, ListPage, Plain
  <2>7. PageFits(TenantSettingsTab)
    BY EditorsFit, LoadingPageFits DEF TenantSettingsTab, TenantDetail, ListPage, Plain
  <2>8. PageFits(UserSettingsTab)
    BY EditorsFit, LoadingPageFits DEF UserSettingsTab, TenantSettingsTab, TenantDetail, ListPage, Plain
  <2>9. PageFits(TenantRevenueTab)
    BY EditorsFit, LoadingPageFits DEF TenantRevenueTab, ListPage, Plain
  <2>10. PageFits(EmailTemplatesPage)
    BY EditorsFit DEF PageFits, EmailTemplatesPage, EmailTemplates, Crud, Endpoint, ListPage, Plain
  <2>11. PageFits(TenantsList)
    BY EditorsFit DEF PageFits, TenantsList, Tenants, Endpoint, ListPage, Plain
  <2> QED
    BY <2>1, <2>2, <2>3, <2>4, <2>5, <2>6, <2>7, <2>8, <2>9, <2>10, <2>11
<1>3. \A p \in {ListPage, FilteredPage, TenantBookingsTab, PortalServices, UserDetail, SystemHealthPage} :
          PageFits(p)
  <2>1. PageFits(ListPage)
    BY EditorsFit, LoadingPageFits DEF ListPage, Plain
  <2>2. PageFits(FilteredPage)
    BY EditorsFit, LoadingPageFits DEF FilteredPage, ListPage, Plain
  <2>3. PageFits(TenantBookingsTab)
    BY EditorsFit, LoadingPageFits DEF TenantBookingsTab, FilteredPage, ListPage, Plain
  <2>4. PageFits(PortalServices)
    BY EditorsFit, LoadingPageFits DEF PortalServices, ListPage, Plain
  <2>5. PageFits(UserDetail)
    BY EditorsFit, LoadingPageFits DEF UserDetail, ListPage, Plain
  <2>6. PageFits(SystemHealthPage)
    BY EditorsFit, LoadingPageFits DEF SystemHealthPage, ListPage, Plain
  <2> QED
    BY <2>1, <2>2, <2>3, <2>4, <2>5, <2>6
<1>4. \A p \in {BookingsList, UserBookingsTab, AdminOverview, AuditLogs, SettingsPage, RevenuePage,
                TenantOverviewTab, TenantUsersTab, TenantServicesTab, TenantCustomersTab,
                TenantActivityTab, UserOverviewTab, UserEarningsTab, UserActivityTab} :
          p \in {ListPage, FilteredPage}
  BY DEF BookingsList, UserBookingsTab, AdminOverview, AuditLogs, SettingsPage, RevenuePage,
         TenantOverviewTab, TenantUsersTab, TenantServicesTab, TenantCustomersTab, TenantActivityTab,
         UserOverviewTab, UserEarningsTab, UserActivityTab
<1> QED
  BY <1>1, <1>2, <1>3, <1>4 DEF Pages

-----------------------------------------------------------------------------
(* The editor. *)

EditorStep(a) == OpenNew(a) \/ Type(a) \/ Cancel(a) \/ \E i \in Ids : OpenRow(a, i)

\* A call that stays as it was still fits.
LEMMA CallStillFits ==
    ASSUME NEW b \in Admins, NEW t \in Slots, calls'[b][t] = calls[b][t], page' = page, CallFits(calls[b][t])
    PROVE  CallFits(calls[b][t])'
<1>1. ASSUME NEW c PROVE Untouched(calls[b][t], c)' <=> Untouched(calls[b][t], c)
  BY DEF Untouched, Stamped, Seeded
<1>2. Cols' = Cols
  BY DEF Cols
<1> QED
  BY <1>1, <1>2 DEF CallFits

LEMMA PageHas == ASSUME TypeOK PROVE PageFits(page)
BY PagesFit DEF TypeOK

LEMMA RowsAreDrafts ==
    /\ \A r \in Row : r \in Draft /\ r # NoRow /\ Seeded(r) \in Draft
    /\ \A d \in Draft : d # NoRow
<1>1. \A r \in Row : r \in Draft /\ r # NoRow /\ r.until # "blank"
  BY NothingAssumption DEF Row, Draft
<1>2. \A r \in Row : Seeded(r) \in Draft
  BY <1>1 DEF Seeded, Draft
<1> QED
  BY <1>1, <1>2, NothingAssumption

\* One column of a draft is typed.
LEMMA TypedDraft ==
    ASSUME NEW d \in Draft, NEW c \in Columns, NEW v \in Typable[c]
    PROVE  /\ [d EXCEPT ![c] = v] \in Draft
           /\ \A e \in Columns \ {c} : [d EXCEPT ![c] = v][e] = d[e]
<1>1. CASE c = "key"
  BY <1>1 DEF Draft, Typable, Columns
<1>2. CASE c = "body"
  BY <1>2 DEF Draft, Typable, Columns
<1>3. CASE c = "on"
  BY <1>3 DEF Draft, Typable, Columns
<1>4. CASE c = "until"
  BY <1>4 DEF Draft, Typable, Columns
<1> QED
  BY <1>1, <1>2, <1>3, <1>4 DEF Columns

LEMMA EditorMoves ==
    ASSUME IInv, NEW a \in Admins, EditorStep(a)
    PROVE  /\ form' = [form EXCEPT ![a] = form'[a]] /\ form'[a] \in Form \cup {NoForm}
           /\ form'[a] # NoForm =>
                 /\ FormFits(form'[a])
                 /\ form'[a].sent => /\ form[a] # NoForm /\ form[a].sent
                                     /\ form'[a].unsure = form[a].unsure
                 /\ page.after = "patch" => ~InFlight(a, "load")
           /\ UNCHANGED <<page, gone, rows, used, shown, loading, filter, busy, calls, clicks, fails,
                          missed, late, asked, resent>>
<1>0. /\ TypeOK /\ PageFits(page) /\ LoadsOnce(a) /\ form = [b \in Admins |-> form[b]]
      /\ form[a] \in Form \cup {NoForm} /\ shown[a] \in List
      /\ form[a] # NoForm => FormFits(form[a])
  BY PageHas DEF IInv, Each, TypeOK, Fits
<1>1. CASE OpenNew(a)
  <2>1. PICK k \in Keys :
          form' = [form EXCEPT ![a] =
                     [id |-> NoRow, base |-> NoRow, typed |-> Columns, sent |-> FALSE, unsure |-> FALSE,
                      row |-> [key |-> k, body |-> 0, on |-> TRUE, until |-> page.editor.starts]]]
    <3>1. 1 \in Keys
      BY DEF Keys
    <3> QED
      BY <1>1, <3>1 DEF OpenNew
  <2> DEFINE d == [key |-> k, body |-> 0, on |-> TRUE, until |-> page.editor.starts]
             f == [id |-> NoRow, base |-> NoRow, typed |-> Columns, sent |-> FALSE, unsure |-> FALSE,
                   row |-> d]
  <2>2. d \in Draft
    BY <1>0 DEF Draft, PageFits, EditorFits
  <2>3. form'[a] = f /\ form' = [form EXCEPT ![a] = f]
    BY <1>0, <2>1
  <2> HIDE DEF d
  <2>4. f \in Form /\ f.id = NoRow /\ ~f.sent
    BY <2>2 DEF Form
  <2>5. page.adds /\ page.after = "load"
    BY <1>0, <1>1 DEF OpenNew, PageFits
  <2> QED
    BY <1>1, <2>3, <2>4, <2>5 DEF OpenNew, FormFits
<1>2. ASSUME NEW i \in Ids, OpenRow(a, i)
      PROVE  /\ form' = [form EXCEPT ![a] = form'[a]] /\ form'[a] \in Form
             /\ FormFits(form'[a]) /\ ~form'[a].sent
             /\ page.after = "patch" => ~InFlight(a, "load")
  <2> DEFINE r == shown[a][i]
             f == [id |-> i, base |-> r, typed |-> {}, sent |-> FALSE, unsure |-> FALSE, row |-> Seeded(r)]
  <2>1. r \in Row
    BY <1>0, <1>2 DEF OpenRow, Listed, List
  <2>2. form' = [form EXCEPT ![a] = f]
    BY <1>2 DEF OpenRow
  <2>3. page.after = "patch" => ~InFlight(a, "load")
    BY <1>0, <1>2 DEF OpenRow, Listed, LoadsOnce, Empty
  <2> HIDE DEF r
  <2>4. f \in Form
    BY <2>1, RowsAreDrafts DEF Form
  <2>5. FormFits(f)
    BY <1>2, <2>1, RowsAreDrafts, ConsoleAssumption DEF FormFits, OpenRow
  <2>6. ~f.sent
    OBVIOUS
  <2> HIDE DEF f
  <2> QED
    BY <1>0, <2>2, <2>3, <2>4, <2>5, <2>6
<1>3. CASE Type(a)
  <2>0. PICK c \in page.editor.fields :
          \E v \in Typable[c] : form' = [form EXCEPT ![a].row[c] = v, ![a].typed = {c}]
    BY <1>3 DEF Type
  <2>1. PICK v \in Typable[c] : form' = [form EXCEPT ![a].row[c] = v, ![a].typed = {c}]
    BY <2>0
  <2> DEFINE d == [form[a].row EXCEPT ![c] = v]
             f == [form[a] EXCEPT !.row = d, !.typed = {c}]
  <2>2. form' = [form EXCEPT ![a] = f]
    BY <1>0, <2>1
  <2>3. form[a] \in Form /\ form[a].row \in Draft /\ form[a].typed = {} /\ c \in Columns
    BY <1>0, <1>3 DEF Type, Form, PageFits, EditorFits
  <2>4. d \in Draft /\ \A e \in Columns \ {c} : d[e] = form[a].row[e]
    BY <2>3, TypedDraft
  <2>5. f \in Form
    <3> HIDE DEF d
    <3> QED
      BY <2>3, <2>4 DEF Form
  <2>6. FormFits(f)
    <3>1. /\ f.id = form[a].id /\ f.sent = form[a].sent /\ f.base = form[a].base
          /\ f.typed = {c} /\ f.row = d /\ f.unsure = form[a].unsure
      <4> HIDE DEF d
      <4> QED
        BY <2>3 DEF Form
    <3>2. FormFits(form[a])
      BY <1>0, <1>3 DEF Type
    <3>3. f.id # NoRow => \A e \in Columns \ {c} : f.row[e] = Seeded(f.base)[e]
      <4> HIDE DEF d, f
      <4> QED
        BY <2>3, <2>4, <3>1, <3>2 DEF FormFits
    <3> HIDE DEF f, d
    <3> QED
      BY <3>1, <3>2, <3>3 DEF FormFits
  <2>7. f.sent = form[a].sent /\ f.unsure = form[a].unsure
    BY <2>3 DEF Form
  <2>8. page.after = "patch" => ~InFlight(a, "load")
    BY <1>0, <1>3 DEF Type, LoadsOnce
  <2> HIDE DEF f
  <2> QED
    BY <1>0, <1>3, <2>2, <2>5, <2>6, <2>7, <2>8 DEF Type
<1>4. CASE Cancel(a)
  BY <1>0, <1>4 DEF Cancel
<1> QED
  BY <1>1, <1>2, <1>3, <1>4 DEF EditorStep, OpenRow

-----------------------------------------------------------------------------
(* One browser's call slots; what the others keep. *)

LEMMA SlotChanges ==
    ASSUME calls \in [Admins -> [Slots -> Call \cup {NoCall}]], NEW a \in Admins, NEW s \in Slots,
           NEW x \in Call \cup {NoCall}, calls' = [calls EXCEPT ![a][s] = x]
    PROVE  /\ calls' \in [Admins -> [Slots -> Call \cup {NoCall}]]
           /\ calls'[a][s] = x
           /\ \A t \in Slots \ {s} : calls'[a][t] = calls[a][t]
           /\ \A b \in Admins \ {a} : calls'[b] = calls[b]
OBVIOUS

\* What is of a browser's own did not change, and it is told of nothing.
LEMMA Elsewhere ==
    ASSUME NEW b \in Admins, Each(b), late[b] \subseteq Slots,
           UNCHANGED <<page, shown[b], calls[b], filter[b], gone[b], loading[b], form[b], busy[b],
                       asked[b], resent[b]>>,
           \/ rows' = rows /\ missed'[b] = missed[b] /\ late'[b] = late[b]
           \/ missed'[b] /\ late'[b] = late[b] \cup {s \in Slots : IsDone(b, s) /\ Outdated(calls[b][s])}
    PROVE  Each(b)'
<1>1. /\ InFlight(b, "load")' <=> InFlight(b, "load")
      /\ InFlight(b, "post")' <=> InFlight(b, "post")
      /\ \A s \in Slots : /\ IsDone(b, s)' <=> IsDone(b, s)
                          /\ IsSent(b, s, "post")' <=> IsSent(b, s, "post")
  BY DEF InFlight, IsDone, IsSent
<1>2. \A s \in Slots, i \in Ids : Written(b, s, i)' <=> Written(b, s, i)
  BY <1>1 DEF Written
<1>3. LoadsOnce(b)'
  BY <1>1 DEF Each, LoadsOnce
<1>30. Answers(b)'
  <2>1. ASSUME NEW s \in Slots \ late'[b], calls[b][s] # NoCall
        PROVE  /\ calls[b][s].filter = filter[b]
               /\ IsDone(b, s) /\ calls[b][s].kind = "load" => calls[b][s].list = View(filter[b])'
    <3>1. s \in Slots \ late[b] /\ (rows' = rows \/ ~(IsDone(b, s) /\ calls[b][s].kind = "load"))
      BY <2>1 DEF Outdated
    <3>2. rows' = rows => View(filter[b])' = View(filter[b])
      BY DEF View, Passes
    <3> QED
      BY <2>1, <3>1, <3>2 DEF Each, Answers
  <2>2. page.after = "patch" => \A s \in late'[b] : IsDone(b, s)
    BY DEF Each, Answers
  <2>3. late'[b] \subseteq Slots
    OBVIOUS
  <2> QED
    BY <1>1, <2>1, <2>2, <2>3 DEF Answers
<1>4. CurrentByLoad(b)'
  <2>1. CASE missed'[b]
    BY <2>1 DEF CurrentByLoad
  <2>2. CASE rows' = rows /\ missed'[b] = missed[b]
    <3>1. View(filter[b])' = View(filter[b])
      BY <2>2 DEF View, Passes
    <3> QED
      BY <1>1, <2>2, <3>1 DEF Each, CurrentByLoad
  <2> QED
    BY <2>1, <2>2
<1>5. CurrentByHand(b)'
  <2>1. CASE missed'[b]
    BY <2>1 DEF CurrentByHand
  <2>2. CASE rows' = rows /\ missed'[b] = missed[b] /\ late'[b] = late[b]
    BY <1>1, <1>2, <2>2 DEF Each, CurrentByHand, ByHand, Cols
  <2> QED
    BY <2>1, <2>2
<1>6. Waits(b)'
  BY <1>1 DEF Each, Waits
<1>7. Resends(b)'
  BY <1>1 DEF Each, Resends
<1> QED
  BY <1>3, <1>30, <1>4, <1>5, <1>6, <1>7 DEF Each

LEMMA RequestIsCall ==
    ASSUME NEW kind \in {"load", "post", "patch", "delete", "all"}
    PROVE  Request(kind) \in Call
<1>1. Empty \in List
  BY DEF Empty, List
<1> QED
  BY <1>1 DEF Request, Call

LEMMA LoadIsCall ==
    ASSUME NEW f \in BOOLEAN
    PROVE  /\ LoadWith(f) \in Call /\ LoadWith(f) # NoCall
           /\ LoadWith(f).kind = "load" /\ LoadWith(f).at = "sent" /\ LoadWith(f).filter = f
<1>1. Request("load") \in Call
  BY RequestIsCall
<1>2. LoadWith(f) \in Call
  BY <1>1 DEF LoadWith, Call
<1>3. LoadWith(f).kind = "load" /\ LoadWith(f).at = "sent" /\ LoadWith(f).filter = f
  BY DEF LoadWith, Request
<1> QED
  BY <1>2, <1>3, NothingAssumption

LEMMA WriteIsCall ==
    ASSUME NEW a \in Admins, filter[a] \in BOOLEAN, NEW kind \in {"post", "patch", "delete", "all"}
    PROVE  /\ Write(a, kind) \in Call /\ Write(a, kind).kind = kind /\ Write(a, kind).at = "sent"
           /\ ~Write(a, kind).saves /\ Write(a, kind).filter = filter[a]
<1>1. Request(kind) \in Call
  BY RequestIsCall
<1>2. Write(a, kind) \in Call
  BY <1>1 DEF Write, Call
<1>3. /\ Write(a, kind).kind = kind /\ Write(a, kind).at = "sent" /\ ~Write(a, kind).saves
      /\ Write(a, kind).filter = filter[a]
  BY DEF Write, Request
<1> QED
  BY <1>2, <1>3

\* What save() makes of a draft, and an editor of a row.
LEMMA SentDraft ==
    ASSUME NEW d \in Draft
    PROVE  /\ Sent(d) \in Draft
           /\ \A c \in Columns : Sent(d)[c] # d[c] =>
                 /\ c = "until" /\ page.editor.stamps /\ Sent(d).on /\ d.until = "never"
                 /\ Sent(d).until = "time"
BY DEF Sent, Draft, Columns

LEMMA SeededNever == ASSUME NEW r \in Row, Seeded(r).until = "never" PROVE r.until = "never"
BY DEF Seeded, Row

-----------------------------------------------------------------------------
(* The clicks that send something. *)

Sends(a, s, call) ==
    /\ s \in Slots /\ calls[a][s] = NoCall /\ call \in Call /\ call.at = "sent" /\ CallFits(call)
    /\ calls' = [calls EXCEPT ![a][s] = call]
    /\ clicks < MaxClicks(page) /\ clicks' = clicks + 1
    /\ UNCHANGED <<page, gone, rows, used, shown, fails, missed>>
    /\ filter' = [filter EXCEPT ![a] = filter'[a]] /\ filter'[a] \in BOOLEAN
    /\ call.filter = filter'[a]
    /\ late' = [late EXCEPT ![a] = late'[a]]
    /\ \/ filter' = filter /\ late' = late
       \/ late'[a] = {t \in Slots : calls[a][t] # NoCall}
    /\ loading' = [loading EXCEPT ![a] = loading'[a]] /\ loading'[a] \in BOOLEAN
    /\ call.kind # "load" => UNCHANGED <<filter, loading, late>>
    /\ page.after = "patch" => call.kind = "patch" /\ ~InFlight(a, "load")
    /\ IF call.kind = "post"
       THEN /\ form[a] # NoForm /\ Cardinality(Ids \ used) > Cardinality(SentPosts)
            /\ form' = [form EXCEPT ![a].sent = TRUE] /\ form[a].id = NoRow
            /\ asked' = IF form[a].sent THEN asked ELSE [asked EXCEPT ![a] = @ + 1]
            /\ resent' = [resent EXCEPT ![a] = @ \/ form[a].unsure \/ InFlight(a, "post")]
       ELSE UNCHANGED <<form, asked, resent>>
    /\ \/ busy' = busy
       \/ \E button \in page.guards \cap {"save", "flip"} :
             /\ busy' = [busy EXCEPT ![a] = <<button, call.id>>]
             /\ call.kind = "patch" /\ (call.saves <=> button = "save")

SendStep(a) ==
    SaveNew(a) \/ SaveRow(a) \/ MarkAllRead(a) \/ LoadAgain(a) \/ \E i \in Ids : Press(a, i) \/ Remove(a, i)

LEMMA SendStepSends ==
    ASSUME IInv, NEW a \in Admins, SendStep(a)
    PROVE  \E s \in Slots, call \in Call : Sends(a, s, call)
<1>0. /\ TypeOK /\ PageFits(page) /\ LoadsOnce(a)
      /\ form[a] # NoForm => form[a] \in Form /\ FormFits(form[a])
      /\ filter \in [Admins -> BOOLEAN] /\ loading \in [Admins -> BOOLEAN] /\ shown[a] \in List
      /\ filter = [filter EXCEPT ![a] = filter[a]] /\ loading = [loading EXCEPT ![a] = loading[a]]
      /\ late = [late EXCEPT ![a] = late[a]] /\ filter[a] \in BOOLEAN
  BY PageHas DEF IInv, Each, TypeOK, Fits
<1>1. CASE SaveNew(a)
  <2> DEFINE call == [Write(a, "post") EXCEPT !.row = Sent(form[a].row), !.saves = TRUE]
  <2>1. PICK s \in Slots : calls[a][s] = NoCall /\ calls' = [calls EXCEPT ![a][s] = call]
    BY <1>1 DEF SaveNew, Send
  <2>2. form[a] # NoForm /\ form[a].id = NoRow /\ form[a].row \in Draft /\ page.adds
    BY <1>0, <1>1 DEF SaveNew, FormFits, Form
  <2>3. /\ call \in Call /\ call.at = "sent" /\ call.kind = "post" /\ call.saves /\ call.row \in Draft
        /\ call.filter = filter[a]
    <3>1. /\ Write(a, "post") \in Call /\ Write(a, "post").kind = "post" /\ Write(a, "post").at = "sent"
          /\ Write(a, "post").filter = filter[a]
      BY <1>0, WriteIsCall
    <3>2. Sent(form[a].row) \in Draft
      BY <2>2, SentDraft
    <3> HIDE DEF call
    <3>3. call = [Write(a, "post") EXCEPT !.row = Sent(form[a].row), !.saves = TRUE]
      BY DEF call
    <3> QED
      BY <3>1, <3>2, <3>3 DEF Call
  <2> HIDE DEF call
  <2>4. page.after = "load" /\ CallFits(call)
    BY <1>0, <2>2, <2>3 DEF CallFits, PageFits
  <2> QED
    BY <1>0, <1>1, <2>1, <2>2, <2>3, <2>4 DEF SaveNew, Send, Sends
<1>2. CASE SaveRow(a)
  <2> DEFINE cols == IF page.editor.whole THEN Columns ELSE page.editor.fields
             call == [Write(a, "patch") EXCEPT !.id = form[a].id, !.row = Sent(form[a].row),
                                              !.base = form[a].base, !.cols = cols,
                                              !.typed = form[a].typed, !.saves = TRUE]
  <2>1. PICK s \in Slots : calls[a][s] = NoCall /\ calls' = [calls EXCEPT ![a][s] = call]
    BY <1>2 DEF SaveRow, Send
  <2>2. /\ form[a] # NoForm /\ form[a].id \in Ids /\ form[a].row \in Draft /\ form[a].base \in Row
        /\ page.edits /\ form[a].typed \subseteq page.editor.fields
        /\ \A c \in Columns \ form[a].typed : form[a].row[c] = Seeded(form[a].base)[c]
    BY <1>0, <1>2 DEF SaveRow, FormFits, Form
  <2>3. page.editor.fields \subseteq Columns /\ cols \subseteq Columns /\ form[a].typed \subseteq cols
    BY <1>0, <2>2 DEF PageFits, EditorFits
  <2>30. page.editor.stamps => "on" \in cols
    BY <1>0 DEF PageFits, Columns
  <2>31. Sent(form[a].row) \in Draft
    BY <2>2, SentDraft
  <2>4. page.after = "patch" => ~InFlight(a, "load") /\ cols = Cols
    BY <1>0, <2>2 DEF PageFits, LoadsOnce, Cols
  <2> HIDE DEF cols
  <2>5. /\ call \in Call /\ call.at = "sent" /\ call.kind = "patch" /\ call.saves
        /\ call.row = Sent(form[a].row) /\ call.id = form[a].id /\ call.base = form[a].base
        /\ call.cols = cols /\ call.typed = form[a].typed /\ call.filter = filter[a]
    <3>1. /\ Write(a, "patch") \in Call /\ Write(a, "patch").kind = "patch" /\ Write(a, "patch").at = "sent"
          /\ Write(a, "patch").filter = filter[a]
      BY <1>0, WriteIsCall
    <3>2. form[a].typed \in SUBSET Columns /\ cols \in SUBSET Columns
      BY <2>3
    <3> HIDE DEF call
    <3>3. call = [Write(a, "patch") EXCEPT !.id = form[a].id, !.row = Sent(form[a].row),
                                           !.base = form[a].base, !.cols = cols,
                                           !.typed = form[a].typed, !.saves = TRUE]
      BY DEF call
    <3> QED
      BY <2>2, <2>31, <3>1, <3>2, <3>3 DEF Call
  <2> HIDE DEF call
  <2>50. ASSUME NEW c \in cols \ form[a].typed PROVE Untouched(call, c)
    <3>1. c \in Columns /\ form[a].row[c] = Seeded(form[a].base)[c]
      BY <2>2, <2>3, <2>50
    <3>2. CASE Sent(form[a].row)[c] = form[a].row[c]
      BY <2>5, <3>1, <3>2 DEF Untouched
    <3>3. CASE Sent(form[a].row)[c] # form[a].row[c]
      <4>1. /\ c = "until" /\ page.editor.stamps /\ Sent(form[a].row).on
            /\ form[a].row.until = "never" /\ Sent(form[a].row).until = "time"
        BY <2>2, <3>1, <3>3, SentDraft
      <4>2. form[a].base.until = "never"
        BY <2>2, <3>1, <4>1, SeededNever
      <4> QED
        BY <2>30, <2>5, <4>1, <4>2 DEF Untouched, Stamped
    <3> QED
      BY <3>2, <3>3
  <2>6. CallFits(call)
    BY <2>2, <2>3, <2>31, <2>4, <2>5, <2>50 DEF CallFits
  <2>7. busy' = busy \/ \E button \in page.guards \cap {"save", "flip"} :
             /\ busy' = [busy EXCEPT ![a] = <<button, call.id>>]
             /\ call.kind = "patch" /\ (call.saves <=> button = "save")
    BY <1>2, <2>5 DEF SaveRow, Flag
  <2>8. /\ clicks < MaxClicks(page) /\ clicks' = clicks + 1
        /\ UNCHANGED <<page, gone, rows, used, shown, loading, filter, form, fails, missed, late, asked, resent>>
    BY <1>2 DEF SaveRow, Send
  <2> QED
    BY <1>0, <2>1, <2>4, <2>5, <2>6, <2>7, <2>8 DEF Sends
<1>3. CASE MarkAllRead(a)
  <2> DEFINE call == Write(a, "all")
  <2>1. PICK s \in Slots : calls[a][s] = NoCall /\ calls' = [calls EXCEPT ![a][s] = call]
    BY <1>3 DEF MarkAllRead, Send
  <2>2. call \in Call /\ call.at = "sent" /\ call.kind = "all" /\ call.filter = filter[a]
    BY <1>0, WriteIsCall
  <2>3. page.after = "load"
    BY <1>0, <1>3 DEF MarkAllRead, PageFits
  <2> HIDE DEF call
  <2>4. CallFits(call)
    BY <2>2, <2>3 DEF CallFits
  <2> QED
    BY <1>0, <1>3, <2>1, <2>2, <2>3, <2>4 DEF MarkAllRead, Send, Sends
<1>4. CASE LoadAgain(a)
  <2> DEFINE call == LoadWith(filter'[a])
  <2>1. PICK s \in Slots : calls[a][s] = NoCall /\ calls' = [calls EXCEPT ![a][s] = call]
    BY <1>4 DEF LoadAgain, Send
  <2>2. /\ filter'[a] \in BOOLEAN /\ filter' = [filter EXCEPT ![a] = filter'[a]]
        /\ loading'[a] \in BOOLEAN /\ loading' = [loading EXCEPT ![a] = loading'[a]]
    BY <1>0, <1>4 DEF LoadAgain, PageFits
  <2>20. /\ late' = [late EXCEPT ![a] = late'[a]]
         /\ \/ filter' = filter /\ late' = late
            \/ late'[a] = {t \in Slots : calls[a][t] # NoCall}
    <3>1. late \in [Admins -> SUBSET Slots]
      BY <1>0 DEF TypeOK
    <3>2. CASE page.polls
      BY <1>0, <1>4, <3>2 DEF LoadAgain
    <3>3. CASE ~page.polls
      BY <1>0, <1>4, <3>1, <3>3 DEF LoadAgain
    <3> QED
      BY <3>2, <3>3
  <2>3. call \in Call /\ call.at = "sent" /\ call.kind = "load" /\ call.filter = filter'[a]
    BY <2>2, LoadIsCall
  <2>4. page.after = "load"
    BY <1>0, <1>4 DEF LoadAgain, PageFits
  <2> HIDE DEF call
  <2>5. CallFits(call)
    BY <2>3, <2>4 DEF CallFits
  <2> QED
    BY <1>0, <1>4, <2>1, <2>2, <2>20, <2>3, <2>4, <2>5 DEF LoadAgain, Send, Sends
<1>5. ASSUME NEW i \in Ids, Press(a, i)
      PROVE  \E s \in Slots, call \in Call : Sends(a, s, call)
  <2> DEFINE r == shown[a][i]
             d == [r EXCEPT !.on = ~@]
             call == [Write(a, "patch") EXCEPT !.id = i, !.row = d, !.base = r, !.cols = {"on"},
                                              !.typed = {"on"}]
  <2>1. PICK s \in Slots : calls[a][s] = NoCall /\ calls' = [calls EXCEPT ![a][s] = call]
    BY <1>5 DEF Press, Send
  <2>2. r \in Row /\ r \in Draft
    BY <1>0, <1>5, RowsAreDrafts DEF Press, Listed, List
  <2>3. d \in Draft
    BY <2>2 DEF Draft
  <2>4. page.after = "patch" => ~InFlight(a, "load") /\ Cols = {"on"}
    BY <1>0, <1>5 DEF PageFits, LoadsOnce, Cols, Press, Listed, Empty
  <2> HIDE DEF d, r
  <2>5. /\ call \in Call /\ call.at = "sent" /\ call.kind = "patch" /\ ~call.saves /\ call.row = d
        /\ call.id = i /\ call.base = r /\ call.cols = {"on"} /\ call.typed = {"on"}
        /\ call.filter = filter[a]
    <3>1. /\ Write(a, "patch") \in Call /\ Write(a, "patch").kind = "patch" /\ Write(a, "patch").at = "sent"
          /\ ~Write(a, "patch").saves /\ Write(a, "patch").filter = filter[a]
      BY <1>0, WriteIsCall
    <3>2. {"on"} \in SUBSET Columns
      BY DEF Columns
    <3> HIDE DEF call
    <3>3. call = [Write(a, "patch") EXCEPT !.id = i, !.row = d, !.base = r, !.cols = {"on"},
                                           !.typed = {"on"}]
      BY DEF call
    <3> QED
      BY <2>2, <2>3, <3>1, <3>2, <3>3 DEF Call
  <2> HIDE DEF call
  <2>6. CallFits(call)
    BY <2>2, <2>3, <2>4, <2>5 DEF CallFits
  <2>7. busy' = busy \/ \E button \in page.guards \cap {"save", "flip"} :
             /\ busy' = [busy EXCEPT ![a] = <<button, call.id>>]
             /\ call.kind = "patch" /\ (call.saves <=> button = "save")
    BY <1>5, <2>5 DEF Press, Flag
  <2> QED
    BY <1>0, <1>5, <2>1, <2>4, <2>5, <2>6, <2>7 DEF Press, Send, Sends
<1>6. ASSUME NEW i \in Ids, Remove(a, i)
      PROVE  \E s \in Slots, call \in Call : Sends(a, s, call)
  <2> DEFINE call == [Write(a, "delete") EXCEPT !.id = i]
  <2>1. PICK s \in Slots : calls[a][s] = NoCall /\ calls' = [calls EXCEPT ![a][s] = call]
    BY <1>6 DEF Remove, Send
  <2>2. call \in Call /\ call.at = "sent" /\ call.kind = "delete" /\ call.id = i /\ call.filter = filter[a]
    <3>1. /\ Write(a, "delete") \in Call /\ Write(a, "delete").kind = "delete"
          /\ Write(a, "delete").at = "sent" /\ Write(a, "delete").filter = filter[a]
      BY <1>0, WriteIsCall
    <3> HIDE DEF call
    <3>2. call = [Write(a, "delete") EXCEPT !.id = i]
      BY DEF call
    <3> QED
      BY <3>1, <3>2 DEF Call
  <2>3. page.after = "load"
    BY <1>0, <1>6 DEF Remove, PageFits
  <2> HIDE DEF call
  <2>4. CallFits(call)
    BY <2>2, <2>3 DEF CallFits
  <2> QED
    BY <1>0, <1>6, <2>1, <2>2, <2>3, <2>4 DEF Remove, Send, Sends
<1> QED
  BY <1>1, <1>2, <1>3, <1>4, <1>5, <1>6 DEF SendStep

LEMMA Finite ==
    ASSUME TypeOK
    PROVE  /\ IsFiniteSet(SentPosts) /\ Cardinality(SentPosts) \in Nat
           /\ IsFiniteSet(Ids \ used) /\ Cardinality(Ids \ used) \in Nat
<1>1. IsFiniteSet(Slots)
  <2>1. Slots = {1} \cup {2}
    BY DEF Slots
  <2> QED
    BY <2>1, FS_Singleton, FS_AddElement
<1>2. IsFiniteSet(Admins \X Slots)
  BY <1>1, FS_Product, ConsoleAssumption
<1>3. SentPosts \subseteq Admins \X Slots /\ Ids \ used \subseteq Ids
  BY DEF SentPosts
<1> QED
  BY <1>2, <1>3, FS_Subset, FS_CardinalityType, ConsoleAssumption

\* The posts that are on their way when one slot changes.
LEMMA PostsChange ==
    ASSUME TypeOK, NEW a \in Admins, NEW s \in Slots, NEW x \in Call \cup {NoCall},
           calls' = [calls EXCEPT ![a][s] = x]
    PROVE  SentPosts' = IF x # NoCall /\ x.kind = "post" /\ x.at = "sent"
                        THEN SentPosts \cup {<<a, s>>} ELSE SentPosts \ {<<a, s>>}
<1>1. /\ calls'[a][s] = x
      /\ \A t \in Slots \ {s} : calls'[a][t] = calls[a][t]
      /\ \A b \in Admins \ {a} : calls'[b] = calls[b]
  BY SlotChanges DEF TypeOK
<1>2. \A q \in Admins \X Slots : q # <<a, s>> => calls'[q[1]][q[2]] = calls[q[1]][q[2]]
  BY <1>1
<1>3. \A q \in Admins \X Slots : q # <<a, s>> => (q \in SentPosts' <=> q \in SentPosts)
  BY <1>2 DEF SentPosts, IsSent
<1>4. <<a, s>> \in SentPosts' <=> x # NoCall /\ x.kind = "post" /\ x.at = "sent"
  BY <1>1 DEF SentPosts, IsSent
<1>5. <<a, s>> \in Admins \X Slots /\ SentPosts \subseteq Admins \X Slots /\ SentPosts' \subseteq Admins \X Slots
  BY DEF SentPosts
<1> QED
  BY <1>3, <1>4, <1>5

LEMMA SendsKeepTypes ==
    ASSUME IInv, NEW a \in Admins, NEW s \in Slots, NEW call \in Call, Sends(a, s, call)
    PROVE  TypeOK'
<1>1. TypeOK
  BY DEF IInv
<1>2. calls' \in [Admins -> [Slots -> Call \cup {NoCall}]]
  BY <1>1, SlotChanges DEF Sends, TypeOK
<1>3. clicks' \in 0..MaxClicks(page)'
  BY <1>1, ConsoleAssumption DEF Sends, TypeOK
<1>4. form' \in [Admins -> Form \cup {NoForm}]
  <2>1. CASE call.kind = "post"
    <3>1. form[a] \in Form /\ form' = [form EXCEPT ![a] = [form[a] EXCEPT !.sent = TRUE]]
      BY <1>1, <2>1 DEF Sends, TypeOK
    <3>2. [form[a] EXCEPT !.sent = TRUE] \in Form
      BY <3>1 DEF Form
    <3> QED
      BY <1>1, <3>1, <3>2 DEF TypeOK
  <2>2. CASE call.kind # "post"
    BY <1>1, <2>2 DEF Sends, TypeOK
  <2> QED
    BY <2>1, <2>2
<1>5. asked' \in [Admins -> Int] /\ resent' \in [Admins -> BOOLEAN]
  <2>1. CASE call.kind = "post"
    <3>1. form[a].unsure \in BOOLEAN /\ InFlight(a, "post") \in BOOLEAN
      BY <1>1, <2>1 DEF Sends, TypeOK, Form, InFlight
    <3>2. /\ asked' = IF form[a].sent THEN asked ELSE [asked EXCEPT ![a] = @ + 1]
          /\ resent' = [resent EXCEPT ![a] = @ \/ form[a].unsure \/ InFlight(a, "post")]
      BY <2>1 DEF Sends
    <3>3. asked \in [Admins -> Int] /\ resent \in [Admins -> BOOLEAN]
      BY <1>1 DEF TypeOK
    <3>4. asked' \in [Admins -> Int]
      BY <3>2, <3>3
    <3>5. resent' \in [Admins -> BOOLEAN]
      BY <3>1, <3>2, <3>3
    <3> QED
      BY <3>4, <3>5
  <2>2. CASE call.kind # "post"
    BY <1>1, <2>2 DEF Sends, TypeOK
  <2> QED
    BY <2>1, <2>2
<1>6. busy' \in [Admins -> ({"save", "flip"} \X Ids) \cup {NoCall}]
  <2>1. CASE busy' = busy
    BY <1>1, <2>1 DEF TypeOK
  <2>2. ASSUME NEW button \in {"save", "flip"}, busy' = [busy EXCEPT ![a] = <<button, call.id>>],
               call.kind = "patch"
        PROVE  busy' \in [Admins -> ({"save", "flip"} \X Ids) \cup {NoCall}]
    <3>1. call.id \in Ids
      BY <2>2 DEF Sends, CallFits
    <3> QED
      BY <1>1, <2>2, <3>1 DEF TypeOK
  <2> QED
    BY <2>1, <2>2 DEF Sends
<1>7. filter' \in [Admins -> BOOLEAN] /\ loading' \in [Admins -> BOOLEAN]
  BY <1>1 DEF Sends, TypeOK
<1>8. late' \in [Admins -> SUBSET Slots]
  <2>1. late \in [Admins -> SUBSET Slots]
    BY <1>1 DEF TypeOK
  <2>2. late'[a] \in SUBSET Slots
    BY <2>1 DEF Sends
  <2>3. late' = [late EXCEPT ![a] = late'[a]]
    BY DEF Sends
  <2> QED
    BY <2>1, <2>2, <2>3
<1> QED
  BY <1>1, <1>2, <1>3, <1>4, <1>5, <1>6, <1>7, <1>8 DEF TypeOK, Sends

LEMMA SendsKeepRoom ==
    ASSUME IInv, NEW a \in Admins, NEW s \in Slots, NEW call \in Call, Sends(a, s, call)
    PROVE  Room'
<1>1. TypeOK /\ Room /\ call # NoCall /\ used' = used
  BY NothingAssumption DEF IInv, Sends
<1>2. SentPosts' = IF call.kind = "post" THEN SentPosts \cup {<<a, s>>} ELSE SentPosts \ {<<a, s>>}
  <2>1. calls' = [calls EXCEPT ![a][s] = call] /\ call.at = "sent"
    BY DEF Sends
  <2>2. SentPosts' = IF call # NoCall /\ call.kind = "post" /\ call.at = "sent"
                     THEN SentPosts \cup {<<a, s>>} ELSE SentPosts \ {<<a, s>>}
    BY <1>1, <2>1, PostsChange
  <2> QED
    BY <1>1, <2>1, <2>2
<1>3. <<a, s>> \notin SentPosts
  BY DEF Sends, SentPosts, IsSent
<1>4. CASE call.kind = "post"
  <2>1. Cardinality(SentPosts') = Cardinality(SentPosts) + 1
    BY <1>1, <1>2, <1>3, <1>4, Finite, FS_AddElement
  <2>2. Cardinality(Ids \ used) > Cardinality(SentPosts)
    BY <1>4 DEF Sends
  <2> QED
    BY <1>1, <2>1, <2>2, Finite DEF Room
<1>5. CASE call.kind # "post"
  BY <1>1, <1>2, <1>3, <1>5 DEF Room
<1> QED
  BY <1>4, <1>5

LEMMA SendsFit ==
    ASSUME IInv, NEW a \in Admins, NEW s \in Slots, NEW call \in Call, Sends(a, s, call)
    PROVE  Fits'
<1>1. TypeOK /\ Fits /\ page' = page /\ calls' = [calls EXCEPT ![a][s] = call]
  BY DEF IInv, Sends
<1>2. /\ calls'[a][s] = call
      /\ \A t \in Slots \ {s} : calls'[a][t] = calls[a][t]
      /\ \A b \in Admins \ {a} : calls'[b] = calls[b]
  BY <1>1, SlotChanges DEF TypeOK
<1>3. ASSUME NEW b \in Admins, NEW t \in Slots, calls'[b][t] # NoCall
      PROVE  CallFits(calls[b][t])' 
  <2>1. CASE b = a /\ t = s
    <3>1. CallFits(call)
      BY DEF Sends
    <3> QED
      BY <1>1, <1>2, <2>1, <3>1, SMTT(30) DEF CallFits, Cols, Untouched, Stamped, Seeded
  <2>2. CASE ~(b = a /\ t = s)
    <3>1. calls'[b][t] = calls[b][t] /\ CallFits(calls[b][t])
      BY <1>1, <1>2, <1>3, <2>2 DEF Fits
    <3> QED
      BY <1>1, <3>1, CallStillFits
  <2> QED
    BY <2>1, <2>2
<1>4. ASSUME NEW b \in Admins, form'[b] # NoForm
      PROVE  FormFits(form[b])'
  <2>1. CASE form' = form
    BY <1>1, <1>4, <2>1 DEF Fits, FormFits, Seeded
  <2>2. CASE form[a] # NoForm /\ form[a].id = NoRow /\ form' = [form EXCEPT ![a].sent = TRUE]
    <3>1. CASE b = a
      <4>1. form[a] \in Form /\ form'[a] = [form[a] EXCEPT !.sent = TRUE] /\ FormFits(form[a])
        BY <1>1, <2>2 DEF TypeOK, Fits
      <4>2. form'[a].id = NoRow
        BY <2>2, <4>1 DEF Form
      <4> QED
        BY <1>1, <2>2, <3>1, <4>1, <4>2 DEF FormFits
    <3>2. CASE b # a
      BY <1>1, <1>4, <2>2, <3>2 DEF Fits, FormFits, TypeOK, Seeded
    <3> QED
      BY <3>1, <3>2
  <2> QED
    BY <2>1, <2>2 DEF Sends
<1> QED
  BY <1>3, <1>4 DEF Fits

LEMMA SenderKeepsEach ==
    ASSUME IInv, NEW a \in Admins, NEW s \in Slots, NEW call \in Call, Sends(a, s, call)
    PROVE  Each(a)'
<1>0. /\ TypeOK /\ Each(a) /\ call # NoCall /\ calls[a][s] = NoCall /\ call.at = "sent"
      /\ UNCHANGED <<page, gone, rows, shown, missed>>
  BY NothingAssumption DEF IInv, Sends
<1>1. calls'[a][s] = call /\ \A t \in Slots \ {s} : calls'[a][t] = calls[a][t]
  BY <1>0, SlotChanges DEF Sends, TypeOK
<1>2. \A t \in Slots : calls[a][t] # NoCall => t # s /\ calls'[a][t] = calls[a][t]
  BY <1>0, <1>1
<1>3. /\ InFlight(a, "load")' <=> (call.kind = "load" \/ InFlight(a, "load"))
      /\ InFlight(a, "post")' <=> (call.kind = "post" \/ InFlight(a, "post"))
  BY <1>0, <1>1 DEF InFlight
<1>4. \A t \in Slots : IsDone(a, t)' <=> IsDone(a, t)
  BY <1>0, <1>1 DEF IsDone
<1>5. \A t \in Slots, i \in Ids : Written(a, t, i)' <=> Written(a, t, i)
  BY <1>0, <1>1, <1>4 DEF Written, IsDone
<1>6. LoadsOnce(a)'
  BY <1>0, <1>3 DEF Sends, Each, LoadsOnce
<1>60. Answers(a)'
  <2>1. page.after = "patch" => late' = late
    BY DEF Sends
  <2>2. ASSUME NEW t \in Slots \ late'[a], calls'[a][t] # NoCall
        PROVE  /\ calls'[a][t].filter = filter'[a]
               /\ IsDone(a, t)' /\ calls'[a][t].kind = "load" => calls'[a][t].list = View(filter[a])'
    <3>1. CASE t = s
      <4>1. call.filter = filter'[a]
        BY DEF Sends
      <4> QED
        BY <1>0, <1>1, <3>1, <4>1 DEF IsDone
    <3>2. CASE t # s
      <4>1. calls'[a][t] = calls[a][t] /\ calls[a][t] # NoCall
        BY <1>1, <2>2, <3>2
      <4>2. filter' = filter /\ late' = late
        BY <2>2, <4>1 DEF Sends
      <4>3. View(filter[a])' = View(filter[a])
        BY <1>0, <4>2 DEF View, Passes
      <4> QED
        BY <1>0, <1>4, <2>2, <4>1, <4>2, <4>3 DEF Each, Answers
    <3> QED
      BY <3>1, <3>2
  <2>3. page'.after = "patch" => \A t \in late'[a] : IsDone(a, t)'
    <3>1. late[a] \subseteq Slots
      BY <1>0 DEF TypeOK
    <3> QED
      BY <1>0, <1>4, <2>1, <3>1 DEF Each, Answers
  <2> QED
    BY <2>2, <2>3 DEF Answers
<1>7. CurrentByLoad(a)'
  <2>1. CASE call.kind = "load"
    BY <1>3, <2>1 DEF CurrentByLoad
  <2>2. CASE call.kind # "load"
    <3>1. filter' = filter /\ View(filter[a])' = View(filter[a])
      BY <1>0, <2>2 DEF Sends, View, Passes
    <3>2. \A t \in Slots : IsDone(a, t) => calls'[a][t] = calls[a][t]
      BY <1>2 DEF IsDone
    <3> QED
      BY <1>0, <1>3, <1>4, <3>1, <3>2 DEF Each, CurrentByLoad
  <2> QED
    BY <2>1, <2>2
<1>8. CurrentByHand(a)'
  <2>1. \A t \in Slots, i \in Ids : Written(a, t, i) => calls'[a][t] = calls[a][t]
    BY <1>2 DEF Written, IsDone
  <2> SUFFICES ASSUME page.after = "patch", ~missed[a], ~InFlight(a, "load")' PROVE CurrentByHand(a)'
    BY <1>0 DEF CurrentByHand
  <2>2. ~InFlight(a, "load")
    BY <1>3
  <2>3. CurrentByHand(a) /\ late' = late
    BY <1>0 DEF Each, Sends
  <2> QED
    BY <1>0, <1>5, <2>1, <2>2, <2>3 DEF CurrentByHand, ByHand, Cols
<1>9. Waits(a)'
  <2>1. loading'[a] => InFlight(a, "load")'
    BY <1>0, <1>3 DEF Sends, Each, Waits
  <2>2. ASSUME busy'[a] # NoCall
        PROVE  /\ busy'[a][1] \in page.guards
               /\ \E t \in Slots : /\ calls'[a][t] # NoCall /\ calls'[a][t].kind = "patch"
                                   /\ calls'[a][t].id = busy'[a][2]
                                   /\ calls'[a][t].saves <=> busy'[a][1] = "save"
    <3>1. CASE busy' = busy
      BY <1>0, <1>2, <2>2, <3>1 DEF Each, Waits
    <3>2. ASSUME NEW button \in page.guards, busy' = [busy EXCEPT ![a] = <<button, call.id>>],
                 call.kind = "patch", call.saves <=> button = "save"
          PROVE  /\ busy'[a][1] \in page.guards
                 /\ \E t \in Slots : /\ calls'[a][t] # NoCall /\ calls'[a][t].kind = "patch"
                                     /\ calls'[a][t].id = busy'[a][2]
                                     /\ calls'[a][t].saves <=> busy'[a][1] = "save"
      <4>1. busy'[a] = <<button, call.id>>
        BY <1>0, <3>2 DEF TypeOK
      <4> QED
        BY <1>0, <1>1, <3>2, <4>1
    <3> QED
      BY <3>1, <3>2 DEF Sends
  <2> QED
    BY <1>0, <2>1, <2>2 DEF Waits
<1>10. Resends(a)'
  <2>1. \A t \in Slots : IsSent(a, t, "post") => IsSent(a, t, "post")'
    BY <1>2 DEF IsSent
  <2>2. CASE call.kind # "post"
    <3>1. \A t \in Slots : IsSent(a, t, "post")' => IsSent(a, t, "post")
      BY <1>0, <1>1, <2>2 DEF IsSent
    <3>2. ~\A t \in Slots : calls'[a][t] # NoCall /\ calls'[a][t].kind = "post"
      BY <1>0, <1>1, <2>2 DEF Sends
    <3> QED
      BY <1>0, <1>3, <2>2, <3>1, <3>2 DEF Sends, Each, Resends
  <2>3. CASE call.kind = "post"
    <3> SUFFICES ASSUME ~resent'[a] PROVE Resends(a)'
      BY DEF Resends
    <3>1. ~resent[a] /\ ~form[a].unsure /\ ~InFlight(a, "post") /\ form[a] # NoForm
      <4>1. form[a] # NoForm /\ resent' = [resent EXCEPT ![a] = @ \/ form[a].unsure \/ InFlight(a, "post")]
        BY <2>3 DEF Sends
      <4>2. resent \in [Admins -> BOOLEAN]
        BY <1>0 DEF TypeOK
      <4> QED
        BY <4>1, <4>2
    <3>2. ~form[a].sent /\ asked[a] >= 0
      BY <1>0, <3>1 DEF Each, Resends
    <3>3. asked'[a] = asked[a] + 1 /\ asked[a] \in Int
      <4>1. asked' = [asked EXCEPT ![a] = @ + 1]
        BY <2>3, <3>2 DEF Sends
      <4>2. asked \in [Admins -> Int]
        BY <1>0 DEF TypeOK
      <4> QED
        BY <4>1, <4>2
    <3>4. ~\A t \in Slots : calls'[a][t] # NoCall /\ calls'[a][t].kind = "post"
      BY <1>0, <1>1, <3>1 DEF InFlight, Slots
    <3> QED
      BY <1>3, <2>3, <3>2, <3>3, <3>4 DEF Resends
  <2> QED
    BY <2>2, <2>3
<1> QED
  BY <1>6, <1>60, <1>7, <1>8, <1>9, <1>10 DEF Each

LEMMA SendsKeepIInv ==
    ASSUME IInv, NEW a \in Admins, NEW s \in Slots, NEW call \in Call, Sends(a, s, call)
    PROVE  IInv'
<1>1. TypeOK
  BY DEF IInv
<1>2. ASSUME NEW b \in Admins \ {a} PROVE Each(b)'
  <2>1. /\ filter'[b] = filter[b] /\ loading'[b] = loading[b] /\ form'[b] = form[b] /\ busy'[b] = busy[b]
        /\ asked'[b] = asked[b] /\ resent'[b] = resent[b] /\ late'[b] = late[b] /\ late[b] \subseteq Slots
    BY <1>1 DEF Sends, TypeOK
  <2>2. calls'[b] = calls[b]
    BY <1>1, SlotChanges DEF Sends, TypeOK
  <2> QED
    BY <2>1, <2>2, Elsewhere DEF IInv, Sends
<1> QED
  BY <1>2, SendsKeepTypes, SendsKeepRoom, SendsFit, SenderKeepsEach DEF IInv

-----------------------------------------------------------------------------
(* The server's steps. *)

Serves(a, s, call) ==
    /\ calls[a][s] # NoCall /\ calls[a][s].at = "sent"
    /\ call \in Call /\ call.at \in {"done", "refused"} /\ CallFits(call)
    /\ call.kind = calls[a][s].kind /\ call.id = calls[a][s].id /\ call.saves = calls[a][s].saves
    /\ call.filter = calls[a][s].filter
    /\ call.kind = "load" /\ call.at = "done" => call.list = View(call.filter)
    /\ calls' = [calls EXCEPT ![a][s] = call]
    /\ UNCHANGED <<page, gone, shown, loading, filter, form, busy, clicks, fails, resent>>
    /\ rows' \in List /\ Tell(a)
    /\ rows' = rows \/ (call.at = "done" /\ call.kind # "load")
    /\ \A i \in Ids : rows'[i] # NoRow => i \in used'
    /\ \/ UNCHANGED <<used, asked>>
       \/ /\ call.kind = "post"
          /\ \E new \in Ids \ used : used' = used \cup {new}
          /\ asked' = [asked EXCEPT ![a] = @ - 1]
    /\ page.after = "patch" /\ call.kind = "patch" =>
          IF call.at = "done"
          THEN /\ rows[call.id] \in Row /\ call.row \in Row
               /\ rows' = [rows EXCEPT ![call.id] = call.row]
               /\ \A c \in Columns \ Cols : call.row[c] = rows[call.id][c]
          ELSE rows' = rows

\* What becomes of a call that was served.
LEMMA ServedCall ==
    ASSUME IInv, NEW a \in Admins, NEW s \in Slots, calls[a][s] # NoCall, calls[a][s].at = "sent",
           NEW q \in Call, NEW outcome \in {"done", "refused"}, Served(a, s, q, outcome),
           q.kind = calls[a][s].kind, q.id = calls[a][s].id, q.saves = calls[a][s].saves,
           q.filter = calls[a][s].filter, q.cols = calls[a][s].cols,
           page.after = "patch" /\ q.kind = "patch" /\ outcome = "done" => q.row \in Row
    PROVE  \E call \in Call :
               /\ call.at = outcome /\ CallFits(call)
               /\ call.kind = q.kind /\ call.id = q.id /\ call.saves = q.saves
               /\ call.filter = q.filter /\ call.list = q.list
               /\ calls' = [calls EXCEPT ![a][s] = call]
               /\ page.after = "patch" => call.row = q.row
<1>1. CallFits(calls[a][s])
  BY DEF IInv, Fits
<1>2. CASE page.after = "patch"
  <2> DEFINE call == [q EXCEPT !.at = outcome, !.base = NoRow, !.typed = {}]
  <2>1. /\ call \in Call /\ call.at = outcome /\ call.kind = q.kind /\ call.id = q.id /\ call.saves = q.saves
        /\ call.row = q.row /\ call.filter = q.filter /\ call.cols = q.cols /\ call.list = q.list
    BY DEF Call
  <2>2. calls' = [calls EXCEPT ![a][s] = call]
    BY <1>2 DEF Served
  <2> HIDE DEF call
  <2>3. CallFits(call)
    BY <1>1, <1>2, <2>1 DEF CallFits
  <2> QED
    BY <2>1, <2>2, <2>3
<1>3. CASE page.after # "patch"
  <2> DEFINE call == [Request(q.kind) EXCEPT !.at = outcome, !.id = q.id, !.list = q.list,
                                            !.saves = q.saves, !.filter = q.filter]
  <2>1. /\ call \in Call /\ call.at = outcome /\ call.kind = q.kind /\ call.id = q.id /\ call.saves = q.saves
        /\ call.filter = q.filter /\ call.list = q.list
    <3>1. Request(q.kind) \in Call /\ Request(q.kind).kind = q.kind
      BY RequestIsCall DEF Request, Call
    <3> QED
      BY <3>1 DEF Call
  <2>2. calls' = [calls EXCEPT ![a][s] = call]
    BY <1>3 DEF Served
  <2> HIDE DEF call
  <2>3. CallFits(call)
    BY <1>1, <1>3, <2>1 DEF CallFits
  <2> QED
    BY <1>3, <2>1, <2>2, <2>3
<1> QED
  BY <1>2, <1>3

LEMMA RowsOfCalls ==
    /\ \A d \in Draft : Stored(d) \in Row
    /\ \A r \in Row, on \in BOOLEAN : [r EXCEPT !.on = on] \in Row
    /\ \A r \in Row : r = [c \in Columns |-> r[c]]
<1>1. \A d \in Draft : Stored(d) \in Row
  BY DEF Stored, Draft, Row
<1>2. \A r \in Row, on \in BOOLEAN : [r EXCEPT !.on = on] \in Row
  BY DEF Row
<1>3. \A r \in Row : r = [c \in Columns |-> r[c]]
  BY DEF Row, Columns
<1> QED
  BY <1>1, <1>2, <1>3

\* There is an id for a row that is inserted.
LEMMA FreshId ==
    ASSUME IInv, NEW a \in Admins, NEW s \in Slots, IsSent(a, s, "post")
    PROVE  (CHOOSE i \in Ids : i \notin used) \in Ids \ used
<1>1. <<a, s>> \in SentPosts
  BY DEF SentPosts
<1>2. Cardinality(SentPosts) # 0
  BY <1>1, Finite, FS_EmptySet DEF IInv
<1>3. Cardinality(Ids \ used) # 0
  BY <1>2, Finite DEF IInv, Room
<1>4. \E i \in Ids : i \notin used
  BY <1>3, FS_EmptySet, Ids \ used = {} \/ \E i \in Ids : i \notin used
<1> QED
  BY <1>4

LEMMA NothingToTell ==
    ASSUME TypeOK, NEW a \in Admins, UNCHANGED <<page, rows, missed, late>>
    PROVE  Tell(a)
<1>1. missed \in [Admins -> BOOLEAN] /\ late \in [Admins -> SUBSET Slots]
  BY DEF TypeOK
<1>2. missed' = [b \in Admins |-> missed[b] \/ (b # a /\ rows' # rows)]
  BY <1>1
<1>3. late' = [b \in Admins |-> late[b] \cup {s \in Slots : IsDone(b, s) /\ Outdated(calls[b][s])}]
  BY <1>1 DEF Outdated
<1> QED
  BY <1>2, <1>3 DEF Tell

LEMMA ServeStepServes ==
    ASSUME IInv, NEW a \in Admins, NEW s \in Slots, Serve(a, s)
    PROVE  \E call \in Call : Serves(a, s, call)
<1> DEFINE old == calls[a][s]
<1>0. /\ TypeOK /\ PageFits(page) /\ rows \in List /\ old # NoCall /\ old.at = "sent" /\ old \in Call
      /\ CallFits(old)
  BY PageHas DEF IInv, TypeOK, Fits, Serve, ServeLoad, ServePost, ServePatch, ServeAll, ServeDelete,
                 RefuseBare, IsSent
<1>00. \A i \in Ids : rows[i] # NoRow => i \in used /\ rows[i] \in Row
  BY <1>0 DEF TypeOK, List
<1>1. CASE ServeLoad(a, s)
  <2> DEFINE q == [old EXCEPT !.list = View(old.filter)]
  <2>1. View(old.filter) \in List
    BY <1>00 DEF View, List
  <2>2. /\ q \in Call /\ q.kind = old.kind /\ q.id = old.id /\ q.saves = old.saves /\ q.filter = old.filter
        /\ q.cols = old.cols /\ old.kind = "load" /\ q.list = View(old.filter)
    BY <1>0, <1>1, <2>1 DEF Call, ServeLoad, IsSent
  <2>3. Served(a, s, old, "refused") \/ Served(a, s, q, "done")
    BY <1>1 DEF ServeLoad
  <2> HIDE DEF q
  <2>4. PICK call \in Call :
            /\ call.at \in {"done", "refused"} /\ CallFits(call)
            /\ call.kind = old.kind /\ call.id = old.id /\ call.saves = old.saves
            /\ call.filter = old.filter /\ (call.at = "done" => call.list = View(old.filter))
            /\ calls' = [calls EXCEPT ![a][s] = call]
    <3>1. CASE Served(a, s, old, "refused")
      BY <1>0, <2>2, <3>1, ServedCall
    <3>2. CASE Served(a, s, q, "done")
      BY <1>0, <2>2, <3>2, ServedCall
    <3> QED
      BY <2>3, <3>1, <3>2
  <2>5. Tell(a)
    BY <1>0, <1>1, NothingToTell DEF ServeLoad
  <2> QED
    BY <1>0, <1>00, <1>1, <2>2, <2>4, <2>5 DEF ServeLoad, Serves
<1>2. CASE ServePost(a, s)
  <2> DEFINE new == CHOOSE i \in Ids : i \notin used
  <2>1. old.kind = "post" /\ old.row \in Draft /\ page.after # "patch"
    BY <1>0, <1>2 DEF ServePost, IsSent, CallFits
  <2>2. ASSUME NEW outcome \in {"done", "refused"}, Served(a, s, old, outcome)
        PROVE  \E call \in Call :
                  /\ call.at = outcome /\ CallFits(call)
                  /\ call.kind = old.kind /\ call.id = old.id /\ call.saves = old.saves
                  /\ call.filter = old.filter /\ calls' = [calls EXCEPT ![a][s] = call]
    BY <1>0, <2>1, <2>2, ServedCall
  <2>3. Tell(a) /\ UNCHANGED <<page, gone, shown, loading, filter, form, busy, clicks, fails, resent>>
    BY <1>2 DEF ServePost
  <2>4. CASE /\ rows' = [rows EXCEPT ![new] = Stored(old.row)] /\ used' = used \cup {new}
             /\ asked' = [asked EXCEPT ![a] = @ - 1] /\ Served(a, s, old, "done")
    <3>1. new \in Ids \ used
      BY <1>2, FreshId DEF ServePost
    <3>2. rows' \in List /\ \A i \in Ids : rows'[i] # NoRow => i \in used'
      BY <1>0, <1>00, <2>1, <2>4, <3>1, RowsOfCalls DEF List
    <3> HIDE DEF new
    <3> QED
      BY <1>0, <2>1, <2>2, <2>3, <2>4, <3>1, <3>2 DEF Serves
  <2>5. CASE /\ rows' = [i \in Ids |-> IF rows[i] # NoRow /\ rows[i].key = old.row.key
                                       THEN [rows[i] EXCEPT !.on = old.row.on] ELSE rows[i]]
             /\ Served(a, s, old, "done") /\ UNCHANGED <<used, asked>>
    <3>1. old.row.on \in BOOLEAN
      BY <2>1 DEF Draft
    <3>2. rows' \in List /\ \A i \in Ids : rows'[i] # NoRow => i \in used'
      BY <1>0, <1>00, <2>5, <3>1, RowsOfCalls DEF List
    <3> QED
      BY <1>0, <2>1, <2>2, <2>3, <2>5, <3>2 DEF Serves
  <2>6. CASE Served(a, s, old, "refused") /\ UNCHANGED <<rows, used, asked>>
    BY <1>0, <1>00, <2>1, <2>2, <2>3, <2>6 DEF Serves
  <2> QED
    BY <1>2, <2>4, <2>5, <2>6 DEF ServePost
<1>3. CASE ServePatch(a, s)
  <2> DEFINE i == old.id
             new == Patched(rows[i], old)
             q == [old EXCEPT !.row = rows'[i]]
  <2>1. old.kind = "patch" /\ i \in Ids
    BY <1>0, <1>3 DEF ServePatch, IsSent, CallFits
  <2>2. Tell(a) /\ UNCHANGED <<page, gone, used, shown, loading, filter, form, busy, clicks, fails, asked, resent>>
    BY <1>3 DEF ServePatch
  <2>3. CASE /\ rows[i] # NoRow /\ new \in Row /\ rows' = [rows EXCEPT ![i] = new]
             /\ Served(a, s, q, "done")
    <3>1. rows'[i] = new /\ rows' \in List
      BY <1>0, <2>1, <2>3 DEF List
    <3>2. /\ q \in Call /\ q.kind = old.kind /\ q.id = old.id /\ q.saves = old.saves /\ q.filter = old.filter
          /\ q.cols = old.cols /\ q.row = new
      BY <1>0, <2>3, <3>1, RowsAreDrafts DEF Call
    <3> HIDE DEF q
    <3>3. PICK call \in Call :
              /\ call.at = "done" /\ CallFits(call)
              /\ call.kind = old.kind /\ call.id = old.id /\ call.saves = old.saves
              /\ call.filter = old.filter /\ calls' = [calls EXCEPT ![a][s] = call]
              /\ page.after = "patch" => call.row = new
      BY <1>0, <2>3, <3>2, ServedCall
    <3>4. page.after = "patch" => \A c \in Columns \ Cols : new[c] = rows[i][c]
      BY <1>0, <2>1 DEF CallFits, Patched
    <3>5. rows[i] \in Row /\ \A j \in Ids : rows'[j] # NoRow => j \in used'
      BY <1>00, <1>0, <2>1, <2>2, <2>3 DEF List
    <3> HIDE DEF new
    <3> QED
      BY <1>0, <2>1, <2>2, <2>3, <3>1, <3>3, <3>4, <3>5 DEF Serves
  <2>4. CASE Served(a, s, old, "refused") /\ UNCHANGED rows
    <3>1. PICK call \in Call :
              /\ call.at = "refused" /\ CallFits(call)
              /\ call.kind = old.kind /\ call.id = old.id /\ call.saves = old.saves
              /\ call.filter = old.filter /\ calls' = [calls EXCEPT ![a][s] = call]
      BY <1>0, <2>4, ServedCall
    <3> QED
      BY <1>0, <1>00, <2>1, <2>2, <2>4, <3>1 DEF Serves
  <2>5. CASE Served(a, s, old, "done") /\ "patch" \notin page.endpoint.misses /\ UNCHANGED rows
    <3>1. page.after # "patch"
      BY <1>0, <2>5 DEF PageFits
    <3>2. PICK call \in Call :
              /\ call.at = "done" /\ CallFits(call)
              /\ call.kind = old.kind /\ call.id = old.id /\ call.saves = old.saves
              /\ call.filter = old.filter /\ calls' = [calls EXCEPT ![a][s] = call]
      BY <1>0, <2>5, <3>1, ServedCall
    <3> QED
      BY <1>0, <1>00, <2>1, <2>2, <2>5, <3>1, <3>2 DEF Serves
  <2>6. \/ /\ rows[i] # NoRow /\ new \in Row /\ rows' = [rows EXCEPT ![i] = new]
           /\ Served(a, s, q, "done")
        \/ Served(a, s, old, "refused") /\ UNCHANGED rows
        \/ Served(a, s, old, "done") /\ "patch" \notin page.endpoint.misses /\ UNCHANGED rows
    BY <1>3 DEF ServePatch
  <2> QED
    BY <2>3, <2>4, <2>5, <2>6
<1>4. CASE ServeAll(a, s)
  <2>1. old.kind = "all" /\ page.after # "patch"
    BY <1>0, <1>4 DEF ServeAll, IsSent, CallFits
  <2>2. rows' \in List /\ \A i \in Ids : rows'[i] # NoRow => i \in used'
    BY <1>00, <1>4, RowsOfCalls DEF ServeAll, List
  <2>3. PICK call \in Call :
            /\ call.at = "done" /\ CallFits(call)
            /\ call.kind = old.kind /\ call.id = old.id /\ call.saves = old.saves
            /\ call.filter = old.filter /\ calls' = [calls EXCEPT ![a][s] = call]
    BY <1>0, <1>4, <2>1, ServedCall DEF ServeAll
  <2> QED
    BY <1>0, <1>4, <2>1, <2>2, <2>3 DEF ServeAll, Serves
<1>5. CASE ServeDelete(a, s)
  <2>1. old.kind = "delete" /\ page.after # "patch" /\ old.id \in Ids
    BY <1>0, <1>5 DEF ServeDelete, IsSent, CallFits
  <2>2. rows' \in List /\ \A i \in Ids : rows'[i] # NoRow => i \in used'
    BY <1>0, <1>00, <1>5, <2>1 DEF ServeDelete, List
  <2>3. PICK outcome \in {"done", "refused"} :
            /\ Served(a, s, old, outcome)
            /\ outcome = "refused" => rows[old.id] = NoRow
    BY <1>5 DEF ServeDelete
  <2>4. outcome = "refused" => rows' = rows
    BY <1>0, <1>5, <2>1, <2>3 DEF ServeDelete, List
  <2>5. PICK call \in Call :
            /\ call.at = outcome /\ CallFits(call)
            /\ call.kind = old.kind /\ call.id = old.id /\ call.saves = old.saves
            /\ call.filter = old.filter /\ calls' = [calls EXCEPT ![a][s] = call]
    BY <1>0, <2>1, <2>3, ServedCall
  <2> QED
    BY <1>0, <1>5, <2>1, <2>2, <2>4, <2>5 DEF ServeDelete, Serves
<1>6. CASE RefuseBare(a, s)
  <2>1. old.kind # "load" /\ old.cols \subseteq Columns
    BY <1>0, <1>6 DEF RefuseBare, Call
  <2>2. PICK call \in Call :
            /\ call.at = "refused" /\ CallFits(call)
            /\ call.kind = old.kind /\ call.id = old.id /\ call.saves = old.saves
            /\ call.filter = old.filter /\ calls' = [calls EXCEPT ![a][s] = call]
    BY <1>0, <1>6, ServedCall DEF RefuseBare
  <2>3. Tell(a)
    BY <1>0, <1>6, NothingToTell DEF RefuseBare
  <2> QED
    BY <1>0, <1>00, <1>6, <2>1, <2>2, <2>3 DEF RefuseBare, Serves
<1> QED
  BY <1>1, <1>2, <1>3, <1>4, <1>5, <1>6 DEF Serve

LEMMA ServesKeepTypes ==
    ASSUME IInv, NEW a \in Admins, NEW s \in Slots, NEW call \in Call, Serves(a, s, call)
    PROVE  TypeOK'
<1>1. TypeOK
  BY DEF IInv
<1>2. calls' \in [Admins -> [Slots -> Call \cup {NoCall}]]
  BY <1>1, SlotChanges DEF Serves, TypeOK
<1>3. missed' \in [Admins -> BOOLEAN]
  BY <1>1 DEF Serves, Tell, TypeOK
<1>30. late' \in [Admins -> SUBSET Slots]
  BY <1>1 DEF Serves, Tell, TypeOK
<1>4. used' \subseteq Ids /\ asked' \in [Admins -> Int]
  BY <1>1 DEF Serves, TypeOK
<1> QED
  BY <1>1, <1>2, <1>3, <1>30, <1>4 DEF TypeOK, Serves

LEMMA ServesKeepRoom ==
    ASSUME IInv, NEW a \in Admins, NEW s \in Slots, NEW call \in Call, Serves(a, s, call)
    PROVE  Room'
<1>1. TypeOK /\ Room /\ call.at # "sent"
  BY DEF IInv, Serves
<1>2. SentPosts' = SentPosts \ {<<a, s>>}
  <2>1. calls' = [calls EXCEPT ![a][s] = call]
    BY DEF Serves
  <2>2. SentPosts' = IF call # NoCall /\ call.kind = "post" /\ call.at = "sent"
                     THEN SentPosts \cup {<<a, s>>} ELSE SentPosts \ {<<a, s>>}
    BY <1>1, <2>1, PostsChange
  <2> QED
    BY <1>1, <2>2
<1>3. Cardinality(SentPosts') <= Cardinality(SentPosts) /\ Cardinality(SentPosts') \in Nat
  BY <1>1, <1>2, Finite, FS_Subset, FS_CardinalityType
<1>4. CASE used' = used
  BY <1>1, <1>3, <1>4, Finite DEF Room
<1>5. ASSUME call.kind = "post", NEW new \in Ids \ used, used' = used \cup {new}
      PROVE  Room'
  <2>1. <<a, s>> \in SentPosts
    BY <1>5 DEF Serves, SentPosts, IsSent
  <2>2. Cardinality(SentPosts') = Cardinality(SentPosts) - 1
    BY <1>1, <1>2, <2>1, Finite, FS_RemoveElement
  <2>3. Ids \ used' = (Ids \ used) \ {new}
    BY <1>5
  <2>4. Cardinality(Ids \ used') = Cardinality(Ids \ used) - 1
    <3>1. IsFiniteSet(Ids \ used) /\ new \in Ids \ used
      BY <1>1, <1>5, Finite
    <3>2. Cardinality((Ids \ used) \ {new}) = Cardinality(Ids \ used) - 1
      BY <3>1, FS_RemoveElement
    <3> QED
      BY <2>3, <3>2
  <2> QED
    BY <1>1, <2>2, <2>4, Finite DEF Room
<1> QED
  BY <1>4, <1>5 DEF Serves

LEMMA ServesFit ==
    ASSUME IInv, NEW a \in Admins, NEW s \in Slots, NEW call \in Call, Serves(a, s, call)
    PROVE  Fits'
<1>1. TypeOK /\ Fits /\ page' = page /\ form' = form /\ calls' = [calls EXCEPT ![a][s] = call]
  BY DEF IInv, Serves
<1>2. /\ calls'[a][s] = call
      /\ \A t \in Slots \ {s} : calls'[a][t] = calls[a][t]
      /\ \A b \in Admins \ {a} : calls'[b] = calls[b]
  BY <1>1, SlotChanges DEF TypeOK
<1>3. ASSUME NEW b \in Admins, NEW t \in Slots, calls'[b][t] # NoCall
      PROVE  CallFits(calls[b][t])'
  <2>1. CASE b = a /\ t = s
    <3>1. CallFits(call)
      BY DEF Serves
    <3> QED
      BY <1>1, <1>2, <2>1, <3>1, SMTT(30) DEF CallFits, Cols, Untouched, Stamped, Seeded
  <2>2. CASE ~(b = a /\ t = s)
    <3>1. calls'[b][t] = calls[b][t] /\ CallFits(calls[b][t])
      BY <1>1, <1>2, <1>3, <2>2 DEF Fits
    <3> QED
      BY <1>1, <3>1, CallStillFits
  <2> QED
    BY <2>1, <2>2
<1>4. \A b \in Admins : form'[b] # NoForm => FormFits(form[b])'
  BY <1>1 DEF Fits, FormFits, Seeded
<1> QED
  BY <1>3, <1>4 DEF Fits

LEMMA ServedKeepsEach ==
    ASSUME IInv, NEW a \in Admins, NEW s \in Slots, NEW call \in Call, Serves(a, s, call)
    PROVE  Each(a)'
<1>0. /\ TypeOK /\ Each(a) /\ call # NoCall /\ calls[a][s] # NoCall /\ calls[a][s].at = "sent"
      /\ call.kind = calls[a][s].kind /\ call.id = calls[a][s].id /\ call.saves = calls[a][s].saves
      /\ call.at \in {"done", "refused"}
      /\ UNCHANGED <<page, gone, shown, filter, form, busy, loading, resent>> /\ missed'[a] = missed[a]
      /\ CallFits(calls[a][s])
  BY NothingAssumption DEF IInv, Serves, Tell, TypeOK, Fits
<1>1. calls'[a][s] = call /\ \A t \in Slots \ {s} : calls'[a][t] = calls[a][t]
  BY <1>0, SlotChanges DEF Serves, TypeOK
<1>2. \A t \in Slots :
          /\ calls'[a][t] # NoCall <=> calls[a][t] # NoCall
          /\ calls[a][t] # NoCall =>
                /\ calls'[a][t].kind = calls[a][t].kind /\ calls'[a][t].id = calls[a][t].id
                /\ calls'[a][t].saves = calls[a][t].saves
  BY <1>0, <1>1
<1>3. \A kind : InFlight(a, kind)' <=> InFlight(a, kind)
  BY <1>2 DEF InFlight
<1>4. LoadsOnce(a)'
  <2>1. InFlight(a, "load")' <=> InFlight(a, "load")
    BY <1>3
  <2> QED
    BY <1>0, <1>2, <2>1 DEF Each, LoadsOnce
<1>5. CurrentByLoad(a)'
  <2>1. CASE rows' = rows
    <3>1. View(filter[a])' = View(filter[a])
      BY <1>0, <2>1 DEF View, Passes
    <3>2. \A t \in Slots : IsDone(a, t) => IsDone(a, t)' /\ calls'[a][t] = calls[a][t]
      BY <1>0, <1>1 DEF IsDone
    <3>3. InFlight(a, "load")' <=> InFlight(a, "load")
      BY <1>3
    <3> QED
      BY <1>0, <3>1, <3>2, <3>3 DEF Each, CurrentByLoad
  <2>2. CASE call.at = "done" /\ call.kind # "load"
    BY <1>0, <1>1, <2>2 DEF CurrentByLoad, IsDone
  <2> QED
    BY <2>1, <2>2 DEF Serves
<1>60. ASSUME NEW t \in Slots \ late'[a]
       PROVE  t \notin late[a] /\ ~(IsDone(a, t) /\ Outdated(calls[a][t]))
  BY <1>60 DEF Serves, Tell
<1>61. \A t \in late'[a] : t \in Slots /\ (page.after = "patch" => IsDone(a, t) /\ t # s)
  <2>1. ~IsDone(a, s) /\ late[a] \subseteq Slots
    BY <1>0 DEF IsDone, TypeOK
  <2>2. page.after = "patch" => \A t \in late[a] : IsDone(a, t)
    BY <1>0 DEF Each, Answers
  <2>3. late'[a] = late[a] \cup {t \in Slots : IsDone(a, t) /\ Outdated(calls[a][t])}
    BY DEF Serves, Tell
  <2> QED
    BY <2>1, <2>2, <2>3
<1>62. Answers(a)'
  <2>1. ASSUME NEW t \in Slots \ late'[a], calls'[a][t] # NoCall
        PROVE  /\ calls'[a][t].filter = filter[a]
               /\ IsDone(a, t)' /\ calls'[a][t].kind = "load" => calls'[a][t].list = View(filter[a])'
    <3>1. t \notin late[a] /\ calls[a][t] # NoCall
      BY <1>2, <1>60, <2>1
    <3>2. calls[a][t].filter = filter[a]
      BY <1>0, <3>1 DEF Each, Answers
    <3>3. rows' = rows => View(filter[a])' = View(filter[a])
      BY <1>0 DEF View, Passes
    <3>4. CASE t = s
      <4>1. call.filter = filter[a]
        BY <3>2, <3>4 DEF Serves
      <4>2. call.kind = "load" => rows' = rows /\ (call.at = "done" => call.list = View(filter[a]))
        BY <4>1 DEF Serves
      <4> QED
        BY <1>1, <3>3, <3>4, <4>1, <4>2 DEF IsDone
    <3>5. CASE t # s
      <4>1. calls'[a][t] = calls[a][t] /\ (IsDone(a, t)' <=> IsDone(a, t))
        BY <1>1, <3>5 DEF IsDone
      <4>2. IsDone(a, t) /\ calls[a][t].kind = "load" => rows' = rows
        BY <1>60 DEF Outdated
      <4> QED
        BY <1>0, <3>1, <3>2, <3>3, <4>1, <4>2 DEF Each, Answers
    <3> QED
      BY <3>4, <3>5
  <2>2. page.after = "patch" => \A t \in late'[a] : IsDone(a, t)'
    BY <1>1, <1>61 DEF IsDone
  <2> QED
    BY <1>0, <2>1, <2>2 DEF Answers
<1>6. CurrentByHand(a)'
  <2> SUFFICES ASSUME page.after = "patch", ~missed[a], ~InFlight(a, "load")', NEW i \in Ids
               PROVE  ByHand(a, i)'
    BY <1>0 DEF CurrentByHand
  <2>1. ~InFlight(a, "load")
    BY <1>3
  <2>2. call.kind = "patch" /\ call.id \in Ids
    BY <1>0, <2>1 DEF CallFits, InFlight
  <2>3. /\ \/ shown[a][i] = rows[i]
           \/ /\ shown[a][i] # NoRow /\ rows[i] # NoRow
              /\ \A c \in Columns \ Cols : shown[a][i][c] = rows[i][c]
              /\ \E t \in Slots : Written(a, t, i) /\ calls[a][t].row = rows[i]
        /\ \A t \in Slots \ late[a] : Written(a, t, i) => calls[a][t].row = rows[i]
    BY <1>0, <2>1 DEF Each, CurrentByHand, ByHand
  <2>4. \A t \in Slots : /\ Written(a, t, i) => Written(a, t, i)' /\ calls'[a][t] = calls[a][t]
                         /\ Written(a, t, i)' => t = s \/ Written(a, t, i)
    BY <1>0, <1>1 DEF Written, IsDone
  <2>5. Cols' = Cols
    BY <1>0 DEF Cols
  <2>50. \E t \in Slots : ~(t \in late'[a] /\ Written(a, t, i)')
    BY <1>61
  <2>6. CASE call.at = "done" /\ i = call.id
    <3>1. /\ rows[i] \in Row /\ call.row \in Row /\ rows'[i] = call.row
          /\ \A c \in Columns \ Cols : call.row[c] = rows[i][c]
      BY <1>0, <2>2, <2>6 DEF Serves, TypeOK, List
    <3>2. rows[i] # NoRow /\ rows'[i] # NoRow
      BY <3>1, NothingAssumption
    <3>3. Written(a, s, i)' /\ calls'[a][s].row = rows'[i]
      BY <1>0, <1>1, <2>2, <2>6, <3>1 DEF Written, IsDone
    <3>4. shown[a][i] # NoRow /\ \A c \in Columns \ Cols : shown[a][i][c] = rows'[i][c]
      BY <2>3, <3>1, <3>2
    <3>5. ASSUME NEW t \in Slots \ late'[a], Written(a, t, i)' PROVE calls'[a][t].row = rows'[i]
      <4>1. CASE t = s
        BY <3>3, <4>1
      <4>2. CASE t # s
        <5>1. Written(a, t, i) /\ calls'[a][t] = calls[a][t] /\ t \notin late[a]
          BY <1>60, <2>4, <3>5, <4>2
        <5>2. rows'[i] = rows[i]
          BY <1>60, <5>1 DEF Written, Outdated
        <5> QED
          BY <2>3, <5>1, <5>2
      <4> QED
        BY <4>1, <4>2
    <3> QED
      BY <1>0, <2>5, <2>50, <3>2, <3>3, <3>4, <3>5 DEF ByHand
  <2>7. CASE ~(call.at = "done" /\ i = call.id)
    <3>1. rows'[i] = rows[i]
      BY <1>0, <2>2, <2>7 DEF Serves, TypeOK, List
    <3>2. \A t \in Slots : Written(a, t, i)' => Written(a, t, i)
      BY <1>0, <1>1, <2>7 DEF Written, IsDone
    <3> QED
      BY <1>0, <1>60, <2>3, <2>4, <2>5, <2>50, <3>1, <3>2 DEF ByHand
  <2> QED
    BY <2>6, <2>7
<1>7. Waits(a)'
  <2>1. InFlight(a, "load")' <=> InFlight(a, "load")
    BY <1>3
  <2> QED
    BY <1>0, <1>2, <2>1 DEF Each, Waits
<1>8. Resends(a)'
  <2> SUFFICES ASSUME ~resent[a] PROVE Resends(a)'
    BY <1>0 DEF Resends
  <2>1. /\ ~\A t \in Slots : calls[a][t] # NoCall /\ calls[a][t].kind = "post"
        /\ asked[a] >= 0 /\ asked[a] \in Int
        /\ (\E t \in Slots : IsSent(a, t, "post")) => asked[a] >= 1
        /\ form[a] # NoForm /\ form[a].sent => form[a].unsure \/ InFlight(a, "post")
    BY <1>0 DEF Each, Resends, TypeOK
  <2>2. InFlight(a, "post")' <=> InFlight(a, "post")
    BY <1>3
  <2>3. \A t \in Slots : IsSent(a, t, "post")' => t # s /\ IsSent(a, t, "post")
    BY <1>0, <1>1 DEF IsSent
  <2>4. CASE call.kind = "post"
    <3>1. IsSent(a, s, "post") /\ asked[a] >= 1
      BY <1>0, <2>1, <2>4 DEF IsSent
    <3>2. ~\E t \in Slots : IsSent(a, t, "post")'
      BY <1>0, <2>1, <2>3, <2>4 DEF IsSent, Slots
    <3>3. asked'[a] >= 0
      BY <1>0, <2>1, <3>1 DEF Serves, TypeOK
    <3> QED
      BY <1>0, <1>2, <2>1, <2>2, <3>2, <3>3 DEF Resends
  <2>5. CASE call.kind # "post"
    <3>1. asked' = asked
      BY <2>5 DEF Serves
    <3> QED
      BY <1>0, <1>2, <2>1, <2>2, <2>3, <3>1 DEF Resends
  <2> QED
    BY <2>4, <2>5
<1> QED
  BY <1>4, <1>5, <1>6, <1>62, <1>7, <1>8 DEF Each

LEMMA ServesKeepIInv ==
    ASSUME IInv, NEW a \in Admins, NEW s \in Slots, NEW call \in Call, Serves(a, s, call)
    PROVE  IInv'
<1>1. TypeOK
  BY DEF IInv
<1>2. ASSUME NEW b \in Admins \ {a} PROVE Each(b)'
  <2>1. /\ shown'[b] = shown[b] /\ filter'[b] = filter[b] /\ loading'[b] = loading[b] /\ form'[b] = form[b]
        /\ busy'[b] = busy[b] /\ asked'[b] = asked[b] /\ resent'[b] = resent[b] /\ gone'[b] = gone[b]
        /\ page' = page
    BY <1>1 DEF Serves, TypeOK
  <2>2. calls'[b] = calls[b]
    BY <1>1, SlotChanges DEF Serves, TypeOK
  <2>3. /\ missed'[b] = (missed[b] \/ rows' # rows) /\ missed[b] \in BOOLEAN /\ late[b] \subseteq Slots
        /\ late'[b] = late[b] \cup {t \in Slots : IsDone(b, t) /\ Outdated(calls[b][t])}
    BY <1>1 DEF Serves, Tell, TypeOK
  <2>4. rows' = rows => late'[b] = late[b]
    BY <2>3 DEF Outdated
  <2>5. Each(b)
    BY DEF IInv
  <2>6. \/ rows' = rows /\ missed'[b] = missed[b] /\ late'[b] = late[b]
        \/ /\ missed'[b]
           /\ late'[b] = late[b] \cup {t \in Slots : IsDone(b, t) /\ Outdated(calls[b][t])}
    BY <2>3, <2>4
  <2> QED
    BY <2>1, <2>2, <2>3, <2>5, <2>6, Elsewhere
<1> QED
  BY <1>2, ServesKeepTypes, ServesKeepRoom, ServesFit, ServedKeepsEach DEF IInv

-----------------------------------------------------------------------------
(* What follows an answer. *)

Hears(a, s, x) ==
    /\ calls[a][s] # NoCall /\ calls' = [calls EXCEPT ![a][s] = x]
    /\ x = NoCall \/ (page.after = "load" /\ x = LoadWith(calls[a][s].filter))
    /\ late' = IF x = NoCall THEN [late EXCEPT ![a] = @ \ {s}] ELSE late
    /\ UNCHANGED <<page, rows, used, filter, clicks, asked, resent>> /\ fails' \in 0..MaxFails
    /\ form' = [form EXCEPT ![a] = form'[a]]
    /\ form'[a] # NoForm =>
          /\ form[a] # NoForm /\ form'[a] \in Form /\ FormFits(form'[a]) /\ form'[a].sent = form[a].sent
          /\ form'[a].unsure \/ (form'[a].unsure = form[a].unsure /\ calls[a][s].kind # "post")
    /\ shown' = [shown EXCEPT ![a] = shown'[a]] /\ shown'[a] \in List
    /\ missed' = [missed EXCEPT ![a] = missed'[a]] /\ missed'[a] \in BOOLEAN
    /\ gone' = [gone EXCEPT ![a] = gone'[a]] /\ gone'[a] \in BOOLEAN
    /\ page.after = "patch" => gone' = gone
    /\ loading' = [loading EXCEPT ![a] = loading'[a]] /\ loading'[a] \in BOOLEAN
    /\ loading'[a] => x # NoCall \/ (loading[a] /\ calls[a][s].kind # "load")
    /\ \/ busy' = [busy EXCEPT ![a] = NoCall]
       \/ /\ busy' = busy
          /\ calls[a][s].kind = "patch" =>
                (IF calls[a][s].saves THEN "save" ELSE "flip") \notin page.guards

\* The slot that is heard, and the others.
LEMMA HeardSlots ==
    ASSUME IInv, NEW a \in Admins, NEW s \in Slots, NEW x, Hears(a, s, x)
    PROVE  /\ x \in Call \cup {NoCall}
           /\ x # NoCall => /\ page.after = "load" /\ x.kind = "load" /\ x.at = "sent"
                            /\ x.filter = calls[a][s].filter
           /\ calls' \in [Admins -> [Slots -> Call \cup {NoCall}]]
           /\ calls'[a][s] = x
           /\ \A t \in Slots \ {s} : calls'[a][t] = calls[a][t]
           /\ \A b \in Admins \ {a} : calls'[b] = calls[b]
<1>1. TypeOK /\ calls[a][s].filter \in BOOLEAN
  BY DEF IInv, TypeOK, Hears, Call
<1>2. x \in Call \cup {NoCall}
  BY <1>1, LoadIsCall DEF Hears
<1>3. x # NoCall => /\ page.after = "load" /\ x.kind = "load" /\ x.at = "sent"
                    /\ x.filter = calls[a][s].filter
  BY <1>1, LoadIsCall DEF Hears
<1>4. calls' = [calls EXCEPT ![a][s] = x]
  BY DEF Hears
<1> QED
  BY <1>1, <1>2, <1>3, <1>4, SlotChanges DEF TypeOK

LEMMA HearsKeepTypes ==
    ASSUME IInv, NEW a \in Admins, NEW s \in Slots, NEW x, Hears(a, s, x)
    PROVE  TypeOK'
<1>1. TypeOK
  BY DEF IInv
<1>2. form' \in [Admins -> Form \cup {NoForm}]
  <2>1. form'[a] \in Form \cup {NoForm} /\ form' = [form EXCEPT ![a] = form'[a]]
    BY DEF Hears
  <2>2. form \in [Admins -> Form \cup {NoForm}]
    BY <1>1 DEF TypeOK
  <2> QED
    BY <2>1, <2>2
<1>3. busy' \in [Admins -> ({"save", "flip"} \X Ids) \cup {NoCall}]
  BY <1>1 DEF Hears, TypeOK
<1>4. /\ shown' \in [Admins -> List] /\ missed' \in [Admins -> BOOLEAN]
      /\ gone' \in [Admins -> BOOLEAN] /\ loading' \in [Admins -> BOOLEAN]
      /\ late' \in [Admins -> SUBSET Slots]
  BY <1>1 DEF Hears, TypeOK
<1> QED
  BY <1>1, <1>2, <1>3, <1>4, HeardSlots DEF TypeOK, Hears

LEMMA HearsKeepRoom ==
    ASSUME IInv, NEW a \in Admins, NEW s \in Slots, NEW x, Hears(a, s, x)
    PROVE  Room'
<1>1. TypeOK /\ Room /\ used' = used
  BY DEF IInv, Hears
<1>2. SentPosts' = SentPosts \ {<<a, s>>}
  <2>0. calls' = [calls EXCEPT ![a][s] = x]
    BY DEF Hears
  <2>1. x \in Call \cup {NoCall} /\ (x # NoCall => x.kind = "load")
    BY HeardSlots
  <2>2. SentPosts' = IF x # NoCall /\ x.kind = "post" /\ x.at = "sent"
                     THEN SentPosts \cup {<<a, s>>} ELSE SentPosts \ {<<a, s>>}
    BY <1>1, <2>0, <2>1, PostsChange
  <2> QED
    BY <2>1, <2>2
<1>3. Cardinality(SentPosts') <= Cardinality(SentPosts) /\ Cardinality(SentPosts') \in Nat
  BY <1>1, <1>2, Finite, FS_Subset, FS_CardinalityType
<1> QED
  BY <1>1, <1>3, Finite DEF Room

LEMMA HearsFit ==
    ASSUME IInv, NEW a \in Admins, NEW s \in Slots, NEW x, Hears(a, s, x)
    PROVE  Fits'
<1>1. TypeOK /\ Fits /\ page' = page
  BY DEF IInv, Hears
<1>2. ASSUME NEW b \in Admins, NEW t \in Slots, calls'[b][t] # NoCall
      PROVE  CallFits(calls[b][t])'
  <2>1. CASE b = a /\ t = s
    BY <1>1, <1>2, <2>1, HeardSlots DEF CallFits
  <2>2. CASE ~(b = a /\ t = s)
    <3>1. calls'[b][t] = calls[b][t] /\ CallFits(calls[b][t])
      BY <1>1, <1>2, <2>2, HeardSlots DEF Fits
    <3> QED
      BY <1>1, <3>1, CallStillFits
  <2> QED
    BY <2>1, <2>2
<1>3. ASSUME NEW b \in Admins, form'[b] # NoForm
      PROVE  FormFits(form[b])'
  <2>1. CASE b = a
    <3>1. FormFits(form'[a])
      BY <1>3, <2>1 DEF Hears
    <3> QED
      BY <1>1, <2>1, <3>1 DEF FormFits, Seeded
  <2>2. CASE b # a
    <3>1. form'[b] = form[b]
      BY <1>1, <2>2 DEF Hears, TypeOK
    <3> QED
      BY <1>1, <1>3, <3>1 DEF Fits, FormFits, Seeded
  <2> QED
    BY <2>1, <2>2
<1> QED
  BY <1>2, <1>3 DEF Fits

LEMMA HearsKeepIInv ==
    ASSUME IInv, NEW a \in Admins, NEW s \in Slots, NEW x, Hears(a, s, x),
           CurrentByLoad(a)', CurrentByHand(a)'
    PROVE  IInv'
<1>0. /\ TypeOK /\ Each(a) /\ calls[a][s] # NoCall /\ CallFits(calls[a][s])
      /\ UNCHANGED <<page, rows, filter, asked, resent>>
  BY DEF IInv, Hears, Fits
<1>1. /\ calls'[a][s] = x /\ \A t \in Slots \ {s} : calls'[a][t] = calls[a][t]
      /\ x # NoCall => /\ page.after = "load" /\ x.kind = "load" /\ x.at = "sent"
                       /\ x.filter = calls[a][s].filter
  BY HeardSlots
<1>20. Answers(a)'
  <2>0. View(filter[a])' = View(filter[a])
    BY <1>0 DEF View, Passes
  <2>1. late[a] \subseteq Slots /\ late'[a] = IF x = NoCall THEN late[a] \ {s} ELSE late[a]
    BY <1>0 DEF Hears, TypeOK
  <2>2. ASSUME NEW t \in Slots \ late'[a], calls'[a][t] # NoCall
        PROVE  /\ calls'[a][t].filter = filter[a]
               /\ IsDone(a, t)' /\ calls'[a][t].kind = "load" => calls'[a][t].list = View(filter[a])
    <3>1. t \notin late[a]
      BY <1>1, <2>1, <2>2
    <3>2. CASE t = s
      BY <1>0, <1>1, <2>2, <3>1, <3>2 DEF Each, Answers, IsDone
    <3>3. CASE t # s
      BY <1>0, <1>1, <2>2, <3>1, <3>3 DEF Each, Answers, IsDone
    <3> QED
      BY <3>2, <3>3
  <2>3. page.after = "patch" => \A t \in late'[a] : IsDone(a, t)'
    <3>1. page.after = "patch" => x = NoCall /\ \A t \in late[a] : IsDone(a, t)
      BY <1>0 DEF Hears, Each, Answers
    <3> QED
      BY <1>1, <2>1, <3>1 DEF IsDone
  <2> QED
    BY <1>0, <2>0, <2>2, <2>3 DEF Answers
<1>2. LoadsOnce(a)'
  <2> SUFFICES ASSUME page.after = "patch" PROVE LoadsOnce(a)'
    BY <1>0 DEF LoadsOnce
  <2>1. ~filter'[a] /\ ~gone'[a]
    BY <1>0 DEF Hears, Each, LoadsOnce
  <2>2. ~InFlight(a, "load")'
    <3> SUFFICES ASSUME InFlight(a, "load")' PROVE FALSE
      OBVIOUS
    <3>1. PICK t \in Slots : calls'[a][t] # NoCall /\ calls'[a][t].kind = "load"
      BY DEF InFlight
    <3>2. t # s /\ calls[a][t] # NoCall /\ InFlight(a, "load")
      BY <1>1, <3>1 DEF InFlight
    <3>3. PICK u \in Slots : \A v \in Slots \ {u} : calls[a][v] = NoCall
      BY <1>0, <3>2 DEF Each, LoadsOnce
    <3> QED
      BY <1>0, <3>2, <3>3
  <2> QED
    BY <2>1, <2>2 DEF LoadsOnce
<1>3. Waits(a)'
  <2>1. loading'[a] => InFlight(a, "load")'
    <3>1. CASE x # NoCall
      BY <1>1, <3>1 DEF InFlight
    <3>2. CASE loading[a] /\ calls[a][s].kind # "load"
      BY <1>0, <1>1, <3>2 DEF Each, Waits, InFlight
    <3> QED
      BY <3>1, <3>2 DEF Hears
  <2>2. ASSUME busy'[a] # NoCall
        PROVE  /\ busy'[a][1] \in page.guards
               /\ \E t \in Slots : /\ calls'[a][t] # NoCall /\ calls'[a][t].kind = "patch"
                                   /\ calls'[a][t].id = busy'[a][2]
                                   /\ calls'[a][t].saves <=> busy'[a][1] = "save"
    <3>1. /\ busy' = busy
          /\ calls[a][s].kind = "patch" =>
                (IF calls[a][s].saves THEN "save" ELSE "flip") \notin page.guards
      BY <1>0, <2>2 DEF Hears, TypeOK
    <3>2. busy[a][1] \in page.guards /\ busy[a][1] \in {"save", "flip"}
      BY <1>0, <2>2, <3>1 DEF Each, Waits, TypeOK
    <3>3. PICK t \in Slots : /\ calls[a][t] # NoCall /\ calls[a][t].kind = "patch"
                             /\ calls[a][t].id = busy[a][2]
                             /\ calls[a][t].saves <=> busy[a][1] = "save"
      BY <1>0, <2>2, <3>1 DEF Each, Waits
    <3>4. t # s
      BY <3>1, <3>2, <3>3
    <3> QED
      BY <1>1, <3>1, <3>2, <3>3, <3>4
  <2> QED
    BY <1>0, <2>1, <2>2 DEF Waits
<1>4. Resends(a)'
  <2> SUFFICES ASSUME ~resent[a] PROVE Resends(a)'
    BY <1>0 DEF Resends
  <2>1. /\ asked[a] >= 0
        /\ (\E t \in Slots : IsSent(a, t, "post")) => asked[a] >= 1
        /\ form[a] # NoForm /\ form[a].sent => form[a].unsure \/ InFlight(a, "post")
    BY <1>0 DEF Each, Resends
  <2>2. ~\A t \in Slots : calls'[a][t] # NoCall /\ calls'[a][t].kind = "post"
    BY <1>1
  <2>3. \A t \in Slots : IsSent(a, t, "post")' => IsSent(a, t, "post")
    BY <1>1 DEF IsSent
  <2>4. calls[a][s].kind # "post" /\ InFlight(a, "post") => InFlight(a, "post")'
    BY <1>1 DEF InFlight
  <2>5. form'[a] # NoForm /\ form'[a].sent => form'[a].unsure \/ InFlight(a, "post")'
    BY <2>1, <2>4 DEF Hears
  <2> QED
    BY <1>0, <2>1, <2>2, <2>3, <2>5 DEF Resends
<1>5. ASSUME NEW b \in Admins \ {a} PROVE Each(b)'
  <2>1. /\ shown'[b] = shown[b] /\ loading'[b] = loading[b] /\ form'[b] = form[b]
        /\ busy'[b] = busy[b] /\ gone'[b] = gone[b] /\ missed'[b] = missed[b]
        /\ late'[b] = late[b] /\ late[b] \subseteq Slots
    BY <1>0 DEF Hears, TypeOK
  <2>2. calls'[b] = calls[b]
    BY HeardSlots
  <2> QED
    BY <1>0, <2>1, <2>2, Elsewhere DEF IInv
<1>6. Each(a)'
  BY <1>2, <1>20, <1>3, <1>4 DEF Each
<1> QED
  BY <1>5, <1>6, HearsKeepTypes, HearsKeepRoom, HearsFit DEF IInv

\* What every continuation starts from.
LEMMA Heard ==
    ASSUME IInv, NEW a \in Admins, NEW s \in Slots, calls[a][s] # NoCall
    PROVE  /\ TypeOK /\ PageFits(page) /\ Each(a) /\ calls[a][s] \in Call /\ CallFits(calls[a][s])
           /\ form[a] \in Form \cup {NoForm} /\ (form[a] # NoForm => FormFits(form[a]))
           /\ form = [form EXCEPT ![a] = form[a]] /\ shown = [shown EXCEPT ![a] = shown[a]]
           /\ missed = [missed EXCEPT ![a] = missed[a]] /\ gone = [gone EXCEPT ![a] = gone[a]]
           /\ loading = [loading EXCEPT ![a] = loading[a]] /\ fails \in 0..MaxFails
           /\ shown[a] \in List /\ rows \in List /\ filter[a] \in BOOLEAN
           /\ missed[a] \in BOOLEAN /\ gone[a] \in BOOLEAN /\ loading[a] \in BOOLEAN
           /\ late[a] \subseteq Slots /\ calls[a][s].filter \in BOOLEAN
<1>1. TypeOK /\ PageFits(page) /\ Fits /\ Each(a)
  BY PageHas DEF IInv
<1> QED
  BY <1>1 DEF TypeOK, Fits, Call

LEMMA Unflagged ==
    ASSUME NEW a \in Admins, NEW call \in Call, Unflag(a, call)
    PROVE  \/ busy' = [busy EXCEPT ![a] = NoCall]
           \/ /\ busy' = busy
              /\ call.kind = "patch" => (IF call.saves THEN "save" ELSE "flip") \notin page.guards
BY DEF Unflag

LEMMA Away ==
    ASSUME IInv, NEW a \in Admins, NEW s \in Slots, calls[a][s] # NoCall, PutAway(a, calls[a][s])
    PROVE  /\ form' = [form EXCEPT ![a] = form'[a]]
           /\ form'[a] # NoForm => form'[a] = form[a] /\ calls[a][s].kind # "post"
<1>1. /\ form = [form EXCEPT ![a] = form[a]] /\ CallFits(calls[a][s]) /\ PageFits(page)
      /\ form \in [Admins -> Form \cup {NoForm}]
  BY Heard DEF TypeOK
<1>2. calls[a][s].kind = "post" => calls[a][s].saves /\ page.editor.closes
  BY <1>1 DEF CallFits, PageFits
<1> QED
  BY <1>1, <1>2 DEF PutAway

LEMMA AllIsShown == ASSUME rows \in List PROVE View(FALSE) = rows
BY DEF View, List

LEMMA AnswerLoadKeepsIInv ==
    ASSUME IInv, NEW a \in Admins, NEW s \in Slots, AnswerLoad(a, s)
    PROVE  IInv'
<1>0. /\ calls[a][s] # NoCall /\ calls[a][s].kind = "load" /\ calls[a][s].list \in List
      /\ calls' = [calls EXCEPT ![a][s] = NoCall] /\ missed'[a] = (s \in late[a])
      /\ shown'[a] = calls[a][s].list /\ late' = [late EXCEPT ![a] = @ \ {s}]
  BY Heard DEF AnswerLoad, IsDone, Call, TypeOK, Rest
<1>01. ~missed'[a] => calls[a][s].list = View(filter[a])
  BY <1>0, Heard DEF AnswerLoad, Each, Answers
<1>1. Hears(a, s, NoCall)
  <2>1. shown' = [shown EXCEPT ![a] = shown'[a]]
    BY <1>0 DEF AnswerLoad
  <2>2. missed' = [missed EXCEPT ![a] = missed'[a]] /\ missed'[a] \in BOOLEAN
    <3> DEFINE m == s \in late[a]
    <3>1. missed' = [missed EXCEPT ![a] = m] /\ m \in BOOLEAN
      BY DEF AnswerLoad
    <3>2. missed \in [Admins -> BOOLEAN]
      BY <1>0, Heard DEF TypeOK
    <3> HIDE DEF m
    <3> QED
      BY <3>1, <3>2
  <2>3. loading' = [loading EXCEPT ![a] = loading'[a]] /\ loading'[a] = FALSE
    BY <1>0, Heard DEF AnswerLoad, TypeOK
  <2> QED
    <3>1. /\ form = [form EXCEPT ![a] = form[a]] /\ gone = [gone EXCEPT ![a] = gone[a]]
          /\ gone[a] \in BOOLEAN /\ form[a] \in Form \cup {NoForm} /\ (form[a] # NoForm => FormFits(form[a]))
          /\ fails \in 0..MaxFails
      BY <1>0, Heard
    <3> QED
      BY <1>0, <2>1, <2>2, <2>3, <3>1 DEF AnswerLoad, Hears
<1>2. CurrentByLoad(a)'
  <2>1. View(filter[a])' = View(filter[a])
    BY DEF AnswerLoad, View, Passes
  <2> QED
    BY <1>0, <1>01, <2>1 DEF CurrentByLoad
<1>3. CurrentByHand(a)'
  <2> SUFFICES ASSUME page.after = "patch", ~missed'[a] PROVE CurrentByHand(a)'
    BY DEF AnswerLoad, CurrentByHand
  <2>1. ~filter[a] /\ \E u \in Slots : \A t \in Slots \ {u} : calls[a][t] = NoCall
    BY <1>0, Heard DEF Each, LoadsOnce, InFlight
  <2>2. shown'[a] = rows'
    <3>1. View(filter[a]) = View(FALSE)
      BY <2>1, Heard, <1>0 DEF View
    <3> QED
      BY <1>0, <1>01, <3>1, AllIsShown, Heard DEF AnswerLoad
  <2>3. \A t \in Slots : calls'[a][t] = NoCall
    BY <1>0, <1>1, <2>1, HeardSlots
  <2>4. \A t \in Slots, i \in Ids : ~Written(a, t, i)'
    BY <2>3 DEF Written, IsDone
  <2> QED
    BY <2>2, <2>4 DEF CurrentByHand, ByHand, Slots
<1> QED
  BY <1>1, <1>2, <1>3, HearsKeepIInv

LEMMA AnswerAndLoadKeepsIInv ==
    ASSUME IInv, NEW a \in Admins, NEW s \in Slots, AnswerAndLoad(a, s)
    PROVE  IInv'
<1> DEFINE x == LoadWith(calls[a][s].filter)
<1>0. /\ calls[a][s] # NoCall /\ calls[a][s].kind # "load" /\ page.after = "load" /\ page' = page
      /\ calls[a][s] \in Call /\ x # NoCall /\ x.kind = "load"
  BY Heard, LoadIsCall DEF AnswerAndLoad, IsDone
<1>1. Hears(a, s, x)
  <2>1. /\ form' = [form EXCEPT ![a] = form'[a]]
        /\ form'[a] # NoForm => form'[a] = form[a] /\ calls[a][s].kind # "post"
    BY <1>0, Away DEF AnswerAndLoad
  <2>2. \/ busy' = [busy EXCEPT ![a] = NoCall]
        \/ /\ busy' = busy
           /\ calls[a][s].kind = "patch" =>
                 (IF calls[a][s].saves THEN "save" ELSE "flip") \notin page.guards
    BY <1>0, Unflagged DEF AnswerAndLoad
  <2>3. loading' = [loading EXCEPT ![a] = loading'[a]] /\ loading'[a] \in BOOLEAN
    BY <1>0, Heard DEF AnswerAndLoad, TypeOK, PageFits
  <2> HIDE DEF x
  <2>4. x = LoadWith(calls[a][s].filter) /\ calls' = [calls EXCEPT ![a][s] = x] /\ late' = late
    BY DEF AnswerAndLoad, x
  <2> QED
    BY <1>0, <2>1, <2>2, <2>3, <2>4, Heard DEF AnswerAndLoad, Hears
<1>2. CurrentByLoad(a)'
  <2>1. calls'[a][s] = x
    BY <1>1, HeardSlots
  <2>2. InFlight(a, "load")'
    BY <1>0, <2>1 DEF InFlight
  <2> QED
    BY <2>2 DEF CurrentByLoad
<1>3. CurrentByHand(a)'
  BY <1>0 DEF CurrentByHand
<1> HIDE DEF x
<1> QED
  BY <1>1, <1>2, <1>3, HearsKeepIInv

LEMMA AnswerAndPatchKeepsIInv ==
    ASSUME IInv, NEW a \in Admins, NEW s \in Slots, AnswerAndPatch(a, s)
    PROVE  IInv'
<1> DEFINE call == calls[a][s]
           id == call.id
           old == shown[a][id]
           new == [c \in Columns |-> IF c \in call.cols THEN call.row[c] ELSE old[c]]
<1>0. /\ call # NoCall /\ call.at = "done" /\ call.kind = "patch" /\ page.after = "patch"
      /\ id \in Ids /\ call.row \in Row /\ call.cols = Cols /\ call \in Call
      /\ UNCHANGED <<page, gone, rows, used, loading, filter, clicks, fails, asked, resent>>
      /\ late' = [late EXCEPT ![a] = @ \ {s}] /\ late'[a] = late[a] \ {s}
  BY Heard DEF AnswerAndPatch, IsDone, CallFits, Rest, TypeOK
<1>00. old # NoRow => new \in Row
  <2>1. old # NoRow => old \in Row
    BY <1>0, Heard DEF List
  <2> QED
    BY <1>0, <2>1 DEF Row, Columns
<1>1. /\ shown'[a] \in List /\ shown' = [shown EXCEPT ![a] = shown'[a]]
      /\ shown'[a][id] = (IF old = NoRow THEN NoRow ELSE new)
      /\ \A i \in Ids \ {id} : shown'[a][i] = shown[a][i]
  <2>2. shown' = [shown EXCEPT ![a] = [shown[a] EXCEPT ![id] = IF old = NoRow THEN NoRow ELSE new]]
    BY DEF AnswerAndPatch
  <2>3. shown'[a] = [shown[a] EXCEPT ![id] = IF old = NoRow THEN NoRow ELSE new]
    BY <1>0, <2>2, Heard DEF TypeOK
  <2>4. shown[a] \in List
    BY <1>0, Heard
  <2>5. shown' = [shown EXCEPT ![a] = shown'[a]]
    BY <2>2, <2>3
  <2> HIDE DEF new, old
  <2> QED
    BY <1>0, <1>00, <2>3, <2>4, <2>5 DEF List
<1>2. /\ missed' = [missed EXCEPT ![a] = missed[a] \/ Overtaken(a, s)]
      /\ missed'[a] = (missed[a] \/ Overtaken(a, s)) /\ missed'[a] \in BOOLEAN
  BY <1>0, Heard DEF AnswerAndPatch, TypeOK, Overtaken
<1>3. Hears(a, s, NoCall)
  <2>1. /\ form' = [form EXCEPT ![a] = form'[a]]
        /\ form'[a] # NoForm => form'[a] = form[a] /\ calls[a][s].kind # "post"
    BY <1>0, Away DEF AnswerAndPatch
  <2>2. \/ busy' = [busy EXCEPT ![a] = NoCall]
        \/ /\ busy' = busy
           /\ calls[a][s].kind = "patch" =>
                 (IF calls[a][s].saves THEN "save" ELSE "flip") \notin page.guards
    BY <1>0, Unflagged DEF AnswerAndPatch
  <2>3. calls' = [calls EXCEPT ![a][s] = NoCall]
    BY DEF AnswerAndPatch
  <2> HIDE DEF id, new, old
  <2> QED
    BY <1>0, <1>1, <1>2, <2>1, <2>2, <2>3, Heard DEF Hears
<1>4. CurrentByLoad(a)'
  BY <1>0 DEF CurrentByLoad
<1>5. CurrentByHand(a)'
  <2> SUFFICES ASSUME ~missed[a], ~Overtaken(a, s), NEW i \in Ids PROVE ByHand(a, i)'
    BY <1>2 DEF CurrentByHand
  <2>1. ~InFlight(a, "load")
    <3>1. InFlight(a, "load") => \E u \in Slots : \A t \in Slots \ {u} : calls[a][t] = NoCall
      BY <1>0, Heard DEF Each, LoadsOnce
    <3> QED
      BY <1>0, <3>1 DEF InFlight
  <2>2. \A j \in Ids :
           /\ \/ shown[a][j] = rows[j]
              \/ /\ shown[a][j] # NoRow /\ rows[j] # NoRow
                 /\ \A c \in Columns \ Cols : shown[a][j][c] = rows[j][c]
                 /\ \E t \in Slots : Written(a, t, j) /\ calls[a][t].row = rows[j]
           /\ \A t \in Slots \ late[a] : Written(a, t, j) => calls[a][t].row = rows[j]
           /\ \E t \in Slots : ~(t \in late[a] /\ Written(a, t, j))
    BY <1>0, <2>1, Heard DEF Each, CurrentByHand, ByHand
  <2>3. calls'[a][s] = NoCall /\ \A t \in Slots \ {s} : calls'[a][t] = calls[a][t]
    BY <1>3, HeardSlots
  <2>4. \A t \in Slots : /\ Written(a, t, i)' => t # s /\ Written(a, t, i)
                         /\ t # s /\ Written(a, t, i) => Written(a, t, i)' /\ calls'[a][t] = calls[a][t]
    BY <2>3 DEF Written, IsDone
  <2>6. Cols' = Cols /\ rows' = rows
    BY <1>0 DEF Cols
  <2>5. /\ \A t \in Slots \ late'[a] : Written(a, t, i)' => calls'[a][t].row = rows'[i]
        /\ \E t \in Slots : ~(t \in late'[a] /\ Written(a, t, i)')
    <3> HIDE DEF id, new, old, call
    <3> QED
      BY <1>0, <2>2, <2>4, <2>6
  <2>7. CASE i # id
    <3>1. shown'[a][i] = shown[a][i] /\ ~Written(a, s, i)
      BY <1>1, <2>7 DEF Written
    <3> QED
      BY <2>2, <2>4, <2>5, <2>6, <3>1 DEF ByHand
  <2>8. CASE i = id /\ rows[id] = call.row
    <3>1. old # NoRow /\ \A c \in Columns \ Cols : old[c] = call.row[c]
      BY <1>0, <2>2, <2>8, NothingAssumption
    <3>2. new = [c \in Columns |-> call.row[c]]
      BY <1>0, <3>1
    <3>3. shown'[a][i] = rows'[i]
      BY <1>0, <1>1, <2>6, <2>8, <3>1, <3>2, RowsOfCalls
    <3> QED
      BY <2>5, <3>3 DEF ByHand
  <2>9. CASE i = id /\ rows[id] # call.row
    <3>0. Written(a, s, i) /\ s \in late[a]
      BY <1>0, <2>2, <2>9 DEF Written, IsDone
    <3>1. PICK t \in Slots \ {s} : IsDone(a, t) /\ calls[a][t].id = id
      BY <3>0 DEF Overtaken
    <3>2. calls[a][t].kind = "patch" /\ calls[a][t].row \in Row
      BY <1>0, <2>1, <3>1, Heard DEF CallFits, IsDone, InFlight
    <3>3. Written(a, t, i)
      BY <2>9, <3>1, <3>2 DEF Written
    <3>4. calls[a][t].row = rows[i]
      <4>1. t \notin late[a]
        BY <2>2, <3>0, <3>1, <3>3 DEF Slots
      <4> QED
        BY <2>2, <3>3, <4>1
    <3>5. rows[i] # NoRow /\ old # NoRow /\ \A c \in Columns \ Cols : old[c] = rows[i][c]
      BY <2>2, <2>9, <3>2, <3>4, NothingAssumption
    <3>6. shown'[a][i] = new
      BY <1>1, <2>9, <3>5
    <3>7. new # NoRow
      <4>1. new \in Row
        BY <1>00, <3>5
      <4> QED
        BY <4>1, NothingAssumption
    <3>8. \A c \in Columns \ Cols : new[c] = rows[i][c]
      BY <1>0, <3>5
    <3>9. Written(a, t, i)' /\ calls'[a][t].row = rows'[i]
      BY <2>4, <2>6, <3>1, <3>3, <3>4
    <3> HIDE DEF new, old
    <3> QED
      BY <2>5, <2>6, <3>1, <3>5, <3>6, <3>7, <3>8, <3>9 DEF ByHand
  <2> QED
    BY <2>7, <2>8, <2>9
<1> QED
  BY <1>3, <1>4, <1>5, HearsKeepIInv

LEMMA CaughtKeepsIInv ==
    ASSUME IInv, NEW a \in Admins, NEW s \in Slots, calls[a][s] # NoCall, Caught(a, s),
           fails' \in 0..MaxFails, missed' = [missed EXCEPT ![a] = missed'[a]], missed'[a] \in BOOLEAN,
           ~missed'[a] => ~missed[a] /\ calls[a][s].kind # "load" /\ calls[a][s].at # "done"
    PROVE  IInv'
<1> DEFINE call == calls[a][s]
<1>0. /\ TypeOK /\ PageFits(page) /\ Each(a) /\ call \in Call /\ CallFits(call)
      /\ UNCHANGED <<page, rows, used, shown, filter, clicks, asked, resent>>
      /\ calls' = [calls EXCEPT ![a][s] = NoCall] /\ late' = [late EXCEPT ![a] = @ \ {s}]
      /\ late'[a] = late[a] \ {s}
  BY Heard DEF Caught, Rest, TypeOK
<1>1. /\ gone' = [gone EXCEPT ![a] = gone'[a]] /\ gone'[a] \in BOOLEAN /\ (gone[a] => gone'[a])
      /\ page.after = "patch" => gone' = gone
  BY <1>0, Heard DEF Caught, ReplacePage, TypeOK, PageFits
<1>2. /\ form' = [form EXCEPT ![a] = form'[a]]
      /\ form'[a] # NoForm =>
          /\ form[a] # NoForm /\ form'[a] \in Form /\ FormFits(form'[a]) /\ form'[a].sent = form[a].sent
          /\ form'[a].unsure \/ (form'[a].unsure = form[a].unsure /\ call.kind # "post")
  <2>1. form[a] \in Form \cup {NoForm} /\ (form[a] # NoForm => FormFits(form[a])) /\ form = [form EXCEPT ![a] = form[a]]
        /\ form \in [Admins -> Form \cup {NoForm}]
    BY Heard DEF TypeOK
  <2>2. CASE gone'[a]
    BY <2>1, <2>2 DEF Caught, ReplacePage
  <2>3. CASE call.kind = "post" /\ ~gone'[a] /\ form[a] # NoForm
    <3> DEFINE f == [form[a] EXCEPT !.unsure = TRUE]
    <3>1. form' = [form EXCEPT ![a] = f]
      BY <2>1, <2>3 DEF Caught, ReplacePage
    <3>2. /\ f \in Form /\ f.unsure /\ f.sent = form[a].sent /\ f.id = form[a].id /\ f.base = form[a].base
          /\ f.typed = form[a].typed /\ f.row = form[a].row
      BY <2>1, <2>3 DEF Form
    <3> HIDE DEF f
    <3>3. FormFits(f)
      BY <2>1, <2>3, <3>2 DEF FormFits
    <3>4. form'[a] = f
      BY <2>1, <3>1
    <3> QED
      BY <2>3, <3>1, <3>2, <3>3, <3>4
  <2>4. CASE ~gone'[a] /\ ~(call.kind = "post" /\ form[a] # NoForm)
    <3>1. form' = form
      BY <2>4 DEF Caught, ReplacePage
    <3> QED
      BY <2>1, <2>4, <3>1
  <2> QED
    BY <2>2, <2>3, <2>4
<1>3. Hears(a, s, NoCall)
  <2>1. loading' = [loading EXCEPT ![a] = loading'[a]] /\ loading'[a] \in BOOLEAN
        /\ (loading'[a] => loading[a] /\ call.kind # "load")
    BY <1>0, Heard DEF Caught, TypeOK
  <2>2. \/ busy' = [busy EXCEPT ![a] = NoCall]
        \/ /\ busy' = busy
           /\ call.kind = "patch" => (IF call.saves THEN "save" ELSE "flip") \notin page.guards
    BY <1>0, Unflagged DEF Caught
  <2>3. shown' = [shown EXCEPT ![a] = shown'[a]] /\ shown'[a] \in List
    BY <1>0, Heard
  <2> QED
    BY <1>0, <1>1, <1>2, <2>1, <2>2, <2>3 DEF Hears
<1>4. calls'[a][s] = NoCall /\ \A t \in Slots \ {s} : calls'[a][t] = calls[a][t]
  BY <1>3, HeardSlots
<1>5. ASSUME ~missed'[a]
      PROVE  /\ InFlight(a, "load")' <=> InFlight(a, "load")
             /\ \A t \in Slots : IsDone(a, t)' <=> IsDone(a, t)
             /\ \A t \in Slots : IsDone(a, t) => calls'[a][t] = calls[a][t]
  BY <1>4, <1>5 DEF InFlight, IsDone
<1>6. CurrentByLoad(a)'
  <2> SUFFICES ASSUME ~missed'[a], ~gone'[a] PROVE CurrentByLoad(a)'
    BY DEF CurrentByLoad
  <2>1. View(filter[a])' = View(filter[a])
    BY <1>0 DEF View, Passes
  <2> QED
    BY <1>0, <1>1, <1>5, <2>1 DEF Each, CurrentByLoad
<1>7. CurrentByHand(a)'
  <2> SUFFICES ASSUME ~missed'[a] PROVE CurrentByHand(a)'
    BY DEF CurrentByHand
  <2>1. \A t \in Slots, i \in Ids : /\ Written(a, t, i)' <=> Written(a, t, i)
                                    /\ Written(a, t, i) => calls'[a][t] = calls[a][t]
    BY <1>5 DEF Written
  <2> SUFFICES ASSUME page.after = "patch", ~InFlight(a, "load")', NEW i \in Ids PROVE ByHand(a, i)'
    BY <1>0 DEF CurrentByHand
  <2>2. ByHand(a, i)
    BY <1>0, <1>5 DEF Each, CurrentByHand
  <2>3. Cols' = Cols /\ ~Written(a, s, i)'
    BY <1>0, <1>4 DEF Cols, Written, IsDone
  <2> QED
    BY <1>0, <2>1, <2>2, <2>3 DEF ByHand
<1> QED
  BY <1>3, <1>6, <1>7, HearsKeepIInv

LEMMA HearKeepsIInv ==
    ASSUME IInv, NEW a \in Admins, NEW s \in Slots, Hear(a, s)
    PROVE  IInv'
<1>1. CASE AnswerLoad(a, s)
  BY <1>1, AnswerLoadKeepsIInv
<1>2. CASE AnswerAndLoad(a, s)
  BY <1>2, AnswerAndLoadKeepsIInv
<1>3. CASE AnswerAndPatch(a, s)
  BY <1>3, AnswerAndPatchKeepsIInv
<1>4. CASE AnswerError(a, s)
  <2>1. /\ calls[a][s] # NoCall /\ calls[a][s].at = "refused" /\ Caught(a, s) /\ fails' = fails
        /\ missed' = [missed EXCEPT ![a] = missed[a] \/ calls[a][s].kind = "load"]
    BY <1>4 DEF AnswerError
  <2>2. missed \in [Admins -> BOOLEAN] /\ fails \in 0..MaxFails
    BY DEF IInv, TypeOK
  <2>3. missed'[a] = (missed[a] \/ calls[a][s].kind = "load") /\ missed'[a] \in BOOLEAN
        /\ missed' = [missed EXCEPT ![a] = missed'[a]]
    BY <2>1, <2>2
  <2> QED
    BY <2>1, <2>2, <2>3, CaughtKeepsIInv
<1>5. CASE Fail(a, s)
  <2>1. /\ calls[a][s] # NoCall /\ Caught(a, s) /\ fails < MaxFails /\ fails' = fails + 1
        /\ missed' = [missed EXCEPT ![a] = missed[a] \/ calls[a][s].kind = "load" \/ calls[a][s].at = "done"]
    BY <1>5 DEF Fail
  <2>2. missed \in [Admins -> BOOLEAN] /\ fails' \in 0..MaxFails
    BY <2>1, ConsoleAssumption DEF IInv, TypeOK
  <2>3. missed'[a] = (missed[a] \/ calls[a][s].kind = "load" \/ calls[a][s].at = "done") /\ missed'[a] \in BOOLEAN
        /\ missed' = [missed EXCEPT ![a] = missed'[a]]
    BY <2>1, <2>2
  <2> QED
    BY <2>1, <2>2, <2>3, CaughtKeepsIInv
<1> QED
  BY <1>1, <1>2, <1>3, <1>4, <1>5 DEF Hear

-----------------------------------------------------------------------------
(* The invariant holds. *)

LEMMA EditorKeepsIInv ==
    ASSUME IInv, NEW a \in Admins, EditorStep(a)
    PROVE  IInv'
<1>0. /\ TypeOK /\ Room /\ Fits /\ Each(a)
      /\ UNCHANGED <<page, gone, rows, used, shown, loading, filter, busy, calls, clicks, fails,
                     missed, late, asked, resent>>
  BY EditorMoves DEF IInv
<1>1. /\ form' = [form EXCEPT ![a] = form'[a]] /\ form'[a] \in Form \cup {NoForm}
      /\ form'[a] # NoForm =>
             /\ FormFits(form'[a])
             /\ form'[a].sent => /\ form[a] # NoForm /\ form[a].sent
                                 /\ form'[a].unsure = form[a].unsure
             /\ page.after = "patch" => ~InFlight(a, "load")
  BY EditorMoves
<1>2. form' \in [Admins -> Form \cup {NoForm}] /\ \A b \in Admins \ {a} : form'[b] = form[b]
  <2>1. form \in [Admins -> Form \cup {NoForm}]
    BY <1>0 DEF TypeOK
  <2> QED
    BY <1>1, <2>1
<1>3. TypeOK'
  BY <1>0, <1>2 DEF TypeOK
<1>4. SentPosts' = SentPosts
  BY <1>0 DEF SentPosts, IsSent
<1>5. Room'
  BY <1>0, <1>4 DEF Room
<1>6. Fits'
  <2>1. \A b \in Admins, s \in Slots : calls'[b][s] # NoCall => CallFits(calls[b][s])'
    BY <1>0, CallStillFits DEF Fits
  <2>2. \A b \in Admins : form'[b] # NoForm => FormFits(form'[b])
    BY <1>0, <1>1, <1>2 DEF Fits
  <2>3. \A b \in Admins : form'[b] # NoForm => FormFits(form[b])'
    BY <1>0, <2>2 DEF FormFits, Seeded
  <2> QED
    BY <2>1, <2>3 DEF Fits
<1>7. /\ \A s \in Slots : /\ IsDone(a, s)' <=> IsDone(a, s)
                          /\ IsSent(a, s, "post")' <=> IsSent(a, s, "post")
                          /\ \A i \in Ids : Written(a, s, i)' <=> Written(a, s, i)
      /\ InFlight(a, "load")' <=> InFlight(a, "load")
      /\ InFlight(a, "post")' <=> InFlight(a, "post")
      /\ View(filter[a])' = View(filter[a])
  BY <1>0 DEF IsDone, IsSent, Written, InFlight, View, Passes
<1>8. Each(a)'
  <2>1. LoadsOnce(a)'
    BY <1>0, <1>1, <1>7 DEF Each, LoadsOnce
  <2>2. CurrentByLoad(a)'
    BY <1>0, <1>7 DEF Each, CurrentByLoad
  <2>3. CurrentByHand(a)'
    BY <1>0, <1>7 DEF Each, CurrentByHand, ByHand, Cols
  <2>4. Waits(a)'
    BY <1>0, <1>7 DEF Each, Waits
  <2>5. Resends(a)'
    BY <1>0, <1>1, <1>7 DEF Each, Resends
  <2>6. Answers(a)'
    <3>1. late[a] \subseteq Slots
      BY <1>0 DEF TypeOK
    <3> QED
      BY <1>0, <1>7, <3>1 DEF Each, Answers
  <2> QED
    BY <2>1, <2>2, <2>3, <2>4, <2>5, <2>6 DEF Each
<1>9. ASSUME NEW b \in Admins \ {a} PROVE Each(b)'
  <2>1. late[b] \subseteq Slots
    BY <1>0 DEF TypeOK
  <2> QED
    BY <1>0, <1>2, <2>1, Elsewhere DEF IInv
<1> QED
  BY <1>3, <1>5, <1>6, <1>8, <1>9 DEF IInv

LEMMA StutterKeepsIInv == ASSUME IInv, UNCHANGED vars PROVE IInv'
<1>1. TypeOK'
  BY DEF IInv, TypeOK, vars
<1>2. SentPosts' = SentPosts
  BY DEF SentPosts, IsSent, vars
<1>3. Room'
  BY <1>2 DEF IInv, Room, vars
<1>4. Fits'
  <2>1. \A b \in Admins, s \in Slots : calls'[b][s] # NoCall => CallFits(calls[b][s])'
    BY CallStillFits DEF IInv, Fits, vars
  <2>2. \A b \in Admins : form'[b] # NoForm => FormFits(form[b])'
    BY DEF IInv, Fits, FormFits, Seeded, vars
  <2> QED
    BY <2>1, <2>2 DEF Fits
<1>5. ASSUME NEW b \in Admins PROVE Each(b)'
  <2>1. late[b] \subseteq Slots
    BY DEF IInv, TypeOK
  <2> QED
    BY <2>1, Elsewhere DEF IInv, vars
<1> QED
  BY <1>1, <1>3, <1>4, <1>5 DEF IInv

LEMMA InitIInv == ASSUME Init PROVE IInv
<1>0. PICK u \in page.editor.dates :
          rows = [Empty EXCEPT ![1] = [key |-> 1, body |-> 0, on |-> FALSE, until |-> u]]
  BY DEF Init
<1> DEFINE first == [key |-> 1, body |-> 0, on |-> FALSE, until |-> u]
<1>1. PICK opening \in Admins :
          /\ shown = [a \in Admins |-> IF a = opening \/ page.unrouted THEN Empty ELSE View(FALSE)]
          /\ loading = [a \in Admins |-> a = opening]
          /\ missed = [a \in Admins |-> a # opening /\ page.unrouted]
          /\ calls = [a \in Admins |-> [s \in Slots |-> IF a = opening /\ s = 1 THEN LoadWith(FALSE) ELSE NoCall]]
  BY DEF Init
<1>2. /\ page \in Pages /\ rows = [Empty EXCEPT ![1] = first] /\ used = {1}
      /\ filter = [a \in Admins |-> FALSE] /\ gone = [a \in Admins |-> FALSE]
      /\ form = [a \in Admins |-> NoForm] /\ busy = [a \in Admins |-> NoCall] /\ clicks = 0 /\ fails = 0
      /\ asked = [a \in Admins |-> 0] /\ resent = [a \in Admins |-> FALSE]
      /\ late = [a \in Admins |-> {}]
  BY <1>0 DEF Init
<1>3. first \in Row
  <2>1. u \in {"never", "day", "time"}
    BY <1>0, <1>2, PagesFit DEF PageFits, EditorFits
  <2> QED
    BY <2>1 DEF Row, Keys
<1> HIDE DEF first
<1>4. /\ rows \in List /\ used \subseteq Ids /\ \A i \in Ids : rows[i] # NoRow => i \in used
      /\ Empty \in List /\ View(FALSE) = rows
  BY <1>2, <1>3, ConsoleAssumption, AllIsShown DEF Empty, List
<1>5. PageFits(page)
  BY <1>2, PagesFit
<1>6. calls \in [Admins -> [Slots -> Call \cup {NoCall}]]
  BY <1>1, LoadIsCall
<1>7. TypeOK
  <2>1. clicks \in 0..MaxClicks(page) /\ fails \in 0..MaxFails
    BY <1>2, ConsoleAssumption
  <2>2. shown \in [Admins -> List]
    BY <1>1, <1>4
  <2>3. missed \in [Admins -> BOOLEAN] /\ loading \in [Admins -> BOOLEAN]
    BY <1>1, <1>5 DEF PageFits
  <2> QED
    BY <1>2, <1>4, <1>6, <2>1, <2>2, <2>3 DEF TypeOK
<1>8. \A a \in Admins, s \in Slots :
          /\ calls[a][s] # NoCall => /\ calls[a][s].kind = "load" /\ calls[a][s].at = "sent"
                                     /\ calls[a][s].filter = FALSE
                                     /\ a = opening /\ s = 1
          /\ a = opening /\ s = 1 => calls[a][s] # NoCall
  <2>1. LoadWith(FALSE).filter = FALSE
    BY LoadIsCall
  <2> QED
    BY <1>1, <2>1, LoadIsCall
<1>9. Room
  <2>1. SentPosts = {}
    BY <1>8 DEF SentPosts, IsSent
  <2> QED
    BY <1>7, <2>1, FS_EmptySet, Finite DEF Room
<1>10. Fits
  BY <1>2, <1>8 DEF Fits, CallFits
<1>11. ASSUME NEW a \in Admins PROVE Each(a)
  <2>1. InFlight(a, "load") <=> a = opening
    BY <1>8 DEF InFlight, Slots
  <2>2. \A s \in Slots : ~IsDone(a, s) /\ ~IsSent(a, s, "post")
    BY <1>8 DEF IsDone, IsSent
  <2>3. LoadsOnce(a)
    <3>1. \E s \in Slots : \A t \in Slots \ {s} : calls[a][t] = NoCall
      BY <1>8 DEF Slots
    <3> QED
      BY <1>1, <1>2, <2>1, <3>1 DEF LoadsOnce
  <2>4. CurrentByLoad(a)
    BY <1>1, <1>2, <2>1 DEF CurrentByLoad
  <2>5. CurrentByHand(a)
    <3>1. page.after = "patch" /\ a # opening => shown[a] = rows
      BY <1>1, <1>4, <1>5 DEF PageFits
    <3> QED
      BY <2>1, <2>2, <3>1 DEF CurrentByHand, ByHand, Written, Slots
  <2>6. Waits(a)
    BY <1>1, <1>2, <2>1 DEF Waits
  <2>7. Resends(a)
    <3>1. ~\A s \in Slots : calls[a][s] # NoCall /\ calls[a][s].kind = "post"
      BY <1>8 DEF Slots
    <3>2. asked[a] = 0 /\ form[a] = NoForm
      BY <1>2
    <3> QED
      BY <2>2, <3>1, <3>2 DEF Resends
  <2>8. Answers(a)
    BY <1>2, <1>8, <2>2 DEF Answers
  <2> QED
    BY <2>3, <2>4, <2>5, <2>6, <2>7, <2>8 DEF Each
<1> QED
  BY <1>7, <1>9, <1>10, <1>11 DEF IInv

LEMMA NextKeepsIInv == ASSUME IInv, [Next]_vars PROVE IInv'
<1>1. ASSUME NEW a \in Admins, Click(a) PROVE IInv'
  <2>1. CASE EditorStep(a)
    BY <2>1, EditorKeepsIInv
  <2>2. CASE SendStep(a)
    <3>1. PICK s \in Slots, call \in Call : Sends(a, s, call)
      BY <2>2, SendStepSends
    <3> QED
      BY <3>1, SendsKeepIInv
  <2> QED
    BY <1>1, <2>1, <2>2 DEF Click, EditorStep, SendStep
<1>2. ASSUME NEW a \in Admins, NEW s \in Slots, Serve(a, s) PROVE IInv'
  BY <1>2, ServeStepServes, ServesKeepIInv
<1>3. ASSUME NEW a \in Admins, NEW s \in Slots, Hear(a, s) PROVE IInv'
  BY <1>3, HearKeepsIInv
<1>4. CASE UNCHANGED vars
  BY <1>4, StutterKeepsIInv
<1> QED
  BY <1>1, <1>2, <1>3, <1>4 DEF Next

THEOREM Invariant == Spec => []IInv
<1>1. Init => IInv
  BY InitIInv
<1>2. IInv /\ [Next]_vars => IInv'
  BY NextKeepsIInv
<1> QED
  BY <1>1, <1>2, PTL DEF Spec

-----------------------------------------------------------------------------
(* What it is for. *)

\* The table, the lists, the editors, the calls and the history are of their
\* types on every page (TypeOK); above all, what is in the table is a row:
\* the '' that an editor makes of no date is not stored
\* (routes/admin-revenue.js).
THEOREM PagesAreTyped == Spec => []TypeOK
<1>1. IInv => TypeOK
  BY DEF IInv
<1> QED
  BY <1>1, Invariant, PTL

\* The list of a browser whose calls are all over is what the server would
\* list, and is on the screen (ShownIsCurrent), unless one of the causes named
\* there came up: on the pages that load after each write, with the filter of
\* the render the write was pressed in (invoices/page.js and its like), and on
\* those that put the answer into the list (tenants/page.js,
\* email-templates/page.js).
THEOREM QuietListsAreCurrent == Spec => []ShownIsCurrent
<1>1. ASSUME IInv PROVE ShownIsCurrent
  <2> SUFFICES ASSUME NEW a \in Admins, Quiet(a), ~missed[a], ~gone[a]
               PROVE  shown[a] = View(filter[a]) /\ ~loading[a]
    BY DEF ShownIsCurrent
  <2>1. TypeOK /\ PageFits(page) /\ Each(a) /\ ~InFlight(a, "load")
    BY <1>1, PageHas DEF IInv, Quiet, InFlight
  <2>2. ~loading[a]
    BY <2>1 DEF Each, Waits
  <2>3. \A s \in Slots : ~IsDone(a, s)
    BY DEF Quiet, IsDone
  <2>4. CASE page.after = "load"
    <3>1. CurrentByLoad(a)
      BY <2>1 DEF Each
    <3>2. shown[a] = View(filter[a])
      BY <2>1, <2>3, <2>4, <3>1 DEF CurrentByLoad
    <3> QED
      BY <2>2, <3>2
  <2>5. CASE page.after = "patch"
    <3>1. ~filter[a] /\ \A i \in Ids : shown[a][i] = rows[i]
      BY <2>1, <2>3, <2>5 DEF Each, LoadsOnce, CurrentByHand, ByHand, Written
    <3>2. shown[a] \in List /\ rows \in List /\ filter[a] \in BOOLEAN
      BY <2>1 DEF TypeOK
    <3>3. shown[a] = rows
      BY <3>1, <3>2 DEF List
    <3>4. View(filter[a]) = rows
      BY <3>1, <3>2, AllIsShown
    <3> QED
      BY <2>2, <3>3, <3>4
  <2> QED
    BY <2>1, <2>2, <2>4, <2>5 DEF PageFits
<1> QED
  BY <1>1, Invariant, PTL

\* No more rows are inserted for a browser than forms were filled in there,
\* unless it sent one again (DuplicatesAreResends): save() of each editor
\* (blog/page.js and its like) waits for nothing.
THEOREM OnlyResendsDuplicate == Spec => []DuplicatesAreResends
<1>1. IInv => DuplicatesAreResends
  BY DEF IInv, Each, Resends, DuplicatesAreResends
<1> QED
  BY <1>1, Invariant, PTL

\* A list that is hidden waits for a load that is on its way, and a disabled
\* button for a call for its row (WaitsAreExplained), whatever failed in
\* between: setLoading(false) and the finally of each handler.
THEOREM NothingWaitsForNothing == Spec => []WaitsAreExplained
<1>1. IInv => WaitsAreExplained
  BY DEF IInv, Each, Waits, WaitsAreExplained
<1> QED
  BY <1>1, Invariant, PTL

\* Only the server's step on a PATCH makes it done.
LEMMA DoneByServer ==
    ASSUME IInv, Next, NEW a \in Admins, NEW s \in Slots, IsSent(a, s, "patch"),
           calls'[a][s] # NoCall, calls'[a][s].at = "done"
    PROVE  ServePatch(a, s)
<1>1. calls[a][s] # NoCall /\ calls[a][s].at = "sent" /\ calls[a][s].kind = "patch" /\ TypeOK
  BY DEF IInv, IsSent
<1>2. ASSUME NEW b \in Admins, NEW t \in Slots, NEW x \in Call \cup {NoCall},
             calls' = [calls EXCEPT ![b][t] = x]
      PROVE  b = a /\ t = s /\ x = calls'[a][s]
  <2>1. /\ calls'[b][t] = x
        /\ \A u \in Slots \ {t} : calls'[b][u] = calls[b][u]
        /\ \A u \in Admins \ {b} : calls'[u] = calls[u]
    BY <1>1, <1>2, SlotChanges DEF TypeOK
  <2> QED
    BY <1>1, <2>1
<1>3. ASSUME NEW b \in Admins, Click(b) PROVE FALSE
  <2>1. CASE EditorStep(b)
    BY <1>1, <2>1, EditorMoves
  <2>2. CASE SendStep(b)
    BY <1>1, <1>2, <2>2, SendStepSends DEF Sends
  <2> QED
    BY <1>3, <2>1, <2>2 DEF Click, EditorStep, SendStep
<1>4. ASSUME NEW b \in Admins, NEW t \in Slots, Hear(b, t) PROVE FALSE
  <2>1. /\ \/ calls' = [calls EXCEPT ![b][t] = NoCall]
           \/ calls' = [calls EXCEPT ![b][t] = LoadWith(calls[b][t].filter)]
        /\ calls[b][t] # NoCall
    BY <1>4 DEF Hear, AnswerLoad, AnswerAndLoad, AnswerAndPatch, AnswerError, Fail, Caught, IsDone
  <2>2. calls[b][t].filter \in BOOLEAN
    BY <1>1, <2>1 DEF TypeOK, Call
  <2> QED
    BY <1>1, <1>2, <2>1, <2>2, LoadIsCall
<1>5. ASSUME NEW b \in Admins, NEW t \in Slots, Serve(b, t) PROVE ServePatch(a, s)
  <2>1. b = a /\ t = s
    BY <1>2, <1>5, ServeStepServes DEF Serves
  <2>2. ~RefuseBare(a, s)
    <3> SUFFICES ASSUME RefuseBare(a, s) PROVE FALSE
      OBVIOUS
    <3>1. calls[a][s] \in Call /\ Served(a, s, calls[a][s], "refused")
      BY <1>1 DEF RefuseBare, TypeOK
    <3>2. PICK served \in Call : served.at = "refused" /\ calls' = [calls EXCEPT ![a][s] = served]
      BY <1>1, <3>1, ServedCall
    <3> QED
      BY <1>2, <3>2
  <2> QED
    BY <1>1, <1>5, <2>1, <2>2 DEF Serve, ServeLoad, ServePost, ServeAll, ServeDelete, IsSent
<1> QED
  BY <1>3, <1>4, <1>5 DEF Next

\* No PATCH of a button writes a column that was not pressed, and none of an
\* editor writes over a newer value unless the row changed after it was put
\* into the editor, but for dates that the editor cuts to a day or that
\* publishing stamps (NothingRevertedUnlessStale): the body each handler sends
\* (taxes/page.js save(), themes/page.js toggleActive()) against the columns that
\* attachCrud and its like write (routes/admin-platform.js).
THEOREM OnlyStaleEditorsRevert == Spec => NothingRevertedUnlessStale
<1>1. ASSUME IInv, [Next]_vars, NEW a \in Admins, NEW s \in Slots, IsSent(a, s, "patch"),
             calls'[a][s] # NoCall, calls'[a][s].at = "done", rows[calls[a][s].id] # NoRow,
             NEW c \in Columns
      PROVE  LET call == calls[a][s]
                 old  == rows[call.id]
                 new  == rows'[call.id] IN
             \/ new[c] = old[c] /\ c \notin call.typed \cap page.endpoint.writes
             \/ c \in call.typed /\ new[c] = call.row[c]
             \/ c \in call.cols /\ call.saves /\ old # call.base
             \/ c = "until" /\ call.saves /\ Redated(old, new)
  <2> DEFINE call == calls[a][s]
             old == rows[call.id]
             new == rows'[call.id]
  <2>0. IInv
    BY <1>1
  <2>1. Next
    BY <1>1 DEF vars, IsSent
  <2>2. ServePatch(a, s)
    BY <1>1, <2>1, DoneByServer
  <2>3. call \in Call /\ CallFits(call) /\ call.kind = "patch" /\ call.at = "sent" /\ rows \in List /\ TypeOK
    BY <1>1, Heard DEF IsSent
  <2>4. /\ call.id \in Ids /\ call.typed \subseteq call.cols /\ (~call.saves => call.cols = call.typed)
        /\ \A e \in call.cols \ call.typed : Untouched(call, e)
    BY <2>3 DEF CallFits
  <2>5. new = Patched(old, call) /\ new \in Row
    <3>1. \/ rows' = [rows EXCEPT ![call.id] = Patched(old, call)] /\ Patched(old, call) \in Row
          \/ Served(a, s, call, "refused")
      BY <1>1, <2>2 DEF ServePatch
    <3>2. ~Served(a, s, call, "refused")
      <4> SUFFICES ASSUME Served(a, s, call, "refused") PROVE FALSE
        OBVIOUS
      <4>1. PICK served \in Call : served.at = "refused" /\ calls' = [calls EXCEPT ![a][s] = served]
        BY <1>1, <2>3, ServedCall DEF IsSent
      <4> QED
        BY <1>1, <2>3, <4>1, SlotChanges DEF TypeOK
    <3> HIDE DEF call
    <3> QED
      BY <2>3, <2>4, <3>1, <3>2 DEF List
  <2>6. CASE c \in call.cols \cap page.endpoint.writes
    <3>1. new[c] = call.row[c]
      BY <2>5, <2>6 DEF Patched
    <3>2. CASE c \notin call.typed
      <4>1. Untouched(call, c) /\ call.saves
        BY <2>4, <2>6, <3>2
      <4>2. SUFFICES ASSUME old = call.base
                     PROVE  new[c] = old[c] \/ (c = "until" /\ Redated(old, new))
        BY <2>6, <3>2, <4>1
      <4>3. CASE c = "until" /\ Stamped(call)
        <5>1. /\ page.editor.stamps /\ "on" \in call.cols \cap page.endpoint.writes /\ call.row.on
              /\ old.until = "never" /\ call.row.until = "time"
          BY <2>3, <4>2, <4>3, PageHas DEF Stamped, PageFits
        <5>2. new.on = call.row.on
          BY <2>5, <5>1 DEF Patched, Columns
        <5> QED
          BY <3>1, <4>3, <5>1, <5>2 DEF Redated
      <4>4. CASE call.row[c] = Seeded(old)[c]
        <5>1. new[c] = Seeded(old)[c] /\ old \in Row /\ new \in Row
          BY <1>1, <2>3, <2>4, <2>5, <3>1, <4>4 DEF List
        <5> HIDE DEF old, new
        <5>2. CASE c = "until" /\ page.editor.cuts
          BY <5>1, <5>2 DEF Seeded, Redated, Row
        <5>3. CASE ~(c = "until" /\ page.editor.cuts)
          BY <5>1, <5>3 DEF Seeded, Row, Columns
        <5> QED
          BY <5>2, <5>3
      <4> QED
        BY <4>1, <4>2, <4>3, <4>4 DEF Untouched
    <3> QED
      BY <3>1, <3>2
  <2>7. CASE c \notin call.cols \cap page.endpoint.writes
    <3>1. new[c] = old[c]
      BY <2>5, <2>7 DEF Patched
    <3> QED
      BY <2>4, <2>7, <3>1
  <2> QED
    BY <2>6, <2>7
<1>2. IInv /\ [Next]_vars =>
        [\A a \in Admins, s \in Slots :
          IsSent(a, s, "patch") /\ calls'[a][s] # NoCall /\ calls'[a][s].at = "done" =>
              LET call == calls[a][s]
                  old  == rows[call.id]
                  new  == rows'[call.id] IN
              old = NoRow \/ \A c \in Columns :
                  \/ new[c] = old[c] /\ c \notin call.typed \cap page.endpoint.writes
                  \/ c \in call.typed /\ new[c] = call.row[c]
                  \/ c \in call.cols /\ call.saves /\ old # call.base
                  \/ c = "until" /\ call.saves /\ Redated(old, new)]_vars
  BY <1>1
<1> QED
  BY <1>2, Invariant, PTL DEF Spec, NothingRevertedUnlessStale

=============================================================================
