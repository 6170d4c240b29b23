---------------------------- MODULE ConsolePages ----------------------------
(***************************************************************************)
(* The super-admin console's tables, endpoints, editors and pages, and one *)
(* page of the customer portal, each by what tells it apart from the       *)
(* others; Console is the machine they all are instances of.               *)
(*                                                                         *)
(* A row is seen through four columns: its key (the column a unique        *)
(* constraint is on, where there is one), its body (everything else that   *)
(* is edited), on (is_active, is_published, is_read, is_enabled, a status  *)
(* that is the wanted one) and until (a timestamp: none, midnight of a     *)
(* day, or with a time of day; '' in a form).                              *)
(***************************************************************************)
EXTENDS Naturals

Columns == {"key", "body", "on", "until"}
Keys == {1, 2}

(***************************************************************************)
(* Endpoints: the columns PATCH writes; the operations that answer 404     *)
(* when WHERE id = ... finds no row, the others answering as if it had;    *)
(* the keys a unique constraint keeps apart; whether POST updates the row  *)
(* that has the key.                                                       *)
(***************************************************************************)
Endpoint(writes, misses, unique) ==
    [writes |-> writes, misses |-> misses, unique |-> unique, upserts |-> FALSE]

\* attachCrud: every allowed field of the body is written.
Crud(unique) == Endpoint(Columns, {"patch", "delete"}, unique)

Announcements == Crud({})
EmailTemplates == Crud(Keys)
ThemePresets == Crud(Keys)
Webhooks == Crud({})
BlogPosts == Crud(Keys)
ChangelogEntries == Crud({})
CategoryTemplates == Crud({})
ServiceTemplates == Crud({})
\* PATCH takes is_active alone; every key has a hash of its own.
ApiKeys == Endpoint({"on"}, {"patch"}, {})
TaxRates == Endpoint(Columns, {"patch"}, {})
\* The code itself is not among the columns PATCH writes.
DiscountCodes == Endpoint(Columns \ {"key"}, {"patch"}, Keys)
Subscriptions == Endpoint({"on"}, {"patch"}, {})
Invoices == Endpoint({"on"}, {"patch"}, {})
\* Reading a notification that is gone is 204 too.
AdminNotifications == Endpoint({"on"}, {}, {})
Plans == Endpoint({"body"}, {"patch"}, {})
Tenants == Endpoint({"body", "on"}, {"patch"}, {})
TenantUsers == Endpoint({"body", "on"}, {"patch"}, {})
\* ON CONFLICT (tenant_id, flag_key) updates a tenant's flag (key 2); a
\* platform-wide one (key 1) has no tenant_id and never conflicts.
FeatureFlags == [Endpoint({"on"}, {"patch"}, {2}) EXCEPT !.upserts = TRUE]
NoEndpoint == Endpoint({}, {}, {})

(***************************************************************************)
(* Editors: the columns the form can change; whether Save sends the whole  *)
(* row or those columns alone; whether opening it on another row while it  *)
(* is open seeds it again; whether a saved form is put away; whether Save  *)
(* is disabled while the choice is the one that is shown; the dates a row  *)
(* may have to begin with, and the one of a new row; whether a date is cut *)
(* to its day; whether Save dates a row that is raised without a date.     *)
(***************************************************************************)
Editor(fields) ==
    [fields |-> fields, whole |-> TRUE, reseeds |-> FALSE, closes |-> TRUE, differs |-> FALSE,
     dates |-> {"never"}, starts |-> "never", cuts |-> FALSE, stamps |-> FALSE]

\* {editing && <Editor initial={editing} />}: useState(initial), and no key,
\* so that only a mount seeds the form.
Panel == Editor({"body", "on"})
KeyPanel == Editor({"key", "body", "on"})

TaxEditor == Panel
AnnouncementEditor == Panel
ServiceEditor == Panel
CategoryEditor == Panel
\* save() dates a post that is published for the first time.
BlogEditor == [KeyPanel EXCEPT !.stamps = TRUE]
\* The date of release is a NOT NULL timestamp, edited as a day.
ChangelogEditor ==
    [Panel EXCEPT !.fields = @ \cup {"until"}, !.dates = {"time"}, !.starts = "day", !.cuts = TRUE]
WebhookEditor == Panel
ThemeEditor == KeyPanel
ApiKeyCreator == Panel
\* The expiry is a timestamp or NULL, edited as a day or ''.
DiscountEditor ==
    [KeyPanel EXCEPT !.fields = @ \cup {"until"}, !.dates = {"never", "time"}, !.starts = "blank",
                     !.cuts = TRUE]
\* One in each card: it is mounted where it is opened.
PriceEditor == [Editor({"body"}) EXCEPT !.whole = FALSE, !.reseeds = TRUE]
\* The selected template itself is the form; a load selects the first one
\* if there is none yet, which is a choice of Open's.
TemplateEditor == [Editor({"body", "on"}) EXCEPT !.reseeds = TRUE, !.closes = FALSE]
\* Radio buttons, seeded when the tab is opened.
ChoiceEditor ==
    [Editor({"body"}) EXCEPT !.whole = FALSE, !.reseeds = TRUE, !.closes = FALSE, !.differs = TRUE]
\* The form above the flag lists: emptied once its flag is created.
FlagForm == [Editor({"key", "on"}) EXCEPT !.reseeds = TRUE]
NoEditor == Editor({})

(***************************************************************************)
(* Pages: the endpoint; the editor, whether it is opened for new rows and  *)
(* for listed ones; the buttons of a row ("flip" sends the opposite of     *)
(* what is shown, "raise" is offered while the flag is down); whether one  *)
(* button raises every flag; whether rows are deleted; whether a write     *)
(* that succeeded is followed by a load or written into the list by hand;  *)
(* whether every load hides the list; the column the server filters by;    *)
(* whether a timer loads again; the buttons disabled while they are busy;  *)
(* whether the request for the unfiltered list has no route (a 404);       *)
(* whether its PATCH has no body; the calls whose error is shown in the    *)
(* page's place, for good.                                                 *)
(***************************************************************************)
ListPage ==
    [endpoint |-> NoEndpoint, editor |-> NoEditor, adds |-> FALSE, edits |-> FALSE,
     button |-> "none", all |-> FALSE, removes |-> FALSE, after |-> "load",
     hides |-> FALSE, filter |-> "none", polls |-> FALSE, guards |-> {},
     unrouted |-> FALSE, bare |-> FALSE, ends |-> {}]

\* What the pages over attachCrud and its like have in common.
CrudPage(endpoint, editor) ==
    [ListPage EXCEPT !.endpoint = endpoint, !.editor = editor, !.adds = TRUE,
                     !.edits = TRUE, !.removes = TRUE, !.hides = TRUE]

TaxesPage == CrudPage(TaxRates, TaxEditor)
DiscountsPage == CrudPage(DiscountCodes, DiscountEditor)
AnnouncementsPage == [CrudPage(Announcements, AnnouncementEditor) EXCEPT !.hides = FALSE]
ServiceTemplatesPage == CrudPage(ServiceTemplates, ServiceEditor)
CategoryTemplatesPage == [CrudPage(CategoryTemplates, CategoryEditor) EXCEPT !.filter = "body"]
BlogAdminPage == CrudPage(BlogPosts, BlogEditor)
ChangelogAdminPage == CrudPage(ChangelogEntries, ChangelogEditor)
WebhooksPage == CrudPage(Webhooks, WebhookEditor)
ThemesPage == [CrudPage(ThemePresets, ThemeEditor) EXCEPT !.removes = FALSE, !.button = "flip"]
ApiKeysPage == [CrudPage(ApiKeys, ApiKeyCreator) EXCEPT !.edits = FALSE, !.button = "flip"]
FeatureFlagsPage ==
    [ListPage EXCEPT !.endpoint = FeatureFlags, !.editor = FlagForm, !.adds = TRUE, !.button = "flip"]
EmailTemplatesPage ==
    [ListPage EXCEPT !.endpoint = EmailTemplates, !.editor = TemplateEditor, !.edits = TRUE,
                     !.after = "patch", !.guards = {"save"}]
PlansPage ==
    [ListPage EXCEPT !.endpoint = Plans, !.editor = PriceEditor, !.edits = TRUE, !.hides = TRUE]
SubscriptionsPage ==
    [ListPage EXCEPT !.endpoint = Subscriptions, !.button = "flip", !.hides = TRUE]
InvoicesPage ==
    [ListPage EXCEPT !.endpoint = Invoices, !.button = "raise", !.hides = TRUE, !.filter = "on"]
NotificationsPage ==
    [ListPage EXCEPT !.endpoint = AdminNotifications, !.button = "raise", !.all = TRUE, !.bare = TRUE]
TenantsList == [ListPage EXCEPT !.endpoint = Tenants, !.button = "flip", !.after = "patch"]
TenantDetail == [ListPage EXCEPT !.endpoint = Tenants, !.button = "flip", !.ends = {"load", "patch"}]
\* The tabs load the page they are in again.
TenantSettingsTab ==
    [TenantDetail EXCEPT !.editor = ChoiceEditor, !.edits = TRUE, !.guards = {"save"},
                         !.ends = {"load"}]
UserSettingsTab ==
    [TenantSettingsTab EXCEPT !.endpoint = TenantUsers, !.guards = {"save", "flip"}]
\* (Left out: the load of the page it is in, onRefresh, whose error replaces
\* both.)
TenantRevenueTab ==
    [ListPage EXCEPT !.endpoint = Invoices, !.button = "raise", !.hides = TRUE, !.guards = {"flip"}]

\* Pages that only read, and load again when the filter changes.
FilteredPage == [ListPage EXCEPT !.hides = TRUE, !.filter = "on"]
BookingsList == FilteredPage
\* Without a status the query starts with & and is part of the path.
TenantBookingsTab == [FilteredPage EXCEPT !.unrouted = TRUE]
UserBookingsTab == FilteredPage

\* The one page of the customer portal that loads a list again: by category.
PortalServices == [ListPage EXCEPT !.filter = "body"]

\* Pages that only read, and load when they are mounted.
AdminOverview == ListPage
AuditLogs == ListPage
SettingsPage == ListPage
RevenuePage == ListPage
UserDetail == [ListPage EXCEPT !.ends = {"load"}]
TenantOverviewTab == ListPage
TenantUsersTab == ListPage
TenantServicesTab == ListPage
TenantCustomersTab == ListPage
TenantActivityTab == ListPage
UserOverviewTab == ListPage
UserEarningsTab == ListPage
UserActivityTab == ListPage

\* Loads on mount and every 10 seconds.
SystemHealthPage == [ListPage EXCEPT !.polls = TRUE]

Pages ==
    {TaxesPage, DiscountsPage, AnnouncementsPage, ServiceTemplatesPage, CategoryTemplatesPage,
     BlogAdminPage, ChangelogAdminPage, WebhooksPage, ThemesPage, ApiKeysPage, FeatureFlagsPage,
     EmailTemplatesPage, PlansPage, SubscriptionsPage, InvoicesPage, NotificationsPage, TenantsList,
     TenantDetail, TenantSettingsTab, UserSettingsTab, TenantRevenueTab, BookingsList,
     TenantBookingsTab, UserBookingsTab, AdminOverview, AuditLogs, SettingsPage, RevenuePage,
     UserDetail, TenantOverviewTab, TenantUsersTab, TenantServicesTab, TenantCustomersTab,
     TenantActivityTab, UserOverviewTab, UserEarningsTab, UserActivityTab, SystemHealthPage,
     PortalServices}
=============================================================================
