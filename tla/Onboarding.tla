------------------------------ MODULE Onboarding ------------------------------
(***************************************************************************)
(* The onboarding wizard of one tenant: tenants.onboarding_status and the  *)
(* rows the steps create, kept by tenant-service and booking-service, and  *)
(* the pages of the web frontend that drive them, in several tabs.         *)
(*                                                                         *)
(* A page's Next button makes two calls in turn: one that saves the step,  *)
(* one that marks it done.  Each call is one transaction on the server     *)
(* and may fail, or succeed without the browser hearing of it.             *)
(***************************************************************************)
EXTENDS Naturals, Sequences

CONSTANTS Tabs,        \* the browser tabs of the tenant's administrator
          Visited,     \* the pages a run's tabs are sent to by hand
          MaxBatches   \* bound: the bulk inserts of one kind

Steps == <<"theme", "business", "categories", "services", "commissions", "complete">>
StepIds == {Steps[i] : i \in 1..6}
Pages == StepIds \cup {"login", "dashboard"}

ASSUME OnboardingAssumption ==
    /\ Visited \subseteq Pages
    /\ MaxBatches \in Nat

\* The pages whose form becomes rows, and the kind of rows.
RowKinds == {"categories", "services", "commissions"}

VARIABLES completed,  \* onboarding_status.completed
          current,    \* onboarding_status.current_step
          done,       \* onboarding_status.steps_done
          rows,       \* how many bulk inserts of each kind are committed
          page,       \* the page each tab shows
          job,        \* the step whose Next button was pressed
          phase,      \* the call it is at
          known,      \* whether the page was given some category
          form,       \* whether its form has an entry; on the last page,
                      \* whether it has yet to mark the wizard complete
          copies,     \* history: how often that form was inserted
          earned,     \* history: the page came from a step that succeeded
          jumped,     \* history: some tab went by hand to a step's page while
                      \* a step before it was not done
          reopened    \* history: the last mark was of a step before one that
                      \* was done already

status == <<completed, current, done, reopened>>
shown == <<page, known, form, copies, earned>>
vars == <<status, rows, shown, job, phase, jumped>>

Init ==
    /\ completed = FALSE
    /\ current = "theme"
    /\ done = {}
    /\ rows = [k \in RowKinds |-> 0]
    /\ page = [t \in Tabs |-> "login"]
    /\ job = [t \in Tabs |-> "login"]
    /\ phase = [t \in Tabs |-> "editing"]
    /\ known = [t \in Tabs |-> FALSE]
    /\ form = [t \in Tabs |-> FALSE]
    /\ copies = [t \in Tabs |-> 0]
    /\ earned = [t \in Tabs |-> FALSE]
    /\ jumped = FALSE
    /\ reopened = FALSE

-----------------------------------------------------------------------------
(***************************************************************************)
(* POST /onboarding/steps/:step/complete                                   *)
(***************************************************************************)

IndexOf(s) == CHOOSE i \in 1..6 : Steps[i] = s

\* The first k steps.
First(k) == {Steps[i] : i \in 1..k}

\* STEPS[nextIdx] || 'complete'
NextStep(s) == IF s = "complete" THEN s ELSE Steps[IndexOf(s) + 1]

\* step === 'complete' || nextIdx === STEPS.length - 1
Completes(s) == s \in {"commissions", "complete"}

\* One UPDATE: the step joins steps_done as it stands in the row; completed and
\* current_step are what follows from this step alone.
MarkDone(s) ==
    /\ completed' = Completes(s)
    /\ current' = NextStep(s)
    /\ done' = done \cup {s}
    /\ reopened' = \E i \in (IndexOf(s) + 1)..6 : Steps[i] \in done

-----------------------------------------------------------------------------
(***************************************************************************)
(* The pages.                                                              *)
(***************************************************************************)

\* A page is shown: its effects ask for the categories, and may be told of
\* none when the call fails.  The commissions form starts with two entries.
Mount(t, p, byStep) ==
    /\ page' = [page EXCEPT ![t] = p]
    /\ \E told \in BOOLEAN :
          /\ told => p \in {"categories", "services"} /\ rows["categories"] > 0
          /\ known' = [known EXCEPT ![t] = told]
    /\ form' = [form EXCEPT ![t] = p \in {"commissions", "complete"}]
    /\ copies' = [copies EXCEPT ![t] = 0]
    /\ earned' = [earned EXCEPT ![t] = byStep]

\* The login page goes on where the wizard was left.
SignIn(t) ==
    /\ page[t] = "login"
    /\ \/ Mount(t, IF completed THEN "dashboard" ELSE current, FALSE)
       \/ Mount(t, "theme", FALSE)
    /\ UNCHANGED <<status, rows, job, phase, jumped>>

\* Back, a link, an address typed, or WizardShell sending the tab to sign in
\* because the status could not be read.  A call that is under way goes on.
Go(t, p) ==
    /\ page[t] # "login"
    /\ Mount(t, p, FALSE)
    /\ jumped' = (jumped \/ (p \in StepIds /\ ~(First(IndexOf(p) - 1) \subseteq done)))
    /\ UNCHANGED <<status, rows, job, phase>>

\* A service needs a category to belong to.
CanFill(t) == page[t] # "services" \/ known[t]

Fill(t) ==
    /\ page[t] \in StepIds \ {"complete"}
    /\ form[t] \/ CanFill(t)
    /\ form' = [form EXCEPT ![t] = ~@]
    /\ copies' = [copies EXCEPT ![t] = 0]
    /\ UNCHANGED <<status, rows, page, known, earned, job, phase, jumped>>

\* Mutant: a page without entries is left without asking what is there.
MaySkipAlways(t) == page[t] \in RowKinds

\* Next without any entry is for a tenant that has some already: the categories
\* page knows of them, the services page asks now.
MaySkip(t) ==
    \/ page[t] = "categories" /\ known[t]
    \/ page[t] = "services" /\ rows["services"] > 0
    \/ page[t] = "commissions"

\* Bound: a tab has one call under way.  A page left during its call does not
\* keep the next page's button from working: another tab stands for that.
Press(t) ==
    /\ phase[t] = "editing"
    /\ page[t] \in StepIds \ {"complete"}
    /\ \/ form[t] /\ phase' = [phase EXCEPT ![t] = "saving"]
       \/ ~form[t] /\ MaySkip(t) /\ phase' = [phase EXCEPT ![t] = "marking"]
    /\ job' = [job EXCEPT ![t] = page[t]]
    /\ UNCHANGED <<status, rows, shown, jumped>>

\* The last page marks the wizard complete when it is shown.
Finish(t) ==
    /\ phase[t] = "editing"
    /\ page[t] = "complete"
    /\ form[t]
    /\ form' = [form EXCEPT ![t] = FALSE]
    /\ job' = [job EXCEPT ![t] = "complete"]
    /\ phase' = [phase EXCEPT ![t] = "marking"]
    /\ UNCHANGED <<status, rows, page, known, copies, earned, jumped>>

\* The button works again.
Settle(t) ==
    /\ phase' = [phase EXCEPT ![t] = "editing"]
    /\ job' = [job EXCEPT ![t] = "login"]

\* The server's part of the save: PUT /themes and PUT /onboarding/business
\* overwrite, POST .../bulk inserts every entry, again when it is sent again.
Insert(t) ==
    IF job[t] \in RowKinds
      THEN /\ rows[job[t]] < MaxBatches
           /\ rows' = [rows EXCEPT ![job[t]] = @ + 1]
           /\ copies' = [copies EXCEPT ![t] = IF page[t] = job[t] THEN @ + 1 ELSE @]
      ELSE UNCHANGED <<rows, copies>>

Save(t) ==
    /\ phase[t] = "saving"
    /\ Insert(t)
    /\ phase' = [phase EXCEPT ![t] = "marking"]
    /\ UNCHANGED <<status, page, known, form, earned, job, jumped>>

\* The save is committed but its answer is lost, or the DEL after it fails: the
\* page shows an error.
SaveUnheard(t) ==
    /\ phase[t] = "saving"
    /\ Insert(t)
    /\ Settle(t)
    /\ UNCHANGED <<status, page, known, form, earned, jumped>>

\* completeStep(step), then router.push to the step that follows; the last page
\* stays.
Mark(t) ==
    /\ phase[t] = "marking"
    /\ MarkDone(job[t])
    /\ Settle(t)
    /\ IF job[t] = "complete"
         THEN UNCHANGED shown
         ELSE Mount(t, NextStep(job[t]), TRUE)
    /\ UNCHANGED <<rows, jumped>>

MarkUnheard(t) ==
    /\ phase[t] = "marking"
    /\ MarkDone(job[t])
    /\ Settle(t)
    /\ UNCHANGED <<rows, shown, jumped>>

\* Mutant: the page moves on whatever the calls answered.
CallFailsUnnoticed(t) ==
    /\ phase[t] \in {"saving", "marking"}
    /\ Settle(t)
    /\ Mount(t, NextStep(job[t]), TRUE)
    /\ UNCHANGED <<status, rows, jumped>>

\* A call fails: the page shows the error and stays, its button works again.
CallFails(t) ==
    /\ phase[t] \in {"saving", "marking"}
    /\ Settle(t)
    /\ UNCHANGED <<status, rows, shown, jumped>>

Next ==
    \E t \in Tabs :
        \/ SignIn(t) \/ Fill(t) \/ Press(t) \/ Finish(t)
        \/ Save(t) \/ SaveUnheard(t) \/ Mark(t) \/ MarkUnheard(t) \/ CallFails(t)
        \/ \E p \in Visited : Go(t, p)

Spec == Init /\ [][Next]_vars

-----------------------------------------------------------------------------
(***************************************************************************)
(* Properties.                                                             *)
(***************************************************************************)

\* The type of the tenant's row and of the tabs.
TypeOK ==
    /\ completed \in BOOLEAN
    /\ current \in StepIds
    /\ done \in SUBSET StepIds
    /\ rows \in [RowKinds -> Nat]
    /\ page \in [Tabs -> Pages]
    /\ job \in [Tabs -> StepIds \cup {"login"}]
    /\ phase \in [Tabs -> {"editing", "saving", "marking"}]
    /\ known \in [Tabs -> BOOLEAN]
    /\ form \in [Tabs -> BOOLEAN]
    /\ copies \in [Tabs -> Nat]
    /\ earned \in [Tabs -> BOOLEAN]
    /\ jumped \in BOOLEAN
    /\ reopened \in BOOLEAN

\* categories/page.js:55-58 and services/page.js:64-72: the wizard never counts
\* the categories or the services as done for a tenant that has none, whatever
\* is lost on the way and whichever tab did what; services have a category.
CatalogBehindSteps ==
    /\ "categories" \in done => rows["categories"] > 0
    /\ "services" \in done => rows["services"] > 0
    /\ rows["services"] > 0 => rows["categories"] > 0

\* A tab that the wizard moved forward is on a page whose step before is done:
\* nobody is led past a step that failed.
ForwardIsEarned ==
    \A t \in Tabs : earned[t] =>
        \E s \in done : page[t] = NextStep(s)

\* onboarding.js:2, "so the frontend can resume mid-wizard": unless somebody went
\* to a page ahead by hand, the steps done are the first k of the wizard and
\* whoever signs in is never sent past the step that follows them, with two
\* tabs, failed calls and lost answers.  The wizard resumes exactly there, and
\* counts as completed exactly when only the last page is missing, unless the
\* last mark was of a step before another that is done: only that moves
\* current_step back and opens a completed wizard again (onboarding.js:56-57);
\* trying the last step once more, or two tabs marking it, does not.
ResumesWhereLeft ==
    ~jumped => \E k \in 0..6 :
        LET next == Steps[IF k < 6 THEN k + 1 ELSE 6] IN
        /\ done = First(k)
        /\ current \in First(k) \cup {next}
        /\ completed => k >= 5
        /\ ~reopened => current = next /\ (completed <=> k >= 5)

\* onboarding.js:2, "Each step is idempotent ... so the frontend can resume
\* mid-wizard": one filled form makes its rows once, however often its step has
\* to be tried.
FormsAreSavedOnce == \A t \in Tabs : copies[t] <= 1
=============================================================================
