--------------------------- MODULE OnboardingProofs ---------------------------
(***************************************************************************)
(* Theorems about Onboarding, for any number of tabs, any pages that they  *)
(* are sent to by hand and any bound on the inserts.                       *)
(***************************************************************************)
EXTENDS Onboarding, Integers, TLAPS

-----------------------------------------------------------------------------
(***************************************************************************)
(* The steps.                                                              *)
(***************************************************************************)

\* The step that follows a step is a step: nextIdx never leaves STEPS.
LEMMA NextStepIsStep == \A s \in StepIds : NextStep(s) \in StepIds
<1> TAKE s \in StepIds
<1>1. CASE s = "complete"
  BY <1>1 DEF NextStep
<1>2. CASE s # "complete"
  <2>1. /\ IndexOf(s) \in 1..6
        /\ Steps[IndexOf(s)] = s
    BY DEF IndexOf, StepIds
  <2>2. IndexOf(s) # 6
    BY <2>1, <1>2 DEF Steps
  <2>3. IndexOf(s) + 1 \in 1..6
    BY <2>1, <2>2
  <2> QED
    BY <1>2, <2>3 DEF NextStep, StepIds
<1> QED
  BY <1>1, <1>2

\* The kinds of rows are steps, and so are the pages with a Next button.
LEMMA KindsAreSteps ==
    /\ StepIds = {"theme", "business", "categories", "services", "commissions", "complete"}
    /\ RowKinds \subseteq StepIds
<1>1. 1..6 = {1, 2, 3, 4, 5, 6}
  OBVIOUS
<1>2. StepIds = {Steps[1], Steps[2], Steps[3], Steps[4], Steps[5], Steps[6]}
  BY <1>1 DEF StepIds
<1>3. StepIds = {"theme", "business", "categories", "services", "commissions", "complete"}
  BY <1>2 DEF Steps
<1> QED
  BY <1>3 DEF RowKinds

\* A step is known by its place, and its place by the step.
LEMMA Places ==
    /\ \A s \in StepIds : IndexOf(s) \in 1..6 /\ Steps[IndexOf(s)] = s
    /\ \A i \in 1..6 : Steps[i] \in StepIds /\ IndexOf(Steps[i]) = i
<1>1. \A s \in StepIds : IndexOf(s) \in 1..6 /\ Steps[IndexOf(s)] = s
  BY DEF IndexOf, StepIds
<1>2. ASSUME NEW i \in 1..6, NEW j \in 1..6, Steps[i] = Steps[j] PROVE i = j
  BY <1>2 DEF Steps
<1>3. ASSUME NEW i \in 1..6 PROVE Steps[i] \in StepIds /\ IndexOf(Steps[i]) = i
  <2>1. Steps[i] \in StepIds
    BY DEF StepIds
  <2> QED
    BY <2>1, <1>1, <1>2
<1> QED
  BY <1>1, <1>3

\* What a mark writes, by the place of its step.
LEMMA MarksByPlace ==
    \A s \in StepIds :
        /\ NextStep(s) = Steps[IF IndexOf(s) < 6 THEN IndexOf(s) + 1 ELSE 6]
        /\ Completes(s) <=> IndexOf(s) >= 5
<1> TAKE s \in StepIds
<1>1. IndexOf(s) \in 1..6 /\ Steps[IndexOf(s)] = s
  BY Places
<1>2. Steps[5] = "commissions" /\ Steps[6] = "complete"
  BY DEF Steps
<1>3. IndexOf("commissions") = 5 /\ IndexOf("complete") = 6
  BY <1>2, Places
<1>4. s = "complete" <=> IndexOf(s) = 6
  BY <1>1, <1>2, <1>3
<1>5. s = "commissions" <=> IndexOf(s) = 5
  BY <1>1, <1>2, <1>3
<1>6. NextStep(s) = Steps[IF IndexOf(s) < 6 THEN IndexOf(s) + 1 ELSE 6]
  <2>1. CASE IndexOf(s) = 6
    BY <2>1, <1>2, <1>4 DEF NextStep
  <2>2. CASE IndexOf(s) < 6
    BY <2>2, <1>1, <1>4 DEF NextStep
  <2> QED
    BY <2>1, <2>2, <1>1
<1>7. Completes(s) <=> IndexOf(s) >= 5
  BY <1>1, <1>4, <1>5 DEF Completes
<1> QED
  BY <1>6, <1>7

\* A step is among the first k when its place is.
LEMMA InFirst ==
    ASSUME NEW k \in Int, k <= 6, NEW i \in 1..6
    PROVE  Steps[i] \in First(k) <=> i <= k
<1>1. i <= k => Steps[i] \in First(k)
  BY DEF First
<1>2. ASSUME Steps[i] \in First(k) PROVE i <= k
  <2>1. PICK j \in 1..k : Steps[j] = Steps[i]
    BY <1>2 DEF First
  <2>2. j \in 1..6 /\ IndexOf(Steps[j]) = j /\ IndexOf(Steps[i]) = i
    BY Places
  <2> QED
    BY <2>1, <2>2
<1> QED
  BY <1>1, <1>2

-----------------------------------------------------------------------------
(***************************************************************************)
(* The inductive invariant: what a page knows, and what a call under way   *)
(* has behind it, is enough for the step that it is about to mark.         *)
(***************************************************************************)

\* A page that was given a category, or lets a service be entered, belongs to a
\* tenant that has one.
PagesKnow ==
    \A t \in Tabs :
        /\ known[t] => rows["categories"] > 0
        /\ page[t] = "services" /\ form[t] => rows["categories"] > 0

\* A call under way is some step's; a step about to be marked has its rows.
JobsAreBacked ==
    \A t \in Tabs :
        /\ phase[t] # "editing" => job[t] \in StepIds
        /\ phase[t] = "saving" /\ job[t] = "services" => rows["categories"] > 0
        /\ phase[t] = "marking" /\ job[t] \in {"categories", "services"} => rows[job[t]] > 0

\* As long as nobody jumped ahead, every tab that shows a step's page, or has a
\* step's call under way, has the steps before it behind it.
TabsInOrder ==
    ~jumped => \A t \in Tabs :
        /\ page[t] \in StepIds => First(IndexOf(page[t]) - 1) \subseteq done
        /\ phase[t] # "editing" => First(IndexOf(job[t]) - 1) \subseteq done

Backed == CatalogBehindSteps /\ ForwardIsEarned /\ PagesKnow /\ JobsAreBacked

IInv == TypeOK /\ Backed /\ ResumesWhereLeft /\ TabsInOrder

LEMMA InitIInv == Init => IInv
<1> SUFFICES ASSUME Init PROVE IInv
  OBVIOUS
<1>1. TypeOK
  BY KindsAreSteps DEF Init, TypeOK, Pages
<1>2. Backed
  BY DEF Init, Backed, CatalogBehindSteps, RowKinds, ForwardIsEarned, PagesKnow, JobsAreBacked
<1>3. ResumesWhereLeft
  <2>1. First(0) = {} /\ Steps[1] = "theme"
    BY DEF First, Steps
  <2> QED
    BY <2>1 DEF Init, ResumesWhereLeft
<1>4. TabsInOrder
  BY KindsAreSteps DEF Init, TabsInOrder
<1> QED
  BY <1>1, <1>2, <1>3, <1>4 DEF IInv

\* Rows are never taken away, nor are steps.
Grows == (\A k \in RowKinds : rows'[k] >= rows[k]) /\ done \subseteq done'

\* Showing a page: what it is given is there.
LEMMA MountKnows ==
    ASSUME IInv, NEW t \in Tabs, NEW p \in Pages, NEW b \in BOOLEAN, Mount(t, p, b),
           rows' = rows
    PROVE  /\ page' \in [Tabs -> Pages] /\ known' \in [Tabs -> BOOLEAN]
           /\ form' \in [Tabs -> BOOLEAN] /\ copies' \in [Tabs -> Nat]
           /\ earned' \in [Tabs -> BOOLEAN]
           /\ PagesKnow'
  BY DEF IInv, Backed, TypeOK, PagesKnow, Mount

LEMMA SignInKeeps == ASSUME IInv, NEW t \in Tabs, SignIn(t) PROVE TypeOK' /\ Backed' /\ Grows
<1> USE KindsAreSteps
<1>1. PICK p \in Pages : Mount(t, p, FALSE)
  BY DEF SignIn, IInv, Backed, TypeOK, Pages
<1>2. UNCHANGED <<status, rows, job, phase, jumped>>
  BY DEF SignIn
<1>3. PagesKnow' /\ TypeOK'
  BY <1>1, <1>2, MountKnows DEF IInv, Backed, TypeOK, status
<1>4. CatalogBehindSteps' /\ JobsAreBacked' /\ Grows
  BY <1>2 DEF IInv, Backed, TypeOK, CatalogBehindSteps, JobsAreBacked, Grows, status
<1>5. ForwardIsEarned'
  BY <1>1, <1>2 DEF IInv, Backed, TypeOK, ForwardIsEarned, Mount, status
<1> QED
  BY <1>3, <1>4, <1>5 DEF IInv, Backed

LEMMA GoKeeps ==
    ASSUME IInv, NEW t \in Tabs, NEW p \in Visited, Go(t, p), OnboardingAssumption
    PROVE  TypeOK' /\ Backed' /\ Grows
<1>1. /\ p \in Pages /\ Mount(t, p, FALSE) /\ UNCHANGED <<status, rows, job, phase>>
      /\ jumped' \in BOOLEAN
  BY DEF Go, OnboardingAssumption, IInv, TypeOK
<1>2. PagesKnow' /\ TypeOK'
  BY <1>1, MountKnows DEF IInv, Backed, TypeOK, status
<1>3. CatalogBehindSteps' /\ JobsAreBacked' /\ Grows
  BY <1>1 DEF IInv, Backed, TypeOK, CatalogBehindSteps, JobsAreBacked, Grows, status
<1>4. ForwardIsEarned'
  BY <1>1 DEF IInv, Backed, TypeOK, ForwardIsEarned, Mount, status
<1> QED
  BY <1>2, <1>3, <1>4 DEF IInv, Backed

LEMMA FillKeeps == ASSUME IInv, NEW t \in Tabs, Fill(t) PROVE TypeOK' /\ Backed' /\ Grows
<1>1. UNCHANGED <<status, rows, page, known, earned, job, phase, jumped>>
  BY DEF Fill
<1>2. TypeOK'
  BY <1>1 DEF Fill, IInv, Backed, TypeOK, status
<1>3. PagesKnow'
  BY <1>1 DEF Fill, CanFill, IInv, Backed, TypeOK, PagesKnow
<1> QED
  BY <1>1, <1>2, <1>3
  DEF IInv, Backed, CatalogBehindSteps, ForwardIsEarned, JobsAreBacked, Grows, status, TypeOK

LEMMA PressKeeps == ASSUME IInv, NEW t \in Tabs, Press(t) PROVE TypeOK' /\ Backed' /\ Grows
<1> USE KindsAreSteps
<1>1. UNCHANGED <<status, rows, shown, jumped>>
  BY DEF Press
<1>2. TypeOK'
  BY <1>1 DEF Press, IInv, Backed, TypeOK, status, shown
<1>3. JobsAreBacked'
  <2> SUFFICES ASSUME NEW u \in Tabs
               PROVE  /\ phase'[u] # "editing" => job'[u] \in StepIds
                      /\ phase'[u] = "saving" /\ job'[u] = "services" => rows["categories"] > 0
                      /\ phase'[u] = "marking" /\ job'[u] \in {"categories", "services"}
                            => rows[job'[u]] > 0
    BY <1>1 DEF JobsAreBacked
  <2>1. CASE u # t
    BY <2>1 DEF Press, IInv, Backed, TypeOK, JobsAreBacked
  <2>2. CASE u = t
    <3>1. job'[t] = page[t] /\ page[t] \in StepIds \ {"complete"}
      BY DEF Press, IInv, Backed, TypeOK
    <3>2. CASE form[t] /\ phase' = [phase EXCEPT ![t] = "saving"]
      BY <2>2, <3>1, <3>2 DEF IInv, Backed, TypeOK, PagesKnow
    <3>3. CASE ~form[t] /\ MaySkip(t) /\ phase' = [phase EXCEPT ![t] = "marking"]
      BY <2>2, <3>1, <3>3 DEF IInv, Backed, TypeOK, PagesKnow, MaySkip
    <3> QED
      BY <3>2, <3>3 DEF Press
  <2> QED
    BY <2>1, <2>2
<1> QED
  BY <1>1, <1>2, <1>3
  DEF IInv, Backed, CatalogBehindSteps, ForwardIsEarned, PagesKnow, Grows, status, shown, TypeOK

LEMMA FinishKeeps == ASSUME IInv, NEW t \in Tabs, Finish(t) PROVE TypeOK' /\ Backed' /\ Grows
<1> USE KindsAreSteps
<1>1. UNCHANGED <<status, rows, page, known, copies, earned, jumped>>
  BY DEF Finish
<1>2. TypeOK'
  BY <1>1 DEF Finish, IInv, Backed, TypeOK, status
<1>3. PagesKnow' /\ JobsAreBacked'
  BY <1>1 DEF Finish, IInv, Backed, TypeOK, PagesKnow, JobsAreBacked
<1> QED
  BY <1>1, <1>2, <1>3 DEF IInv, Backed, CatalogBehindSteps, ForwardIsEarned, Grows, status, TypeOK

\* A save adds rows of the job's kind, or none, and takes nothing away.
LEMMA InsertAdds ==
    ASSUME IInv, NEW t \in Tabs, Insert(t), phase[t] = "saving"
    PROVE  /\ rows' \in [RowKinds -> Nat]
           /\ copies' \in [Tabs -> Nat]
           /\ \A k \in RowKinds : rows'[k] >= rows[k]
           /\ job[t] \in RowKinds => rows'[job[t]] > 0
           /\ \A k \in RowKinds : k # job[t] => rows'[k] = rows[k]
  BY DEF Insert, IInv, Backed, TypeOK

\* What a save adds keeps every claim about what is there.
LEMMA InsertKeeps ==
    ASSUME IInv, NEW t \in Tabs, Insert(t), phase[t] = "saving",
           UNCHANGED <<status, page, known, form, earned>>
    PROVE  CatalogBehindSteps' /\ ForwardIsEarned' /\ PagesKnow' /\ Grows
<1> USE InsertAdds
<1>1. /\ rows["categories"] \in Nat /\ rows["services"] \in Nat
      /\ rows'["categories"] \in Nat /\ rows'["services"] \in Nat
      /\ rows'["categories"] >= rows["categories"]
      /\ rows'["services"] >= rows["services"]
      /\ job[t] # "services" => rows'["services"] = rows["services"]
  BY DEF IInv, Backed, TypeOK, RowKinds
<1>2. job[t] = "services" => rows["categories"] > 0
  BY DEF IInv, Backed, JobsAreBacked
<1>3. CatalogBehindSteps'
  BY <1>1, <1>2 DEF IInv, Backed, CatalogBehindSteps, status
<1>4. PagesKnow'
  BY <1>1 DEF IInv, Backed, PagesKnow
<1> QED
  BY <1>3, <1>4 DEF IInv, Backed, ForwardIsEarned, Grows, status

LEMMA SaveKeeps == ASSUME IInv, NEW t \in Tabs, Save(t) PROVE TypeOK' /\ Backed' /\ Grows
<1>1. /\ phase[t] = "saving" /\ Insert(t)
      /\ UNCHANGED <<status, page, known, form, earned, job, jumped>>
      /\ phase' = [phase EXCEPT ![t] = "marking"]
  BY DEF Save
<1>2. TypeOK'
  BY <1>1, InsertAdds DEF IInv, Backed, TypeOK, status
<1>3. CatalogBehindSteps' /\ ForwardIsEarned' /\ PagesKnow' /\ Grows
  BY <1>1, InsertKeeps
<1>4. JobsAreBacked'
  <2>1. \A k \in {"categories", "services"} :
            rows[k] \in Nat /\ rows'[k] \in Nat /\ rows'[k] >= rows[k]
    BY <1>1, <1>2, InsertAdds DEF IInv, Backed, TypeOK, RowKinds
  <2>2. job[t] \in {"categories", "services"} => rows'[job[t]] > 0
    BY <1>1, InsertAdds DEF RowKinds
  <2> QED
    BY <1>1, <2>1, <2>2 DEF IInv, Backed, TypeOK, JobsAreBacked
<1> QED
  BY <1>2, <1>3, <1>4 DEF IInv, Backed

LEMMA SaveUnheardKeeps == ASSUME IInv, NEW t \in Tabs, SaveUnheard(t) PROVE TypeOK' /\ Backed' /\ Grows
<1>1. /\ phase[t] = "saving" /\ Insert(t) /\ Settle(t)
      /\ UNCHANGED <<status, page, known, form, earned, jumped>>
  BY DEF SaveUnheard
<1>2. TypeOK'
  BY <1>1, InsertAdds DEF IInv, Backed, TypeOK, status, Settle
<1>3. CatalogBehindSteps' /\ ForwardIsEarned' /\ PagesKnow' /\ Grows
  BY <1>1, InsertKeeps
<1>4. JobsAreBacked'
  <2>1. \A k \in {"categories", "services"} :
            rows[k] \in Nat /\ rows'[k] \in Nat /\ rows'[k] >= rows[k]
    BY <1>1, <1>2, InsertAdds DEF IInv, Backed, TypeOK, RowKinds
  <2> QED
    BY <1>1, <2>1 DEF IInv, Backed, TypeOK, JobsAreBacked, Settle
<1> QED
  BY <1>2, <1>3, <1>4 DEF IInv, Backed

\* Marking a job that is backed keeps the catalog behind the steps.
LEMMA MarkDoneKeeps ==
    ASSUME IInv, NEW t \in Tabs, phase[t] = "marking", MarkDone(job[t]), rows' = rows
    PROVE  /\ completed' \in BOOLEAN /\ current' \in StepIds /\ done' \in SUBSET StepIds
           /\ reopened' \in BOOLEAN
           /\ CatalogBehindSteps' /\ Grows /\ job[t] \in done'
<1>1. job[t] \in StepIds
  BY DEF IInv, Backed, JobsAreBacked
<1>2. /\ completed' \in BOOLEAN /\ current' \in StepIds /\ done' \in SUBSET StepIds
      /\ reopened' \in BOOLEAN
  BY <1>1, NextStepIsStep DEF IInv, Backed, TypeOK, MarkDone, Completes
<1>3. CatalogBehindSteps'
  BY DEF IInv, Backed, JobsAreBacked, CatalogBehindSteps, MarkDone
<1> QED
  BY <1>2, <1>3 DEF Grows, MarkDone, IInv, Backed, TypeOK

LEMMA MarkKeeps == ASSUME IInv, NEW t \in Tabs, Mark(t) PROVE TypeOK' /\ Backed' /\ Grows
<1>1. phase[t] = "marking" /\ MarkDone(job[t]) /\ Settle(t) /\ UNCHANGED <<rows, jumped>>
  BY DEF Mark
<1>2. job[t] \in StepIds
  BY <1>1 DEF IInv, Backed, JobsAreBacked
<1>3. NextStep(job[t]) \in Pages
  BY <1>2, NextStepIsStep DEF Pages
<1>4. /\ completed' \in BOOLEAN /\ current' \in StepIds /\ done' \in SUBSET StepIds
      /\ reopened' \in BOOLEAN
      /\ CatalogBehindSteps' /\ Grows /\ job[t] \in done'
  BY <1>1, MarkDoneKeeps
<1>5. JobsAreBacked'
  BY <1>1 DEF IInv, Backed, TypeOK, JobsAreBacked, Settle
<1>6. job' \in [Tabs -> StepIds \cup {"login"}] /\ phase' \in [Tabs -> {"editing", "saving", "marking"}]
  BY <1>1 DEF IInv, Backed, TypeOK, Settle
<1>7. CASE job[t] = "complete"
  <2>1. UNCHANGED shown
    BY <1>7 DEF Mark
  <2> QED
    BY <1>1, <1>4, <1>5, <1>6, <2>1
    DEF IInv, Backed, TypeOK, PagesKnow, ForwardIsEarned, shown, Grows
<1>8. CASE job[t] # "complete"
  <2>1. Mount(t, NextStep(job[t]), TRUE)
    BY <1>8 DEF Mark
  <2>2. PagesKnow' /\ TypeOK'
    BY <1>1, <1>3, <1>4, <1>6, <2>1, MountKnows DEF IInv, Backed, TypeOK
  <2>3. ForwardIsEarned'
    BY <1>4, <2>1 DEF IInv, Backed, TypeOK, ForwardIsEarned, Mount, Grows
  <2> QED
    BY <1>4, <1>5, <2>2, <2>3 DEF IInv, Backed
<1> QED
  BY <1>7, <1>8

LEMMA MarkUnheardKeeps == ASSUME IInv, NEW t \in Tabs, MarkUnheard(t) PROVE TypeOK' /\ Backed' /\ Grows
<1>1. phase[t] = "marking" /\ MarkDone(job[t]) /\ Settle(t) /\ UNCHANGED <<rows, shown, jumped>>
  BY DEF MarkUnheard
<1>2. /\ completed' \in BOOLEAN /\ current' \in StepIds /\ done' \in SUBSET StepIds
      /\ reopened' \in BOOLEAN
      /\ CatalogBehindSteps' /\ Grows
  BY <1>1, MarkDoneKeeps
<1>3. JobsAreBacked'
  BY <1>1 DEF IInv, Backed, TypeOK, JobsAreBacked, Settle
<1>4. job' \in [Tabs -> StepIds \cup {"login"}] /\ phase' \in [Tabs -> {"editing", "saving", "marking"}]
  BY <1>1 DEF IInv, Backed, TypeOK, Settle
<1> QED
  BY <1>1, <1>2, <1>3, <1>4 DEF IInv, Backed, TypeOK, PagesKnow, ForwardIsEarned, shown, Grows

LEMMA CallFailsKeeps == ASSUME IInv, NEW t \in Tabs, CallFails(t) PROVE TypeOK' /\ Backed' /\ Grows
<1>1. Settle(t) /\ UNCHANGED <<status, rows, shown, jumped>>
  BY DEF CallFails
<1>2. TypeOK' /\ JobsAreBacked'
  BY <1>1 DEF IInv, Backed, TypeOK, JobsAreBacked, Settle, status, shown
<1> QED
  BY <1>1, <1>2
  DEF IInv, Backed, CatalogBehindSteps, ForwardIsEarned, PagesKnow, Grows, status, shown, TypeOK

-----------------------------------------------------------------------------
(***************************************************************************)
(* The order of the steps.                                                 *)
(***************************************************************************)

\* A mark of a step whose steps before are done leaves the first k steps done
\* for some k: it adds the one that follows, or none.
LEMMA MarkResumes ==
    ASSUME IInv, NEW t \in Tabs, phase[t] = "marking", MarkDone(job[t]), jumped' = jumped
    PROVE  /\ ResumesWhereLeft'
           /\ ~jumped => First(IndexOf(NextStep(job[t])) - 1) \subseteq done'
<1> SUFFICES ASSUME ~jumped
             PROVE  /\ ResumesWhereLeft'
                    /\ First(IndexOf(NextStep(job[t])) - 1) \subseteq done'
  BY DEF ResumesWhereLeft
<1> DEFINE j == IndexOf(job[t])
           after(k) == Steps[IF k < 6 THEN k + 1 ELSE 6]
<1>1. job[t] \in StepIds /\ j \in 1..6 /\ Steps[j] = job[t]
  BY Places DEF IInv, Backed, JobsAreBacked
<1>2. PICK k \in 0..6 :
        /\ done = First(k)
        /\ completed => k >= 5
  BY DEF IInv, ResumesWhereLeft
<1>3. First(j - 1) \subseteq First(k)
  BY <1>2 DEF IInv, TabsInOrder
<1>4. j <= k + 1
  <2>1. CASE j = 1
    BY <2>1
  <2>2. CASE j > 1
    <3>1. j - 1 \in 1..6 /\ j - 1 <= 6
      BY <2>2, <1>1
    <3>2. Steps[j - 1] \in First(j - 1)
      BY <3>1, InFirst
    <3> QED
      BY <3>1, <3>2, <1>3, InFirst
  <2> QED
    BY <2>1, <2>2, <1>1
<1>5. /\ completed' <=> j >= 5
      /\ current' = after(j)
  BY <1>1, MarksByPlace DEF MarkDone
<1>6. reopened' <=> j < k
  <2>1. reopened' <=> \E i \in (j + 1)..6 : Steps[i] \in First(k)
    BY <1>2 DEF MarkDone
  <2>2. \A i \in (j + 1)..6 : Steps[i] \in First(k) <=> i <= k
    BY <1>1, InFirst
  <2> HIDE DEF j
  <2> QED
    BY <2>1, <2>2, <1>1
<1>7. CASE j <= k
  <2>1. job[t] \in First(k)
    BY <1>1, <1>7, InFirst
  <2>2. done' = First(k)
    BY <2>1, <1>2 DEF MarkDone
  <2>3. current' \in First(k) \cup {after(k)}
    <3>1. CASE j = k
      BY <3>1, <1>5
    <3>2. CASE j < k
      <4>1. after(j) = Steps[j + 1] /\ j + 1 \in 1..6 /\ j + 1 <= k
        BY <3>2, <1>1
      <4> QED
        BY <4>1, <1>5, InFirst
    <3> QED
      BY <3>1, <3>2, <1>7, <1>1
  <2>4. completed' => k >= 5
    BY <1>5, <1>7, <1>1
  <2>5. ~reopened' => current' = after(k) /\ (completed' <=> k >= 5)
    BY <1>5, <1>6, <1>7, <1>1
  <2>6. ResumesWhereLeft'
    BY <2>2, <2>3, <2>4, <2>5 DEF ResumesWhereLeft
  <2>7. First(IndexOf(after(j)) - 1) \subseteq First(k)
    <3>1. IndexOf(after(j)) - 1 <= k
      BY <1>1, <1>7, Places
    <3> QED
      BY <3>1, <1>1, Places DEF First
  <2> QED
    BY <2>2, <2>6, <2>7, <1>1, MarksByPlace
<1>8. CASE j = k + 1
  <2>1. k + 1 \in 0..6
    BY <1>8, <1>1
  <2>2. done' = First(k + 1)
    <3>1. done' = First(k) \cup {Steps[k + 1]}
      BY <1>2, <1>1, <1>8 DEF MarkDone
    <3>2. 1..(k + 1) = (1..k) \cup {k + 1}
      OBVIOUS
    <3> QED
      BY <3>1, <3>2 DEF First
  <2>3. /\ current' = after(k + 1)
        /\ completed' <=> k + 1 >= 5
    BY <1>5, <1>8
  <2>4. ResumesWhereLeft'
    BY <2>1, <2>2, <2>3 DEF ResumesWhereLeft
  <2>5. First(IndexOf(after(j)) - 1) \subseteq First(k + 1)
    <3>1. IndexOf(after(j)) - 1 <= k + 1
      BY <1>1, <1>8, Places
    <3> QED
      BY <3>1, <1>1, Places DEF First
  <2> QED
    BY <2>2, <2>4, <2>5, <1>1, MarksByPlace
<1> QED
  BY <1>4, <1>7, <1>8, <1>1

\* Steps are only added, so what a tab has behind it stays; a page that is shown
\* and a step that is started must have the steps before them.
LEMMA OrderKept ==
    ASSUME IInv, done \subseteq done', jumped => jumped',
           \A u \in Tabs : ~jumped' =>
              \/ page'[u] = page[u]
              \/ page'[u] \notin StepIds
              \/ First(IndexOf(page'[u]) - 1) \subseteq done',
           \A u \in Tabs :
              \/ phase'[u] = "editing"
              \/ phase[u] # "editing" /\ job'[u] = job[u]
              \/ page[u] \in StepIds /\ job'[u] = page[u]
    PROVE  TabsInOrder'
  BY DEF IInv, TabsInOrder

\* The login page sends nobody past the step that follows those done.
LEMMA SignInOrder ==
    ASSUME IInv, NEW t \in Tabs, SignIn(t)
    PROVE  ResumesWhereLeft' /\ TabsInOrder'
<1>1. UNCHANGED <<status, rows, job, phase, jumped>>
  BY DEF SignIn
<1>2. ResumesWhereLeft'
  BY <1>1 DEF status, IInv, ResumesWhereLeft
<1>3. ~jumped => First(IndexOf(current) - 1) \subseteq done
  <2> SUFFICES ASSUME ~jumped PROVE First(IndexOf(current) - 1) \subseteq done
    OBVIOUS
  <2>1. PICK k \in 0..6 :
          /\ done = First(k)
          /\ current \in First(k) \cup {Steps[IF k < 6 THEN k + 1 ELSE 6]}
    BY DEF IInv, ResumesWhereLeft
  <2>2. PICK i \in 1..6 : current = Steps[i] /\ i <= k + 1
    BY <2>1 DEF First
  <2>3. IndexOf(current) = i
    BY <2>2, Places
  <2> QED
    BY <2>1, <2>2, <2>3 DEF First
<1>4. First(IndexOf("theme") - 1) = {}
  <2>1. Steps[1] = "theme"
    BY DEF Steps
  <2>2. IndexOf("theme") = 1
    BY <2>1, Places
  <2> QED
    BY <2>2 DEF First
<1>5. "dashboard" \notin StepIds
  BY KindsAreSteps
<1>6. \E p \in {"dashboard", current, "theme"} : page' = [page EXCEPT ![t] = p]
  BY DEF SignIn, Mount
<1>7. \A u \in Tabs : ~jumped' =>
          \/ page'[u] = page[u]
          \/ page'[u] \notin StepIds
          \/ First(IndexOf(page'[u]) - 1) \subseteq done'
  BY <1>1, <1>3, <1>4, <1>5, <1>6 DEF IInv, TypeOK, status
<1> QED
  BY <1>1, <1>2, <1>7, OrderKept DEF status

\* Whoever goes ahead by hand has jumped.
LEMMA GoOrder ==
    ASSUME IInv, NEW t \in Tabs, NEW p \in Visited, Go(t, p)
    PROVE  ResumesWhereLeft' /\ TabsInOrder'
<1>1. /\ UNCHANGED <<status, rows, job, phase>>
      /\ jumped' = (jumped \/ (p \in StepIds /\ ~(First(IndexOf(p) - 1) \subseteq done)))
      /\ page' = [page EXCEPT ![t] = p]
  BY DEF Go, Mount
<1>2. ResumesWhereLeft'
  BY <1>1 DEF status, IInv, ResumesWhereLeft
<1>3. \A u \in Tabs : ~jumped' =>
          \/ page'[u] = page[u]
          \/ page'[u] \notin StepIds
          \/ First(IndexOf(page'[u]) - 1) \subseteq done'
  BY <1>1 DEF IInv, TypeOK, status
<1> QED
  BY <1>1, <1>2, <1>3, OrderKept DEF status

\* Filling a form, pressing Next and the calls that do not mark: no step is
\* marked, and no page but the one shown is started.
LEMMA CallOrder ==
    ASSUME IInv, NEW t \in Tabs,
           Fill(t) \/ Press(t) \/ Finish(t) \/ Save(t) \/ SaveUnheard(t) \/ CallFails(t)
    PROVE  ResumesWhereLeft' /\ TabsInOrder'
<1>1. UNCHANGED <<status, page, jumped>>
  BY DEF Fill, Press, Finish, Save, SaveUnheard, CallFails, shown
<1>2. ResumesWhereLeft'
  BY <1>1 DEF status, IInv, ResumesWhereLeft
<1>3. \A u \in Tabs :
          \/ phase'[u] = "editing"
          \/ phase[u] # "editing" /\ job'[u] = job[u]
          \/ page[u] \in StepIds /\ job'[u] = page[u]
  <2> USE KindsAreSteps DEF IInv, TypeOK
  <2>1. CASE Fill(t)
    BY <2>1 DEF Fill
  <2>2. CASE Press(t)
    BY <2>2 DEF Press
  <2>3. CASE Finish(t)
    BY <2>3 DEF Finish
  <2>4. CASE Save(t)
    BY <2>4 DEF Save
  <2>5. CASE SaveUnheard(t)
    BY <2>5 DEF SaveUnheard, Settle
  <2>6. CASE CallFails(t)
    BY <2>6 DEF CallFails, Settle
  <2> QED
    BY <2>1, <2>2, <2>3, <2>4, <2>5, <2>6
<1> QED
  BY <1>1, <1>2, <1>3, OrderKept DEF status

\* A mark shows the page of the step that follows, or leaves the page.
LEMMA MarkOrder ==
    ASSUME IInv, NEW t \in Tabs, Mark(t) \/ MarkUnheard(t)
    PROVE  ResumesWhereLeft' /\ TabsInOrder'
<1>1. phase[t] = "marking" /\ MarkDone(job[t]) /\ Settle(t) /\ jumped' = jumped
  BY DEF Mark, MarkUnheard
<1>2. /\ ResumesWhereLeft'
      /\ ~jumped => First(IndexOf(NextStep(job[t])) - 1) \subseteq done'
  BY <1>1, MarkResumes
<1>3. page' = page \/ page' = [page EXCEPT ![t] = NextStep(job[t])]
  BY DEF Mark, MarkUnheard, Mount, shown
<1>4. \A u \in Tabs : ~jumped' =>
          \/ page'[u] = page[u]
          \/ page'[u] \notin StepIds
          \/ First(IndexOf(page'[u]) - 1) \subseteq done'
  BY <1>1, <1>2, <1>3 DEF IInv, TypeOK
<1>5. \A u \in Tabs :
          \/ phase'[u] = "editing"
          \/ phase[u] # "editing" /\ job'[u] = job[u]
          \/ page[u] \in StepIds /\ job'[u] = page[u]
  BY <1>1 DEF Settle, IInv, TypeOK
<1>6. done \subseteq done'
  BY <1>1 DEF MarkDone
<1> QED
  BY <1>1, <1>2, <1>4, <1>5, <1>6, OrderKept

LEMMA StepKeeps == ASSUME IInv, [Next]_vars, OnboardingAssumption PROVE IInv'
<1>1. CASE Next
  <2>1. PICK t \in Tabs :
          \/ SignIn(t) \/ Fill(t) \/ Press(t) \/ Finish(t)
          \/ Save(t) \/ SaveUnheard(t) \/ Mark(t) \/ MarkUnheard(t) \/ CallFails(t)
          \/ \E p \in Visited : Go(t, p)
    BY <1>1 DEF Next
  <2>2. TypeOK' /\ Backed'
    BY <2>1, SignInKeeps, GoKeeps, FillKeeps, PressKeeps, FinishKeeps, SaveKeeps,
       SaveUnheardKeeps, MarkKeeps, MarkUnheardKeeps, CallFailsKeeps
  <2>3. ResumesWhereLeft' /\ TabsInOrder'
    BY <2>1, SignInOrder, GoOrder, CallOrder, MarkOrder
  <2> QED
    BY <2>2, <2>3 DEF IInv
<1>2. CASE UNCHANGED vars
  BY <1>2
  DEF vars, status, shown, IInv, TypeOK, Backed, CatalogBehindSteps, ForwardIsEarned,
      PagesKnow, JobsAreBacked, ResumesWhereLeft, TabsInOrder
<1> QED
  BY <1>1, <1>2

-----------------------------------------------------------------------------
(***************************************************************************)
(* The theorems.                                                           *)
(***************************************************************************)

\* Every state of the wizard satisfies the inductive invariant.
THEOREM Invariance == Spec => []IInv
<1>1. Init => IInv
  BY InitIInv
<1>2. IInv /\ [Next]_vars => IInv'
  BY StepKeeps, OnboardingAssumption
<1> QED
  BY <1>1, <1>2, PTL DEF Spec

\* Type correctness of onboarding_status and of the tabs.
THEOREM TypeCorrect == Spec => []TypeOK
<1>1. IInv => TypeOK
  BY DEF IInv
<1> QED
  BY <1>1, Invariance, PTL

\* The wizard never counts the categories or the services as done for a tenant
\* that has none: the pages check before they mark, and rows are never removed.
THEOREM CatalogIsThere == Spec => []CatalogBehindSteps
<1>1. IInv => CatalogBehindSteps
  BY DEF IInv, Backed
<1> QED
  BY <1>1, Invariance, PTL

\* A tab that the wizard moved forward follows a step that is done.
THEOREM NobodyIsLedPast == Spec => []ForwardIsEarned
<1>1. IInv => ForwardIsEarned
  BY DEF IInv, Backed
<1> QED
  BY <1>1, Invariance, PTL

\* Unless somebody goes to a page ahead by hand, the steps done are the first
\* ones, nobody who signs in is sent past the step that follows them, and the
\* wizard resumes exactly there except after the mark of an earlier step.
THEOREM WizardResumes == Spec => []ResumesWhereLeft
<1>1. IInv => ResumesWhereLeft
  BY DEF IInv
<1> QED
  BY <1>1, Invariance, PTL
=============================================================================
