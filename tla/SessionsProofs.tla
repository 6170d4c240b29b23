--------------------------- MODULE SessionsProofs ---------------------------
(***************************************************************************)
(* What holds of sessions for any tenants, subdomains and tabs, however    *)
(* long entries and tokens live.                                           *)
(***************************************************************************)
EXTENDS Sessions, FiniteSetTheorems, TLAPS

Places == {"none"} \cup Waiting \cup Refusals
Tab == [op : {"none", "signup", "login", "call"}, at : Places, slug : Slugs \cup {None},
        tenant : Tenants \cup {None}, token : Token \cup {None}, got : Entry \cup {None}]

\* The types, and what is there by which place.
Typed ==
    /\ row \in [Tenants -> {"none", "inserted", "active", "inactive"}]
    /\ user \in [Tenants -> BOOLEAN]
    /\ cache \in [Slugs -> Entry \cup {None}]
    /\ store \in [token : Token \cup {None}, slug : Slugs \cup {None}]
    /\ store.token # None => store.slug \in Slugs
    /\ tab \in [Tabs -> Tab]
    /\ \A i \in Tabs : /\ tab[i].at \notin {"none", "refused"} => tab[i].slug \in Slugs
                       /\ At(i, "store") => tab[i].got \in Entry
                       /\ tab[i].at \in {"admitted", "accepted"} => tab[i].tenant \in Tenants
                       /\ At(i, "accepted") => tab[i].token \in Token
    /\ strayed \in BOOLEAN

LEMMA TypedInitially == Init => Typed
<1> SUFFICES ASSUME Init PROVE Typed
  OBVIOUS
<1>1. Idle \in Tab
  BY DEF Idle, Tab, Places
<1>2. store \in [token : Token \cup {None}, slug : Slugs \cup {None}] /\ store.token = None
  BY DEF Init, SignedOut
<1>3. tab \in [Tabs -> Tab] /\ \A i \in Tabs : tab[i].at = "none"
  BY <1>1 DEF Init, Idle
<1> QED
  BY <1>2, <1>3 DEF Init, Typed, At

\* What one tab's step has to show.
TabTyped(p) ==
    /\ p \in Tab
    /\ p.at \notin {"none", "refused"} => p.slug \in Slugs
    /\ p.at = "store" => p.got \in Entry
    /\ p.at \in {"admitted", "accepted"} => p.tenant \in Tenants
    /\ p.at = "accepted" => p.token \in Token

LEMMA OneTabTyped ==
    ASSUME Typed, NEW i \in Tabs, NEW p, TabTyped(p), tab' = [tab EXCEPT ![i] = p]
    PROVE  /\ tab' \in [Tabs -> Tab]
           /\ \A j \in Tabs : TabTyped(tab'[j])
BY DEF Typed, TabTyped, At

LEMMA TypedStep == Typed /\ [Next]_vars => Typed'
<1> SUFFICES ASSUME Typed, [Next]_vars PROVE Typed'
  OBVIOUS
<1>a. \A j \in Tabs : TabTyped(tab[j])
  BY DEF Typed, TabTyped, At
<1>b. TabTyped(Idle) /\ \A o \in {"none", "signup", "login", "call"} :
          TabTyped([Idle EXCEPT !.op = o, !.at = "refused"])
  BY DEF TabTyped, Idle, Tab, Places, Refusals, Waiting
<1>c. ASSUME NEW i \in Tabs, NEW p, TabTyped(p), tab' = [tab EXCEPT ![i] = p],
             UNCHANGED <<row, user, cache, store>>, strayed' \in BOOLEAN
      PROVE  Typed'
  BY <1>c, OneTabTyped DEF Typed, TabTyped, At
<1>d. ASSUME NEW i \in Tabs, NEW place \in {"insert", "commit", "created", "load", "served"},
             tab[i].at \notin {"none", "refused"}
      PROVE  TabTyped([tab[i] EXCEPT !.at = place])
  BY <1>a, <1>d DEF TabTyped, Tab, Places, Waiting
<1>e. ASSUME NEW i \in Tabs, NEW e \in Entry, tab[i].at \in {"lookup", "store"}
      PROVE  TabTyped(Resolved(i, e))
  <2>1. tab[i] \in Tab /\ tab[i].slug \in Slugs /\ e.tenant \in Tenants
    BY <1>a, <1>e DEF TabTyped, Entry
  <2> QED
    BY <2>1, ZenonT(60) DEF Resolved, TabTyped, Tab, Places, Waiting, Refusals
<1>1. ASSUME NEW i \in Tabs, SubmitSignup(i)  PROVE Typed'
  <2> DEFINE p == [Idle EXCEPT !.op = "signup", !.at = "select",
                               !.tenant = Wanted[i], !.slug = Slug[Wanted[i]]]
  <2>1. Wanted[i] \in Tenants /\ Slug[Wanted[i]] \in Slugs
    BY SessionsAssumption DEF Slugs
  <2>2. TabTyped(p)
    BY <2>1 DEF TabTyped, Idle, Tab, Places, Waiting
  <2>3. tab' = [tab EXCEPT ![i] = p]
    BY <1>1 DEF SubmitSignup
  <2> QED
    BY <1>1, <1>c, <2>2, <2>3 DEF SubmitSignup, Typed
<1>2. ASSUME NEW i \in Tabs, SelectSubdomain(i)  PROVE Typed'
  <2>1. PICK p \in {Idle, [tab[i] EXCEPT !.at = "insert"]} : tab' = [tab EXCEPT ![i] = p]
    BY <1>2 DEF SelectSubdomain, Goes
  <2>2. TabTyped(p)
    BY <1>2, <1>b, <1>d DEF SelectSubdomain, At
  <2> QED
    BY <1>2, <1>c, <2>1, <2>2 DEF SelectSubdomain, Typed
<1>f. ASSUME NEW i \in Tabs, NEW p, TabTyped(p), tab' = [tab EXCEPT ![i] = p],
             row' \in [Tenants -> {"none", "inserted", "active", "inactive"}],
             UNCHANGED <<user, cache, store, strayed>>
      PROVE  Typed'
  BY <1>f, OneTabTyped DEF Typed, TabTyped, At
<1>3. ASSUME NEW i \in Tabs, InsertTenant(i)  PROVE Typed'
  <2>1. PICK p \in {Idle, [tab[i] EXCEPT !.at = "commit"]} : tab' = [tab EXCEPT ![i] = p]
    BY <1>3 DEF InsertTenant, Goes
  <2>2. TabTyped(p)
    BY <1>3, <1>b, <1>d DEF InsertTenant, At
  <2>3. row' \in [Tenants -> {"none", "inserted", "active", "inactive"}]
    BY <1>3 DEF InsertTenant, Inserted, Typed
  <2> QED
    BY <1>3, <1>f, <2>1, <2>2, <2>3 DEF InsertTenant
<1>4. ASSUME NEW i \in Tabs, CommitSignup(i)  PROVE Typed'
  <2>1. PICK p \in {Idle, [tab[i] EXCEPT !.at = "created"]} : tab' = [tab EXCEPT ![i] = p]
    BY <1>4 DEF CommitSignup, Goes
  <2>2. TabTyped(p)
    BY <1>4, <1>b, <1>d DEF CommitSignup, At
  <2>3. row' \in [Tenants -> {"none", "inserted", "active", "inactive"}]
    BY <1>4 DEF CommitSignup, Typed
  <2> QED
    BY <1>4, <1>f, <2>1, <2>2, <2>3 DEF CommitSignup
<1>5. ASSUME NEW i \in Tabs, NEW s \in Slugs, BeginLogin(i, s)  PROVE Typed'
  <2> DEFINE p == [Idle EXCEPT !.op = "login", !.at = "lookup", !.slug = s]
  <2>1. TabTyped(p)
    BY DEF TabTyped, Idle, Tab, Places, Waiting
  <2>2. tab' = [tab EXCEPT ![i] = p]
    BY <1>5 DEF BeginLogin
  <2>3. /\ store' \in [token : Token \cup {None}, slug : Slugs \cup {None}]
        /\ store'.slug \in Slugs
    BY <1>5 DEF BeginLogin, Typed
  <2> HIDE DEF p
  <2>4. tab' \in [Tabs -> Tab] /\ \A j \in Tabs : TabTyped(tab'[j])
    BY <2>1, <2>2, OneTabTyped
  <2> QED
    BY <1>5, <2>3, <2>4 DEF BeginLogin, Typed, TabTyped, At
<1>6. ASSUME NEW i \in Tabs, LoginAfterSignup(i)  PROVE Typed'
  BY <1>a, <1>5, <1>6 DEF LoginAfterSignup, At, TabTyped
<1>7. ASSUME NEW i \in Tabs, HearLogin(i)  PROVE Typed'
  <2>1. /\ tab' \in [Tabs -> Tab] /\ \A j \in Tabs : TabTyped(tab'[j])
    BY <1>7, <1>b, OneTabTyped DEF HearLogin
  <2>2. tab[i].token \in Token /\ tab[i].slug \in Slugs
    BY <1>7 DEF HearLogin, Typed, At
  <2>3. store' \in [token : Token \cup {None}, slug : Slugs \cup {None}] /\ store'.slug \in Slugs
    BY <1>7, <2>2 DEF HearLogin, Session
  <2> QED
    BY <1>7, <2>1, <2>3 DEF HearLogin, Typed, TabTyped, At
<1>8. ASSUME NEW i \in Tabs, HearError(i)  PROVE Typed'
  <2>1. strayed' \in BOOLEAN
    BY <1>8 DEF HearError, Typed
  <2> QED
    BY <1>8, <1>b, <1>c, <2>1 DEF HearError
<1>9. ASSUME NEW i \in Tabs, HearServed(i)  PROVE Typed'
  BY <1>9, <1>b, <1>c DEF HearServed, Typed
<1>10. ASSUME NEW i \in Tabs, Call(i)  PROVE Typed'
  <2> DEFINE p == [Idle EXCEPT !.op = "call", !.at = "lookup", !.slug = store.slug, !.token = store.token]
  <2>1. store.token \in Token /\ store.slug \in Slugs
    BY <1>10 DEF Call, Typed
  <2>2. TabTyped(p)
    BY <2>1 DEF TabTyped, Idle, Tab, Places, Waiting
  <2>3. tab' = [tab EXCEPT ![i] = p]
    BY <1>10 DEF Call
  <2> QED
    BY <1>10, <1>c, <2>2, <2>3 DEF Call, Typed
<1>11. ASSUME Logout  PROVE Typed'
  BY <1>11 DEF Logout, SignedOut, Typed, At
<1>12. ASSUME NEW i \in Tabs, Lookup(i)  PROVE Typed'
  <2>1. tab[i].at = "lookup" /\ cache[tab[i].slug] \in Entry \cup {None}
    BY <1>12 DEF Lookup, Typed, At
  <2>2. PICK p : TabTyped(p) /\ tab' = [tab EXCEPT ![i] = p]
    BY <1>12, <1>d, <1>e, <2>1 DEF Lookup, Goes
  <2> QED
    BY <1>12, <1>c, <2>2 DEF Lookup, Typed
<1>13. ASSUME NEW i \in Tabs, Load(i)  PROVE Typed'
  <2>1. CASE Refused(i)
    <3>1. tab[i].op \in {"none", "signup", "login", "call"}
      BY <1>a DEF TabTyped, Tab
    <3> QED
      BY <1>13, <1>b, <1>c, <2>1, <3>1 DEF Load, Refused, Typed
  <2>2. CASE ~Refused(i)
    <3>1. PICK t \in Tenants :
            tab' = [tab EXCEPT ![i].at = "store", ![i].got = [tenant |-> t, is_active |-> Flag(t), ttl |-> TTL]]
      BY <1>13, <2>2 DEF Load, Found
    <3> DEFINE e == [tenant |-> t, is_active |-> Flag(t), ttl |-> TTL]
               p == [tab[i] EXCEPT !.at = "store", !.got = e]
    <3>2. e \in Entry
      BY SessionsAssumption DEF Entry, Flag, Flags
    <3>3. tab' = [tab EXCEPT ![i] = p]
      BY <3>1 DEF Typed
    <3>4. TabTyped(p)
      <4> HIDE DEF e
      <4>1. tab[i] \in Tab /\ tab[i].slug \in Slugs
        BY <1>13, <1>a DEF Load, TabTyped, At
      <4> QED
        BY <3>2, <4>1 DEF TabTyped, Tab, Places, Waiting
    <3> QED
      BY <1>13, <1>c, <3>3, <3>4 DEF Load, Typed
  <2> QED
    BY <2>1, <2>2
<1>14. ASSUME NEW i \in Tabs, Store(i)  PROVE Typed'
  <2>1. tab[i].at = "store" /\ tab[i].got \in Entry
    BY <1>14 DEF Store, Typed, At
  <2>2. TabTyped(Resolved(i, tab[i].got))
    BY <1>e, <2>1
  <2>3. tab' \in [Tabs -> Tab] /\ \A j \in Tabs : TabTyped(tab'[j])
    BY <1>14, <2>2, OneTabTyped DEF Store
  <2>4. cache' \in [Slugs -> Entry \cup {None}]
    BY <1>14, <2>1 DEF Store, Typed
  <2> QED
    BY <1>14, <2>3, <2>4 DEF Store, Typed, TabTyped, At
<1>15. ASSUME NEW i \in Tabs, CheckToken(i) \/ Authenticate(i)  PROVE Typed'
  <2>1. /\ tab[i] \in Tab /\ tab[i].slug \in Slugs /\ tab[i].tenant \in Tenants
        /\ tab[i].at = "admitted"
    BY <1>15, <1>a DEF CheckToken, Authenticate, TabTyped, At
  <2> DEFINE token == [tenant |-> tab[i].tenant, life |-> Life]
             p == [tab[i] EXCEPT !.at = "accepted", !.token = token]
  <2>2. token \in Token
    BY <2>1, SessionsAssumption DEF Token
  <2>3. TabTyped(p)
    <3> HIDE DEF token
    <3> QED
      BY <2>1, <2>2 DEF TabTyped, Tab, Places, Waiting
  <2>4. TabTyped([tab[i] EXCEPT !.at = "served"])
    BY <1>d, <2>1
  <2>5. TabTyped([Idle EXCEPT !.op = tab[i].op, !.at = "refused"])
    BY <1>b, <2>1 DEF Tab
  <2>6. \/ tab' = [tab EXCEPT ![i] = p]
        \/ tab' = [tab EXCEPT ![i] = [tab[i] EXCEPT !.at = "served"]]
        \/ tab' = [tab EXCEPT ![i] = [Idle EXCEPT !.op = tab[i].op, !.at = "refused"]]
    BY <1>15 DEF CheckToken, Authenticate, Refused, Goes, Typed
  <2>7. UNCHANGED <<row, user, cache, store, strayed>>
    BY <1>15 DEF CheckToken, Authenticate
  <2> HIDE DEF p
  <2> QED
    BY <1>c, <2>3, <2>4, <2>5, <2>6, <2>7 DEF Typed
<1>16. ASSUME NEW s \in Slugs, Resolve(s)  PROVE Typed'
  <2>1. PICK t \in Tenants :
          cache' = [cache EXCEPT ![s] = [tenant |-> t, is_active |-> "undefined", ttl |-> TTL]]
    BY <1>16 DEF Resolve, Found
  <2>2. [tenant |-> t, is_active |-> "undefined", ttl |-> TTL] \in Entry
    BY SessionsAssumption DEF Entry, Flags
  <2> QED
    BY <1>16, <2>1, <2>2 DEF Resolve, Typed, At
<1>17. ASSUME NEW t \in Managed, PatchTenant(t) \/ PatchUser(t)  PROVE Typed'
  BY <1>17 DEF PatchTenant, PatchUser, Typed, At
<1>18. ASSUME Tick  PROVE Typed'
  <2>1. \A token \in Token \cup {None} : Older(token) \in Token \cup {None}
                                         /\ (token = None => Older(token) = None)
    BY SessionsAssumption DEF Older, Token
  <2>2. \A e \in Entry \cup {None} : Aged(e) \in Entry \cup {None}
    BY SessionsAssumption DEF Aged, Entry
  <2>3. cache' \in [Slugs -> Entry \cup {None}]
    BY <1>18, <2>2 DEF Tick, Typed
  <2>4. /\ store' \in [token : Token \cup {None}, slug : Slugs \cup {None}]
        /\ store'.token # None => store'.slug \in Slugs
    BY <1>18, <2>1 DEF Tick, Typed
  <2>5. ASSUME NEW i \in Tabs  PROVE TabTyped(tab'[i])
    <3>1. tab'[i] = [tab[i] EXCEPT !.token = Older(@)]
      BY <1>18 DEF Tick
    <3>2. tab[i].token \in Token => Older(tab[i].token) \in Token
      BY SessionsAssumption DEF Older, Token
    <3> QED
      BY <1>a, <2>1, <3>1, <3>2 DEF TabTyped, Tab
  <2>6. tab' = [i \in Tabs |-> tab'[i]]
    BY <1>18 DEF Tick
  <2> QED
    BY <1>18, <2>3, <2>4, <2>5, <2>6 DEF Tick, Typed, TabTyped, At
<1>19. CASE UNCHANGED vars
  BY <1>19 DEF vars, Typed, At
<1> QED
  BY <1>1, <1>2, <1>3, <1>4, <1>5, <1>6, <1>7, <1>8, <1>9, <1>10, <1>11, <1>12, <1>13, <1>14,
     <1>15, <1>16, <1>17, <1>18, <1>19, SessionsAssumption DEF Next, Answer, SubmitLogin

-----------------------------------------------------------------------------
(***************************************************************************)
(* Safety.  One tenant per subdomain needs the tenants still in their      *)
(* signup's transaction; whom a request is served for needs what is known  *)
(* at each place it comes from; and that a session's token and subdomain   *)
(* belong together needs that they do in an answer not heard yet.          *)
(***************************************************************************)

\* Among the tenants inserted so far no two have one subdomain.
Unique ==
    \A t, u \in Tenants : Slug[t] = Slug[u] /\ row[t] # "none" /\ row[u] # "none" => t = u

EntriesAreFound == \A s \in Slugs : cache[s] # None => cache[s].tenant \in Found(s)

\* What is known of a request by the place it is at.
KnownBy(p, i) ==
    /\ p.at \in {"select", "insert", "commit", "created"} =>
           p.op = "signup" /\ p.tenant = Wanted[i] /\ p.slug = Slug[Wanted[i]]
    /\ p.at = "commit" => row[Wanted[i]] = "inserted"
    /\ p.at = "store" => p.got.tenant \in Found(p.slug)
    /\ p.at \in {"admitted", "accepted", "served"} => p.tenant \in Found(p.slug)
    /\ p.at \in {"accepted", "served"} => p.token.tenant = p.tenant
    /\ p.at = "served" => p.op = "call"

Safe == Unique /\ EntriesAreFound /\ (\A i \in Tabs : KnownBy(tab[i], i)) /\ MismatchIsExplained

IInv == Typed /\ Safe

LEMMA SafeInitially == Init => Safe
<1> SUFFICES ASSUME Init PROVE Safe
  OBVIOUS
<1>1. Unique
  BY SessionsAssumption DEF Init, Unique
<1>2. EntriesAreFound
  BY DEF Init, EntriesAreFound
<1>3. \A i \in Tabs : KnownBy(tab[i], i)
  BY DEF Init, Idle, KnownBy
<1>4. MismatchIsExplained
  BY DEF Init, SignedOut, MismatchIsExplained
<1> QED
  BY <1>1, <1>2, <1>3, <1>4 DEF Safe

\* Nothing is known of a tab at rest or refused.
LEMMA IdleIsSafe ==
    ASSUME NEW i \in Tabs
    PROVE  KnownBy(Idle, i) /\ \A o : KnownBy([Idle EXCEPT !.op = o, !.at = "refused"], i)
BY DEF KnownBy, Idle

\* A step of tab i that leaves the rows alone, unless it ends a login.
LEMMA OneTabSafe ==
    ASSUME IInv, NEW i \in Tabs, NEW p, tab' = [tab EXCEPT ![i] = p],
           KnownBy(p, i), p.op = "login" \/ tab[i].op # "login",
           UNCHANGED <<row, cache, store>>, strayed => strayed'
    PROVE  Safe'
<1>1. \A s : Found(s)' = Found(s)
  BY DEF Found
<1>2. Unique' /\ EntriesAreFound'
  BY <1>1 DEF IInv, Safe, Unique, EntriesAreFound
<1>3. tab'[i] = p /\ \A j \in Tabs \ {i} : tab'[j] = tab[j]
  BY DEF IInv, Typed
<1>4. ASSUME NEW j \in Tabs  PROVE KnownBy(tab[j], j)'
  <2>1. KnownBy(tab'[j], j)
    BY <1>3 DEF IInv, Safe
  <2> QED
    BY <1>1, <2>1 DEF KnownBy
<1>5. MismatchIsExplained'
  BY <1>3 DEF IInv, Safe, MismatchIsExplained
<1> QED
  BY <1>2, <1>4, <1>5 DEF Safe

\* A step of tab i that writes its own row and no row that is found.
LEMMA RowSafe ==
    ASSUME IInv, NEW i \in Tabs, NEW p, tab' = [tab EXCEPT ![i] = p],
           NEW state, row' = [row EXCEPT ![Wanted[i]] = state],
           row[Wanted[i]] \in {"none", "inserted"}, Unique',
           p.at \in {"none", "commit", "created"}, p.op # "login", tab[i].op # "login",
           p.at \in {"commit", "created"} =>
               p.op = "signup" /\ p.tenant = Wanted[i] /\ p.slug = Slug[Wanted[i]],
           p.at = "commit" => state = "inserted",
           UNCHANGED <<cache, store, strayed>>
    PROVE  Safe'
<1>1. ASSUME NEW s, NEW t \in Found(s)  PROVE t \in Found(s)'
  BY <1>1 DEF Found, IInv, Typed
<1>2. EntriesAreFound'
  BY <1>1 DEF IInv, Safe, EntriesAreFound
<1>3. tab'[i] = p /\ \A j \in Tabs \ {i} : tab'[j] = tab[j]
  BY DEF IInv, Typed
<1>4. ASSUME NEW j \in Tabs  PROVE KnownBy(tab[j], j)'
  <2>1. CASE j = i
    <3>1. row'[Wanted[i]] = state
      BY SessionsAssumption DEF IInv, Typed
    <3> QED
      BY <1>3, <2>1, <3>1 DEF KnownBy
  <2>2. CASE j # i
    <3>1. row'[Wanted[j]] = row[Wanted[j]]
      BY <2>2, SessionsAssumption DEF IInv, Typed
    <3>2. KnownBy(tab'[j], j)
      BY <1>3, <2>2 DEF IInv, Safe
    <3> QED
      BY <1>1, <3>1, <3>2 DEF KnownBy
  <2> QED
    BY <2>1, <2>2
<1>5. MismatchIsExplained'
  BY <1>3 DEF IInv, Safe, MismatchIsExplained
<1> QED
  BY <1>2, <1>4, <1>5 DEF Safe

LEMMA SafeStep == IInv /\ [Next]_vars => Safe'
<1> SUFFICES ASSUME IInv, [Next]_vars PROVE Safe'
  OBVIOUS
<1>a. \A i \in Tabs : KnownBy(tab[i], i)
  BY DEF IInv, Safe
<1>1. ASSUME NEW i \in Tabs, SubmitSignup(i)  PROVE Safe'
  <2> DEFINE p == [Idle EXCEPT !.op = "signup", !.at = "select",
                               !.tenant = Wanted[i], !.slug = Slug[Wanted[i]]]
  <2>1. KnownBy(p, i)
    BY DEF KnownBy, Idle
  <2>2. tab' = [tab EXCEPT ![i] = p] /\ tab[i].op # "login"
    BY <1>1 DEF SubmitSignup, Idle
  <2>3. UNCHANGED <<row, cache, store, strayed>>
    BY <1>1 DEF SubmitSignup
  <2> HIDE DEF p
  <2> QED
    BY <2>1, <2>2, <2>3, OneTabSafe
<1>2. ASSUME NEW i \in Tabs, SelectSubdomain(i)  PROVE Safe'
  <2>1. PICK p \in {Idle, [tab[i] EXCEPT !.at = "insert"]} : tab' = [tab EXCEPT ![i] = p]
    BY <1>2 DEF SelectSubdomain, Goes
  <2>2. tab[i].at = "select" /\ tab[i].op = "signup" /\ tab[i] \in Tab
    BY <1>2, <1>a DEF SelectSubdomain, At, KnownBy, IInv, Typed
  <2>3. KnownBy(p, i)
    BY <1>a, <2>2, IdleIsSafe DEF KnownBy, Tab
  <2> QED
    BY <1>2, <2>1, <2>2, <2>3, OneTabSafe DEF SelectSubdomain
<1>3. ASSUME NEW i \in Tabs, InsertTenant(i)  PROVE Safe'
  <2>1. /\ tab[i].at = "insert" /\ tab[i].op = "signup" /\ tab[i] \in Tab
        /\ tab[i].tenant = Wanted[i] /\ tab[i].slug = Slug[Wanted[i]]
    BY <1>3, <1>a DEF InsertTenant, At, KnownBy, IInv, Typed
  <2>2. CASE Found(tab[i].slug) = {}
    <3> DEFINE p == [tab[i] EXCEPT !.at = "commit"]
    <3>1. tab' = [tab EXCEPT ![i] = p] /\ row' = [row EXCEPT ![Wanted[i]] = "inserted"]
      BY <1>3, <2>1, <2>2 DEF InsertTenant, Goes, Inserted
    <3>2. \A t \in Tenants : Slug[t] = Slug[Wanted[i]] => row[t] = "none"
      BY <1>3, <2>1, <2>2 DEF InsertTenant, Found, IInv, Typed
    <3>3. Wanted[i] \in Tenants /\ row[Wanted[i]] = "none"
      BY <3>2, SessionsAssumption
    <3>4. Unique'
      BY <3>1, <3>2, <3>3 DEF Unique, IInv, Safe, Typed
    <3>5. /\ p.at = "commit" /\ p.op = "signup"
          /\ p.tenant = Wanted[i] /\ p.slug = Slug[Wanted[i]]
      BY <2>1 DEF Tab
    <3>6. UNCHANGED <<cache, store, strayed>>
      BY <1>3 DEF InsertTenant
    <3> HIDE DEF p
    <3> QED
      BY <2>1, <3>1, <3>3, <3>4, <3>5, <3>6, RowSafe
  <2>3. CASE Found(tab[i].slug) # {}
    <3>1. tab' = [tab EXCEPT ![i] = Idle] /\ UNCHANGED <<row, cache, store, strayed>>
      BY <1>3, <2>3 DEF InsertTenant
    <3> QED
      BY <2>1, <3>1, IdleIsSafe, OneTabSafe
  <2> QED
    BY <2>2, <2>3
<1>4. ASSUME NEW i \in Tabs, CommitSignup(i)  PROVE Safe'
  <2>1. /\ tab[i].at = "commit" /\ tab[i].op = "signup" /\ tab[i] \in Tab
        /\ tab[i].tenant = Wanted[i] /\ tab[i].slug = Slug[Wanted[i]]
        /\ row[Wanted[i]] = "inserted"
    BY <1>4, <1>a DEF CommitSignup, At, KnownBy, IInv, Typed
  <2>2. PICK p, state :
          /\ tab' = [tab EXCEPT ![i] = p]
          /\ row' = [row EXCEPT ![Wanted[i]] = state]
          /\ \/ p = [tab[i] EXCEPT !.at = "created"]
             \/ p = Idle
    BY <1>4, <2>1 DEF CommitSignup, Goes
  <2>3. /\ p.at \in {"none", "created"} /\ p.op # "login"
        /\ p.at = "created" => p.op = "signup" /\ p.tenant = Wanted[i] /\ p.slug = Slug[Wanted[i]]
    BY <2>1, <2>2 DEF Tab, Idle
  <2>4. \A t \in Tenants : row'[t] # "none" => row[t] # "none"
    BY <2>1, <2>2 DEF IInv, Typed
  <2>5. Unique'
    BY <2>4 DEF Unique, IInv, Safe
  <2>6. UNCHANGED <<cache, store, strayed>>
    BY <1>4 DEF CommitSignup
  <2> QED
    BY <2>1, <2>2, <2>3, <2>5, <2>6, RowSafe
<1>5. ASSUME NEW i \in Tabs, NEW s \in Slugs, BeginLogin(i, s)  PROVE Safe'
  <2> DEFINE p == [Idle EXCEPT !.op = "login", !.at = "lookup", !.slug = s]
  <2>1. tab' = [tab EXCEPT ![i] = p] /\ UNCHANGED <<row, cache, strayed>>
    BY <1>5 DEF BeginLogin
  <2>2. KnownBy(p, i) /\ p.op = "login"
    BY DEF KnownBy, Idle
  <2> HIDE DEF p
  <2>3. tab'[i] = p /\ \A j \in Tabs \ {i} : tab'[j] = tab[j]
    BY <2>1 DEF IInv, Typed
  <2>4. \A t : Found(t)' = Found(t)
    BY <2>1 DEF Found
  <2>5. Unique' /\ EntriesAreFound'
    BY <2>1, <2>4 DEF Unique, EntriesAreFound, IInv, Safe
  <2>6. ASSUME NEW j \in Tabs  PROVE KnownBy(tab[j], j)'
    <3>1. KnownBy(tab'[j], j)
      BY <1>a, <2>2, <2>3
    <3> QED
      BY <2>1, <2>4, <3>1 DEF KnownBy
  <2>7. MismatchIsExplained'
    BY <2>2, <2>3 DEF MismatchIsExplained
  <2> QED
    BY <2>5, <2>6, <2>7 DEF Safe
<1>6. ASSUME NEW i \in Tabs, LoginAfterSignup(i)  PROVE Safe'
  <2>1. tab[i].slug \in Slugs
    BY <1>6 DEF LoginAfterSignup, At, IInv, Typed
  <2> QED
    BY <1>5, <1>6, <2>1 DEF LoginAfterSignup
<1>7. ASSUME NEW i \in Tabs, HearLogin(i)  PROVE Safe'
  <2>1. /\ tab' = [tab EXCEPT ![i] = Idle] /\ UNCHANGED <<row, cache>>
        /\ store' = [token |-> tab[i].token, slug |-> tab[i].slug]
    BY <1>7 DEF HearLogin, Session
  <2>2. tab'[i] = Idle /\ \A j \in Tabs \ {i} : tab'[j] = tab[j]
    BY <2>1 DEF IInv, Typed
  <2>3. \A t : Found(t)' = Found(t)
    BY <2>1 DEF Found
  <2>4. Unique' /\ EntriesAreFound'
    BY <2>1, <2>3 DEF Unique, EntriesAreFound, IInv, Safe
  <2>5. ASSUME NEW j \in Tabs  PROVE KnownBy(tab[j], j)'
    <3>1. KnownBy(tab'[j], j)
      BY <1>a, <2>2, IdleIsSafe
    <3> QED
      BY <2>1, <2>3, <3>1 DEF KnownBy
  <2>6. Slug[tab[i].token.tenant] = tab[i].slug
    BY <1>7, <1>a DEF HearLogin, At, KnownBy, Found
  <2>7. MismatchIsExplained'
    BY <2>1, <2>6 DEF MismatchIsExplained
  <2> QED
    BY <2>4, <2>5, <2>7 DEF Safe
<1>8. ASSUME NEW i \in Tabs, HearError(i)  PROVE Safe'
  <2>1. tab' = [tab EXCEPT ![i] = Idle] /\ UNCHANGED <<row, cache, store>>
    BY <1>8 DEF HearError
  <2>2. CASE tab[i].op # "login"
    BY <1>8, <2>1, <2>2, IdleIsSafe, OneTabSafe DEF HearError
  <2>3. CASE tab[i].op = "login"
    <3>1. strayed'
      BY <1>8, <2>3 DEF HearError
    <3>2. \A t : Found(t)' = Found(t)
      BY <2>1 DEF Found
    <3>3. Unique' /\ EntriesAreFound'
      BY <2>1, <3>2 DEF Unique, EntriesAreFound, IInv, Safe
    <3>4. ASSUME NEW j \in Tabs  PROVE KnownBy(tab[j], j)'
      <4>1. KnownBy(tab'[j], j)
        BY <1>a, <2>1, IdleIsSafe DEF IInv, Typed
      <4> QED
        BY <2>1, <3>2, <4>1 DEF KnownBy
    <3> QED
      BY <3>1, <3>3, <3>4 DEF Safe, MismatchIsExplained
  <2> QED
    BY <2>2, <2>3
<1>9. ASSUME NEW i \in Tabs, HearServed(i)  PROVE Safe'
  <2>1. tab[i].op = "call"
    BY <1>9, <1>a DEF HearServed, At, KnownBy
  <2> QED
    BY <1>9, <2>1, IdleIsSafe, OneTabSafe DEF HearServed
<1>10. ASSUME NEW i \in Tabs, Call(i)  PROVE Safe'
  <2> DEFINE p == [Idle EXCEPT !.op = "call", !.at = "lookup", !.slug = store.slug, !.token = store.token]
  <2>1. KnownBy(p, i)
    BY DEF KnownBy, Idle
  <2>2. tab' = [tab EXCEPT ![i] = p] /\ tab[i].op # "login"
    BY <1>10 DEF Call, Idle
  <2>3. UNCHANGED <<row, cache, store, strayed>>
    BY <1>10 DEF Call
  <2> HIDE DEF p
  <2> QED
    BY <2>1, <2>2, <2>3, OneTabSafe
<1>11. CASE Logout
  <2>1. UNCHANGED <<row, cache, tab, strayed>> /\ store'.token = None
    BY <1>11 DEF Logout, SignedOut
  <2>2. \A t : Found(t)' = Found(t)
    BY <2>1 DEF Found
  <2> QED
    BY <2>1, <2>2 DEF IInv, Safe, Unique, EntriesAreFound, KnownBy, MismatchIsExplained
<1>b. ASSUME NEW i \in Tabs, NEW e \in Entry, tab[i] \in Tab, e.tenant \in Found(tab[i].slug)
      PROVE  KnownBy(Resolved(i, e), i) /\ Resolved(i, e).op = tab[i].op
  BY <1>b DEF KnownBy, Resolved, Tab
<1>12. ASSUME NEW i \in Tabs, Lookup(i)  PROVE Safe'
  <2>1. tab[i].at = "lookup" /\ tab[i] \in Tab /\ tab[i].slug \in Slugs
    BY <1>12 DEF Lookup, At, IInv, Typed
  <2>2. CASE cache[tab[i].slug] # None
    <3>1. tab' = [tab EXCEPT ![i] = Resolved(i, cache[tab[i].slug])]
      BY <1>12, <2>2 DEF Lookup
    <3>2. /\ cache[tab[i].slug] \in Entry
          /\ cache[tab[i].slug].tenant \in Found(tab[i].slug)
      BY <2>1, <2>2 DEF IInv, Safe, Typed, EntriesAreFound
    <3>3. KnownBy(Resolved(i, cache[tab[i].slug]), i) /\ Resolved(i, cache[tab[i].slug]).op = tab[i].op
      BY <1>b, <2>1, <3>2
    <3> QED
      BY <1>12, <3>1, <3>3, OneTabSafe DEF Lookup
  <2>3. CASE cache[tab[i].slug] = None
    <3> DEFINE p == [tab[i] EXCEPT !.at = "load"]
    <3>1. tab' = [tab EXCEPT ![i] = p]
      BY <1>12, <2>3 DEF Lookup, Goes
    <3>2. KnownBy(p, i) /\ p.op = tab[i].op
      BY <2>1 DEF KnownBy, Tab
    <3>3. UNCHANGED <<row, cache, store, strayed>>
      BY <1>12 DEF Lookup
    <3> HIDE DEF p
    <3> QED
      BY <3>1, <3>2, <3>3, OneTabSafe
  <2> QED
    BY <2>2, <2>3
<1>c. ASSUME NEW i \in Tabs, Refused(i), UNCHANGED <<row, cache, store, strayed>>  PROVE Safe'
  <2> DEFINE p == [Idle EXCEPT !.op = tab[i].op, !.at = "refused"]
  <2>1. KnownBy(p, i) /\ p.op = tab[i].op
    BY IdleIsSafe DEF Idle
  <2>2. tab' = [tab EXCEPT ![i] = p]
    BY <1>c DEF Refused
  <2> HIDE DEF p
  <2> QED
    BY <1>c, <2>1, <2>2, OneTabSafe
<1>13. ASSUME NEW i \in Tabs, Load(i)  PROVE Safe'
  <2>1. CASE Refused(i)
    BY <1>13, <1>c, <2>1 DEF Load
  <2>2. CASE ~Refused(i)
    <3>1. PICK t \in Found(tab[i].slug) :
            tab' = [tab EXCEPT ![i].at = "store", ![i].got = [tenant |-> t, is_active |-> Flag(t), ttl |-> TTL]]
      BY <1>13, <2>2 DEF Load
    <3> DEFINE e == [tenant |-> t, is_active |-> Flag(t), ttl |-> TTL]
               p == [tab[i] EXCEPT !.at = "store", !.got = e]
    <3>2. tab' = [tab EXCEPT ![i] = p]
      BY <3>1 DEF IInv, Typed
    <3>3. e.tenant = t
      OBVIOUS
    <3> HIDE DEF e
    <3>4. tab[i] \in Tab
      BY DEF IInv, Typed
    <3>5. KnownBy(p, i) /\ p.op = tab[i].op
      BY <3>3, <3>4 DEF KnownBy, Tab
    <3>6. UNCHANGED <<row, cache, store, strayed>>
      BY <1>13 DEF Load
    <3> HIDE DEF p
    <3> QED
      BY <3>2, <3>5, <3>6, OneTabSafe
  <2> QED
    BY <2>1, <2>2
<1>14. ASSUME NEW i \in Tabs, Store(i)  PROVE Safe'
  <2>1. /\ tab[i].at = "store" /\ tab[i] \in Tab /\ tab[i].slug \in Slugs /\ tab[i].got \in Entry
        /\ tab[i].got.tenant \in Found(tab[i].slug)
    BY <1>14, <1>a DEF Store, At, KnownBy, IInv, Typed
  <2> DEFINE p == Resolved(i, tab[i].got)
  <2>2. KnownBy(p, i) /\ p.op = tab[i].op
    BY <1>b, <2>1
  <2>3. /\ tab' = [tab EXCEPT ![i] = p] /\ UNCHANGED <<row, store, strayed>>
        /\ cache' = [cache EXCEPT ![tab[i].slug] = tab[i].got]
    BY <1>14 DEF Store
  <2> HIDE DEF p
  <2>4. tab'[i] = p /\ \A j \in Tabs \ {i} : tab'[j] = tab[j]
    BY <2>3 DEF IInv, Typed
  <2>5. \A t : Found(t)' = Found(t)
    BY <2>3 DEF Found
  <2>6. Unique' /\ EntriesAreFound'
    BY <2>1, <2>3, <2>5 DEF Unique, EntriesAreFound, IInv, Safe, Typed
  <2>7. ASSUME NEW j \in Tabs  PROVE KnownBy(tab[j], j)'
    <3>1. KnownBy(tab'[j], j)
      BY <1>a, <2>2, <2>4
    <3> QED
      BY <2>3, <2>5, <3>1 DEF KnownBy
  <2>8. MismatchIsExplained'
    BY <2>2, <2>3, <2>4 DEF MismatchIsExplained, IInv, Safe
  <2> QED
    BY <2>6, <2>7, <2>8 DEF Safe
<1>15. ASSUME NEW i \in Tabs, CheckToken(i)  PROVE Safe'
  <2>1. tab[i].at = "admitted" /\ tab[i].op = "call" /\ tab[i] \in Tab
    BY <1>15 DEF CheckToken, At, IInv, Typed
  <2>2. CASE Refused(i)
    BY <1>15, <1>c, <2>2 DEF CheckToken
  <2>3. CASE ~Refused(i)
    <3> DEFINE p == [tab[i] EXCEPT !.at = "served"]
    <3>1. tab' = [tab EXCEPT ![i] = p] /\ tab[i].token.tenant = tab[i].tenant
      BY <1>15, <2>3 DEF CheckToken, Goes
    <3>2. KnownBy(p, i)
      BY <1>a, <2>1, <3>1 DEF KnownBy, Tab
    <3> HIDE DEF p
    <3> QED
      BY <1>15, <2>1, <3>1, <3>2, OneTabSafe DEF CheckToken
  <2> QED
    BY <2>2, <2>3
<1>16. ASSUME NEW i \in Tabs, Authenticate(i)  PROVE Safe'
  <2>1. tab[i].at = "admitted" /\ tab[i].op = "login" /\ tab[i] \in Tab
    BY <1>16 DEF Authenticate, At, IInv, Typed
  <2>2. CASE Refused(i)
    BY <1>16, <1>c, <2>2 DEF Authenticate
  <2>3. CASE ~Refused(i)
    <3> DEFINE token == [tenant |-> tab[i].tenant, life |-> Life]
               p == [tab[i] EXCEPT !.at = "accepted", !.token = token]
    <3>1. tab' = [tab EXCEPT ![i] = p]
      BY <1>16, <2>3 DEF Authenticate, IInv, Typed
    <3>2. token.tenant = tab[i].tenant
      OBVIOUS
    <3> HIDE DEF token
    <3>3. KnownBy(p, i) /\ p.op = "login"
      BY <1>a, <2>1, <3>2 DEF KnownBy, Tab
    <3>4. UNCHANGED <<row, cache, store, strayed>>
      BY <1>16 DEF Authenticate
    <3> HIDE DEF p
    <3> QED
      BY <3>1, <3>3, <3>4, OneTabSafe
  <2> QED
    BY <2>2, <2>3
<1>17. ASSUME NEW s \in Slugs, Resolve(s)  PROVE Safe'
  <2>1. PICK t \in Found(s) :
          cache' = [cache EXCEPT ![s] = [tenant |-> t, is_active |-> "undefined", ttl |-> TTL]]
    BY <1>17 DEF Resolve
  <2>2. UNCHANGED <<row, store, tab, strayed>>
    BY <1>17 DEF Resolve
  <2>3. \A u : Found(u)' = Found(u)
    BY <2>2 DEF Found
  <2>4. EntriesAreFound'
    BY <2>1, <2>3 DEF EntriesAreFound, IInv, Safe, Typed
  <2> QED
    BY <2>2, <2>3, <2>4 DEF IInv, Safe, Unique, KnownBy, MismatchIsExplained
<1>18. ASSUME NEW t \in Managed, PatchTenant(t)  PROVE Safe'
  <2>1. UNCHANGED <<cache, store, tab, strayed>>
    BY <1>18 DEF PatchTenant
  <2>2. /\ row[t] \in {"active", "inactive"} /\ row'[t] \in {"active", "inactive"}
        /\ \A u \in Tenants \ {t} : row'[u] = row[u]
    BY <1>18, SessionsAssumption DEF PatchTenant, IInv, Typed
  <2>3. \A s : Found(s)' = Found(s)
    BY <2>2 DEF Found
  <2>4. \A i \in Tabs : row[Wanted[i]] = "inserted" => row'[Wanted[i]] = "inserted"
    BY <2>2, SessionsAssumption
  <2>5. Unique'
    BY <2>2 DEF Unique, IInv, Safe
  <2> QED
    BY <2>1, <2>3, <2>4, <2>5 DEF IInv, Safe, EntriesAreFound, KnownBy, MismatchIsExplained
<1>19. CASE Tick
  <2>1. UNCHANGED <<row, strayed>>
    BY <1>19 DEF Tick
  <2>2. \A s : Found(s)' = Found(s)
    BY <2>1 DEF Found
  <2>3. ASSUME NEW s \in Slugs, cache'[s] # None
        PROVE  cache[s] # None /\ cache'[s].tenant = cache[s].tenant
    <3>1. cache'[s] = Aged(cache[s]) /\ cache[s] \in Entry \cup {None}
      BY <1>19 DEF Tick, IInv, Typed
    <3> QED
      BY <2>3, <3>1 DEF Aged, Entry
  <2>4. Unique' /\ EntriesAreFound'
    BY <2>1, <2>2, <2>3 DEF Unique, EntriesAreFound, IInv, Safe
  <2>5. ASSUME NEW token \in Token \cup {None}
        PROVE  Older(token).tenant = token.tenant /\ (token = None => Older(token) = None)
    BY DEF Older, Token
  <2>6. ASSUME NEW j \in Tabs
        PROVE  /\ tab'[j].op = tab[j].op
               /\ KnownBy(tab[j], j)'
    <3>1. tab'[j] = [tab[j] EXCEPT !.token = Older(@)] /\ tab[j] \in Tab
      BY <1>19 DEF Tick, IInv, Typed
    <3>2. /\ tab'[j].op = tab[j].op /\ tab'[j].at = tab[j].at /\ tab'[j].slug = tab[j].slug
          /\ tab'[j].tenant = tab[j].tenant /\ tab'[j].got = tab[j].got
          /\ tab'[j].token = Older(tab[j].token)
      BY <3>1 DEF Tab
    <3>3. tab'[j].token.tenant = tab[j].token.tenant
      BY <2>5, <3>1, <3>2 DEF Tab
    <3> QED
      BY <1>a, <2>1, <2>2, <3>2, <3>3 DEF KnownBy
  <2>7. /\ store'.slug = store.slug /\ store'.token = Older(store.token)
        /\ store.token \in Token \cup {None}
    BY <1>19 DEF Tick, IInv, Typed
  <2>8. MismatchIsExplained'
    BY <2>1, <2>5, <2>6, <2>7 DEF MismatchIsExplained, IInv, Safe
  <2> QED
    BY <2>4, <2>6, <2>8 DEF Safe
<1>20. ASSUME UNCHANGED <<row, cache, store, tab, strayed>>  PROVE Safe'
  <2>1. \A s : Found(s)' = Found(s)
    BY <1>20 DEF Found
  <2> QED
    BY <1>20, <2>1 DEF IInv, Safe, Unique, EntriesAreFound, KnownBy, MismatchIsExplained
<1>21. CASE UNCHANGED vars \/ \E t \in Managed : PatchUser(t)
  BY <1>20, <1>21 DEF vars, PatchUser
<1> QED
  BY <1>1, <1>2, <1>3, <1>4, <1>5, <1>6, <1>7, <1>8, <1>9, <1>10, <1>11, <1>12, <1>13, <1>14,
     <1>15, <1>16, <1>17, <1>18, <1>19, <1>21, SessionsAssumption DEF Next, Answer, SubmitLogin

LEMMA IInvHolds == Spec => []IInv
BY TypedInitially, TypedStep, SafeInitially, SafeStep, PTL DEF Spec, IInv

-----------------------------------------------------------------------------
\* The types are right for any tenants, tabs and lifetimes.
THEOREM TypeCorrect == Spec => []TypeOK
<1>1. Typed => TypeOK
  BY DEF Typed, TypeOK, Tab, Places, At
<1> QED
  BY <1>1, IInvHolds, PTL DEF IInv

\* One subdomain is one tenant's, however many signups race for it, and the
\* gateway's entry of a subdomain is its tenant's, whoever wrote it.
THEOREM OneEach == Spec => []OneTenantPerSubdomain
<1>1. IInv => OneTenantPerSubdomain
  <2> SUFFICES ASSUME IInv, NEW s \in Slugs
               PROVE  /\ Cardinality(Found(s)) <= 1
                      /\ cache[s] # None => cache[s].tenant \in Found(s)
    BY DEF OneTenantPerSubdomain
  <2>1. Found(s) = {} \/ \E t : Found(s) = {t}
    BY DEF Found, IInv, Safe, Unique
  <2>2. Cardinality(Found(s)) \in {0, 1}
    BY <2>1, FS_EmptySet, FS_Singleton
  <2> QED
    BY <2>2 DEF IInv, Safe, EntriesAreFound
<1> QED
  BY <1>1, IInvHolds, PTL

\* Nobody is served as another tenant than the one of the token and of the
\* subdomain, with any number of tabs over one storage.
THEOREM NobodyElse == Spec => []ServedAsItself
<1>1. IInv => ServedAsItself
  BY DEF IInv, Safe, KnownBy, ServedAsItself, At
<1> QED
  BY <1>1, IInvHolds, PTL

\* A browser's token and subdomain belong together, unless a login is on its
\* way or failed.
THEOREM SessionsMatch == Spec => []MismatchIsExplained
BY IInvHolds, PTL DEF IInv, Safe

=============================================================================
