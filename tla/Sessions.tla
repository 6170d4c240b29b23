------------------------------- MODULE Sessions -------------------------------
(***************************************************************************)
(* Who is let in: signup and login, the token and the subdomain a browser  *)
(* keeps for all of its tabs, the gateway that resolves a request's tenant *)
(* and compares it with its token, and the super-admin who suspends        *)
(* tenants and users meanwhile.                                            *)
(*                                                                         *)
(* A tenant's row is found by its subdomain, whose copy in Redis the       *)
(* gateway believes until it expires: nothing ever deletes that key.  A    *)
(* token is believed until it expires too.  Time is only what is left of   *)
(* both, so that a behaviour goes on forever.                              *)
(***************************************************************************)
EXTENDS Integers, FiniteSets

CONSTANTS Tenants,     \* tenants, those of signups to come included
          Slug,        \* tenants.subdomain
          First,       \* the tenants there at first
          Managed,     \* bound: those the super-admin suspends or lets in
          Tabs,        \* tabs of one browser
          Wanted,      \* bound: the tenant a tab may sign up, told apart from others by the row it gets
          Callers,     \* bound: those that do more than sign up
          TTL, Life,   \* ticks a cache entry and an access token are good for
          None

ASSUME SessionsAssumption ==
    /\ DOMAIN Slug = Tenants /\ First \subseteq Tenants /\ Managed \subseteq Tenants
    /\ \A t, u \in First : Slug[t] = Slug[u] => t = u
    /\ Wanted \in [Tabs -> Tenants \ First] /\ Callers \subseteq Tabs
    /\ \A i, j \in Tabs : Wanted[i] = Wanted[j] => i = j
    /\ TTL \in Nat \ {0} /\ Life \in Nat \ {0}

VARIABLES row,         \* tenants: none, inserted by a signup, active or inactive
          user,        \* users.is_active of the tenant's business_admin
          cache,       \* hs:g:tenant:sub:<subdomain>
          store,       \* localStorage: hs_token and hs_tenant_slug
          tab,         \* what each tab is waiting for
          strayed      \* history: a login that failed since one succeeded

vars == <<row, user, cache, store, tab, strayed>>

Slugs == {Slug[t] : t \in Tenants}
Flags == {"true", "false", "undefined"}
Entry == [tenant : Tenants, is_active : Flags, ttl : 1..TTL]
Token == [tenant : Tenants, life : 0..Life]
Waiting == {"select", "insert", "commit", "created", "lookup", "load", "store", "admitted", "accepted", "served"}
Refusals == {"refused", "inactive"}

Found(s) == {t \in Tenants : Slug[t] = s /\ row[t] \in {"active", "inactive"}}

Idle == [op |-> "none", at |-> "none", slug |-> None, tenant |-> None, token |-> None, got |-> None]
SignedOut == [token |-> None, slug |-> None]

Init ==
    /\ row = [t \in Tenants |-> IF t \in First THEN "active" ELSE "none"]
    /\ user = [t \in Tenants |-> TRUE]
    /\ cache = [s \in Slugs |-> None]
    /\ store = SignedOut
    /\ tab = [i \in Tabs |-> Idle]
    /\ strayed = FALSE

At(i, place) == tab[i].at = place
Goes(i, place) == tab' = [tab EXCEPT ![i].at = place]
Refused(i) == tab' = [tab EXCEPT ![i] = [Idle EXCEPT !.op = tab[i].op, !.at = "refused"]]

-----------------------------------------------------------------------------
(* Signup.  Whether another tenant has the subdomain is asked, and then    *)
(* enforced by a unique index, in one transaction.                         *)

SubmitSignup(i) ==
    /\ tab[i] = Idle /\ row[Wanted[i]] = "none"
    /\ tab' = [tab EXCEPT ![i] = [Idle EXCEPT !.op = "signup", !.at = "select",
                                              !.tenant = Wanted[i], !.slug = Slug[Wanted[i]]]]
    /\ UNCHANGED <<row, user, cache, store, strayed>>

SelectSubdomain(i) ==
    /\ At(i, "select")
    /\ IF Found(tab[i].slug) = {} THEN Goes(i, "insert") ELSE tab' = [tab EXCEPT ![i] = Idle]
    /\ UNCHANGED <<row, user, cache, store, strayed>>

Inserted(t) == row' = [row EXCEPT ![t] = "inserted"]

\* Mutant: tenants.subdomain is not unique.
InsertAnyway(i) ==
    /\ At(i, "insert")
    /\ Inserted(tab[i].tenant) /\ Goes(i, "commit")
    /\ UNCHANGED <<user, cache, store, strayed>>

\* The INSERT waits for a transaction that has inserted the same subdomain,
\* and throws if that one commits.
InsertTenant(i) ==
    /\ At(i, "insert")
    /\ \A t \in Tenants : Slug[t] = tab[i].slug => row[t] # "inserted"
    /\ IF Found(tab[i].slug) = {}
       THEN Inserted(tab[i].tenant) /\ Goes(i, "commit")
       ELSE tab' = [tab EXCEPT ![i] = Idle] /\ UNCHANGED row
    /\ UNCHANGED <<user, cache, store, strayed>>

\* The user is inserted and the transaction ends, well or not.
CommitSignup(i) ==
    /\ At(i, "commit")
    /\ \/ /\ row' = [row EXCEPT ![tab[i].tenant] = "active"]
          /\ Goes(i, "created")
       \/ /\ row' = [row EXCEPT ![tab[i].tenant] = "none"]
          /\ tab' = [tab EXCEPT ![i] = Idle]
    /\ UNCHANGED <<user, cache, store, strayed>>

-----------------------------------------------------------------------------
(* The pages, over one localStorage. *)

\* setSession({ tenantSlug }) and api.login, in one turn of the tab.
BeginLogin(i, s) ==
    /\ store' = [store EXCEPT !.slug = s]
    /\ tab' = [tab EXCEPT ![i] = [Idle EXCEPT !.op = "login", !.at = "lookup", !.slug = s]]
    /\ UNCHANGED <<row, user, cache, strayed>>

SubmitLogin(i, s) == tab[i] = Idle /\ BeginLogin(i, s)
LoginAfterSignup(i) == At(i, "created") /\ BeginLogin(i, tab[i].slug)

\* Mutant: setSession is given the token alone.
SessionOfToken(token, s) == [store EXCEPT !.token = token]
Session(token, s) == [token |-> token, slug |-> s]

HearLogin(i) ==
    /\ At(i, "accepted")
    /\ store' = Session(tab[i].token, tab[i].slug)
    /\ strayed' = FALSE
    /\ tab' = [tab EXCEPT ![i] = Idle]
    /\ UNCHANGED <<row, user, cache>>

\* An error, or no answer at all: the page shows it and is done.
HearError(i) ==
    /\ tab[i].at \in Refusals \cup {"accepted"}
    /\ strayed' = (strayed \/ tab[i].op = "login")
    /\ tab' = [tab EXCEPT ![i] = Idle]
    /\ UNCHANGED <<row, user, cache, store>>

\* A page that needs a session asks for something.
Call(i) ==
    /\ tab[i] = Idle /\ store.token # None
    /\ tab' = [tab EXCEPT ![i] = [Idle EXCEPT !.op = "call", !.at = "lookup",
                                              !.slug = store.slug, !.token = store.token]]
    /\ UNCHANGED <<row, user, cache, store, strayed>>

HearServed(i) ==
    /\ At(i, "served")
    /\ tab' = [tab EXCEPT ![i] = Idle]
    /\ UNCHANGED <<row, user, cache, store, strayed>>

\* The dashboard's "Sign out".
Logout ==
    /\ store # SignedOut /\ store' = SignedOut
    /\ UNCHANGED <<row, user, cache, tab, strayed>>

-----------------------------------------------------------------------------
(* The gateway: the tenant of the subdomain, then the token. *)

\* 403 unless the flag is truthy.
Resolved(i, e) ==
    [tab[i] EXCEPT !.at = IF e.is_active = "true" THEN "admitted" ELSE "inactive",
                   !.tenant = e.tenant, !.got = None]

Lookup(i) ==
    /\ At(i, "lookup")
    /\ LET e == cache[tab[i].slug] IN
       IF e # None THEN tab' = [tab EXCEPT ![i] = Resolved(i, e)] ELSE Goes(i, "load")
    /\ UNCHANGED <<row, user, cache, store, strayed>>

\* Mutant: the SELECT leaves is_active out.
FlagUnset(t) == "undefined"
Flag(t) == IF row[t] = "active" THEN "true" ELSE "false"

\* No row is a 404, and is not cached.
Load(i) ==
    /\ At(i, "load")
    /\ \/ Found(tab[i].slug) = {} /\ Refused(i)
       \/ \E t \in Found(tab[i].slug) :
             tab' = [tab EXCEPT ![i].at = "store", ![i].got = [tenant |-> t, is_active |-> Flag(t), ttl |-> TTL]]
    /\ UNCHANGED <<row, user, cache, store, strayed>>

Store(i) ==
    /\ At(i, "store")
    /\ cache' = [cache EXCEPT ![tab[i].slug] = tab[i].got]
    /\ tab' = [tab EXCEPT ![i] = Resolved(i, tab[i].got)]
    /\ UNCHANGED <<row, user, store, strayed>>

\* Mutant: the token's tenant is not compared.
CheckSignature(i) ==
    /\ At(i, "admitted") /\ tab[i].op = "call"
    /\ IF tab[i].token.life = 0 THEN Refused(i) ELSE Goes(i, "served")
    /\ UNCHANGED <<row, user, cache, store, strayed>>

\* The preHandler of the gateway, and that of the service behind it again.
CheckToken(i) ==
    /\ At(i, "admitted") /\ tab[i].op = "call"
    /\ IF tab[i].token.life = 0 \/ tab[i].token.tenant # tab[i].tenant THEN Refused(i) ELSE Goes(i, "served")
    /\ UNCHANGED <<row, user, cache, store, strayed>>

ActiveUser(t) == user[t]

\* POST /auth/login, with the right password or a wrong one.
Authenticate(i) ==
    /\ At(i, "admitted") /\ tab[i].op = "login"
    /\ \/ Refused(i)
       \/ /\ ActiveUser(tab[i].tenant)
          /\ tab' = [tab EXCEPT ![i].at = "accepted", ![i].token = [tenant |-> tab[i].tenant, life |-> Life]]
    /\ UNCHANGED <<row, user, cache, store, strayed>>

-----------------------------------------------------------------------------
(* GET /tenants/resolve called at the service itself, by host: the same    *)
(* key, active rows only, and without their is_active.  Whether the key    *)
(* was there, and how long ago it looked, is left open: what it writes is  *)
(* refused whatever happened since.                                        *)

Resolve(s) ==
    /\ \E t \in Found(s) : /\ row[t] = "active"
                           /\ cache' = [cache EXCEPT ![s] = [tenant |-> t, is_active |-> "undefined", ttl |-> TTL]]
    /\ UNCHANGED <<row, user, store, tab, strayed>>

-----------------------------------------------------------------------------
(* The super-admin, and time. *)

\* PATCH /admin/tenants/:id, is_active: the cache is left as it is.
PatchTenant(t) ==
    /\ row[t] \in {"active", "inactive"}
    /\ row' = [row EXCEPT ![t] = IF @ = "active" THEN "inactive" ELSE "active"]
    /\ UNCHANGED <<user, cache, store, tab, strayed>>

\* PATCH /admin/tenants/:id/users/:userId, is_active
PatchUser(t) ==
    /\ row[t] \in {"active", "inactive"}
    /\ user' = [user EXCEPT ![t] = ~@]
    /\ UNCHANGED <<row, cache, store, tab, strayed>>

\* Mutant: entries that do not expire.
AgedNever(e) == e

Aged(e) == IF e = None \/ e.ttl = 1 THEN None ELSE [e EXCEPT !.ttl = @ - 1]

Older(token) == IF token = None \/ token.life = 0 THEN token ELSE [token EXCEPT !.life = @ - 1]

Tick ==
    /\ cache' = [s \in Slugs |-> Aged(cache[s])]
    /\ store' = [store EXCEPT !.token = Older(@)]
    /\ tab' = [i \in Tabs |-> [tab[i] EXCEPT !.token = Older(@)]]
    /\ UNCHANGED <<row, user, strayed>>

-----------------------------------------------------------------------------
Answer(i) ==
    \/ SelectSubdomain(i) \/ InsertTenant(i) \/ CommitSignup(i)
    \/ LoginAfterSignup(i) \/ HearLogin(i) \/ HearError(i) \/ HearServed(i)
    \/ Lookup(i) \/ Load(i) \/ Store(i) \/ CheckToken(i) \/ Authenticate(i)

Next ==
    \/ \E i \in Tabs : SubmitSignup(i) \/ Answer(i)
    \/ \E i \in Callers : Call(i) \/ \E s \in Slugs : SubmitLogin(i, s)
    \/ Logout
    \/ \E s \in Slugs : Resolve(s)
    \/ \E t \in Managed : PatchTenant(t) \/ PatchUser(t)
    \/ Tick

Spec == Init /\ [][Next]_vars

\* Requests are answered and time passes; nobody has to ask for anything.
FairSpec == Spec /\ WF_vars(Tick) /\ \A i \in Tabs : WF_vars(Answer(i))

-----------------------------------------------------------------------------
(* Properties. *)

\* Types of the variables.
TypeOK ==
    /\ row \in [Tenants -> {"none", "inserted", "active", "inactive"}]
    /\ user \in [Tenants -> BOOLEAN]
    /\ cache \in [Slugs -> Entry \cup {None}]
    /\ store.token \in Token \cup {None} /\ store.slug \in Slugs \cup {None}
    /\ \A i \in Tabs :
          /\ tab[i].op \in {"none", "signup", "login", "call"}
          /\ tab[i].at \in {"none"} \cup Waiting \cup Refusals
          /\ tab[i].token \in Token \cup {None}
          /\ tab[i].tenant \in Tenants \cup {None}
          /\ tab[i].at = "store" => tab[i].got \in Entry
    /\ strayed \in BOOLEAN

\* Two signups of one subdomain do not both get it, whichever of them read,
\* wrote and committed first; and an entry of the cache, whoever wrote it,
\* is the tenant of its key.
OneTenantPerSubdomain ==
    /\ \A s \in Slugs : Cardinality(Found(s)) <= 1
    /\ \A s \in Slugs : cache[s] # None => cache[s].tenant \in Found(s)

\* A request is served for the tenant its token was issued for, which is the
\* tenant of the subdomain it names, although token and subdomain are stored
\* by several tabs and the tenant was looked up before the token was.
ServedAsItself ==
    \A i \in Tabs : At(i, "served") =>
        /\ tab[i].token.tenant = tab[i].tenant
        /\ tab[i].tenant \in Found(tab[i].slug)

\* The token and the subdomain a browser keeps are of one tenant, unless a
\* login is on its way or the last one failed: a page stores the subdomain
\* before it asks (login/page.js, signup/page.js), so a login that fails
\* leaves the session that was there refused.
MismatchIsExplained ==
    store.token # None /\ Slug[store.token.tenant] # store.slug =>
        strayed \/ \E i \in Tabs : tab[i].op = "login"

\* Once a tenant is suspended for good, or its user deactivated, there comes a
\* time when none of its requests is served: the gateway's entry outlives the
\* PATCH, requests that are being resolved write it again, and tokens are not
\* looked up, but none of this goes on forever.
RevocationTakesEffect ==
    \A t \in Managed :
        <>[](row[t] = "inactive") \/ <>[](row[t] # "none" /\ ~user[t]) =>
            <>[](\A i \in Tabs : ~(At(i, "served") /\ tab[i].tenant = t))

\* Once a tenant is active for good and nobody calls /tenants/resolve at the
\* service itself (which writes entries that have no is_active), there comes
\* a time when its requests are not refused as those of an inactive tenant.
ActiveTenantIsLetIn ==
    \A t \in Managed : <>[](row[t] = "active") /\ <>[][~Resolve(Slug[t])]_vars =>
        <>[](\A i \in Tabs : ~(At(i, "inactive") /\ tab[i].slug = Slug[t]))
=============================================================================
