----------------------------- MODULE TenantCache -----------------------------
(***************************************************************************)
(* One tenant's entries in the shared Redis cache: cache.remember fills    *)
(* them, the handlers that change the tenant's data clear some of them     *)
(* after their transaction, and the rest live until their TTL.             *)
(*                                                                         *)
(* Redis and PostgreSQL share no transaction: a fill is a GET, a query and *)
(* a SETEX, an update is a COMMIT and one DEL per key, and the steps of    *)
(* different requests interleave.  The data is abstracted to a version     *)
(* number per fact, an entry to the versions it was computed from.         *)
(***************************************************************************)
EXTENDS Naturals

CONSTANTS Keys,        \* the entries a run looks at
          Readers,     \* requests that read through the cache
          Writers,     \* requests that update
          Kinds,       \* bound: the updates each of them makes
          HasReplica,  \* whether DATABASE_READ_URL is set
          MaxVersion,  \* bound: the updates of one fact
          NoEntry,     \* a key that is not in Redis
          NoKey        \* a reader at rest

Facts == {"theme", "profile", "onboarding", "active", "categories", "services"}

\* What each entry's loader selects.  theme: GET /themes.  config: GET
\* /tenants/me.  public: GET /tenants/resolve.  portal: the public routes.
\* gateway: the tenant of the host, in api-gateway.
Reads ==
    [theme      |-> {"theme"},
     config     |-> {"theme", "profile", "onboarding", "active"},
     public     |-> {"theme", "profile", "active"},
     portal     |-> {"theme", "profile", "active"},
     gateway    |-> {"active"},
     categories |-> {"categories"},
     services   |-> {"services"}]

\* The keys under the tenant's prefix, that invalidateTenant scans.
TenantKeys == {"theme", "config", "public", "categories", "services"}

\* The loaders that run with { readOnly: true }.
FromReplica == {"categories", "services"}

\* The fact each update writes.  theme: PUT /themes and the logo upload.  step
\* and business: the onboarding wizard.  admin: PATCH /admin/tenants/:id.
Writes ==
    [theme |-> "theme", step |-> "onboarding", business |-> "profile",
     category |-> "categories", service |-> "services", admin |-> "active"]

\* Mutant: the theme handlers forget the entry of GET /tenants/me.
ClearsThemeOnly ==
    [theme |-> {"theme"}, step |-> {"config"}, business |-> {"config"},
     category |-> {"categories"}, service |-> TenantKeys, admin |-> {}]

\* The entries each update clears afterwards.
Clears ==
    [theme |-> {"theme", "config"}, step |-> {"config"}, business |-> {"config"},
     category |-> {"categories"}, service |-> TenantKeys, admin |-> {}]

AllKeys == DOMAIN Reads
AllKinds == DOMAIN Writes

ASSUME CacheAssumption ==
    /\ Keys \subseteq AllKeys
    /\ Kinds \in [Writers -> SUBSET AllKinds]
    /\ HasReplica \in BOOLEAN
    /\ MaxVersion \in Nat
    /\ NoKey \notin Keys
    /\ \A k \in Keys : NoEntry \notin [Reads[k] -> Nat]

VARIABLES db,       \* the committed version of each fact
          replica,  \* the version the read replica has replayed
          cache,    \* the entry of each key: the versions it was made from
          late,     \* history: the facts a write of which each entry missed
          rkey,     \* the key each reader fills
          got,      \* what its loader returned
          lag,      \* history: the facts its loader missed the last write of
          kind,     \* the update each writer makes
          wrote,    \* the version it committed
          todo,     \* the keys it has yet to clear
          since,    \* the keys filled since its SCAN began
          failed,   \* whether a command of it failed
          acked     \* history: the versions reported to callers as stored

readerVars == <<rkey, got, lag>>
writerVars == <<kind, wrote, todo, since, failed, acked>>
vars == <<db, replica, cache, late, readerVars, writerVars>>

\* A snapshot of the facts an entry is made from.
Snapshot(k, v) == [f \in Reads[k] |-> v[f]]

Init ==
    /\ db = [f \in Facts |-> 0]
    /\ replica = [f \in Facts |-> 0]
    /\ cache = [k \in Keys |-> NoEntry]
    /\ late = [k \in Keys |-> {}]
    /\ rkey = [r \in Readers |-> NoKey]
    /\ got = [r \in Readers |-> NoEntry]
    /\ lag = [r \in Readers |-> {}]
    /\ kind = [w \in Writers |-> "none"]
    /\ wrote = [w \in Writers |-> 0]
    /\ todo = [w \in Writers |-> {}]
    /\ since = [w \in Writers |-> {}]
    /\ failed = [w \in Writers |-> FALSE]
    /\ acked = [f \in Facts |-> 0]

-----------------------------------------------------------------------------
(***************************************************************************)
(* cache.remember                                                          *)
(***************************************************************************)

\* GET k: an entry is the answer, without one the loader has to run.
Lookup(r, k) ==
    /\ rkey[r] = NoKey
    /\ rkey' = [rkey EXCEPT ![r] = IF cache[k] = NoEntry THEN k ELSE NoKey]
    /\ UNCHANGED <<db, replica, cache, late, got, lag, writerVars>>

\* The database a loader reads.
Source(k) == IF HasReplica /\ k \in FromReplica THEN replica ELSE db

\* const fresh = await loader()
Load(r) ==
    /\ rkey[r] # NoKey
    /\ got[r] = NoEntry
    /\ LET k == rkey[r]
       IN  /\ got' = [got EXCEPT ![r] = Snapshot(k, Source(k))]
           /\ lag' = [lag EXCEPT ![r] = {f \in Reads[k] : Source(k)[f] # db[f]}]
    /\ UNCHANGED <<db, replica, cache, late, rkey, writerVars>>

\* SETEX k: the entry is what the loader returned, whatever happened since.
Fill(r) ==
    /\ rkey[r] # NoKey
    /\ got[r] # NoEntry
    /\ cache' = [cache EXCEPT ![rkey[r]] = got[r]]
    /\ late' = [late EXCEPT ![rkey[r]] = lag[r]]
    /\ since' = [w \in Writers |-> IF kind[w] = "service" THEN since[w] \cup {rkey[r]} ELSE {}]

Store(r) ==
    /\ Fill(r)
    /\ rkey' = [rkey EXCEPT ![r] = NoKey]
    /\ got' = [got EXCEPT ![r] = NoEntry]
    /\ lag' = [lag EXCEPT ![r] = {}]
    /\ UNCHANGED <<db, replica, kind, wrote, todo, failed, acked>>

\* The connection drops after Redis ran the command: ioredis sends it again.
StoreResent(r) ==
    /\ Fill(r)
    /\ UNCHANGED <<db, replica, readerVars, kind, wrote, todo, failed, acked>>

\* The loader's query or the SETEX fails: the request fails, there is no
\* fallback to the value that was loaded.
ReadFails(r) ==
    /\ rkey[r] # NoKey
    /\ rkey' = [rkey EXCEPT ![r] = NoKey]
    /\ got' = [got EXCEPT ![r] = NoEntry]
    /\ lag' = [lag EXCEPT ![r] = {}]
    /\ UNCHANGED <<db, replica, cache, late, writerVars>>

-----------------------------------------------------------------------------
(***************************************************************************)
(* The handlers that update, from their COMMIT to their answer.            *)
(***************************************************************************)

Clearing == {w \in Writers : kind[w] # "none"}

\* Readers whose loader has returned do not see the new version.
Commit(w, x) ==
    LET f == Writes[x]
    IN  /\ kind[w] = "none"
        /\ db[f] < MaxVersion
        /\ db' = [db EXCEPT ![f] = @ + 1]
        /\ lag' = [r \in Readers |-> IF got[r] = NoEntry THEN lag[r] ELSE lag[r] \cup {f}]
        /\ kind' = [kind EXCEPT ![w] = x]
        /\ wrote' = [wrote EXCEPT ![w] = db[f] + 1]
        /\ todo' = [todo EXCEPT ![w] = Clears[x] \cap Keys]
        /\ UNCHANGED <<replica, cache, late, rkey, got, since, failed, acked>>

\* DEL k, in any order: the handlers send them together with Promise.all.
Delete(w, k) ==
    /\ k \in todo[w]
    /\ cache' = [cache EXCEPT ![k] = NoEntry]
    /\ late' = [late EXCEPT ![k] = {}]
    /\ todo' = [todo EXCEPT ![w] = @ \ {k}]
    /\ UNCHANGED <<db, replica, readerVars, kind, wrote, since, failed, acked>>

\* invalidateTenant's SCAN need not return a key that was set while it ran.
Overlook(w, k) ==
    /\ kind[w] = "service"
    /\ k \in todo[w] \cap since[w]
    /\ todo' = [todo EXCEPT ![w] = @ \ {k}]
    /\ UNCHANGED <<db, replica, cache, late, readerVars, kind, wrote, since, failed, acked>>

\* Commands of the handler fail, or its process dies after the COMMIT, or the
\* COMMIT's own answer is lost: the entries K stay.
GiveUp(w, K) ==
    /\ K # {} /\ K \subseteq todo[w]
    /\ late' = [k \in Keys |-> IF k \in K /\ cache[k] # NoEntry
                              THEN late[k] \cup {Writes[kind[w]]} ELSE late[k]]
    /\ todo' = [todo EXCEPT ![w] = @ \ K]
    /\ failed' = [failed EXCEPT ![w] = TRUE]
    /\ UNCHANGED <<db, replica, cache, readerVars, kind, wrote, since, acked>>

\* The handler answers, with success if no command failed.
Acknowledge(w) ==
    /\ w \in Clearing
    /\ todo[w] = {}
    /\ kind' = [kind EXCEPT ![w] = "none"]
    /\ LET f == Writes[kind[w]]
       IN  acked' = IF failed[w] \/ acked[f] > wrote[w]
                      THEN acked ELSE [acked EXCEPT ![f] = wrote[w]]
    /\ wrote' = [wrote EXCEPT ![w] = 0]
    /\ since' = [since EXCEPT ![w] = {}]
    /\ failed' = [failed EXCEPT ![w] = FALSE]
    /\ UNCHANGED <<db, replica, cache, late, readerVars, todo>>

-----------------------------------------------------------------------------
\* Mutant: setex is given no TTL for the entry of GET /tenants/me.
ExpireButConfig(k) ==
    /\ cache[k] # NoEntry
    /\ k # "config"
    /\ cache' = [cache EXCEPT ![k] = NoEntry]
    /\ late' = [late EXCEPT ![k] = {}]
    /\ UNCHANGED <<db, replica, readerVars, writerVars>>

\* The TTL of an entry passes, or Redis evicts it or restarts empty.
Expire(k) ==
    /\ cache[k] # NoEntry
    /\ cache' = [cache EXCEPT ![k] = NoEntry]
    /\ late' = [late EXCEPT ![k] = {}]
    /\ UNCHANGED <<db, replica, readerVars, writerVars>>

\* The replica replays one more commit.
Replicate(f) ==
    /\ HasReplica
    /\ replica[f] < db[f]
    /\ replica' = [replica EXCEPT ![f] = @ + 1]
    /\ UNCHANGED <<db, cache, late, readerVars, writerVars>>

Read(r) == Load(r) \/ Store(r)

Update(w) == Acknowledge(w) \/ \E k \in Keys : Delete(w, k) \/ Overlook(w, k)

Next ==
    \/ \E r \in Readers : Read(r) \/ StoreResent(r) \/ ReadFails(r)
    \/ \E r \in Readers, k \in Keys : Lookup(r, k)
    \/ \E w \in Writers : Update(w)
    \/ \E w \in Writers : \E x \in Kinds[w] : Commit(w, x)
    \/ \E w \in Writers, K \in SUBSET Keys : GiveUp(w, K)
    \/ \E k \in Keys : Expire(k)
    \/ \E f \in Facts : Replicate(f)

Spec == Init /\ [][Next]_vars

\* Started requests go on, the replica replays what was committed, and TTLs
\* pass.  Nobody has to read or to update.
FairSpec ==
    /\ Spec
    /\ \A r \in Readers : WF_vars(Read(r))
    /\ \A w \in Writers : WF_vars(Update(w))
    /\ \A k \in Keys : WF_vars(Expire(k))
    /\ WF_vars(\E f \in Facts : Replicate(f))

-----------------------------------------------------------------------------
(***************************************************************************)
(* Properties.                                                             *)
(***************************************************************************)

Entry(k) == [Reads[k] -> Nat] \cup {NoEntry}

\* The type of the entries, the readers and the writers of tenantCache.js.
TypeOK ==
    /\ db \in [Facts -> Nat]
    /\ replica \in [Facts -> Nat]
    /\ DOMAIN cache = Keys /\ \A k \in Keys : cache[k] \in Entry(k)
    /\ late \in [Keys -> SUBSET Facts]
    /\ rkey \in [Readers -> Keys \cup {NoKey}]
    /\ DOMAIN got = Readers
    /\ \A r \in Readers : IF rkey[r] = NoKey THEN got[r] = NoEntry ELSE got[r] \in Entry(rkey[r])
    /\ lag \in [Readers -> SUBSET Facts]
    /\ kind \in [Writers -> AllKinds \cup {"none"}]
    /\ wrote \in [Writers -> Nat]
    /\ todo \in [Writers -> SUBSET Keys]
    /\ since \in [Writers -> SUBSET Keys]
    /\ failed \in [Writers -> BOOLEAN]
    /\ acked \in [Facts -> Nat]

\* The facts whose updates clear the entry; the others are left to its TTL, as
\* are public, portal and gateway for all of theirs.
Promised(k) ==
    CASE k = "theme" -> {"theme"}
      [] k = "config" -> {"theme", "profile", "onboarding"}
      [] k = "categories" -> {"categories"}
      [] k = "services" -> {"services"}
      [] OTHER -> {}

\* An update that has not cleared k yet.
ClearsNext(w, k, f) == w \in Clearing /\ k \in todo[w] /\ Writes[kind[w]] = f

\* The handlers clear every entry their write makes stale (themes.js:69,
\* onboarding.js:81): an entry older than the database is about to be cleared,
\* unless its fill overlapped the write or read a replica behind it, or a DEL was
\* lost.
StaleIsExplained ==
    \A k \in Keys : cache[k] # NoEntry =>
        \A f \in Promised(k) : cache[k][f] # db[f] =>
            \/ f \in late[k]
            \/ \E w \in Writers : ClearsNext(w, k, f)

\* Once nothing is updated any more every entry becomes right and stays right:
\* whatever fills, losses and lags left behind is gone when its TTL has passed.
EventuallyFresh ==
    \A k \in Keys : <>[](cache[k] # NoEntry => cache[k] = Snapshot(k, db))

\* themes.js:69, "Invalidate cached theme + tenant config so next request
\* reloads": after a successful PUT no request is answered from an entry that is
\* older.
NextRequestReloads ==
    \A k \in Keys \cap Clears["theme"] :
        cache[k] # NoEntry => cache[k]["theme"] >= acked["theme"]
=============================================================================
