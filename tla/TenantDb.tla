------------------------------ MODULE TenantDb ------------------------------
(***************************************************************************)
(* shared/db/client.js over the row-level security policies: the pooled    *)
(* PostgreSQL connections, the transaction-local tenant context and the    *)
(* row filtering that every route handler of every service relies on.      *)
(*                                                                         *)
(* A request is one call of withTenant, withSuperAdmin or pool.query.  Its *)
(* steps are the awaits of that call: connect, BEGIN, set_config, the      *)
(* statements of the callback, COMMIT or ROLLBACK, release.  Requests      *)
(* interleave at every await; a connection may be refused or lost at any   *)
(* moment, and most losses end the process.  The requests and the pools    *)
(* are those of one service.                                               *)
(***************************************************************************)
EXTENDS Naturals, Sequences, FiniteSets

CONSTANTS Tenants,    \* the tenants, by id
          Rows,       \* the row ids each tenant's tables may use
          Requests,   \* the handler invocations in flight
          Conns,      \* the clients of all pools, at most `max` of each
          PoolOf,     \* the pool a client belongs to
          Pools,      \* the pools, {pool} or {pool, readPool}
          Primary,    \* client.js `pool`
          ReadPool,   \* client.js `readPool`, Primary without DATABASE_READ_URL
          Super,      \* the context of a withSuperAdmin call
          NoTenant,   \* a missing tenant id, an unset app.current_tenant
          NoConn,     \* a request that holds no client
          Initial     \* the contents of a row nobody has written yet

ASSUME PoolsAssumption ==
    /\ Primary \in Pools
    /\ ReadPool \in Pools
    /\ PoolOf \in [Conns -> Pools]

ASSUME SentinelsAssumption ==
    /\ Super # NoTenant
    /\ Super \notin Tenants
    /\ NoTenant \notin Tenants
    /\ NoConn \notin Conns
    /\ Initial \notin Requests

VARIABLES pc,       \* the await each request is at
          ctx,      \* the context its call was made for
          want,     \* the pool it asked for a client
          conn,     \* the client it holds
          landed,   \* history: its writes became permanent
          result,   \* what its last call told the caller
          seen,     \* history: the tenants whose rows its call was shown
          queue,    \* the requests each pool keeps waiting, first come first
          idle,     \* the clients at rest in their pool, or not opened yet
          sess,     \* the server session behind each client
          pending,  \* the uncommitted writes of each session
          db        \* the committed rows: who wrote each of them last

callVars == <<ctx, want, landed, result, seen>>
poolVars == <<queue, idle, conn>>
serverVars == <<sess, pending, db>>
vars == <<pc, ctx, want, conn, landed, result, seen, queue, idle, sess, pending, db>>

Contexts == Tenants \cup {Super, NoTenant}
Holding == {"begin", "context", "plain", "run", "committed", "rollback", "release"}

\* The server session behind a client: whether a transaction is open, and its
\* settings app.current_tenant and app.is_super_admin.
Session(inTx, tenant, super) ==
    [inTx |-> inTx, tenant |-> tenant, super |-> super]

Fresh == Session(FALSE, NoTenant, FALSE)

\* BEGIN, and set_config(..., true) inside the transaction, for withTenant and
\* for withSuperAdmin.
Opened(s) == Session(TRUE, s.tenant, s.super)
WithContext(s, x) ==
    IF x = Super THEN Session(s.inTx, s.tenant, TRUE) ELSE Session(s.inTx, x, s.super)

\* Mutant: the settings are made with is_local = false.
EndTxKeepsSettings(s) == Session(FALSE, s.tenant, s.super)

\* COMMIT and ROLLBACK undo every setting made with is_local = true.
EndTx(s) == Session(FALSE, NoTenant, FALSE)

\* USING of the policy tenant_isolation_*: the rows a statement can see, and
\* so update or delete.  WITH CHECK is the same formula for rows written.  The
\* policies hold for a role that is subject to them, which a superuser is not.
Visible(s, t) == s.super \/ s.tenant = t

\* An update waits for the transaction that changed the row before it.
RowFree(c, t, k) == \A d \in Conns \ {c} : <<t, k>> \notin pending[d]

Init ==
    /\ pc = [r \in Requests |-> "idle"]
    /\ ctx = [r \in Requests |-> NoTenant]
    /\ want = [r \in Requests |-> Primary]
    /\ conn = [r \in Requests |-> NoConn]
    /\ landed = [r \in Requests |-> FALSE]
    /\ result = [r \in Requests |-> "none"]
    /\ seen = [r \in Requests |-> {}]
    /\ queue = [p \in Pools |-> <<>>]
    /\ idle = Conns
    /\ sess = [c \in Conns |-> Fresh]
    /\ pending = [c \in Conns |-> {}]
    /\ db = [t \in Tenants |-> [k \in Rows |-> Initial]]

-----------------------------------------------------------------------------
(***************************************************************************)
(* Entry: the arguments of the call, and the pool's first-come queue.      *)
(***************************************************************************)

\* pool.connect(): the call joins the queue of the pool it uses.
Enqueue(r, x, p) ==
    /\ pc[r] = "idle"
    /\ pc' = [pc EXCEPT ![r] = "waiting"]
    /\ ctx' = [ctx EXCEPT ![r] = x]
    /\ want' = [want EXCEPT ![r] = p]
    /\ landed' = [landed EXCEPT ![r] = FALSE]
    /\ result' = [result EXCEPT ![r] = "none"]
    /\ seen' = [seen EXCEPT ![r] = {}]
    /\ queue' = [queue EXCEPT ![p] = Append(@, r)]
    /\ UNCHANGED <<conn, idle, sess, pending, db>>

\* withTenant(tenantId, fn, { readOnly }).
CallWithTenant(r, t, readOnly) ==
    Enqueue(r, t, IF readOnly THEN ReadPool ELSE Primary)

\* withTenant without a tenant id throws before it connects.
RefuseNoTenant(r) ==
    /\ pc[r] = "idle"
    /\ ctx' = [ctx EXCEPT ![r] = NoTenant]
    /\ landed' = [landed EXCEPT ![r] = FALSE]
    /\ result' = [result EXCEPT ![r] = "error"]
    /\ seen' = [seen EXCEPT ![r] = {}]
    /\ UNCHANGED <<pc, want, poolVars, serverVars>>

\* withSuperAdmin(fn): never on the replica.
CallWithSuperAdmin(r) == Enqueue(r, Super, Primary)

\* pool.query(...), as the health check does: no transaction, no context.
CallPoolQuery(r) == Enqueue(r, NoTenant, Primary)

\* The pool hands an idle client to the request that has waited longest.
Grant(p, c) ==
    /\ queue[p] # <<>>
    /\ c \in idle
    /\ PoolOf[c] = p
    /\ LET r == Head(queue[p])
       IN  /\ pc' = [pc EXCEPT ![r] = IF ctx[r] = NoTenant THEN "plain" ELSE "begin"]
           /\ conn' = [conn EXCEPT ![r] = c]
    /\ queue' = [queue EXCEPT ![p] = Tail(@)]
    /\ idle' = idle \ {c}
    /\ UNCHANGED <<callVars, serverVars>>

-----------------------------------------------------------------------------
(***************************************************************************)
(* The transaction of withTenant and withSuperAdmin.                       *)
(***************************************************************************)

Begin(r) ==
    /\ pc[r] = "begin"
    /\ sess' = [sess EXCEPT ![conn[r]] = Opened(@)]
    /\ pc' = [pc EXCEPT ![r] = "context"]
    /\ UNCHANGED <<callVars, poolVars, pending, db>>

SetContext(r) ==
    /\ pc[r] = "context"
    /\ sess' = [sess EXCEPT ![conn[r]] = WithContext(@, ctx[r])]
    /\ pc' = [pc EXCEPT ![r] = "run"]
    /\ UNCHANGED <<callVars, poolVars, pending, db>>

\* The callback reads: the policy filters what the session is shown.
Read(r) ==
    /\ pc[r] = "run"
    /\ seen' = [seen EXCEPT ![r] = @ \cup {t \in Tenants : Visible(sess[conn[r]], t)}]
    /\ UNCHANGED <<pc, ctx, want, landed, result, poolVars, serverVars>>

\* Mutant: without BEGIN every statement commits by itself.
WriteAutocommit(r, t, k) ==
    /\ pc[r] = "run"
    /\ want[r] = Primary
    /\ Visible(sess[conn[r]], t)
    /\ db' = [db EXCEPT ![t][k] = r]
    /\ UNCHANGED <<pc, callVars, poolVars, sess, pending>>

\* The callback writes a row by its id, whoever owns it: the statement touches
\* the row if the policy lets it and nothing otherwise, and waits while another
\* transaction has the row.  A replica accepts no writes.
Write(r, t, k) ==
    /\ pc[r] = "run"
    /\ want[r] = Primary
    /\ LET c == conn[r]
       IN  /\ Visible(sess[c], t)
           /\ RowFree(c, t, k)
           /\ pending' = [pending EXCEPT ![c] = @ \cup {<<t, k>>}]
    /\ UNCHANGED <<pc, callVars, poolVars, sess, db>>

\* The committed rows once the writes W of request r are permanent.
Installed(r, W) ==
    [t \in Tenants |-> [k \in Rows |-> IF <<t, k>> \in W THEN r ELSE db[t][k]]]

\* The callback returns and the server commits.
Commit(r) ==
    /\ pc[r] = "run"
    /\ LET c == conn[r]
       IN  /\ db' = Installed(r, pending[c])
           /\ pending' = [pending EXCEPT ![c] = {}]
           /\ sess' = [sess EXCEPT ![c] = EndTx(@)]
    /\ landed' = [landed EXCEPT ![r] = TRUE]
    /\ pc' = [pc EXCEPT ![r] = "committed"]
    /\ UNCHANGED <<ctx, want, result, seen, poolVars>>

\* COMMIT is answered: the call returns what the callback did.
HearCommit(r) ==
    /\ pc[r] = "committed"
    /\ result' = [result EXCEPT ![r] = "ok"]
    /\ pc' = [pc EXCEPT ![r] = "release"]
    /\ UNCHANGED <<ctx, want, landed, seen, poolVars, serverVars>>

\* The callback throws, or a statement or COMMIT itself is refused: a
\* constraint, a deadlock the server breaks.
Throw(r) ==
    /\ pc[r] \in {"begin", "context", "run"}
    /\ pc' = [pc EXCEPT ![r] = "rollback"]
    /\ UNCHANGED <<callVars, poolVars, serverVars>>

\* catch: ROLLBACK, and the error goes on.
Rollback(r) ==
    /\ pc[r] = "rollback"
    /\ LET c == conn[r]
       IN  /\ sess' = [sess EXCEPT ![c] = EndTx(@)]
           /\ pending' = [pending EXCEPT ![c] = {}]
    /\ result' = [result EXCEPT ![r] = "error"]
    /\ pc' = [pc EXCEPT ![r] = "release"]
    /\ UNCHANGED <<ctx, want, landed, seen, poolVars, db>>

\* Mutant: the release stands after the COMMIT and not in the finally block.
ReleaseAfterCommit(r) ==
    /\ pc[r] = "release"
    /\ idle' = IF result[r] = "ok" THEN idle \cup {conn[r]} ELSE idle
    /\ conn' = [conn EXCEPT ![r] = NoConn]
    /\ pc' = [pc EXCEPT ![r] = "idle"]
    /\ UNCHANGED <<callVars, queue, serverVars>>

\* finally: client.release().
Release(r) ==
    /\ pc[r] = "release"
    /\ idle' = idle \cup {conn[r]}
    /\ conn' = [conn EXCEPT ![r] = NoConn]
    /\ pc' = [pc EXCEPT ![r] = "idle"]
    /\ UNCHANGED <<callVars, queue, serverVars>>

\* pool.query: one statement outside any transaction.  Its client has a
\* listener while it runs, so that a lost connection is an error like another,
\* and the pool opens a new client in the place of the lost one.
PlainQuery(r) ==
    /\ pc[r] = "plain"
    /\ \/ /\ seen' = [seen EXCEPT ![r] = {t \in Tenants : Visible(sess[conn[r]], t)}]
          /\ landed' = [landed EXCEPT ![r] = TRUE]
          /\ result' = [result EXCEPT ![r] = "ok"]
       \/ /\ result' = [result EXCEPT ![r] = "error"]
          /\ UNCHANGED <<seen, landed>>
    /\ pc' = [pc EXCEPT ![r] = "release"]
    /\ UNCHANGED <<ctx, want, poolVars, serverVars>>

-----------------------------------------------------------------------------
(***************************************************************************)
(* The environment.                                                        *)
(***************************************************************************)

\* The pool opens a client for the request that has waited longest and the
\* server cannot be reached or has no room: connect() rejects, outside the try
\* block, and there is nothing to release.
ConnectFails(p) ==
    /\ queue[p] # <<>>
    /\ \E c \in idle : PoolOf[c] = p
    /\ LET r == Head(queue[p])
       IN  /\ pc' = [pc EXCEPT ![r] = "idle"]
           /\ result' = [result EXCEPT ![r] = "error"]
    /\ queue' = [queue EXCEPT ![p] = Tail(@)]
    /\ UNCHANGED <<ctx, want, landed, seen, conn, idle, serverVars>>

\* Nobody listens for the 'error' of a client that a transaction holds, nor of
\* one at rest in a readPool of its own.  Only `pool` has a listener for its
\* clients at rest: it logs the loss, and the pool opens another client, which
\* no call can tell from the old one.
Unattended(c) ==
    \/ \E r \in Requests :
          conn[r] = c /\ pc[r] \in {"begin", "context", "run", "committed", "rollback"}
    \/ c \in idle /\ PoolOf[c] = ReadPool /\ ReadPool # Primary

\* The connection of an unattended client is lost, and its 'error' ends the
\* process: the server rolls back what was not committed, every call in
\* progress fails for its caller, and the process that is started in its place
\* opens its pools anew.
ProcessDies(c) ==
    /\ Unattended(c)
    /\ result' = [r \in Requests |-> IF pc[r] = "idle" THEN result[r] ELSE "error"]
    /\ pc' = [r \in Requests |-> "idle"]
    /\ conn' = [r \in Requests |-> NoConn]
    /\ queue' = [p \in Pools |-> <<>>]
    /\ idle' = Conns
    /\ sess' = [d \in Conns |-> Fresh]
    /\ pending' = [d \in Conns |-> {}]
    /\ UNCHANGED <<ctx, want, landed, seen, db>>

Call(r) ==
    \/ \E t \in Tenants, readOnly \in BOOLEAN : CallWithTenant(r, t, readOnly)
    \/ RefuseNoTenant(r)
    \/ CallWithSuperAdmin(r)
    \/ CallPoolQuery(r)

\* The steps that take a call to its end.
Advance(r) ==
    \/ Begin(r)
    \/ SetContext(r)
    \/ Commit(r)
    \/ HearCommit(r)
    \/ Throw(r)
    \/ Rollback(r)
    \/ PlainQuery(r)
    \/ Release(r)

Next ==
    \/ \E r \in Requests : Call(r) \/ Advance(r) \/ Read(r)
    \/ \E r \in Requests, t \in Tenants, k \in Rows : Write(r, t, k)
    \/ \E p \in Pools, c \in Conns : Grant(p, c)
    \/ \E p \in Pools : ConnectFails(p)
    \/ \E c \in Conns : ProcessDies(c)

Spec == Init /\ [][Next]_vars

\* A callback returns or throws after finitely many statements, the event loop
\* runs every continuation and a pool serves its queue.  Nobody has to call.
Fairness ==
    /\ \A r \in Requests : WF_vars(Advance(r))
    /\ \A p \in Pools : WF_vars(\E c \in Conns : Grant(p, c))

FairSpec == Spec /\ Fairness

-----------------------------------------------------------------------------
(***************************************************************************)
(* Properties.                                                             *)
(***************************************************************************)

SessionType ==
    [inTx : BOOLEAN, tenant : Tenants \cup {NoTenant}, super : BOOLEAN]

\* The type of every variable of client.js's calls, pools and sessions.
TypeOK ==
    /\ pc \in [Requests -> {"idle", "waiting"} \cup Holding]
    /\ ctx \in [Requests -> Contexts]
    /\ want \in [Requests -> Pools]
    /\ conn \in [Requests -> Conns \cup {NoConn}]
    /\ landed \in [Requests -> BOOLEAN]
    /\ result \in [Requests -> {"none", "ok", "error"}]
    /\ seen \in [Requests -> SUBSET Tenants]
    /\ queue \in [Pools -> Seq(Requests)]
    /\ idle \subseteq Conns
    /\ sess \in [Conns -> SessionType]
    /\ pending \in [Conns -> SUBSET (Tenants \X Rows)]
    /\ db \in [Tenants -> [Rows -> Requests \cup {Initial}]]

\* client.js:6-8, "preventing context leaks across pooled clients": a client at
\* rest in a pool has no transaction open, no tenant or super-admin context
\* left over and no write that the next holder could commit.
IdleClientsAreClean ==
    \A c \in idle : sess[c] = Fresh /\ pending[c] = {}

\* No two calls ever use one client, and no client leaves the pool for good:
\* each of them is at rest or held by exactly one call.
ClientsAreConserved ==
    \A c \in Conns :
        LET holders == {r \in Requests : conn[r] = c}
        IN  /\ c \in idle => holders = {}
            /\ c \notin idle => \E r \in Requests : holders = {r} /\ pc[r] \in Holding

\* The territory of a context: its own tenant's rows, all for a super admin.
Domain(x) == CASE x = Super -> Tenants
               [] x \in Tenants -> {x}
               [] OTHER -> {}

\* Row-level security with the context of the call in progress: a call is shown
\* rows of its own tenant only, and none without a context, whatever ran on the
\* same client before.
SeesOwnTenantOnly == \A r \in Requests : seen[r] \subseteq Domain(ctx[r])

\* A session holds uncommitted writes of its holder's tenant only.
PendingIsOwn ==
    \A r \in Requests : conn[r] # NoConn =>
        \A w \in pending[conn[r]] : w[1] \in Domain(ctx[r])

\* client.js:38: every call is answered.  connect() has no time limit, and still
\* a waiting request gets a client or an error however often callbacks throw and
\* connections are refused or lost, since each call gives its client back.
EveryCallEnds == \A r \in Requests : pc[r] # "idle" ~> pc[r] = "idle"

\* The pooled implementation keeps the promises of TenantStore.
CallState(r) ==
    IF pc[r] = "idle"
      THEN IF result[r] = "none" THEN "idle" ELSE result[r]
      ELSE IF landed[r] THEN "applied" ELSE "open"

callState == [r \in Requests |-> CallState(r)]

Store == INSTANCE TenantStore WITH state <- callState

\* Each call of withTenant takes effect at most once, all at once, on its own
\* tenant's rows, and has done so whenever its caller is told of success.
RefinesTenantStore == Store!Spec
=============================================================================
