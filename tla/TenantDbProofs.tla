--------------------------- MODULE TenantDbProofs ---------------------------
(***************************************************************************)
(* Proofs about TenantDb for every set of tenants, rows, requests, clients *)
(* and pools: type correctness, the isolation of tenants that share        *)
(* pooled connections, and the implementation of TenantStore.              *)
(*                                                                         *)
(* What a client may carry at each await of its holder (SessionMatches) is *)
(* what makes isolation inductive: the invariants the runs check do not    *)
(* say by themselves which settings a transaction still open may have.     *)
(***************************************************************************)
EXTENDS TenantDb, SequenceTheorems, TLAPS

\* A call holds a client exactly between Grant and Release.
HoldsWhenHolding == \A r \in Requests : conn[r] # NoConn <=> pc[r] \in Holding

\* One call at most holds a client, and then the pool does not have it.
HeldOnce ==
    /\ \A r, s \in Requests : conn[r] = conn[s] /\ conn[r] # NoConn => r = s
    /\ \A r \in Requests : conn[r] \notin idle
    /\ \A c \in Conns \ idle : \E r \in Requests : conn[r] = c

\* The queues hold waiting calls, each at one place.
QueuedOnce ==
    /\ \A p \in Pools : \A i \in 1..Len(queue[p]) : pc[queue[p][i]] = "waiting"
    /\ \A p, q \in Pools : \A i \in 1..Len(queue[p]), j \in 1..Len(queue[q]) :
           queue[p][i] = queue[q][j] => p = q /\ i = j

\* A session whose transaction has no context yet.
Begun == Session(TRUE, NoTenant, FALSE)

\* The sessions the server may have behind a client whose holder is at pc a
\* with context x.
Possible(a, x) ==
    CASE a \in {"begin", "plain", "committed", "release"} -> {Fresh}
      [] a = "context" -> {Begun}
      [] a = "run" -> {WithContext(Begun, x)}
      [] a = "rollback" -> {Fresh, Begun, WithContext(Begun, x)}
      [] OTHER -> {}

SessionMatches ==
    \A r \in Requests : pc[r] \in Holding =>
        /\ sess[conn[r]] \in Possible(pc[r], ctx[r])
        /\ pc[r] \notin {"run", "rollback"} => pending[conn[r]] = {}
        /\ pc[r] = "plain" => ctx[r] = NoTenant
        /\ pc[r] \in {"begin", "context", "run"} => ctx[r] # NoTenant

IndInv ==
    /\ TypeOK
    /\ HoldsWhenHolding
    /\ HeldOnce
    /\ QueuedOnce
    /\ SessionMatches
    /\ IdleClientsAreClean
    /\ SeesOwnTenantOnly
    /\ PendingIsOwn
-----------------------------------------------------------------------------
LEMMA PossibleAt ==
    ASSUME NEW x
    PROVE  /\ \A a \in {"begin", "plain", "committed", "release"} : Possible(a, x) = {Fresh}
           /\ Possible("context", x) = {Begun}
           /\ Possible("run", x) = {WithContext(Begun, x)}
           /\ Possible("rollback", x) = {Fresh, Begun, WithContext(Begun, x)}
BY DEF Possible

LEMMA InitInd == Init => IndInv
<1> SUFFICES ASSUME Init PROVE IndInv
  OBVIOUS
<1> USE PoolsAssumption, SentinelsAssumption DEF Init
<1>1. TypeOK
  BY DEF TypeOK, SessionType, Session, Fresh, Contexts, Holding
<1>2. HoldsWhenHolding /\ HeldOnce
  BY DEF HoldsWhenHolding, HeldOnce, Holding
<1>3. QueuedOnce
  BY DEF QueuedOnce
<1>4. SessionMatches
  BY DEF SessionMatches, Holding
<1>5. IdleClientsAreClean /\ SeesOwnTenantOnly /\ PendingIsOwn
  BY DEF IdleClientsAreClean, SeesOwnTenantOnly, PendingIsOwn
<1> QED
  BY <1>1, <1>2, <1>3, <1>4, <1>5 DEF IndInv

\* What the invariant says of the holder of a client, in the form the steps use.
LEMMA Holder ==
    ASSUME IndInv, NEW r \in Requests, pc[r] \in Holding
    PROVE  /\ conn[r] \in Conns
           /\ conn[r] # NoConn
           /\ conn[r] \notin idle
           /\ \A s \in Requests \ {r} : conn[s] # conn[r]
BY SentinelsAssumption DEF IndInv, TypeOK, HoldsWhenHolding, HeldOnce

\* The sessions a client can have, as values: what BEGIN, set_config and the
\* end of a transaction make of them.
LEMMA Sessions ==
    ASSUME NEW x \in Contexts
    PROVE  /\ Fresh \in SessionType /\ Begun \in SessionType
           /\ WithContext(Begun, x) \in SessionType
           /\ Opened(Fresh) = Begun
           /\ \A s : EndTx(s) = Fresh
<1>1. /\ Fresh \in SessionType /\ Begun \in SessionType
      /\ WithContext(Begun, x) \in SessionType
  BY DEF Session, SessionType, Fresh, Begun, WithContext, Contexts
<1>2. /\ Opened(Fresh) = Begun
      /\ \A s : EndTx(s) = Fresh
  BY DEF Session, Fresh, Begun, Opened, EndTx
<1> QED
  BY <1>1, <1>2

\* The session of a client in use is the one its holder's pc and context say.
LEMMA HeldSession ==
    ASSUME IndInv, NEW r \in Requests, pc[r] \in Holding
    PROVE  /\ pc[r] \in {"begin", "plain", "committed", "release"} => sess[conn[r]] = Fresh
           /\ pc[r] = "context" => sess[conn[r]] = Begun
           /\ pc[r] = "run" => sess[conn[r]] = WithContext(Begun, ctx[r])
           /\ pc[r] = "rollback" => EndTx(sess[conn[r]]) = Fresh
<1>1. ctx[r] \in Contexts
  BY DEF IndInv, TypeOK
<1>2. sess[conn[r]] \in Possible(pc[r], ctx[r])
  BY DEF IndInv, SessionMatches
<1> QED
  BY <1>1, <1>2, Sessions DEF Possible, Holding

\* What a session with the context of its holder shows is the holder's domain.
LEMMA VisibleIsDomain ==
    ASSUME NEW x \in Contexts, NEW t \in Tenants
    PROVE  /\ Visible(WithContext(Begun, x), t) => t \in Domain(x)
           /\ ~Visible(Fresh, t)
BY SentinelsAssumption
   DEF Visible, WithContext, Session, Begun, Fresh, Domain, Contexts

LEMMA EnqueueInd ==
    ASSUME IndInv, NEW r \in Requests, NEW x \in Contexts, NEW p \in Pools, Enqueue(r, x, p)
    PROVE  IndInv'
<1> USE PoolsAssumption, SentinelsAssumption DEF IndInv, Enqueue
<1>1. TypeOK'
  BY DEF TypeOK, Contexts, Holding
<1>2. HoldsWhenHolding' /\ HeldOnce'
  BY DEF TypeOK, HoldsWhenHolding, HeldOnce, Holding
<1>3. QueuedOnce'
  <2>1. /\ queue'[p] = Append(queue[p], r)
        /\ \A q \in Pools \ {p} : queue'[q] = queue[q]
        /\ \A q \in Pools : queue[q] \in Seq(Requests)
    BY DEF TypeOK
  <2>2. /\ Len(queue'[p]) = Len(queue[p]) + 1
        /\ Len(queue[p]) \in Nat
        /\ queue'[p][Len(queue[p]) + 1] = r
        /\ \A i \in 1..Len(queue[p]) : queue'[p][i] = queue[p][i]
    BY <2>1
  <2>3. \A q \in Pools : \A i \in 1..Len(queue[q]) : queue[q][i] # r
    BY DEF QueuedOnce
  <2>4. \A s \in Requests : pc'[s] = IF s = r THEN "waiting" ELSE pc[s]
    BY DEF TypeOK
  <2>5. \A q \in Pools : \A i \in 1..Len(queue'[q]) :
            IF q = p /\ i = Len(queue[p]) + 1
              THEN queue'[q][i] = r
              ELSE i \in 1..Len(queue[q]) /\ queue'[q][i] = queue[q][i] /\ queue[q][i] \in Requests
    BY <2>1, <2>2
  <2> QED
    BY <2>3, <2>4, <2>5, <2>1, <2>2, SMTT(30) DEF QueuedOnce
<1>4. SessionMatches'
  BY Holder DEF TypeOK, SessionMatches, Holding
<1>5. IdleClientsAreClean'
  BY Holder DEF TypeOK, IdleClientsAreClean, Holding
<1>6. SeesOwnTenantOnly'
  BY DEF TypeOK, SeesOwnTenantOnly
<1>7. PendingIsOwn'
  BY Holder DEF TypeOK, PendingIsOwn, HoldsWhenHolding, Holding
<1> QED
  BY <1>1, <1>2, <1>3, <1>4, <1>5, <1>6, <1>7

LEMMA RefuseNoTenantInd ==
    ASSUME IndInv, NEW r \in Requests, RefuseNoTenant(r)
    PROVE  IndInv'
<1> USE PoolsAssumption, SentinelsAssumption DEF IndInv, RefuseNoTenant, poolVars, serverVars
<1>1. TypeOK'
  BY DEF TypeOK, Contexts, Holding
<1>2. HoldsWhenHolding' /\ HeldOnce'
  BY DEF TypeOK, HoldsWhenHolding, HeldOnce, Holding
<1>3. QueuedOnce'
  BY DEF TypeOK, QueuedOnce
<1>4. SessionMatches'
  BY Holder DEF TypeOK, SessionMatches, Holding
<1>5. IdleClientsAreClean'
  BY Holder DEF TypeOK, IdleClientsAreClean, Holding
<1>6. SeesOwnTenantOnly'
  BY DEF TypeOK, SeesOwnTenantOnly
<1>7. PendingIsOwn'
  BY Holder DEF TypeOK, PendingIsOwn, HoldsWhenHolding, Holding
<1> QED
  BY <1>1, <1>2, <1>3, <1>4, <1>5, <1>6, <1>7

LEMMA BeginInd ==
    ASSUME IndInv, NEW r \in Requests, Begin(r)
    PROVE  IndInv'
<1> USE PoolsAssumption, SentinelsAssumption DEF IndInv, Begin, callVars, poolVars
<1>0. conn[r] \in Conns /\ sess[conn[r]] = Fresh /\ ctx[r] \in Contexts
  BY Holder, HeldSession DEF TypeOK, Holding
<1>1. TypeOK'
  BY <1>0, Sessions DEF TypeOK, Holding
<1>2. HoldsWhenHolding' /\ HeldOnce'
  BY DEF TypeOK, HoldsWhenHolding, HeldOnce, Holding
<1>3. QueuedOnce'
  BY DEF TypeOK, QueuedOnce
<1>4. SessionMatches'
  <2>1. \A s \in Requests \ {r} : /\ pc'[s] = pc[s] /\ ctx'[s] = ctx[s] /\ conn'[s] = conn[s]
                                  /\ pc[s] \in Holding => sess'[conn[s]] = sess[conn[s]]
                                                         /\ pending'[conn[s]] = pending[conn[s]]
    BY <1>0, Holder DEF TypeOK, Holding
  <2>2. /\ sess'[conn'[r]] \in Possible(pc'[r], ctx'[r])
        /\ pc'[r] \notin {"run", "rollback"} => pending'[conn'[r]] = {}
        /\ pc'[r] = "plain" => ctx'[r] = NoTenant
        /\ pc'[r] \in {"begin", "context", "run"} => ctx'[r] # NoTenant
    <3>1. /\ pc'[r] = "context" /\ ctx'[r] = ctx[r] /\ conn'[r] = conn[r]
          /\ sess'[conn[r]] = Begun /\ pending'[conn[r]] = pending[conn[r]]
      BY <1>0, Sessions DEF TypeOK
    <3> QED
      BY <1>0, <3>1, PossibleAt DEF SessionMatches, Holding
  <2> QED
    BY <2>1, <2>2 DEF SessionMatches
<1>5. IdleClientsAreClean'
  BY Holder DEF TypeOK, IdleClientsAreClean, Holding
<1>6. SeesOwnTenantOnly'
  BY DEF TypeOK, SeesOwnTenantOnly
<1>7. PendingIsOwn'
  BY Holder DEF TypeOK, PendingIsOwn, HoldsWhenHolding, Holding
<1> QED
  BY <1>1, <1>2, <1>3, <1>4, <1>5, <1>6, <1>7

LEMMA SetContextInd ==
    ASSUME IndInv, NEW r \in Requests, SetContext(r)
    PROVE  IndInv'
<1> USE PoolsAssumption, SentinelsAssumption DEF IndInv, SetContext, callVars, poolVars
<1>0. conn[r] \in Conns /\ sess[conn[r]] = Begun /\ ctx[r] \in Contexts
  BY Holder, HeldSession DEF TypeOK, Holding
<1>1. TypeOK'
  BY <1>0, Sessions DEF TypeOK, Holding
<1>2. HoldsWhenHolding' /\ HeldOnce'
  BY DEF TypeOK, HoldsWhenHolding, HeldOnce, Holding
<1>3. QueuedOnce'
  BY DEF TypeOK, QueuedOnce
<1>4. SessionMatches'
  <2>1. \A s \in Requests \ {r} : /\ pc'[s] = pc[s] /\ ctx'[s] = ctx[s] /\ conn'[s] = conn[s]
                                  /\ pc[s] \in Holding => sess'[conn[s]] = sess[conn[s]]
                                                         /\ pending'[conn[s]] = pending[conn[s]]
    BY <1>0, Holder DEF TypeOK, Holding
  <2>2. /\ sess'[conn'[r]] \in Possible(pc'[r], ctx'[r])
        /\ pc'[r] \notin {"run", "rollback"} => pending'[conn'[r]] = {}
        /\ pc'[r] = "plain" => ctx'[r] = NoTenant
        /\ pc'[r] \in {"begin", "context", "run"} => ctx'[r] # NoTenant
    BY <1>0, PossibleAt, Sessions DEF TypeOK, SessionMatches, Holding
  <2> QED
    BY <2>1, <2>2 DEF SessionMatches
<1>5. IdleClientsAreClean'
  BY Holder DEF TypeOK, IdleClientsAreClean, Holding
<1>6. SeesOwnTenantOnly'
  BY DEF TypeOK, SeesOwnTenantOnly
<1>7. PendingIsOwn'
  BY Holder DEF TypeOK, PendingIsOwn, HoldsWhenHolding, Holding
<1> QED
  BY <1>1, <1>2, <1>3, <1>4, <1>5, <1>6, <1>7

LEMMA ReadInd ==
    ASSUME IndInv, NEW r \in Requests, Read(r)
    PROVE  IndInv'
<1> USE PoolsAssumption, SentinelsAssumption DEF IndInv, Read, poolVars, serverVars
<1>0. conn[r] \in Conns /\ sess[conn[r]] = WithContext(Begun, ctx[r]) /\ ctx[r] \in Contexts
  BY Holder, HeldSession DEF TypeOK, Holding
<1>1. TypeOK'
  BY DEF TypeOK, Contexts, Holding
<1>2. HoldsWhenHolding' /\ HeldOnce'
  BY DEF TypeOK, HoldsWhenHolding, HeldOnce, Holding
<1>3. QueuedOnce'
  BY DEF TypeOK, QueuedOnce
<1>4. SessionMatches'
  BY Holder DEF TypeOK, SessionMatches, Holding
<1>5. IdleClientsAreClean'
  BY Holder DEF TypeOK, IdleClientsAreClean, Holding
<1>6. SeesOwnTenantOnly'
  BY <1>0, VisibleIsDomain DEF TypeOK, SeesOwnTenantOnly
<1>7. PendingIsOwn'
  BY Holder DEF TypeOK, PendingIsOwn, HoldsWhenHolding, Holding
<1> QED
  BY <1>1, <1>2, <1>3, <1>4, <1>5, <1>6, <1>7

LEMMA WriteInd ==
    ASSUME IndInv, NEW r \in Requests, NEW t \in Tenants, NEW k \in Rows, Write(r, t, k)
    PROVE  IndInv'
<1> USE PoolsAssumption, SentinelsAssumption DEF IndInv, Write, callVars, poolVars
<1>0. conn[r] \in Conns /\ sess[conn[r]] = WithContext(Begun, ctx[r]) /\ ctx[r] \in Contexts
  BY Holder, HeldSession DEF TypeOK, Holding
<1>1. TypeOK'
  BY <1>0 DEF TypeOK, Holding
<1>2. HoldsWhenHolding' /\ HeldOnce'
  BY DEF TypeOK, HoldsWhenHolding, HeldOnce, Holding
<1>3. QueuedOnce'
  BY DEF TypeOK, QueuedOnce
<1>4. SessionMatches'
  BY Holder DEF TypeOK, SessionMatches, Holding
<1>5. IdleClientsAreClean'
  BY Holder DEF TypeOK, IdleClientsAreClean, Holding
<1>6. SeesOwnTenantOnly'
  BY DEF TypeOK, SeesOwnTenantOnly
<1>7. PendingIsOwn'
  <2>1. t \in Domain(ctx[r])
    BY <1>0, VisibleIsDomain
  <2> QED
    BY <1>0, <2>1, Holder DEF TypeOK, PendingIsOwn, HoldsWhenHolding, Holding
<1> QED
  BY <1>1, <1>2, <1>3, <1>4, <1>5, <1>6, <1>7

LEMMA CommitInd ==
    ASSUME IndInv, NEW r \in Requests, Commit(r)
    PROVE  IndInv'
<1> USE PoolsAssumption, SentinelsAssumption DEF IndInv, Commit, poolVars
<1>0. conn[r] \in Conns /\ sess[conn[r]] = WithContext(Begun, ctx[r]) /\ ctx[r] \in Contexts
  BY Holder, HeldSession DEF TypeOK, Holding
<1>1. TypeOK'
  <2>1. db' \in [Tenants -> [Rows -> Requests \cup {Initial}]]
    BY DEF TypeOK, Installed
  <2> QED
    BY <1>0, <2>1, Sessions DEF TypeOK, Holding
<1>2. HoldsWhenHolding' /\ HeldOnce'
  BY DEF TypeOK, HoldsWhenHolding, HeldOnce, Holding
<1>3. QueuedOnce'
  BY DEF TypeOK, QueuedOnce
<1>4. SessionMatches'
  <2>1. \A s \in Requests \ {r} : /\ pc'[s] = pc[s] /\ ctx'[s] = ctx[s] /\ conn'[s] = conn[s]
                                  /\ pc[s] \in Holding => sess'[conn[s]] = sess[conn[s]]
                                                         /\ pending'[conn[s]] = pending[conn[s]]
    BY <1>0, Holder DEF TypeOK, Holding
  <2>2. /\ sess'[conn'[r]] \in Possible(pc'[r], ctx'[r])
        /\ pc'[r] \notin {"run", "rollback"} => pending'[conn'[r]] = {}
        /\ pc'[r] = "plain" => ctx'[r] = NoTenant
        /\ pc'[r] \in {"begin", "context", "run"} => ctx'[r] # NoTenant
    BY <1>0, PossibleAt, Sessions DEF TypeOK, SessionMatches, Holding
  <2> QED
    BY <2>1, <2>2 DEF SessionMatches
<1>5. IdleClientsAreClean'
  BY Holder DEF TypeOK, IdleClientsAreClean, Holding
<1>6. SeesOwnTenantOnly'
  BY DEF TypeOK, SeesOwnTenantOnly
<1>7. PendingIsOwn'
  BY Holder DEF TypeOK, PendingIsOwn, HoldsWhenHolding, Holding
<1> QED
  BY <1>1, <1>2, <1>3, <1>4, <1>5, <1>6, <1>7

LEMMA HearCommitInd ==
    ASSUME IndInv, NEW r \in Requests, HearCommit(r)
    PROVE  IndInv'
<1> USE PoolsAssumption, SentinelsAssumption DEF IndInv, HearCommit, poolVars, serverVars
<1>1. TypeOK'
  BY DEF TypeOK, Holding
<1>2. HoldsWhenHolding' /\ HeldOnce'
  BY DEF TypeOK, HoldsWhenHolding, HeldOnce, Holding
<1>3. QueuedOnce'
  BY DEF TypeOK, QueuedOnce
<1>4. SessionMatches'
  BY Holder, HeldSession DEF TypeOK, SessionMatches, Holding, Possible
<1>5. IdleClientsAreClean'
  BY Holder DEF TypeOK, IdleClientsAreClean, Holding
<1>6. SeesOwnTenantOnly'
  BY DEF TypeOK, SeesOwnTenantOnly
<1>7. PendingIsOwn'
  BY Holder DEF TypeOK, PendingIsOwn, HoldsWhenHolding, Holding
<1> QED
  BY <1>1, <1>2, <1>3, <1>4, <1>5, <1>6, <1>7

LEMMA ThrowInd ==
    ASSUME IndInv, NEW r \in Requests, Throw(r)
    PROVE  IndInv'
<1> USE PoolsAssumption, SentinelsAssumption DEF IndInv, Throw, callVars, poolVars, serverVars
<1>1. TypeOK'
  BY DEF TypeOK, Contexts, Holding
<1>2. HoldsWhenHolding' /\ HeldOnce'
  BY DEF TypeOK, HoldsWhenHolding, HeldOnce, Holding
<1>3. QueuedOnce'
  BY DEF TypeOK, QueuedOnce
<1>4. SessionMatches'
  BY Holder, HeldSession, Sessions DEF TypeOK, SessionMatches, Holding, Possible
<1>5. IdleClientsAreClean'
  BY Holder DEF TypeOK, IdleClientsAreClean, Holding
<1>6. SeesOwnTenantOnly'
  BY DEF TypeOK, SeesOwnTenantOnly
<1>7. PendingIsOwn'
  BY Holder DEF TypeOK, PendingIsOwn, HoldsWhenHolding, Holding
<1> QED
  BY <1>1, <1>2, <1>3, <1>4, <1>5, <1>6, <1>7

LEMMA RollbackInd ==
    ASSUME IndInv, NEW r \in Requests, Rollback(r)
    PROVE  IndInv'
<1> USE PoolsAssumption, SentinelsAssumption DEF IndInv, Rollback, poolVars
<1>0. conn[r] \in Conns /\ ctx[r] \in Contexts /\ sess'[conn[r]] = Fresh
  BY Holder, HeldSession DEF TypeOK, Holding
<1>1. TypeOK'
  BY <1>0, Sessions DEF TypeOK, Holding
<1>2. HoldsWhenHolding' /\ HeldOnce'
  BY DEF TypeOK, HoldsWhenHolding, HeldOnce, Holding
<1>3. QueuedOnce'
  BY DEF TypeOK, QueuedOnce
<1>4. SessionMatches'
  <2>1. \A s \in Requests \ {r} : /\ pc'[s] = pc[s] /\ ctx'[s] = ctx[s] /\ conn'[s] = conn[s]
                                  /\ pc[s] \in Holding => sess'[conn[s]] = sess[conn[s]]
                                                         /\ pending'[conn[s]] = pending[conn[s]]
    BY <1>0, Holder DEF TypeOK, Holding
  <2>2. /\ sess'[conn'[r]] \in Possible(pc'[r], ctx'[r])
        /\ pc'[r] \notin {"run", "rollback"} => pending'[conn'[r]] = {}
        /\ pc'[r] = "plain" => ctx'[r] = NoTenant
        /\ pc'[r] \in {"begin", "context", "run"} => ctx'[r] # NoTenant
    BY <1>0, PossibleAt, Sessions DEF TypeOK, SessionMatches, Holding
  <2> QED
    BY <2>1, <2>2 DEF SessionMatches
<1>5. IdleClientsAreClean'
  BY Holder DEF TypeOK, IdleClientsAreClean, Holding
<1>6. SeesOwnTenantOnly'
  BY DEF TypeOK, SeesOwnTenantOnly
<1>7. PendingIsOwn'
  BY Holder DEF TypeOK, PendingIsOwn, HoldsWhenHolding, Holding
<1> QED
  BY <1>1, <1>2, <1>3, <1>4, <1>5, <1>6, <1>7

LEMMA ReleaseInd ==
    ASSUME IndInv, NEW r \in Requests, Release(r)
    PROVE  IndInv'
<1> USE PoolsAssumption, SentinelsAssumption DEF IndInv, Release, callVars, serverVars
<1>0. /\ conn[r] \in Conns /\ ctx[r] \in Contexts
      /\ pending[conn[r]] = {} /\ sess[conn[r]] = Fresh
  BY Holder, HeldSession DEF TypeOK, SessionMatches, Holding
<1>1. TypeOK'
  BY <1>0, Sessions DEF TypeOK, Holding
<1>2. HoldsWhenHolding' /\ HeldOnce'
  BY DEF TypeOK, HoldsWhenHolding, HeldOnce, Holding
<1>3. QueuedOnce'
  BY DEF TypeOK, QueuedOnce
<1>4. SessionMatches'
  BY Holder DEF TypeOK, SessionMatches, Holding
<1>5. IdleClientsAreClean'
  BY <1>0, Holder DEF TypeOK, IdleClientsAreClean, Holding
<1>6. SeesOwnTenantOnly'
  BY DEF TypeOK, SeesOwnTenantOnly
<1>7. PendingIsOwn'
  BY Holder DEF TypeOK, PendingIsOwn, HoldsWhenHolding, Holding
<1> QED
  BY <1>1, <1>2, <1>3, <1>4, <1>5, <1>6, <1>7

LEMMA PlainQueryInd ==
    ASSUME IndInv, NEW r \in Requests, PlainQuery(r)
    PROVE  IndInv'
<1> USE PoolsAssumption, SentinelsAssumption DEF IndInv, PlainQuery, poolVars, serverVars
<1>1. TypeOK'
  <2>1. {t \in Tenants : Visible(sess[conn[r]], t)} \in SUBSET Tenants
    OBVIOUS
  <2>2. seen' \in [Requests -> SUBSET Tenants]
    BY <2>1 DEF TypeOK
  <2>3. landed' \in [Requests -> BOOLEAN]
    BY DEF TypeOK
  <2>4. result' \in [Requests -> {"none", "ok", "error"}]
    BY DEF TypeOK
  <2> QED
    BY <2>2, <2>3, <2>4 DEF TypeOK, Holding
<1>2. HoldsWhenHolding' /\ HeldOnce'
  BY DEF TypeOK, HoldsWhenHolding, HeldOnce, Holding
<1>3. QueuedOnce'
  BY DEF TypeOK, QueuedOnce
<1>4. SessionMatches'
  BY Holder, HeldSession DEF TypeOK, SessionMatches, Holding, Possible
<1>5. IdleClientsAreClean'
  BY Holder DEF TypeOK, IdleClientsAreClean, Holding
<1>6. SeesOwnTenantOnly'
  <2>1. sess[conn[r]] = Fresh
    BY Holder, HeldSession DEF Holding
  <2>2. seen'[r] \subseteq seen[r]
    BY <2>1, VisibleIsDomain DEF TypeOK, Contexts
  <2> QED
    BY <2>2 DEF TypeOK, SeesOwnTenantOnly
<1>7. PendingIsOwn'
  BY Holder DEF TypeOK, PendingIsOwn, HoldsWhenHolding, Holding
<1> QED
  BY <1>1, <1>2, <1>3, <1>4, <1>5, <1>6, <1>7

\* Who is first in a queue waits, and holds nothing.
LEMMA HeadWaits ==
    ASSUME IndInv, NEW p \in Pools, queue[p] # <<>>
    PROVE  /\ Head(queue[p]) \in Requests /\ Head(queue[p]) = queue[p][1]
           /\ pc[Head(queue[p])] = "waiting" /\ conn[Head(queue[p])] = NoConn
           /\ Len(queue[p]) \in Nat /\ Len(queue[p]) > 0
<1>1. queue[p] \in Seq(Requests)
  BY DEF IndInv, TypeOK
<1>2. /\ Len(queue[p]) \in Nat /\ Len(queue[p]) > 0
      /\ Head(queue[p]) = queue[p][1] /\ Head(queue[p]) \in Requests
  BY <1>1
<1>3. pc[Head(queue[p])] = "waiting"
  BY <1>2 DEF IndInv, QueuedOnce
<1> QED
  BY <1>2, <1>3 DEF IndInv, HoldsWhenHolding, Holding

\* The queues stay in order when the first of one goes on.
LEMMA HeadLeaves ==
    ASSUME IndInv, NEW p \in Pools, queue[p] # <<>>, NEW a,
           pc' = [pc EXCEPT ![Head(queue[p])] = a], queue' = [queue EXCEPT ![p] = Tail(@)]
    PROVE  QueuedOnce'
<1> USE DEF IndInv
<1> DEFINE h == Head(queue[p])
<1>0. /\ h \in Requests /\ h = queue[p][1] /\ Len(queue[p]) \in Nat /\ Len(queue[p]) > 0
      /\ pc' = [pc EXCEPT ![h] = a]
  BY HeadWaits
<1> HIDE DEF h
<1>1. /\ queue'[p] = Tail(queue[p])
      /\ \A q \in Pools \ {p} : queue'[q] = queue[q]
      /\ \A q \in Pools : queue[q] \in Seq(Requests)
  BY DEF TypeOK
<1>2. /\ Len(queue'[p]) = Len(queue[p]) - 1
      /\ \A i \in 1..Len(queue'[p]) : queue'[p][i] = queue[p][i + 1]
  <2>1. queue[p] \in Seq(Requests) /\ queue[p] # <<>>
    BY DEF TypeOK
  <2> DEFINE q == queue[p]
  <2>2. /\ Len(Tail(q)) = Len(q) - 1
        /\ \A i \in 1..Len(Tail(q)) : Tail(q)[i] = q[i + 1]
    <3> HIDE DEF q
    <3> QED
      BY <2>1, HeadTailProperties DEF q
  <2> QED
    BY <2>2, <1>1
<1>3. \A q \in Pools : \A i \in 1..Len(queue'[q]) :
          /\ queue'[q][i] # h
          /\ queue'[q][i] = queue[q][IF q = p THEN i + 1 ELSE i]
          /\ (IF q = p THEN i + 1 ELSE i) \in 1..Len(queue[q])
  BY <1>0, <1>1, <1>2 DEF QueuedOnce
<1>4. \A s \in Requests : s # h => pc'[s] = pc[s]
  BY <1>0 DEF TypeOK
<1>5. \A q \in Pools : \A i \in 1..Len(queue[q]) : queue[q][i] \in Requests
  BY <1>1
<1>6. \A q \in Pools : \A i \in 1..Len(queue'[q]) : pc'[queue'[q][i]] = "waiting"
  BY <1>3, <1>4, <1>5 DEF QueuedOnce
<1>7. \A q1, q2 \in Pools : \A i \in 1..Len(queue'[q1]), j \in 1..Len(queue'[q2]) :
          queue'[q1][i] = queue'[q2][j] => q1 = q2 /\ i = j
  BY <1>3 DEF QueuedOnce
<1> QED
  BY <1>6, <1>7 DEF QueuedOnce

LEMMA GrantInd ==
    ASSUME IndInv, NEW p \in Pools, NEW c \in Conns, Grant(p, c)
    PROVE  IndInv'
<1> USE PoolsAssumption, SentinelsAssumption DEF IndInv, Grant, callVars, serverVars
<1> DEFINE h == Head(queue[p])
<1>0. h \in Requests /\ h = queue[p][1] /\ pc[h] = "waiting" /\ conn[h] = NoConn
  BY HeadWaits
<1> HIDE DEF h
<1>1. TypeOK'
  BY <1>0 DEF TypeOK, Contexts, Holding, h
<1>2. HoldsWhenHolding' /\ HeldOnce'
  BY <1>0 DEF TypeOK, HoldsWhenHolding, HeldOnce, Holding, h
<1>3. QueuedOnce'
  BY HeadLeaves
<1>4. SessionMatches'
  <2>1. \A s \in Requests \ {h} : pc'[s] = pc[s] /\ ctx'[s] = ctx[s] /\ conn'[s] = conn[s]
    BY <1>0 DEF TypeOK, h
  <2>2. conn'[h] = c /\ pc'[h] = IF ctx[h] = NoTenant THEN "plain" ELSE "begin"
    BY <1>0 DEF TypeOK, h
  <2>3. sess[c] = Fresh /\ pending[c] = {}
    BY DEF IdleClientsAreClean
  <2> QED
    <3>1. /\ sess'[conn'[h]] \in Possible(pc'[h], ctx'[h]) /\ pending'[conn'[h]] = {}
          /\ pc'[h] = "plain" => ctx'[h] = NoTenant
          /\ pc'[h] \in {"begin", "context", "run"} => ctx'[h] # NoTenant
      BY <2>2, <2>3, PossibleAt
    <3> QED
      BY <1>0, <2>1, <3>1 DEF SessionMatches
<1>5. IdleClientsAreClean'
  BY <1>0 DEF TypeOK, IdleClientsAreClean, h
<1>6. SeesOwnTenantOnly'
  BY DEF TypeOK, SeesOwnTenantOnly
<1>7. PendingIsOwn'
  BY <1>0, Holder DEF TypeOK, PendingIsOwn, HoldsWhenHolding, Holding, IdleClientsAreClean, h
<1> QED
  BY <1>1, <1>2, <1>3, <1>4, <1>5, <1>6, <1>7

LEMMA ConnectFailsInd ==
    ASSUME IndInv, NEW p \in Pools, ConnectFails(p)
    PROVE  IndInv'
<1> USE PoolsAssumption, SentinelsAssumption DEF IndInv, ConnectFails, serverVars
<1> DEFINE h == Head(queue[p])
<1>0. h \in Requests /\ h = queue[p][1] /\ pc[h] = "waiting" /\ conn[h] = NoConn
  BY HeadWaits
<1> HIDE DEF h
<1>1. TypeOK'
  BY <1>0 DEF TypeOK, Contexts, Holding, h
<1>2. HoldsWhenHolding' /\ HeldOnce'
  BY <1>0 DEF TypeOK, HoldsWhenHolding, HeldOnce, Holding, h
<1>3. QueuedOnce'
  BY HeadLeaves
<1>4. SessionMatches'
  BY <1>0, Holder DEF TypeOK, SessionMatches, Holding, h
<1>5. IdleClientsAreClean'
  BY DEF TypeOK, IdleClientsAreClean
<1>6. SeesOwnTenantOnly'
  BY DEF TypeOK, SeesOwnTenantOnly
<1>7. PendingIsOwn'
  BY DEF TypeOK, PendingIsOwn
<1> QED
  BY <1>1, <1>2, <1>3, <1>4, <1>5, <1>6, <1>7

LEMMA ProcessDiesInd ==
    ASSUME IndInv, NEW c \in Conns, ProcessDies(c)
    PROVE  IndInv'
<1> USE PoolsAssumption, SentinelsAssumption DEF IndInv, ProcessDies
<1>1. TypeOK'
  BY DEF TypeOK, Session, SessionType, Fresh
<1>2. HoldsWhenHolding' /\ HeldOnce'
  BY DEF HoldsWhenHolding, HeldOnce, Holding
<1>3. QueuedOnce'
  BY DEF QueuedOnce
<1>4. SessionMatches'
  BY DEF SessionMatches, Holding
<1>5. IdleClientsAreClean'
  BY DEF IdleClientsAreClean
<1>6. SeesOwnTenantOnly'
  BY DEF SeesOwnTenantOnly
<1>7. PendingIsOwn'
  BY DEF PendingIsOwn
<1> QED
  BY <1>1, <1>2, <1>3, <1>4, <1>5, <1>6, <1>7

LEMMA NextInd == IndInv /\ [Next]_vars => IndInv'
<1> SUFFICES ASSUME IndInv, [Next]_vars PROVE IndInv'
  OBVIOUS
<1> USE PoolsAssumption DEF Contexts
<1>1. ASSUME NEW r \in Requests, Call(r) PROVE IndInv'
  BY <1>1, EnqueueInd, RefuseNoTenantInd
     DEF Call, CallWithTenant, CallWithSuperAdmin, CallPoolQuery
<1>2. ASSUME NEW r \in Requests, Advance(r) PROVE IndInv'
  BY <1>2, BeginInd, SetContextInd, CommitInd, HearCommitInd, ThrowInd,
     RollbackInd, PlainQueryInd, ReleaseInd DEF Advance
<1>3. CASE UNCHANGED vars
  BY <1>3, SMTT(30) DEF vars, IndInv, TypeOK, HoldsWhenHolding, HeldOnce, QueuedOnce,
     SessionMatches, IdleClientsAreClean, SeesOwnTenantOnly, PendingIsOwn
<1> QED
  BY <1>1, <1>2, <1>3, ReadInd, WriteInd, GrantInd, ConnectFailsInd, ProcessDiesInd DEF Next

\* Every behaviour keeps the inductive invariant.
THEOREM Invariance == Spec => []IndInv
BY InitInd, NextInd, PTL DEF Spec

\* The variables of client.js's calls, pools and sessions keep their types,
\* for every number of tenants, calls and clients.
THEOREM TypeCorrect == Spec => []TypeOK
<1>1. IndInv => TypeOK
  BY DEF IndInv
<1> QED
  BY <1>1, Invariance, PTL

-----------------------------------------------------------------------------
(***************************************************************************)
(* What the invariant gives.                                               *)
(***************************************************************************)

\* client.js:6-8: a client comes back to its pool with no transaction, no
\* context and no uncommitted write, whichever way its call ended.
THEOREM NoContextLeaks == Spec => []IdleClientsAreClean
<1>1. IndInv => IdleClientsAreClean
  BY DEF IndInv
<1> QED
  BY <1>1, Invariance, PTL

\* The finally block gives every client back once: none is lost to the pool
\* and none is used by two calls.
THEOREM NoClientLeaks == Spec => []ClientsAreConserved
<1>1. ASSUME IndInv PROVE ClientsAreConserved
  <2>1. ASSUME NEW c \in Conns, c \in idle PROVE {r \in Requests : conn[r] = c} = {}
    BY <1>1, <2>1 DEF IndInv, HeldOnce
  <2>2. ASSUME NEW c \in Conns, c \notin idle
        PROVE  \E r \in Requests : {s \in Requests : conn[s] = c} = {r} /\ pc[r] \in Holding
    <3>1. PICK r \in Requests : conn[r] = c
      BY <1>1, <2>2 DEF IndInv, HeldOnce
    <3>2. conn[r] # NoConn
      BY <3>1, SentinelsAssumption
    <3>3. pc[r] \in Holding /\ \A s \in Requests : conn[s] = c => s = r
      BY <1>1, <3>1, <3>2 DEF IndInv, HeldOnce, HoldsWhenHolding
    <3> QED
      BY <3>1, <3>3
  <2> QED
    BY <2>1, <2>2 DEF ClientsAreConserved
<1> QED
  BY <1>1, Invariance, PTL

\* Row-level security and the transaction-local context together: no call is
\* ever shown a row of another tenant.
THEOREM ReadIsolation == Spec => []SeesOwnTenantOnly
<1>1. IndInv => SeesOwnTenantOnly
  BY DEF IndInv
<1> QED
  BY <1>1, Invariance, PTL

\* No call ever holds an uncommitted write of another tenant's row.
THEOREM WriteIsolation == Spec => []PendingIsOwn
<1>1. IndInv => PendingIsOwn
  BY DEF IndInv
<1> QED
  BY <1>1, Invariance, PTL
-----------------------------------------------------------------------------
(***************************************************************************)
(* The implementation of TenantStore.                                      *)
(***************************************************************************)

\* A call that has not reached its COMMIT has not taken effect, and a call
\* about to answer "ok" has.
OutcomeMatches ==
    \A r \in Requests :
        /\ pc[r] \in {"waiting", "begin", "context", "run", "plain"} => landed[r] = FALSE
        /\ pc[r] = "committed" => landed[r] = TRUE
        /\ pc[r] = "release" => result[r] \in {"ok", "error"}
        /\ pc[r] = "release" /\ result[r] = "ok" => landed[r] = TRUE

RefInv == IndInv /\ OutcomeMatches

LEMMA OutcomeInd == RefInv /\ [Next]_vars => OutcomeMatches'
<1> SUFFICES ASSUME RefInv, [Next]_vars PROVE OutcomeMatches'
  OBVIOUS
<1> USE DEF RefInv, IndInv, OutcomeMatches, TypeOK
<1>1. ASSUME NEW r \in Requests, NEW x, NEW p, Enqueue(r, x, p) PROVE OutcomeMatches'
  BY <1>1 DEF Enqueue
<1>2. ASSUME NEW r \in Requests, RefuseNoTenant(r) PROVE OutcomeMatches'
  BY <1>2 DEF RefuseNoTenant
<1>3. ASSUME NEW r \in Requests, Call(r) PROVE OutcomeMatches'
  BY <1>1, <1>2, <1>3 DEF Call, CallWithTenant, CallWithSuperAdmin, CallPoolQuery
<1>4. ASSUME NEW r \in Requests, Begin(r) \/ SetContext(r) \/ Read(r) \/ Throw(r)
      PROVE  OutcomeMatches'
  BY <1>4 DEF Begin, SetContext, Read, Throw, callVars
<1>5. ASSUME NEW r \in Requests, Commit(r) \/ HearCommit(r) PROVE OutcomeMatches'
  BY <1>5, ZenonT(60) DEF Commit, HearCommit
<1>6. ASSUME NEW r \in Requests, Rollback(r) \/ PlainQuery(r) PROVE OutcomeMatches'
  BY <1>6, ZenonT(60) DEF Rollback, PlainQuery
<1>7. ASSUME NEW r \in Requests, Release(r) PROVE OutcomeMatches'
  BY <1>7 DEF Release, callVars
<1>8. ASSUME NEW r \in Requests, NEW t, NEW k, Write(r, t, k) PROVE OutcomeMatches'
  BY <1>8 DEF Write, callVars
<1>9. ASSUME NEW p \in Pools, NEW c \in Conns, Grant(p, c) PROVE OutcomeMatches'
  BY <1>9, HeadWaits DEF Grant, callVars
<1>10. ASSUME NEW p \in Pools, ConnectFails(p) PROVE OutcomeMatches'
  BY <1>10, HeadWaits DEF ConnectFails
<1>12. ASSUME NEW c \in Conns, ProcessDies(c) PROVE OutcomeMatches'
  BY <1>12 DEF ProcessDies
<1>11. CASE UNCHANGED vars
  BY <1>11 DEF vars
<1> QED
  BY <1>3, <1>4, <1>5, <1>6, <1>7, <1>8, <1>9, <1>10, <1>11, <1>12 DEF Next, Advance

LEMMA InstalledNothing == ASSUME TypeOK, NEW r PROVE Installed(r, {}) = db
BY DEF TypeOK, Installed

\* A step of the pooled implementation is one step of the store or none.
LEMMA StoreStep == RefInv /\ [Next]_vars => [Store!Next]_Store!vars
<1> SUFFICES ASSUME RefInv, [Next]_vars PROVE [Store!Next]_Store!vars
  OBVIOUS
<1> USE SentinelsAssumption DEF RefInv, IndInv, TypeOK, callState, CallState
<1>1. ASSUME NEW r \in Requests, NEW x \in Contexts, NEW p \in Pools, Enqueue(r, x, p)
      PROVE  Store!Invoke(r, x)
  BY <1>1 DEF Enqueue, Store!Invoke, Store!Answered
<1>2. ASSUME NEW r \in Requests, RefuseNoTenant(r) PROVE Store!Refuse(r)
  BY <1>2 DEF RefuseNoTenant, Store!Refuse, Store!Answered, serverVars
<1>3. ASSUME NEW r \in Requests, Call(r) PROVE Store!Next
  BY <1>1, <1>2, <1>3, PoolsAssumption
     DEF Call, CallWithTenant, CallWithSuperAdmin, CallPoolQuery, Store!Next,
         Contexts, Store!Contexts
<1>4. ASSUME NEW r \in Requests, Begin(r) \/ SetContext(r) \/ Read(r) \/ Throw(r)
      PROVE  UNCHANGED Store!vars
  BY <1>4 DEF Begin, SetContext, Read, Throw, callVars, serverVars, Store!vars, Holding
<1>5. ASSUME NEW r \in Requests, Commit(r) PROVE Store!Apply(r)
  <2>1. pc[r] = "run" /\ conn[r] \in Conns /\ conn[r] # NoConn
    BY <1>5, Holder DEF Commit, Holding
  <2>2. pending[conn[r]] \in SUBSET Store!Territory(ctx[r])
    <3>1. ASSUME NEW w \in pending[conn[r]] PROVE w \in Store!Territory(ctx[r])
      <4>1. w \in Tenants \X Rows /\ w[1] \in Domain(ctx[r])
        BY <2>1 DEF PendingIsOwn
      <4> QED
        BY <4>1 DEF Domain, Store!Territory
    <3> QED
      BY <3>1
  <2>3. db' = Store!Overwrite(r, pending[conn[r]])
    BY <1>5 DEF Commit, Installed, Store!Overwrite
  <2>4. callState[r] = "open" /\ callState' = [callState EXCEPT ![r] = "applied"]
    <3>1. callState[r] = "open"
      BY <2>1 DEF OutcomeMatches
    <3>2. pc'[r] # "idle" /\ landed'[r] = TRUE
      BY <1>5, ZenonT(60) DEF Commit
    <3>3. \A s \in Requests \ {r} :
            pc'[s] = pc[s] /\ landed'[s] = landed[s] /\ result'[s] = result[s]
      BY <1>5, ZenonT(60) DEF Commit
    <3> QED
      BY <3>1, <3>2, <3>3
  <2> QED
    BY <1>5, <2>2, <2>3, <2>4 DEF Store!Apply, Commit
<1>6. ASSUME NEW r \in Requests, Rollback(r) \/ HearCommit(r) PROVE UNCHANGED Store!vars
  BY <1>6 DEF Rollback, HearCommit, serverVars, Store!vars, OutcomeMatches
<1>7. ASSUME NEW r \in Requests, PlainQuery(r) PROVE Store!Apply(r) \/ UNCHANGED Store!vars
  <2>1. CASE landed' = [landed EXCEPT ![r] = TRUE]
    <3>1. {} \in SUBSET Store!Territory(ctx[r])
      OBVIOUS
    <3>2. db' = Store!Overwrite(r, {})
      BY <1>7, InstalledNothing DEF PlainQuery, serverVars, Installed, Store!Overwrite
    <3>3. callState[r] = "open" /\ callState' = [callState EXCEPT ![r] = "applied"]
      BY <1>7, <2>1, ZenonT(60) DEF PlainQuery, OutcomeMatches
    <3> QED
      BY <1>7, <3>1, <3>2, <3>3 DEF Store!Apply, PlainQuery
  <2>2. CASE UNCHANGED landed
    BY <1>7, <2>2 DEF PlainQuery, serverVars, Store!vars
  <2> QED
    BY <1>7, <2>1, <2>2 DEF PlainQuery
<1>8. ASSUME NEW r \in Requests, Release(r) PROVE Store!Succeed(r) \/ Store!Fail(r)
  <2>1. CASE result[r] = "ok"
    <3>1. /\ pc[r] = "release" /\ pc' = [pc EXCEPT ![r] = "idle"]
          /\ UNCHANGED <<ctx, db, landed, result>>
      BY <1>8 DEF Release, callVars, serverVars
    <3>2. callState' = [callState EXCEPT ![r] = "ok"] /\ callState[r] \in {"open", "applied"}
      BY <2>1, <3>1
    <3> QED
      BY <2>1, <3>1, <3>2 DEF OutcomeMatches, Store!Succeed
  <2>2. CASE result[r] = "error"
    <3>1. /\ pc[r] = "release" /\ pc' = [pc EXCEPT ![r] = "idle"]
          /\ UNCHANGED <<ctx, db, landed, result>>
      BY <1>8 DEF Release, callVars, serverVars
    <3>2. callState' = [callState EXCEPT ![r] = "error"] /\ callState[r] \in {"open", "applied"}
      BY <2>2, <3>1
    <3> QED
      BY <2>2, <3>1, <3>2 DEF OutcomeMatches, Store!Fail
  <2> QED
    BY <1>8, <2>1, <2>2 DEF Release, OutcomeMatches
<1>9. ASSUME NEW r \in Requests, NEW t, NEW k, Write(r, t, k) PROVE UNCHANGED Store!vars
  BY <1>9 DEF Write, callVars, Store!vars
<1>10. ASSUME NEW p \in Pools, NEW c \in Conns, Grant(p, c) PROVE UNCHANGED Store!vars
  BY <1>10, HeadWaits DEF Grant, callVars, serverVars, Store!vars
<1>11. ASSUME NEW p \in Pools, ConnectFails(p) PROVE \E r \in Requests : Store!Fail(r)
  <2>1. PICK r \in Requests : r = Head(queue[p])
    BY <1>11, HeadWaits DEF ConnectFails
  <2>2. Store!Fail(r)
    BY <1>11, <2>1, HeadWaits DEF ConnectFails, serverVars, OutcomeMatches, Store!Fail
  <2> QED
    BY <2>2
<1>13. ASSUME NEW c \in Conns, ProcessDies(c) PROVE Store!Break
  BY <1>13 DEF ProcessDies, Store!Break
<1>12. CASE UNCHANGED vars
  BY <1>12 DEF vars, Store!vars
<1> QED
  <2>1. ASSUME NEW r \in Requests, Advance(r) PROVE [Store!Next]_Store!vars
    BY <1>4, <1>5, <1>6, <1>7, <1>8, <2>1 DEF Advance, Store!Next
  <2>2. ASSUME NEW p \in Pools, ConnectFails(p) PROVE Store!Next
    BY <1>11, <2>2 DEF Store!Next
  <2>3. ASSUME NEW c \in Conns, ProcessDies(c) PROVE Store!Next
    BY <1>13, <2>3 DEF Store!Next
  <2> QED
    BY <1>3, <1>4, <1>9, <1>10, <1>12, <2>1, <2>2, <2>3 DEF Next

\* Each call takes effect at most once, at once, on its own tenant's rows, and
\* has taken effect whenever its caller is told so.
THEOREM Refinement == Spec => RefinesTenantStore
<1>1. Init => RefInv
  BY InitInd DEF RefInv, OutcomeMatches, Init
<1>2. RefInv /\ [Next]_vars => RefInv'
  BY NextInd, OutcomeInd DEF RefInv
<1>3. Init => Store!Init
  BY DEF Init, Store!Init, callState, CallState
<1> QED
  BY <1>1, <1>2, <1>3, StoreStep, PTL DEF Spec, RefinesTenantStore, Store!Spec

=============================================================================
