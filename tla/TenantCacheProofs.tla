-------------------------- MODULE TenantCacheProofs --------------------------
(***************************************************************************)
(* Theorems about TenantCache, for any number of readers and writers, any  *)
(* of the keys and updates, with or without a replica.                     *)
(***************************************************************************)
EXTENDS TenantCache, TLAPS

-----------------------------------------------------------------------------
(***************************************************************************)
(* The tables.                                                             *)
(***************************************************************************)

\* The keys and the updates, by name.
LEMMA Names ==
    /\ AllKeys = {"theme", "config", "public", "portal", "gateway", "categories", "services"}
    /\ AllKinds = {"theme", "step", "business", "category", "service", "admin"}
  BY DEF AllKeys, AllKinds, Reads, Writes

\* Loaders select facts, and what is promised of an entry is part of it.
LEMMA ReadsAreFacts == \A k \in AllKeys : Reads[k] \subseteq Facts /\ Promised(k) \subseteq Reads[k]
  BY Names DEF Reads, Facts, Promised

\* Updates write a fact, and clear keys.
LEMMA WritesAreFacts == \A x \in AllKinds : Writes[x] \in Facts /\ x # "none"
  BY Names DEF Writes, Facts

\* The heart of the matter: whatever handler writes a fact clears every entry
\* that is promised to follow it.
LEMMA PromisesAreKept ==
    \A x \in AllKinds, k \in AllKeys : Writes[x] \in Promised(k) => k \in Clears[x]
  BY Names DEF Writes, Clears, Promised, TenantKeys

-----------------------------------------------------------------------------
(***************************************************************************)
(* The inductive invariant.  StaleIsExplained alone is not inductive: a    *)
(* scan that overlooks a key takes away the writer that explained it.  A   *)
(* key that was filled since the scan began needs no such writer, though:  *)
(* what the fill missed is in late.                                        *)
(***************************************************************************)

\* A writer that is bound to clear k.
Owes(w, k, f) == ClearsNext(w, k, f) /\ k \notin since[w]

StaleIsOwed ==
    \A k \in Keys : cache[k] # NoEntry =>
        \A f \in Promised(k) : cache[k][f] # db[f] =>
            f \in late[k] \/ \E w \in Writers : Owes(w, k, f)

\* What a loader returned is the newest version but for the writes noted since.
FillsAreExplained ==
    \A r \in Readers : got[r] # NoEntry =>
        \A f \in Promised(rkey[r]) : got[r][f] # db[f] => f \in lag[r]

\* A writer at rest has nothing to clear.
RestIsRest == \A w \in Writers : kind[w] = "none" => todo[w] = {} /\ since[w] = {}

IInv == TypeOK /\ StaleIsOwed /\ FillsAreExplained /\ RestIsRest

LEMMA InitIInv == Init => IInv
<1> SUFFICES ASSUME Init PROVE IInv
  OBVIOUS
<1>1. TypeOK
  BY DEF Init, TypeOK, Entry, Facts
<1> QED
  BY <1>1 DEF Init, IInv, StaleIsOwed, FillsAreExplained, RestIsRest

\* A snapshot is an entry.
LEMMA SnapshotIsEntry ==
    ASSUME CacheAssumption, NEW k \in Keys, NEW v \in [Facts -> Nat]
    PROVE  /\ Snapshot(k, v) \in [Reads[k] -> Nat]
           /\ Snapshot(k, v) # NoEntry
           /\ \A f \in Promised(k) : Snapshot(k, v)[f] = v[f]
           /\ \A f \in Promised(k) : f \in Reads[k] /\ f \in Facts
<1>1. Reads[k] \subseteq Facts /\ Promised(k) \subseteq Reads[k]
  BY ReadsAreFacts DEF CacheAssumption
<1>2. Snapshot(k, v) \in [Reads[k] -> Nat]
  BY <1>1 DEF Snapshot
<1>3. NoEntry \notin [Reads[k] -> Nat]
  BY DEF CacheAssumption
<1> QED
  BY <1>1, <1>2, <1>3 DEF Snapshot

-----------------------------------------------------------------------------
(***************************************************************************)
(* The readers.                                                            *)
(***************************************************************************)

LEMMA LookupKeeps ==
    ASSUME IInv, CacheAssumption, NEW r \in Readers, NEW k \in Keys, Lookup(r, k)
    PROVE  IInv'
<1>1. UNCHANGED <<db, replica, cache, late, got, lag, writerVars>>
  BY DEF Lookup
<1>2. rkey[r] = NoKey /\ rkey' = [rkey EXCEPT ![r] = IF cache[k] = NoEntry THEN k ELSE NoKey]
  BY DEF Lookup
<1>3. TypeOK'
  BY <1>1, <1>2 DEF IInv, TypeOK, Entry, CacheAssumption, writerVars
<1>4. FillsAreExplained'
  BY <1>1, <1>2 DEF IInv, TypeOK, FillsAreExplained
<1> QED
  BY <1>1, <1>3, <1>4 DEF IInv, StaleIsOwed, Owes, ClearsNext, Clearing, RestIsRest, writerVars

LEMMA LoadKeeps ==
    ASSUME IInv, CacheAssumption, NEW r \in Readers, Load(r) PROVE IInv'
<1> DEFINE k == rkey[r]
<1>1. k \in Keys /\ k # NoKey
  BY DEF Load, IInv, TypeOK
<1>2. Source(k) \in [Facts -> Nat]
  BY DEF Source, IInv, TypeOK
<1>3. /\ got' = [got EXCEPT ![r] = Snapshot(k, Source(k))]
      /\ lag' = [lag EXCEPT ![r] = {f \in Reads[k] : Source(k)[f] # db[f]}]
      /\ UNCHANGED <<db, replica, cache, late, rkey, writerVars>>
  BY DEF Load
<1> HIDE DEF k
<1>4. Reads[k] \subseteq Facts
  BY <1>1, ReadsAreFacts DEF CacheAssumption
<1>5. TypeOK'
  <2>1. DOMAIN got' = Readers /\ lag' \in [Readers -> SUBSET Facts]
    BY <1>3, <1>4 DEF IInv, TypeOK
  <2>2. \A u \in Readers : IF rkey'[u] = NoKey THEN got'[u] = NoEntry ELSE got'[u] \in Entry(rkey'[u])
    <3> SUFFICES ASSUME NEW u \in Readers
                 PROVE  IF rkey'[u] = NoKey THEN got'[u] = NoEntry ELSE got'[u] \in Entry(rkey'[u])
      OBVIOUS
    <3>1. CASE u = r
      <4>1. got'[u] = Snapshot(k, Source(k)) /\ rkey'[u] = k
        BY <3>1, <1>3 DEF IInv, TypeOK, k
      <4> QED
        BY <4>1, <1>1, <1>2, SnapshotIsEntry DEF Entry
    <3>2. CASE u # r
      BY <3>2, <1>3 DEF IInv, TypeOK
    <3> QED
      BY <3>1, <3>2
  <2> QED
    BY <1>3, <2>1, <2>2 DEF IInv, TypeOK, writerVars
<1>6. FillsAreExplained'
  <2> SUFFICES ASSUME NEW u \in Readers, got'[u] # NoEntry,
                      NEW f \in Promised(rkey'[u]), got'[u][f] # db'[f]
               PROVE  f \in lag'[u]
    BY DEF FillsAreExplained
  <2>1. CASE u = r
    <3>1. got'[u] = Snapshot(k, Source(k)) /\ rkey'[u] = k
      BY <2>1, <1>3 DEF IInv, TypeOK, k
    <3>2. f \in Reads[k] /\ got'[u][f] = Source(k)[f]
      BY <3>1, <1>1, <1>2, SnapshotIsEntry
    <3> QED
      BY <2>1, <3>2, <1>3 DEF IInv, TypeOK
  <2>2. CASE u # r
    BY <2>2, <1>3 DEF IInv, TypeOK, FillsAreExplained
  <2> QED
    BY <2>1, <2>2
<1> QED
  BY <1>3, <1>5, <1>6 DEF IInv, StaleIsOwed, Owes, ClearsNext, Clearing, RestIsRest, writerVars

\* SETEX: the entry is explained by what its loader is known to have missed.
LEMMA FillKeeps ==
    ASSUME IInv, CacheAssumption, NEW r \in Readers, Fill(r),
           UNCHANGED <<db, kind, todo>>
    PROVE  /\ DOMAIN cache' = Keys /\ \A k \in Keys : cache'[k] \in Entry(k)
           /\ late' \in [Keys -> SUBSET Facts]
           /\ since' \in [Writers -> SUBSET Keys]
           /\ StaleIsOwed'
           /\ RestIsRest'
<1>1. /\ rkey[r] \in Keys /\ got[r] # NoEntry /\ got[r] \in Entry(rkey[r])
      /\ cache' = [cache EXCEPT ![rkey[r]] = got[r]]
      /\ late' = [late EXCEPT ![rkey[r]] = lag[r]]
      /\ since' = [w \in Writers |-> IF kind[w] = "service" THEN since[w] \cup {rkey[r]} ELSE {}]
  BY DEF Fill, IInv, TypeOK
<1>2. DOMAIN cache' = Keys /\ \A k \in Keys : cache'[k] \in Entry(k)
  BY <1>1 DEF IInv, TypeOK
<1>3. late' \in [Keys -> SUBSET Facts] /\ since' \in [Writers -> SUBSET Keys]
  BY <1>1 DEF IInv, TypeOK
<1>4. StaleIsOwed'
  <2> SUFFICES ASSUME NEW k \in Keys, cache'[k] # NoEntry,
                      NEW f \in Promised(k), cache'[k][f] # db[f]
               PROVE  f \in late'[k] \/ \E w \in Writers : Owes(w, k, f)'
    BY DEF StaleIsOwed
  <2>1. CASE k = rkey[r]
    BY <2>1, <1>1 DEF IInv, TypeOK, FillsAreExplained
  <2>2. CASE k # rkey[r]
    <3>1. cache'[k] = cache[k] /\ late'[k] = late[k]
      BY <2>2, <1>1 DEF IInv, TypeOK
    <3>2. \A w \in Writers : Owes(w, k, f) => Owes(w, k, f)'
      BY <2>2, <1>1 DEF Owes, ClearsNext, Clearing
    <3> QED
      BY <3>1, <3>2 DEF IInv, StaleIsOwed
  <2> QED
    BY <2>1, <2>2
<1>5. RestIsRest'
  BY <1>1 DEF IInv, RestIsRest
<1> QED
  BY <1>2, <1>3, <1>4, <1>5

LEMMA StoreKeeps ==
    ASSUME IInv, CacheAssumption, NEW r \in Readers, Store(r) PROVE IInv'
<1>1. /\ Fill(r)
      /\ rkey' = [rkey EXCEPT ![r] = NoKey]
      /\ got' = [got EXCEPT ![r] = NoEntry]
      /\ lag' = [lag EXCEPT ![r] = {}]
      /\ UNCHANGED <<db, replica, kind, wrote, todo, failed, acked>>
  BY DEF Store
<1>2. /\ DOMAIN cache' = Keys /\ \A k \in Keys : cache'[k] \in Entry(k)
      /\ late' \in [Keys -> SUBSET Facts]
      /\ since' \in [Writers -> SUBSET Keys]
      /\ StaleIsOwed' /\ RestIsRest'
  BY <1>1, FillKeeps
<1>3. TypeOK'
  BY <1>1, <1>2 DEF IInv, TypeOK
<1>4. FillsAreExplained'
  BY <1>1 DEF IInv, TypeOK, FillsAreExplained
<1> QED
  BY <1>2, <1>3, <1>4 DEF IInv

LEMMA StoreResentKeeps ==
    ASSUME IInv, CacheAssumption, NEW r \in Readers, StoreResent(r) PROVE IInv'
<1>1. Fill(r) /\ UNCHANGED <<db, replica, readerVars, kind, wrote, todo, failed, acked>>
  BY DEF StoreResent
<1>2. /\ DOMAIN cache' = Keys /\ \A k \in Keys : cache'[k] \in Entry(k)
      /\ late' \in [Keys -> SUBSET Facts]
      /\ since' \in [Writers -> SUBSET Keys]
      /\ StaleIsOwed' /\ RestIsRest'
  BY <1>1, FillKeeps
<1>3. TypeOK'
  BY <1>1, <1>2 DEF IInv, TypeOK, readerVars
<1>4. FillsAreExplained'
  BY <1>1 DEF IInv, FillsAreExplained, readerVars
<1> QED
  BY <1>2, <1>3, <1>4 DEF IInv

LEMMA ReadFailsKeeps == ASSUME IInv, NEW r \in Readers, ReadFails(r) PROVE IInv'
<1>1. /\ rkey' = [rkey EXCEPT ![r] = NoKey]
      /\ got' = [got EXCEPT ![r] = NoEntry]
      /\ lag' = [lag EXCEPT ![r] = {}]
      /\ UNCHANGED <<db, replica, cache, late, writerVars>>
  BY DEF ReadFails
<1>2. TypeOK'
  BY <1>1 DEF IInv, TypeOK, writerVars
<1>3. FillsAreExplained'
  BY <1>1 DEF IInv, TypeOK, FillsAreExplained
<1> QED
  BY <1>1, <1>2, <1>3 DEF IInv, StaleIsOwed, Owes, ClearsNext, Clearing, RestIsRest, writerVars

-----------------------------------------------------------------------------
(***************************************************************************)
(* The writers.                                                            *)
(***************************************************************************)

LEMMA CommitKeeps ==
    ASSUME IInv, CacheAssumption, NEW w \in Writers, NEW x \in Kinds[w], Commit(w, x)
    PROVE  IInv'
<1> DEFINE f == Writes[x]
<1>1. x \in AllKinds /\ f \in Facts /\ x # "none"
  BY WritesAreFacts DEF CacheAssumption
<1>2. /\ kind[w] = "none"
      /\ db' = [db EXCEPT ![f] = db[f] + 1]
      /\ lag' = [r \in Readers |-> IF got[r] = NoEntry THEN lag[r] ELSE lag[r] \cup {f}]
      /\ kind' = [kind EXCEPT ![w] = x]
      /\ wrote' = [wrote EXCEPT ![w] = db[f] + 1]
      /\ todo' = [todo EXCEPT ![w] = Clears[x] \cap Keys]
      /\ UNCHANGED <<replica, cache, late, rkey, got, since, failed, acked>>
  BY DEF Commit
<1> HIDE DEF f
<1>3. TypeOK'
  BY <1>1, <1>2 DEF IInv, TypeOK
<1>4. StaleIsOwed'
  <2> SUFFICES ASSUME NEW k \in Keys, cache[k] # NoEntry,
                      NEW g \in Promised(k), cache[k][g] # db'[g]
               PROVE  g \in late[k] \/ \E v \in Writers : Owes(v, k, g)'
    BY <1>2 DEF StaleIsOwed
  <2>1. CASE g = f
    <3>1. k \in Clears[x]
      BY <2>1, <1>1, PromisesAreKept DEF f, CacheAssumption
    <3>2. since[w] = {}
      BY <1>2 DEF IInv, RestIsRest
    <3>3. kind'[w] = x /\ k \in todo'[w] /\ k \notin since'[w]
      BY <3>1, <3>2, <1>2 DEF IInv, TypeOK
    <3>4. Owes(w, k, g)'
      BY <2>1, <3>3, <1>1 DEF Owes, ClearsNext, Clearing, f
    <3> QED
      BY <3>4
  <2>2. CASE g # f
    <3>1. cache[k][g] # db[g]
      BY <2>2, <1>2 DEF IInv, TypeOK
    <3>2. ASSUME NEW v \in Writers, Owes(v, k, g) PROVE Owes(v, k, g)'
      <4>1. v # w
        BY <3>2, <1>2 DEF Owes, ClearsNext, Clearing
      <4> QED
        BY <3>2, <4>1, <1>2 DEF Owes, ClearsNext, Clearing, IInv, TypeOK
    <3> QED
      BY <3>1, <3>2 DEF IInv, StaleIsOwed
  <2> QED
    BY <2>1, <2>2
<1>5. FillsAreExplained'
  BY <1>2 DEF IInv, TypeOK, FillsAreExplained
<1>6. RestIsRest'
  BY <1>1, <1>2 DEF IInv, TypeOK, RestIsRest
<1> QED
  BY <1>3, <1>4, <1>5, <1>6 DEF IInv

LEMMA DeleteKeeps ==
    ASSUME IInv, NEW w \in Writers, NEW k \in Keys, Delete(w, k) PROVE IInv'
<1>1. /\ cache' = [cache EXCEPT ![k] = NoEntry]
      /\ late' = [late EXCEPT ![k] = {}]
      /\ todo' = [todo EXCEPT ![w] = todo[w] \ {k}]
      /\ UNCHANGED <<db, replica, readerVars, kind, wrote, since, failed, acked>>
  BY DEF Delete
<1>2. TypeOK'
  BY <1>1 DEF IInv, TypeOK, Entry, readerVars
<1>3. StaleIsOwed'
  <2> SUFFICES ASSUME NEW j \in Keys, cache'[j] # NoEntry,
                      NEW f \in Promised(j), cache'[j][f] # db[f]
               PROVE  f \in late'[j] \/ \E v \in Writers : Owes(v, j, f)'
    BY <1>1 DEF StaleIsOwed
  <2>1. j # k /\ cache'[j] = cache[j] /\ late'[j] = late[j]
    BY <1>1 DEF IInv, TypeOK
  <2>2. \A v \in Writers : Owes(v, j, f) => Owes(v, j, f)'
    BY <1>1, <2>1 DEF Owes, ClearsNext, Clearing, IInv, TypeOK
  <2> QED
    BY <2>1, <2>2 DEF IInv, StaleIsOwed
<1> QED
  BY <1>1, <1>2, <1>3 DEF IInv, FillsAreExplained, RestIsRest, readerVars, TypeOK

LEMMA OverlookKeeps ==
    ASSUME IInv, NEW w \in Writers, NEW k \in Keys, Overlook(w, k) PROVE IInv'
<1>1. /\ k \in since[w]
      /\ todo' = [todo EXCEPT ![w] = todo[w] \ {k}]
      /\ UNCHANGED <<db, replica, cache, late, readerVars, kind, wrote, since, failed, acked>>
  BY DEF Overlook
<1>2. TypeOK'
  BY <1>1 DEF IInv, TypeOK, readerVars
<1>3. \A v \in Writers, j \in Keys, f \in Facts : Owes(v, j, f) => Owes(v, j, f)'
  BY <1>1 DEF Owes, ClearsNext, Clearing, IInv, TypeOK
<1>4. \A v \in Writers, j \in Keys : \A f : Owes(v, j, f) => Owes(v, j, f)'
  BY <1>1 DEF Owes, ClearsNext, Clearing, IInv, TypeOK
<1> QED
  BY <1>1, <1>2, <1>4 DEF IInv, StaleIsOwed, FillsAreExplained, RestIsRest, readerVars, TypeOK

LEMMA GiveUpKeeps ==
    ASSUME IInv, CacheAssumption, NEW w \in Writers, NEW K \in SUBSET Keys, GiveUp(w, K)
    PROVE  IInv'
<1>1. /\ K # {} /\ K \subseteq todo[w]
      /\ late' = [k \in Keys |-> IF k \in K /\ cache[k] # NoEntry
                                   THEN late[k] \cup {Writes[kind[w]]} ELSE late[k]]
      /\ todo' = [todo EXCEPT ![w] = todo[w] \ K]
      /\ failed' = [failed EXCEPT ![w] = TRUE]
      /\ UNCHANGED <<db, replica, cache, readerVars, kind, wrote, since, acked>>
  BY DEF GiveUp
<1>2. kind[w] \in AllKinds
  BY <1>1 DEF IInv, RestIsRest, TypeOK, CacheAssumption
<1>3. TypeOK'
  BY <1>1, <1>2, WritesAreFacts DEF IInv, TypeOK, readerVars
<1>4. StaleIsOwed'
  <2> SUFFICES ASSUME NEW k \in Keys, cache[k] # NoEntry,
                      NEW f \in Promised(k), cache[k][f] # db[f]
               PROVE  f \in late'[k] \/ \E v \in Writers : Owes(v, k, f)'
    BY <1>1 DEF StaleIsOwed
  <2>1. CASE f \in late[k]
    BY <2>1, <1>1
  <2>2. CASE f \notin late[k]
    <3>1. PICK v \in Writers : Owes(v, k, f)
      BY <2>2 DEF IInv, StaleIsOwed
    <3>2. CASE v = w /\ k \in K
      BY <3>1, <3>2, <1>1 DEF Owes, ClearsNext
    <3>3. CASE ~(v = w /\ k \in K)
      <4>1. Owes(v, k, f)'
        BY <3>1, <3>3, <1>1 DEF Owes, ClearsNext, Clearing, IInv, TypeOK
      <4> QED
        BY <4>1
    <3> QED
      BY <3>2, <3>3
  <2> QED
    BY <2>1, <2>2
<1> QED
  BY <1>1, <1>3, <1>4 DEF IInv, FillsAreExplained, RestIsRest, readerVars, TypeOK

LEMMA AcknowledgeKeeps ==
    ASSUME IInv, CacheAssumption, NEW w \in Writers, Acknowledge(w) PROVE IInv'
<1>1. /\ w \in Clearing /\ todo[w] = {}
      /\ kind' = [kind EXCEPT ![w] = "none"]
      /\ wrote' = [wrote EXCEPT ![w] = 0]
      /\ since' = [since EXCEPT ![w] = {}]
      /\ failed' = [failed EXCEPT ![w] = FALSE]
      /\ UNCHANGED <<db, replica, cache, late, readerVars, todo>>
  BY DEF Acknowledge
<1>2. kind[w] \in AllKinds
  BY <1>1 DEF Clearing, IInv, TypeOK, CacheAssumption
<1>3. acked' \in [Facts -> Nat]
  BY <1>2, WritesAreFacts DEF Acknowledge, IInv, TypeOK
<1>4. TypeOK'
  BY <1>1, <1>3 DEF IInv, TypeOK, readerVars
<1>5. \A v \in Writers, j \in Keys : \A f : Owes(v, j, f) => Owes(v, j, f)'
  BY <1>1 DEF Owes, ClearsNext, Clearing, IInv, TypeOK
<1> QED
  BY <1>1, <1>4, <1>5 DEF IInv, StaleIsOwed, FillsAreExplained, RestIsRest, readerVars, TypeOK

LEMMA ExpireKeeps == ASSUME IInv, NEW k \in Keys, Expire(k) PROVE IInv'
<1>1. /\ cache' = [cache EXCEPT ![k] = NoEntry]
      /\ late' = [late EXCEPT ![k] = {}]
      /\ UNCHANGED <<db, replica, readerVars, writerVars>>
  BY DEF Expire
<1>2. TypeOK'
  BY <1>1 DEF IInv, TypeOK, Entry, readerVars, writerVars
<1>3. StaleIsOwed'
  <2> SUFFICES ASSUME NEW j \in Keys, cache'[j] # NoEntry,
                      NEW f \in Promised(j), cache'[j][f] # db[f]
               PROVE  f \in late'[j] \/ \E v \in Writers : Owes(v, j, f)'
    BY <1>1 DEF StaleIsOwed
  <2>1. j # k /\ cache'[j] = cache[j] /\ late'[j] = late[j]
    BY <1>1 DEF IInv, TypeOK
  <2>2. \A v \in Writers : Owes(v, j, f) => Owes(v, j, f)'
    BY <1>1 DEF Owes, ClearsNext, Clearing, writerVars
  <2> QED
    BY <2>1, <2>2 DEF IInv, StaleIsOwed
<1> QED
  BY <1>1, <1>2, <1>3 DEF IInv, FillsAreExplained, RestIsRest, readerVars, writerVars

LEMMA ReplicateKeeps == ASSUME IInv, NEW f \in Facts, Replicate(f) PROVE IInv'
<1>1. /\ replica' = [replica EXCEPT ![f] = replica[f] + 1]
      /\ UNCHANGED <<db, cache, late, readerVars, writerVars>>
  BY DEF Replicate
<1>2. TypeOK'
  BY <1>1 DEF IInv, TypeOK, readerVars, writerVars
<1> QED
  BY <1>1, <1>2
  DEF IInv, StaleIsOwed, Owes, ClearsNext, Clearing, FillsAreExplained, RestIsRest,
      readerVars, writerVars

-----------------------------------------------------------------------------
(***************************************************************************)
(* The theorems.                                                           *)
(***************************************************************************)

LEMMA StepKeeps == ASSUME IInv, [Next]_vars, CacheAssumption PROVE IInv'
<1>1. CASE Next
  BY <1>1, LookupKeeps, LoadKeeps, StoreKeeps, StoreResentKeeps, ReadFailsKeeps,
     CommitKeeps, DeleteKeeps, OverlookKeeps, GiveUpKeeps, AcknowledgeKeeps, ExpireKeeps,
     ReplicateKeeps
  DEF Next, Read, Update
<1>2. CASE UNCHANGED vars
  BY <1>2
  DEF vars, readerVars, writerVars, IInv, TypeOK, StaleIsOwed, Owes, ClearsNext, Clearing,
      FillsAreExplained, RestIsRest
<1> QED
  BY <1>1, <1>2

\* Every state of the cache satisfies the inductive invariant.
THEOREM Invariance == Spec => []IInv
<1>1. Init => IInv
  BY InitIInv
<1>2. IInv /\ [Next]_vars => IInv'
  BY StepKeeps, CacheAssumption
<1> QED
  BY <1>1, <1>2, PTL DEF Spec

\* Type correctness of the entries, the readers and the writers.
THEOREM TypeCorrect == Spec => []TypeOK
<1>1. IInv => TypeOK
  BY DEF IInv
<1> QED
  BY <1>1, Invariance, PTL

\* An entry that some handler promised to clear is stale only while that
\* handler is about to clear it, or because its fill raced the write, read a
\* lagging replica, or a command was lost.
THEOREM Staleness == Spec => []StaleIsExplained
<1>1. IInv => StaleIsExplained
  BY DEF IInv, StaleIsOwed, StaleIsExplained, Owes
<1> QED
  BY <1>1, Invariance, PTL
=============================================================================
