----------------------------- MODULE TenantStore -----------------------------
(***************************************************************************)
(* What shared/db/client.js promises to a route handler, with no pool, no  *)
(* connections and no transactions in sight: every call of withTenant is   *)
(* answered once, takes effect at most once and all at once, touches the   *)
(* rows of the tenant it was made for and of nobody else, and has taken    *)
(* effect whenever the caller is told that it succeeded.  A call that is   *)
(* answered with an error may have taken effect: the COMMIT may be lost on *)
(* its way back.  withSuperAdmin may touch every row.                      *)
(***************************************************************************)


CONSTANTS Tenants,    \* the tenants, by id
          Rows,       \* the row ids each tenant's tables may use
          Requests,   \* the handler invocations
          Super,      \* the context of a withSuperAdmin call
          NoTenant,   \* the missing tenant id, and pool.query's context
          Initial     \* the contents of a row nobody has written yet

VARIABLES db,         \* the committed rows: who wrote each of them last
          ctx,        \* the context each request last called with
          state       \* what has become of that call

vars == <<db, ctx, state>>

Contexts == Tenants \cup {Super, NoTenant}

\* The rows a call made in context x may change.
Territory(x) == CASE x = Super -> Tenants \X Rows
                  [] x \in Tenants -> {x} \X Rows
                  [] OTHER -> {}

Init ==
    /\ db = [t \in Tenants |-> [k \in Rows |-> Initial]]
    /\ ctx = [r \in Requests |-> NoTenant]
    /\ state = [r \in Requests |-> "idle"]

Answered == {"idle", "ok", "error"}

\* A handler calls withTenant, withSuperAdmin or pool.query.
Invoke(r, x) ==
    /\ state[r] \in Answered
    /\ state' = [state EXCEPT ![r] = "open"]
    /\ ctx' = [ctx EXCEPT ![r] = x]
    /\ UNCHANGED db

\* withTenant throws at once when it is given no tenant id.
Refuse(r) ==
    /\ state[r] \in Answered
    /\ state' = [state EXCEPT ![r] = "error"]
    /\ ctx' = [ctx EXCEPT ![r] = NoTenant]
    /\ UNCHANGED db

\* The writes W of one call become visible together.
Overwrite(r, W) ==
    [t \in Tenants |-> [k \in Rows |-> IF <<t, k>> \in W THEN r ELSE db[t][k]]]

\* The call takes effect.
Apply(r) ==
    /\ state[r] = "open"
    /\ \E W \in SUBSET Territory(ctx[r]) : db' = Overwrite(r, W)
    /\ state' = [state EXCEPT ![r] = "applied"]
    /\ UNCHANGED ctx

\* The caller gets a result: only a call that took effect succeeds.
Succeed(r) ==
    /\ state[r] = "applied"
    /\ state' = [state EXCEPT ![r] = "ok"]
    /\ UNCHANGED <<db, ctx>>

\* The caller gets an exception, before or after the call took effect.
Fail(r) ==
    /\ state[r] \in {"open", "applied"}
    /\ state' = [state EXCEPT ![r] = "error"]
    /\ UNCHANGED <<db, ctx>>

\* The process dies: every call in progress fails at once, whether or not it
\* took effect.
Break ==
    /\ state' = [r \in Requests |-> IF state[r] \in {"open", "applied"} THEN "error" ELSE state[r]]
    /\ UNCHANGED <<db, ctx>>

Next ==
    \/ \E r \in Requests :
          \/ \E x \in Contexts : Invoke(r, x)
          \/ Refuse(r)
          \/ Apply(r)
          \/ Succeed(r)
          \/ Fail(r)
    \/ Break

Spec == Init /\ [][Next]_vars
=============================================================================
