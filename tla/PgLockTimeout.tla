---------------------------- MODULE PgLockTimeout ---------------------------
(***************************************************************************)
(* How a claim bounds its lock wait on PostgreSQL.  set_config(.., true)   *)
(* gives lock_timeout a value that lasts until the transaction ends, so    *)
(* nothing is saved or restored: from its first claim with a timeout on,   *)
(* every statement of the transaction waits no longer than that.           *)
(*                                                                         *)
(* As in MySqlLockTimeout the state is that of one connection.  Timeouts   *)
(* asked for are in microseconds, PostgreSQL's values in milliseconds.     *)
(***************************************************************************)
EXTENDS Integers

CONSTANTS
  PgAppValues,   \* lock_timeout the application may give a session; 0 is none
  MaxMillis,     \* the largest lock_timeout: 2147483647
  PgTimeouts,    \* lock timeouts of the consumers, in microseconds
  Unset          \* a consumer without a lock timeout; no value in the transaction

ASSUME PgValuesAssumption ==
  /\ PgAppValues \subseteq Nat /\ PgAppValues # {}
  /\ MaxMillis \in Nat \ {0}
  /\ PgTimeouts \subseteq Nat
  /\ Unset \notin Nat

VARIABLES
  stage,     \* "pool"; "open" between claims; "claim" inside one; "aborted"
  inSession, \* lock_timeout of the session
  inTx,      \* lock_timeout of the transaction
  wanted,    \* the last timeout a claim of the transaction has asked for
  claiming,  \* the timeout of the claim in progress
  chosen     \* the value after_connect gave the session

pgVars == <<stage, inSession, inTx, wanted, claiming, chosen>>

PgTypeOK ==
  /\ stage \in {"pool", "open", "claim", "aborted"}
  /\ inSession \in Nat
  /\ inTx \in Nat \cup {Unset}
  /\ wanted \in PgTimeouts \cup {Unset}
  /\ claiming \in PgTimeouts \cup {Unset}
  /\ chosen \in Nat

\* The lock_timeout a statement runs under, in milliseconds.
InForce == IF inTx = Unset THEN inSession ELSE inTx

\* Mutant: whole milliseconds, rounded down.
WholeMillis(us) == us \div 1000

\* Whole milliseconds, rounded up, never 0.  There is no upper bound.
pg_lock_timeout(us) ==
  LET ms == (us + 999) \div 1000
  IN IF ms < 1 THEN 1 ELSE ms

-----------------------------------------------------------------------------

PgInit ==
  /\ stage = "pool"
  /\ chosen \in PgAppValues
  /\ inSession = chosen
  /\ inTx = Unset
  /\ wanted = Unset /\ claiming = Unset

PgBegin ==
  /\ stage = "pool"
  /\ stage' = "open"
  /\ UNCHANGED <<inSession, inTx, wanted, claiming, chosen>>

\* Mutant: is_local = false.
SetForSession(us) ==
  /\ stage = "open" /\ us # Unset
  /\ pg_lock_timeout(us) <= MaxMillis
  /\ inSession' = pg_lock_timeout(us)
  /\ stage' = "claim" /\ wanted' = us /\ claiming' = us
  /\ UNCHANGED <<inTx, chosen>>

\* set_lock_timeout(Some(us)), which PostgreSQL takes.
SetLocal(us) ==
  /\ stage = "open" /\ us # Unset
  /\ pg_lock_timeout(us) <= MaxMillis
  /\ inTx' = pg_lock_timeout(us)
  /\ stage' = "claim" /\ wanted' = us /\ claiming' = us
  /\ UNCHANGED <<inSession, chosen>>

\* PostgreSQL refuses a value beyond its maximum: the claim is a backend error,
\* and the transaction is aborted.
SetRefused(us) ==
  /\ stage = "open" /\ us # Unset
  /\ pg_lock_timeout(us) > MaxMillis
  /\ stage' = "aborted"
  /\ UNCHANGED <<inSession, inTx, wanted, claiming, chosen>>

\* set_lock_timeout(None).
SetNothing ==
  /\ stage = "open"
  /\ stage' = "claim" /\ claiming' = Unset
  /\ UNCHANGED <<inSession, inTx, wanted, chosen>>

\* The INSERT returns an answer; or an error, which aborts the transaction; or
\* the caller drops the future and keeps the transaction.
PgInsert ==
  /\ stage = "claim"
  /\ stage' \in {"open", "aborted"}
  /\ claiming' = Unset
  /\ UNCHANGED <<inSession, inTx, wanted, chosen>>

\* Commit, rollback or drop, in a claim too.
PgEndTx ==
  /\ stage # "pool"
  /\ stage' = "pool"
  /\ inTx' = Unset
  /\ wanted' = Unset /\ claiming' = Unset
  /\ UNCHANGED <<inSession, chosen>>

\* The connection is lost; its successor starts with what after_connect sets.
PgReconnect ==
  /\ stage' = "pool"
  /\ chosen' \in PgAppValues
  /\ inSession' = chosen'
  /\ inTx' = Unset
  /\ wanted' = Unset /\ claiming' = Unset

PgNext ==
  \/ PgBegin \/ SetNothing \/ PgInsert \/ PgEndTx \/ PgReconnect
  \/ \E us \in PgTimeouts : SetLocal(us) \/ SetRefused(us)

PgSpec == PgInit /\ [][PgNext]_pgVars

-----------------------------------------------------------------------------

\* "it can't leak onto the next caller of a pooled connection": a statement
\* outside a transaction of a claim with a timeout, or in a transaction no claim
\* has bounded, waits as long as the application chose for the session.
PgWaitsItsOwn == wanted = Unset => InForce = chosen

\* The INSERT of a claim with a timeout waits at least that long and less than
\* a millisecond (or the minimum) longer: it is never sent as 0, which would
\* disable the timeout, whatever a claim before it asked for.
PgClaimWaitsAsAsked ==
  stage = "claim" /\ claiming # Unset =>
    /\ InForce > 0
    /\ 1000 * InForce >= claiming
    /\ InForce = 1 \/ 1000 * (InForce - 1) < claiming
=============================================================================
