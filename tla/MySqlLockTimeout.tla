-------------------------- MODULE MySqlLockTimeout --------------------------
(***************************************************************************)
(* How a claim bounds its lock wait on MySQL.  innodb_lock_wait_timeout is *)
(* a variable of the session: it outlives the claim and its transaction,   *)
(* on a connection that goes back to a pool others use too.  A claim saves *)
(* the session's value in a user variable, sets its own and restores the   *)
(* saved one after its INSERT; the next BEGIN restores what a cancelled    *)
(* claim has left.                                                         *)
(*                                                                         *)
(* Connections share none of this, so the state is that of one connection. *)
(* Timeouts asked for are in milliseconds, session values in seconds.      *)
(***************************************************************************)
EXTENDS Integers

CONSTANTS
  AppValues,   \* values the application may give a new session (after_connect)
  MaxSeconds,  \* the largest innodb_lock_wait_timeout: 1073741824
  Timeouts,    \* lock timeouts of the consumers, in milliseconds
  NoTimeout,   \* a consumer without a lock timeout
  Null,        \* the user variable is NULL
  Reclaims     \* does a caller claim again on a transaction whose claim it
               \* has cancelled?

ASSUME ValuesAssumption ==
  /\ AppValues \subseteq Nat /\ AppValues # {}
  /\ MaxSeconds \in Nat \ {0}
  /\ Timeouts \subseteq Nat
  /\ NoTimeout \notin Nat /\ Null \notin Nat
  /\ Reclaims \in BOOLEAN

VARIABLES
  pc,        \* "pool"; "tx" between claims; "insert", "restore" inside one;
             \* "left" on a transaction that goes on after a cancelled claim
  session,   \* @@SESSION.innodb_lock_wait_timeout
  saved,     \* @txbox_lock_wait_timeout
  asked,     \* the timeout of the claim in progress
  own        \* the value after_connect gave the session

vars == <<pc, session, saved, asked, own>>

TypeOK ==
  /\ pc \in {"pool", "tx", "insert", "restore", "left"}
  /\ session \in Nat
  /\ saved \in Nat \cup {Null}
  /\ asked \in Timeouts \cup {NoTimeout}
  /\ own \in Nat

\* Mutant: whole seconds, rounded down.
RoundedDown(ms) == IF ms < 1000 THEN 1 ELSE ms \div 1000

\* Whole seconds, rounded up, from 1 to MySQL's maximum.
mysql_lock_timeout(ms) ==
  LET secs == (ms + 999) \div 1000
  IN IF secs < 1 THEN 1 ELSE IF secs > MaxSeconds THEN MaxSeconds ELSE secs

-----------------------------------------------------------------------------

Init ==
  /\ pc = "pool"
  /\ own \in AppValues
  /\ session = own
  /\ saved = Null
  /\ asked = NoTimeout

\* Mutant: BEGIN leaves the session alone.
PlainBegin ==
  /\ pc = "pool"
  /\ pc' = "tx"
  /\ UNCHANGED <<session, saved, asked, own>>

Begin ==
  /\ pc = "pool"
  /\ pc' = "tx"
  /\ session' = IF saved = Null THEN session ELSE saved
  /\ saved' = Null
  /\ UNCHANGED <<asked, own>>

set_lock_timeout(t) ==
  /\ pc = "tx" \/ (pc = "left" /\ Reclaims)
  /\ pc' = "insert"
  /\ asked' = t
  /\ IF t = NoTimeout THEN UNCHANGED <<session, saved>>
     ELSE saved' = session /\ session' = mysql_lock_timeout(t)
  /\ UNCHANGED own

\* The INSERT returns, with an answer or with an error.
Insert ==
  /\ pc = "insert"
  /\ pc' = "restore"
  /\ UNCHANGED <<session, saved, asked, own>>

\* Mutant: a claim restores nothing and leaves it to the next BEGIN.
RestoreForgotten ==
  /\ pc = "restore"
  /\ pc' = "tx" /\ asked' = NoTimeout
  /\ UNCHANGED <<session, saved, own>>

\* After the INSERT, whatever it returned.
restore_lock_timeout ==
  /\ pc = "restore"
  /\ pc' = "tx" /\ asked' = NoTimeout
  /\ IF asked = NoTimeout THEN UNCHANGED <<session, saved>>
     ELSE session' = saved /\ saved' = Null
  /\ UNCHANGED own

\* The claim is cancelled, or its restore fails.  The transaction is dropped, as
\* process and process_many do, or a caller of the manual API goes on with it.
Abandon ==
  /\ pc \in {"insert", "restore"}
  /\ pc' \in {"pool", "left"}
  /\ asked' = NoTimeout
  /\ UNCHANGED <<session, saved, own>>

\* Commit, rollback or drop.
EndTx ==
  /\ pc \in {"tx", "left"}
  /\ pc' = "pool"
  /\ UNCHANGED <<session, saved, asked, own>>

\* The connection is lost; its successor starts with what after_connect sets.
Reconnect ==
  /\ pc' = "pool"
  /\ own' \in AppValues
  /\ session' = own'
  /\ saved' = Null /\ asked' = NoTimeout

Next ==
  \/ Begin \/ EndTx \/ Insert \/ restore_lock_timeout \/ Abandon \/ Reconnect
  \/ \E t \in Timeouts \cup {NoTimeout} : set_lock_timeout(t)

Spec == Init /\ [][Next]_vars

-----------------------------------------------------------------------------

\* "A value the application set in `after_connect` survives": wherever a claim
\* fails or is cancelled, that value is still there, in the session or in the
\* variable the next BEGIN restores it from.
OwnValueSurvives == own = IF saved = Null THEN session ELSE saved

\* The timeout of a claim is the claim's alone: between claims that have returned,
\* the statements of the handler wait as long as the application chose for the
\* session.  After a cancelled claim they do not, until the next BEGIN.
HandlerWaitsItsOwn == pc = "tx" => session = own

\* The INSERT of a claim with a timeout waits at least that long, up to MySQL's
\* maximum, and less than a second (or the minimum) longer; the INSERT of one
\* without waits as long as the application chose, whatever was asked before.
ClaimWaitsAsAsked ==
  pc = "insert" =>
    IF asked = NoTimeout THEN session = own
    ELSE /\ session \in 1..MaxSeconds
         /\ 1000 * session >= asked \/ session = MaxSeconds
         /\ session = 1 \/ 1000 * (session - 1) < asked
=============================================================================
