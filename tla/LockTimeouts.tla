---------------------------- MODULE LockTimeouts ----------------------------
(* The two backends that honor lock timeouts, a connection of each.        *)
EXTENDS MySqlLockTimeout, PgLockTimeout

InitBoth == Init /\ PgInit

NextBoth ==
  \/ Next /\ UNCHANGED pgVars
  \/ PgNext /\ UNCHANGED vars

SpecBoth == InitBoth /\ [][NextBoth]_<<vars, pgVars>>
=============================================================================
