---------------------------- MODULE MCManualBatch ---------------------------
(* Small instances of ManualBatch for TLC, on each backend (see MCBackends). *)
EXTENDS ManualBatch

VARIABLE db   \* the backend of this behaviour

Backends == {"postgres", "mysql", "sqlite"}

\* Consumers over SQLite have no lock timeout.
On(b) == INSTANCE ManualBatch
           WITH Backend <- b, LockTimeouts <- IF b = "sqlite" THEN {} ELSE LockTimeouts

\* Two ids claimed one by one in either order, and in one statement, which sorts
\* them; and a unit that settles only one of them.
CrossedUnits == {<<<<1>>, <<2>>>>, <<<<2>>, <<1>>>>, <<<<2, 1>>>>, <<<<1>>>>}

InitOnEach == Init /\ db \in Backends

NextOnEach == \E b \in Backends : db = b /\ On(b)!Next /\ UNCHANGED db

dbVars == <<vars, db>>

\* Backends whose lock waits are queues.  SQLite's are polled (busy_timeout), so
\* a caller there may be overtaken for ever, and nothing fair is assumed of it.
Queued == {"postgres", "mysql"}

\* Fairness of ManualBatch, on those backends.
FairWhereQueued ==
  /\ \A w \in Workers : SF_dbVars(\E b \in Queued : db = b /\ On(b)!Advance(w) /\ UNCHANGED db)
  /\ \A w \in Workers, i \in 1..MaxSlices :
       SF_dbVars(\E b \in Queued : db = b /\ On(b)!ClaimStatement(w, i) /\ UNCHANGED db)
  /\ \A c \in Conns : WF_dbVars(db \in Queued /\ PoolRollback(c) /\ UNCHANGED db)
  /\ WF_dbVars(\E b \in Queued, w \in Workers : db = b /\ On(b)!DeadlockVictim(w) /\ UNCHANGED db)
  /\ \A k \in Key : SF_dbVars(\E w \in Workers, u \in Units :
                               /\ db \in Queued /\ k \in KeysOf(u) \ acked
                               /\ Start(w, u) /\ UNCHANGED db)

SpecOnEach == InitOnEach /\ [][NextOnEach]_dbVars /\ FairWhereQueued

\* Deadlocks, timeouts and retries of claim and claim_many end where lock waits are
\* queued: every message is acknowledged at last, also one whose neighbour in the
\* unit has been acknowledged alone before.
AllAckedWhereQueued == db \in Queued => AllAcked
=============================================================================
