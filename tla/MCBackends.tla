----------------------------- MODULE MCBackends -----------------------------
(***************************************************************************)
(* Consumer on each of the three backends in one run.  The backend is a    *)
(* variable that is chosen at the start and never changes; On(b) is        *)
(* Consumer with b for its constant Backend.                               *)
(***************************************************************************)
EXTENDS MCConsumer

VARIABLE db   \* the backend of this behaviour

Backends == {"postgres", "mysql", "sqlite"}

\* Consumers over SQLite have no lock timeout.
On(b) == INSTANCE Consumer
           WITH Backend <- b, LockTimeouts <- IF b = "sqlite" THEN {} ELSE LockTimeouts

InitOnEach == Init /\ db \in Backends

NextOnEach == \E b \in Backends : db = b /\ On(b)!Next /\ UNCHANGED db

SpecOnEach == InitOnEach /\ [][NextOnEach]_<<vars, db>>
=============================================================================
