----------------------------- MODULE ManualBatch ----------------------------
(***************************************************************************)
(* The transaction in the caller's hands: begin, claim and claim_many,     *)
(* commit and rollback of Consumer, used as the guide says.  A unit is     *)
(* several claim statements in one transaction, each followed by the       *)
(* effects of the ids it found fresh.  One statement locks its rows in     *)
(* byte order; two statements of a unit need not, so units can deadlock,   *)
(* and the database then ends one of the transactions.  A caller whose     *)
(* claim is Contended rolls back, or drops, and retries the whole unit.    *)
(***************************************************************************)
EXTENDS InboxStore, Sequences

CONSTANTS
  Workers,       \* callers, all with a Consumer of the same consumer id
  Group,         \* that consumer id
  Units,         \* the units: sequences of slices; a slice of one id is claimed
                 \* with claim, a longer one with claim_many
  MaxSlices,     \* the most slices a unit has
  LockTimeouts,  \* workers whose Consumer has a lock timeout
  MaxFaults,     \* how many faults the environment may inject
  NoConn         \* stands for: no connection

ASSUME ManualAssumption ==
  /\ Group \in Consumers
  /\ Units \subseteq Seq(Seq(Messages) \ {<<>>}) \ {<<>>}
  /\ MaxFaults \in Nat
  /\ NoConn \notin Conns

VARIABLES
  work,     \* the unit each worker is in
  lost,     \* connections whose transaction the server has ended on its own
  acked,    \* keys acknowledged to the broker
  faults    \* faults injected so far

vars == <<rows, applied, tx, work, lost, acked, faults>>

(***************************************************************************)
(* pc: "idle", "begin", "claim", "effects", "commit", "contended", "done"; *)
(* at: index of the slice; todo: its ids yet to claim; fresh: its Fresh    *)
(* ids whose effect is still to be written.                                *)
(***************************************************************************)
NewWork(pc, u) == [pc |-> pc, conn |-> NoConn, unit |-> u, at |-> 1, todo |-> {}, fresh |-> {}]

Init ==
  /\ StoreInit
  /\ work = [w \in Workers |-> NewWork("idle", <<>>)]
  /\ lost = {}
  /\ acked = {}
  /\ faults = 0

KeyOf(m) == <<Group, m>>
Ids(slice) == {slice[i] : i \in DOMAIN slice}
KeysOf(u) == {KeyOf(m) : m \in UNION {Ids(u[i]) : i \in DOMAIN u}}
Slice(w) == work[w].unit[work[w].at]
Many(w) == Len(Slice(w)) > 1
Fault == faults < MaxFaults /\ faults' = faults + 1

-----------------------------------------------------------------------------
(* Statements on a transaction the server has ended: PostgreSQL refuses    *)
(* them, MySQL runs and commits each by itself.                            *)

Insert(c, k) ==
  IF c \in lost
  THEN /\ Backend = "mysql" /\ ~Blocked(c, k) /\ k \notin rows
       /\ rows' = rows \cup {k}
       /\ UNCHANGED <<applied, tx>>
  ELSE InsertRow(c, k)

Hit(c, k, many) ==
  IF c \in lost
  THEN /\ Backend = "mysql" /\ ~Blocked(c, k) /\ k \in rows
       /\ UNCHANGED storeVars
  ELSE HitRow(c, k, many)

Write(c, k) ==
  IF c \in lost
  THEN /\ Backend = "mysql"
       /\ applied' = [applied EXCEPT ![k] = @ + 1]
       /\ UNCHANGED <<rows, tx>>
  ELSE WriteEffect(c, k)

-----------------------------------------------------------------------------
(* The unit.                                                               *)

Start(w, u) ==
  /\ work[w].pc = "idle"
  /\ work' = [work EXCEPT ![w] = NewWork("begin", u)]
  /\ UNCHANGED <<storeVars, lost, acked, faults>>

BeginUnit(w) ==
  /\ work[w].pc = "begin"
  /\ \E c \in Conns :
       /\ Begin(c)
       /\ work' = [work EXCEPT ![w].pc = "claim", ![w].conn = c, ![w].todo = Ids(Slice(w))]
  /\ UNCHANGED <<lost, acked, faults>>

\* Mutant: claim_many makes its ids unique with a HashSet and does not sort them.
IsNextUnsorted(w, m) == m \in work[w].todo

\* m is the next id of the sorted slice without repeats.
IsNext(w, m) ==
  /\ m \in work[w].todo
  /\ \A n \in work[w].todo : m <= n

Claiming(w, m) == work[w].pc = "claim" /\ IsNext(w, m)

\* The statement answers when its last row is claimed.
AfterRow(w, m) == IF work[w].todo = {m} THEN "effects" ELSE "claim"

ClaimFresh(w) ==
  /\ \E m \in Messages :
       /\ Claiming(w, m)
       /\ Insert(work[w].conn, KeyOf(m))
       /\ work' = [work EXCEPT ![w].pc = AfterRow(w, m),
                               ![w].todo = @ \ {m}, ![w].fresh = @ \cup {m}]
  /\ UNCHANGED <<lost, acked, faults>>

\* Mutant: a row that is there is reported as contention.
DuplicateIsContended(w) ==
  /\ \E m \in Messages : Claiming(w, m) /\ Hit(work[w].conn, KeyOf(m), Many(w))
  /\ work' = [work EXCEPT ![w].pc = "contended"]
  /\ UNCHANGED <<lost, acked, faults>>

ClaimDuplicate(w) ==
  /\ \E m \in Messages :
       /\ Claiming(w, m)
       /\ Hit(work[w].conn, KeyOf(m), Many(w))
       /\ work' = [work EXCEPT ![w].pc = AfterRow(w, m), ![w].todo = @ \ {m}]
  /\ UNCHANGED <<lost, acked, faults>>

\* The caller writes the effect of the next id that was Fresh; with none left
\* it goes on to the next slice, or commits.
ApplyEffect(w) ==
  /\ work[w].pc = "effects"
  /\ \E m \in work[w].fresh :
       /\ Write(work[w].conn, KeyOf(m))
       /\ work' = [work EXCEPT ![w].fresh = @ \ {m}]
  /\ UNCHANGED <<lost, acked, faults>>

NextSlice(w) ==
  /\ work[w].pc = "effects" /\ work[w].fresh = {}
  /\ work' = IF work[w].at < Len(work[w].unit)
             THEN [work EXCEPT ![w].pc = "claim", ![w].at = @ + 1,
                               ![w].todo = Ids(work[w].unit[work[w].at + 1])]
             ELSE [work EXCEPT ![w].pc = "commit"]
  /\ UNCHANGED <<storeVars, lost, acked, faults>>

CommitUnit(w) ==
  /\ work[w].pc = "commit"
  /\ Commit(work[w].conn)
  /\ lost' = lost \ {work[w].conn}
  /\ work' = [work EXCEPT ![w].pc = "done", ![w].conn = NoConn]
  /\ UNCHANGED <<acked, faults>>

\* "Commit the broker's offsets only after `commit` returns."
AckUnit(w) ==
  /\ work[w].pc = "done"
  /\ acked' = acked \cup KeysOf(work[w].unit)
  /\ work' = [work EXCEPT ![w] = NewWork("idle", <<>>)]
  /\ UNCHANGED <<storeVars, lost, faults>>

-----------------------------------------------------------------------------
(* Contention.                                                             *)

Waits(w) == \E m \in Messages : Claiming(w, m) /\ Blocked(work[w].conn, KeyOf(m))

\* w waits for a row, or for SQLite's write lock, that v's transaction holds.
WaitsFor(w, v) ==
  /\ work[v].conn # NoConn
  /\ \E m \in Messages : /\ Claiming(w, m)
                         /\ BlockedBy(work[w].conn, work[v].conn, KeyOf(m))

\* Everyone in S waits for someone in S.
Cycle(S) == S # {} /\ \A w \in S : \E v \in S : WaitsFor(w, v)

\* MySQL and SQLite bound every lock wait by themselves; PostgreSQL only waits a
\* bounded time with a lock timeout set.  The error ends the transaction on
\* PostgreSQL; elsewhere it undoes the statement.  Timeouts count as faults:
\* two units that keep timing out in turn would never get anywhere.
LockTimeout(w) ==
  /\ Waits(w) /\ Fault
  /\ Backend # "postgres" \/ w \in LockTimeouts
  /\ IF Backend = "postgres"
     THEN /\ tx' = [tx EXCEPT ![work[w].conn] = EmptyTx("open")]
          /\ lost' = lost \cup {work[w].conn}
     ELSE /\ tx' = [tx EXCEPT ![work[w].conn].ins = @ \ {KeyOf(m) : m \in work[w].fresh}]
          /\ UNCHANGED lost
  /\ work' = [work EXCEPT ![w].pc = "contended"]
  /\ UNCHANGED <<rows, applied, acked>>

\* The database breaks a cycle: it ends the transaction of one of its members.
DeadlockVictim(w) ==
  /\ \E S \in SUBSET Workers : w \in S /\ Cycle(S)
  /\ tx' = [tx EXCEPT ![work[w].conn] = EmptyTx("open")]
  /\ lost' = lost \cup {work[w].conn}
  /\ work' = [work EXCEPT ![w].pc = "contended"]
  /\ UNCHANGED <<rows, applied, acked, faults>>

\* Mutant: the caller claims again on the same transaction.
ClaimAgain(w) ==
  /\ work[w].pc = "contended"
  /\ work' = [work EXCEPT ![w].pc = "claim", ![w].todo = Ids(Slice(w)), ![w].fresh = {}]
  /\ UNCHANGED <<storeVars, lost, acked, faults>>

\* Mutant: the caller begins a new transaction and keeps the old one.
RetryWithoutRollback(w) ==
  /\ work[w].pc = "contended"
  /\ work' = [work EXCEPT ![w] = NewWork("begin", work[w].unit)]
  /\ UNCHANGED <<storeVars, lost, acked, faults>>

\* "roll the transaction back and retry the whole batch in a new one"
RollbackAndRetry(w) ==
  /\ work[w].pc = "contended"
  /\ Rollback(work[w].conn)
  /\ lost' = lost \ {work[w].conn}
  /\ work' = [work EXCEPT ![w] = NewWork("begin", work[w].unit)]
  /\ UNCHANGED <<acked, faults>>

-----------------------------------------------------------------------------
(* Faults, and the pool.                                                   *)

\* A statement fails, a rollback or a commit that has committed nothing
\* included; or the caller is cancelled or dies.  The broker redelivers.
UnitFails(w) ==
  /\ work[w].pc # "idle" /\ Fault
  /\ IF work[w].conn = NoConn THEN UNCHANGED storeVars ELSE Drop(work[w].conn)
  /\ work' = [work EXCEPT ![w] = NewWork("idle", <<>>)]
  /\ UNCHANGED <<lost, acked>>

\* "To abandon a batch, call `orders.rollback(tx)`."
AbandonUnit(w) ==
  /\ work[w].pc \in {"effects", "commit"} /\ Fault
  /\ Rollback(work[w].conn)
  /\ work' = [work EXCEPT ![w] = NewWork("idle", <<>>)]
  /\ UNCHANGED <<lost, acked>>

\* The server committed and the answer was lost: the caller sees an error.
CommitAnswerLost(w) ==
  /\ work[w].pc = "commit" /\ Fault
  /\ Commit(work[w].conn)
  /\ lost' = lost \ {work[w].conn}
  /\ work' = [work EXCEPT ![w] = NewWork("idle", <<>>)]
  /\ UNCHANGED acked

PoolRollback(c) ==
  /\ RollbackDropped(c)
  /\ lost' = lost \ {c}
  /\ UNCHANGED <<work, acked, faults>>

-----------------------------------------------------------------------------

Advance(w) ==
  \/ BeginUnit(w) \/ ClaimFresh(w) \/ ClaimDuplicate(w) \/ ApplyEffect(w) \/ NextSlice(w)
  \/ CommitUnit(w) \/ AckUnit(w) \/ RollbackAndRetry(w)

Next ==
  \/ \E w \in Workers :
       \/ Advance(w) \/ LockTimeout(w) \/ DeadlockVictim(w)
       \/ UnitFails(w) \/ AbandonUnit(w) \/ CommitAnswerLost(w)
       \/ \E u \in Units : Start(w, u)
  \/ \E c \in Conns : PoolRollback(c)

Spec == Init /\ [][Next]_vars

(***************************************************************************)
(* Fairness.  As in Consumer: callers that can go on do, the pool runs     *)
(* queued rollbacks, and the broker keeps delivering what is not           *)
(* acknowledged.  The database breaks deadlocks, and a lock goes to who    *)
(* has waited for it: a statement is not overtaken for ever, also when its *)
(* unit's other statements are not.  This is not so on SQLite, which polls *)
(* for its write lock.                                                     *)
(***************************************************************************)
ClaimStatement(w, i) == work[w].at = i /\ (ClaimFresh(w) \/ ClaimDuplicate(w))

Fairness ==
  /\ \A w \in Workers : SF_vars(Advance(w))
  /\ \A w \in Workers, i \in 1..MaxSlices : SF_vars(ClaimStatement(w, i))
  /\ \A c \in Conns : WF_vars(PoolRollback(c))
  /\ WF_vars(\E w \in Workers : DeadlockVictim(w))
  /\ \A k \in Key : SF_vars(\E w \in Workers, u \in Units :
                              k \in KeysOf(u) \ acked /\ Start(w, u))

FairSpec == Spec /\ Fairness

-----------------------------------------------------------------------------
(* Properties.                                                             *)

\* A committed row stands for exactly one committed effect: no statement of a
\* unit takes effect outside its transaction, although the server may end the
\* transaction under the caller.
EffectIffRow == \A k \in Key : applied[k] = IF k \in rows THEN 1 ELSE 0

\* "The batch is one unit of failure": rows appear only when a unit commits,
\* and then every id of all its slices is recorded.
UnitIsAtomic ==
  [][rows' # rows =>
       \E w \in Workers : work[w].pc = "commit" /\ rows' = rows \cup KeysOf(work[w].unit)]_vars

\* "overlapping batches from concurrent consumers don't deadlock": in every
\* deadlock somebody has claimed with an earlier statement of the same
\* transaction; callers with one claim_many each never form a cycle.
CyclesNeedTwoStatements ==
  \A S \in SUBSET Workers : Cycle(S) => \E w \in S : work[w].at > 1

\* w's unit waits neither for a connection nor for a lock.
CanGoOn(w) ==
  CASE work[w].pc = "idle" -> FALSE
    [] work[w].pc = "begin" -> \E c \in Conns : tx[c].st = "idle"
    [] work[w].pc = "claim" ->
         /\ work[w].conn \notin lost
         /\ \E m \in Messages : Claiming(w, m) /\ ~Blocked(work[w].conn, KeyOf(m))
    [] work[w].pc = "effects" -> work[w].conn \notin lost
    [] OTHER -> TRUE

\* The units never all stand still for good: while there is one, some unit can go
\* on, or the pool has a rollback to run, or there is a deadlock, which the
\* database breaks.
SomeUnitGoesOn ==
  (\E w \in Workers : work[w].pc # "idle") =>
    \/ \E w \in Workers : CanGoOn(w)
    \/ \E c \in Conns : tx[c].st = "dropped"
    \/ \E S \in SUBSET Workers : Cycle(S)

EO == INSTANCE ExactlyOnce WITH handled <- applied

\* Callers that follow the guide implement the abstract inbox.
ImplementsExactlyOnce == EO!Spec

\* Every message is acknowledged at last.  acked only grows.
AllAcked == <>(Key \subseteq acked)
=============================================================================
