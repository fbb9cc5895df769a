----------------------------- MODULE InboxStore -----------------------------
(***************************************************************************)
(* The backend behind the InboxStore, LockTimeout and Savepoints traits:   *)
(* one table of processed messages, the tables the handlers write to, and  *)
(* a pool of connections each of which carries at most one transaction.    *)
(* The three backends differ in which locks a claim takes and in what a    *)
(* lost lock race does; Backend selects one of them.                       *)
(*                                                                         *)
(* A row is its key, a consumer id and a message id: the table's primary   *)
(* key.  A message id is a natural number, and < is the byte order of ids. *)
(* What a handler writes is one effect, counted per key, so that a second  *)
(* run of the handler shows.                                               *)
(***************************************************************************)
EXTENDS Naturals

CONSTANTS
  Backend,     \* "postgres", "mysql" or "sqlite"
  Consumers,   \* consumer ids
  Messages,    \* message ids, ordered as their bytes are
  Conns        \* connections of the pool

ASSUME BackendAssumption == Backend \in {"postgres", "mysql", "sqlite"}
ASSUME MessagesAssumption == Messages \subseteq Nat
ASSUME PoolAssumption == Conns # {}

Key == Consumers \X Messages

VARIABLES
  rows,      \* keys of the committed rows of inbox_messages
  applied,   \* committed effects, counted per key
  tx         \* the transaction each connection carries

storeVars == <<rows, applied, tx>>

NoEffect == [k \in Key |-> 0]

(***************************************************************************)
(* st: "idle" in the pool, "open" in somebody's hands, or "dropped": the   *)
(* Tx value is gone and the ROLLBACK its drop queued has not run yet.      *)
(* ins: rows inserted; lck: row locks held; eff: effects written.          *)
(* sp: is the savepoint open, and if so spIns and spEff is what it saved.  *)
(***************************************************************************)
Tx == [st : {"idle", "open", "dropped"},
       ins : SUBSET Key, lck : SUBSET Key, eff : [Key -> Nat],
       sp : BOOLEAN, spIns : SUBSET Key, spEff : [Key -> Nat]]

EmptyTx(st) == [st |-> st, ins |-> {}, lck |-> {}, eff |-> NoEffect,
                sp |-> FALSE, spIns |-> {}, spEff |-> NoEffect]

StoreTypeOK ==
  /\ rows \subseteq Key
  /\ applied \in [Key -> Nat]
  /\ tx \in [Conns -> Tx]

StoreInit ==
  /\ rows = {}
  /\ applied = NoEffect
  /\ tx = [c \in Conns |-> EmptyTx("idle")]

-----------------------------------------------------------------------------
(* Locks.                                                                  *)

\* Mutant: the table has lost its primary key and nobody waits.
NeverBlockedBy(c, d, k) == FALSE

(***************************************************************************)
(* Connection d makes a claim of k on connection c wait.  PostgreSQL and   *)
(* MySQL lock the row (its unique index entry); SQLite has one writer.     *)
(***************************************************************************)
BlockedBy(c, d, k) ==
  /\ d # c
  /\ IF Backend = "sqlite" THEN tx[d].lck # {} ELSE k \in tx[d].lck

Blocked(c, k) == \E d \in Conns : BlockedBy(c, d, k)

(***************************************************************************)
(* A claim that finds the row already there keeps a lock that later claims *)
(* wait for: always on SQLite (the write lock), on MySQL in a batch (ON    *)
(* DUPLICATE KEY UPDATE locks the row it hits), never on PostgreSQL (DO    *)
(* NOTHING).                                                               *)
(*                                                                         *)
(* MySQL has locks that are left out, and the model waits less often than  *)
(* the server: INSERT IGNORE keeps a shared lock on a row it finds, and    *)
(* claims that wait for one row, two or more of them, all get a lock in    *)
(* its place when its transaction rolls back, so that none can insert and  *)
(* the server fails one as a deadlock victim.  With two connections only   *)
(* one claim can wait for a row; the theorems about cycles exclude MySQL.  *)
(***************************************************************************)
DuplicateKeepsLock(many) ==
  \/ Backend = "sqlite"
  \/ Backend = "mysql" /\ many

-----------------------------------------------------------------------------
(* Statements, one per method of the traits.                               *)

Begin(c) ==
  /\ tx[c].st = "idle"
  /\ tx' = [tx EXCEPT ![c] = EmptyTx("open")]
  /\ UNCHANGED <<rows, applied>>

\* claim answers Fresh: the row was not there and nobody holds its lock.
InsertRow(c, k) ==
  /\ ~Blocked(c, k)
  /\ k \notin rows \cup tx[c].ins
  /\ tx' = [tx EXCEPT ![c].ins = @ \cup {k}, ![c].lck = @ \cup {k}]
  /\ UNCHANGED <<rows, applied>>

\* claim answers Duplicate: the row was there.
HitRow(c, k, many) ==
  /\ ~Blocked(c, k)
  /\ k \in rows \cup tx[c].ins
  /\ tx' = IF DuplicateKeepsLock(many)
           THEN [tx EXCEPT ![c].lck = @ \cup {k}] ELSE tx
  /\ UNCHANGED <<rows, applied>>

\* The handler writes the effect of k on the connection it was given.
WriteEffect(c, k) ==
  /\ tx' = [tx EXCEPT ![c].eff[k] = @ + 1]
  /\ UNCHANGED <<rows, applied>>

\* A statement of the handler is MySQL's deadlock victim: the server has
\* rolled the whole transaction back, its savepoint included.
LoseTransaction(c) ==
  /\ Backend = "mysql"
  /\ tx' = [tx EXCEPT ![c] = EmptyTx("open")]
  /\ UNCHANGED <<rows, applied>>

\* Mutant: the savepoint is taken before the claims.
SavepointBeforeClaims(c) ==
  /\ tx' = [tx EXCEPT ![c].sp = TRUE, ![c].spIns = {}, ![c].spEff = NoEffect]
  /\ UNCHANGED <<rows, applied>>

Savepoint(c) ==
  /\ tx' = [tx EXCEPT ![c].sp = TRUE, ![c].spIns = tx[c].ins, ![c].spEff = tx[c].eff]
  /\ UNCHANGED <<rows, applied>>

Release(c) ==
  /\ tx[c].sp
  /\ tx' = [tx EXCEPT ![c].sp = FALSE, ![c].spIns = {}, ![c].spEff = NoEffect]
  /\ UNCHANGED <<rows, applied>>

\* Mutant: the first handler's savepoint serves the whole batch.
KeepFirstSavepoint(c) ==
  /\ tx[c].sp
  /\ UNCHANGED storeVars

ReleaseAndSavepoint(c) ==
  /\ tx[c].sp
  /\ Savepoint(c)

\* Mutant: the failed handler's effects stay.
RollbackToKeepsEffects(c) ==
  /\ tx[c].sp
  /\ UNCHANGED storeVars

\* ROLLBACK TO keeps the savepoint open.
RollbackTo(c) ==
  /\ tx[c].sp
  /\ tx' = [tx EXCEPT ![c].ins = tx[c].spIns, ![c].eff = tx[c].spEff]
  /\ UNCHANGED <<rows, applied>>

\* Mutant: unclaim undoes the effect that ROLLBACK TO has undone already.
UnclaimUndoesEffect(c, k) ==
  /\ tx' = [tx EXCEPT ![c].ins = @ \ {k}, ![c].eff[k] = @ - 1]
  /\ UNCHANGED <<rows, applied>>

\* Deletes the row this transaction inserted; its lock stays to the end.
Unclaim(c, k) ==
  /\ tx' = [tx EXCEPT ![c].ins = @ \ {k}]
  /\ UNCHANGED <<rows, applied>>

Commit(c) ==
  /\ rows' = rows \cup tx[c].ins
  /\ applied' = [k \in Key |-> applied[k] + tx[c].eff[k]]
  /\ tx' = [tx EXCEPT ![c] = EmptyTx("idle")]

Rollback(c) ==
  /\ tx' = [tx EXCEPT ![c] = EmptyTx("idle")]
  /\ UNCHANGED <<rows, applied>>

\* The Tx value is dropped: the rollback is queued and the locks stay.
Drop(c) ==
  /\ tx' = [tx EXCEPT ![c].st = "dropped"]
  /\ UNCHANGED <<rows, applied>>

\* The queued rollback runs before the pool hands the connection out again.
RollbackDropped(c) ==
  /\ tx[c].st = "dropped"
  /\ tx' = [tx EXCEPT ![c] = EmptyTx("idle")]
  /\ UNCHANGED <<rows, applied>>

\* is_known_duplicate reads committed rows over a connection of the pool.
KnownDuplicate(k) ==
  /\ \E c \in Conns : tx[c].st = "idle"
  /\ k \in rows

-----------------------------------------------------------------------------
(* What the statements keep, whoever runs them.                            *)

\* One effect for each key of K.
OneEach(K) == [k \in Key |-> IF k \in K THEN 1 ELSE 0]

\* Row locks exclude each other, cover every uncommitted row, and keep those
\* rows from being committed by anybody else.
LockInv ==
  /\ \A c \in Conns : /\ tx[c].ins \cup tx[c].spIns \subseteq tx[c].lck
                      /\ (tx[c].ins \cup tx[c].spIns) \cap rows = {}
  /\ \A c, d \in Conns :
       c # d => IF Backend = "sqlite" THEN tx[c].lck = {} \/ tx[d].lck = {}
                                      ELSE tx[c].lck \cap tx[d].lck = {}
=============================================================================
