------------------------------ MODULE Consumer ------------------------------
(***************************************************************************)
(* Consumer::process and Consumer::process_many over the InboxStore, with  *)
(* the broker around them: workers that call one or the other for the      *)
(* messages they are handed, acknowledge what came back as processed or    *)
(* duplicate, and are handed the rest again.  Every step is what the code  *)
(* does between two awaits, so a worker can be overtaken, cancelled or     *)
(* killed at each of them.                                                 *)
(***************************************************************************)
EXTENDS InboxStore, Sequences

CONSTANTS
  Workers,       \* tasks that call process or process_many
  ConsumerOf,    \* the consumer id each worker's Consumer was built with
  Batches,       \* the slices process_many is called with
  LockTimeouts,  \* workers whose Consumer has a lock timeout
  Poison,        \* messages whose handler always fails
  MaxFaults,     \* how many faults the environment may inject
  NoConn         \* stands for: no connection

ASSUME ConsumerAssumption ==
  /\ ConsumerOf \in [Workers -> Consumers]
  /\ Batches \subseteq Seq(Messages)
  /\ MaxFaults \in Nat
  /\ NoConn \notin Conns
\* LockTimeout is not implemented for SQLite.
ASSUME LockTimeoutAssumption ==
  /\ LockTimeouts \subseteq Workers
  /\ Backend = "sqlite" => LockTimeouts = {}

VARIABLES
  call,     \* the call each worker is in
  acked,    \* keys acknowledged to the broker
  faults    \* faults injected so far

vars == <<rows, applied, tx, call, acked, faults>>

(***************************************************************************)
(* The locals of a call.  todo: ids claim_many has yet to claim; fresh:    *)
(* ids the backend answered Fresh; pos: index of the for loop; failed: ids *)
(* whose handler failed; err: the outer Err, or "none".                    *)
(***************************************************************************)
Call == [pc : {"idle", "begin", "claim", "run", "commit", "rollback", "undo",
               "loop", "rollback_to", "unclaim", "release", "done"},
         many : BOOLEAN, conn : Conns \cup {NoConn}, batch : Seq(Messages),
         todo : SUBSET Messages, fresh : SUBSET Messages, pos : Nat,
         failed : SUBSET Messages,
         results : Seq({"Processed", "Duplicate", "Failed"}),
         err : {"none", "Handler", "Contended", "Backend"}]

NewCall(pc, many, b) ==
  [pc |-> pc, many |-> many, conn |-> NoConn, batch |-> b, todo |-> {},
   fresh |-> {}, pos |-> 1, failed |-> {}, results |-> <<>>, err |-> "none"]

IdleCall == NewCall("idle", FALSE, <<>>)

TypeOK ==
  /\ StoreTypeOK
  /\ call \in [Workers -> Call]
  /\ acked \subseteq Key
  /\ faults \in 0..MaxFaults

Init ==
  /\ StoreInit
  /\ call = [w \in Workers |-> IdleCall]
  /\ acked = {}
  /\ faults = 0

\* Mutant: the row is keyed by the message alone.
KeyOfMessage(w, m) == <<CHOOSE c \in Consumers : TRUE, m>>

KeyOf(w, m) == <<ConsumerOf[w], m>>

Ids(b) == {b[i] : i \in DOMAIN b}

\* A fault of the environment, out of a bounded budget.
Fault == faults < MaxFaults /\ faults' = faults + 1

\* The call returns: results is what Ok carries, e the error of an outer Err.
Return(w, results, e) ==
  call' = [call EXCEPT ![w] = [NewCall("done", call[w].many, call[w].batch)
                               EXCEPT !.results = results, !.err = e]]

\* Mutant: the transaction is leaked.
LeakConn(w) == UNCHANGED storeVars

\* A ? returns the error and drops the transaction, if there is one.
DropConn(w) ==
  IF call[w].conn = NoConn THEN UNCHANGED storeVars ELSE Drop(call[w].conn)

-----------------------------------------------------------------------------
(* Entering a call.                                                        *)

Process(w, m) ==
  /\ call[w].pc = "idle"
  /\ call' = [call EXCEPT ![w] = NewCall("begin", FALSE, <<m>>)]
  /\ UNCHANGED <<storeVars, acked, faults>>

\* An empty slice returns before a transaction is opened.
ProcessMany(w, b) ==
  /\ call[w].pc = "idle"
  /\ call' = [call EXCEPT ![w] =
                NewCall(IF b = <<>> THEN "done" ELSE "begin", TRUE, b)]
  /\ UNCHANGED <<storeVars, acked, faults>>

BeginTx(w) ==
  /\ call[w].pc = "begin"
  /\ \E c \in Conns :
       /\ Begin(c)
       /\ call' = [call EXCEPT ![w].pc = "claim", ![w].conn = c,
                               ![w].todo = Ids(call[w].batch)]
  /\ UNCHANGED <<acked, faults>>

-----------------------------------------------------------------------------
(* Claiming.  process claims one id; claim_many sorts and dedups the slice *)
(* and the backend's statement claims the ids in that order, row by row.   *)

\* Mutant: claim_many does not sort.
IsNextUnsorted(w, m) ==
  /\ m \in call[w].todo
  /\ \E i \in DOMAIN call[w].batch :
       /\ call[w].batch[i] = m
       /\ \A j \in 1..(i - 1) : call[w].batch[j] \notin call[w].todo

\* m is the next id of unique, the sorted slice without repeats.
IsNext(w, m) ==
  /\ m \in call[w].todo
  /\ \A n \in call[w].todo : m <= n

Claiming(w, m) == call[w].pc = "claim" /\ IsNext(w, m)

ClaimFresh(w) ==
  /\ \E m \in Messages :
       /\ Claiming(w, m)
       /\ InsertRow(call[w].conn, KeyOf(w, m))
       /\ call' = [call EXCEPT ![w].pc = IF call[w].many THEN "claim" ELSE "run",
                               ![w].todo = @ \ {m}, ![w].fresh = @ \cup {m}]
  /\ UNCHANGED <<acked, faults>>

ClaimDuplicate(w) ==
  /\ \E m \in Messages :
       /\ Claiming(w, m)
       /\ HitRow(call[w].conn, KeyOf(w, m), call[w].many)
       /\ call' = [call EXCEPT ![w].pc = IF call[w].many THEN "claim" ELSE "rollback",
                               ![w].todo = @ \ {m}]
  /\ UNCHANGED <<acked, faults>>

\* MySQL and SQLite bound every lock wait by themselves (innodb_lock_wait_timeout,
\* busy_timeout); PostgreSQL only waits a bounded time with a lock timeout set.
WaitIsBounded(w) == Backend # "postgres" \/ w \in LockTimeouts

\* Timeouts count as faults: calls that kept timing out in turn, each while the
\* others hold what it waits for, would never get anywhere.
ClaimContended(w) ==
  /\ \E m \in Messages : Claiming(w, m) /\ Blocked(call[w].conn, KeyOf(w, m))
  /\ WaitIsBounded(w) /\ Fault
  /\ Drop(call[w].conn)
  /\ Return(w, <<>>, "Contended")
  /\ UNCHANGED acked

-----------------------------------------------------------------------------
(* The loop of process_many, and the handler.                              *)

Seen(w, i) == {call[w].batch[j] : j \in 1..(i - 1)}

\* Mutant: a repeat takes the backend's answer again.
FreshAtRepeats(w, i) == call[w].batch[i] \in call[w].fresh

\* claims[i]: the first occurrence of an id takes the backend's answer and a
\* repeat is Duplicate.
FreshAt(w, i) == call[w].batch[i] \in call[w].fresh \ Seen(w, i)

\* pending, after the handler of position i: Fresh claims still to run.
Pending(w, i) == {j \in DOMAIN call[w].batch : j > i /\ FreshAt(w, j)}

\* pending > 0: the savepoint for the first handler.
OpenSavepoint(w) ==
  /\ call[w].pc = "claim" /\ call[w].many /\ call[w].todo = {}
  /\ IF Pending(w, 0) # {} THEN Savepoint(call[w].conn) ELSE UNCHANGED storeVars
  /\ call' = [call EXCEPT ![w].pc = "loop"]
  /\ UNCHANGED <<acked, faults>>

InLoop(w) == call[w].pc = "loop" /\ call[w].pos <= Len(call[w].batch)

Current(w) == call[w].batch[call[w].pos]

\* Mutant: the repeat of a failed id is a Duplicate like any other.
SkipForgetsFailed(w) ==
  /\ InLoop(w) /\ ~FreshAt(w, call[w].pos)
  /\ call' = [call EXCEPT ![w].pos = @ + 1, ![w].results = Append(@, "Duplicate")]
  /\ UNCHANGED <<storeVars, acked, faults>>

SkipDuplicate(w) ==
  /\ InLoop(w) /\ ~FreshAt(w, call[w].pos)
  /\ call' = [call EXCEPT ![w].pos = @ + 1,
                          ![w].results = Append(@,
                             IF Current(w) \in call[w].failed THEN "Failed" ELSE "Duplicate")]
  /\ UNCHANGED <<storeVars, acked, faults>>

AtHandler(w) ==
  \/ call[w].pc = "run"
  \/ InLoop(w) /\ FreshAt(w, call[w].pos)

HandlerOk(w) ==
  /\ AtHandler(w) /\ Current(w) \notin Poison
  /\ WriteEffect(call[w].conn, KeyOf(w, Current(w)))
  /\ call' = [call EXCEPT ![w].pc = IF call[w].many THEN "release" ELSE "commit",
                          ![w].results = Append(@, "Processed")]
  /\ UNCHANGED <<acked, faults>>

\* The handler wrote its effect and then failed; or, on MySQL, failed because
\* the server had made it a deadlock victim, a fault for a poison message too.
HandlerErr(w) ==
  /\ AtHandler(w)
  /\ \/ /\ WriteEffect(call[w].conn, KeyOf(w, Current(w)))
        /\ IF Current(w) \in Poison THEN UNCHANGED faults ELSE Fault
     \/ LoseTransaction(call[w].conn) /\ Fault
  /\ call' = [call EXCEPT ![w].pc = IF call[w].many THEN "rollback_to" ELSE "undo"]
  /\ UNCHANGED acked

\* Mutant: one failed handler fails the batch.
FailWholeBatch(w) ==
  /\ call[w].pc = "rollback_to"
  /\ Drop(call[w].conn)
  /\ Return(w, <<>>, "Backend")
  /\ UNCHANGED <<acked, faults>>

\* Mutant: a failed handler is run again within the call.
RetryInPlace(w) ==
  /\ call[w].pc = "rollback_to"
  /\ RollbackTo(call[w].conn)
  /\ call' = [call EXCEPT ![w].pc = "loop"]
  /\ UNCHANGED <<acked, faults>>

RollbackToSavepoint(w) ==
  /\ call[w].pc = "rollback_to"
  /\ RollbackTo(call[w].conn)
  /\ call' = [call EXCEPT ![w].pc = "unclaim"]
  /\ UNCHANGED <<acked, faults>>

\* Mutant: the failed ROLLBACK TO counts as the failure of one message only.
SavepointLostGoesOn(w) ==
  /\ call[w].pc = "rollback_to" /\ ~tx[call[w].conn].sp
  /\ call' = [call EXCEPT ![w].pc = "loop", ![w].pos = @ + 1,
                          ![w].failed = @ \cup {Current(w)},
                          ![w].results = Append(@, "Failed")]
  /\ UNCHANGED <<storeVars, acked, faults>>

\* The transaction is gone, and the savepoint with it: ROLLBACK TO fails.
SavepointLost(w) ==
  /\ call[w].pc = "rollback_to" /\ ~tx[call[w].conn].sp
  /\ Drop(call[w].conn)
  /\ Return(w, <<>>, "Backend")
  /\ UNCHANGED <<acked, faults>>

\* Mutant: the claim of a failed message stays.
UnclaimForgotten(w) ==
  /\ call[w].pc = "unclaim"
  /\ call' = [call EXCEPT ![w].pc = "release", ![w].failed = @ \cup {Current(w)},
                          ![w].results = Append(@, "Failed")]
  /\ UNCHANGED <<storeVars, acked, faults>>

UnclaimFailed(w) ==
  /\ call[w].pc = "unclaim"
  /\ Unclaim(call[w].conn, KeyOf(w, Current(w)))
  /\ call' = [call EXCEPT ![w].pc = "release", ![w].failed = @ \cup {Current(w)},
                          ![w].results = Append(@, "Failed")]
  /\ UNCHANGED <<acked, faults>>

ReleaseSavepoint(w) ==
  /\ call[w].pc = "release"
  /\ IF Pending(w, call[w].pos) # {}
     THEN ReleaseAndSavepoint(call[w].conn) ELSE Release(call[w].conn)
  /\ call' = [call EXCEPT ![w].pc = "loop", ![w].pos = @ + 1]
  /\ UNCHANGED <<acked, faults>>

-----------------------------------------------------------------------------
(* Leaving a call.                                                         *)

AtCommit(w) ==
  \/ call[w].pc = "commit"
  \/ call[w].pc = "loop" /\ call[w].pos > Len(call[w].batch)

CommitTx(w) ==
  /\ AtCommit(w)
  /\ Commit(call[w].conn)
  /\ Return(w, call[w].results, "none")
  /\ UNCHANGED <<acked, faults>>

\* The server committed and the answer was lost: commit returns an error.
CommitAnswerLost(w) ==
  /\ AtCommit(w) /\ Fault
  /\ Commit(call[w].conn)
  /\ Return(w, <<>>, "Backend")
  /\ UNCHANGED acked

\* Mutant: a duplicate is taken for contention and the call starts over.
RestartOnDuplicate(w) ==
  /\ call[w].pc = "rollback"
  /\ Rollback(call[w].conn)
  /\ call' = [call EXCEPT ![w] = NewCall("begin", FALSE, call[w].batch)]
  /\ UNCHANGED <<acked, faults>>

\* process found a duplicate.
RollbackDuplicate(w) ==
  /\ call[w].pc = "rollback"
  /\ Rollback(call[w].conn)
  /\ Return(w, <<"Duplicate">>, "none")
  /\ UNCHANGED <<acked, faults>>

\* process's handler failed; a rollback that fails leaves it to the drop.
RollbackHandlerErr(w) ==
  /\ call[w].pc = "undo"
  /\ \/ Rollback(call[w].conn) /\ UNCHANGED faults
     \/ Drop(call[w].conn) /\ Fault
  /\ Return(w, <<>>, "Handler")
  /\ UNCHANGED acked

\* The call awaits a statement whose error it returns with ?.  With every claim
\* answered that is the savepoint or, on MySQL, the SELECT by claim token.
AtStatement(w) ==
  \/ call[w].pc \in {"begin", "rollback", "rollback_to", "unclaim", "release"}
  \/ /\ call[w].pc = "claim"
     /\ call[w].todo \cup call[w].fresh # {} \/ Backend = "mysql"
  \/ AtCommit(w)

\* That statement fails, a commit without having committed.
StatementFails(w) ==
  /\ AtStatement(w) /\ Fault
  /\ DropConn(w)
  /\ Return(w, <<>>, "Backend")
  /\ UNCHANGED acked

\* The future is dropped, or the process dies, before the caller acknowledges.
Cancel(w) ==
  /\ call[w].pc # "idle" /\ Fault
  /\ DropConn(w)
  /\ call' = [call EXCEPT ![w] = IdleCall]
  /\ UNCHANGED acked

-----------------------------------------------------------------------------
(* The caller and the pool.                                                *)

Acks(w) ==
  {KeyOf(w, call[w].batch[i]) :
     i \in {j \in DOMAIN call[w].results : call[w].results[j] # "Failed"}}

\* Processed and Duplicate are acknowledged, everything else is left to the
\* broker to deliver again.
Settle(w) ==
  /\ call[w].pc = "done"
  /\ acked' = acked \cup Acks(w)
  /\ call' = [call EXCEPT ![w] = IdleCall]
  /\ UNCHANGED <<storeVars, faults>>

\* A replay that skips, and acknowledges, what is_known_duplicate reports.
SkipKnown(w, m) ==
  /\ call[w].pc = "idle"
  /\ KnownDuplicate(KeyOf(w, m))
  /\ acked' = acked \cup {KeyOf(w, m)}
  /\ UNCHANGED <<storeVars, call, faults>>

PoolRollback(c) ==
  /\ RollbackDropped(c)
  /\ UNCHANGED <<call, acked, faults>>

-----------------------------------------------------------------------------

\* What a call does next when nothing goes wrong.
Advance(w) ==
  \/ BeginTx(w)
  \/ ClaimFresh(w) \/ ClaimDuplicate(w) \/ OpenSavepoint(w)
  \/ SkipDuplicate(w) \/ HandlerOk(w) \/ HandlerErr(w)
  \/ RollbackToSavepoint(w) \/ SavepointLost(w) \/ UnclaimFailed(w)
  \/ ReleaseSavepoint(w)
  \/ CommitTx(w) \/ RollbackDuplicate(w) \/ RollbackHandlerErr(w)
  \/ Settle(w)

Deliver(w, m) ==
  \/ Process(w, m)
  \/ \E b \in Batches : m \in Ids(b) /\ ProcessMany(w, b)

Next ==
  \/ \E w \in Workers :
       \/ Advance(w)
       \/ ClaimContended(w) \/ CommitAnswerLost(w)
       \/ StatementFails(w) \/ Cancel(w)
       \/ \E m \in Messages : Process(w, m) \/ SkipKnown(w, m)
       \/ \E b \in Batches : ProcessMany(w, b)
  \/ \E c \in Conns : PoolRollback(c)

Spec == Init /\ [][Next]_vars

(***************************************************************************)
(* Fairness.  A worker that can go on infinitely often does: futures are   *)
(* polled, and the queues it may stand in, for a connection of the pool    *)
(* and for a row lock, are served first come, first served.  (SQLite polls *)
(* for its lock and has no such queue.)  The pool runs queued rollbacks.   *)
(* The broker keeps delivering what is not acknowledged to some worker of  *)
(* each consumer.                                                          *)
(***************************************************************************)
Fairness ==
  /\ \A w \in Workers : SF_vars(Advance(w))
  /\ \A c \in Conns : WF_vars(PoolRollback(c))
  /\ \A k \in Key : SF_vars(\E w \in Workers : /\ ConsumerOf[w] = k[1]
                                             /\ k \notin acked
                                             /\ Deliver(w, k[2]))

FairSpec == Spec /\ Fairness

-----------------------------------------------------------------------------
(* Properties.                                                             *)

\* Exactly once: a committed row stands for exactly one committed effect, and
\* there is no effect without its row.  process and process_many write both in
\* one transaction, whatever rolls back, fails or is dropped on the way.
EffectIffRow == \A k \in Key : applied[k] = IF k \in rows THEN 1 ELSE 0

\* No message is lost: what the caller acknowledges, because its call answered
\* Processed or Duplicate or is_known_duplicate said true, has been committed.
AckedAreCommitted == acked \subseteq rows

\* w waits for a row, or for SQLite's write lock, that v's transaction holds.
WaitsFor(w, v) ==
  /\ call[v].conn # NoConn
  /\ \E m \in Messages : /\ Claiming(w, m)
                         /\ BlockedBy(call[w].conn, call[v].conn, KeyOf(w, m))

\* Overlapping batches do not deadlock: claim_many takes row locks in byte
\* order, so in no set of workers does everyone wait for someone of the set.
NoWaitCycle ==
  \A S \in (SUBSET Workers) \ {{}} : \E w \in S : \A v \in S : ~WaitsFor(w, v)

\* Services do not get in each other's way: where locks are row locks, a claim
\* only ever waits for a call with the same consumer id, which is in the key.
ServicesIndependent ==
  Backend # "sqlite" =>
    \A w, v \in Workers : WaitsFor(w, v) => ConsumerOf[w] = ConsumerOf[v]

\* The pool: a connection with an open transaction is in the hands of exactly
\* one call, and one that is back in the pool carries nothing of the last call.
PoolAccounting ==
  \A c \in Conns :
    /\ tx[c].st = "open" <=> \E w \in Workers : call[w].conn = c
    /\ \A v, w \in Workers : call[v].conn = c /\ call[w].conn = c => v = w
    /\ tx[c].st = "idle" => tx[c] = EmptyTx("idle")

\* The step in which w's call returns Ok.
ReturnsOk(w) ==
  /\ call[w].pc \notin {"idle", "done"}
  /\ call'[w].pc = "done" /\ call'[w].err = "none"

\* The keys whose outcome is r in the answer of w's call.
Reported(w, r) ==
  {KeyOf(w, call'[w].batch[i]) :
     i \in {j \in DOMAIN call'[w].results : call'[w].results[j] = r}}

AnswerMatches(w) ==
  /\ rows' \ rows = Reported(w, "Processed")
  /\ Reported(w, "Duplicate") \subseteq rows'
  /\ Reported(w, "Failed") \cap rows' = {}
  /\ Len(call'[w].results) = Len(call'[w].batch)

\* The answer is what was committed: when a call returns Ok, exactly the
\* messages it reports Processed have become rows, everything it reports as
\* Duplicate is committed too, and what it reports as failed is not claimed.
ReplyMatchesCommit == [][\A w \in Workers : ReturnsOk(w) => AnswerMatches(w)]_vars

\* The doc of process_many: "The outer `Err` is a backend failure: nothing was
\* committed."
OuterErrCommitsNothing ==
  [][\A w \in Workers :
       call[w].many /\ call[w].pc # "done" /\ call'[w].pc = "done" /\ call'[w].err # "none"
         => rows' = rows]_vars

EO == INSTANCE ExactlyOnce WITH handled <- applied

\* The consumers implement the abstract inbox: every step handles some set of
\* unhandled keys at once, acknowledges handled ones, or changes nothing.
ImplementsExactlyOnce == EO!Spec

\* A poison message costs only itself: every other message is acknowledged in
\* the end, although batches with the poison message keep coming back.
HealthyAcked ==
  \A k \in Key : (k[2] \notin Poison /\ \E w \in Workers : ConsumerOf[w] = k[1])
                   => <>(k \in acked)

\* Every call returns: no call waits for ever for a connection or for a lock.
CallsReturn == \A w \in Workers : (call[w].pc # "idle") ~> (call[w].pc = "idle")
=============================================================================
