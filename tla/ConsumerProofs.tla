-------------------------- MODULE ConsumerProofs ---------------------------
(***************************************************************************)
(* The commit, and the theorems about Consumer: the invariant IInv is      *)
(* inductive, what it implies, that Consumer implements ExactlyOnce, and   *)
(* what the locks of a call give.                                          *)
(***************************************************************************)
EXTENDS ConsumerSteps

\* Before the first delivery the table is empty, every connection is in the
\* pool and no call is running.
THEOREM InitIInv == Init => IInv
<1> SUFFICES ASSUME Init PROVE IInv
  BY Zenon
<1> USE DEF Init, StoreInit
<1>1. TypeOK
  <2>1. IdleCall \in Call
    <3>1. <<>> \in Seq(Messages)
      OBVIOUS
    <3> QED
      BY <3>1, NewCallType, Zenon DEF IdleCall
  <2>2. StoreTypeOK
    BY NoEffectType, EmptyTxType, Zenon DEF StoreTypeOK
  <2> QED
    BY <2>1, <2>2, ConsumerAssumption DEF TypeOK
<1>2. ConnInv
  BY ConsumerAssumption, Zenon DEF ConnInv, PoolAccounting, IdleCall, NewCall, EmptyTx
<1>3. LockInv
  BY Zenon DEF LockInv, EmptyTx
<1>4. \A w \in Workers : CallInv(w)
  BY Zenon DEF CallInv, IdleCall, NewCall
<1>5. EffectIffRow /\ AckedAreCommitted
  BY Zenon DEF EffectIffRow, AckedAreCommitted, NoEffect
<1> QED
  BY <1>1, <1>2, <1>3, <1>4, <1>5, Zenon DEF IInv

-----------------------------------------------------------------------------
(* Commit.                                                                 *)

\* At the commit the transaction holds one effect for each row it inserted,
\* and whatever the answer does not report as failed is, or becomes, a row.
LEMMA AtCommitFacts ==
  ASSUME IInv, NEW w \in Workers, AtCommit(w)
  PROVE  LET t == tx[call[w].conn]
         IN /\ call[w].pc \in {"commit", "loop"}
            /\ t.eff = OneEach(t.ins)
            /\ Len(call[w].results) = Len(call[w].batch)
            /\ \A j \in DOMAIN call[w].results :
                 call[w].results[j] # "Failed" => KeyOf(w, call[w].batch[j]) \in rows \cup t.ins
<1> DEFINE q == call[w]  t == tx[call[w].conn]
<1>1. q \in Call /\ CallInv(w)
  BY IInvFacts, TypeFacts, Zenon
<1>2. /\ DOMAIN q.batch = 1..Len(q.batch) /\ Len(q.batch) \in Nat
      /\ DOMAIN q.results = 1..Len(q.results) /\ Len(q.results) \in Nat
  BY <1>1 DEF Call
<1>3. CASE q.pc = "commit"
  <2>1. /\ t.ins = {KeyOf(w, q.batch[1])} /\ t.eff = OneEach(t.ins)
        /\ q.results = <<"Processed">>
    BY <1>1, <1>3, Zenon DEF CallInv, CommitInv
  <2>2. Len(q.batch) = 1
    BY <1>1, <1>3, Zenon DEF CallInv
  <2>3. Len(q.results) = 1 /\ DOMAIN q.results = {1}
    BY <2>1
  <2> QED
    BY <1>3, <2>1, <2>2, <2>3, Zenon
<1>4. CASE q.pc = "loop" /\ q.pos > Len(q.batch)
  <2>1. PICK n : n = q.pos
    BY Zenon
  <2>2. LoopInv(w, n) /\ Holds(w, n) /\ n > Len(q.batch)
    BY <1>1, <1>4, <2>1, Zenon DEF CallInv
  <2>3. n = Len(q.batch) + 1 /\ Len(q.results) = Len(q.batch) /\ 1..(n - 1) = DOMAIN q.batch
    <3>1. n \in 1..(Len(q.batch) + 1) /\ Len(q.results) = n - 1 /\ n > Len(q.batch)
      BY <2>2, Zenon DEF LoopInv
    <3>2. n = Len(q.batch) + 1 /\ Len(q.results) = Len(q.batch) /\ n - 1 = Len(q.batch)
      BY <1>2, <3>1
    <3> QED
      BY <1>2, <3>2, Zenon
  <2>4. Seen(w, n) = Ids(q.batch)
    BY <2>3, Zenon DEF Seen, Ids
  <2>5. Handled(w, n) = Claimed(w)
    <3>1. (q.fresh \cap Seen(w, n)) \ q.failed = q.fresh \ q.failed
      BY <2>2, <2>4, Zenon DEF LoopInv
    <3> QED
      BY <3>1, Zenon DEF Handled, Claimed
  <2>6. t.eff = OneEach(t.ins) /\ t.ins = Claimed(w)
    BY <2>2, <2>5, Zenon DEF Holds
  <2>7. \A j \in DOMAIN q.results :
          q.results[j] # "Failed" => KeyOf(w, q.batch[j]) \in rows \cup t.ins
    <3> SUFFICES ASSUME NEW j \in DOMAIN q.results, q.results[j] # "Failed"
                 PROVE  KeyOf(w, q.batch[j]) \in rows \cup t.ins
      BY Zenon
    <3>1. j \in 1..(n - 1) /\ j \in DOMAIN q.batch
      BY <1>2, <2>3, Zenon
    <3>2. q.batch[j] \notin q.failed /\ q.batch[j] \in Ids(q.batch)
      BY <2>2, <3>1, Zenon DEF LoopInv, Ids
    <3>3. CASE q.batch[j] \in q.fresh
      BY <2>6, <3>2, <3>3, Zenon DEF Claimed, Keys
    <3>4. CASE q.batch[j] \notin q.fresh
      BY <2>2, <3>2, <3>4, Zenon DEF LoopInv, Keys
    <3> QED
      BY <3>3, <3>4, Zenon
  <2> QED
    BY <1>4, <2>3, <2>6, <2>7, Zenon
<1> QED
  BY <1>3, <1>4, Zenon DEF AtCommit

\* The commit, whether or not its answer reaches the caller.
LEMMA CommitStep ==
  ASSUME IInv, NEW w \in Workers, AtCommit(w), Commit(call[w].conn),
         call' \in [Workers -> Call],
         \A v \in Workers \ {w} : call'[v] = call[v],
         call'[w].conn = NoConn, call'[w].pc = "done",
         acked' = acked, faults' \in 0..MaxFaults,
         CallInv(w)'
  PROVE  IInv'
<1>1. call[w].pc \in {"commit", "loop"} /\ tx[call[w].conn].eff = OneEach(tx[call[w].conn].ins)
  BY AtCommitFacts, Zenon
<1>2. PICK c \in Conns : c = call[w].conn /\ c # NoConn
  BY <1>1, InTx, Zenon
<1>3. tx \in [Conns -> Tx] /\ tx[c] \in Tx
  BY <1>1, InTx, Zenon
<1>4. /\ rows' = rows \cup tx[c].ins
      /\ applied' = [k \in Key |-> applied[k] + tx[c].eff[k]]
      /\ tx' = [tx EXCEPT ![c] = EmptyTx("idle")]
  BY <1>2, Zenon DEF Commit
<1>5. tx'[c] = EmptyTx("idle") /\ tx' \in [Conns -> Tx]
  BY <1>3, <1>4, EmptyTxType, Zenon
<1>6. tx'[c].st = "idle" /\ tx'[c].ins = {} /\ tx'[c].spIns = {} /\ tx'[c].lck = {}
  BY <1>5 DEF EmptyTx
<1>7. OwnStep(w, c)
  BY <1>2, <1>3, <1>4, <1>5, <1>6, Zenon DEF OwnStep
<1>8. ConnInv' /\ \A v \in Workers : CallInv(v)'
  BY <1>7, OwnStepFrame, IInvFacts, Zenon
<1>9. LockInv'
  <2>1. /\ \A d \in Conns \ {c} : tx'[d] = tx[d]
        /\ rows' \subseteq rows \cup tx[c].ins
        /\ tx'[c].lck \subseteq tx[c].lck \cup {}
    BY <1>3, <1>4, <1>6, Zenon
  <2>2. \A k \in {} : ~Blocked(c, k)
    BY Zenon
  <2> QED
    BY <1>3, <1>5, <1>6, <2>1, <2>2, LockFrame, IInvFacts, Zenon
<1>10. TypeOK'
  <2>1. tx[c].ins \subseteq Key /\ tx[c].eff \in [Key -> Nat]
    BY <1>3, Zenon DEF Tx
  <2>2. rows \subseteq Key /\ applied \in [Key -> Nat] /\ acked \subseteq Key
    BY TypeFacts, Zenon
  <2>3. \A k \in Key : applied[k] + tx[c].eff[k] \in Nat
    BY <2>1, <2>2
  <2>4. applied' \in [Key -> Nat]
    BY <1>4, <2>3, Zenon
  <2> QED
    BY <1>4, <1>5, <2>1, <2>2, <2>4, Zenon DEF TypeOK, StoreTypeOK
<1>11. EffectIffRow'
  <2>1. tx[c].ins \cap rows = {}
    BY IInvFacts, Zenon DEF LockInv
  <2>2. \A k \in Key : tx[c].eff[k] = IF k \in tx[c].ins THEN 1 ELSE 0
    BY <1>1, <1>2, Zenon DEF OneEach
  <2>3. \A k \in Key : applied[k] = IF k \in rows THEN 1 ELSE 0
    BY IInvFacts, Zenon DEF EffectIffRow
  <2>4. \A k \in Key : applied'[k] = IF k \in rows' THEN 1 ELSE 0
    BY <1>4, <2>1, <2>2, <2>3
  <2> QED
    BY <2>4, Zenon DEF EffectIffRow
<1>12. AckedAreCommitted'
  BY <1>4, IInvFacts, Zenon DEF AckedAreCommitted
<1> QED
  BY <1>8, <1>9, <1>10, <1>11, <1>12, Zenon DEF IInv

\* The commit succeeds and the answer is what the loop collected.
LEMMA CommitTxIInv ==
  ASSUME IInv, NEW w \in Workers, CommitTx(w)
  PROVE  IInv'
<1> DEFINE b == call[w].batch  r == call[w].results
           q == [NewCall("done", call[w].many, b) EXCEPT !.results = r, !.err = "none"]
<1>1. /\ AtCommit(w) /\ Commit(call[w].conn) /\ call' = [call EXCEPT ![w] = q]
      /\ acked' = acked /\ faults' = faults
  BY Zenon DEF CommitTx, Return
<1>2. /\ call[w].pc \in {"commit", "loop"} /\ Len(r) = Len(b)
      /\ \A j \in DOMAIN r :
           r[j] # "Failed" => KeyOf(w, b[j]) \in rows \cup tx[call[w].conn].ins
  BY <1>1, AtCommitFacts, Zenon
<1>3. call \in [Workers -> Call] /\ call[w] \in Call
  BY TypeFacts, Zenon
<1>4. /\ q \in Call /\ q.conn = NoConn /\ q.pc = "done" /\ q.batch = b
      /\ q.results = r /\ q.many = call[w].many
  BY <1>3, Zenon DEF NewCall, Call
<1>5. call'[w] = q /\ call' \in [Workers -> Call] /\ \A v \in Workers \ {w} : call'[v] = call[v]
  BY <1>1, <1>3, <1>4, Zenon
<1>6. rows' = rows \cup tx[call[w].conn].ins
  BY <1>1, Zenon DEF Commit
<1> HIDE DEF q
<1>7. CallInv(w)'
  <2>1. call'[w].batch = b /\ call'[w].results = r /\ Len(r) \in Nat
    BY <1>3, <1>4, <1>5 DEF Call
  <2>2. Len(call'[w].results) <= Len(call'[w].batch)
    BY <1>2, <2>1
  <2>3. Acks(w)' \subseteq rows'
    BY <1>2, <1>6, <2>1, Zenon DEF Acks, KeyOf
  <2>4. DoneInv(w)'
    BY <2>2, <2>3, Zenon DEF DoneInv
  <2>5. ~call[w].many => Len(b) = 1
    BY <1>2, CallFacts, Zenon
  <2> QED
    BY <1>4, <1>5, <2>4, <2>5, Zenon DEF CallInv
<1> QED
  BY <1>1, <1>4, <1>5, <1>7, CommitStep, TypeFacts, Zenon

\* The commit succeeds and its answer is lost.
LEMMA CommitAnswerLostIInv ==
  ASSUME IInv, NEW w \in Workers, CommitAnswerLost(w)
  PROVE  IInv'
<1>1. AtCommit(w) /\ Commit(call[w].conn) /\ Return(w, <<>>, "Backend") /\ acked' = acked
  BY Zenon DEF CommitAnswerLost
<1>2. faults' \in 0..MaxFaults
  BY ConsumerAssumption, TypeFacts DEF CommitAnswerLost, Fault
<1>3. call[w].pc # "idle"
  BY <1>1, AtCommitFacts, Zenon
<1> QED
  BY <1>1, <1>2, <1>3, ReturnNothing, CommitStep, Zenon

-----------------------------------------------------------------------------
(* The theorems.                                                           *)

\* Every step of the specification keeps the inductive invariant.
THEOREM NextIInv == IInv /\ [Next]_vars => IInv'
<1> SUFFICES ASSUME IInv, [Next]_vars PROVE IInv'
  BY Zenon
<1>1. ASSUME NEW w \in Workers, Advance(w) PROVE IInv'
  BY <1>1, BeginTxIInv, ClaimFreshIInv, ClaimDuplicateIInv, OpenSavepointIInv,
     SkipDuplicateIInv, HandlerOkIInv, HandlerErrIInv, RollbackToSavepointIInv,
     SavepointLostIInv, UnclaimFailedIInv, ReleaseSavepointIInv, CommitTxIInv,
     RollbackDuplicateIInv, RollbackHandlerErrIInv, SettleIInv, Zenon DEF Advance
<1>2. ASSUME NEW w \in Workers,
             ClaimContended(w) \/ CommitAnswerLost(w) \/ StatementFails(w) \/ Cancel(w)
      PROVE  IInv'
  BY <1>2, ClaimContendedIInv, CommitAnswerLostIInv, StatementFailsIInv, CancelIInv, Zenon
<1>3. ASSUME NEW w \in Workers, NEW m \in Messages, Process(w, m) \/ SkipKnown(w, m)
      PROVE  IInv'
  BY <1>3, ProcessIInv, SkipKnownIInv, Zenon
<1>4. ASSUME NEW w \in Workers, NEW b \in Batches, ProcessMany(w, b) PROVE IInv'
  BY <1>4, ProcessManyIInv, Zenon
<1>5. ASSUME NEW c \in Conns, PoolRollback(c) PROVE IInv'
  BY <1>5, PoolRollbackIInv, Zenon
<1>6. CASE UNCHANGED vars
  <2>1. /\ rows' = rows /\ applied' = applied /\ tx' = tx
        /\ call' = call /\ acked' = acked /\ faults' = faults
    BY <1>6, Zenon DEF vars
  <2>2. \A v \in Workers : CallInv(v)'
    <3> TAKE v \in Workers
    <3> QED
      BY <2>1, CallFrame, IInvFacts, Zenon
  <2>3. TypeOK' /\ LockInv' /\ EffectIffRow' /\ AckedAreCommitted'
    BY <2>1, IInvFacts, Zenon DEF TypeOK, StoreTypeOK, LockInv, EffectIffRow, AckedAreCommitted
  <2>4. ConnInv'
    BY <2>1, IInvFacts DEF ConnInv, PoolAccounting
  <2> QED
    BY <2>2, <2>3, <2>4, Zenon DEF IInv
<1> QED
  BY <1>1, <1>2, <1>3, <1>4, <1>5, <1>6, Zenon DEF Next

\* The inductive invariant holds throughout.
THEOREM Invariance == Spec => []IInv
BY InitIInv, NextIInv, PTL DEF Spec

\* Type correctness of the store and of the calls.
THEOREM TypeCorrect == Spec => []TypeOK
<1>1. IInv => TypeOK
  BY IInvFacts, Zenon
<1> QED
  BY <1>1, Invariance, PTL

\* Exactly once, for every number of workers, connections, messages and faults:
\* process and process_many commit one effect with each row and none without.
THEOREM ExactlyOnceEffect == Spec => []EffectIffRow
<1>1. IInv => EffectIffRow
  BY IInvFacts, Zenon
<1> QED
  BY <1>1, Invariance, PTL

\* No message is lost: what a caller acknowledges on the strength of the answer
\* of process, process_many or is_known_duplicate has been committed.
THEOREM NothingLost == Spec => []AckedAreCommitted
<1>1. IInv => AckedAreCommitted
  BY IInvFacts, Zenon
<1> QED
  BY <1>1, Invariance, PTL

\* No connection is leaked or shared, and none goes back to the pool with
\* something of the last call on it, however the call ended.
THEOREM ConnectionsAccounted == Spec => []PoolAccounting
<1>1. IInv => PoolAccounting
  BY IInvFacts, Zenon DEF ConnInv
<1> QED
  BY <1>1, Invariance, PTL

-----------------------------------------------------------------------------
(* Refinement of ExactlyOnce.                                              *)

\* A commit handles the keys the transaction has inserted, all at once.
LEMMA CommitHandles ==
  ASSUME IInv, NEW w \in Workers, AtCommit(w), Commit(call[w].conn), acked' = acked
  PROVE  EO!Next
<1>1. call[w].pc \in {"commit", "loop"} /\ tx[call[w].conn].eff = OneEach(tx[call[w].conn].ins)
  BY AtCommitFacts, Zenon
<1>2. PICK c \in Conns : c = call[w].conn
  BY <1>1, InTx, Zenon
<1>3. tx[c] \in Tx /\ tx[c].ins \cap rows = {}
  BY <1>1, <1>2, InTx, IInvFacts, Zenon DEF LockInv
<1>4. applied' = [k \in Key |-> applied[k] + tx[c].eff[k]]
  BY <1>2, Zenon DEF Commit
<1>5. tx[c].ins \in SUBSET Key
  BY <1>3, Zenon DEF Tx
<1>6. \A k \in Key : /\ tx[c].eff[k] = IF k \in tx[c].ins THEN 1 ELSE 0
                     /\ applied[k] = IF k \in rows THEN 1 ELSE 0
  BY <1>1, <1>2, IInvFacts, Zenon DEF OneEach, EffectIffRow
<1>7. \A k \in Key : applied[k] + tx[c].eff[k] = IF k \in tx[c].ins THEN 1 ELSE applied[k]
  BY <1>3, <1>6
<1>8. applied' = [k \in Key |-> IF k \in tx[c].ins THEN 1 ELSE applied[k]]
  BY <1>4, <1>7, Zenon
<1>9. EO!Handle(tx[c].ins)
  BY <1>3, <1>5, <1>6, <1>8, Zenon DEF EO!Handle
<1> QED
  BY <1>5, <1>9, Zenon DEF EO!Next

\* Acknowledging committed keys.
LEMMA AckAcknowledges ==
  ASSUME IInv, NEW S, S \subseteq rows, acked' = acked \cup S, applied' = applied
  PROVE  EO!Next
<1>1. S \in SUBSET Key /\ \A k \in S : applied[k] = 1
  BY IInvFacts, TypeFacts, Zenon DEF EffectIffRow
<1>2. EO!Acknowledge(S)
  BY <1>1, Zenon DEF EO!Acknowledge
<1> QED
  BY <1>1, <1>2, Zenon DEF EO!Next

\* Every step of a consumer is a step of the abstract inbox or changes nothing
\* of it: only commits change the effects, only acknowledgements what is acked.
THEOREM StepRefinement == IInv /\ [Next]_vars => [EO!Next]_<<applied, acked>>
<1> SUFFICES ASSUME IInv, [Next]_vars
             PROVE  EO!Next \/ UNCHANGED <<applied, acked>>
  BY Zenon
<1>1. ASSUME NEW w \in Workers, CommitTx(w) \/ CommitAnswerLost(w) PROVE EO!Next
  BY <1>1, CommitHandles, Zenon DEF CommitTx, CommitAnswerLost
<1>2. ASSUME NEW w \in Workers, Settle(w) PROVE EO!Next
  <2>1. Acks(w) \subseteq rows
    BY <1>2, CallFacts, Zenon DEF DoneInv, Settle
  <2> QED
    BY <1>2, <2>1, AckAcknowledges, Zenon DEF Settle, storeVars
<1>3. ASSUME NEW w \in Workers, NEW m \in Messages, SkipKnown(w, m) PROVE EO!Next
  <2>1. {KeyOf(w, m)} \subseteq rows
    BY <1>3, Zenon DEF SkipKnown, KnownDuplicate
  <2> QED
    BY <1>3, <2>1, AckAcknowledges, Zenon DEF SkipKnown, storeVars
<1>4. ASSUME NEW w \in Workers,
             \/ BeginTx(w) \/ ClaimFresh(w) \/ ClaimDuplicate(w) \/ OpenSavepoint(w)
             \/ SkipDuplicate(w) \/ HandlerOk(w) \/ HandlerErr(w)
             \/ RollbackToSavepoint(w) \/ SavepointLost(w) \/ UnclaimFailed(w)
             \/ ReleaseSavepoint(w) \/ RollbackDuplicate(w) \/ RollbackHandlerErr(w)
             \/ ClaimContended(w)
      PROVE  UNCHANGED <<applied, acked>>
  BY <1>4, Zenon DEF BeginTx, ClaimFresh, ClaimDuplicate, OpenSavepoint, SkipDuplicate, HandlerOk,
     HandlerErr, RollbackToSavepoint, SavepointLost, UnclaimFailed, ReleaseSavepoint,
     RollbackDuplicate, RollbackHandlerErr, ClaimContended, Begin, InsertRow, HitRow,
     WriteEffect, LoseTransaction, Savepoint, Release, ReleaseAndSavepoint, RollbackTo,
     Unclaim, Rollback, Drop, storeVars
<1>5. ASSUME NEW w \in Workers, StatementFails(w) \/ Cancel(w)
      PROVE  UNCHANGED <<applied, acked>>
  BY <1>5, Zenon DEF StatementFails, Cancel, DropConn, Drop, storeVars
<1>6. ASSUME NEW w \in Workers,
             \/ \E m \in Messages : Process(w, m)
             \/ \E b \in Batches : ProcessMany(w, b)
      PROVE  UNCHANGED <<applied, acked>>
  BY <1>6, Zenon DEF Process, ProcessMany, storeVars
<1>7. ASSUME NEW c \in Conns, PoolRollback(c) PROVE UNCHANGED <<applied, acked>>
  BY <1>7, Zenon DEF PoolRollback, RollbackDropped
<1>8. CASE UNCHANGED vars
  BY <1>8, Zenon DEF vars
<1> QED
  BY <1>1, <1>2, <1>3, <1>4, <1>5, <1>6, <1>7, <1>8, Zenon DEF Next, Advance

\* The consumers implement the abstract inbox.
THEOREM Refinement == Spec => ImplementsExactlyOnce
<1>1. Init => EO!Init
  BY Zenon DEF Init, StoreInit, NoEffect, EO!Init
<1> QED
  BY <1>1, StepRefinement, Invariance, PTL DEF Spec, ImplementsExactlyOnce, EO!Spec

-----------------------------------------------------------------------------
(***************************************************************************)
(* What the locks of a call give, for any number of workers.  Overlapping  *)
(* batches do not deadlock: a call that waits for a row only holds locks   *)
(* on smaller ids, because claim_many has sorted them, so along a chain of *)
(* waiting calls the ids waited for grow.  Services do not wait for each   *)
(* other.  And the answer of a call is what it committed: the locks on the *)
(* rows of failed messages keep others from committing them before.        *)
(***************************************************************************)

\* The step of the argument: on PostgreSQL and MySQL, who is waited for and
\* waits itself waits for a larger id.
LEMMA WaitsForLarger ==
  ASSUME IInv, Backend # "sqlite", NEW w \in Workers, NEW v \in Workers, WaitsFor(w, v),
         NEW m \in Messages, Claiming(w, m), NEW n \in Messages, Claiming(v, n)
  PROVE  m < n
<1>1. PICK l \in Messages : Claiming(w, l) /\ KeyOf(w, l) \in tx[call[v].conn].lck
  BY Zenon DEF WaitsFor, BlockedBy
<1>2. l = m
  BY <1>1, MessagesAssumption DEF Claiming, IsNext
<1>3. ClaimInv(v) /\ n \in call[v].todo
  BY CallFacts, Zenon DEF Claiming, IsNext
<1>4. \A k \in tx[call[v].conn].lck : k[2] < n
  BY <1>3, Zenon DEF ClaimInv
<1>5. KeyOf(w, m)[2] = m
  BY Zenon DEF KeyOf
<1> QED
  BY <1>1, <1>2, <1>4, <1>5, Zenon

\* In every set of workers someone waits for nobody of the set.
LEMMA IInvNoWaitCycle ==
  ASSUME NEW B \in Nat, Messages \subseteq 0..B, IInv
  PROVE  NoWaitCycle
<1> SUFFICES ASSUME NEW S \in (SUBSET Workers) \ {{}},
                    \A w \in S : \E v \in S : WaitsFor(w, v)
             PROVE  FALSE
  BY Zenon DEF NoWaitCycle
<1>1. CASE Backend = "sqlite"
  <2>1. PICK w \in S, v \in S, u \in S : WaitsFor(w, v) /\ WaitsFor(v, u)
    BY Zenon
  <2>2. /\ tx[call[v].conn].lck # {} /\ tx[call[u].conn].lck # {}
        /\ call[v].conn # call[u].conn
        /\ call[v].conn # NoConn /\ call[u].conn # NoConn
    BY <1>1, <2>1, Zenon DEF WaitsFor, BlockedBy
  <2>3. call[v].conn \in Conns /\ call[u].conn \in Conns
    BY <2>2, TypeFacts, Zenon DEF Call
  <2> QED
    BY <1>1, <2>2, <2>3, IInvFacts, Zenon DEF LockInv
<1>2. CASE Backend # "sqlite"
  <2> DEFINE T == {m \in Messages : \E w \in S : Claiming(w, m)}
  <2>1. \A w \in S : \E m \in Messages : Claiming(w, m)
    BY Zenon DEF WaitsFor
  <2>2. T \subseteq 0..B /\ T # {}
    BY <2>1, Zenon
  <2>3. PICK m \in T : \A n \in T : n <= m
    <3> HIDE DEF T
    <3> QED
      BY <2>2, LargestId, Zenon
  <2>4. PICK w \in S : Claiming(w, m)
    BY Zenon
  <2>5. PICK v \in S : WaitsFor(w, v)
    BY Zenon
  <2>6. PICK n \in Messages : Claiming(v, n)
    BY <2>1, Zenon
  <2>7. m < n
    BY <1>2, <2>4, <2>5, <2>6, WaitsForLarger, Zenon
  <2>8. n <= m
    BY <2>3, <2>6, Zenon
  <2> QED
    BY <2>7, <2>8, MessagesAssumption
<1> QED
  BY <1>1, <1>2, Zenon

\* claim_many's sort keeps overlapping batches, and batches against single
\* claims, from deadlocking on PostgreSQL and SQLite.  MySQL is excluded: three
\* claims of one id can deadlock there when the first rolls back, through locks
\* that DuplicateKeepsLock leaves out.  Ids have at most 512 bytes, hence the bound.
THEOREM NoDeadlock ==
  ASSUME Backend # "mysql", NEW B \in Nat, Messages \subseteq 0..B
  PROVE  Spec => []NoWaitCycle
<1>1. IInv => NoWaitCycle
  BY IInvNoWaitCycle, Zenon
<1> QED
  BY <1>1, Invariance, PTL

-----------------------------------------------------------------------------
(* The invariant HoldsInv.                                                 *)

\* A step of w's call on connection c, as far as locks are concerned.
LockStep(w, c) ==
  /\ \A v \in Workers \ {w} : call'[v] = call[v]
  /\ \A d \in Conns \ {c} : tx'[d] = tx[d]
  /\ rows' \subseteq rows \cup tx[c].ins
  /\ call[w].conn = c \/ tx[c].st # "open"

\* It leaves what the other calls hold: nobody else commits a row they lock.
LEMMA OthersHold ==
  ASSUME IInv, HoldsInv, NEW w \in Workers, NEW c \in Conns, LockStep(w, c),
         NEW v \in Workers \ {w}
  PROVE  HoldInv(v)'
<1>1. call'[v] = call[v] /\ call[v] \in Call /\ HoldInv(v)
  BY TypeFacts, Zenon DEF LockStep, HoldsInv
<1>2. CASE call[v].conn = NoConn
  <2>1. call[v].pc \in {"idle", "begin", "done"}
    BY <1>2, IInvFacts, Zenon DEF ConnInv
  <2> QED
    BY <1>1, <1>2, <2>1, Zenon DEF HoldInv, InBatch
<1>3. CASE call[v].conn # NoConn
  <2>1. PICK d \in Conns : d = call[v].conn
    BY <1>1, <1>3, Zenon DEF Call
  <2>2. d # c
    BY <1>3, <2>1, IInvFacts DEF LockStep, ConnInv, PoolAccounting
  <2>3. tx'[d] = tx[d]
    BY <2>2, Zenon DEF LockStep
  <2>4. tx[d].lck \cap tx[c].ins = {}
    BY <2>2, IInvFacts, Zenon DEF LockInv
  <2>5. tx[d].lck \cap rows' \subseteq rows
    BY <2>4, Zenon DEF LockStep
  <2>6. InBatch(v)' => InBatch(v)
    BY <1>1, <2>1, <2>3, Zenon DEF InBatch
  <2>7. Keys(v, call[v].fresh)' = Keys(v, call[v].fresh)
    BY <1>1, Zenon DEF Keys, KeyOf
  <2> QED
    BY <1>1, <2>1, <2>3, <2>5, <2>6, <2>7, Zenon DEF HoldInv
<1> QED
  BY <1>2, <1>3, Zenon

\* A step that touches no transaction leaves what the other calls hold.
LEMMA SameHold ==
  ASSUME HoldsInv, UNCHANGED storeVars, NEW v \in Workers, call'[v] = call[v]
  PROVE  HoldInv(v)'
BY Zenon DEF HoldsInv, HoldInv, InBatch, Keys, KeyOf, storeVars

\* A call that is over holds nothing.
LEMMA EndHold ==
  ASSUME NEW w \in Workers, call'[w].conn = NoConn,
         call'[w].pc \in {"idle", "begin", "done"}
  PROVE  HoldInv(w)'
BY Zenon DEF HoldInv, InBatch

\* The statements around a handler keep every lock.
LEMMA StatementLocks ==
  ASSUME NEW c \in Conns, NEW k \in Key, tx \in [Conns -> Tx],
         \/ WriteEffect(c, k) \/ Savepoint(c) \/ Release(c) \/ ReleaseAndSavepoint(c)
         \/ RollbackTo(c) \/ Unclaim(c, k)
  PROVE  /\ tx'[c].lck = tx[c].lck /\ rows' = rows
         /\ \A d \in Conns \ {c} : tx'[d] = tx[d]
<1>1. tx[c] \in Tx
  BY Zenon
<1>2. CASE WriteEffect(c, k)
  BY <1>2, WriteEffectTx DEF WriteEffect
<1>3. CASE Savepoint(c) \/ ReleaseAndSavepoint(c)
  BY <1>1, <1>3 DEF Savepoint, ReleaseAndSavepoint, Tx
<1>4. CASE Release(c)
  BY <1>1, <1>4, Zenon DEF Release, Tx
<1>5. CASE RollbackTo(c)
  BY <1>1, <1>5, Zenon DEF RollbackTo, Tx
<1>6. CASE Unclaim(c, k)
  BY <1>1, <1>6, Zenon DEF Unclaim, Tx
<1> QED
  BY <1>2, <1>3, <1>4, <1>5, <1>6, Zenon

\* A step of the loop of w's batch that keeps the locks.
LEMMA LoopHold ==
  ASSUME IInv, HoldsInv, NEW w \in Workers, NEW c \in Conns, c = call[w].conn,
         \A v \in Workers \ {w} : call'[v] = call[v],
         call'[w].conn = c, call'[w].fresh = call[w].fresh,
         \A d \in Conns \ {c} : tx'[d] = tx[d],
         tx'[c].lck = tx[c].lck, rows' = rows,
         InBatch(w)' => InBatch(w)
  PROVE  HoldsInv'
<1>1. \A v \in Workers \ {w} : HoldInv(v)'
  <2>1. LockStep(w, c)
    BY Zenon DEF LockStep
  <2> QED
    BY <2>1, OthersHold, Zenon
<1>2. Keys(w, call[w].fresh)' = Keys(w, call[w].fresh)
  BY Zenon DEF Keys, KeyOf
<1>3. HoldInv(w)'
  <2>1. HoldInv(w) /\ call[w].conn # NoConn
    BY ConsumerAssumption, Zenon DEF HoldsInv
  <2>2. tx'[call'[w].conn].lck = tx[call[w].conn].lck
    BY Zenon
  <2> QED
    BY <1>2, <2>1, <2>2, Zenon DEF HoldInv
<1> QED
  BY <1>1, <1>3, Zenon DEF HoldsInv

\* Begin: a connection of the pool holds no lock.
LEMMA BeginTxHold ==
  ASSUME IInv, HoldsInv, NEW w \in Workers, BeginTx(w)
  PROVE  HoldsInv'
<1>1. PICK c \in Conns :
        /\ Begin(c)
        /\ call' = [call EXCEPT ![w].pc = "claim", ![w].conn = c,
                                ![w].todo = Ids(call[w].batch)]
  BY Zenon DEF BeginTx
<1>2. call \in [Workers -> Call] /\ call[w] \in Call /\ tx \in [Conns -> Tx]
  BY TypeFacts, Zenon
<1>3. call'[w].pc = "claim" /\ call'[w].conn = c /\ \A v \in Workers \ {w} : call'[v] = call[v]
  BY <1>1, <1>2, Zenon DEF Call
<1>4. /\ tx[c].st = "idle" /\ tx'[c] = EmptyTx("open") /\ rows' = rows
      /\ \A d \in Conns \ {c} : tx'[d] = tx[d]
  BY <1>1, <1>2, Zenon DEF Begin
<1>5. tx'[c].lck = {}
  BY <1>4 DEF EmptyTx
<1>6. LockStep(w, c)
  BY <1>3, <1>4, Zenon DEF LockStep
<1>7. HoldInv(w)'
  BY <1>3, <1>5, Zenon DEF HoldInv, InBatch
<1> QED
  BY <1>6, <1>7, OthersHold, Zenon DEF HoldsInv

\* A claim locks at most a row of its own consumer.
LEMMA ClaimHold ==
  ASSUME IInv, HoldsInv, NEW w \in Workers, ClaimFresh(w) \/ ClaimDuplicate(w)
  PROVE  HoldsInv'
<1>1. PICK m \in Messages :
        /\ call[w].pc = "claim"
        /\ \/ InsertRow(call[w].conn, KeyOf(w, m))
           \/ HitRow(call[w].conn, KeyOf(w, m), call[w].many)
  BY Zenon DEF ClaimFresh, ClaimDuplicate, Claiming
<1>2. PICK c \in Conns : c = call[w].conn
  BY <1>1, InTx, Zenon
<1>3. call \in [Workers -> Call] /\ call[w] \in Call /\ tx \in [Conns -> Tx] /\ tx[c] \in Tx
  BY TypeFacts, Zenon
<1>4. /\ call'[w].pc \in {"claim", "run", "rollback"} /\ call'[w].conn = c
      /\ \A v \in Workers \ {w} : call'[v] = call[v]
  <2>1. CASE ClaimFresh(w)
    <3>1. PICK n \in Messages :
            call' = [call EXCEPT ![w].pc = IF call[w].many THEN "claim" ELSE "run",
                                 ![w].todo = @ \ {n}, ![w].fresh = @ \cup {n}]
      BY <2>1, Zenon DEF ClaimFresh
    <3> QED
      BY <1>2, <1>3, <3>1, Zenon DEF Call
  <2>2. CASE ClaimDuplicate(w)
    <3>1. PICK n \in Messages :
            call' = [call EXCEPT ![w].pc = IF call[w].many THEN "claim" ELSE "rollback",
                                 ![w].todo = @ \ {n}]
      BY <2>2, Zenon DEF ClaimDuplicate
    <3> QED
      BY <1>2, <1>3, <3>1, Zenon DEF Call
  <2> QED
    BY <2>1, <2>2, Zenon
<1>5. /\ tx'[c].lck \subseteq tx[c].lck \cup {KeyOf(w, m)} /\ rows' = rows
      /\ \A d \in Conns \ {c} : tx'[d] = tx[d]
  <2>1. CASE InsertRow(c, KeyOf(w, m))
    BY <1>3, <2>1, Zenon DEF InsertRow, Tx
  <2>2. CASE HitRow(c, KeyOf(w, m), call[w].many)
    BY <1>3, <2>2, Zenon DEF HitRow, Tx
  <2> QED
    BY <1>1, <1>2, <2>1, <2>2, Zenon
<1>6. LockStep(w, c)
  BY <1>2, <1>4, <1>5, Zenon DEF LockStep
<1>7. \A k \in tx'[c].lck : k[1] = ConsumerOf[w]
  <2>1. KeyOf(w, m)[1] = ConsumerOf[w]
    BY Zenon DEF KeyOf
  <2>2. c # NoConn
    BY ConsumerAssumption, Zenon
  <2> QED
    BY <1>2, <1>5, <2>1, <2>2, Zenon DEF HoldsInv, HoldInv
<1>8. HoldInv(w)'
  BY <1>4, <1>7, Zenon DEF HoldInv, InBatch
<1> QED
  BY <1>6, <1>8, OthersHold, Zenon DEF HoldsInv

\* When the loop begins the rows of the fresh ids are inserted, hence locked
\* and not committed.
LEMMA OpenSavepointHold ==
  ASSUME IInv, HoldsInv, NEW w \in Workers, OpenSavepoint(w)
  PROVE  HoldsInv'
<1>1. /\ call[w].pc = "claim" /\ call' = [call EXCEPT ![w].pc = "loop"]
      /\ Savepoint(call[w].conn) \/ UNCHANGED storeVars
  BY Zenon DEF OpenSavepoint
<1>2. PICK c \in Conns : c = call[w].conn
  BY <1>1, InTx, Zenon
<1>3. call \in [Workers -> Call] /\ call[w] \in Call /\ tx \in [Conns -> Tx] /\ tx[c] \in Tx
  BY TypeFacts, Zenon
<1>4. /\ call'[w].conn = c /\ call'[w].fresh = call[w].fresh
      /\ \A v \in Workers \ {w} : call'[v] = call[v]
  BY <1>1, <1>2, <1>3, Zenon DEF Call
<1>5. /\ tx'[c].lck = tx[c].lck /\ rows' = rows
      /\ \A d \in Conns \ {c} : tx'[d] = tx[d]
  <2>1. CASE Savepoint(c)
    BY <1>3, <2>1, Zenon DEF Savepoint, Tx
  <2>2. CASE UNCHANGED storeVars
    BY <2>2, Zenon DEF storeVars
  <2> QED
    BY <1>1, <1>2, <2>1, <2>2, Zenon
<1>6. Keys(w, call[w].fresh) \subseteq tx[c].lck \ rows
  <2>1. tx[c].ins = Keys(w, call[w].fresh)
    BY <1>1, <1>2, CallFacts, ZenonT(30) DEF ClaimInv
  <2> QED
    BY <2>1, IInvFacts, SMTT(40) DEF LockInv
<1>7. HoldInv(w)'
  <2>1. Keys(w, call[w].fresh)' = Keys(w, call[w].fresh)
    BY <1>4, Zenon DEF Keys, KeyOf
  <2>2. \A k \in tx[c].lck : k[1] = ConsumerOf[w]
    BY <1>2, ConsumerAssumption, Zenon DEF HoldsInv, HoldInv
  <2> QED
    BY <1>4, <1>5, <1>6, <2>1, <2>2, Zenon DEF HoldInv
<1>8. LockStep(w, c)
  BY <1>2, <1>4, <1>5, Zenon DEF LockStep
<1> QED
  BY <1>7, <1>8, OthersHold, Zenon DEF HoldsInv

\* The loop: repeats, handlers and the statements around them keep the locks,
\* unless MySQL has taken the whole transaction away.
LEMMA BatchHold ==
  ASSUME IInv, HoldsInv, NEW w \in Workers,
         \/ SkipDuplicate(w) \/ HandlerOk(w) \/ HandlerErr(w)
         \/ RollbackToSavepoint(w) \/ UnclaimFailed(w) \/ ReleaseSavepoint(w)
  PROVE  HoldsInv'
<1>1. /\ call[w].pc \in {"run", "loop", "rollback_to", "unclaim", "release"}
      /\ call[w].pc = "run" => ~call[w].many
  BY CallFacts, Zenon
    DEF SkipDuplicate, HandlerOk, HandlerErr, RollbackToSavepoint, UnclaimFailed,
        ReleaseSavepoint, AtHandler, InLoop
<1>2. PICK c \in Conns : c = call[w].conn
  BY <1>1, InTx, Zenon
<1>3. call \in [Workers -> Call] /\ call[w] \in Call /\ tx \in [Conns -> Tx]
  BY TypeFacts, Zenon
<1>4. /\ call'[w].conn = c /\ call'[w].fresh = call[w].fresh
      /\ \A v \in Workers \ {w} : call'[v] = call[v]
  <2>1. CASE SkipDuplicate(w)
    BY <1>2, <1>3, <2>1, Zenon DEF SkipDuplicate, Call
  <2>2. CASE HandlerOk(w)
    BY <1>2, <1>3, <2>2, Zenon DEF HandlerOk, Call
  <2>3. CASE HandlerErr(w)
    BY <1>2, <1>3, <2>3, Zenon DEF HandlerErr, Call
  <2>4. CASE RollbackToSavepoint(w)
    BY <1>2, <1>3, <2>4, Zenon DEF RollbackToSavepoint, Call
  <2>5. CASE UnclaimFailed(w)
    BY <1>2, <1>3, <2>5, Zenon DEF UnclaimFailed, Call
  <2>6. CASE ReleaseSavepoint(w)
    BY <1>2, <1>3, <2>6, Zenon DEF ReleaseSavepoint, Call
  <2> QED
    BY <2>1, <2>2, <2>3, <2>4, <2>5, <2>6, Zenon
<1>5. InBatch(w)' => InBatch(w)
  <2>1. CASE call[w].pc \in {"loop", "unclaim", "release"}
    BY <2>1, Zenon DEF InBatch
  <2>2. CASE call[w].pc = "run"
    <3>1. call'[w].pc \in {"commit", "undo"}
      <4>1. HandlerOk(w) \/ HandlerErr(w)
        BY <2>2, Zenon DEF SkipDuplicate, RollbackToSavepoint, UnclaimFailed, ReleaseSavepoint, InLoop
      <4>2. ~call[w].many
        BY <1>1, <2>2, Zenon
      <4> QED
        BY <1>3, <4>1, <4>2 DEF HandlerOk, HandlerErr, Call
    <3> QED
      BY <3>1, Zenon DEF InBatch
  <2>3. CASE call[w].pc = "rollback_to"
    <3>1. RollbackToSavepoint(w)
      BY <2>3, Zenon DEF SkipDuplicate, HandlerOk, HandlerErr, AtHandler, UnclaimFailed,
                  ReleaseSavepoint, InLoop
    <3> QED
      BY <2>3, <3>1, Zenon DEF RollbackToSavepoint, RollbackTo, InBatch
  <2> QED
    BY <1>1, <2>1, <2>2, <2>3, Zenon
<1>6. CASE LoseTransaction(c) /\ HandlerErr(w)
  <2>1. /\ tx'[c] = EmptyTx("open") /\ rows' = rows
        /\ \A d \in Conns \ {c} : tx'[d] = tx[d]
    BY <1>3, <1>6, Zenon DEF LoseTransaction
  <2>2. tx'[c].lck = {} /\ tx'[c].sp = FALSE
    BY <2>1 DEF EmptyTx
  <2>3. call'[w].pc \in {"rollback_to", "undo"}
    BY <1>3, <1>6, Zenon DEF HandlerErr, Call
  <2>4. HoldInv(w)'
    BY <1>4, <2>2, <2>3, Zenon DEF HoldInv, InBatch
  <2>5. LockStep(w, c)
    BY <1>2, <1>4, <2>1, Zenon DEF LockStep
  <2> QED
    BY <2>4, <2>5, OthersHold, Zenon DEF HoldsInv
<1>7. CASE SkipDuplicate(w)
  BY <1>2, <1>4, <1>5, <1>7, LoopHold, Zenon DEF SkipDuplicate, storeVars
<1>8. CASE ~SkipDuplicate(w) /\ ~(LoseTransaction(c) /\ HandlerErr(w))
  <2>1. \E k \in Key :
          \/ WriteEffect(c, k) \/ Savepoint(c) \/ Release(c) \/ ReleaseAndSavepoint(c)
          \/ RollbackTo(c) \/ Unclaim(c, k)
    <3>1. CASE HandlerOk(w) \/ HandlerErr(w)
      <4>1. KeyOf(w, Current(w)) \in Key
        BY <3>1, AtHandlerFacts, Zenon DEF HandlerOk, HandlerErr
      <4>2. WriteEffect(c, KeyOf(w, Current(w)))
        BY <1>2, <1>8, <3>1, Zenon DEF HandlerOk, HandlerErr
      <4> QED
        BY <4>1, <4>2, Zenon
    <3>2. CASE UnclaimFailed(w)
      <4>1. call[w].pos \in DOMAIN call[w].batch
        BY <3>2, LoopFacts, Zenon DEF UnclaimFailed
      <4>2. KeyOf(w, Current(w)) \in Key
        BY <1>3, <4>1, KeyOfType DEF Current, Call
      <4> QED
        BY <1>2, <3>2, <4>2, Zenon DEF UnclaimFailed
    <3>3. CASE RollbackToSavepoint(w) \/ ReleaseSavepoint(w)
      <4>1. Messages # {}
        <5>1. call[w].pos \in DOMAIN call[w].batch
          BY <3>3, LoopFacts, Zenon DEF RollbackToSavepoint, ReleaseSavepoint
        <5> QED
          BY <1>3, <5>1, SMTT(40) DEF Call
      <4>2. PICK m \in Messages : KeyOf(w, m) \in Key
        BY <4>1, KeyOfType, Zenon
      <4> QED
        BY <1>2, <3>3, <4>2, Zenon DEF RollbackToSavepoint, ReleaseSavepoint
    <3> QED
      BY <1>8, <3>1, <3>2, <3>3, Zenon
  <2>2. /\ tx'[c].lck = tx[c].lck /\ rows' = rows
        /\ \A d \in Conns \ {c} : tx'[d] = tx[d]
    BY <1>3, <2>1, StatementLocks, Zenon
  <2> QED
    BY <1>2, <1>4, <1>5, <2>2, LoopHold, Zenon
<1> QED
  BY <1>6, <1>7, <1>8, Zenon

\* A call that ends its transaction, or had none, and returns.
LEMMA ReturnHold ==
  ASSUME IInv, HoldsInv, NEW w \in Workers, NEW q, call' = [call EXCEPT ![w] = q],
         q.conn = NoConn, q.pc \in {"idle", "begin", "done"},
         \/ UNCHANGED storeVars
         \/ /\ call[w].pc \notin {"idle", "begin", "done"}
            /\ \/ Drop(call[w].conn) \/ Rollback(call[w].conn) \/ Commit(call[w].conn)
  PROVE  HoldsInv'
<1>1. call \in [Workers -> Call] /\ tx \in [Conns -> Tx]
  BY TypeFacts, Zenon
<1>2. call'[w] = q /\ \A v \in Workers \ {w} : call'[v] = call[v]
  BY <1>1, Zenon
<1>3. HoldInv(w)'
  BY <1>2, EndHold, Zenon
<1>4. CASE UNCHANGED storeVars
  BY <1>2, <1>3, <1>4, SameHold, Zenon DEF HoldsInv
<1>5. CASE /\ call[w].pc \notin {"idle", "begin", "done"}
           /\ \/ Drop(call[w].conn) \/ Rollback(call[w].conn) \/ Commit(call[w].conn)
  <2>1. PICK c \in Conns : c = call[w].conn
    BY <1>5, InTx, Zenon
  <2>2. rows' \subseteq rows \cup tx[c].ins /\ \A d \in Conns \ {c} : tx'[d] = tx[d]
    BY <1>1, <1>5, <2>1, Zenon DEF Drop, Rollback, Commit
  <2>3. LockStep(w, c)
    BY <1>2, <2>1, <2>2, Zenon DEF LockStep
  <2> QED
    BY <1>3, <2>3, OthersHold, Zenon DEF HoldsInv
<1> QED
  BY <1>4, <1>5, Zenon

\* The locals with which a call returns.
LEMMA ReturnedCall ==
  ASSUME NEW w, NEW r, NEW e, Return(w, r, e)
  PROVE  \E q : /\ call' = [call EXCEPT ![w] = q]
                /\ q.conn = NoConn /\ q.pc = "done" /\ q.batch = call[w].batch
                /\ q.results = r /\ q.err = e
<1> DEFINE q == [NewCall("done", call[w].many, call[w].batch)
                 EXCEPT !.results = r, !.err = e]
<1>1. call' = [call EXCEPT ![w] = q]
  BY Zenon DEF Return
<1>2. /\ q.conn = NoConn /\ q.pc = "done" /\ q.batch = call[w].batch
      /\ q.results = r /\ q.err = e
  BY Zenon DEF NewCall
<1> HIDE DEF q
<1> QED
  BY <1>1, <1>2, Zenon

\* Every step keeps HoldsInv.
LEMMA NextHold == IInv /\ HoldsInv /\ [Next]_vars => HoldsInv'
<1> SUFFICES ASSUME IInv, HoldsInv, [Next]_vars PROVE HoldsInv'
  BY Zenon
<1>1. ASSUME NEW w \in Workers,
             \/ SavepointLost(w) \/ RollbackDuplicate(w) \/ RollbackHandlerErr(w)
             \/ CommitTx(w) \/ CommitAnswerLost(w) \/ ClaimContended(w)
      PROVE  HoldsInv'
  <2>1. PICK q : call' = [call EXCEPT ![w] = q] /\ q.conn = NoConn /\ q.pc = "done"
    BY <1>1, ReturnedCall DEF SavepointLost, RollbackDuplicate, RollbackHandlerErr,
       CommitTx, CommitAnswerLost, ClaimContended
  <2>2. /\ call[w].pc \notin {"idle", "begin", "done"}
        /\ \/ Drop(call[w].conn) \/ Rollback(call[w].conn) \/ Commit(call[w].conn)
    BY <1>1, Zenon DEF SavepointLost, RollbackDuplicate, RollbackHandlerErr,
       CommitTx, CommitAnswerLost, ClaimContended, AtCommit, Claiming
  <2> QED
    BY <2>1, <2>2, ReturnHold, Zenon
<1>2. ASSUME NEW w \in Workers, StatementFails(w) \/ Cancel(w) PROVE HoldsInv'
  <2>1. PICK q : call' = [call EXCEPT ![w] = q] /\ q.conn = NoConn /\ q.pc \in {"idle", "done"}
    <3>1. CASE StatementFails(w)
      BY <3>1, ReturnedCall DEF StatementFails
    <3>2. CASE Cancel(w)
      <4>1. IdleCall.conn = NoConn /\ IdleCall.pc = "idle"
        BY Zenon DEF IdleCall, NewCall
      <4> QED
        BY <3>2, <4>1, Zenon DEF Cancel
    <3> QED
      BY <1>2, <3>1, <3>2, Zenon
  <2>2. \/ UNCHANGED storeVars
        \/ call[w].pc \notin {"idle", "begin", "done"} /\ Drop(call[w].conn)
    BY <1>2, IInvFacts, Zenon DEF StatementFails, Cancel, DropConn, ConnInv
  <2> QED
    BY <2>1, <2>2, ReturnHold, Zenon
<1>3. ASSUME NEW w \in Workers,
             \/ Settle(w)
             \/ \E m \in Messages : Process(w, m)
             \/ \E b \in Batches : ProcessMany(w, b)
      PROVE  HoldsInv'
  <2>1. PICK q : /\ call' = [call EXCEPT ![w] = q]
                 /\ q.conn = NoConn /\ q.pc \in {"idle", "begin", "done"}
    <3>1. CASE Settle(w)
      <4>1. IdleCall.conn = NoConn /\ IdleCall.pc = "idle"
        BY Zenon DEF IdleCall, NewCall
      <4> QED
        BY <3>1, <4>1, Zenon DEF Settle
    <3>2. CASE \E m \in Messages : Process(w, m)
      <4>1. PICK m \in Messages : call' = [call EXCEPT ![w] = NewCall("begin", FALSE, <<m>>)]
        BY <3>2, Zenon DEF Process
      <4>2. PICK q : q = NewCall("begin", FALSE, <<m>>)
        BY Zenon
      <4>3. q.conn = NoConn /\ q.pc = "begin"
        BY <4>2, Zenon DEF NewCall
      <4> QED
        BY <4>1, <4>2, <4>3, Zenon
    <3>3. CASE \E b \in Batches : ProcessMany(w, b)
      <4>1. PICK b \in Batches, pc \in {"begin", "done"} :
              call' = [call EXCEPT ![w] = NewCall(pc, TRUE, b)]
        BY <3>3, Zenon DEF ProcessMany
      <4>2. PICK q : q = NewCall(pc, TRUE, b)
        BY Zenon
      <4>3. q.conn = NoConn /\ q.pc \in {"begin", "done"}
        BY <4>1, <4>2, Zenon DEF NewCall
      <4> QED
        BY <4>1, <4>2, <4>3, Zenon
    <3> QED
      BY <1>3, <3>1, <3>2, <3>3, Zenon
  <2>2. UNCHANGED storeVars
    BY <1>3, Zenon DEF Settle, Process, ProcessMany
  <2> QED
    BY <2>1, <2>2, ReturnHold, Zenon
<1>4. ASSUME NEW w \in Workers, NEW m \in Messages, SkipKnown(w, m) PROVE HoldsInv'
  BY <1>4, SameHold, Zenon DEF SkipKnown, HoldsInv
<1>5. ASSUME NEW c \in Conns, PoolRollback(c) PROVE HoldsInv'
  <2>1. /\ tx[c].st = "dropped" /\ rows' = rows /\ call' = call
        /\ \A d \in Conns \ {c} : tx'[d] = tx[d]
    BY <1>5, TypeFacts, Zenon DEF PoolRollback, RollbackDropped
  <2> SUFFICES ASSUME NEW v \in Workers PROVE HoldInv(v)'
    BY Zenon DEF HoldsInv
  <2>2. call[v].conn \in Conns \cup {NoConn} /\ call[v].conn # c
    BY <2>1, ConsumerAssumption, IInvFacts, TypeFacts, Zenon DEF Call, ConnInv, PoolAccounting
  <2>3. CASE call[v].conn = NoConn
    <3>1. call[v].pc \in {"idle", "begin", "done"}
      BY <2>3, IInvFacts, Zenon DEF ConnInv
    <3> QED
      BY <2>1, <2>3, <3>1, EndHold, Zenon
  <2>4. CASE call[v].conn # NoConn
    <3>1. tx'[call[v].conn] = tx[call[v].conn]
      BY <2>1, <2>2, <2>4, Zenon
    <3> QED
      BY <2>1, <3>1, Zenon DEF HoldsInv, HoldInv, InBatch, Keys, KeyOf
  <2> QED
    BY <2>3, <2>4, Zenon
<1>6. ASSUME NEW w \in Workers, Advance(w) PROVE HoldsInv'
  BY <1>1, <1>3, <1>6, BeginTxHold, ClaimHold, OpenSavepointHold, BatchHold, Zenon DEF Advance
<1>7. CASE UNCHANGED vars
  BY <1>7, SameHold, Zenon DEF vars, storeVars, HoldsInv
<1> QED
  BY <1>1, <1>2, <1>3, <1>4, <1>5, <1>6, <1>7, Zenon DEF Next

\* What calls hold, throughout.
THEOREM HoldsInvariance == Spec => []HoldsInv
<1>1. Init => HoldsInv
  BY DEF Init, HoldsInv, HoldInv, InBatch, IdleCall, NewCall
<1> QED
  BY <1>1, NextHold, Invariance, PTL DEF Spec

-----------------------------------------------------------------------------
(* Services.                                                               *)

\* Claims of one service never wait for another's, where locks are row locks:
\* the consumer id is part of the key.
THEOREM ServicesDoNotWait == Spec => []ServicesIndependent
<1>1. IInv /\ HoldsInv => ServicesIndependent
  <2> SUFFICES ASSUME IInv, HoldsInv, Backend # "sqlite",
                      NEW w \in Workers, NEW v \in Workers, WaitsFor(w, v)
               PROVE  ConsumerOf[w] = ConsumerOf[v]
    BY Zenon DEF ServicesIndependent
  <2>1. PICK m \in Messages : KeyOf(w, m) \in tx[call[v].conn].lck
    BY Zenon DEF WaitsFor, BlockedBy
  <2>2. KeyOf(w, m)[1] = ConsumerOf[v]
    BY <2>1, Zenon DEF WaitsFor, HoldsInv, HoldInv
  <2> QED
    BY <2>2, Zenon DEF KeyOf
<1> QED
  BY <1>1, HoldsInvariance, Invariance, PTL

-----------------------------------------------------------------------------
(* Answers.                                                                *)

\* A step in which a call goes on does not return, and is nobody else's.
LEMMA GoingOn ==
  ASSUME IInv, NEW u \in Workers,
         \/ BeginTx(u) \/ ClaimFresh(u) \/ ClaimDuplicate(u) \/ OpenSavepoint(u)
         \/ SkipDuplicate(u) \/ HandlerOk(u) \/ HandlerErr(u)
         \/ RollbackToSavepoint(u) \/ UnclaimFailed(u) \/ ReleaseSavepoint(u)
  PROVE  call'[u].pc # "done" /\ \A v \in Workers \ {u} : call'[v] = call[v]
<1>0. call \in [Workers -> Call] /\ call[u] \in Call
  BY TypeFacts, Zenon
<1>1. CASE BeginTx(u)
  <2>1. PICK c : call' = [call EXCEPT ![u].pc = "claim", ![u].conn = c,
                                      ![u].todo = Ids(call[u].batch)]
    BY <1>1, Zenon DEF BeginTx
  <2> QED
    BY <1>0, <2>1, Zenon DEF Call
<1>2. CASE ClaimFresh(u)
  <2>1. PICK m : call' = [call EXCEPT ![u].pc = IF call[u].many THEN "claim" ELSE "run",
                                      ![u].todo = @ \ {m}, ![u].fresh = @ \cup {m}]
    BY <1>2, Zenon DEF ClaimFresh
  <2> QED
    BY <1>0, <2>1, Zenon DEF Call
<1>3. CASE ClaimDuplicate(u)
  <2>1. PICK m : call' = [call EXCEPT ![u].pc = IF call[u].many THEN "claim" ELSE "rollback",
                                      ![u].todo = @ \ {m}]
    BY <1>3, Zenon DEF ClaimDuplicate
  <2> QED
    BY <1>0, <2>1, Zenon DEF Call
<1>4. CASE OpenSavepoint(u)
  BY <1>0, <1>4, Zenon DEF OpenSavepoint, Call
<1>5. CASE SkipDuplicate(u)
  <2>1. call'[u].pc = call[u].pc /\ \A v \in Workers \ {u} : call'[v] = call[v]
    BY <1>0, <1>5, Zenon DEF SkipDuplicate, Call
  <2> QED
    BY <1>5, <2>1, Zenon DEF SkipDuplicate, InLoop
<1>6. CASE HandlerOk(u)
  BY <1>0, <1>6, Zenon DEF HandlerOk, Call
<1>7. CASE HandlerErr(u)
  BY <1>0, <1>7, Zenon DEF HandlerErr, Call
<1>8. CASE RollbackToSavepoint(u)
  BY <1>0, <1>8, Zenon DEF RollbackToSavepoint, Call
<1>9. CASE UnclaimFailed(u)
  BY <1>0, <1>9, Zenon DEF UnclaimFailed, Call
<1>10. CASE ReleaseSavepoint(u)
  BY <1>0, <1>10, Zenon DEF ReleaseSavepoint, Call
<1> QED
  BY <1>1, <1>2, <1>3, <1>4, <1>5, <1>6, <1>7, <1>8, <1>9, <1>10, Zenon

\* A call returns Ok by committing, or by rolling back a duplicate.
LEMMA ReturnsByCommit ==
  ASSUME IInv, [Next]_vars, NEW w \in Workers, ReturnsOk(w)
  PROVE  CommitTx(w) \/ RollbackDuplicate(w)
<1>0. call \in [Workers -> Call]
  BY TypeFacts, Zenon
<1>1. call'[w] # call[w] /\ call[w].pc # "idle" /\ call'[w].err = "none"
  BY Zenon DEF ReturnsOk
<1>2. ASSUME NEW u \in Workers,
             \/ BeginTx(u) \/ ClaimFresh(u) \/ ClaimDuplicate(u) \/ OpenSavepoint(u)
             \/ SkipDuplicate(u) \/ HandlerOk(u) \/ HandlerErr(u)
             \/ RollbackToSavepoint(u) \/ UnclaimFailed(u) \/ ReleaseSavepoint(u)
      PROVE  FALSE
  BY <1>1, <1>2, GoingOn, Zenon DEF ReturnsOk
<1>3. ASSUME NEW u \in Workers,
             \/ SavepointLost(u) \/ RollbackHandlerErr(u) \/ CommitAnswerLost(u)
             \/ ClaimContended(u) \/ StatementFails(u)
      PROVE  FALSE
  <2>1. PICK e \in {"Handler", "Contended", "Backend"} : Return(u, <<>>, e)
    BY <1>3, Zenon DEF SavepointLost, RollbackHandlerErr, CommitAnswerLost, ClaimContended,
                StatementFails
  <2>2. PICK q : call' = [call EXCEPT ![u] = q] /\ q.err = e
    BY <2>1, ReturnedCall
  <2> QED
    BY <1>0, <1>1, <2>2, Zenon
<1>4. ASSUME NEW u \in Workers, CommitTx(u) \/ RollbackDuplicate(u)
      PROVE  u = w
  <2>1. PICK q : call' = [call EXCEPT ![u] = q]
    BY <1>4, Zenon DEF CommitTx, RollbackDuplicate, Return
  <2> QED
    BY <1>0, <1>1, <2>1, Zenon
<1>5. ASSUME NEW u \in Workers, Cancel(u) \/ Settle(u) PROVE FALSE
  <2>1. call' = [call EXCEPT ![u] = IdleCall] /\ IdleCall.pc = "idle"
    BY <1>5, Zenon DEF Cancel, Settle, IdleCall, NewCall
  <2> QED
    BY <1>0, <1>1, <2>1, Zenon DEF ReturnsOk
<1>6. ASSUME NEW u \in Workers,
             \/ \E m \in Messages : Process(u, m) \/ SkipKnown(u, m)
             \/ \E b \in Batches : ProcessMany(u, b)
      PROVE  FALSE
  <2>1. call[u].pc = "idle" /\ (call' = call \/ \E q : call' = [call EXCEPT ![u] = q])
    BY <1>6, Zenon DEF Process, SkipKnown, ProcessMany
  <2> QED
    BY <1>0, <1>1, <2>1, Zenon
<1>7. ASSUME NEW c \in Conns, PoolRollback(c) PROVE FALSE
  BY <1>1, <1>7, Zenon DEF PoolRollback
<1>8. CASE UNCHANGED vars
  BY <1>1, <1>8, Zenon DEF vars
<1> QED
  BY <1>2, <1>3, <1>4, <1>5, <1>6, <1>7, <1>8, Zenon DEF Next, Advance

\* Every fresh id of the slice has a position that takes the answer Fresh: its
\* first one.
LEMMA FirstOccurrence ==
  ASSUME NEW w \in Workers, call[w] \in Call,
         NEW m \in call[w].fresh, m \in Ids(call[w].batch)
  PROVE  \E j \in DOMAIN call[w].batch : call[w].batch[j] = m /\ FreshAt(w, j)
<1> DEFINE b == call[w].batch
           R == OpToRel(<, Nat)
           U == {i \in DOMAIN b : b[i] = m}
<1>1. \A i, j \in Nat : <<i, j>> \in R <=> i < j
  BY Zenon DEF OpToRel
<1>2. DOMAIN b = 1..Len(b) /\ Len(b) \in Nat
  BY DEF Call
<1>3. U \subseteq Nat /\ U # {}
  BY <1>2 DEF Ids
<1>4. \E j \in U : \A i \in U : ~(<<i, j>> \in R)
  <2> HIDE DEF R, U
  <2> QED
    BY <1>3, NatLessThanWellFounded, WFMin, Zenon DEF R
<1>5. PICK j \in U : \A i \in U : ~(i < j)
  BY <1>1, <1>3, <1>4, Zenon
<1>6. m \notin Seen(w, j)
  <2> SUFFICES ASSUME NEW i \in 1..(j - 1), b[i] = m PROVE FALSE
    BY Zenon DEF Seen
  <2>1. i \in U /\ i < j
    BY <1>2, <1>5
  <2> QED
    BY <1>5, <2>1, Zenon
<1> QED
  BY <1>5, <1>6, Zenon DEF FreshAt

\* The answer of a call that commits: rows are what is reported as processed.
LEMMA CommitAnswer ==
  ASSUME IInv, HoldsInv, NEW w \in Workers, CommitTx(w)
  PROVE  AnswerMatches(w)
<1>1. PICK q : /\ call' = [call EXCEPT ![w] = q]
               /\ q.batch = call[w].batch /\ q.results = call[w].results
  BY ReturnedCall DEF CommitTx
<1>2. PICK b, r : b = call[w].batch /\ r = call[w].results
  BY Zenon
<1>3. AtCommit(w) /\ Len(r) = Len(b) /\ call[w].pc \in {"commit", "loop"}
  BY <1>2, AtCommitFacts, Zenon DEF CommitTx
<1>4. PICK c \in Conns : c = call[w].conn
  BY <1>3, InTx, Zenon
<1>5. call[w] \in Call /\ call'[w].batch = b /\ call'[w].results = r
  BY <1>1, <1>2, TypeFacts, Zenon
<1>6. /\ DOMAIN b = 1..Len(b) /\ DOMAIN r = 1..Len(b) /\ Len(b) \in Nat
  BY <1>2, <1>3, <1>5, SMTT(40) DEF Call
<1>7. rows' = rows \cup tx[c].ins /\ tx[c].ins \cap rows = {}
  BY <1>4, IInvFacts, Zenon DEF CommitTx, Commit, LockInv
<1>8. \A k, a : k \in Reported(w, a) <=> \E j \in DOMAIN r : r[j] = a /\ k = KeyOf(w, b[j])
  BY <1>5, Zenon DEF Reported
<1>9. CASE call[w].pc = "commit"
  <2>1. tx[c].ins = {KeyOf(w, b[1])} /\ r = <<"Processed">>
    BY <1>2, <1>4, <1>9, CallFacts, Zenon DEF CommitInv
  <2>2. DOMAIN r = {1} /\ r[1] = "Processed"
    BY <2>1, SMTT(40)
  <2> QED
    BY <1>3, <1>5, <1>7, <1>8, <2>1, <2>2, SMTT(30) DEF AnswerMatches
<1>10. CASE call[w].pc = "loop"
  <2>1. PICK n : n = call[w].pos /\ LoopInv(w, n) /\ Holds(w, n)
    <3>1. LoopInv(w, call[w].pos) /\ Holds(w, call[w].pos)
      BY <1>10, LoopFacts, Zenon
    <3> QED
      BY <3>1, Zenon
  <2>2. 1..(n - 1) = DOMAIN b
    BY <1>2, <1>3, <1>6, <1>10, <2>1, Zenon DEF LoopInv, AtCommit
  <2>3. PICK F, X : F = call[w].fresh /\ X = call[w].failed
    BY Zenon
  <2>4. \A j \in DOMAIN b :
          r[j] = IF b[j] \in X THEN "Failed"
                 ELSE IF FreshAt(w, j) THEN "Processed" ELSE "Duplicate"
    BY <1>2, <2>1, <2>2, <2>3, Zenon DEF LoopInv
  <2>5. F \subseteq Ids(b) /\ X \subseteq F /\ Keys(w, Ids(b) \ F) \subseteq rows
    BY <1>2, <2>1, <2>3, Zenon DEF LoopInv
  <2>6. tx[c].ins = Keys(w, F \ X)
    BY <1>4, <2>1, <2>3, Zenon DEF Holds, Claimed
  <2>7. \A j \in DOMAIN b : b[j] \in Ids(b) /\ (FreshAt(w, j) => b[j] \in F)
    BY <1>2, <2>3, Zenon DEF Ids, FreshAt
  <2>8. \A m \in F : \E j \in DOMAIN b : b[j] = m /\ FreshAt(w, j)
    BY <1>2, <1>5, <2>3, <2>5, FirstOccurrence, Zenon
  <2>9. rows' \ rows = Reported(w, "Processed")
    <3>1. \A k \in tx[c].ins : k \in Reported(w, "Processed")
      <4> TAKE k \in tx[c].ins
      <4>1. PICK m \in F \ X : k = KeyOf(w, m)
        BY <2>6, Zenon DEF Keys
      <4>2. PICK j \in DOMAIN b : b[j] = m /\ FreshAt(w, j)
        BY <2>8, Zenon
      <4> QED
        BY <1>6, <1>8, <2>4, <4>1, <4>2, Zenon
    <3>2. \A k \in Reported(w, "Processed") : k \in tx[c].ins
      <4> TAKE k \in Reported(w, "Processed")
      <4>1. PICK j \in DOMAIN b : r[j] = "Processed" /\ k = KeyOf(w, b[j])
        BY <1>6, <1>8
      <4>2. b[j] \in F \ X
        BY <2>4, <2>7, <4>1, Zenon
      <4> QED
        BY <2>6, <4>1, <4>2, Zenon DEF Keys
    <3> QED
      BY <1>7, <3>1, <3>2, Zenon
  <2>10. Reported(w, "Duplicate") \subseteq rows'
    <3> SUFFICES ASSUME NEW k \in Reported(w, "Duplicate") PROVE k \in rows'
      BY Zenon
    <3>1. PICK j \in DOMAIN b : r[j] = "Duplicate" /\ k = KeyOf(w, b[j])
      BY <1>6, <1>8
    <3>2. b[j] \notin X /\ b[j] \in Ids(b)
      BY <2>4, <2>7, <3>1, Zenon
    <3> QED
      BY <1>7, <2>5, <2>6, <3>1, <3>2, Zenon DEF Keys
  <2>11. Reported(w, "Failed") \cap rows' = {}
    <3> SUFFICES ASSUME NEW k \in Reported(w, "Failed") PROVE k \notin rows'
      BY Zenon
    <3>1. PICK j \in DOMAIN b : r[j] = "Failed" /\ k = KeyOf(w, b[j])
      BY <1>6, <1>8
    <3>2. b[j] \in X
      BY <2>4, <3>1, Zenon
    <3>3. k \notin rows
      <4>1. Keys(w, F) \cap rows = {}
        BY <1>10, <2>3, Zenon DEF HoldsInv, HoldInv, InBatch
      <4> QED
        BY <2>5, <3>1, <3>2, <4>1, Zenon DEF Keys
    <3>4. k \notin tx[c].ins
      BY <2>6, <3>1, <3>2, KeyOfInjective, Zenon DEF Keys
    <3> QED
      BY <1>7, <3>3, <3>4, Zenon
  <2> QED
    BY <1>3, <1>5, <2>9, <2>10, <2>11, Zenon DEF AnswerMatches
<1> QED
  BY <1>3, <1>9, <1>10, Zenon

\* The answer of a process that found a duplicate.
LEMMA DuplicateAnswer ==
  ASSUME IInv, NEW w \in Workers, RollbackDuplicate(w)
  PROVE  AnswerMatches(w)
<1>1. PICK q : /\ call' = [call EXCEPT ![w] = q]
               /\ q.batch = call[w].batch /\ q.results = <<"Duplicate">>
  BY ReturnedCall DEF RollbackDuplicate
<1>2. PICK b, r : b = call[w].batch /\ r = <<"Duplicate">>
  BY Zenon
<1>3. call'[w].batch = b /\ call'[w].results = r
  BY <1>1, <1>2, TypeFacts, Zenon
<1>4. Len(r) = 1 /\ DOMAIN r = {1} /\ r[1] = "Duplicate"
  BY <1>2, SMTT(30)
<1>5. Len(b) = 1 /\ KeyOf(w, b[1]) \in rows
  BY <1>2, CallFacts, Zenon DEF RollbackDuplicate
<1>6. rows' = rows
  BY Zenon DEF RollbackDuplicate, Rollback
<1>7. \A k, a : k \in Reported(w, a) <=> \E j \in DOMAIN r : r[j] = a /\ k = KeyOf(w, b[j])
  BY <1>3, Zenon DEF Reported
<1> QED
  BY <1>3, <1>4, <1>5, <1>6, <1>7, SMTT(30) DEF AnswerMatches

\* The answer of process and of process_many is what was committed.
THEOREM AnswersAreTrue == Spec => ReplyMatchesCommit
<1>1. IInv /\ HoldsInv /\ [Next]_vars
        => [\A w \in Workers : ReturnsOk(w) => AnswerMatches(w)]_vars
  BY ReturnsByCommit, CommitAnswer, DuplicateAnswer, Zenon
<1> QED
  BY <1>1, HoldsInvariance, Invariance, PTL DEF Spec, ReplyMatchesCommit
=============================================================================
