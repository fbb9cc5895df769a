------------------------- MODULE ConsumerInvariant --------------------------
(***************************************************************************)
(* The inductive invariant behind the safety properties of Consumer: what  *)
(* the transaction of a call contains at every point of the code.          *)
(***************************************************************************)
EXTENDS Consumer

Keys(w, M) == {KeyOf(w, m) : m \in M}

-----------------------------------------------------------------------------
(* Connections.                                                            *)

\* A call has a connection exactly between its begin and its return, the
\* transaction on it is open, and no other call has it.
ConnInv ==
  /\ \A w \in Workers :
       /\ call[w].conn = NoConn <=> call[w].pc \in {"idle", "begin", "done"}
       /\ call[w].conn # NoConn => tx[call[w].conn].st = "open"
  /\ PoolAccounting

-----------------------------------------------------------------------------
(* The calls.                                                              *)

\* The claims answered so far: Fresh ones are inserted and nothing else is,
\* Duplicate ones are committed, and every lock is below the ids to come.
ClaimInv(w) ==
  LET q == call[w]  t == tx[call[w].conn]
  IN /\ q.todo \subseteq Ids(q.batch)
     /\ q.fresh \subseteq Ids(q.batch) \ q.todo
     /\ Keys(w, Ids(q.batch) \ (q.todo \cup q.fresh)) \subseteq rows
     /\ q.pos = 1 /\ q.failed = {} /\ q.results = <<>>
     /\ t.ins = Keys(w, q.fresh) /\ t.eff = NoEffect /\ ~t.sp
     /\ \A k \in t.lck : \A m \in q.todo : k[2] < m
     /\ ~q.many => q.todo # {} /\ q.fresh = {} /\ t.lck = {}

\* The loop of process_many has dealt with the positions before n.
LoopInv(w, n) ==
  LET q == call[w]
  IN /\ q.many
     /\ n \in 1..(Len(q.batch) + 1) /\ Len(q.results) = n - 1
     /\ q.fresh \subseteq Ids(q.batch)
     /\ Keys(w, Ids(q.batch) \ q.fresh) \subseteq rows
     /\ q.failed \subseteq q.fresh \cap Seen(w, n)
     /\ \A j \in 1..(n - 1) :
          q.results[j] = IF q.batch[j] \in q.failed THEN "Failed"
                         ELSE IF FreshAt(w, j) THEN "Processed" ELSE "Duplicate"

\* What the transaction holds then: the rows of the fresh ids that have not
\* failed, and the effects of those of them that have been handled.
Claimed(w) == Keys(w, call[w].fresh \ call[w].failed)
Handled(w, n) == Keys(w, (call[w].fresh \cap Seen(w, n)) \ call[w].failed)

Holds(w, n) ==
  /\ tx[call[w].conn].ins = Claimed(w)
  /\ tx[call[w].conn].eff = OneEach(Handled(w, n))

Saved(w, n) ==
  /\ tx[call[w].conn].spIns = Claimed(w)
  /\ tx[call[w].conn].spEff = OneEach(Handled(w, n))

\* process: the one key of the call, claimed and, at the commit, handled.
RunInv(w) ==
  LET t == tx[call[w].conn]
  IN /\ t.ins = {KeyOf(w, call[w].batch[1])} /\ t.eff = NoEffect
     /\ call[w].pos = 1 /\ call[w].results = <<>>

CommitInv(w) ==
  LET t == tx[call[w].conn]
  IN /\ t.ins = {KeyOf(w, call[w].batch[1])} /\ t.eff = OneEach(t.ins)
     /\ call[w].results = <<"Processed">>

\* What the call reports and the caller will acknowledge is committed.
DoneInv(w) ==
  /\ Len(call[w].results) <= Len(call[w].batch)
  /\ Acks(w) \subseteq rows

CallInv(w) ==
  LET q == call[w]
  IN /\ ~q.many /\ q.pc # "idle" => Len(q.batch) = 1
     /\ q.pc = "begin" => q.fresh = {} /\ q.pos = 1 /\ q.failed = {} /\ q.results = <<>>
     /\ q.pc = "claim" => ClaimInv(w)
     /\ q.pc \in {"run", "commit", "rollback", "undo"} => ~q.many
     /\ q.pc = "run" => RunInv(w)
     /\ q.pc = "commit" => CommitInv(w)
     /\ q.pc = "rollback" => KeyOf(w, q.batch[1]) \in rows
     /\ q.pc = "loop" =>
          /\ LoopInv(w, q.pos) /\ Holds(w, q.pos)
          /\ tx[q.conn].sp <=> Pending(w, q.pos - 1) # {}
          /\ tx[q.conn].sp => Saved(w, q.pos)
     /\ q.pc \in {"rollback_to", "unclaim"} =>
          /\ LoopInv(w, q.pos)
          /\ q.pos \in DOMAIN q.batch /\ FreshAt(w, q.pos)
     /\ q.pc = "rollback_to" /\ tx[q.conn].sp => Saved(w, q.pos)
     /\ q.pc = "unclaim" => Holds(w, q.pos) /\ tx[q.conn].sp
     /\ q.pc = "release" =>
          /\ q.pos \in DOMAIN q.batch /\ LoopInv(w, q.pos + 1)
          /\ Holds(w, q.pos + 1) /\ tx[q.conn].sp
     /\ q.pc = "done" => DoneInv(w)

\* The inductive invariant.
IInv ==
  /\ TypeOK
  /\ ConnInv
  /\ LockInv
  /\ \A w \in Workers : CallInv(w)
  /\ EffectIffRow
  /\ AckedAreCommitted

-----------------------------------------------------------------------------
(* What a call's locks are on, which IInv does not need but the answers    *)
(* and the waits do.                                                       *)

\* The loop still has its transaction: it has not lost it under a handler.
InBatch(w) ==
  \/ call[w].pc \in {"loop", "unclaim", "release"}
  \/ call[w].pc = "rollback_to" /\ tx[call[w].conn].sp

\* A call locks rows of its own consumer only; in the loop of process_many it
\* holds those of all fresh ids, unclaimed ones too, which are not committed.
HoldInv(w) ==
  /\ call[w].conn # NoConn => \A k \in tx[call[w].conn].lck : k[1] = ConsumerOf[w]
  /\ InBatch(w) => Keys(w, call[w].fresh) \subseteq tx[call[w].conn].lck \ rows

HoldsInv == \A w \in Workers : HoldInv(w)
=============================================================================
