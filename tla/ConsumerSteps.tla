--------------------------- MODULE ConsumerSteps ---------------------------
(***************************************************************************)
(* Every step of a call but the commit preserves the inductive invariant   *)
(* of ConsumerInvariant.  First what a step leaves alone, and the actions  *)
(* that need no more than that: the start of a call, every failure, every  *)
(* roll back and the drop of a cancelled call.  Then the claims, and the   *)
(* loop of process_many.                                                   *)
(***************************************************************************)
EXTENDS ConsumerInvariant, StoreProofs

\* A worker's consumer id and a message id make a key of the table.
LEMMA KeyOfType ==
  ASSUME NEW w \in Workers, NEW m \in Messages
  PROVE  KeyOf(w, m) \in Key
BY ConsumerAssumption, Zenon DEF KeyOf, Key

\* For one consumer, different messages have different rows.
LEMMA KeyOfInjective ==
  ASSUME NEW w, NEW m, NEW n, KeyOf(w, m) = KeyOf(w, n)
  PROVE  m = n
BY Zenon DEF KeyOf

\* The message id of a key.
LEMMA KeyOfMessageId ==
  ASSUME NEW w, NEW m
  PROVE  KeyOf(w, m)[2] = m
BY DEF KeyOf

\* The locals with which process and process_many start and return.
LEMMA NewCallType ==
  ASSUME NEW pc \in {"idle", "begin", "done"}, NEW many \in BOOLEAN,
         NEW b \in Seq(Messages)
  PROVE  NewCall(pc, many, b) \in Call
BY SMTT(30) DEF NewCall, Call

\* The locals of a call that its loop reads: the slice is a sequence of ids.
LEMMA CallShape ==
  ASSUME NEW q \in Call
  PROVE  /\ Len(q.batch) \in Nat /\ DOMAIN q.batch = 1..Len(q.batch)
         /\ \A j \in DOMAIN q.batch : q.batch[j] \in Messages /\ j \in Nat \ {0}
         /\ \A j \in DOMAIN q.batch : j <= Len(q.batch)
         /\ q.results \in Seq({"Processed", "Duplicate", "Failed"})
         /\ q.pos \in Nat /\ q.todo \subseteq Messages /\ q.fresh \subseteq Messages
BY DEF Call

\* One more result.
LEMMA AppendShape ==
  ASSUME NEW s \in Seq({"Processed", "Duplicate", "Failed"}), NEW n \in Nat \ {0},
         NEW r \in {"Processed", "Duplicate", "Failed"}, Len(s) = n - 1
  PROVE  /\ Len(Append(s, r)) = n /\ Append(s, r)[n] = r
         /\ \A j \in 1..(n - 1) : Append(s, r)[j] = s[j]
OBVIOUS

\* The id claim_many claims next is below the others it has yet to claim.
LEMMA NextIsLeast ==
  ASSUME NEW w, NEW m \in Messages, call[w].todo \subseteq Messages, IsNext(w, m)
  PROVE  \A n \in call[w].todo \ {m} : m < n
<1> TAKE n \in call[w].todo \ {m}
<1>1. m \in Nat /\ n \in Nat /\ m <= n /\ m # n
  BY MessagesAssumption, Zenon DEF IsNext
<1> QED
  BY <1>1

\* process passes a slice of one id.
LEMMA OnlyId ==
  ASSUME NEW b \in Seq(Messages), Len(b) = 1
  PROVE  Ids(b) = {b[1]}
BY DEF Ids

-----------------------------------------------------------------------------
(* The invariant taken apart, so that no other proof has to expand it.     *)

\* The parts of the invariant that are about all calls together.
LEMMA IInvFacts ==
  ASSUME IInv
  PROVE  /\ TypeOK /\ ConnInv /\ LockInv /\ EffectIffRow /\ AckedAreCommitted
         /\ \A w \in Workers : CallInv(w)
BY Zenon DEF IInv

\* What the type invariant says of the variables.
LEMMA TypeFacts ==
  ASSUME IInv
  PROVE  /\ rows \subseteq Key /\ tx \in [Conns -> Tx] /\ applied \in [Key -> Nat]
         /\ call \in [Workers -> Call] /\ acked \subseteq Key /\ faults \in 0..MaxFaults
BY IInvFacts, Zenon DEF TypeOK, StoreTypeOK

\* What is true of a call at each of its points.
LEMMA CallFacts ==
  ASSUME IInv, NEW w \in Workers
  PROVE  /\ ~call[w].many /\ call[w].pc # "idle" => Len(call[w].batch) = 1
         /\ call[w].pc = "begin" => /\ call[w].fresh = {} /\ call[w].pos = 1
                                   /\ call[w].failed = {} /\ call[w].results = <<>>
         /\ call[w].pc = "claim" => ClaimInv(w)
         /\ call[w].pc \in {"run", "commit", "rollback", "undo"} => ~call[w].many
         /\ call[w].pc = "run" => RunInv(w)
         /\ call[w].pc = "commit" => CommitInv(w)
         /\ call[w].pc = "rollback" => KeyOf(w, call[w].batch[1]) \in rows
         /\ call[w].pc = "done" => DoneInv(w)
<1>1. CallInv(w)
  BY IInvFacts, Zenon
<1> QED
  BY <1>1, Zenon DEF CallInv

\* And in the loop of process_many.
LEMMA LoopFacts ==
  ASSUME IInv, NEW w \in Workers
  PROVE  /\ call[w].pc = "loop" =>
              /\ LoopInv(w, call[w].pos) /\ Holds(w, call[w].pos)
              /\ tx[call[w].conn].sp <=> Pending(w, call[w].pos - 1) # {}
              /\ tx[call[w].conn].sp => Saved(w, call[w].pos)
         /\ call[w].pc \in {"rollback_to", "unclaim"} =>
              /\ LoopInv(w, call[w].pos)
              /\ call[w].pos \in DOMAIN call[w].batch /\ FreshAt(w, call[w].pos)
         /\ call[w].pc = "rollback_to" /\ tx[call[w].conn].sp => Saved(w, call[w].pos)
         /\ call[w].pc = "unclaim" => Holds(w, call[w].pos) /\ tx[call[w].conn].sp
         /\ call[w].pc = "release" =>
              /\ call[w].pos \in DOMAIN call[w].batch /\ LoopInv(w, call[w].pos + 1)
              /\ Holds(w, call[w].pos + 1) /\ tx[call[w].conn].sp
<1>1. CallInv(w)
  BY IInvFacts, Zenon
<1> QED
  BY <1>1, Zenon DEF CallInv

-----------------------------------------------------------------------------
(* Frame lemmas: what a step of one call leaves alone.                     *)

\* A call whose locals and transaction a step leaves alone keeps its
\* invariant: rows only grow.
LEMMA CallFrame ==
  ASSUME TypeOK, ConnInv, NEW v \in Workers, CallInv(v),
         call'[v] = call[v],
         call[v].conn \in Conns => tx'[call[v].conn] = tx[call[v].conn],
         rows \subseteq rows'
  PROVE  CallInv(v)'
<1> DEFINE q == call[v]
<1>1. q.pc \notin {"idle", "begin", "done"} => q.conn \in Conns
  BY Zenon DEF ConnInv, TypeOK, Call
<1>2. Acks(v)' = Acks(v)
  BY Zenon DEF Acks, KeyOf
<1>3. \A i : Seen(v, i)' = Seen(v, i) /\ (FreshAt(v, i)' <=> FreshAt(v, i))
  BY Zenon DEF Seen, FreshAt
<1>4. \A i : Pending(v, i)' = Pending(v, i)
  BY <1>3, Zenon DEF Pending
<1>5. \A n : LoopInv(v, n) => LoopInv(v, n)'
  BY <1>3, Zenon DEF LoopInv, Keys, KeyOf
<1>6. \A n : Claimed(v)' = Claimed(v) /\ Handled(v, n)' = Handled(v, n)
  BY <1>3, Zenon DEF Claimed, Handled, Keys, KeyOf
<1>7. q.conn \in Conns => \A n : (Holds(v, n) => Holds(v, n)') /\ (Saved(v, n) => Saved(v, n)')
  BY <1>6, Zenon DEF Holds, Saved
<1>8. q.conn \in Conns => (ClaimInv(v) => ClaimInv(v)')
  BY Zenon DEF ClaimInv, Keys, KeyOf
<1>9. q.conn \in Conns => (RunInv(v) => RunInv(v)') /\ (CommitInv(v) => CommitInv(v)')
  BY Zenon DEF RunInv, CommitInv, KeyOf
<1>10. DoneInv(v) => DoneInv(v)'
  BY <1>2, Zenon DEF DoneInv
<1>11. KeyOf(v, q.batch[1]) \in rows => (KeyOf(v, q.batch[1]) \in rows)'
  BY Zenon DEF KeyOf
<1>12. PICK n : n = q.pos
  BY Zenon
<1>13. /\ LoopInv(v, n) => LoopInv(v, n)'
       /\ LoopInv(v, n + 1) => LoopInv(v, n + 1)'
       /\ FreshAt(v, n)' <=> FreshAt(v, n)
       /\ Pending(v, n - 1)' = Pending(v, n - 1)
  BY <1>3, <1>4, <1>5, Zenon
<1>14. q.conn \in Conns =>
         /\ Holds(v, n) => Holds(v, n)'
         /\ Holds(v, n + 1) => Holds(v, n + 1)'
         /\ Saved(v, n) => Saved(v, n)'
         /\ tx'[q.conn] = tx[q.conn]
  BY <1>7, Zenon
<1>15. q.pc \in {"idle", "begin", "done"} => CallInv(v)'
  BY <1>10, Zenon DEF CallInv
<1>16. q.pc \in {"claim", "run", "commit", "rollback", "undo"} => CallInv(v)'
  BY <1>1, <1>8, <1>9, <1>11, Zenon DEF CallInv
<1>17. q.pc = "loop" => CallInv(v)'
  BY <1>1, <1>12, <1>13, <1>14, Zenon DEF CallInv
<1>18. q.pc \in {"rollback_to", "unclaim", "release"} => CallInv(v)'
  BY <1>1, <1>12, <1>13, <1>14, Zenon DEF CallInv
<1> QED
  BY <1>15, <1>16, <1>17, <1>18, Zenon DEF TypeOK, Call

\* A step of w's call on connection c, its own or one it takes from the pool.
OwnStep(w, c) ==
  /\ call' \in [Workers -> Call] /\ tx' \in [Conns -> Tx]
  /\ \A v \in Workers \ {w} : call'[v] = call[v]
  /\ \A d \in Conns \ {c} : tx'[d] = tx[d]
  /\ \/ call[w].conn = c
     \/ call[w].conn = NoConn /\ tx[c].st = "idle"
  /\ call'[w].conn \in {c, NoConn}
  /\ call'[w].conn = NoConn <=> call'[w].pc \in {"idle", "begin", "done"}
  /\ tx'[c].st = "open" <=> call'[w].conn = c
  /\ tx'[c].st = "idle" => tx'[c] = EmptyTx("idle")
  /\ rows \subseteq rows'

\* It keeps the account of the connections and the invariants of the others.
LEMMA OwnStepFrame ==
  ASSUME TypeOK, ConnInv, \A v \in Workers : CallInv(v),
         NEW w \in Workers, NEW c \in Conns, OwnStep(w, c)
  PROVE  ConnInv' /\ \A v \in Workers \ {w} : CallInv(v)'
<1> USE ConsumerAssumption
<1>1. \A v \in Workers \ {w} : call[v].conn # c
  BY DEF ConnInv, PoolAccounting, OwnStep
<1>2. \A v \in Workers \ {w} : CallInv(v)'
  <2> TAKE v \in Workers \ {w}
  <2>1. call'[v] = call[v] /\ rows \subseteq rows' /\ CallInv(v)
    BY Zenon DEF OwnStep
  <2>2. call[v].conn \in Conns => tx'[call[v].conn] = tx[call[v].conn]
    BY <1>1, Zenon DEF OwnStep
  <2> QED
    BY <2>1, <2>2, CallFrame, Zenon
<1>3. \A v \in Workers :
        /\ call'[v].conn = NoConn <=> call'[v].pc \in {"idle", "begin", "done"}
        /\ call'[v].conn # NoConn => tx'[call'[v].conn].st = "open"
  <2> TAKE v \in Workers
  <2>1. CASE v = w
    BY <2>1, Zenon DEF OwnStep
  <2>2. CASE v # w
    <3>1. call'[v] = call[v] /\ call[v].conn \in Conns \cup {NoConn}
      BY <2>2, Zenon DEF OwnStep, TypeOK, Call
    <3> QED
      BY <3>1, <2>2, <1>1 DEF OwnStep, ConnInv
  <2> QED
    BY <2>1, <2>2, Zenon
<1>4. PoolAccounting'
  <2> SUFFICES ASSUME NEW d \in Conns
               PROVE  /\ tx'[d].st = "open" <=> \E v \in Workers : call'[v].conn = d
                      /\ \A v, u \in Workers : call'[v].conn = d /\ call'[u].conn = d => v = u
                      /\ tx'[d].st = "idle" => tx'[d] = EmptyTx("idle")
    BY Zenon DEF PoolAccounting, EmptyTx, NoEffect
  <2>1. \A v \in Workers \ {w} : call'[v] = call[v]
    BY Zenon DEF OwnStep
  <2>2. CASE d = c
    BY <2>1, <2>2, <1>1 DEF OwnStep
  <2>3. CASE d # c
    <3>1. tx'[d] = tx[d] /\ call'[w].conn # d /\ call[w].conn # d
      BY <2>3 DEF OwnStep
    <3> QED
      BY <2>1, <3>1 DEF ConnInv, PoolAccounting
  <2> QED
    BY <2>2, <2>3, Zenon
<1> QED
  BY <1>2, <1>3, <1>4, Zenon DEF ConnInv

\* Steps on a connection that commit nothing.
LEMMA TxStep ==
  ASSUME IInv, NEW w \in Workers, NEW c \in Conns, NEW K, OwnStep(w, c),
         rows' = rows, applied' = applied, acked' = acked, faults' \in 0..MaxFaults,
         tx'[c].lck \subseteq tx[c].lck \cup K,
         \A k \in K : ~Blocked(c, k),
         tx'[c].ins \cup tx'[c].spIns \subseteq tx'[c].lck,
         (tx'[c].ins \cup tx'[c].spIns) \cap rows = {},
         CallInv(w)'
  PROVE  IInv'
<1>1. TypeOK'
  BY IInvFacts, Zenon DEF TypeOK, StoreTypeOK, OwnStep
<1>2. ConnInv' /\ \A v \in Workers : CallInv(v)'
  BY OwnStepFrame, IInvFacts, Zenon
<1>3. LockInv'
  BY LockFrame, IInvFacts, TypeFacts, Zenon DEF OwnStep
<1>4. EffectIffRow' /\ AckedAreCommitted'
  BY IInvFacts, Zenon DEF EffectIffRow, AckedAreCommitted
<1> QED
  BY <1>1, <1>2, <1>3, <1>4, Zenon DEF IInv

\* Steps that touch the locals of w's call only.
LEMMA LocalStep ==
  ASSUME IInv, NEW w \in Workers, UNCHANGED storeVars,
         call' \in [Workers -> Call],
         \A v \in Workers \ {w} : call'[v] = call[v],
         call'[w].conn = call[w].conn,
         call'[w].pc \in {"idle", "begin", "done"} <=> call[w].pc \in {"idle", "begin", "done"},
         acked' \subseteq rows, faults' \in 0..MaxFaults,
         CallInv(w)'
  PROVE  IInv'
<1>1. TypeOK'
  BY IInvFacts, Zenon DEF TypeOK, StoreTypeOK, storeVars
<1>2. \A v \in Workers : call'[v].conn = call[v].conn
  BY Zenon
<1>3. ConnInv'
  <2>1. tx' = tx /\ ConnInv
    BY IInvFacts, Zenon DEF storeVars
  <2>2. \A v \in Workers :
          call'[v].pc \in {"idle", "begin", "done"} <=> call[v].pc \in {"idle", "begin", "done"}
    BY Zenon
  <2>3. PoolAccounting'
    <3> SUFFICES ASSUME NEW d \in Conns
                 PROVE  /\ tx'[d].st = "open" <=> \E v \in Workers : call'[v].conn = d
                        /\ \A v, u \in Workers : call'[v].conn = d /\ call'[u].conn = d => v = u
                        /\ tx'[d].st = "idle" => tx'[d] = EmptyTx("idle")
      BY Zenon DEF PoolAccounting, EmptyTx, NoEffect
    <3> QED
      BY <1>2, <2>1 DEF ConnInv, PoolAccounting
  <2>4. \A v \in Workers :
          /\ call'[v].conn = NoConn <=> call'[v].pc \in {"idle", "begin", "done"}
          /\ call'[v].conn # NoConn => tx'[call'[v].conn].st = "open"
    BY <1>2, <2>1, <2>2, Zenon DEF ConnInv
  <2> QED
    BY <2>3, <2>4, Zenon DEF ConnInv
<1>4. \A v \in Workers \ {w} : CallInv(v)'
  <2> TAKE v \in Workers \ {w}
  <2>1. call'[v] = call[v] /\ rows \subseteq rows' /\ CallInv(v) /\ tx' = tx
    BY IInvFacts, Zenon DEF storeVars
  <2> QED
    BY <2>1, CallFrame, IInvFacts, Zenon
<1>5. LockInv' /\ EffectIffRow' /\ AckedAreCommitted'
  BY IInvFacts, Zenon DEF LockInv, EffectIffRow, AckedAreCommitted, storeVars
<1> QED
  BY <1>1, <1>3, <1>4, <1>5, Zenon DEF IInv

\* A call that is over, without a result, has its invariant.
LEMMA EmptyCallInv ==
  ASSUME NEW w \in Workers, NEW pc \in {"idle", "begin", "done"},
         NEW many \in BOOLEAN, NEW b \in Seq(Messages),
         NEW e \in {"none", "Handler", "Contended", "Backend"},
         ~many /\ pc # "idle" => Len(b) = 1,
         call'[w] = [NewCall(pc, many, b) EXCEPT !.results = <<>>, !.err = e]
  PROVE  CallInv(w)'
<1>1. /\ call'[w].pc = pc /\ call'[w].many = many /\ call'[w].batch = b
      /\ call'[w].results = <<>> /\ call'[w].fresh = {} /\ call'[w].pos = 1
      /\ call'[w].failed = {}
  BY Zenon DEF NewCall
<1>2. DoneInv(w)'
  BY <1>1 DEF DoneInv, Acks
<1> QED
  BY <1>1, <1>2, Zenon DEF CallInv

\* A step that drops the transaction of w's call, if it has one, and ends it.
LEMMA DropStep ==
  ASSUME IInv, NEW w \in Workers, DropConn(w),
         call' \in [Workers -> Call],
         \A v \in Workers \ {w} : call'[v] = call[v],
         call'[w].conn = NoConn, call'[w].pc \in {"idle", "done"},
         acked' = acked, faults' \in 0..MaxFaults,
         CallInv(w)'
  PROVE  IInv'
<1>1. CASE call[w].conn = NoConn
  <2>1. acked' \subseteq rows /\ UNCHANGED storeVars
    BY <1>1, IInvFacts, Zenon DEF AckedAreCommitted, DropConn
  <2>2. call[w].pc \in {"idle", "begin", "done"}
    BY <1>1, IInvFacts, Zenon DEF ConnInv
  <2> QED
    BY <1>1, <2>1, <2>2, LocalStep, Zenon
<1>2. CASE call[w].conn # NoConn
  <2> DEFINE c == call[w].conn
  <2>1. c \in Conns /\ Drop(c) /\ tx \in [Conns -> Tx]
    BY <1>2, TypeFacts, Zenon DEF Call, DropConn
  <2>2. /\ tx' = [tx EXCEPT ![c] = [tx[c] EXCEPT !.st = "dropped"]]
        /\ rows' = rows /\ applied' = applied
    BY <2>1, Zenon DEF Drop
  <2>3. tx' \in [Conns -> Tx]
    <3>1. tx[c] \in Tx
      BY <2>1, Zenon
    <3>2. [tx[c] EXCEPT !.st = "dropped"] \in Tx
      BY <3>1, Zenon DEF Tx
    <3> QED
      BY <2>1, <2>2, <3>2, Zenon
  <2>4. /\ tx'[c].st = "dropped" /\ tx'[c].lck = tx[c].lck
        /\ tx'[c].ins = tx[c].ins /\ tx'[c].spIns = tx[c].spIns
    <3>1. tx[c] \in Tx /\ tx'[c] = [tx[c] EXCEPT !.st = "dropped"]
      BY <2>1, <2>2, Zenon
    <3> QED
      BY <3>1, Zenon DEF Tx
  <2>5. OwnStep(w, c)
    <3>1. /\ \A d \in Conns \ {c} : tx'[d] = tx[d]
          /\ c # NoConn /\ rows \subseteq rows'
      BY <2>1, <2>2, ConsumerAssumption, Zenon
    <3> HIDE DEF c
    <3>2. call[w].conn = c
      BY Zenon DEF c
    <3> QED
      BY <2>3, <2>4, <3>1, <3>2, Zenon DEF OwnStep
  <2>6. /\ tx'[c].lck \subseteq tx[c].lck \cup {}
        /\ tx'[c].ins \cup tx'[c].spIns \subseteq tx'[c].lck
        /\ (tx'[c].ins \cup tx'[c].spIns) \cap rows = {}
    BY <2>1, <2>4, IInvFacts, Zenon DEF LockInv
  <2> HIDE DEF c
  <2> QED
    BY <2>1, <2>2, <2>5, <2>6, TxStep, Zenon
<1> QED
  BY <1>1, <1>2, Zenon

\* Return with an empty answer.
LEMMA ReturnNothing ==
  ASSUME IInv, NEW w \in Workers, call[w].pc # "idle",
         NEW e \in {"none", "Handler", "Contended", "Backend"},
         Return(w, <<>>, e)
  PROVE  /\ call' \in [Workers -> Call]
         /\ \A v \in Workers \ {w} : call'[v] = call[v]
         /\ call'[w].conn = NoConn /\ call'[w].pc = "done"
         /\ CallInv(w)'
<1> DEFINE b == call[w].batch  many == call[w].many
           r == [NewCall("done", many, b) EXCEPT !.results = <<>>, !.err = e]
<1>1. b \in Seq(Messages) /\ many \in BOOLEAN /\ call \in [Workers -> Call]
  BY TypeFacts, Zenon DEF Call
<1>2. r \in Call /\ r.conn = NoConn /\ r.pc = "done"
  <2>1. <<>> \in Seq({"Processed", "Duplicate", "Failed"})
    OBVIOUS
  <2> QED
    BY <1>1, <2>1, Zenon DEF NewCall, Call
<1>3. call' = [call EXCEPT ![w] = r]
  BY Zenon DEF Return
<1>4. ~many => Len(b) = 1
  BY CallFacts, Zenon
<1>5. call'[w] = r /\ \A v \in Workers \ {w} : call'[v] = call[v]
  BY <1>1, <1>3, Zenon
<1>6. call' \in [Workers -> Call]
  BY <1>1, <1>2, <1>3, Zenon
<1>7. CallInv(w)'
  <2> HIDE DEF b, many
  <2> QED
    BY <1>1, <1>4, <1>5, EmptyCallInv, ZenonT(30)
<1> QED
  BY <1>2, <1>5, <1>6, <1>7, Zenon

\* Inside a transaction the call has a connection, and it is open.
LEMMA InTx ==
  ASSUME IInv, NEW w \in Workers, call[w].pc \notin {"idle", "begin", "done"}
  PROVE  /\ call[w] \in Call /\ call[w].conn \in Conns /\ call[w].conn # NoConn
         /\ tx[call[w].conn] \in Tx /\ tx[call[w].conn].st = "open"
         /\ call \in [Workers -> Call] /\ tx \in [Conns -> Tx]
BY IInvFacts, TypeFacts, Zenon DEF ConnInv, Call

\* A statement on the connection of w's call, with q and t for its locals and
\* its transaction afterwards.
LEMMA StatementStep ==
  ASSUME IInv, NEW w \in Workers, call[w].pc \notin {"idle", "begin", "done"},
         NEW q \in Call, NEW t \in Tx, NEW K,
         call' = [call EXCEPT ![w] = q], tx' = [tx EXCEPT ![call[w].conn] = t],
         q.conn = call[w].conn, q.pc \notin {"idle", "begin", "done"}, t.st = "open",
         rows' = rows, applied' = applied, acked' = acked, faults' \in 0..MaxFaults,
         t.lck \subseteq tx[call[w].conn].lck \cup K,
         \A k \in K : ~Blocked(call[w].conn, k),
         t.ins \cup t.spIns \subseteq t.lck,
         (t.ins \cup t.spIns) \cap rows = {},
         CallInv(w)'
  PROVE  IInv'
<1>1. PICK c \in Conns : c = call[w].conn /\ c # NoConn
  BY InTx, Zenon
<1>2. call \in [Workers -> Call] /\ tx \in [Conns -> Tx]
  BY InTx, Zenon
<1>3. call'[w] = q /\ tx'[c] = t
  BY <1>1, <1>2, Zenon
<1>4. call' \in [Workers -> Call] /\ tx' \in [Conns -> Tx]
  BY <1>1, <1>2, Zenon
<1>5. OwnStep(w, c)
  BY <1>1, <1>2, <1>3, <1>4, Zenon DEF OwnStep
<1> QED
  BY <1>1, <1>3, <1>5, TxStep, Zenon

\* The rollback of w's transaction ends the call.
LEMMA RollbackStep ==
  ASSUME IInv, NEW w \in Workers, call[w].pc \notin {"idle", "begin", "done"},
         Rollback(call[w].conn),
         call' \in [Workers -> Call],
         \A v \in Workers \ {w} : call'[v] = call[v],
         call'[w].conn = NoConn, call'[w].pc = "done",
         acked' = acked, faults' \in 0..MaxFaults,
         CallInv(w)'
  PROVE  IInv'
<1>1. PICK c \in Conns : c = call[w].conn /\ c # NoConn
  BY InTx, Zenon
<1>2. tx \in [Conns -> Tx]
  BY InTx, Zenon
<1>3. tx' = [tx EXCEPT ![c] = EmptyTx("idle")] /\ rows' = rows /\ applied' = applied
  BY <1>1, Zenon DEF Rollback
<1>4. tx'[c] = EmptyTx("idle") /\ tx' \in [Conns -> Tx]
  BY <1>2, <1>3, EmptyTxType, Zenon
<1>5. /\ tx'[c].st = "idle" /\ tx'[c].ins = {} /\ tx'[c].spIns = {} /\ tx'[c].lck = {}
  BY <1>4 DEF EmptyTx
<1>6. OwnStep(w, c)
  BY <1>1, <1>2, <1>3, <1>4, <1>5, Zenon DEF OwnStep
<1>7. tx'[c].lck \subseteq tx[c].lck \cup {}
  BY <1>5, Zenon
<1> QED
  BY <1>3, <1>5, <1>6, <1>7, TxStep, Zenon

-----------------------------------------------------------------------------
(* One lemma per action.                                                   *)

\* Entering process.
LEMMA ProcessIInv ==
  ASSUME IInv, NEW w \in Workers, NEW m \in Messages, Process(w, m)
  PROVE  IInv'
<1>1. <<m>> \in Seq(Messages) /\ Len(<<m>>) = 1
  OBVIOUS
<1> DEFINE q == NewCall("begin", FALSE, <<m>>)
<1>2. q \in Call /\ q.conn = NoConn /\ q.pc = "begin" /\ q.results = <<>> /\ q.err = "none"
  <2>1. q \in Call
    BY <1>1, NewCallType, Zenon
  <2> QED
    BY <2>1, Zenon DEF NewCall
<1>3. call \in [Workers -> Call] /\ call' = [call EXCEPT ![w] = q]
  BY TypeFacts, Zenon DEF Process
<1>4. call[w].conn = NoConn
  BY IInvFacts, Zenon DEF ConnInv, Process
<1>5. call'[w] = [q EXCEPT !.results = <<>>, !.err = "none"]
  BY <1>2, <1>3, Zenon DEF Call, NewCall
<1>6. CallInv(w)'
  BY <1>1, <1>5, EmptyCallInv, Zenon
<1> HIDE DEF q
<1> QED
  BY <1>2, <1>3, <1>4, <1>6, LocalStep, IInvFacts, TypeFacts, Zenon DEF Process, AckedAreCommitted

\* Entering process_many, which returns at once on an empty slice.
LEMMA ProcessManyIInv ==
  ASSUME IInv, NEW w \in Workers, NEW b \in Batches, ProcessMany(w, b)
  PROVE  IInv'
<1>1. b \in Seq(Messages)
  BY ConsumerAssumption, Zenon
<1> DEFINE pc == IF b = <<>> THEN "done" ELSE "begin"
           q == NewCall(pc, TRUE, b)
<1>2. pc \in {"idle", "begin", "done"} /\ pc # "idle"
  BY Zenon
<1>3. q \in Call /\ q.conn = NoConn /\ q.pc = pc /\ q.results = <<>> /\ q.err = "none"
  <2> HIDE DEF pc
  <2>1. q \in Call
    BY <1>1, <1>2, NewCallType, Zenon
  <2> QED
    BY <2>1, Zenon DEF NewCall
<1>4. call \in [Workers -> Call] /\ call' = [call EXCEPT ![w] = q]
  BY TypeFacts, Zenon DEF ProcessMany
<1>5. call[w].conn = NoConn
  BY IInvFacts, Zenon DEF ConnInv, ProcessMany
<1> HIDE DEF pc
<1>6. call'[w] = [q EXCEPT !.results = <<>>, !.err = "none"]
  BY <1>3, <1>4, Zenon DEF Call, NewCall
<1>7. CallInv(w)'
  BY <1>1, <1>2, <1>6, EmptyCallInv, Zenon
<1> HIDE DEF q
<1> QED
  BY <1>2, <1>3, <1>4, <1>5, <1>7, LocalStep, IInvFacts, TypeFacts, Zenon
    DEF ProcessMany, AckedAreCommitted

\* The caller acknowledges what its call reported: committed rows only.
LEMMA SettleIInv ==
  ASSUME IInv, NEW w \in Workers, Settle(w)
  PROVE  IInv'
<1>1. <<>> \in Seq(Messages)
  OBVIOUS
<1>2. IdleCall \in Call /\ IdleCall.conn = NoConn /\ IdleCall.pc = "idle"
  <2>1. IdleCall \in Call
    BY <1>1, NewCallType, Zenon DEF IdleCall
  <2> QED
    BY <2>1, Zenon DEF IdleCall, NewCall
<1>3. /\ call \in [Workers -> Call] /\ call' = [call EXCEPT ![w] = IdleCall]
      /\ call[w].conn = NoConn /\ call[w].pc = "done"
  BY IInvFacts, TypeFacts, Zenon DEF ConnInv, Settle
<1>4. CallInv(w)'
  BY <1>2, <1>3, ZenonT(30) DEF CallInv, IdleCall, NewCall
<1>5. acked' \subseteq rows
  BY IInvFacts, CallFacts, Zenon DEF AckedAreCommitted, DoneInv, Settle
<1> QED
  BY <1>2, <1>3, <1>4, <1>5, LocalStep, TypeFacts, Zenon DEF Settle

\* is_known_duplicate answers true for committed rows only.
LEMMA SkipKnownIInv ==
  ASSUME IInv, NEW w \in Workers, NEW m \in Messages, SkipKnown(w, m)
  PROVE  IInv'
<1>1. acked' \subseteq rows /\ call' = call /\ UNCHANGED storeVars /\ faults' = faults
  BY IInvFacts, Zenon DEF SkipKnown, KnownDuplicate, AckedAreCommitted
<1>2. CallInv(w)'
  BY <1>1, CallFrame, IInvFacts, Zenon DEF storeVars
<1> QED
  BY <1>1, <1>2, LocalStep, TypeFacts, Zenon

\* The pool's rollback of a dropped transaction touches nobody's call.
LEMMA PoolRollbackIInv ==
  ASSUME IInv, NEW c \in Conns, PoolRollback(c)
  PROVE  IInv'
<1>1. /\ tx' = [tx EXCEPT ![c] = EmptyTx("idle")] /\ tx[c].st = "dropped"
      /\ rows' = rows /\ applied' = applied
      /\ call' = call /\ acked' = acked /\ faults' = faults
  BY Zenon DEF PoolRollback, RollbackDropped
<1>2. tx \in [Conns -> Tx] /\ tx' \in [Conns -> Tx] /\ tx'[c] = EmptyTx("idle")
  BY <1>1, EmptyTxType, TypeFacts, Zenon
<1>3. /\ tx'[c].st = "idle" /\ tx'[c].ins = {} /\ tx'[c].spIns = {} /\ tx'[c].lck = {}
  BY <1>2 DEF EmptyTx
<1>4. \A d \in Conns \ {c} : tx'[d] = tx[d]
  BY <1>1, <1>2, Zenon
<1>5. \A v \in Workers : call[v].conn # c
  BY <1>1, IInvFacts, Zenon DEF ConnInv, PoolAccounting
<1>6. TypeOK'
  BY <1>1, <1>2, IInvFacts, Zenon DEF TypeOK, StoreTypeOK
<1>7. ConnInv'
  <2>1. \A v \in Workers :
          /\ call'[v].conn = NoConn <=> call'[v].pc \in {"idle", "begin", "done"}
          /\ call'[v].conn # NoConn => tx'[call'[v].conn].st = "open"
    <3> TAKE v \in Workers
    <3>1. call[v].conn \in Conns \cup {NoConn}
      BY TypeFacts, Zenon DEF Call
    <3> QED
      BY <1>1, <1>4, <1>5, <3>1, IInvFacts, Zenon DEF ConnInv
  <2>2. PoolAccounting'
    <3> SUFFICES ASSUME NEW d \in Conns
                 PROVE  /\ tx'[d].st = "open" <=> \E v \in Workers : call'[v].conn = d
                        /\ \A v, u \in Workers : call'[v].conn = d /\ call'[u].conn = d => v = u
                        /\ tx'[d].st = "idle" => tx'[d] = EmptyTx("idle")
      BY Zenon DEF PoolAccounting, EmptyTx, NoEffect
    <3>1. CASE d = c
      BY <3>1, <1>1, <1>2, <1>3, <1>5, Zenon
    <3>2. CASE d # c
      BY <3>2, <1>1, <1>4, IInvFacts DEF ConnInv, PoolAccounting
    <3> QED
      BY <3>1, <3>2, Zenon
  <2> QED
    BY <2>1, <2>2, Zenon DEF ConnInv
<1>8. \A v \in Workers : CallInv(v)'
  <2> TAKE v \in Workers
  <2>1. /\ call'[v] = call[v] /\ rows \subseteq rows'
        /\ call[v].conn \in Conns => tx'[call[v].conn] = tx[call[v].conn]
    BY <1>1, <1>4, <1>5, Zenon
  <2> QED
    BY <2>1, CallFrame, IInvFacts, Zenon
<1>9. LockInv'
  <2>1. \A k \in {} : ~Blocked(c, k)
    BY Zenon
  <2>2. tx'[c].lck \subseteq tx[c].lck \cup {} /\ rows' \subseteq rows \cup tx[c].ins
    BY <1>1, <1>3, Zenon
  <2> QED
    BY <1>2, <1>3, <1>4, <2>1, <2>2, LockFrame, IInvFacts, TypeFacts, Zenon
<1>10. EffectIffRow' /\ AckedAreCommitted'
  BY <1>1, IInvFacts, Zenon DEF EffectIffRow, AckedAreCommitted
<1> QED
  BY <1>6, <1>7, <1>8, <1>9, <1>10, Zenon DEF IInv

\* begin takes an idle connection, which carries nothing of the last call.
LEMMA BeginTxIInv ==
  ASSUME IInv, NEW w \in Workers, BeginTx(w)
  PROVE  IInv'
<1>1. PICK c \in Conns :
        /\ Begin(c)
        /\ call' = [call EXCEPT ![w].pc = "claim", ![w].conn = c,
                                ![w].todo = Ids(call[w].batch)]
  BY Zenon DEF BeginTx
<1> DEFINE q == [call[w] EXCEPT !.pc = "claim", !.conn = c, !.todo = Ids(call[w].batch)]
<1>2. call \in [Workers -> Call] /\ call[w] \in Call /\ tx \in [Conns -> Tx]
  BY TypeFacts, Zenon
<1>3. Ids(call[w].batch) \subseteq Messages
  BY <1>2 DEF Ids, Call
<1>4. q \in Call
  BY <1>2, <1>3, Zenon DEF Call
<1>5. call' = [call EXCEPT ![w] = q]
  BY <1>1, Zenon
<1>6. call' \in [Workers -> Call] /\ call'[w] = q /\ \A v \in Workers \ {w} : call'[v] = call[v]
  BY <1>2, <1>4, <1>5, Zenon
<1>7. /\ tx' = [tx EXCEPT ![c] = EmptyTx("open")] /\ tx[c].st = "idle"
      /\ rows' = rows /\ applied' = applied /\ acked' = acked /\ faults' = faults
      /\ call[w].pc = "begin"
  BY <1>1, Zenon DEF Begin, BeginTx
<1>8. tx' \in [Conns -> Tx] /\ tx'[c] = EmptyTx("open") /\ \A d \in Conns \ {c} : tx'[d] = tx[d]
  BY <1>2, <1>7, EmptyTxType, Zenon
<1>9. /\ tx'[c].st = "open" /\ tx'[c].ins = {} /\ tx'[c].spIns = {} /\ tx'[c].lck = {}
      /\ tx'[c].eff = NoEffect /\ ~tx'[c].sp
  BY <1>8 DEF EmptyTx
<1>10. /\ q.pc = "claim" /\ q.conn = c /\ q.todo = Ids(q.batch) /\ q.fresh = call[w].fresh
       /\ q.many = call[w].many /\ q.batch = call[w].batch /\ q.pos = call[w].pos
       /\ q.failed = call[w].failed /\ q.results = call[w].results
  BY <1>2, Zenon DEF Call
<1>11. CallInv(w)'
  <2>1. /\ q.fresh = {} /\ q.pos = 1 /\ q.failed = {} /\ q.results = <<>>
        /\ ~q.many => Len(q.batch) = 1
    BY <1>7, <1>10, CallFacts, Zenon
  <2>2. ~q.many => q.todo # {}
    <3>1. DOMAIN q.batch = 1..Len(q.batch)
      BY <1>2, <1>10 DEF Call
    <3>2. ~q.many => q.batch[1] \in Ids(q.batch)
      BY <2>1, <3>1 DEF Ids
    <3> QED
      BY <1>10, <3>2, Zenon
  <2>3. tx'[call'[w].conn] = tx'[c]
    BY <1>6, <1>10, Zenon
  <2>4. Ids(q.batch) \ (q.todo \cup q.fresh) = {} /\ Keys(w, {}) = {}
    BY <1>10, Zenon DEF Keys
  <2> HIDE DEF q
  <2>5. ClaimInv(w)'
    BY <1>6, <1>9, <1>10, <2>1, <2>2, <2>3, <2>4, Zenon DEF ClaimInv, Keys
  <2> QED
    BY <1>6, <1>10, <2>1, <2>5, Zenon DEF CallInv
<1>12. call[w].conn = NoConn /\ c # NoConn
  BY <1>7, ConsumerAssumption, IInvFacts, Zenon DEF ConnInv
<1>13. OwnStep(w, c)
  BY <1>6, <1>7, <1>8, <1>9, <1>10, <1>12 DEF OwnStep
<1>14. tx'[c].lck \subseteq tx[c].lck \cup {}
  BY <1>9, Zenon
<1> QED
  BY <1>7, <1>9, <1>11, <1>13, <1>14, TxStep, TypeFacts, Zenon

\* An error returned with ? drops the transaction and reports nothing.
LEMMA StatementFailsIInv ==
  ASSUME IInv, NEW w \in Workers, StatementFails(w)
  PROVE  IInv'
<1>1. call[w].pc # "idle" /\ faults' \in 0..MaxFaults
  BY ConsumerAssumption, TypeFacts DEF StatementFails, AtStatement, AtCommit, Fault
<1> QED
  BY <1>1, ReturnNothing, DropStep, Zenon DEF StatementFails

\* Dropping the future drops the transaction, wherever the call is.
LEMMA CancelIInv ==
  ASSUME IInv, NEW w \in Workers, Cancel(w)
  PROVE  IInv'
<1>1. <<>> \in Seq(Messages)
  OBVIOUS
<1>2. IdleCall \in Call /\ IdleCall.conn = NoConn /\ IdleCall.pc = "idle"
  <2>1. IdleCall \in Call
    BY <1>1, NewCallType, Zenon DEF IdleCall
  <2> QED
    BY <2>1, Zenon DEF IdleCall, NewCall
<1>3. call \in [Workers -> Call] /\ call' = [call EXCEPT ![w] = IdleCall]
  BY TypeFacts, Zenon DEF Cancel
<1>4. CallInv(w)'
  BY <1>2, <1>3, Zenon DEF CallInv, IdleCall, NewCall
<1>5. faults' \in 0..MaxFaults
  BY ConsumerAssumption, TypeFacts DEF Cancel, Fault
<1> QED
  BY <1>2, <1>3, <1>4, <1>5, DropStep, Zenon DEF Cancel

\* A claim that loses its lock race drops the transaction.
LEMMA ClaimContendedIInv ==
  ASSUME IInv, NEW w \in Workers, ClaimContended(w)
  PROVE  IInv'
<1>1. call[w].pc = "claim"
  BY Zenon DEF ClaimContended, Claiming
<1>2. DropConn(w)
  BY <1>1, InTx, Zenon DEF ClaimContended, DropConn
<1>3. faults' \in 0..MaxFaults
  BY ConsumerAssumption, TypeFacts, SMTT(20) DEF ClaimContended, Fault
<1> QED
  BY <1>1, <1>2, <1>3, ReturnNothing, DropStep, Zenon DEF ClaimContended

\* So does a ROLLBACK TO that finds no savepoint.
LEMMA SavepointLostIInv ==
  ASSUME IInv, NEW w \in Workers, SavepointLost(w)
  PROVE  IInv'
<1>1. call[w].pc = "rollback_to"
  BY Zenon DEF SavepointLost
<1>2. DropConn(w)
  BY <1>1, InTx, Zenon DEF SavepointLost, DropConn
<1> QED
  BY <1>1, <1>2, ReturnNothing, DropStep, TypeFacts, Zenon DEF SavepointLost

\* process rolls back after a failed handler, by rollback or by the drop.
LEMMA RollbackHandlerErrIInv ==
  ASSUME IInv, NEW w \in Workers, RollbackHandlerErr(w)
  PROVE  IInv'
<1>1. call[w].pc = "undo" /\ Return(w, <<>>, "Handler") /\ acked' = acked
  BY Zenon DEF RollbackHandlerErr
<1>2. CASE Rollback(call[w].conn) /\ UNCHANGED faults
  BY <1>1, <1>2, ReturnNothing, RollbackStep, TypeFacts, Zenon
<1>3. CASE Drop(call[w].conn) /\ Fault
  <2>1. DropConn(w)
    BY <1>1, <1>3, InTx, Zenon DEF DropConn
  <2>2. faults' \in 0..MaxFaults
    BY <1>3, ConsumerAssumption, TypeFacts, SMTT(20) DEF Fault
  <2> QED
    BY <1>1, <2>1, <2>2, ReturnNothing, DropStep, Zenon
<1> QED
  BY <1>2, <1>3, Zenon DEF RollbackHandlerErr

\* process answers Duplicate only for a row that is committed.
LEMMA RollbackDuplicateIInv ==
  ASSUME IInv, NEW w \in Workers, RollbackDuplicate(w)
  PROVE  IInv'
<1> DEFINE b == call[w].batch
           r == [NewCall("done", call[w].many, b)
                 EXCEPT !.results = <<"Duplicate">>, !.err = "none"]
<1>1. call[w].pc = "rollback" /\ Rollback(call[w].conn) /\ call' = [call EXCEPT ![w] = r]
  BY Zenon DEF RollbackDuplicate, Return
<1>2. call \in [Workers -> Call] /\ call[w] \in Call
  BY TypeFacts, Zenon
<1>3. ~call[w].many /\ Len(b) = 1 /\ KeyOf(w, b[1]) \in rows
  BY <1>1, CallFacts, Zenon
<1>4. <<"Duplicate">> \in Seq({"Processed", "Duplicate", "Failed"})
  OBVIOUS
<1>5. /\ r \in Call /\ r.conn = NoConn /\ r.pc = "done" /\ r.batch = b
      /\ r.results = <<"Duplicate">> /\ r.many = call[w].many
  BY <1>2, <1>4, Zenon DEF NewCall, Call
<1>6. call' \in [Workers -> Call] /\ call'[w] = r /\ \A v \in Workers \ {w} : call'[v] = call[v]
  BY <1>1, <1>2, <1>5, Zenon
<1>7. rows' = rows
  BY <1>1, Zenon DEF Rollback
<1> HIDE DEF r, b
<1>8. DoneInv(w)'
  <2>1. DOMAIN call'[w].results = {1} /\ Len(call'[w].results) = 1
    BY <1>5, <1>6
  <2>2. Acks(w)' \subseteq {KeyOf(w, b[1])}
    BY <1>5, <1>6, <2>1, Zenon DEF Acks, KeyOf
  <2> QED
    BY <1>3, <1>5, <1>6, <1>7, <2>1, <2>2 DEF DoneInv
<1>9. CallInv(w)'
  BY <1>3, <1>5, <1>6, <1>8, Zenon DEF CallInv
<1> QED
  BY <1>1, <1>5, <1>6, <1>9, RollbackStep, TypeFacts, Zenon DEF RollbackDuplicate

-----------------------------------------------------------------------------
(* The claims.                                                             *)

\* A Fresh claim: the row joins the transaction, and in a batch its lock is
\* below every id still to be claimed.
LEMMA ClaimFreshIInv ==
  ASSUME IInv, NEW w \in Workers, ClaimFresh(w)
  PROVE  IInv'
<1> DEFINE c == call[w].conn  t == tx[c]
<1>1. PICK m \in Messages :
        /\ Claiming(w, m)
        /\ InsertRow(c, KeyOf(w, m))
        /\ call' = [call EXCEPT ![w].pc = IF call[w].many THEN "claim" ELSE "run",
                                ![w].todo = @ \ {m}, ![w].fresh = @ \cup {m}]
  BY Zenon DEF ClaimFresh
<1> DEFINE k == KeyOf(w, m)
           q == [call[w] EXCEPT !.pc = IF call[w].many THEN "claim" ELSE "run",
                                !.todo = @ \ {m}, !.fresh = @ \cup {m}]
<1>2. /\ call[w].pc = "claim" /\ IsNext(w, m) /\ ClaimInv(w)
      /\ ~call[w].many => Len(call[w].batch) = 1
  BY <1>1, CallFacts, Zenon DEF Claiming
<1>3. /\ call[w] \in Call /\ c \in Conns /\ t \in Tx /\ t.st = "open"
      /\ call \in [Workers -> Call] /\ tx \in [Conns -> Tx]
  BY <1>2, InTx, Zenon
<1>4. k \in Key
  BY KeyOfType, Zenon
<1>5. /\ q \in Call /\ q.conn = c /\ q.pc = IF call[w].many THEN "claim" ELSE "run"
      /\ q.many = call[w].many /\ q.batch = call[w].batch /\ q.pos = call[w].pos
      /\ q.todo = call[w].todo \ {m} /\ q.fresh = call[w].fresh \cup {m}
      /\ q.failed = call[w].failed /\ q.results = call[w].results
  BY <1>3, Zenon DEF Call
<1>6. PICK u \in Tx :
        /\ tx' = [tx EXCEPT ![c] = u]
        /\ u.st = "open" /\ u.ins = t.ins \cup {k} /\ u.lck = t.lck \cup {k}
        /\ u.eff = t.eff /\ u.sp = t.sp /\ u.spIns = t.spIns
  BY <1>1, <1>3, <1>4, InsertRowTx
<1>7. /\ call' = [call EXCEPT ![w] = q]
      /\ rows' = rows /\ applied' = applied /\ acked' = acked /\ faults' = faults
      /\ ~Blocked(c, k) /\ k \notin rows
  <2>1. acked' = acked /\ faults' = faults
    BY Zenon DEF ClaimFresh
  <2>2. rows' = rows /\ applied' = applied /\ ~Blocked(c, k) /\ k \notin rows
    BY <1>1, Zenon DEF InsertRow
  <2>3. call' = [call EXCEPT ![w] = q]
    BY <1>1, Zenon
  <2> QED
    BY <2>1, <2>2, <2>3, Zenon
<1>8. call'[w] = q /\ tx'[c] = u
  BY <1>3, <1>6, <1>7, Zenon
<1>9. CallInv(w)'
  <2> HIDE DEF q, c
  <2>1. CASE call[w].many
    <3>1. Keys(w, q.fresh) = Keys(w, call[w].fresh) \cup {k}
      BY <1>5, Zenon DEF Keys
    <3>2. \A l \in u.lck : \A n \in q.todo : l[2] < n
      <4>1. \A n \in q.todo : m < n
        BY <1>2, <1>3, <1>5, CallShape, NextIsLeast, Zenon
      <4>2. \A l \in tx[c].lck : \A n \in q.todo : l[2] < n
        BY <1>2, <1>5, Zenon DEF ClaimInv, c
      <4>3. k[2] = m
        BY KeyOfMessageId, Zenon
      <4> HIDE DEF k
      <4> TAKE l \in u.lck
      <4>4. l \in tx[c].lck \/ l = k
        BY <1>6, Zenon
      <4> QED
        BY <4>1, <4>2, <4>3, <4>4, Zenon
    <3>3. /\ q.todo \subseteq Ids(q.batch) /\ q.fresh \subseteq Ids(q.batch) \ q.todo
          /\ Keys(w, Ids(q.batch) \ (q.todo \cup q.fresh)) \subseteq rows
      BY <1>2, <1>5, Zenon DEF ClaimInv, IsNext, Keys
    <3>4. /\ q.pos = 1 /\ q.failed = {} /\ q.results = <<>>
          /\ u.ins = Keys(w, q.fresh) /\ u.eff = NoEffect /\ ~u.sp
      BY <1>2, <1>5, <1>6, <3>1, Zenon DEF ClaimInv, c
    <3>5. ClaimInv(w)'
      BY <1>5, <1>7, <1>8, <2>1, <3>2, <3>3, <3>4, Zenon DEF ClaimInv, Keys, KeyOf, NoEffect
    <3> QED
      BY <1>5, <1>8, <2>1, <3>5, Zenon DEF CallInv
  <2>2. CASE ~call[w].many
    <3>1. m = call[w].batch[1]
      <4>1. Ids(call[w].batch) = {call[w].batch[1]}
        BY <1>2, <1>3, <2>2, OnlyId, Zenon DEF Call
      <4> QED
        BY <1>2, <4>1, Zenon DEF ClaimInv, IsNext
    <3>2. u.ins = {KeyOf(w, q.batch[1])} /\ u.eff = NoEffect
      <4>1. tx[c].ins = {} /\ tx[c].eff = NoEffect
        BY <1>2, <2>2, Zenon DEF ClaimInv, c, Keys
      <4> QED
        BY <1>5, <1>6, <3>1, <4>1, Zenon
    <3>3. q.pos = 1 /\ q.results = <<>>
      BY <1>2, <1>5, Zenon DEF ClaimInv
    <3>4. RunInv(w)'
      BY <1>5, <1>8, <3>2, <3>3, Zenon DEF RunInv, KeyOf, NoEffect
    <3> QED
      BY <1>2, <1>5, <1>8, <2>2, <3>4, Zenon DEF CallInv
  <2> QED
    BY <2>1, <2>2, Zenon
<1>10. (t.ins \cup t.spIns) \subseteq t.lck /\ (t.ins \cup t.spIns) \cap rows = {}
  BY <1>3, IInvFacts, Zenon DEF LockInv
<1>11. /\ u.lck \subseteq t.lck \cup {k}
       /\ u.ins \cup u.spIns \subseteq u.lck
       /\ (u.ins \cup u.spIns) \cap rows = {}
  BY <1>6, <1>7, <1>10, Zenon
<1>12. q.pc \notin {"idle", "begin", "done"} /\ call[w].pc \notin {"idle", "begin", "done"}
  BY <1>2, <1>5
<1>13. faults' \in 0..MaxFaults /\ \A l \in {k} : ~Blocked(c, l)
  BY <1>7, TypeFacts, Zenon
<1> HIDE DEF q, k
<1> QED
  BY <1>5, <1>6, <1>7, <1>9, <1>11, <1>12, <1>13, StatementStep, Zenon

\* A Duplicate claim: nobody holds the row's lock and the call itself has not
\* inserted it, so it is committed.
LEMMA ClaimDuplicateIInv ==
  ASSUME IInv, NEW w \in Workers, ClaimDuplicate(w)
  PROVE  IInv'
<1> DEFINE c == call[w].conn  t == tx[c]
<1>1. PICK m \in Messages :
        /\ Claiming(w, m)
        /\ HitRow(c, KeyOf(w, m), call[w].many)
        /\ call' = [call EXCEPT ![w].pc = IF call[w].many THEN "claim" ELSE "rollback",
                                ![w].todo = @ \ {m}]
  BY Zenon DEF ClaimDuplicate
<1> DEFINE k == KeyOf(w, m)
           q == [call[w] EXCEPT !.pc = IF call[w].many THEN "claim" ELSE "rollback",
                                !.todo = @ \ {m}]
           u == IF DuplicateKeepsLock(call[w].many) THEN [t EXCEPT !.lck = @ \cup {k}] ELSE t
<1>2. /\ call[w].pc = "claim" /\ IsNext(w, m) /\ ClaimInv(w)
      /\ ~call[w].many => Len(call[w].batch) = 1
  BY <1>1, CallFacts, Zenon DEF Claiming
<1>3. /\ call[w] \in Call /\ c \in Conns /\ t \in Tx /\ t.st = "open"
      /\ call \in [Workers -> Call] /\ tx \in [Conns -> Tx]
  BY <1>2, InTx, Zenon
<1>4. k \in Key
  BY KeyOfType, Zenon
<1>5. /\ q \in Call /\ q.conn = c /\ q.pc = IF call[w].many THEN "claim" ELSE "rollback"
      /\ q.many = call[w].many /\ q.batch = call[w].batch /\ q.pos = call[w].pos
      /\ q.todo = call[w].todo \ {m} /\ q.fresh = call[w].fresh
      /\ q.failed = call[w].failed /\ q.results = call[w].results
  BY <1>3, Zenon DEF Call
<1>6. /\ u \in Tx /\ u.st = "open" /\ u.ins = t.ins
      /\ t.lck \subseteq u.lck /\ u.lck \subseteq t.lck \cup {k}
      /\ u.eff = t.eff /\ u.sp = t.sp /\ u.spIns = t.spIns
  <2>1. CASE DuplicateKeepsLock(call[w].many)
    <3>1. u = [t EXCEPT !.lck = @ \cup {k}]
      BY <2>1, Zenon
    <3> HIDE DEF k, u
    <3>2. t.lck \cup {k} \in SUBSET Key
      <4>1. t.lck \subseteq Key
        BY <1>3, Zenon DEF Tx
      <4> QED
        BY <1>4, <4>1, Zenon
    <3>3. /\ u \in Tx /\ u.lck = t.lck \cup {k} /\ u.st = t.st /\ u.ins = t.ins
          /\ u.eff = t.eff /\ u.sp = t.sp /\ u.spIns = t.spIns
      BY <1>3, <3>1, <3>2, Zenon DEF Tx
    <3> QED
      BY <1>3, <3>3, Zenon
  <2>2. CASE ~DuplicateKeepsLock(call[w].many)
    BY <1>3, <2>2, Zenon
  <2> QED
    BY <2>1, <2>2, Zenon
<1>7. /\ call' = [call EXCEPT ![w] = q]
      /\ rows' = rows /\ applied' = applied /\ acked' = acked /\ faults' = faults
      /\ ~Blocked(c, k) /\ k \in rows \cup t.ins
  <2>1. acked' = acked /\ faults' = faults
    BY Zenon DEF ClaimDuplicate
  <2>2. rows' = rows /\ applied' = applied /\ ~Blocked(c, k) /\ k \in rows \cup t.ins
    BY <1>1, Zenon DEF HitRow
  <2>3. call' = [call EXCEPT ![w] = q]
    BY <1>1, Zenon
  <2> QED
    BY <2>1, <2>2, <2>3, Zenon
<1>8. tx' = [tx EXCEPT ![c] = u]
  BY <1>1, <1>3, Zenon DEF HitRow
<1>9. call'[w] = q /\ tx'[c] = u
  BY <1>3, <1>7, <1>8, Zenon
<1>10. k \in rows
  <2>1. k \notin t.ins
    BY <1>2, KeyOfInjective, Zenon DEF ClaimInv, IsNext, Keys
  <2> QED
    BY <1>7, <2>1, Zenon
<1>11. CallInv(w)'
  <2> HIDE DEF q, u, c
  <2>1. CASE call[w].many
    <3>1. \A l \in u.lck : \A n \in q.todo : l[2] < n
      <4>1. \A n \in q.todo : m < n
        BY <1>2, <1>3, <1>5, CallShape, NextIsLeast, Zenon
      <4>2. \A l \in tx[c].lck : \A n \in q.todo : l[2] < n
        BY <1>2, <1>5, Zenon DEF ClaimInv, c
      <4>3. k[2] = m
        BY KeyOfMessageId, Zenon
      <4> HIDE DEF k
      <4> TAKE l \in u.lck
      <4>4. l \in tx[c].lck \/ l = k
        BY <1>6, Zenon
      <4> QED
        BY <4>1, <4>2, <4>3, <4>4, Zenon
    <3>2. /\ q.todo \subseteq Ids(q.batch) /\ q.fresh \subseteq Ids(q.batch) \ q.todo
          /\ Keys(w, Ids(q.batch) \ (q.todo \cup q.fresh)) \subseteq rows
      BY <1>2, <1>5, <1>10, Zenon DEF ClaimInv, IsNext, Keys
    <3>3. /\ q.pos = 1 /\ q.failed = {} /\ q.results = <<>>
          /\ u.ins = Keys(w, q.fresh) /\ u.eff = NoEffect /\ ~u.sp
      BY <1>2, <1>5, <1>6, Zenon DEF ClaimInv, c
    <3>4. ClaimInv(w)'
      BY <1>5, <1>7, <1>9, <2>1, <3>1, <3>2, <3>3, Zenon DEF ClaimInv, Keys, KeyOf, NoEffect
    <3> QED
      BY <1>5, <1>9, <2>1, <3>4, ZenonT(40) DEF CallInv
  <2>2. CASE ~call[w].many
    <3>1. m = call[w].batch[1]
      <4>1. Ids(call[w].batch) = {call[w].batch[1]}
        BY <1>2, <1>3, <2>2, OnlyId, Zenon DEF Call
      <4> QED
        BY <1>2, <4>1, Zenon DEF ClaimInv, IsNext
    <3>2. q.pc = "rollback" /\ ~q.many /\ Len(q.batch) = 1 /\ KeyOf(w, q.batch[1]) \in rows
      <4>1. KeyOf(w, q.batch[1]) = k
        BY <1>5, <3>1, Zenon
      <4> HIDE DEF k
      <4> QED
        BY <1>2, <1>5, <1>10, <2>2, <4>1, Zenon
    <3>3. KeyOf(w, call'[w].batch[1]) \in rows'
      <4>1. rows' = rows
        BY <1>7, Zenon
      <4> HIDE DEF k
      <4> QED
        BY <1>9, <3>2, <4>1
    <3>4. (KeyOf(w, call[w].batch[1]) \in rows)'
      BY <3>3, Zenon DEF KeyOf
    <3> QED
      BY <1>9, <3>2, <3>4, ZenonT(40) DEF CallInv
  <2> QED
    BY <2>1, <2>2, Zenon
<1>12. (t.ins \cup t.spIns) \subseteq t.lck /\ (t.ins \cup t.spIns) \cap rows = {}
  BY <1>3, IInvFacts, ZenonT(30) DEF LockInv
<1>13. /\ u.lck \subseteq t.lck \cup {k}
       /\ u.ins \cup u.spIns \subseteq u.lck
       /\ (u.ins \cup u.spIns) \cap rows = {}
  BY <1>6, <1>12, Zenon
<1>14. q.pc \notin {"idle", "begin", "done"} /\ call[w].pc \notin {"idle", "begin", "done"}
  BY <1>2, <1>5
<1>15. faults' \in 0..MaxFaults /\ \A l \in {k} : ~Blocked(c, l)
  BY <1>7, TypeFacts, Zenon
<1>16. u \in Tx /\ u.st = "open" /\ q \in Call /\ q.conn = c
  BY <1>5, <1>6, Zenon
<1> HIDE DEF q, u, k
<1> QED
  BY <1>7, <1>8, <1>11, <1>13, <1>14, <1>15, <1>16, StatementStep, Zenon

-----------------------------------------------------------------------------
(* The loop of process_many.                                               *)

\* Reading the slice: after one more position one more id has been seen.
LEMMA SeenNext ==
  ASSUME NEW w \in Workers, NEW n \in Nat \ {0}
  PROVE  Seen(w, n + 1) = Seen(w, n) \cup {call[w].batch[n]}
<1>1. 1..((n + 1) - 1) = 1..(n - 1) \cup {n}
  OBVIOUS
<1> QED
  BY <1>1, Zenon DEF Seen

\* What the loop reads of the slice and of the claims does not change in it.
LEMMA SameClaims ==
  ASSUME NEW w \in Workers,
         call'[w].batch = call[w].batch, call'[w].fresh = call[w].fresh
  PROVE  \A i : /\ Seen(w, i)' = Seen(w, i)
                /\ FreshAt(w, i)' <=> FreshAt(w, i)
                /\ Pending(w, i)' = Pending(w, i)
<1>1. \A i : Seen(w, i)' = Seen(w, i) /\ (FreshAt(w, i)' <=> FreshAt(w, i))
  BY Zenon DEF Seen, FreshAt
<1> QED
  BY <1>1, Zenon DEF Pending

\* A step that only moves pc or pos keeps what the loop has done so far.
LEMMA LoopInvSame ==
  ASSUME NEW w \in Workers, NEW n, LoopInv(w, n), rows' = rows,
         call'[w].many = call[w].many, call'[w].batch = call[w].batch,
         call'[w].fresh = call[w].fresh, call'[w].failed = call[w].failed,
         call'[w].results = call[w].results
  PROVE  LoopInv(w, n)' /\ Claimed(w)' = Claimed(w) /\ Handled(w, n)' = Handled(w, n)
<1>1. \A i : Seen(w, i)' = Seen(w, i) /\ (FreshAt(w, i)' <=> FreshAt(w, i))
  BY SameClaims, Zenon
<1>2. LoopInv(w, n)'
  BY <1>1, Zenon DEF LoopInv, Keys, KeyOf
<1>3. Claimed(w)' = Claimed(w) /\ Handled(w, n)' = Handled(w, n)
  BY <1>1, Zenon DEF Claimed, Handled, Keys, KeyOf
<1> QED
  BY <1>2, <1>3, Zenon

\* One more position dealt with, its result appended.
LEMMA LoopInvNext ==
  ASSUME NEW w \in Workers, call[w] \in Call,
         NEW n, n \in DOMAIN call[w].batch, LoopInv(w, n),
         NEW r \in {"Processed", "Duplicate", "Failed"},
         call'[w].many = call[w].many, call'[w].batch = call[w].batch,
         call'[w].fresh = call[w].fresh, rows' = rows,
         call'[w].results = Append(call[w].results, r),
         \/ /\ call'[w].failed = call[w].failed
            /\ r = IF call[w].batch[n] \in call[w].failed THEN "Failed"
                   ELSE IF FreshAt(w, n) THEN "Processed" ELSE "Duplicate"
         \/ /\ FreshAt(w, n) /\ r = "Failed"
            /\ call'[w].failed = call[w].failed \cup {call[w].batch[n]}
  PROVE  LoopInv(w, n + 1)'
<1> DEFINE q == call[w]  p == call'[w]
<1>1. /\ DOMAIN q.batch = 1..Len(q.batch) /\ Len(q.batch) \in Nat
      /\ q.results \in Seq({"Processed", "Duplicate", "Failed"})
      /\ n \in Nat \ {0} /\ n <= Len(q.batch)
  BY CallShape, Zenon
<1>2. Len(q.results) = n - 1
  BY Zenon DEF LoopInv
<1>3. /\ Len(p.results) = n /\ p.results[n] = r
      /\ \A j \in 1..(n - 1) : p.results[j] = q.results[j]
  <2>1. /\ Len(Append(q.results, r)) = n /\ Append(q.results, r)[n] = r
        /\ \A j \in 1..(n - 1) : Append(q.results, r)[j] = q.results[j]
    <3> HIDE DEF q
    <3> QED
      BY <1>1, <1>2, AppendShape
  <2> QED
    BY <2>1, Zenon
<1>4. \A i : Seen(w, i)' = Seen(w, i) /\ (FreshAt(w, i)' <=> FreshAt(w, i))
  BY SameClaims, Zenon
<1>5. Seen(w, n + 1) = Seen(w, n) \cup {q.batch[n]}
  BY <1>1, SeenNext, Zenon
<1>6. p.failed \subseteq p.fresh \cap Seen(w, n + 1)'
  <2>1. q.failed \subseteq q.fresh \cap Seen(w, n)
    BY Zenon DEF LoopInv
  <2>2. FreshAt(w, n) => q.batch[n] \in q.fresh
    BY Zenon DEF FreshAt
  <2> QED
    BY <1>4, <1>5, <2>1, <2>2, Zenon
<1>7. \A j \in 1..(n - 1) : q.batch[j] \in Seen(w, n)
  BY Zenon DEF Seen
<1>8. \A j \in 1..(n - 1) : q.batch[j] \in p.failed <=> q.batch[j] \in q.failed
  BY <1>7, Zenon DEF FreshAt
<1>9. \A j \in 1..n :
        p.results[j] = IF p.batch[j] \in p.failed THEN "Failed"
                       ELSE IF FreshAt(w, j)' THEN "Processed" ELSE "Duplicate"
  <2> TAKE j \in 1..n
  <2>1. CASE j = n
    BY <2>1, <1>3, <1>4, Zenon
  <2>2. CASE j # n
    <3>1. j \in 1..(n - 1)
      BY <2>2, <1>1
    <3>2. q.results[j] = IF q.batch[j] \in q.failed THEN "Failed"
                         ELSE IF FreshAt(w, j) THEN "Processed" ELSE "Duplicate"
      BY <3>1, Zenon DEF LoopInv
    <3>3. p.results[j] = q.results[j] /\ (q.batch[j] \in p.failed <=> q.batch[j] \in q.failed)
      BY <3>1, <1>3, <1>8, Zenon
    <3> QED
      BY <3>2, <3>3, <1>4, Zenon
  <2> QED
    BY <2>1, <2>2, Zenon
<1>10. /\ p.many /\ p.fresh \subseteq Ids(p.batch)
       /\ Keys(w, Ids(p.batch) \ p.fresh) \subseteq rows
  BY Zenon DEF LoopInv
<1>11. /\ n + 1 \in 1..(Len(p.batch) + 1) /\ Len(p.results) = (n + 1) - 1
       /\ 1..((n + 1) - 1) = 1..n
  BY <1>1, <1>3
<1> QED
  BY <1>6, <1>9, <1>10, <1>11, Zenon DEF LoopInv, Keys, KeyOf

\* The claims are answered: the savepoint holds all of them and no effect,
\* and is only opened when a handler is going to run.
LEMMA OpenSavepointIInv ==
  ASSUME IInv, NEW w \in Workers, OpenSavepoint(w)
  PROVE  IInv'
<1> DEFINE c == call[w].conn  t == tx[c]
           q == [call[w] EXCEPT !.pc = "loop"]
<1>1. /\ call[w].pc = "claim" /\ call[w].many /\ call[w].todo = {} /\ ClaimInv(w)
      /\ call' = [call EXCEPT ![w] = q] /\ acked' = acked /\ faults' = faults
  BY CallFacts, Zenon DEF OpenSavepoint
<1>2. /\ call[w] \in Call /\ c \in Conns /\ t \in Tx /\ t.st = "open"
      /\ call \in [Workers -> Call] /\ tx \in [Conns -> Tx]
  BY <1>1, InTx, Zenon
<1>3. /\ q \in Call /\ q.conn = c /\ q.pc = "loop" /\ q.many
      /\ q.batch = call[w].batch /\ q.pos = 1 /\ q.fresh = call[w].fresh
      /\ q.failed = {} /\ q.results = <<>>
  BY <1>1, <1>2, Zenon DEF Call, ClaimInv
<1>4. PICK u \in Tx :
        /\ tx' = [tx EXCEPT ![c] = u]
        /\ u.st = "open" /\ u.ins = t.ins /\ u.lck = t.lck /\ u.eff = t.eff
        /\ u.sp <=> Pending(w, 0) # {}
        /\ u.sp => u.spIns = t.ins /\ u.spEff = t.eff
        /\ u.spIns \in {t.ins, t.spIns}
  <2>1. CASE Pending(w, 0) # {}
    <3> DEFINE u == [t EXCEPT !.sp = TRUE, !.spIns = t.ins, !.spEff = t.eff]
    <3>1. /\ u \in Tx /\ u.st = "open" /\ u.ins = t.ins /\ u.lck = t.lck /\ u.eff = t.eff
          /\ u.sp = TRUE /\ u.spIns = t.ins /\ u.spEff = t.eff
      BY <1>2, Zenon DEF Tx
    <3>2. tx' = [tx EXCEPT ![c] = u]
      BY <2>1, Zenon DEF OpenSavepoint, Savepoint
    <3> HIDE DEF u
    <3> QED
      BY <2>1, <3>1, <3>2, Zenon
  <2>2. CASE Pending(w, 0) = {}
    <3>1. tx' = [tx EXCEPT ![c] = t]
      BY <2>2, <1>2, Zenon DEF OpenSavepoint, storeVars
    <3>2. t.sp = FALSE
      BY <1>1, <1>2, Zenon DEF ClaimInv, Tx
    <3> QED
      BY <2>2, <3>1, <3>2, <1>2, Zenon
  <2> QED
    BY <2>1, <2>2, Zenon
<1>5. rows' = rows /\ applied' = applied
  BY Zenon DEF OpenSavepoint, Savepoint, storeVars
<1>6. call'[w] = q /\ tx'[c] = u
  BY <1>1, <1>2, <1>4, Zenon
<1>7. CallInv(w)'
  <2> HIDE DEF q
  <2>1. \A i : /\ Seen(w, i)' = Seen(w, i)
               /\ FreshAt(w, i)' <=> FreshAt(w, i)
               /\ Pending(w, i)' = Pending(w, i)
    BY <1>3, <1>6, SameClaims, Zenon
  <2>2. Seen(w, 1) = {}
    BY SMTT(30) DEF Seen
  <2>3. LoopInv(w, 1)'
    <3>1. Len(q.batch) \in Nat
      BY <1>3, CallShape, Zenon
    <3>2. q.fresh \subseteq Ids(q.batch) /\ Keys(w, Ids(q.batch) \ q.fresh) \subseteq rows
      BY <1>1, <1>3, Zenon DEF ClaimInv, Keys
    <3> QED
      <4>1. /\ 1 \in 1..(Len(q.batch) + 1) /\ Len(<<>>) = 1 - 1
            /\ \A j : j \notin 1..(1 - 1)
        BY <3>1
      <4> QED
        BY <3>2, <4>1, <1>3, <1>5, <1>6, Zenon DEF LoopInv, Keys, KeyOf
  <2>4. Claimed(w)' = Keys(w, call[w].fresh)
    BY <1>3, <1>6, Zenon DEF Claimed, Keys, KeyOf
  <2>5. OneEach(Handled(w, 1))' = NoEffect
    <3>1. Handled(w, 1)' = {}
      BY <2>1, <2>2, Zenon DEF Handled, Keys
    <3> QED
      BY <3>1, Zenon DEF OneEach, NoEffect
  <2>6. t.ins = Keys(w, call[w].fresh) /\ t.eff = NoEffect
    BY <1>1, Zenon DEF ClaimInv
  <2>7. tx'[call'[w].conn] = u
    BY <1>3, <1>6, Zenon
  <2>8. Holds(w, 1)' /\ (u.sp => Saved(w, 1)')
    BY <1>4, <2>4, <2>5, <2>6, <2>7, Zenon DEF Holds, Saved
  <2>9. 1 - 1 = 0
    OBVIOUS
  <2> QED
    <3>1. call'[w].pc = "loop" /\ call'[w].many /\ call'[w].pos = 1
      BY <1>3, <1>6, Zenon
    <3>2. Pending(w, call[w].pos - 1)' = Pending(w, 0)
      BY <2>1, <2>9, <3>1, Zenon
    <3> QED
      BY <1>4, <2>3, <2>7, <2>8, <3>1, <3>2, ZenonT(40) DEF CallInv
<1>8. /\ u.lck \subseteq t.lck \cup {} /\ u.ins \cup u.spIns \subseteq u.lck
      /\ (u.ins \cup u.spIns) \cap rows = {}
  BY <1>2, <1>4, IInvFacts, Zenon DEF LockInv
<1>9. faults' \in 0..MaxFaults /\ q.pc \notin {"idle", "begin", "done"}
  BY <1>1, <1>3, TypeFacts, Zenon
<1> HIDE DEF q
<1> QED
  BY <1>1, <1>3, <1>4, <1>5, <1>7, <1>8, <1>9, StatementStep, Zenon

\* A position without a Fresh claim takes its result from the ids that failed
\* before it, and runs no handler.
LEMMA SkipDuplicateIInv ==
  ASSUME IInv, NEW w \in Workers, SkipDuplicate(w)
  PROVE  IInv'
<1>0. PICK n : n = call[w].pos
  BY Zenon
<1> DEFINE c == call[w].conn
           r == IF Current(w) \in call[w].failed THEN "Failed" ELSE "Duplicate"
           q == [call[w] EXCEPT !.pos = n + 1, !.results = Append(@, r)]
<1>1. /\ call[w].pc = "loop" /\ n <= Len(call[w].batch) /\ ~FreshAt(w, n)
      /\ call' = [call EXCEPT ![w] = q] /\ acked' = acked /\ faults' = faults
      /\ UNCHANGED storeVars
  BY <1>0, Zenon DEF SkipDuplicate, InLoop
<1>2. /\ LoopInv(w, n) /\ Holds(w, n) /\ (tx[c].sp <=> Pending(w, n - 1) # {})
      /\ tx[c].sp => Saved(w, n)
  BY <1>0, <1>1, LoopFacts, Zenon
<1>3. call[w] \in Call /\ call \in [Workers -> Call] /\ c \in Conns
  BY <1>1, InTx, Zenon
<1>4. /\ n \in Nat \ {0} /\ n \in DOMAIN call[w].batch
      /\ r \in {"Processed", "Duplicate", "Failed"}
  BY <1>0, <1>1, <1>2, <1>3 DEF LoopInv, Call
<1>5. /\ q \in Call /\ q.conn = c /\ q.pc = "loop" /\ q.many = call[w].many
      /\ q.batch = call[w].batch /\ q.pos = n + 1 /\ q.fresh = call[w].fresh
      /\ q.failed = call[w].failed /\ q.results = Append(call[w].results, r)
  <2> HIDE DEF r
  <2>1. Append(call[w].results, r) \in Seq({"Processed", "Duplicate", "Failed"}) /\ n + 1 \in Nat
    BY <1>3, <1>4 DEF Call
  <2> QED
    BY <1>1, <1>3, <2>1, Zenon DEF Call
<1>6. call'[w] = q /\ rows' = rows /\ tx' = tx
  BY <1>1, <1>3, Zenon DEF storeVars
<1>7. CallInv(w)'
  <2>1. r = IF call[w].batch[n] \in call[w].failed THEN "Failed"
            ELSE IF FreshAt(w, n) THEN "Processed" ELSE "Duplicate"
    BY <1>0, <1>1, Zenon DEF Current
  <2> HIDE DEF q, r
  <2>2. LoopInv(w, n + 1)'
    BY <1>2, <1>3, <1>4, <1>5, <1>6, <2>1, LoopInvNext, Zenon
  <2>3. \A i : /\ Seen(w, i)' = Seen(w, i)
               /\ FreshAt(w, i)' <=> FreshAt(w, i)
               /\ Pending(w, i)' = Pending(w, i)
    BY <1>5, <1>6, SameClaims, Zenon
  <2>4. call[w].fresh \cap Seen(w, n + 1) = call[w].fresh \cap Seen(w, n)
    <3>1. Seen(w, n + 1) = Seen(w, n) \cup {call[w].batch[n]}
      BY <1>4, SeenNext, Zenon
    <3> QED
      BY <3>1, <1>1, Zenon DEF FreshAt
  <2>5. Claimed(w)' = Claimed(w) /\ Handled(w, n + 1)' = Handled(w, n)
    BY <1>5, <1>6, <2>3, <2>4, Zenon DEF Claimed, Handled, Keys, KeyOf
  <2>6. Pending(w, n - 1) = Pending(w, n)
    <3>1. \A j \in DOMAIN call[w].batch : j > n - 1 <=> j > n \/ j = n
      BY <1>3, <1>4, SMTT(30) DEF Call
    <3> QED
      BY <3>1, <1>1, Zenon DEF Pending
  <2>7. Holds(w, n + 1)' /\ (Saved(w, n) => Saved(w, n + 1)')
    <3>1. OneEach(Handled(w, n + 1))' = OneEach(Handled(w, n))
      BY <2>5, Zenon DEF OneEach
    <3> QED
      BY <1>2, <1>5, <1>6, <2>5, <3>1, Zenon DEF Holds, Saved
  <2>8. (n + 1) - 1 = n
    BY <1>4
  <2>9. call'[w].many /\ call'[w].pc = "loop" /\ call'[w].pos = n + 1
    BY <1>2, <1>5, <1>6, Zenon DEF LoopInv
  <2>10. Pending(w, call[w].pos - 1)' = Pending(w, n - 1)
    BY <2>3, <2>6, <2>8, <2>9, Zenon
  <2>11. tx'[call'[w].conn] = tx[c]
    BY <1>5, <1>6, Zenon
  <2> QED
    BY <1>2, <2>2, <2>7, <2>9, <2>10, <2>11, Zenon DEF CallInv
<1>8. acked' \subseteq rows /\ faults' \in 0..MaxFaults
  BY <1>1, IInvFacts, TypeFacts, Zenon DEF AckedAreCommitted
<1>9. call' \in [Workers -> Call] /\ \A v \in Workers \ {w} : call'[v] = call[v]
  BY <1>1, <1>3, <1>5, Zenon
<1> HIDE DEF q
<1> QED
  BY <1>1, <1>5, <1>6, <1>7, <1>8, <1>9, LocalStep, Zenon

\* Where a handler runs: process has claimed its id, or the loop is at a
\* position whose claim is Fresh and has its savepoint.
LEMMA AtHandlerFacts ==
  ASSUME IInv, NEW w \in Workers, AtHandler(w), NEW n, n = call[w].pos
  PROVE  /\ call[w].pc \in {"run", "loop"}
         /\ n \in Nat \ {0} /\ n \in DOMAIN call[w].batch
         /\ Current(w) = call[w].batch[n] /\ Current(w) \in Messages
         /\ KeyOf(w, Current(w)) \in Key
         /\ call[w].many => /\ LoopInv(w, n) /\ Holds(w, n) /\ FreshAt(w, n)
                            /\ tx[call[w].conn].sp /\ Saved(w, n)
         /\ ~call[w].many => RunInv(w) /\ Len(call[w].batch) = 1 /\ n = 1
<1>1. call[w].pc \in {"run", "loop"}
  BY Zenon DEF AtHandler, InLoop
<1>2. call[w] \in Call /\ CallInv(w)
  BY IInvFacts, TypeFacts, Zenon
<1>3. DOMAIN call[w].batch = 1..Len(call[w].batch) /\ Len(call[w].batch) \in Nat
  BY <1>2 DEF Call
<1>4. CASE call[w].pc = "run"
  <2>1. RunInv(w) /\ ~call[w].many /\ Len(call[w].batch) = 1
    BY <1>2, <1>4, Zenon DEF CallInv
  <2>2. n = 1
    BY <2>1, Zenon DEF RunInv
  <2>3. Current(w) = call[w].batch[n] /\ Current(w) \in Messages
    BY <1>2, <1>3, <2>1, <2>2 DEF Current, Call
  <2> QED
    BY <1>1, <1>3, <2>1, <2>2, <2>3, KeyOfType
<1>5. CASE call[w].pc = "loop"
  <2>1. n <= Len(call[w].batch) /\ FreshAt(w, n)
    BY <1>5, Zenon DEF AtHandler, InLoop
  <2>2. /\ LoopInv(w, n) /\ Holds(w, n) /\ (tx[call[w].conn].sp <=> Pending(w, n - 1) # {})
        /\ tx[call[w].conn].sp => Saved(w, n)
    BY <1>2, <1>5, Zenon DEF CallInv
  <2>3. call[w].many /\ n \in Nat \ {0} /\ n \in DOMAIN call[w].batch
    BY <1>3, <2>1, <2>2 DEF LoopInv
  <2>4. n \in Pending(w, n - 1)
    BY <2>1, <2>3 DEF Pending
  <2>5. Current(w) = call[w].batch[n] /\ Current(w) \in Messages
    BY <1>2, <1>3, <2>3 DEF Current, Call
  <2> QED
    BY <1>1, <2>1, <2>2, <2>3, <2>4, <2>5, KeyOfType, Zenon
<1> QED
  BY <1>1, <1>4, <1>5, Zenon

\* A handler that succeeds leaves its effect and its claim side by side.
LEMMA HandlerOkIInv ==
  ASSUME IInv, NEW w \in Workers, HandlerOk(w)
  PROVE  IInv'
<1> DEFINE c == call[w].conn  t == tx[c]  k == KeyOf(w, Current(w))
           q == [call[w] EXCEPT !.pc = IF call[w].many THEN "release" ELSE "commit",
                                !.results = Append(@, "Processed")]
<1>1. PICK n : n = call[w].pos
  BY Zenon
<1>2. /\ call[w].pc \in {"run", "loop"}
      /\ n \in Nat \ {0} /\ n \in DOMAIN call[w].batch
      /\ Current(w) = call[w].batch[n] /\ Current(w) \in Messages
      /\ k \in Key
      /\ call[w].many => /\ LoopInv(w, n) /\ Holds(w, n) /\ FreshAt(w, n)
                         /\ t.sp /\ Saved(w, n)
      /\ ~call[w].many => RunInv(w) /\ Len(call[w].batch) = 1 /\ n = 1
  BY <1>1, AtHandlerFacts, Zenon DEF HandlerOk
<1>3. /\ call[w] \in Call /\ c \in Conns /\ t \in Tx /\ t.st = "open"
      /\ call \in [Workers -> Call] /\ tx \in [Conns -> Tx]
  BY <1>2, InTx, Zenon
<1>4. /\ q \in Call /\ q.conn = c /\ q.many = call[w].many
      /\ q.pc = IF call[w].many THEN "release" ELSE "commit"
      /\ q.batch = call[w].batch /\ q.pos = n /\ q.fresh = call[w].fresh
      /\ q.failed = call[w].failed /\ q.results = Append(call[w].results, "Processed")
  <2>1. Append(call[w].results, "Processed") \in Seq({"Processed", "Duplicate", "Failed"})
    BY <1>3 DEF Call
  <2> QED
    BY <1>1, <1>3, <2>1, Zenon DEF Call
<1>5. WriteEffect(c, k) /\ acked' = acked /\ faults' = faults /\ call' = [call EXCEPT ![w] = q]
  BY Zenon DEF HandlerOk
<1>6. PICK u \in Tx :
        /\ tx' = [tx EXCEPT ![c] = u]
        /\ u.st = t.st /\ u.ins = t.ins /\ u.lck = t.lck
        /\ u.eff = [t.eff EXCEPT ![k] = @ + 1]
        /\ u.sp = t.sp /\ u.spIns = t.spIns /\ u.spEff = t.spEff
  <2> HIDE DEF c, k
  <2> QED
    BY <1>2, <1>3, <1>5, WriteEffectTx, ZenonT(30)
<1>7. rows' = rows /\ applied' = applied
  BY <1>5, Zenon DEF WriteEffect
<1>8. call'[w] = q /\ tx'[c] = u
  BY <1>3, <1>5, <1>6, Zenon
<1>9. tx'[call'[w].conn] = u
  BY <1>4, <1>8, Zenon
<1>10. ASSUME call[w].many PROVE CallInv(w)'
  <2>1. call[w].batch[n] \notin call[w].failed
    BY <1>2, <1>10, Zenon DEF LoopInv, FreshAt
  <2> HIDE DEF q
  <2>2. LoopInv(w, n + 1)'
    BY <1>2, <1>3, <1>4, <1>7, <1>8, <1>10, <2>1, LoopInvNext, Zenon
  <2>3. \A i : Seen(w, i)' = Seen(w, i)
    BY <1>4, <1>8, SameClaims, Zenon
  <2>4. Seen(w, n + 1) = Seen(w, n) \cup {call[w].batch[n]}
    BY <1>2, SeenNext, Zenon
  <2>5. Claimed(w)' = Claimed(w)
    BY <1>4, <1>8, Zenon DEF Claimed, Keys, KeyOf
  <2>6. Handled(w, n + 1)' = Handled(w, n) \cup {k}
    <3>1. (call[w].fresh \cap Seen(w, n + 1)) \ call[w].failed
            = ((call[w].fresh \cap Seen(w, n)) \ call[w].failed) \cup {call[w].batch[n]}
      BY <1>2, <1>10, <2>1, <2>4, Zenon DEF FreshAt
    <3>2. Handled(w, n + 1)' = Keys(w, (call[w].fresh \cap Seen(w, n + 1)) \ call[w].failed)
      BY <1>4, <1>8, <2>3, Zenon DEF Handled, Keys, KeyOf
    <3> QED
      BY <1>2, <3>1, <3>2 DEF Handled, Keys
  <2>7. k \notin Handled(w, n) /\ Handled(w, n) \subseteq Key
    <3>1. k \notin Handled(w, n)
      BY <1>2, <1>10, KeyOfInjective, Zenon DEF Handled, Keys, FreshAt
    <3>2. call[w].fresh \subseteq Messages
      BY <1>3, Zenon DEF Call
    <3>3. Handled(w, n) \subseteq Key
      BY <3>2, KeyOfType, Zenon DEF Handled, Keys
    <3> QED
      BY <3>1, <3>3, Zenon
  <2>8. u.eff = OneEach(Handled(w, n) \cup {k})
    <3> HIDE DEF k
    <3>1. t.eff = OneEach(Handled(w, n))
      BY <1>2, <1>10, Zenon DEF Holds
    <3>2. Handled(w, n) \in SUBSET Key /\ k \in Key /\ k \notin Handled(w, n)
      BY <1>2, <2>7, Zenon
    <3>3. [OneEach(Handled(w, n)) EXCEPT ![k] = @ + 1] = OneEach(Handled(w, n) \cup {k})
      BY <3>2, OneEachNext, Zenon
    <3> QED
      BY <1>6, <3>1, <3>3, Zenon
  <2>9. Holds(w, n + 1)'
    <3>1. u.ins = Claimed(w)
      BY <1>2, <1>6, <1>10, Zenon DEF Holds
    <3>2. u.eff = OneEach(Handled(w, n + 1)')
      BY <2>6, <2>8, Zenon
    <3>3. OneEach(Handled(w, n + 1))' = OneEach(Handled(w, n + 1)')
      BY Zenon DEF OneEach
    <3> QED
      BY <1>9, <2>5, <3>1, <3>2, <3>3, Zenon DEF Holds
  <2> QED
    BY <1>2, <1>4, <1>6, <1>8, <1>9, <1>10, <2>2, <2>9, Zenon DEF CallInv
<1>11. ASSUME ~call[w].many PROVE CallInv(w)'
  <2> HIDE DEF q, k
  <2>1. /\ t.ins = {KeyOf(w, call[w].batch[1])} /\ t.eff = NoEffect
        /\ call[w].results = <<>>
    BY <1>2, <1>11, ZenonT(30) DEF RunInv
  <2>2. t.ins = {k}
    BY <1>2, <1>11, <2>1, Zenon DEF k
  <2>3. OneEach({}) = NoEffect /\ {} \cup {k} = {k}
    BY Zenon DEF OneEach, NoEffect
  <2>4. u.eff = OneEach({k})
    <3>1. {} \in SUBSET Key /\ k \in Key /\ k \notin {}
      BY <1>2, Zenon
    <3>2. [OneEach({}) EXCEPT ![k] = @ + 1] = OneEach({} \cup {k})
      BY <3>1, OneEachNext, Zenon
    <3> QED
      BY <1>6, <2>1, <2>3, <3>2, Zenon
  <2>5. Append(call[w].results, "Processed") = <<"Processed">>
    BY <2>1
  <2>6. CommitInv(w)'
    <3>1. u.ins = {KeyOf(w, q.batch[1])} /\ u.eff = OneEach(u.ins)
      BY <1>4, <1>6, <2>1, <2>2, <2>4, Zenon
    <3>2. q.results = <<"Processed">>
      BY <1>4, <2>5, Zenon
    <3>3. OneEach(tx[call[w].conn].ins)' = OneEach(u.ins) /\ call'[w].batch = q.batch
      BY <1>8, <1>9, Zenon DEF OneEach
    <3> QED
      BY <1>8, <1>9, <3>1, <3>2, <3>3, Zenon DEF CommitInv, KeyOf
  <2> QED
    BY <1>2, <1>4, <1>8, <1>11, <2>6, Zenon DEF CallInv
<1>12. /\ u.lck \subseteq t.lck \cup {} /\ u.ins \cup u.spIns \subseteq u.lck
       /\ (u.ins \cup u.spIns) \cap rows = {}
  BY <1>3, <1>6, IInvFacts, Zenon DEF LockInv
<1>13. /\ faults' \in 0..MaxFaults /\ q.pc \notin {"idle", "begin", "done"}
       /\ u.st = "open"
  <2> HIDE DEF q, t
  <2>1. faults' \in 0..MaxFaults /\ u.st = "open"
    BY <1>3, <1>5, <1>6, TypeFacts, Zenon
  <2>2. q.pc \in {"release", "commit"}
    BY <1>4, Zenon
  <2> QED
    BY <2>1, <2>2, Zenon
<1> HIDE DEF q, k
<1> QED
  BY <1>2, <1>4, <1>5, <1>6, <1>7, <1>10, <1>11, <1>12, <1>13, StatementStep, Zenon

\* A handler that fails leaves the clean-up to the savepoint or the rollback.
LEMMA HandlerErrIInv ==
  ASSUME IInv, NEW w \in Workers, HandlerErr(w)
  PROVE  IInv'
<1> DEFINE c == call[w].conn  t == tx[c]  k == KeyOf(w, Current(w))
           q == [call[w] EXCEPT !.pc = IF call[w].many THEN "rollback_to" ELSE "undo"]
<1>1. PICK n : n = call[w].pos
  BY Zenon
<1>2. /\ call[w].pc \in {"run", "loop"} /\ n \in DOMAIN call[w].batch /\ k \in Key
      /\ call[w].many => /\ LoopInv(w, n) /\ Holds(w, n) /\ FreshAt(w, n)
                         /\ t.sp /\ Saved(w, n)
      /\ ~call[w].many => Len(call[w].batch) = 1
  BY <1>1, AtHandlerFacts, Zenon DEF HandlerErr
<1>3. /\ call[w] \in Call /\ c \in Conns /\ t \in Tx /\ t.st = "open"
      /\ call \in [Workers -> Call] /\ tx \in [Conns -> Tx]
  BY <1>2, InTx, Zenon
<1>4. /\ q \in Call /\ q.conn = c /\ q.many = call[w].many
      /\ q.pc = IF call[w].many THEN "rollback_to" ELSE "undo"
      /\ q.batch = call[w].batch /\ q.pos = n /\ q.fresh = call[w].fresh
      /\ q.failed = call[w].failed /\ q.results = call[w].results
  BY <1>1, <1>3, Zenon DEF Call
<1>5. /\ acked' = acked /\ faults' \in 0..MaxFaults /\ call' = [call EXCEPT ![w] = q]
      /\ WriteEffect(c, k) \/ LoseTransaction(c)
  BY ConsumerAssumption, TypeFacts DEF HandlerErr, Fault
<1>6. PICK u \in Tx :
        /\ tx' = [tx EXCEPT ![c] = u]
        /\ u.st = "open" /\ u.lck \subseteq t.lck
        /\ u.ins \cup u.spIns \subseteq u.lck /\ u.ins \cup u.spIns \subseteq t.ins \cup t.spIns
        /\ u.sp => u.spIns = t.spIns /\ u.spEff = t.spEff
  <2>1. CASE WriteEffect(c, k)
    <3>1. t.ins \cup t.spIns \subseteq t.lck
      BY <1>3, IInvFacts, Zenon DEF LockInv
    <3> HIDE DEF c, k
    <3>2. PICK u \in Tx :
            /\ tx' = [tx EXCEPT ![c] = u]
            /\ u.st = tx[c].st /\ u.ins = tx[c].ins /\ u.lck = tx[c].lck
            /\ u.eff = [tx[c].eff EXCEPT ![k] = @ + 1]
            /\ u.sp = tx[c].sp /\ u.spIns = tx[c].spIns /\ u.spEff = tx[c].spEff
      BY <1>2, <1>3, <2>1, WriteEffectTx, Zenon
    <3> QED
      BY <1>3, <3>1, <3>2, Zenon
  <2>2. CASE LoseTransaction(c)
    <3>1. EmptyTx("open") \in Tx /\ tx' = [tx EXCEPT ![c] = EmptyTx("open")]
      BY <2>2, EmptyTxType, Zenon DEF LoseTransaction
    <3>2. /\ EmptyTx("open").st = "open" /\ EmptyTx("open").lck = {}
          /\ EmptyTx("open").ins = {} /\ EmptyTx("open").spIns = {}
          /\ EmptyTx("open").sp = FALSE
      BY Zenon DEF EmptyTx
    <3> QED
      BY <3>1, <3>2, Zenon
  <2> QED
    BY <1>5, <2>1, <2>2, Zenon
<1>7. rows' = rows /\ applied' = applied
  BY <1>5, Zenon DEF WriteEffect, LoseTransaction
<1>8. call'[w] = q /\ tx'[c] = u
  BY <1>3, <1>5, <1>6, Zenon
<1>9. CallInv(w)'
  <2> HIDE DEF q
  <2>1. tx'[call'[w].conn] = u
    BY <1>4, <1>8, Zenon
  <2>2. \A i : Seen(w, i)' = Seen(w, i) /\ (FreshAt(w, i)' <=> FreshAt(w, i))
    BY <1>4, <1>8, SameClaims, Zenon
  <2>3. call[w].many => LoopInv(w, n)'
    BY <1>2, <1>4, <1>7, <1>8, LoopInvSame, Zenon
  <2>4. Claimed(w)' = Claimed(w) /\ Handled(w, n)' = Handled(w, n)
    BY <1>4, <1>8, <2>2, ZenonT(30) DEF Claimed, Handled, Keys, KeyOf
  <2>5. call[w].many /\ u.sp => Saved(w, n)'
    <3>1. OneEach(Handled(w, n))' = OneEach(Handled(w, n))
      BY <2>4, Zenon DEF OneEach
    <3> QED
      BY <1>2, <1>6, <2>1, <2>4, <3>1, Zenon DEF Saved
  <2>6. /\ call'[w].pos = n /\ n \in DOMAIN call'[w].batch
        /\ call'[w].many = call[w].many
        /\ call'[w].pc = IF call[w].many THEN "rollback_to" ELSE "undo"
        /\ call[w].many => FreshAt(w, n)'
        /\ ~call[w].many => Len(call'[w].batch) = 1
    BY <1>2, <1>4, <1>8, <2>2, ZenonT(30)
  <2>7. CASE call[w].many
    BY <2>1, <2>3, <2>5, <2>6, <2>7, ZenonT(30) DEF CallInv
  <2>8. CASE ~call[w].many
    BY <2>6, <2>8, Zenon DEF CallInv
  <2> QED
    BY <2>7, <2>8, Zenon
<1>10. (t.ins \cup t.spIns) \cap rows = {}
  BY <1>3, IInvFacts, Zenon DEF LockInv
<1>11. /\ u.lck \subseteq t.lck \cup {} /\ (u.ins \cup u.spIns) \cap rows = {}
       /\ q.pc \notin {"idle", "begin", "done"}
  <2> HIDE DEF q, t
  <2>1. u.lck \subseteq t.lck \cup {} /\ (u.ins \cup u.spIns) \cap rows = {}
    BY <1>6, <1>10, Zenon
  <2>2. q.pc \in {"rollback_to", "undo"}
    BY <1>4, Zenon
  <2> QED
    BY <2>1, <2>2, Zenon
<1> HIDE DEF q
<1> QED
  BY <1>2, <1>4, <1>5, <1>6, <1>7, <1>9, <1>11, StatementStep, Zenon

\* ROLLBACK TO brings back what the savepoint saved: every claim of the batch
\* that has not failed and the effects of the handlers before this one.
LEMMA RollbackToSavepointIInv ==
  ASSUME IInv, NEW w \in Workers, RollbackToSavepoint(w)
  PROVE  IInv'
<1> DEFINE c == call[w].conn  t == tx[c]
           q == [call[w] EXCEPT !.pc = "unclaim"]
           u == [t EXCEPT !.ins = t.spIns, !.eff = t.spEff]
<1>1. PICK n : n = call[w].pos
  BY Zenon
<1>2. /\ call[w].pc = "rollback_to" /\ t.sp /\ call' = [call EXCEPT ![w] = q]
      /\ tx' = [tx EXCEPT ![c] = u] /\ rows' = rows /\ applied' = applied
      /\ acked' = acked /\ faults' = faults
  BY Zenon DEF RollbackToSavepoint, RollbackTo
<1>3. LoopInv(w, n) /\ n \in DOMAIN call[w].batch /\ FreshAt(w, n) /\ Saved(w, n)
  BY <1>1, <1>2, LoopFacts, Zenon
<1>4. /\ call[w] \in Call /\ c \in Conns /\ t \in Tx /\ t.st = "open"
      /\ call \in [Workers -> Call] /\ tx \in [Conns -> Tx]
  BY <1>2, InTx, Zenon
<1>5. /\ q \in Call /\ q.conn = c /\ q.many = call[w].many /\ q.pc = "unclaim"
      /\ q.batch = call[w].batch /\ q.pos = n /\ q.fresh = call[w].fresh
      /\ q.failed = call[w].failed /\ q.results = call[w].results
  BY <1>1, <1>4, Zenon DEF Call
<1>6. /\ u \in Tx /\ u.st = "open" /\ u.ins = t.spIns /\ u.eff = t.spEff
      /\ u.lck = t.lck /\ u.spIns = t.spIns /\ u.sp = t.sp
  BY <1>4, Zenon DEF Tx
<1>7. call'[w] = q /\ tx'[c] = u
  BY <1>2, <1>4, Zenon
<1>8. CallInv(w)'
  <2> HIDE DEF q, u
  <2>1. tx'[call'[w].conn] = u
    BY <1>5, <1>7, Zenon
  <2>2. \A i : Seen(w, i)' = Seen(w, i) /\ (FreshAt(w, i)' <=> FreshAt(w, i))
    BY <1>5, <1>7, SameClaims, Zenon
  <2>3. LoopInv(w, n)'
    BY <1>2, <1>3, <1>5, <1>7, LoopInvSame, Zenon
  <2>4. Claimed(w)' = Claimed(w) /\ Handled(w, n)' = Handled(w, n)
    BY <1>5, <1>7, <2>2, Zenon DEF Claimed, Handled, Keys, KeyOf
  <2>5. Holds(w, n)'
    BY <1>3, <1>6, <2>1, <2>4, Zenon DEF Saved, Holds, OneEach
  <2>6. q.many
    BY <1>3, <1>5, Zenon DEF LoopInv
  <2>7. /\ call'[w].pos = n /\ n \in DOMAIN call'[w].batch /\ FreshAt(w, n)'
        /\ call'[w].many /\ call'[w].pc = "unclaim" /\ tx'[call'[w].conn].sp
    BY <1>2, <1>3, <1>5, <1>6, <1>7, <2>1, <2>2, <2>6, Zenon
  <2> QED
    BY <2>3, <2>5, <2>7, Zenon DEF CallInv
<1>9. /\ u.lck \subseteq t.lck \cup {} /\ u.ins \cup u.spIns \subseteq u.lck
      /\ (u.ins \cup u.spIns) \cap rows = {}
  BY <1>4, <1>6, IInvFacts, Zenon DEF LockInv
<1>10. faults' \in 0..MaxFaults /\ q.pc \notin {"idle", "begin", "done"}
  BY <1>2, <1>5, TypeFacts, Zenon
<1> HIDE DEF q, u
<1> QED
  BY <1>2, <1>5, <1>6, <1>8, <1>9, <1>10, StatementStep, Zenon

\* unclaim after rollback_to takes the failed id's claim out of the batch.
LEMMA UnclaimFailedIInv ==
  ASSUME IInv, NEW w \in Workers, UnclaimFailed(w)
  PROVE  IInv'
<1> DEFINE c == call[w].conn  t == tx[c]  m == Current(w)  k == KeyOf(w, m)
           q == [call[w] EXCEPT !.pc = "release", !.failed = @ \cup {m},
                                !.results = Append(@, "Failed")]
           u == [t EXCEPT !.ins = @ \ {k}]
<1>1. PICK n : n = call[w].pos
  BY Zenon
<1>2. /\ call[w].pc = "unclaim" /\ call' = [call EXCEPT ![w] = q]
      /\ tx' = [tx EXCEPT ![c] = u] /\ rows' = rows /\ applied' = applied
      /\ acked' = acked /\ faults' = faults
  BY Zenon DEF UnclaimFailed, Unclaim
<1>3. /\ LoopInv(w, n) /\ n \in DOMAIN call[w].batch /\ FreshAt(w, n)
      /\ Holds(w, n) /\ t.sp
  BY <1>1, <1>2, LoopFacts, Zenon
<1>4. /\ call[w] \in Call /\ c \in Conns /\ t \in Tx /\ t.st = "open"
      /\ call \in [Workers -> Call] /\ tx \in [Conns -> Tx]
  BY <1>2, InTx, Zenon
<1>5. m = call[w].batch[n] /\ m \in Messages /\ n \in Nat \ {0}
  BY <1>1, <1>3, <1>4, CallShape, Zenon DEF Current
<1>6. /\ q \in Call /\ q.conn = c /\ q.many = call[w].many /\ q.pc = "release"
      /\ q.batch = call[w].batch /\ q.pos = n /\ q.fresh = call[w].fresh
      /\ q.failed = call[w].failed \cup {m}
      /\ q.results = Append(call[w].results, "Failed")
  <2> HIDE DEF m
  <2>1. Append(call[w].results, "Failed") \in Seq({"Processed", "Duplicate", "Failed"})
    BY <1>4 DEF Call
  <2> QED
    BY <1>1, <1>4, <1>5, <2>1, Zenon DEF Call
<1>7. /\ u \in Tx /\ u.st = "open" /\ u.ins = t.ins \ {k} /\ u.eff = t.eff
      /\ u.lck = t.lck /\ u.spIns = t.spIns /\ u.sp = t.sp
  <2> HIDE DEF k
  <2> QED
    BY <1>4, Zenon DEF Tx
<1>8. call'[w] = q /\ tx'[c] = u
  BY <1>2, <1>4, Zenon
<1>9. CallInv(w)'
  <2> HIDE DEF q, u, m
  <2>1. tx'[call'[w].conn] = u
    BY <1>6, <1>8, Zenon
  <2>2. LoopInv(w, n + 1)'
    BY <1>2, <1>3, <1>4, <1>5, <1>6, <1>8, LoopInvNext, Zenon
  <2>3. \A i : Seen(w, i)' = Seen(w, i)
    BY <1>6, <1>8, SameClaims, Zenon
  <2>4. Seen(w, n + 1) = Seen(w, n) \cup {m}
    BY <1>5, SeenNext, Zenon
  <2>5. Claimed(w)' = Claimed(w) \ {k}
    <3>1. Claimed(w)' = Keys(w, call[w].fresh \ (call[w].failed \cup {m}))
      BY <1>6, <1>8, Zenon DEF Claimed, Keys, KeyOf
    <3>2. Keys(w, call[w].fresh \ (call[w].failed \cup {m}))
            = Keys(w, call[w].fresh \ call[w].failed) \ {KeyOf(w, m)}
      BY KeyOfInjective, Zenon DEF Keys
    <3> QED
      BY <3>1, <3>2, Zenon DEF Claimed
  <2>6. Handled(w, n + 1)' = Handled(w, n)
    <3>1. (call[w].fresh \cap Seen(w, n + 1)) \ (call[w].failed \cup {m})
            = (call[w].fresh \cap Seen(w, n)) \ call[w].failed
      BY <1>3, <1>5, <2>4, Zenon DEF FreshAt
    <3>2. Handled(w, n + 1)'
            = Keys(w, (call[w].fresh \cap Seen(w, n + 1)) \ (call[w].failed \cup {m}))
      BY <1>6, <1>8, <2>3, Zenon DEF Handled, Keys, KeyOf
    <3> QED
      BY <3>1, <3>2, Zenon DEF Handled
  <2>7. Holds(w, n + 1)'
    <3>1. OneEach(Handled(w, n + 1))' = OneEach(Handled(w, n))
      BY <2>6, Zenon DEF OneEach
    <3> QED
      BY <1>3, <1>7, <2>1, <2>5, <3>1, Zenon DEF Holds
  <2>8. /\ call'[w].pos = n /\ n \in DOMAIN call'[w].batch /\ tx'[call'[w].conn].sp
        /\ call'[w].many /\ call'[w].pc = "release"
    BY <1>3, <1>6, <1>7, <1>8, <2>1, Zenon DEF LoopInv
  <2> QED
    BY <2>2, <2>7, <2>8, Zenon DEF CallInv
<1>10. /\ u.lck \subseteq t.lck \cup {} /\ u.ins \cup u.spIns \subseteq u.lck
       /\ (u.ins \cup u.spIns) \cap rows = {}
  BY <1>4, <1>7, IInvFacts, Zenon DEF LockInv
<1>11. faults' \in 0..MaxFaults /\ q.pc \notin {"idle", "begin", "done"}
  BY <1>2, <1>6, TypeFacts, Zenon
<1> HIDE DEF q, u
<1> QED
  BY <1>2, <1>6, <1>7, <1>9, <1>10, <1>11, StatementStep, Zenon

\* release, or release_and_savepoint when handlers are still to run, which
\* saves what the transaction holds now.
LEMMA ReleaseSavepointIInv ==
  ASSUME IInv, NEW w \in Workers, ReleaseSavepoint(w)
  PROVE  IInv'
<1> DEFINE c == call[w].conn  t == tx[c]
<1>1. PICK n : n = call[w].pos
  BY Zenon
<1> DEFINE q == [call[w] EXCEPT !.pc = "loop", !.pos = n + 1]
<1>2. /\ call[w].pc = "release" /\ call' = [call EXCEPT ![w] = q]
      /\ acked' = acked /\ faults' = faults
  BY <1>1, Zenon DEF ReleaseSavepoint
<1>3. LoopInv(w, n + 1) /\ n \in DOMAIN call[w].batch /\ Holds(w, n + 1) /\ t.sp
  BY <1>1, <1>2, LoopFacts, Zenon
<1>4. /\ call[w] \in Call /\ c \in Conns /\ t \in Tx /\ t.st = "open"
      /\ call \in [Workers -> Call] /\ tx \in [Conns -> Tx]
  BY <1>2, InTx, Zenon
<1>5. n \in Nat \ {0} /\ n + 1 \in Nat
  BY <1>3, <1>4 DEF Call
<1>6. /\ q \in Call /\ q.conn = c /\ q.many = call[w].many /\ q.pc = "loop"
      /\ q.batch = call[w].batch /\ q.pos = n + 1 /\ q.fresh = call[w].fresh
      /\ q.failed = call[w].failed /\ q.results = call[w].results
  BY <1>1, <1>4, <1>5, Zenon DEF Call
<1>7. PICK u \in Tx :
        /\ tx' = [tx EXCEPT ![c] = u]
        /\ u.st = "open" /\ u.ins = t.ins /\ u.lck = t.lck /\ u.eff = t.eff
        /\ u.sp <=> Pending(w, n) # {}
        /\ u.sp => u.spIns = t.ins /\ u.spEff = t.eff
        /\ u.spIns \in {t.ins, {}}
  <2>1. CASE Pending(w, n) # {}
    <3> DEFINE u == [t EXCEPT !.sp = TRUE, !.spIns = t.ins, !.spEff = t.eff]
    <3>1. /\ u \in Tx /\ u.st = "open" /\ u.ins = t.ins /\ u.lck = t.lck /\ u.eff = t.eff
          /\ u.sp = TRUE /\ u.spIns = t.ins /\ u.spEff = t.eff
      BY <1>4, Zenon DEF Tx
    <3>2. tx' = [tx EXCEPT ![c] = u]
      BY <1>1, <2>1, Zenon DEF ReleaseSavepoint, ReleaseAndSavepoint, Savepoint
    <3> HIDE DEF u
    <3> QED
      BY <2>1, <3>1, <3>2, Zenon
  <2>2. CASE Pending(w, n) = {}
    <3> DEFINE u == [t EXCEPT !.sp = FALSE, !.spIns = {}, !.spEff = NoEffect]
    <3>1. /\ u \in Tx /\ u.st = "open" /\ u.ins = t.ins /\ u.lck = t.lck /\ u.eff = t.eff
          /\ u.sp = FALSE /\ u.spIns = {}
      BY <1>4, NoEffectType, Zenon DEF Tx
    <3>2. tx' = [tx EXCEPT ![c] = u]
      BY <1>1, <2>2, Zenon DEF ReleaseSavepoint, Release
    <3> HIDE DEF u
    <3> QED
      BY <2>2, <3>1, <3>2, Zenon
  <2> QED
    BY <2>1, <2>2, Zenon
<1>8. rows' = rows /\ applied' = applied
  BY Zenon DEF ReleaseSavepoint, ReleaseAndSavepoint, Savepoint, Release
<1>9. call'[w] = q /\ tx'[c] = u
  BY <1>2, <1>4, <1>7, Zenon
<1>10. CallInv(w)'
  <2> HIDE DEF q
  <2>1. tx'[call'[w].conn] = u
    BY <1>6, <1>9, Zenon
  <2>2. \A i : Pending(w, i)' = Pending(w, i)
    BY <1>6, <1>9, SameClaims, Zenon
  <2>3. /\ LoopInv(w, n + 1)'
        /\ Claimed(w)' = Claimed(w) /\ Handled(w, n + 1)' = Handled(w, n + 1)
    <3>1. PICK l : l = n + 1
      BY Zenon
    <3>2. LoopInv(w, l)
      BY <1>3, <3>1, Zenon
    <3>3. /\ LoopInv(w, l)'
          /\ Claimed(w)' = Claimed(w) /\ Handled(w, l)' = Handled(w, l)
      BY <1>6, <1>8, <1>9, <3>2, LoopInvSame, Zenon
    <3> QED
      BY <3>1, <3>3, Zenon
  <2>4. OneEach(Handled(w, n + 1))' = OneEach(Handled(w, n + 1))
    BY <2>3, Zenon DEF OneEach
  <2>5. Holds(w, n + 1)' /\ (u.sp => Saved(w, n + 1)')
    BY <1>3, <1>7, <2>1, <2>3, <2>4, Zenon DEF Holds, Saved
  <2>6. call'[w].many /\ call'[w].pc = "loop" /\ call'[w].pos = n + 1 /\ (n + 1) - 1 = n
    <3>1. call[w].many
      BY <1>3, Zenon DEF LoopInv
    <3>2. (n + 1) - 1 = n
      BY <1>5
    <3> QED
      BY <1>6, <1>9, <3>1, <3>2, Zenon
  <2>7. Pending(w, call[w].pos - 1)' = Pending(w, n)
    BY <2>2, <2>6, Zenon
  <2> QED
    BY <1>7, <2>1, <2>3, <2>5, <2>6, <2>7, Zenon DEF CallInv
<1>11. /\ u.lck \subseteq t.lck \cup {} /\ u.ins \cup u.spIns \subseteq u.lck
       /\ (u.ins \cup u.spIns) \cap rows = {}
  BY <1>4, <1>7, IInvFacts, Zenon DEF LockInv
<1>12. faults' \in 0..MaxFaults /\ q.pc \notin {"idle", "begin", "done"}
  BY <1>2, <1>6, TypeFacts, Zenon
<1> HIDE DEF q
<1> QED
  BY <1>2, <1>6, <1>7, <1>8, <1>10, <1>11, <1>12, StatementStep, Zenon
=============================================================================
