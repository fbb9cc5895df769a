-------------------------- MODULE ManualBatchProofs -------------------------
(***************************************************************************)
(* Callers that follow the guide are safe, for any number of callers,      *)
(* connections, units and slices and on each backend: a unit is committed  *)
(* as a whole, once; it takes a caller with two claim statements in one    *)
(* transaction to close a circle of waits; and without such a circle       *)
(* somebody can always go on.                                              *)
(***************************************************************************)
EXTENDS ManualBatch, StoreProofs

-----------------------------------------------------------------------------
(* The inductive invariant.                                                *)

\* Where a unit has a transaction.
InTx == {"claim", "effects", "commit", "contended"}

Work == [pc : {"idle", "begin", "done"} \cup InTx, conn : Conns \cup {NoConn},
         unit : Units \cup {<<>>}, at : Nat \ {0},
         todo : SUBSET Messages, fresh : SUBSET Messages]

TypeOK ==
  /\ StoreTypeOK
  /\ work \in [Workers -> Work]
  /\ lost \subseteq Conns
  /\ acked \subseteq Key
  /\ faults \in 0..MaxFaults

\* Each transaction in a caller's hands is open and on a connection of its own;
\* one the server has ended is in the hands of a caller that knows, or dropped.
ConnInv ==
  /\ \A w \in Workers :
       /\ work[w].conn # NoConn <=> work[w].pc \in InTx
       /\ work[w].conn # NoConn => tx[work[w].conn].st = "open"
       /\ work[w].conn \in lost => work[w].pc = "contended"
  /\ \A w, v \in Workers : w # v /\ work[w].conn = work[v].conn => work[w].conn = NoConn
  /\ \A c \in lost : tx[c].st # "idle"

Keys(M) == {KeyOf(m) : m \in M}

\* The ids a unit has claimed so far.
Claimed(q) ==
  (UNION {Ids(q.unit[i]) : i \in 1..(q.at - 1)}) \cup (Ids(q.unit[q.at]) \ q.todo)

\* What the transaction t of a unit q holds while the committed rows are R: a row
\* for every id claimed so far that had none, and the effects of these but for
\* those still to be written.  In its first statement it holds no lock on an id
\* after those to come.
Holds(q, t, R) ==
  /\ q.at \in DOMAIN q.unit
  /\ q.todo \subseteq Ids(q.unit[q.at])
  /\ t.ins \subseteq Keys(Claimed(q))
  /\ Keys(Claimed(q)) \subseteq R \cup t.ins
  /\ Keys(q.fresh) \subseteq t.ins
  /\ t.eff = OneEach(t.ins \ Keys(q.fresh))
  /\ q.pc # "claim" => q.todo = {}
  /\ q.pc = "claim" /\ q.at = 1 => \A k \in t.lck : \A m \in q.todo : k[2] < m

UnitInv(q, t, R) ==
  /\ q.pc # "idle" => q.unit \in Units
  /\ q.pc = "begin" => q.at = 1 /\ q.fresh = {}
  /\ q.pc \in {"claim", "effects", "commit"} => Holds(q, t, R)
  /\ q.pc = "commit" => q.fresh = {} /\ q.at = Len(q.unit)
  /\ q.pc = "done" => KeysOf(q.unit) \subseteq R

IInv ==
  /\ TypeOK
  /\ ConnInv
  /\ LockInv
  /\ \A w \in Workers : UnitInv(work[w], tx[work[w].conn], rows)
  /\ EffectIffRow
  /\ acked \subseteq rows

-----------------------------------------------------------------------------
(* Keys, slices and new units.                                             *)

\* The group's consumer id and a message id make a key of the table.
LEMMA KeyOfType ==
  ASSUME NEW m \in Messages
  PROVE  KeyOf(m) \in Key
BY ManualAssumption, Zenon DEF KeyOf, Key

\* Different messages have different rows.
LEMMA KeyOfInjective ==
  ASSUME NEW m, NEW n, KeyOf(m) = KeyOf(n)
  PROVE  m = n
BY Zenon DEF KeyOf

\* A unit has a first slice, and its slices are slices of message ids.
LEMMA SliceType ==
  ASSUME NEW u \in Units
  PROVE  /\ Len(u) \in Nat \ {0} /\ DOMAIN u = 1..Len(u)
         /\ \A i \in DOMAIN u : Ids(u[i]) \subseteq Messages
<1>1. u \in Seq(Seq(Messages) \ {<<>>}) /\ u # <<>>
  BY ManualAssumption, Zenon
<1>2. \A i \in DOMAIN u : u[i] \in Seq(Messages)
  BY <1>1
<1>3. \A s \in Seq(Messages) : Ids(s) \subseteq Messages
  BY DEF Ids
<1> QED
  BY <1>1, <1>2, <1>3

\* A unit at its start or its end has no connection.
LEMMA NewWorkType ==
  ASSUME NEW pc \in {"idle", "begin"}, NEW u \in Units \cup {<<>>}
  PROVE  /\ NewWork(pc, u) \in Work
         /\ NewWork(pc, u).pc = pc /\ NewWork(pc, u).unit = u
         /\ NewWork(pc, u).conn = NoConn /\ NewWork(pc, u).at = 1
         /\ NewWork(pc, u).fresh = {}
BY DEF NewWork, Work

\* Its invariant says nothing of a transaction.
LEMMA NewWorkInv ==
  ASSUME NEW pc \in {"idle", "begin"}, NEW u \in Units \cup {<<>>}, NEW t, NEW R,
         pc # "idle" => u \in Units
  PROVE  UnitInv(NewWork(pc, u), t, R)
BY NewWorkType DEF UnitInv

\* Rows that others commit do not disturb a unit.
LEMMA MoreRows ==
  ASSUME NEW q, NEW t, NEW R, NEW Q, R \subseteq Q, UnitInv(q, t, R)
  PROVE  UnitInv(q, t, Q)
BY Zenon DEF UnitInv, Holds

-----------------------------------------------------------------------------
(* Steps of one unit.                                                      *)

\* A step of w's unit on connection c, its own or one it takes from the pool,
\* which leaves the unit as q and the transaction as u.
UnitStep(w, c, q, u) ==
  /\ work' = [work EXCEPT ![w] = q]
  /\ tx' = [tx EXCEPT ![c] = u]
  /\ work[w].conn = c \/ (work[w].conn = NoConn /\ tx[c].st = "idle")
  /\ q.conn \in {c, NoConn}
  /\ q.conn # NoConn <=> q.pc \in InTx
  /\ u.st = "open" <=> q.conn = c
  /\ lost \ {c} \subseteq lost' /\ lost' \subseteq lost \cup {c}
  /\ c \in lost' => q.pc = "contended" \/ u.st = "dropped"

\* It leaves the transactions in the hands of the other callers alone.
LEMMA UnitStepConns ==
  ASSUME IInv, NEW w \in Workers, NEW c \in Conns, NEW q \in Work, NEW u \in Tx,
         UnitStep(w, c, q, u)
  PROVE  /\ ConnInv'
         /\ \A v \in Workers \ {w} : work'[v] = work[v] /\ tx'[work[v].conn] = tx[work[v].conn]
<1> USE ManualAssumption
<1>1. work \in [Workers -> Work] /\ tx \in [Conns -> Tx]
  BY Zenon DEF IInv, TypeOK, StoreTypeOK
<1>2. work'[w] = q /\ tx'[c] = u /\ \A v \in Workers \ {w} : work'[v] = work[v]
  BY <1>1, Zenon DEF UnitStep
<1>3. \A v \in Workers \ {w} : work[v].conn # c
  BY <1>1, Zenon DEF IInv, ConnInv, UnitStep
<1>4. \A d : d # c => tx'[d] = tx[d]
  BY <1>1 DEF UnitStep
<1>5. \A v \in Workers \ {w} : tx'[work[v].conn] = tx[work[v].conn]
  BY <1>3, <1>4, Zenon
<1>6. \A v \in Workers :
        /\ work'[v].conn # NoConn <=> work'[v].pc \in InTx
        /\ work'[v].conn # NoConn => tx'[work'[v].conn].st = "open"
        /\ work'[v].conn \in lost' => work'[v].pc = "contended"
  <2> TAKE v \in Workers
  <2>1. CASE v = w
    <3>1. lost' \subseteq Conns
      BY Zenon DEF IInv, TypeOK, UnitStep
    <3> QED
      BY <1>2, <2>1, <3>1 DEF UnitStep
  <2>2. CASE v # w
    <3>1. work[v].conn \in lost' => work[v].conn \in lost
      BY <1>3, <2>2, Zenon DEF UnitStep
    <3> QED
      BY <1>2, <1>5, <2>2, <3>1 DEF IInv, ConnInv
  <2> QED
    BY <2>1, <2>2, Zenon
<1>7. \A v, o \in Workers : v # o /\ work'[v].conn = work'[o].conn => work'[v].conn = NoConn
  BY <1>2, <1>3 DEF IInv, ConnInv, UnitStep
<1>8. \A d \in lost' : tx'[d].st # "idle"
  <2> TAKE d \in lost'
  <2>1. CASE d = c
    BY <1>2, <2>1, Zenon DEF UnitStep, InTx
  <2>2. CASE d # c
    BY <1>4, <2>2, Zenon DEF IInv, ConnInv, UnitStep
  <2> QED
    BY <2>1, <2>2, Zenon
<1> QED
  BY <1>2, <1>5, <1>6, <1>7, <1>8, Zenon DEF ConnInv

\* A step that takes only free locks, or gives locks up, and commits at most what
\* its own transaction has inserted.
LEMMA UnitStepIInv ==
  ASSUME IInv, NEW w \in Workers, NEW c \in Conns, NEW q \in Work, NEW u \in Tx,
         UnitStep(w, c, q, u), \A k \in u.lck \ tx[c].lck : ~Blocked(c, k),
         u.ins \cup u.spIns \subseteq u.lck, (u.ins \cup u.spIns) \cap rows' = {},
         rows \subseteq rows', rows' \subseteq rows \cup tx[c].ins,
         applied' \in [Key -> Nat], EffectIffRow',
         acked' = acked, faults' \in 0..MaxFaults,
         UnitInv(q, u, rows')
  PROVE  IInv'
<1>1. /\ work \in [Workers -> Work] /\ tx \in [Conns -> Tx] /\ lost \subseteq Conns
      /\ rows \subseteq Key /\ acked \subseteq rows
  BY Zenon DEF IInv, TypeOK, StoreTypeOK
<1>2. /\ work'[w] = q /\ work' \in [Workers -> Work]
      /\ tx'[c] = u /\ tx' \in [Conns -> Tx] /\ \A d \in Conns \ {c} : tx'[d] = tx[d]
  BY <1>1, Zenon DEF UnitStep
<1>3. /\ ConnInv'
      /\ \A v \in Workers \ {w} : work'[v] = work[v] /\ tx'[work[v].conn] = tx[work[v].conn]
  BY UnitStepConns, Zenon
<1>4. TypeOK'
  <2>1. tx[c].ins \subseteq Key
    BY <1>1, Zenon DEF Tx
  <2>2. rows' \subseteq Key /\ lost' \subseteq Conns /\ acked' \subseteq Key
    BY <1>1, <2>1, Zenon DEF UnitStep
  <2> QED
    BY <1>2, <2>2, Zenon DEF TypeOK, StoreTypeOK
<1>5. LockInv'
  <2> DEFINE K == tx'[c].lck \ tx[c].lck
  <2>1. /\ tx'[c].lck \subseteq tx[c].lck \cup K /\ \A k \in K : ~Blocked(c, k)
        /\ tx'[c].ins \cup tx'[c].spIns \subseteq tx'[c].lck
        /\ (tx'[c].ins \cup tx'[c].spIns) \cap rows' = {}
    BY <1>2, Zenon
  <2>2. LockInv
    BY Zenon DEF IInv
  <2> HIDE DEF K
  <2> QED
    BY <1>1, <1>2, <2>1, <2>2, LockFrame, Zenon
<1>6. ASSUME NEW v \in Workers PROVE UnitInv(work[v], tx[work[v].conn], rows)'
  <2>1. CASE v = w
    <3>1. CASE q.conn = c
      BY <1>2, <2>1, <3>1, Zenon
    <3>2. CASE q.conn # c
      <4>1. q.pc \notin InTx
        BY <3>2, Zenon DEF UnitStep
      <4> QED
        BY <1>2, <2>1, <4>1, Zenon DEF UnitInv, InTx
    <3> QED
      BY <3>1, <3>2, Zenon
  <2>2. CASE v # w
    BY <1>3, <2>2, MoreRows DEF IInv
  <2> QED
    BY <2>1, <2>2, Zenon
<1>7. acked' \subseteq rows'
  BY <1>1, Zenon
<1> QED
  BY <1>3, <1>4, <1>5, <1>6, <1>7, Zenon DEF IInv

\* A step of a caller without a transaction.
LEMMA LocalStep ==
  ASSUME IInv, NEW w \in Workers, NEW q \in Work,
         work' = [work EXCEPT ![w] = q], UNCHANGED <<storeVars, lost>>,
         work[w].conn = NoConn, q.conn = NoConn, q.pc \notin InTx,
         acked' \subseteq rows, faults' \in 0..MaxFaults,
         UnitInv(q, tx[NoConn], rows)
  PROVE  IInv'
<1>1. /\ work \in [Workers -> Work] /\ rows' = rows /\ applied' = applied /\ tx' = tx
      /\ lost' = lost
  BY Zenon DEF IInv, TypeOK, storeVars
<1>2. /\ work'[w] = q /\ work' \in [Workers -> Work]
      /\ \A v \in Workers \ {w} : work'[v] = work[v]
  BY <1>1, Zenon
<1>3. TypeOK'
  BY <1>1, <1>2, Zenon DEF IInv, TypeOK, StoreTypeOK
<1>4. ConnInv'
  BY <1>1, <1>2, ManualAssumption DEF IInv, ConnInv, TypeOK
<1>5. LockInv' /\ EffectIffRow'
  BY <1>1, Zenon DEF IInv, LockInv, EffectIffRow
<1>6. ASSUME NEW v \in Workers PROVE UnitInv(work[v], tx[work[v].conn], rows)'
  <2>1. CASE v = w
    BY <1>1, <1>2, <2>1, Zenon
  <2>2. CASE v # w
    BY <1>1, <1>2, <2>2, Zenon DEF IInv
  <2> QED
    BY <2>1, <2>2, Zenon
<1> QED
  BY <1>1, <1>3, <1>4, <1>5, <1>6, Zenon DEF IInv

\* What a unit knows while it has a transaction.
LEMMA AtTx ==
  ASSUME IInv, NEW w \in Workers, work[w].pc \in InTx
  PROVE  LET c == work[w].conn
         IN /\ work \in [Workers -> Work] /\ work[w] \in Work
            /\ c \in Conns /\ c # NoConn
            /\ tx \in [Conns -> Tx] /\ tx[c] \in Tx /\ tx[c].st = "open"
            /\ c \in lost => work[w].pc = "contended"
            /\ work[w].unit \in Units
            /\ UnitInv(work[w], tx[c], rows)
            /\ tx[c].ins \cup tx[c].spIns \subseteq tx[c].lck
            /\ (tx[c].ins \cup tx[c].spIns) \cap rows = {}
<1>1. work \in [Workers -> Work] /\ tx \in [Conns -> Tx]
  BY Zenon DEF IInv, TypeOK, StoreTypeOK
<1>2. work[w].conn \in Conns /\ work[w].conn # NoConn
  BY <1>1, Zenon DEF IInv, ConnInv, Work
<1>3. UnitInv(work[w], tx[work[w].conn], rows)
  BY Zenon DEF IInv
<1>4. work[w].unit \in Units
  BY <1>3, Zenon DEF UnitInv, InTx
<1>5. LET c == work[w].conn
      IN /\ tx[c].ins \cup tx[c].spIns \subseteq tx[c].lck
         /\ (tx[c].ins \cup tx[c].spIns) \cap rows = {}
  BY <1>2, Zenon DEF IInv, LockInv
<1>6. /\ tx[work[w].conn].st = "open"
      /\ work[w].conn \in lost => work[w].pc = "contended"
  BY <1>2, Zenon DEF IInv, ConnInv
<1> QED
  BY <1>1, <1>2, <1>3, <1>4, <1>5, <1>6, Zenon

\* A step on the transaction that commits nothing, after which it has at most
\* one lock more, on a row that was free.
LEMMA StatementStep ==
  ASSUME IInv, NEW w \in Workers, work[w].pc \in InTx, NEW q \in Work, NEW u \in Tx,
         work' = [work EXCEPT ![w] = q], tx' = [tx EXCEPT ![work[w].conn] = u],
         q.conn = work[w].conn, q.pc \in InTx, u.st = "open",
         lost' = lost \/ (lost' = lost \cup {q.conn} /\ q.pc = "contended"),
         q.conn \in lost => q.pc = "contended",
         \A k \in u.lck \ tx[q.conn].lck : ~Blocked(q.conn, k),
         u.ins \cup u.spIns \subseteq u.lck, (u.ins \cup u.spIns) \cap rows = {},
         rows' = rows, applied' = applied, acked' = acked, faults' \in 0..MaxFaults,
         UnitInv(q, u, rows)
  PROVE  IInv'
<1>1. PICK c \in Conns : c = work[w].conn /\ c # NoConn
  BY AtTx, Zenon
<1>2. UnitStep(w, c, q, u)
  BY <1>1, Zenon DEF UnitStep
<1>3. applied' \in [Key -> Nat] /\ EffectIffRow'
  BY Zenon DEF IInv, TypeOK, StoreTypeOK, EffectIffRow
<1>4. /\ \A k \in u.lck \ tx[c].lck : ~Blocked(c, k)
      /\ (u.ins \cup u.spIns) \cap rows' = {} /\ UnitInv(q, u, rows')
      /\ rows \subseteq rows' /\ rows' \subseteq rows \cup tx[c].ins
  BY <1>1, Zenon
<1> QED
  BY <1>2, <1>3, <1>4, UnitStepIInv, Zenon

\* The transaction goes and nothing of it is committed: rolled back, or dropped
\* with its locks until the queued rollback runs.
LEMMA GiveUp ==
  ASSUME IInv, NEW w \in Workers, work[w].pc \in InTx,
         NEW pc \in {"idle", "begin"}, NEW u \in Units \cup {<<>>}, pc # "idle" => u \in Units,
         work' = [work EXCEPT ![w] = NewWork(pc, u)],
         \/ Rollback(work[w].conn) /\ lost' = lost \ {work[w].conn}
         \/ Drop(work[w].conn) /\ lost' = lost,
         acked' = acked, faults' \in 0..MaxFaults
  PROVE  IInv'
<1>1. PICK c \in Conns : c = work[w].conn /\ c # NoConn
  BY AtTx, Zenon
<1>2. /\ tx \in [Conns -> Tx] /\ tx[c] \in Tx
      /\ tx[c].ins \cup tx[c].spIns \subseteq tx[c].lck
      /\ (tx[c].ins \cup tx[c].spIns) \cap rows = {}
  BY <1>1, AtTx, Zenon
<1>3. /\ NewWork(pc, u) \in Work /\ NewWork(pc, u).conn = NoConn
      /\ NewWork(pc, u).pc \notin InTx
  BY NewWorkType DEF InTx
<1>4. PICK t \in Tx :
        /\ tx' = [tx EXCEPT ![c] = t] /\ rows' = rows /\ applied' = applied
        /\ t.st \in {"idle", "dropped"}
        /\ lost' = lost \ {c} \/ (lost' = lost /\ t.st = "dropped")
        /\ t.lck \subseteq tx[c].lck
        /\ t.ins \cup t.spIns \subseteq t.lck
        /\ (t.ins \cup t.spIns) \cap rows' = {}
  <2>1. CASE Rollback(c) /\ lost' = lost \ {c}
    <3>1. EmptyTx("idle") \in Tx
      BY EmptyTxType, Zenon
    <3> QED
      BY <2>1, <3>1, Zenon DEF Rollback, EmptyTx
  <2>2. CASE Drop(c) /\ lost' = lost
    <3> DEFINE t == [tx[c] EXCEPT !.st = "dropped"]
    <3>1. t \in Tx
      BY <1>2, Zenon DEF Tx
    <3>2. t.st = "dropped" /\ t.ins = tx[c].ins /\ t.spIns = tx[c].spIns /\ t.lck = tx[c].lck
      BY <1>2, Zenon DEF Tx
    <3>3. tx' = [tx EXCEPT ![c] = t] /\ rows' = rows /\ applied' = applied
      BY <2>2, Zenon DEF Drop
    <3> HIDE DEF t
    <3> QED
      BY <1>2, <2>2, <3>1, <3>2, <3>3, Zenon
  <2> QED
    BY <1>1, <2>1, <2>2, Zenon
<1>5. UnitStep(w, c, NewWork(pc, u), t)
  BY <1>1, <1>3, <1>4, Zenon DEF UnitStep
<1>6. applied' \in [Key -> Nat] /\ EffectIffRow'
  BY <1>4, Zenon DEF IInv, TypeOK, StoreTypeOK, EffectIffRow
<1>7. UnitInv(NewWork(pc, u), t, rows')
  BY NewWorkInv, Zenon
<1>8. /\ \A k \in t.lck \ tx[c].lck : ~Blocked(c, k)
      /\ rows \subseteq rows' /\ rows' \subseteq rows \cup tx[c].ins
  BY <1>4, Zenon
<1> QED
  BY <1>3, <1>4, <1>5, <1>6, <1>7, <1>8, UnitStepIInv, Zenon

-----------------------------------------------------------------------------
(* The actions.                                                            *)

\* A caller is handed a unit.
LEMMA StartIInv ==
  ASSUME IInv, NEW w \in Workers, NEW u \in Units, Start(w, u)
  PROVE  IInv'
<1>1. /\ work[w].conn = NoConn /\ acked \subseteq rows /\ faults \in 0..MaxFaults
      /\ work' = [work EXCEPT ![w] = NewWork("begin", u)]
      /\ UNCHANGED <<storeVars, lost>> /\ acked' = acked /\ faults' = faults
  BY Zenon DEF Start, IInv, TypeOK, ConnInv, InTx
<1>2. /\ NewWork("begin", u) \in Work /\ NewWork("begin", u).conn = NoConn
      /\ NewWork("begin", u).pc \notin InTx
  BY NewWorkType, Zenon DEF InTx
<1>3. UnitInv(NewWork("begin", u), tx[NoConn], rows)
  BY NewWorkInv, Zenon
<1> QED
  BY <1>1, <1>2, <1>3, LocalStep, Zenon

\* begin: the first statement's ids are all to be claimed, and nothing is held.
LEMMA BeginUnitIInv ==
  ASSUME IInv, NEW w \in Workers, BeginUnit(w)
  PROVE  IInv'
<1>1. PICK c \in Conns :
        /\ work[w].pc = "begin" /\ Begin(c)
        /\ work' = [work EXCEPT ![w].pc = "claim", ![w].conn = c, ![w].todo = Ids(Slice(w))]
        /\ lost' = lost /\ acked' = acked /\ faults' = faults
  BY Zenon DEF BeginUnit
<1>2. /\ work \in [Workers -> Work] /\ work[w] \in Work /\ faults \in 0..MaxFaults
      /\ UnitInv(work[w], tx[work[w].conn], rows)
  BY Zenon DEF IInv, TypeOK
<1>3. work[w].at = 1 /\ work[w].fresh = {} /\ work[w].unit \in Units
  BY <1>1, <1>2, Zenon DEF UnitInv
<1>4. 1 \in DOMAIN work[w].unit /\ Ids(work[w].unit[1]) \subseteq Messages
  BY <1>3, SliceType
<1> DEFINE S == Ids(work[w].unit[1])
           q == [work[w] EXCEPT !.pc = "claim", !.conn = c, !.todo = S]
           u == EmptyTx("open")
<1>5. /\ q \in Work /\ q.pc = "claim" /\ q.conn = c /\ q.unit = work[w].unit /\ q.at = 1
      /\ q.todo = S /\ q.fresh = {}
  <2>1. S \in SUBSET Messages
    BY <1>4, Zenon
  <2> HIDE DEF S
  <2> QED
    BY <1>2, <1>3, <2>1, Zenon DEF Work, InTx
<1>6. u \in Tx /\ u.st = "open" /\ u.ins = {} /\ u.spIns = {} /\ u.lck = {} /\ u.eff = NoEffect
  BY EmptyTxType, Zenon DEF EmptyTx
<1>7. UnitInv(q, u, rows')
  <2>1. 1..(1 - 1) = {}
    OBVIOUS
  <2>2. Claimed(q) = {}
    <3> HIDE DEF q
    <3> QED
      BY <1>5, <2>1, Zenon DEF Claimed
  <2>3. OneEach({}) = NoEffect
    BY Zenon DEF OneEach, NoEffect
  <2>4. Keys({}) = {} /\ {} \ {} = {}
    BY Zenon DEF Keys
  <2>5. Holds(q, u, rows')
    <3> HIDE DEF q, u
    <3> QED
      BY <1>4, <1>5, <1>6, <2>2, <2>3, <2>4, Zenon DEF Holds
  <2> HIDE DEF q, u
  <2> QED
    BY <1>3, <1>5, <2>5, Zenon DEF UnitInv
<1>8. UnitStep(w, c, q, u)
  <2>1. work' = [work EXCEPT ![w] = q]
    BY <1>1, <1>3, Zenon DEF Slice
  <2>2. /\ tx' = [tx EXCEPT ![c] = u] /\ tx[c].st = "idle" /\ work[w].conn = NoConn
        /\ c \notin lost /\ c # NoConn
    BY <1>1, ManualAssumption, Zenon DEF Begin, IInv, ConnInv, InTx
  <2> HIDE DEF q, u
  <2> QED
    BY <1>1, <1>5, <1>6, <2>1, <2>2, Zenon DEF UnitStep, InTx
<1>9. /\ rows' = rows /\ applied' \in [Key -> Nat] /\ EffectIffRow'
  BY <1>1, Zenon DEF Begin, IInv, TypeOK, StoreTypeOK, EffectIffRow
<1>10. /\ \A k \in u.lck \ tx[c].lck : ~Blocked(c, k)
       /\ u.ins \cup u.spIns \subseteq u.lck /\ (u.ins \cup u.spIns) \cap rows' = {}
       /\ rows \subseteq rows' /\ rows' \subseteq rows \cup tx[c].ins
       /\ acked' = acked /\ faults' \in 0..MaxFaults
  BY <1>1, <1>2, <1>6, <1>9, Zenon
<1> HIDE DEF q, u
<1> QED
  BY <1>5, <1>6, <1>7, <1>8, <1>9, <1>10, UnitStepIInv, Zenon

\* One more id of the slice is claimed.
LEMMA ClaimedNext ==
  ASSUME NEW q, NEW r, NEW m, r.unit = q.unit, r.at = q.at,
         m \in q.todo, q.todo \subseteq Ids(q.unit[q.at]), r.todo = q.todo \ {m}
  PROVE  Keys(Claimed(r)) = Keys(Claimed(q)) \cup {KeyOf(m)}
<1> DEFINE A(s) == UNION {Ids(s.unit[i]) : i \in 1..(s.at - 1)}
<1>1. A(r) = A(q) /\ Ids(r.unit[r.at]) = Ids(q.unit[q.at])
  BY Zenon
<1>2. /\ Claimed(r) = A(r) \cup (Ids(r.unit[r.at]) \ r.todo)
      /\ Claimed(q) = A(q) \cup (Ids(q.unit[q.at]) \ q.todo)
  BY Zenon DEF Claimed
<1> HIDE DEF A
<1>3. Claimed(r) = Claimed(q) \cup {m}
  BY <1>1, <1>2, Zenon
<1> QED
  BY <1>3, Zenon DEF Keys

\* The id claimed next is before the others.
LEMMA NextIsSmallest ==
  ASSUME NEW w \in Workers, NEW m \in Messages, IsNext(w, m), work[w].todo \subseteq Messages
  PROVE  \A n \in work[w].todo \ {m} : m < n
<1> TAKE n \in work[w].todo \ {m}
<1>1. m \in Nat /\ n \in Nat
  BY MessagesAssumption, Zenon
<1>2. m <= n /\ m # n
  BY Zenon DEF IsNext
<1> QED
  BY <1>1, <1>2

\* In a unit's first statement the lock of the id claimed now, like those taken
\* before it, is before the ids to come.
LEMMA LocksBeforeTodo ==
  ASSUME NEW w \in Workers, NEW m \in Messages, NEW t, NEW q, NEW u,
         work[w] \in Work, work[w].pc = "claim", IsNext(w, m), Holds(work[w], t, rows),
         q.at = work[w].at, q.todo = work[w].todo \ {m},
         u.lck \subseteq t.lck \cup {KeyOf(m)}
  PROVE  q.at = 1 => \A l \in u.lck : \A n \in q.todo : l[2] < n
<1> SUFFICES ASSUME q.at = 1, NEW l \in u.lck, NEW n \in q.todo PROVE l[2] < n
  BY Zenon
<1>1. CASE l = KeyOf(m)
  <2>1. l[2] = m
    BY <1>1, Zenon DEF KeyOf
  <2>2. m < n
    BY NextIsSmallest, Zenon DEF Work
  <2> QED
    BY <2>1, <2>2, Zenon
<1>2. CASE l # KeyOf(m)
  BY <1>2, Zenon DEF Holds
<1> QED
  BY <1>1, <1>2, Zenon

\* A claim answers Fresh: the row and its lock join the transaction, and the
\* effect is still to be written.
LEMMA ClaimFreshIInv ==
  ASSUME IInv, NEW w \in Workers, ClaimFresh(w)
  PROVE  IInv'
<1>1. PICK m \in Messages :
        /\ work[w].pc = "claim" /\ IsNext(w, m) /\ Insert(work[w].conn, KeyOf(m))
        /\ work' = [work EXCEPT ![w].pc = AfterRow(w, m),
                                ![w].todo = @ \ {m}, ![w].fresh = @ \cup {m}]
        /\ lost' = lost /\ acked' = acked /\ faults' = faults
  BY Zenon DEF ClaimFresh, Claiming
<1> DEFINE c == work[w].conn  k == KeyOf(m)  p == work[w]  t == tx[c]
<1>2. /\ work \in [Workers -> Work] /\ p \in Work /\ c \in Conns /\ c # NoConn
      /\ tx \in [Conns -> Tx] /\ t \in Tx /\ t.st = "open" /\ c \notin lost
      /\ p.unit \in Units /\ UnitInv(p, t, rows)
      /\ t.ins \cup t.spIns \subseteq t.lck /\ (t.ins \cup t.spIns) \cap rows = {}
  BY <1>1, AtTx, Zenon DEF InTx
<1>3. Holds(p, t, rows) /\ m \in p.todo
  BY <1>1, <1>2, Zenon DEF UnitInv, IsNext
<1>4. InsertRow(c, k) /\ k \in Key /\ k \notin rows \cup t.ins /\ ~Blocked(c, k)
      /\ rows' = rows /\ applied' = applied
  BY <1>1, <1>2, KeyOfType, Zenon DEF Insert, InsertRow
<1>5. PICK u \in Tx :
        /\ tx' = [tx EXCEPT ![c] = u]
        /\ u.st = t.st /\ u.ins = t.ins \cup {k} /\ u.lck = t.lck \cup {k}
        /\ u.eff = t.eff /\ u.spIns = t.spIns
  <2> HIDE DEF c, k
  <2>1. \E u \in Tx :
          /\ tx' = [tx EXCEPT ![c] = u]
          /\ u.st = tx[c].st /\ u.ins = tx[c].ins \cup {k} /\ u.lck = tx[c].lck \cup {k}
          /\ u.eff = tx[c].eff /\ u.sp = tx[c].sp /\ u.spIns = tx[c].spIns
    BY <1>2, <1>4, InsertRowTx, Zenon
  <2> QED
    BY <2>1, Zenon
<1> DEFINE q == [p EXCEPT !.pc = AfterRow(w, m), !.todo = @ \ {m}, !.fresh = @ \cup {m}]
<1>6. /\ q \in Work /\ q.pc = AfterRow(w, m) /\ q.conn = c /\ q.unit = p.unit /\ q.at = p.at
      /\ q.todo = p.todo \ {m} /\ q.fresh = p.fresh \cup {m}
  BY <1>2, Zenon DEF Work, AfterRow, InTx
<1>7. q.pc \in {"claim", "effects"} /\ (q.pc # "claim" => q.todo = {})
  BY <1>6, Zenon DEF AfterRow
<1>8. Holds(q, u, rows)
  <2> HIDE DEF q, k, p, t
  <2>1. Keys(Claimed(q)) = Keys(Claimed(p)) \cup {k}
    BY <1>3, <1>6, ClaimedNext DEF Holds, k
  <2>2. Keys(q.fresh) = Keys(p.fresh) \cup {k}
    BY <1>6, Zenon DEF Keys, k
  <2>3. u.ins \ Keys(q.fresh) = t.ins \ Keys(p.fresh)
    BY <1>4, <1>5, <2>2, Zenon
  <2>4. q.at = 1 => \A l \in u.lck : \A n \in q.todo : l[2] < n
    <3>1. u.lck \subseteq t.lck \cup {KeyOf(m)}
      BY <1>5, Zenon DEF k
    <3> QED
      BY <1>1, <1>2, <1>3, <1>6, <3>1, LocksBeforeTodo, Zenon DEF p, t
  <2> QED
    BY <1>3, <1>5, <1>6, <1>7, <2>1, <2>2, <2>3, <2>4, Zenon DEF Holds
<1>9. UnitInv(q, u, rows)
  <2> HIDE DEF q, p
  <2> QED
    BY <1>2, <1>6, <1>7, <1>8, Zenon DEF UnitInv
<1>10. /\ work[w].pc \in InTx /\ q.pc \in InTx /\ u.st = "open"
       /\ work' = [work EXCEPT ![w] = q] /\ faults' \in 0..MaxFaults
  BY <1>1, <1>2, <1>5, <1>7, Zenon DEF InTx, IInv, TypeOK
<1>11. /\ \A l \in u.lck \ tx[q.conn].lck : ~Blocked(q.conn, l)
       /\ u.ins \cup u.spIns \subseteq u.lck /\ (u.ins \cup u.spIns) \cap rows = {}
       /\ q.conn = work[w].conn /\ (q.conn \in lost => q.pc = "contended")
       /\ tx' = [tx EXCEPT ![work[w].conn] = u]
  BY <1>2, <1>4, <1>5, <1>6, Zenon
<1> HIDE DEF q, k, c, p, t
<1> QED
  BY <1>1, <1>4, <1>6, <1>9, <1>10, <1>11, StatementStep, Zenon

\* A claim answers Duplicate: the transaction changes by a lock at most.
LEMMA ClaimDuplicateIInv ==
  ASSUME IInv, NEW w \in Workers, ClaimDuplicate(w)
  PROVE  IInv'
<1>1. PICK m \in Messages :
        /\ work[w].pc = "claim" /\ IsNext(w, m) /\ Hit(work[w].conn, KeyOf(m), Many(w))
        /\ work' = [work EXCEPT ![w].pc = AfterRow(w, m), ![w].todo = @ \ {m}]
        /\ lost' = lost /\ acked' = acked /\ faults' = faults
  BY Zenon DEF ClaimDuplicate, Claiming
<1> DEFINE c == work[w].conn  k == KeyOf(m)  p == work[w]  t == tx[c]
<1>2. /\ work \in [Workers -> Work] /\ p \in Work /\ c \in Conns /\ c # NoConn
      /\ tx \in [Conns -> Tx] /\ t \in Tx /\ t.st = "open" /\ c \notin lost
      /\ p.unit \in Units /\ UnitInv(p, t, rows)
      /\ t.ins \cup t.spIns \subseteq t.lck /\ (t.ins \cup t.spIns) \cap rows = {}
  BY <1>1, AtTx, Zenon DEF InTx
<1>3. Holds(p, t, rows) /\ m \in p.todo
  BY <1>1, <1>2, Zenon DEF UnitInv, IsNext
<1>4. HitRow(c, k, Many(w)) /\ k \in Key /\ k \in rows \cup t.ins /\ ~Blocked(c, k)
      /\ rows' = rows /\ applied' = applied
  BY <1>1, <1>2, KeyOfType, Zenon DEF Hit, HitRow
<1>5. PICK u \in Tx :
        /\ tx' = [tx EXCEPT ![c] = u]
        /\ u.st = t.st /\ u.ins = t.ins /\ u.eff = t.eff /\ u.spIns = t.spIns
        /\ u.lck \subseteq t.lck \cup {k} /\ t.lck \subseteq u.lck
  BY <1>2, <1>4, HitRowTx, Zenon
<1> DEFINE q == [p EXCEPT !.pc = AfterRow(w, m), !.todo = @ \ {m}]
<1>6. /\ q \in Work /\ q.pc = AfterRow(w, m) /\ q.conn = c /\ q.unit = p.unit /\ q.at = p.at
      /\ q.todo = p.todo \ {m} /\ q.fresh = p.fresh
  BY <1>2, Zenon DEF Work, AfterRow, InTx
<1>7. q.pc \in {"claim", "effects"} /\ (q.pc # "claim" => q.todo = {})
  BY <1>6, Zenon DEF AfterRow
<1>8. Holds(q, u, rows)
  <2> HIDE DEF q, k, p, t
  <2>1. Keys(Claimed(q)) = Keys(Claimed(p)) \cup {k}
    BY <1>3, <1>6, ClaimedNext DEF Holds, k
  <2>2. q.at = 1 => \A l \in u.lck : \A n \in q.todo : l[2] < n
    <3>1. u.lck \subseteq t.lck \cup {KeyOf(m)}
      BY <1>5, Zenon DEF k
    <3> QED
      BY <1>1, <1>2, <1>3, <1>6, <3>1, LocksBeforeTodo, Zenon DEF p, t
  <2> QED
    BY <1>3, <1>4, <1>5, <1>6, <1>7, <2>1, <2>2, Zenon DEF Holds
<1>9. UnitInv(q, u, rows)
  <2> HIDE DEF q, p
  <2> QED
    BY <1>2, <1>6, <1>7, <1>8, Zenon DEF UnitInv
<1>10. /\ work[w].pc \in InTx /\ q.pc \in InTx /\ u.st = "open"
       /\ work' = [work EXCEPT ![w] = q] /\ faults' \in 0..MaxFaults
  BY <1>1, <1>2, <1>5, <1>7, Zenon DEF InTx, IInv, TypeOK
<1>11. /\ \A l \in u.lck \ tx[q.conn].lck : ~Blocked(q.conn, l)
       /\ u.ins \cup u.spIns \subseteq u.lck /\ (u.ins \cup u.spIns) \cap rows = {}
       /\ q.conn = work[w].conn /\ (q.conn \in lost => q.pc = "contended")
       /\ tx' = [tx EXCEPT ![work[w].conn] = u]
  BY <1>2, <1>4, <1>5, <1>6, Zenon
<1> HIDE DEF q, k, c, p, t
<1> QED
  BY <1>1, <1>4, <1>6, <1>9, <1>10, <1>11, StatementStep, Zenon

\* The effect of a Fresh id is written: it was still to be written.
LEMMA ApplyEffectIInv ==
  ASSUME IInv, NEW w \in Workers, ApplyEffect(w)
  PROVE  IInv'
<1>1. PICK m \in work[w].fresh :
        /\ work[w].pc = "effects" /\ Write(work[w].conn, KeyOf(m))
        /\ work' = [work EXCEPT ![w].fresh = @ \ {m}]
        /\ lost' = lost /\ acked' = acked /\ faults' = faults
  BY Zenon DEF ApplyEffect
<1> DEFINE c == work[w].conn  k == KeyOf(m)  p == work[w]  t == tx[c]
<1>2. /\ work \in [Workers -> Work] /\ p \in Work /\ c \in Conns /\ c # NoConn
      /\ tx \in [Conns -> Tx] /\ t \in Tx /\ t.st = "open" /\ c \notin lost
      /\ p.unit \in Units /\ UnitInv(p, t, rows)
      /\ t.ins \cup t.spIns \subseteq t.lck /\ (t.ins \cup t.spIns) \cap rows = {}
  BY <1>1, AtTx, Zenon DEF InTx
<1>3. Holds(p, t, rows) /\ m \in Messages /\ k \in Key
  BY <1>1, <1>2, KeyOfType, Zenon DEF UnitInv, Work
<1>4. WriteEffect(c, k) /\ rows' = rows /\ applied' = applied
  BY <1>1, <1>2, Zenon DEF Write, WriteEffect
<1>5. PICK u \in Tx :
        /\ tx' = [tx EXCEPT ![c] = u]
        /\ u.st = t.st /\ u.ins = t.ins /\ u.lck = t.lck
        /\ u.eff = [t.eff EXCEPT ![k] = @ + 1]
        /\ u.sp = t.sp /\ u.spIns = t.spIns /\ u.spEff = t.spEff
  <2> HIDE DEF c, k, p
  <2> QED
    BY <1>2, <1>3, <1>4, WriteEffectTx, ZenonT(30)
<1> DEFINE q == [p EXCEPT !.fresh = @ \ {m}]
<1>6. /\ q \in Work /\ q.pc = "effects" /\ q.conn = c /\ q.unit = p.unit /\ q.at = p.at
      /\ q.todo = p.todo /\ q.fresh = p.fresh \ {m}
  BY <1>1, <1>2, Zenon DEF Work
<1>7. Holds(q, u, rows)
  <2> HIDE DEF q, p, t
  <2>1. Claimed(q) = Claimed(p)
    BY <1>6, Zenon DEF Claimed
  <2>2. Keys(q.fresh) = Keys(p.fresh) \ {k} /\ k \in Keys(p.fresh)
    BY <1>1, <1>6, KeyOfInjective DEF Keys, p
  <2> HIDE DEF k
  <2>3. u.ins \ Keys(q.fresh) = (t.ins \ Keys(p.fresh)) \cup {k}
    BY <1>3, <1>5, <2>2, Zenon DEF Holds
  <2>4. u.eff = OneEach(u.ins \ Keys(q.fresh))
    <3> DEFINE K == t.ins \ Keys(p.fresh)
    <3>1. K \in SUBSET Key /\ k \notin K
      BY <1>2, <2>2, Zenon DEF Tx
    <3>2. t.eff = OneEach(K)
      BY <1>3, Zenon DEF Holds
    <3> HIDE DEF K
    <3>3. [OneEach(K) EXCEPT ![k] = @ + 1] = OneEach(K \cup {k})
      BY <1>3, <3>1, OneEachNext, Zenon
    <3> QED
      BY <1>5, <2>3, <3>2, <3>3, Zenon DEF K
  <2> QED
    BY <1>1, <1>3, <1>5, <1>6, <2>1, <2>2, <2>4, Zenon DEF Holds, p
<1>8. UnitInv(q, u, rows)
  <2> HIDE DEF q, p
  <2> QED
    BY <1>2, <1>6, <1>7, Zenon DEF UnitInv
<1>9. /\ work[w].pc \in InTx /\ q.pc \in InTx /\ u.st = "open"
      /\ work' = [work EXCEPT ![w] = q] /\ faults' \in 0..MaxFaults
  BY <1>1, <1>2, <1>5, <1>6, Zenon DEF InTx, IInv, TypeOK
<1>10. /\ \A l \in u.lck \ tx[q.conn].lck : ~Blocked(q.conn, l)
       /\ u.ins \cup u.spIns \subseteq u.lck /\ (u.ins \cup u.spIns) \cap rows = {}
       /\ q.conn = work[w].conn /\ (q.conn \in lost => q.pc = "contended")
       /\ tx' = [tx EXCEPT ![work[w].conn] = u]
  BY <1>2, <1>5, <1>6, Zenon
<1> HIDE DEF q, k, c, p, t
<1> QED
  BY <1>1, <1>4, <1>6, <1>8, <1>9, <1>10, StatementStep, Zenon

\* On to the next statement of the unit, or to its commit.
LEMMA NextSliceIInv ==
  ASSUME IInv, NEW w \in Workers, NextSlice(w)
  PROVE  IInv'
<1> DEFINE c == work[w].conn  p == work[w]  t == tx[c]
<1>1. /\ p.pc = "effects" /\ p.fresh = {} /\ UNCHANGED <<storeVars, lost, acked, faults>>
  BY Zenon DEF NextSlice
<1>2. /\ work \in [Workers -> Work] /\ p \in Work /\ c \in Conns /\ c # NoConn
      /\ tx \in [Conns -> Tx] /\ t \in Tx /\ t.st = "open" /\ c \notin lost
      /\ p.unit \in Units /\ UnitInv(p, t, rows)
      /\ t.ins \cup t.spIns \subseteq t.lck /\ (t.ins \cup t.spIns) \cap rows = {}
  BY <1>1, AtTx, Zenon DEF InTx
<1>3. /\ Holds(p, t, rows) /\ p.todo = {} /\ p.at \in 1..Len(p.unit) /\ Len(p.unit) \in Nat
      /\ \A i \in 1..Len(p.unit) : Ids(p.unit[i]) \subseteq Messages
  BY <1>1, <1>2, SliceType, Zenon DEF UnitInv, Holds
<1>4. PICK q \in Work :
        /\ work' = [work EXCEPT ![w] = q] /\ q.conn = c /\ q.pc \in InTx
        /\ UnitInv(q, t, rows)
  <2>1. CASE p.at < Len(p.unit)
    <3> DEFINE n == p.at + 1
               S == Ids(p.unit[n])
               q == [p EXCEPT !.pc = "claim", !.at = n, !.todo = S]
    <3>1. work' = [work EXCEPT ![w] = q]
      BY <2>1, Zenon DEF NextSlice
    <3>2. n \in 1..Len(p.unit) /\ n \in Nat \ {0} /\ S \in SUBSET Messages
      BY <1>3, <2>1
    <3>3. /\ q \in Work /\ q.pc = "claim" /\ q.conn = c /\ q.unit = p.unit /\ q.at = n
          /\ q.todo = S /\ q.fresh = {}
      <4> HIDE DEF S, n
      <4> QED
        BY <1>1, <1>2, <3>2, Zenon DEF Work, InTx
    <3>4. Claimed(q) = Claimed(p)
      <4> HIDE DEF q, p
      <4>1. 1..(q.at - 1) = 1..(p.at - 1) \cup {p.at}
        BY <1>3, <3>3
      <4>2. Claimed(q) = UNION {Ids(q.unit[i]) : i \in 1..(q.at - 1)}
        BY <3>3, Zenon DEF Claimed
      <4>3. Claimed(p) = (UNION {Ids(p.unit[i]) : i \in 1..(p.at - 1)}) \cup Ids(p.unit[p.at])
        BY <1>3, Zenon DEF Claimed
      <4> QED
        BY <3>3, <4>1, <4>2, <4>3
    <3>5. Holds(q, t, rows)
      <4>1. n # 1
        <5> HIDE DEF p
        <5> QED
          BY <1>3
      <4>2. DOMAIN p.unit = 1..Len(p.unit)
        BY <1>2, SliceType, Zenon
      <4> HIDE DEF q, p, t, n
      <4>3. q.at \in DOMAIN q.unit /\ q.at # 1
        BY <3>2, <3>3, <4>1, <4>2, Zenon
      <4> QED
        BY <1>1, <1>3, <3>3, <3>4, <4>3, Zenon DEF Holds
    <3>6. UnitInv(q, t, rows)
      <4> HIDE DEF q, p
      <4> QED
        BY <1>2, <3>3, <3>5, Zenon DEF UnitInv
    <3> HIDE DEF q
    <3> QED
      BY <3>1, <3>3, <3>6, Zenon DEF InTx
  <2>2. CASE ~(p.at < Len(p.unit))
    <3> DEFINE q == [p EXCEPT !.pc = "commit"]
    <3>1. work' = [work EXCEPT ![w] = q]
      BY <2>2, Zenon DEF NextSlice
    <3>2. /\ q \in Work /\ q.pc = "commit" /\ q.conn = c /\ q.unit = p.unit /\ q.at = p.at
          /\ q.todo = {} /\ q.fresh = {}
      BY <1>1, <1>2, <1>3, Zenon DEF Work, InTx
    <3>3. p.at = Len(p.unit)
      BY <1>3, <2>2
    <3>4. UnitInv(q, t, rows)
      <4> HIDE DEF q, p
      <4>1. Claimed(q) = Claimed(p)
        BY <1>3, <3>2, Zenon DEF Claimed
      <4>2. Holds(q, t, rows)
        BY <1>1, <1>3, <3>2, <4>1, Zenon DEF Holds
      <4> QED
        BY <1>2, <3>2, <3>3, <4>2, Zenon DEF UnitInv
    <3> HIDE DEF q
    <3> QED
      BY <3>1, <3>2, <3>4, Zenon DEF InTx
  <2> QED
    BY <2>1, <2>2, Zenon
<1>5. /\ work[w].pc \in InTx /\ faults' \in 0..MaxFaults /\ lost' = lost /\ acked' = acked
      /\ rows' = rows /\ applied' = applied /\ tx' = [tx EXCEPT ![work[w].conn] = t]
  BY <1>1, <1>2, Zenon DEF InTx, IInv, TypeOK, storeVars
<1>6. /\ \A l \in t.lck \ tx[q.conn].lck : ~Blocked(q.conn, l)
      /\ q.conn = work[w].conn /\ (q.conn \in lost => q.pc = "contended")
  BY <1>2, <1>4, Zenon
<1> HIDE DEF c, p, t
<1> QED
  BY <1>2, <1>4, <1>5, <1>6, StatementStep, Zenon

-----------------------------------------------------------------------------
(* Commit.                                                                 *)

\* A unit about to commit has inserted every row of its slices that was not there,
\* and written the effect of each of these.
LEMMA AtCommit ==
  ASSUME IInv, NEW w \in Workers, work[w].pc = "commit"
  PROVE  LET t == tx[work[w].conn]
         IN /\ t.ins \subseteq KeysOf(work[w].unit)
            /\ KeysOf(work[w].unit) \subseteq rows \cup t.ins
            /\ t.eff = OneEach(t.ins)
<1> DEFINE p == work[w]  t == tx[p.conn]
<1>1. p \in Work /\ p.unit \in Units /\ UnitInv(p, t, rows)
  BY AtTx, Zenon DEF InTx
<1>2. Holds(p, t, rows) /\ p.todo = {} /\ p.fresh = {} /\ p.at = Len(p.unit)
  BY <1>1, Zenon DEF UnitInv, Holds
<1>3. Len(p.unit) \in Nat \ {0} /\ DOMAIN p.unit = 1..Len(p.unit)
  BY <1>1, SliceType, Zenon
<1> HIDE DEF p, t
<1>4. Claimed(p) = UNION {Ids(p.unit[i]) : i \in DOMAIN p.unit}
  <2>1. 1..Len(p.unit) = 1..(p.at - 1) \cup {p.at}
    BY <1>2, <1>3
  <2>2. Claimed(p) = (UNION {Ids(p.unit[i]) : i \in 1..(p.at - 1)}) \cup Ids(p.unit[p.at])
    BY <1>2, Zenon DEF Claimed
  <2> QED
    BY <1>3, <2>1, <2>2, Zenon
<1>5. Keys(Claimed(p)) = KeysOf(p.unit)
  BY <1>4, Zenon DEF Keys, KeysOf
<1>6. t.ins \ Keys(p.fresh) = t.ins
  BY <1>2, Zenon DEF Keys
<1> QED
  BY <1>2, <1>5, <1>6, Zenon DEF Holds, p, t

\* Committing it adds exactly the unit's rows, and one effect for each new row.
LEMMA CommitKeepsEffectIffRow ==
  ASSUME IInv, NEW w \in Workers, work[w].pc = "commit", Commit(work[w].conn)
  PROVE  /\ rows' = rows \cup KeysOf(work[w].unit)
         /\ applied' \in [Key -> Nat] /\ EffectIffRow'
<1> DEFINE t == tx[work[w].conn]
<1>1. /\ t \in Tx /\ t.ins \cap rows = {} /\ applied \in [Key -> Nat]
  BY AtTx, Zenon DEF InTx, IInv, TypeOK, StoreTypeOK
<1>2. /\ t.ins \subseteq KeysOf(work[w].unit) /\ KeysOf(work[w].unit) \subseteq rows \cup t.ins
      /\ t.eff = OneEach(t.ins)
  BY AtCommit, Zenon
<1>3. /\ rows' = rows \cup t.ins
      /\ applied' = [k \in Key |-> applied[k] + t.eff[k]]
  BY Zenon DEF Commit
<1>4. applied' \in [Key -> Nat]
  <2>1. t.eff \in [Key -> Nat]
    BY <1>1, Zenon DEF Tx
  <2>2. ASSUME NEW k \in Key PROVE applied[k] + t.eff[k] \in Nat
    <3>1. applied[k] \in Nat /\ t.eff[k] \in Nat
      BY <1>1, <2>1, Zenon
    <3> HIDE DEF t
    <3> QED
      BY <3>1
  <2> QED
    BY <1>3, <2>2, Zenon
<1>5. EffectIffRow'
  <2> SUFFICES ASSUME NEW k \in Key PROVE applied'[k] = IF k \in rows' THEN 1 ELSE 0
    BY Zenon DEF EffectIffRow
  <2>1. applied[k] = IF k \in rows THEN 1 ELSE 0
    BY Zenon DEF IInv, EffectIffRow
  <2>2. t.eff[k] = IF k \in t.ins THEN 1 ELSE 0
    BY <1>2, Zenon DEF OneEach
  <2>3. applied'[k] = applied[k] + t.eff[k]
    BY <1>3, Zenon
  <2> HIDE DEF t
  <2> QED
    BY <1>1, <1>3, <2>1, <2>2, <2>3
<1> QED
  BY <1>2, <1>3, <1>4, <1>5, Zenon

\* A commit step, of which the caller hears or not.
LEMMA CommitStep ==
  ASSUME IInv, NEW w \in Workers, work[w].pc = "commit", NEW q \in Work,
         work' = [work EXCEPT ![w] = q], Commit(work[w].conn),
         lost' = lost \ {work[w].conn}, acked' = acked, faults' \in 0..MaxFaults,
         q.conn = NoConn, q.pc \notin InTx, UnitInv(q, EmptyTx("idle"), rows')
  PROVE  IInv'
<1>1. PICK c \in Conns : c = work[w].conn /\ c # NoConn
  BY AtTx, Zenon DEF InTx
<1> DEFINE u == EmptyTx("idle")
<1>2. u \in Tx /\ u.st = "idle" /\ u.ins = {} /\ u.spIns = {} /\ u.lck = {}
  BY EmptyTxType, Zenon DEF EmptyTx
<1>3. tx' = [tx EXCEPT ![c] = u] /\ rows' = rows \cup tx[c].ins
  BY <1>1, Zenon DEF Commit
<1>4. applied' \in [Key -> Nat] /\ EffectIffRow'
  BY CommitKeepsEffectIffRow, Zenon
<1> HIDE DEF u
<1>5. UnitStep(w, c, q, u)
  BY <1>1, <1>2, <1>3, Zenon DEF UnitStep
<1>6. /\ \A k \in u.lck \ tx[c].lck : ~Blocked(c, k)
      /\ u.ins \cup u.spIns \subseteq u.lck /\ (u.ins \cup u.spIns) \cap rows' = {}
      /\ rows \subseteq rows' /\ rows' \subseteq rows \cup tx[c].ins
      /\ UnitInv(q, u, rows')
  BY <1>2, <1>3, Zenon DEF u
<1> QED
  BY <1>2, <1>4, <1>5, <1>6, UnitStepIInv, Zenon

\* commit returns: every id of the unit has its row.
LEMMA CommitUnitIInv ==
  ASSUME IInv, NEW w \in Workers, CommitUnit(w)
  PROVE  IInv'
<1> DEFINE p == work[w]
           q == [p EXCEPT !.pc = "done", !.conn = NoConn]
<1>1. /\ p.pc = "commit" /\ Commit(work[w].conn) /\ lost' = lost \ {work[w].conn}
      /\ work' = [work EXCEPT ![w] = q] /\ acked' = acked /\ faults' = faults
  BY Zenon DEF CommitUnit
<1>2. p \in Work /\ p.unit \in Units /\ faults \in 0..MaxFaults
  BY <1>1, AtTx, Zenon DEF InTx, IInv, TypeOK
<1>3. q \in Work /\ q.pc = "done" /\ q.conn = NoConn /\ q.unit = p.unit
  BY <1>2, Zenon DEF Work
<1>4. KeysOf(q.unit) \subseteq rows'
  BY <1>1, <1>3, CommitKeepsEffectIffRow, Zenon
<1> HIDE DEF q
<1>5. UnitInv(q, EmptyTx("idle"), rows') /\ q.pc \notin InTx
  BY <1>2, <1>3, <1>4, Zenon DEF UnitInv, InTx
<1> QED
  BY <1>1, <1>2, <1>3, <1>5, CommitStep, Zenon

\* The commit's answer is lost: the rows are there, and the caller starts over.
LEMMA CommitAnswerLostIInv ==
  ASSUME IInv, NEW w \in Workers, CommitAnswerLost(w)
  PROVE  IInv'
<1>1. /\ work[w].pc = "commit" /\ Commit(work[w].conn) /\ lost' = lost \ {work[w].conn}
      /\ work' = [work EXCEPT ![w] = NewWork("idle", <<>>)] /\ acked' = acked
      /\ faults' \in 0..MaxFaults
  BY ManualAssumption DEF CommitAnswerLost, Fault, IInv, TypeOK
<1>2. /\ NewWork("idle", <<>>) \in Work /\ NewWork("idle", <<>>).conn = NoConn
      /\ NewWork("idle", <<>>).pc \notin InTx
  BY NewWorkType, Zenon DEF InTx
<1>3. UnitInv(NewWork("idle", <<>>), EmptyTx("idle"), rows')
  BY NewWorkInv, Zenon
<1> QED
  BY <1>1, <1>2, <1>3, CommitStep, Zenon

\* The broker's offsets move over ids that have their rows.
LEMMA AckUnitIInv ==
  ASSUME IInv, NEW w \in Workers, AckUnit(w)
  PROVE  IInv'
<1>1. /\ work[w].pc = "done" /\ acked' = acked \cup KeysOf(work[w].unit)
      /\ work' = [work EXCEPT ![w] = NewWork("idle", <<>>)]
      /\ UNCHANGED <<storeVars, lost>> /\ faults' \in 0..MaxFaults
  BY Zenon DEF AckUnit, IInv, TypeOK
<1>2. /\ work[w].conn = NoConn /\ UnitInv(work[w], tx[work[w].conn], rows)
  BY <1>1, Zenon DEF IInv, ConnInv, InTx
<1>3. acked' \subseteq rows
  BY <1>1, <1>2, Zenon DEF UnitInv, IInv
<1>4. /\ NewWork("idle", <<>>) \in Work /\ NewWork("idle", <<>>).conn = NoConn
      /\ NewWork("idle", <<>>).pc \notin InTx
  BY NewWorkType, Zenon DEF InTx
<1>5. UnitInv(NewWork("idle", <<>>), tx[NoConn], rows)
  BY NewWorkInv, Zenon
<1> QED
  BY <1>1, <1>2, <1>3, <1>4, <1>5, LocalStep, Zenon

-----------------------------------------------------------------------------
(* Contention, faults, and the pool.                                       *)

\* A caller whose claim lost its wait knows: whatever the server has undone, the
\* transaction is only rolled back or dropped from here.
LEMMA ContendedStep ==
  ASSUME IInv, NEW w \in Workers, work[w].pc \in InTx, NEW u \in Tx,
         work' = [work EXCEPT ![w].pc = "contended"],
         tx' = [tx EXCEPT ![work[w].conn] = u], u.st = "open",
         u.lck \subseteq tx[work[w].conn].lck,
         u.ins \cup u.spIns \subseteq u.lck, (u.ins \cup u.spIns) \cap rows = {},
         lost' = lost \/ lost' = lost \cup {work[w].conn},
         rows' = rows, applied' = applied, acked' = acked, faults' \in 0..MaxFaults
  PROVE  IInv'
<1> DEFINE p == work[w]
           q == [p EXCEPT !.pc = "contended"]
<1>1. p \in Work /\ p.unit \in Units
  BY AtTx, Zenon
<1>2. q \in Work /\ q.pc = "contended" /\ q.conn = work[w].conn /\ q.unit = p.unit
  BY <1>1, Zenon DEF Work, InTx
<1>3. work' = [work EXCEPT ![w] = q]
  BY Zenon
<1> HIDE DEF q
<1>4. UnitInv(q, u, rows)
  BY <1>1, <1>2, Zenon DEF UnitInv
<1>5. q.pc \in InTx /\ \A k \in u.lck \ tx[q.conn].lck : ~Blocked(q.conn, k)
  BY <1>2, Zenon DEF InTx
<1> QED
  BY <1>2, <1>3, <1>4, <1>5, StatementStep, Zenon

\* The server ends the transaction under the caller.
LEMMA ServerEnds ==
  ASSUME IInv, NEW w \in Workers, work[w].pc \in InTx,
         work' = [work EXCEPT ![w].pc = "contended"],
         tx' = [tx EXCEPT ![work[w].conn] = EmptyTx("open")],
         lost' = lost \cup {work[w].conn},
         rows' = rows, applied' = applied, acked' = acked, faults' \in 0..MaxFaults
  PROVE  IInv'
<1>1. /\ EmptyTx("open") \in Tx /\ EmptyTx("open").st = "open" /\ EmptyTx("open").lck = {}
      /\ EmptyTx("open").ins = {} /\ EmptyTx("open").spIns = {}
  BY EmptyTxType, Zenon DEF EmptyTx
<1>2. /\ EmptyTx("open").lck \subseteq tx[work[w].conn].lck
      /\ EmptyTx("open").ins \cup EmptyTx("open").spIns \subseteq EmptyTx("open").lck
      /\ (EmptyTx("open").ins \cup EmptyTx("open").spIns) \cap rows = {}
  BY <1>1, Zenon
<1> QED
  BY <1>1, <1>2, ContendedStep, Zenon

\* A lock wait times out: PostgreSQL ends the transaction, the others undo the
\* statement and keep its locks.
LEMMA LockTimeoutIInv ==
  ASSUME IInv, NEW w \in Workers, LockTimeout(w)
  PROVE  IInv'
<1>1. /\ work[w].pc \in InTx /\ work' = [work EXCEPT ![w].pc = "contended"]
      /\ rows' = rows /\ applied' = applied /\ acked' = acked /\ faults' \in 0..MaxFaults
  BY ManualAssumption DEF LockTimeout, Waits, Claiming, InTx, Fault, IInv, TypeOK
<1>2. CASE Backend = "postgres"
  BY <1>1, <1>2, ServerEnds, Zenon DEF LockTimeout
<1>3. CASE Backend # "postgres"
  <2> DEFINE c == work[w].conn  t == tx[c]
             u == [t EXCEPT !.ins = @ \ {KeyOf(m) : m \in work[w].fresh}]
  <2>1. t \in Tx /\ t.st = "open" /\ t.ins \cup t.spIns \subseteq t.lck
        /\ (t.ins \cup t.spIns) \cap rows = {}
    BY <1>1, AtTx, Zenon
  <2>2. u \in Tx
    BY <2>1, Zenon DEF Tx
  <2>3. /\ u.st = t.st /\ u.lck = t.lck /\ u.spIns = t.spIns
        /\ u.ins \subseteq t.ins
    BY <2>1, Zenon DEF Tx
  <2>4. tx' = [tx EXCEPT ![work[w].conn] = u] /\ lost' = lost
    BY <1>3, Zenon DEF LockTimeout
  <2> HIDE DEF u
  <2>5. /\ u.st = "open" /\ u.lck \subseteq tx[work[w].conn].lck
        /\ u.ins \cup u.spIns \subseteq u.lck /\ (u.ins \cup u.spIns) \cap rows = {}
    BY <2>1, <2>3, Zenon
  <2> QED
    BY <1>1, <2>2, <2>4, <2>5, ContendedStep, Zenon
<1> QED
  BY <1>2, <1>3, Zenon

\* Who is in a circle of waits is in a claim statement; the server ends the
\* transaction of one of them.
LEMMA DeadlockVictimIInv ==
  ASSUME IInv, NEW w \in Workers, DeadlockVictim(w)
  PROVE  IInv'
<1>1. work[w].pc \in InTx
  BY Zenon DEF DeadlockVictim, Cycle, WaitsFor, Claiming, InTx
<1>2. faults' \in 0..MaxFaults
  BY Zenon DEF DeadlockVictim, IInv, TypeOK
<1> QED
  BY <1>1, <1>2, ServerEnds, Zenon DEF DeadlockVictim

\* The whole unit again, in a new transaction.
LEMMA RollbackAndRetryIInv ==
  ASSUME IInv, NEW w \in Workers, RollbackAndRetry(w)
  PROVE  IInv'
<1>1. work[w].pc \in InTx /\ faults' \in 0..MaxFaults
  BY Zenon DEF RollbackAndRetry, InTx, IInv, TypeOK
<1>2. work[w].unit \in Units
  BY <1>1, AtTx, Zenon
<1> QED
  BY <1>1, <1>2, GiveUp, Zenon DEF RollbackAndRetry

\* The caller fails: its transaction, if it has one, is dropped.
LEMMA UnitFailsIInv ==
  ASSUME IInv, NEW w \in Workers, UnitFails(w)
  PROVE  IInv'
<1>1. /\ work' = [work EXCEPT ![w] = NewWork("idle", <<>>)] /\ lost' = lost
      /\ acked' = acked /\ acked \subseteq rows /\ faults' \in 0..MaxFaults
  BY ManualAssumption DEF UnitFails, Fault, IInv, TypeOK
<1>2. CASE work[w].conn = NoConn
  <2>1. /\ NewWork("idle", <<>>) \in Work /\ NewWork("idle", <<>>).conn = NoConn
        /\ NewWork("idle", <<>>).pc \notin InTx
    BY NewWorkType, Zenon DEF InTx
  <2>2. UnitInv(NewWork("idle", <<>>), tx[NoConn], rows)
    BY NewWorkInv, Zenon
  <2>3. UNCHANGED <<storeVars, lost>>
    BY <1>1, <1>2, Zenon DEF UnitFails
  <2> QED
    BY <1>1, <1>2, <2>1, <2>2, <2>3, LocalStep, Zenon
<1>3. CASE work[w].conn # NoConn
  <2>1. work[w].pc \in InTx /\ Drop(work[w].conn)
    BY <1>3, Zenon DEF UnitFails, IInv, ConnInv
  <2> QED
    BY <1>1, <2>1, GiveUp, Zenon
<1> QED
  BY <1>2, <1>3, Zenon

\* The caller abandons the unit.
LEMMA AbandonUnitIInv ==
  ASSUME IInv, NEW w \in Workers, AbandonUnit(w)
  PROVE  IInv'
<1>1. /\ work[w].pc \in InTx /\ work[w].pc # "contended" /\ Rollback(work[w].conn)
      /\ work' = [work EXCEPT ![w] = NewWork("idle", <<>>)] /\ lost' = lost
      /\ acked' = acked /\ faults' \in 0..MaxFaults
  BY ManualAssumption DEF AbandonUnit, Fault, InTx, IInv, TypeOK
<1>2. lost' = lost \ {work[w].conn}
  BY <1>1, AtTx, Zenon
<1> QED
  BY <1>1, <1>2, GiveUp, Zenon

\* The queued rollback runs: nobody has the connection.
LEMMA PoolRollbackIInv ==
  ASSUME IInv, NEW c \in Conns, PoolRollback(c)
  PROVE  IInv'
<1>1. /\ tx[c].st = "dropped" /\ tx' = [tx EXCEPT ![c] = EmptyTx("idle")]
      /\ rows' = rows /\ applied' = applied /\ lost' = lost \ {c}
      /\ work' = work /\ acked' = acked /\ faults' = faults
  BY Zenon DEF PoolRollback, RollbackDropped
<1>2. /\ work \in [Workers -> Work] /\ tx \in [Conns -> Tx]
  BY Zenon DEF IInv, TypeOK, StoreTypeOK
<1>3. /\ EmptyTx("idle") \in Tx /\ EmptyTx("idle").lck = {} /\ EmptyTx("idle").ins = {}
      /\ EmptyTx("idle").spIns = {}
  BY EmptyTxType, Zenon DEF EmptyTx
<1>4. \A v \in Workers : work[v].conn # c
  BY <1>1, ManualAssumption, Zenon DEF IInv, ConnInv
<1>5. /\ tx'[c] = EmptyTx("idle") /\ tx' \in [Conns -> Tx] /\ \A d : d # c => tx'[d] = tx[d]
  BY <1>1, <1>2, <1>3
<1>6. TypeOK'
  BY <1>1, <1>5, Zenon DEF IInv, TypeOK, StoreTypeOK
<1>7. ConnInv'
  BY <1>1, <1>4, <1>5 DEF IInv, ConnInv
<1>8. LockInv'
  <2>1. LockInv /\ \A k \in {} : ~Blocked(c, k)
    BY Zenon DEF IInv
  <2>2. /\ \A d \in Conns \ {c} : tx'[d] = tx[d]
        /\ rows' \subseteq rows \cup tx[c].ins /\ tx'[c].lck \subseteq tx[c].lck \cup {}
        /\ tx'[c].ins \cup tx'[c].spIns \subseteq tx'[c].lck
        /\ (tx'[c].ins \cup tx'[c].spIns) \cap rows' = {}
    BY <1>1, <1>3, <1>5, Zenon
  <2> QED
    BY <1>2, <1>5, <2>1, <2>2, LockFrame, Zenon
<1>9. ASSUME NEW v \in Workers PROVE UnitInv(work[v], tx[work[v].conn], rows)'
  BY <1>1, <1>4, <1>5 DEF IInv
<1>10. EffectIffRow' /\ (acked \subseteq rows)'
  BY <1>1, Zenon DEF IInv, EffectIffRow
<1> QED
  BY <1>6, <1>7, <1>8, <1>9, <1>10, Zenon DEF IInv

-----------------------------------------------------------------------------
(* The theorems.                                                           *)

\* Before the first unit the table is empty and every connection is in the pool.
THEOREM InitIInv == Init => IInv
<1> SUFFICES ASSUME Init PROVE IInv
  BY Zenon
<1> USE DEF Init, StoreInit
<1>1. NewWork("idle", <<>>) \in Work /\ NewWork("idle", <<>>).pc = "idle"
      /\ NewWork("idle", <<>>).conn = NoConn
  BY NewWorkType, Zenon
<1>2. \A w \in Workers : work[w] = NewWork("idle", <<>>)
  BY Zenon
<1>3. \A c \in Conns : tx[c] = EmptyTx("idle")
  BY Zenon
<1>4. TypeOK
  <2>1. tx \in [Conns -> Tx]
    BY EmptyTxType, Zenon
  <2>2. work \in [Workers -> Work]
    BY <1>1, Zenon
  <2> QED
    BY <2>1, <2>2, NoEffectType, ManualAssumption DEF TypeOK, StoreTypeOK
<1>5. ConnInv
  BY <1>1, <1>2, Zenon DEF ConnInv, InTx
<1>6. LockInv
  BY <1>3, Zenon DEF LockInv, EmptyTx
<1>7. ASSUME NEW w \in Workers PROVE UnitInv(work[w], tx[work[w].conn], rows)
  BY <1>2, NewWorkInv, Zenon
<1>8. EffectIffRow /\ acked \subseteq rows
  BY Zenon DEF EffectIffRow, NoEffect
<1> QED
  BY <1>4, <1>5, <1>6, <1>7, <1>8, Zenon DEF IInv

\* Every step of every caller, and of the pool, keeps the invariant.
THEOREM NextIInv == IInv /\ [Next]_vars => IInv'
<1> SUFFICES ASSUME IInv, [Next]_vars PROVE IInv'
  BY Zenon
<1>1. ASSUME NEW w \in Workers, BeginUnit(w) PROVE IInv'
  BY <1>1, BeginUnitIInv, Zenon
<1>2. ASSUME NEW w \in Workers, ClaimFresh(w) PROVE IInv'
  BY <1>2, ClaimFreshIInv, Zenon
<1>3. ASSUME NEW w \in Workers, ClaimDuplicate(w) PROVE IInv'
  BY <1>3, ClaimDuplicateIInv, Zenon
<1>4. ASSUME NEW w \in Workers, ApplyEffect(w) PROVE IInv'
  BY <1>4, ApplyEffectIInv, Zenon
<1>5. ASSUME NEW w \in Workers, NextSlice(w) PROVE IInv'
  BY <1>5, NextSliceIInv, Zenon
<1>6. ASSUME NEW w \in Workers, CommitUnit(w) PROVE IInv'
  BY <1>6, CommitUnitIInv, Zenon
<1>7. ASSUME NEW w \in Workers, AckUnit(w) PROVE IInv'
  BY <1>7, AckUnitIInv, Zenon
<1>8. ASSUME NEW w \in Workers, RollbackAndRetry(w) PROVE IInv'
  BY <1>8, RollbackAndRetryIInv, Zenon
<1>9. ASSUME NEW w \in Workers, LockTimeout(w) PROVE IInv'
  BY <1>9, LockTimeoutIInv, Zenon
<1>10. ASSUME NEW w \in Workers, DeadlockVictim(w) PROVE IInv'
  BY <1>10, DeadlockVictimIInv, Zenon
<1>11. ASSUME NEW w \in Workers, UnitFails(w) PROVE IInv'
  BY <1>11, UnitFailsIInv, Zenon
<1>12. ASSUME NEW w \in Workers, AbandonUnit(w) PROVE IInv'
  BY <1>12, AbandonUnitIInv, Zenon
<1>13. ASSUME NEW w \in Workers, CommitAnswerLost(w) PROVE IInv'
  BY <1>13, CommitAnswerLostIInv, Zenon
<1>14. ASSUME NEW w \in Workers, NEW u \in Units, Start(w, u) PROVE IInv'
  BY <1>14, StartIInv, Zenon
<1>15. ASSUME NEW c \in Conns, PoolRollback(c) PROVE IInv'
  BY <1>15, PoolRollbackIInv, Zenon
<1>16. CASE UNCHANGED vars
  BY <1>16, Zenon DEF vars, IInv, TypeOK, StoreTypeOK, ConnInv, LockInv, EffectIffRow
<1> QED
  BY <1>1, <1>2, <1>3, <1>4, <1>5, <1>6, <1>7, <1>8, <1>9, <1>10, <1>11, <1>12, <1>13,
     <1>14, <1>15, <1>16, Zenon DEF Next, Advance

\* Hence every reachable state satisfies it.
THEOREM Invariance == Spec => []IInv
BY InitIInv, NextIInv, PTL DEF Spec

\* No statement of a unit takes effect outside its transaction, although the
\* server may end the transaction under the caller: a row is committed with
\* exactly one effect.
THEOREM RowsMatchEffects == Spec => []EffectIffRow
<1>1. IInv => EffectIffRow
  BY Zenon DEF IInv
<1> QED
  BY <1>1, Invariance, PTL

\* The table and the handlers' tables change by commits alone, and the broker's
\* offsets by acknowledgements alone.
LEMMA OnlyCommits ==
  ASSUME IInv, [Next]_vars
  PROVE  \/ UNCHANGED <<rows, applied, acked>>
         \/ \E w \in Workers : work[w].pc = "commit" /\ Commit(work[w].conn) /\ acked' = acked
         \/ \E w \in Workers : AckUnit(w)
<1>1. ASSUME NEW w \in Workers, BeginUnit(w) PROVE UNCHANGED <<rows, applied, acked>>
  BY <1>1, Zenon DEF BeginUnit, Begin
<1>2. ASSUME NEW w \in Workers, ClaimFresh(w) \/ ClaimDuplicate(w) \/ ApplyEffect(w)
      PROVE  UNCHANGED <<rows, applied, acked>>
  <2>1. work[w].pc \in {"claim", "effects"}
    BY <1>2, Zenon DEF ClaimFresh, ClaimDuplicate, ApplyEffect, Claiming
  <2>2. work[w].conn \notin lost
    BY <2>1, AtTx, Zenon DEF InTx
  <2> QED
    BY <1>2, <2>2, Zenon DEF ClaimFresh, ClaimDuplicate, ApplyEffect, Insert, Hit, Write, InsertRow,
                      HitRow, WriteEffect
<1>3. ASSUME NEW w \in Workers, \/ NextSlice(w) \/ RollbackAndRetry(w) \/ LockTimeout(w)
                                \/ DeadlockVictim(w) \/ UnitFails(w) \/ AbandonUnit(w)
                                \/ \E u \in Units : Start(w, u)
      PROVE  UNCHANGED <<rows, applied, acked>>
  BY <1>3, Zenon DEF NextSlice, RollbackAndRetry, LockTimeout, DeadlockVictim, UnitFails, AbandonUnit,
              Start, Rollback, Drop, storeVars
<1>4. ASSUME NEW w \in Workers, CommitUnit(w) \/ CommitAnswerLost(w)
      PROVE  work[w].pc = "commit" /\ Commit(work[w].conn) /\ acked' = acked
  BY <1>4, Zenon DEF CommitUnit, CommitAnswerLost
<1>5. ASSUME NEW c \in Conns, PoolRollback(c) PROVE UNCHANGED <<rows, applied, acked>>
  BY <1>5, Zenon DEF PoolRollback, RollbackDropped
<1>6. CASE UNCHANGED vars
  BY <1>6, Zenon DEF vars
<1> QED
  BY <1>1, <1>2, <1>3, <1>4, <1>5, <1>6, Zenon DEF Next, Advance

\* "The batch is one unit of failure": rows appear only when a unit commits, and
\* then every id of all its slices is recorded.
THEOREM BatchIsOneUnit == Spec => UnitIsAtomic
<1>1. IInv /\ [Next]_vars
        => [rows' # rows =>
              \E w \in Workers : work[w].pc = "commit" /\ rows' = rows \cup KeysOf(work[w].unit)]_vars
  BY OnlyCommits, CommitKeepsEffectIffRow, Zenon DEF AckUnit, storeVars
<1> QED
  BY <1>1, Invariance, PTL DEF Spec, UnitIsAtomic

\* The step of the argument about deadlocks: on PostgreSQL and MySQL, who is
\* waited for and waits in its first statement waits for a larger id.
LEMMA WaitsForLarger ==
  ASSUME IInv, Backend # "sqlite", NEW w \in Workers, NEW v \in Workers, WaitsFor(w, v),
         work[v].at = 1,
         NEW m \in Messages, Claiming(w, m), NEW n \in Messages, Claiming(v, n)
  PROVE  m < n
<1>1. PICK l \in Messages : Claiming(w, l) /\ KeyOf(l) \in tx[work[v].conn].lck
  BY Zenon DEF WaitsFor, BlockedBy
<1>2. l = m
  BY <1>1, MessagesAssumption DEF Claiming, IsNext
<1>3. Holds(work[v], tx[work[v].conn], rows) /\ work[v].pc = "claim" /\ n \in work[v].todo
  BY Zenon DEF IInv, UnitInv, Claiming, IsNext
<1>4. \A k \in tx[work[v].conn].lck : k[2] < n
  BY <1>3, Zenon DEF Holds
<1>5. KeyOf(m)[2] = m
  BY Zenon DEF KeyOf
<1> QED
  BY <1>1, <1>2, <1>4, <1>5, Zenon

\* Callers that are all in their first statement do not wait in a circle.
LEMMA IInvCycles ==
  ASSUME NEW B \in Nat, Messages \subseteq 0..B, IInv
  PROVE  CyclesNeedTwoStatements
<1> SUFFICES ASSUME NEW S \in SUBSET Workers, Cycle(S), \A w \in S : ~(work[w].at > 1)
             PROVE  FALSE
  BY Zenon DEF CyclesNeedTwoStatements
<1>1. S # {} /\ \A w \in S : \E v \in S : WaitsFor(w, v)
  BY Zenon DEF Cycle
<1>2. \A w \in S : work[w] \in Work /\ work[w].at = 1
  BY DEF IInv, TypeOK, Work
<1>3. CASE Backend = "sqlite"
  <2>1. PICK w \in S, v \in S, u \in S : WaitsFor(w, v) /\ WaitsFor(v, u)
    BY <1>1, Zenon
  <2>2. /\ tx[work[v].conn].lck # {} /\ tx[work[u].conn].lck # {}
        /\ work[v].conn # work[u].conn
        /\ work[v].conn # NoConn /\ work[u].conn # NoConn
    BY <1>3, <2>1, Zenon DEF WaitsFor, BlockedBy
  <2>3. work[v].conn \in Conns /\ work[u].conn \in Conns
    BY <1>2, <2>2, Zenon DEF Work
  <2> QED
    BY <1>3, <2>2, <2>3 DEF IInv, LockInv
<1>4. CASE Backend # "sqlite"
  <2> DEFINE T == {m \in Messages : \E w \in S : Claiming(w, m)}
  <2>1. \A w \in S : \E m \in Messages : Claiming(w, m)
    BY <1>1, Zenon DEF WaitsFor
  <2>2. T \subseteq 0..B /\ T # {}
    BY <1>1, <2>1, Zenon
  <2>3. PICK m \in T : \A n \in T : n <= m
    <3> HIDE DEF T
    <3> QED
      BY <2>2, LargestId, Zenon
  <2>4. PICK w \in S : Claiming(w, m)
    BY Zenon
  <2>5. PICK v \in S : WaitsFor(w, v)
    BY <1>1, Zenon
  <2>6. PICK n \in Messages : Claiming(v, n)
    BY <2>1, Zenon
  <2>7. m < n
    BY <1>2, <1>4, <2>4, <2>5, <2>6, WaitsForLarger, Zenon
  <2>8. n <= m
    BY <2>3, <2>6, Zenon
  <2> QED
    BY <2>7, <2>8, MessagesAssumption
<1> QED
  BY <1>3, <1>4, Zenon

\* "overlapping batches from concurrent consumers don't deadlock": a circle of
\* waits needs a caller in the second statement of its transaction.  MySQL is
\* excluded: three callers of one id can deadlock there in their first statement
\* when one rolls back, through locks that DuplicateKeepsLock leaves out.  Ids have
\* at most 512 bytes, hence the bound.
THEOREM OneStatementNoDeadlock ==
  ASSUME Backend # "mysql", NEW B \in Nat, Messages \subseteq 0..B
  PROVE  Spec => []CyclesNeedTwoStatements
<1>1. IInv => CyclesNeedTwoStatements
  BY IInvCycles, Zenon
<1> QED
  BY <1>1, Invariance, PTL

-----------------------------------------------------------------------------
(* Somebody can always go on.                                              *)

\* Every open transaction is in some caller's hands, a connection in the pool
\* holds no lock, and a claim statement has an id to claim.
PoolInv ==
  /\ \A c \in Conns : /\ tx[c].st = "open" => \E w \in Workers : work[w].conn = c
                      /\ tx[c].st = "idle" => tx[c].lck = {}
  /\ \A w \in Workers : work[w].pc = "claim" => work[w].todo # {}

\* A step of w's unit that concerns connection c only.
LEMMA PoolFrame ==
  ASSUME PoolInv, NEW w \in Workers, NEW c \in Conns, work[w].conn \in {c, NoConn},
         \A v \in Workers \ {w} : work'[v] = work[v],
         \A d \in Conns \ {c} : tx'[d] = tx[d],
         tx'[c].st = "open" => work'[w].conn = c,
         tx'[c].st = "idle" => tx'[c].lck = {},
         work'[w].pc = "claim" => work'[w].todo # {}
  PROVE  PoolInv'
<1>1. ASSUME NEW d \in Conns, tx'[d].st = "open" PROVE \E v \in Workers : work'[v].conn = d
  <2>1. CASE d = c
    BY <1>1, <2>1, Zenon
  <2>2. CASE d # c
    <3>1. tx[d].st = "open"
      BY <1>1, <2>2, Zenon
    <3>2. PICK v \in Workers : work[v].conn = d
      BY <3>1, Zenon DEF PoolInv
    <3>3. v # w
      BY <2>2, <3>2, ManualAssumption, Zenon
    <3> QED
      BY <3>2, <3>3, Zenon
  <2> QED
    BY <2>1, <2>2, Zenon
<1>2. ASSUME NEW d \in Conns, tx'[d].st = "idle" PROVE tx'[d].lck = {}
  BY <1>2, Zenon DEF PoolInv
<1>3. ASSUME NEW v \in Workers, work'[v].pc = "claim" PROVE work'[v].todo # {}
  BY <1>3, Zenon DEF PoolInv
<1> QED
  BY <1>1, <1>2, <1>3, Zenon DEF PoolInv

\* A step on w's transaction, which it leaves as u.
LEMMA PoolStep ==
  ASSUME IInv, PoolInv, NEW w \in Workers, work[w].pc \in InTx, NEW u,
         tx' = [tx EXCEPT ![work[w].conn] = u],
         \A v \in Workers \ {w} : work'[v] = work[v],
         u.st = "open" => work'[w].conn = work[w].conn,
         u.st = "idle" => u.lck = {},
         work'[w].pc = "claim" => work'[w].todo # {}
  PROVE  PoolInv'
<1>1. PICK c \in Conns : c = work[w].conn
  BY AtTx, Zenon
<1>2. tx \in [Conns -> Tx]
  BY Zenon DEF IInv, TypeOK, StoreTypeOK
<1>3. tx'[c] = u /\ \A d \in Conns \ {c} : tx'[d] = tx[d]
  BY <1>1, <1>2, Zenon
<1>4. /\ work[w].conn \in {c, NoConn}
      /\ tx'[c].st = "open" => work'[w].conn = c
      /\ tx'[c].st = "idle" => tx'[c].lck = {}
  BY <1>1, <1>3, Zenon
<1> QED
  BY <1>3, <1>4, PoolFrame, Zenon

\* A step that concerns no transaction.
LEMMA PoolSame ==
  ASSUME PoolInv, NEW w \in Workers, tx' = tx,
         \A v \in Workers \ {w} : work'[v] = work[v],
         work'[w].conn = work[w].conn,
         work'[w].pc = "claim" => work'[w].todo # {}
  PROVE  PoolInv'
<1>1. \A v \in Workers : work'[v].conn = work[v].conn
  BY Zenon
<1>2. ASSUME NEW c \in Conns
      PROVE  /\ tx'[c].st = "open" => \E v \in Workers : work'[v].conn = c
             /\ tx'[c].st = "idle" => tx'[c].lck = {}
  <2>1. tx[c].st = "open" => \E v \in Workers : work[v].conn = c
    BY Zenon DEF PoolInv
  <2>2. tx[c].st = "idle" => tx[c].lck = {}
    BY Zenon DEF PoolInv
  <2> QED
    BY <1>1, <2>1, <2>2, Zenon
<1>3. ASSUME NEW v \in Workers, work'[v].pc = "claim" PROVE work'[v].todo # {}
  BY <1>3, Zenon DEF PoolInv
<1> QED
  BY <1>2, <1>3, Zenon DEF PoolInv

\* A slice has an id.
LEMMA SliceNotEmpty ==
  ASSUME NEW u \in Units, NEW i \in DOMAIN u
  PROVE  Ids(u[i]) # {}
<1>1. u \in Seq(Seq(Messages) \ {<<>>})
  BY ManualAssumption, Zenon
<1>2. u[i] \in Seq(Messages) \ {<<>>}
  BY <1>1
<1>3. 1 \in DOMAIN u[i]
  BY <1>2
<1> QED
  BY <1>3, Zenon DEF Ids

\* The unit begins its transaction on a connection of the pool.
LEMMA BeginUnitPool ==
  ASSUME IInv, PoolInv, NEW w \in Workers, BeginUnit(w)
  PROVE  PoolInv'
<1>1. PICK c \in Conns :
        /\ work[w].pc = "begin" /\ Begin(c)
        /\ work' = [work EXCEPT ![w].pc = "claim", ![w].conn = c, ![w].todo = Ids(Slice(w))]
  BY Zenon DEF BeginUnit
<1>2. /\ work \in [Workers -> Work] /\ work[w] \in Work /\ tx \in [Conns -> Tx]
      /\ UnitInv(work[w], tx[work[w].conn], rows) /\ work[w].conn = NoConn
  BY <1>1, Zenon DEF IInv, TypeOK, StoreTypeOK, ConnInv, InTx
<1>3. work[w].at = 1 /\ work[w].unit \in Units
  BY <1>1, <1>2, Zenon DEF UnitInv
<1>4. 1 \in DOMAIN work[w].unit
  BY <1>3, SliceType
<1>5. Ids(Slice(w)) # {}
  BY <1>3, <1>4, SliceNotEmpty, Zenon DEF Slice
<1>6. /\ work'[w].conn = c /\ work'[w].todo # {}
      /\ \A v \in Workers \ {w} : work'[v] = work[v]
  BY <1>1, <1>2, <1>5, Zenon DEF Work
<1>7. EmptyTx("open").st = "open"
  BY Zenon DEF EmptyTx
<1>8. tx'[c] = EmptyTx("open") /\ \A d \in Conns \ {c} : tx'[d] = tx[d]
  BY <1>1, <1>2, Zenon DEF Begin
<1> QED
  BY <1>2, <1>6, <1>7, <1>8, PoolFrame, Zenon

\* A row is claimed: the statement goes on while there are more.
LEMMA ClaimPool ==
  ASSUME IInv, PoolInv, NEW w \in Workers, ClaimFresh(w) \/ ClaimDuplicate(w)
  PROVE  PoolInv'
<1>1. PICK m \in Messages :
        /\ work[w].pc = "claim" /\ IsNext(w, m)
        /\ Insert(work[w].conn, KeyOf(m)) \/ Hit(work[w].conn, KeyOf(m), Many(w))
        /\ \/ work' = [work EXCEPT ![w].pc = AfterRow(w, m),
                                   ![w].todo = @ \ {m}, ![w].fresh = @ \cup {m}]
           \/ work' = [work EXCEPT ![w].pc = AfterRow(w, m), ![w].todo = @ \ {m}]
  BY Zenon DEF ClaimFresh, ClaimDuplicate, Claiming
<1>2. work[w].pc \in InTx
  BY <1>1, Zenon DEF InTx
<1>3. /\ work \in [Workers -> Work] /\ work[w] \in Work /\ work[w].conn \in Conns
      /\ tx \in [Conns -> Tx] /\ tx[work[w].conn].st = "open" /\ work[w].conn \notin lost
  BY <1>1, <1>2, AtTx, Zenon
<1>4. /\ work'[w].conn = work[w].conn /\ work'[w].pc = AfterRow(w, m)
      /\ work'[w].todo = work[w].todo \ {m}
      /\ \A v \in Workers \ {w} : work'[v] = work[v]
  <2>1. CASE work' = [work EXCEPT ![w].pc = AfterRow(w, m),
                                  ![w].todo = @ \ {m}, ![w].fresh = @ \cup {m}]
    BY <1>3, <2>1, Zenon DEF Work
  <2>2. CASE work' = [work EXCEPT ![w].pc = AfterRow(w, m), ![w].todo = @ \ {m}]
    BY <1>3, <2>2, Zenon DEF Work
  <2> QED
    BY <1>1, <2>1, <2>2, Zenon
<1>5. work'[w].pc = "claim" => work'[w].todo # {}
  BY <1>1, <1>4, Zenon DEF AfterRow, IsNext
<1>6. PICK u : tx' = [tx EXCEPT ![work[w].conn] = u] /\ u.st = tx[work[w].conn].st
  <2>1. KeyOf(m) \in Key
    BY KeyOfType, Zenon
  <2>2. CASE Insert(work[w].conn, KeyOf(m))
    <3>1. InsertRow(work[w].conn, KeyOf(m))
      BY <1>3, <2>2, Zenon DEF Insert
    <3> QED
      BY <1>3, <2>1, <3>1, InsertRowTx, Zenon
  <2>3. CASE Hit(work[w].conn, KeyOf(m), Many(w))
    <3>1. HitRow(work[w].conn, KeyOf(m), Many(w))
      BY <1>3, <2>3, Zenon DEF Hit
    <3> QED
      BY <1>3, <2>1, <3>1, HitRowTx, Zenon
  <2> QED
    BY <1>1, <2>2, <2>3, Zenon
<1> QED
  BY <1>2, <1>3, <1>4, <1>5, <1>6, PoolStep, Zenon

\* A new unit, or none: not in a statement.
LEMMA NewWorkPool ==
  ASSUME NEW pc, NEW u
  PROVE  NewWork(pc, u).pc = pc /\ NewWork(pc, u).conn = NoConn
BY Zenon DEF NewWork

\* An effect is written, or a claim ends in contention: the transaction stays open.
LEMMA OpenPool ==
  ASSUME IInv, PoolInv, NEW w \in Workers,
         ApplyEffect(w) \/ LockTimeout(w) \/ DeadlockVictim(w)
  PROVE  PoolInv'
<1>1. work[w].pc \in InTx
  BY Zenon DEF ApplyEffect, LockTimeout, Waits, DeadlockVictim, Cycle, WaitsFor, Claiming, InTx
<1>2. /\ work \in [Workers -> Work] /\ work[w] \in Work /\ work[w].conn \in Conns
      /\ tx \in [Conns -> Tx] /\ tx[work[w].conn] \in Tx /\ tx[work[w].conn].st = "open"
      /\ work[w].conn \in lost => work[w].pc = "contended"
  BY <1>1, AtTx, Zenon
<1>3. EmptyTx("open").st = "open"
  BY Zenon DEF EmptyTx
<1>4. CASE ApplyEffect(w)
  <2>1. PICK m \in work[w].fresh :
          /\ work[w].pc = "effects" /\ Write(work[w].conn, KeyOf(m))
          /\ work' = [work EXCEPT ![w].fresh = @ \ {m}]
    BY <1>4, Zenon DEF ApplyEffect
  <2>2. m \in Messages
    BY <1>2, Zenon DEF Work
  <2>3. WriteEffect(work[w].conn, KeyOf(m)) /\ KeyOf(m) \in Key
    BY <1>2, <2>1, <2>2, KeyOfType, Zenon DEF Write
  <2>4. PICK u \in Tx : tx' = [tx EXCEPT ![work[w].conn] = u] /\ u.st = tx[work[w].conn].st
    BY <1>2, <2>3, WriteEffectTx, ZenonT(40)
  <2>5. /\ work'[w].pc = "effects" /\ work'[w].conn = work[w].conn
        /\ \A v \in Workers \ {w} : work'[v] = work[v]
    BY <1>2, <2>1, Zenon DEF Work
  <2> QED
    BY <1>1, <1>2, <2>4, <2>5, PoolStep, Zenon
<1>5. CASE LockTimeout(w) \/ DeadlockVictim(w)
  <2>1. work' = [work EXCEPT ![w].pc = "contended"]
    BY <1>5, Zenon DEF LockTimeout, DeadlockVictim
  <2>2. /\ work'[w].pc = "contended" /\ work'[w].conn = work[w].conn
        /\ \A v \in Workers \ {w} : work'[v] = work[v]
    BY <1>2, <2>1, Zenon DEF Work
  <2>3. PICK u : tx' = [tx EXCEPT ![work[w].conn] = u] /\ u.st = "open"
    <3>1. CASE tx' = [tx EXCEPT ![work[w].conn] = EmptyTx("open")]
      BY <1>3, <3>1, Zenon
    <3>2. CASE tx' # [tx EXCEPT ![work[w].conn] = EmptyTx("open")]
      <4> DEFINE t == tx[work[w].conn]
                 u == [t EXCEPT !.ins = @ \ {KeyOf(m) : m \in work[w].fresh}]
      <4>1. tx' = [tx EXCEPT ![work[w].conn] = u]
        BY <1>5, <3>2, Zenon DEF LockTimeout, DeadlockVictim
      <4>2. u.st = "open"
        BY <1>2, Zenon DEF Tx
      <4> QED
        BY <4>1, <4>2, Zenon
    <3> QED
      BY <3>1, <3>2, Zenon
  <2> QED
    BY <1>1, <1>2, <2>2, <2>3, PoolStep, Zenon
<1> QED
  BY <1>4, <1>5, Zenon

\* The next slice has an id to claim.
LEMMA NextSlicePool ==
  ASSUME IInv, PoolInv, NEW w \in Workers, NextSlice(w)
  PROVE  PoolInv'
<1> DEFINE p == work[w]
<1>1. p.pc = "effects" /\ tx' = tx
  BY Zenon DEF NextSlice, storeVars
<1>2. /\ work \in [Workers -> Work] /\ p \in Work /\ p.unit \in Units
      /\ UnitInv(p, tx[p.conn], rows)
  BY <1>1, AtTx, Zenon DEF InTx
<1>3. p.at \in DOMAIN p.unit /\ Len(p.unit) \in Nat /\ DOMAIN p.unit = 1..Len(p.unit)
  BY <1>1, <1>2, SliceType, Zenon DEF UnitInv, Holds
<1>4. CASE p.at < Len(p.unit)
  <2>1. work' = [work EXCEPT ![w].pc = "claim", ![w].at = @ + 1,
                             ![w].todo = Ids(p.unit[p.at + 1])]
    BY <1>4, Zenon DEF NextSlice
  <2>2. p.at + 1 \in DOMAIN p.unit
    BY <1>3, <1>4
  <2>3. Ids(p.unit[p.at + 1]) # {}
    BY <1>2, <2>2, SliceNotEmpty, Zenon
  <2>4. /\ work'[w].conn = p.conn /\ work'[w].todo = Ids(p.unit[p.at + 1])
        /\ \A v \in Workers \ {w} : work'[v] = work[v]
    BY <1>2, <2>1, Zenon DEF Work
  <2> QED
    BY <1>1, <2>3, <2>4, PoolSame, Zenon
<1>5. CASE ~(p.at < Len(p.unit))
  <2>1. work' = [work EXCEPT ![w].pc = "commit"]
    BY <1>5, Zenon DEF NextSlice
  <2>2. /\ work'[w].conn = p.conn /\ work'[w].pc = "commit"
        /\ \A v \in Workers \ {w} : work'[v] = work[v]
    BY <1>2, <2>1, Zenon DEF Work
  <2> QED
    BY <1>1, <2>2, PoolSame, Zenon
<1> QED
  BY <1>4, <1>5, Zenon

\* The transaction goes back to the pool without locks, or is dropped.
LEMMA EndPool ==
  ASSUME IInv, PoolInv, NEW w \in Workers, work[w].pc \in InTx,
         \/ Commit(work[w].conn) \/ Rollback(work[w].conn) \/ Drop(work[w].conn),
         \A v \in Workers \ {w} : work'[v] = work[v],
         work'[w].pc # "claim"
  PROVE  PoolInv'
<1>1. tx[work[w].conn] \in Tx
  BY AtTx, Zenon
<1>2. EmptyTx("idle").st = "idle" /\ EmptyTx("idle").lck = {}
  BY Zenon DEF EmptyTx
<1>3. CASE tx' = [tx EXCEPT ![work[w].conn] = EmptyTx("idle")]
  BY <1>2, <1>3, PoolStep, Zenon
<1>4. CASE tx' = [tx EXCEPT ![work[w].conn].st = "dropped"]
  <2> DEFINE u == [tx[work[w].conn] EXCEPT !.st = "dropped"]
  <2>1. tx' = [tx EXCEPT ![work[w].conn] = u]
    BY <1>4, Zenon
  <2>2. u.st = "dropped"
    BY <1>1, Zenon DEF Tx
  <2> HIDE DEF u
  <2> QED
    BY <2>1, <2>2, PoolStep, Zenon
<1> QED
  BY <1>3, <1>4, Zenon DEF Commit, Rollback, Drop

\* The unit is over, or is to be tried again.
LEMMA LeavePool ==
  ASSUME IInv, PoolInv, NEW w \in Workers,
         \/ CommitUnit(w) \/ CommitAnswerLost(w) \/ RollbackAndRetry(w) \/ AbandonUnit(w)
         \/ UnitFails(w) /\ work[w].conn # NoConn
  PROVE  PoolInv'
<1>1. work \in [Workers -> Work] /\ work[w] \in Work
  BY Zenon DEF IInv, TypeOK
<1>2. work[w].pc \in InTx
  BY Zenon DEF CommitUnit, CommitAnswerLost, RollbackAndRetry, AbandonUnit, UnitFails, InTx,
               IInv, ConnInv
<1>3. Commit(work[w].conn) \/ Rollback(work[w].conn) \/ Drop(work[w].conn)
  BY Zenon DEF CommitUnit, CommitAnswerLost, RollbackAndRetry, AbandonUnit, UnitFails
<1>4. work'[w].pc # "claim" /\ \A v \in Workers \ {w} : work'[v] = work[v]
  <2>1. CASE CommitUnit(w)
    BY <1>1, <2>1, Zenon DEF CommitUnit, Work
  <2>2. CASE ~CommitUnit(w)
    <3>1. PICK pc \in {"idle", "begin"}, u \in Units \cup {<<>>} :
            work' = [work EXCEPT ![w] = NewWork(pc, u)]
      BY <1>1, <2>2, Zenon DEF CommitAnswerLost, RollbackAndRetry, AbandonUnit, UnitFails, Work
    <3>2. work'[w].pc = pc /\ \A v \in Workers \ {w} : work'[v] = work[v]
      BY <1>1, <3>1, NewWorkPool, Zenon
    <3> QED
      BY <3>2, Zenon
  <2> QED
    BY <2>1, <2>2, Zenon
<1> QED
  BY <1>2, <1>3, <1>4, EndPool, Zenon

\* A caller without a transaction starts, acknowledges or fails.
LEMMA OutsidePool ==
  ASSUME IInv, PoolInv, NEW w \in Workers,
         \/ \E u \in Units : Start(w, u)
         \/ AckUnit(w)
         \/ UnitFails(w) /\ work[w].conn = NoConn
  PROVE  PoolInv'
<1>1. work \in [Workers -> Work] /\ work[w] \in Work
  BY Zenon DEF IInv, TypeOK
<1>2. work[w].conn = NoConn
  BY Zenon DEF Start, AckUnit, IInv, ConnInv, InTx
<1>3. tx' = tx
  BY Zenon DEF Start, AckUnit, UnitFails, storeVars
<1>4. PICK pc \in {"idle", "begin"}, u \in Units \cup {<<>>} :
        work' = [work EXCEPT ![w] = NewWork(pc, u)]
  BY Zenon DEF Start, AckUnit, UnitFails
<1>5. /\ work'[w].pc = pc /\ work'[w].conn = NoConn
      /\ \A v \in Workers \ {w} : work'[v] = work[v]
  BY <1>1, <1>4, NewWorkPool, Zenon
<1>6. work'[w].pc # "claim"
  BY <1>5, Zenon
<1> QED
  BY <1>2, <1>3, <1>5, <1>6, PoolSame, Zenon

\* The queued rollback runs: the connection is in the pool, without locks.
LEMMA PoolRollbackPool ==
  ASSUME IInv, PoolInv, NEW c \in Conns, PoolRollback(c)
  PROVE  PoolInv'
<1>1. tx \in [Conns -> Tx] /\ work' = work /\ tx' = [tx EXCEPT ![c] = EmptyTx("idle")]
  BY Zenon DEF IInv, TypeOK, StoreTypeOK, PoolRollback, RollbackDropped
<1>2. tx'[c] = EmptyTx("idle") /\ \A d \in Conns \ {c} : tx'[d] = tx[d]
  BY <1>1, Zenon
<1>3. EmptyTx("idle").st = "idle" /\ EmptyTx("idle").lck = {}
  BY Zenon DEF EmptyTx
<1>4. ASSUME NEW d \in Conns
      PROVE  /\ tx'[d].st = "open" => \E w \in Workers : work[w].conn = d
             /\ tx'[d].st = "idle" => tx'[d].lck = {}
  <2>1. CASE d = c
    BY <1>2, <1>3, <2>1, Zenon
  <2>2. CASE d # c
    BY <1>2, <2>2, Zenon DEF PoolInv
  <2> QED
    BY <2>1, <2>2, Zenon
<1> QED
  BY <1>1, <1>4, Zenon DEF PoolInv

\* Every step keeps it.
LEMMA NextPool == IInv /\ PoolInv /\ [Next]_vars => PoolInv'
<1> SUFFICES ASSUME IInv, PoolInv, [Next]_vars PROVE PoolInv'
  BY Zenon
<1>1. CASE UNCHANGED vars
  <2>1. work' = work /\ tx' = tx
    BY <1>1, Zenon DEF vars
  <2> QED
    BY <2>1, Zenon DEF PoolInv
<1>2. ASSUME NEW w \in Workers, Advance(w) PROVE PoolInv'
  BY <1>2, BeginUnitPool, ClaimPool, OpenPool, NextSlicePool, LeavePool, OutsidePool,
     Zenon DEF Advance
<1>3. ASSUME NEW w \in Workers,
             \/ LockTimeout(w) \/ DeadlockVictim(w) \/ UnitFails(w) \/ AbandonUnit(w)
             \/ CommitAnswerLost(w) \/ \E u \in Units : Start(w, u)
      PROVE  PoolInv'
  BY <1>3, OpenPool, LeavePool, OutsidePool, Zenon
<1>4. ASSUME NEW c \in Conns, PoolRollback(c) PROVE PoolInv'
  BY <1>4, PoolRollbackPool, Zenon
<1> QED
  BY <1>1, <1>2, <1>3, <1>4, Zenon DEF Next

\* All connections are in the pool and nobody is in a unit.
LEMMA InitPool == Init => PoolInv
<1> SUFFICES ASSUME Init PROVE PoolInv
  BY Zenon
<1>1. EmptyTx("idle").st = "idle" /\ EmptyTx("idle").lck = {}
  BY Zenon DEF EmptyTx
<1>2. \A c \in Conns : tx[c] = EmptyTx("idle")
  BY Zenon DEF Init, StoreInit
<1>3. \A w \in Workers : work[w].pc = "idle"
  BY NewWorkPool, Zenon DEF Init
<1> QED
  BY <1>1, <1>2, <1>3, Zenon DEF PoolInv

\* A unit that cannot go on waits for a connection or for a lock.
LEMMA StuckUnit ==
  ASSUME IInv, PoolInv, NEW w \in Workers, work[w].pc # "idle", ~CanGoOn(w)
  PROVE  \/ work[w].pc = "begin" /\ \A c \in Conns : tx[c].st # "idle"
         \/ work[w].pc = "claim"
            /\ \E m \in Messages : Claiming(w, m) /\ Blocked(work[w].conn, KeyOf(m))
<1>1. CASE work[w].pc = "begin"
  BY <1>1, Zenon DEF CanGoOn
<1>2. CASE work[w].pc = "claim"
  <2>1. work[w].todo \subseteq Messages /\ work[w].conn \notin lost
    BY <1>2, AtTx, Zenon DEF InTx, Work
  <2>2. \A m \in Messages : Claiming(w, m) => Blocked(work[w].conn, KeyOf(m))
    BY <1>2, <2>1, Zenon DEF CanGoOn
  <2>3. work[w].todo # {} /\ work[w].todo \subseteq Nat
    BY <1>2, <2>1, MessagesAssumption, Zenon DEF PoolInv
  <2>4. PICK m \in work[w].todo : \A n \in work[w].todo : m <= n
    BY <2>3, SmallestId, Zenon
  <2>5. m \in Messages /\ Claiming(w, m)
    BY <1>2, <2>1, <2>4, Zenon DEF Claiming, IsNext
  <2> QED
    BY <1>2, <2>2, <2>5, Zenon
<1>3. CASE work[w].pc = "effects"
  <2>1. work[w].conn \notin lost
    BY <1>3, AtTx, Zenon DEF InTx
  <2> QED
    BY <1>3, <2>1, Zenon DEF CanGoOn
<1>4. CASE work[w].pc \notin {"begin", "claim", "effects"}
  BY <1>4, Zenon DEF CanGoOn
<1> QED
  BY <1>1, <1>2, <1>3, <1>4, Zenon

\* When nobody can go on and no rollback is to be run, whoever waits for a
\* connection waits for units that claim, and these wait for each other.
LEMMA IInvSomeUnitGoesOn ==
  ASSUME IInv, PoolInv
  PROVE  SomeUnitGoesOn
<1> SUFFICES ASSUME NEW o \in Workers, work[o].pc # "idle",
                    \A w \in Workers : ~CanGoOn(w),
                    \A c \in Conns : tx[c].st # "dropped"
             PROVE  \E S \in SUBSET Workers : Cycle(S)
  BY Zenon DEF SomeUnitGoesOn
<1> DEFINE S == {w \in Workers : work[w].pc = "claim"}
<1>1. \A c \in Conns : tx[c].st \in {"idle", "open"}
  BY Zenon DEF IInv, TypeOK, StoreTypeOK, Tx
<1>2. ASSUME NEW c \in Conns, tx[c].st = "open" PROVE \E v \in S : work[v].conn = c
  <2>1. PICK v \in Workers : work[v].conn = c
    BY <1>2, Zenon DEF PoolInv
  <2>2. work[v].pc \in InTx
    BY <2>1, ManualAssumption, Zenon DEF IInv, ConnInv
  <2>3. work[v].pc = "claim"
    BY <2>2, StuckUnit, Zenon DEF InTx
  <2> QED
    BY <2>1, <2>3, Zenon
<1>3. S # {}
  <2>1. CASE work[o].pc = "claim"
    BY <2>1, Zenon
  <2>2. CASE work[o].pc # "claim"
    <3>1. PICK c \in Conns : tx[c].st # "idle"
      BY <2>2, StuckUnit, PoolAssumption, Zenon
    <3>2. \E v \in S : TRUE
      <4> HIDE DEF S
      <4> QED
        BY <1>1, <1>2, <3>1, Zenon
    <3> HIDE DEF S
    <3> QED
      BY <3>2, Zenon
  <2> QED
    BY <2>1, <2>2, Zenon
<1>4. ASSUME NEW w \in S PROVE \E v \in S : WaitsFor(w, v)
  <2>1. PICK m \in Messages : Claiming(w, m) /\ Blocked(work[w].conn, KeyOf(m))
    BY StuckUnit, Zenon
  <2>2. PICK d \in Conns : BlockedBy(work[w].conn, d, KeyOf(m))
    BY <2>1, Zenon DEF Blocked
  <2>3. tx[d].lck # {}
    BY <2>2, Zenon DEF BlockedBy
  <2>4. tx[d].st = "open"
    BY <1>1, <2>3, Zenon DEF PoolInv
  <2> HIDE DEF S
  <2>5. PICK v \in S : work[v].conn = d
    BY <1>2, <2>4, Zenon
  <2>6. WaitsFor(w, v)
    BY <2>1, <2>2, <2>5, ManualAssumption, Zenon DEF WaitsFor
  <2> QED
    BY <2>5, <2>6, Zenon
<1>5. S \in SUBSET Workers
  BY Zenon
<1> HIDE DEF S
<1> QED
  BY <1>3, <1>4, <1>5, Zenon DEF Cycle

\* The units never all stand still for good: none of them waits for a connection
\* or for a lock that nobody will give back, unless they wait in a circle, and
\* that circle the database breaks.
THEOREM SomeUnitAlwaysGoesOn == Spec => []SomeUnitGoesOn
<1>1. Init => IInv /\ PoolInv
  BY InitIInv, InitPool, Zenon
<1>2. IInv /\ PoolInv /\ [Next]_vars => IInv' /\ PoolInv'
  BY NextIInv, NextPool, Zenon
<1>3. IInv /\ PoolInv => SomeUnitGoesOn
  BY IInvSomeUnitGoesOn, Zenon
<1> QED
  BY <1>1, <1>2, <1>3, PTL DEF Spec

-----------------------------------------------------------------------------
(* Refinement.                                                             *)

\* A step of the callers is a step of the abstract inbox: a commit handles the
\* rows of its transaction, an acknowledgement is of ids that are handled.
THEOREM StepRefinement == IInv /\ [Next]_vars => [EO!Next]_<<applied, acked>>
<1> SUFFICES ASSUME IInv, [Next]_vars PROVE [EO!Next]_<<applied, acked>>
  BY Zenon
<1>1. ASSUME NEW w \in Workers, work[w].pc = "commit", Commit(work[w].conn), acked' = acked
      PROVE  EO!Next
  <2> DEFINE t == tx[work[w].conn]
  <2>1. /\ t \in Tx /\ t.ins \cap rows = {} /\ applied \in [Key -> Nat]
    BY <1>1, AtTx, Zenon DEF InTx, IInv, TypeOK, StoreTypeOK
  <2>2. t.ins \in SUBSET Key
    BY <2>1, Zenon DEF Tx
  <2>3. t.eff = OneEach(t.ins) /\ applied' = [k \in Key |-> applied[k] + t.eff[k]]
    BY <1>1, AtCommit, Zenon DEF Commit
  <2>4. \A k \in t.ins : applied[k] = 0
    BY <2>1, <2>2, Zenon DEF IInv, EffectIffRow
  <2>5. applied' = [k \in Key |-> IF k \in t.ins THEN 1 ELSE applied[k]]
    <3>1. \A k \in Key : applied[k] + t.eff[k] = IF k \in t.ins THEN 1 ELSE applied[k]
      <4> TAKE k \in Key
      <4>1. t.eff[k] = IF k \in t.ins THEN 1 ELSE 0
        BY <2>3, Zenon DEF OneEach
      <4>2. applied[k] \in Nat
        BY <2>1, Zenon
      <4> HIDE DEF t
      <4> QED
        BY <2>4, <4>1, <4>2
    <3> HIDE DEF t
    <3> QED
      BY <2>3, <3>1, Zenon
  <2> HIDE DEF t
  <2>6. EO!Handle(t.ins)
    BY <1>1, <2>4, <2>5, Zenon DEF EO!Handle
  <2> QED
    BY <2>2, <2>6, Zenon DEF EO!Next
<1>2. ASSUME NEW w \in Workers, AckUnit(w) PROVE EO!Next
  <2>1. KeysOf(work[w].unit) \subseteq rows /\ rows \subseteq Key
    BY <1>2, Zenon DEF AckUnit, IInv, UnitInv, TypeOK, StoreTypeOK
  <2>2. \A k \in KeysOf(work[w].unit) : applied[k] = 1
    BY <2>1, Zenon DEF IInv, EffectIffRow
  <2>3. EO!Acknowledge(KeysOf(work[w].unit))
    BY <1>2, <2>2, Zenon DEF AckUnit, storeVars, EO!Acknowledge
  <2> QED
    BY <2>1, <2>3, Zenon DEF EO!Next
<1> QED
  BY <1>1, <1>2, OnlyCommits, Zenon

\* Callers that follow the guide implement the abstract inbox.
THEOREM Refinement == Spec => ImplementsExactlyOnce
<1>1. Init => EO!Init
  BY Zenon DEF Init, StoreInit, NoEffect, EO!Init
<1> QED
  BY <1>1, StepRefinement, Invariance, PTL DEF Spec, ImplementsExactlyOnce, EO!Spec
=============================================================================
