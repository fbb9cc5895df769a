----------------------------- MODULE StoreProofs ----------------------------
(***************************************************************************)
(* Facts about the statements of InboxStore that the proofs about its      *)
(* callers share: what a statement leaves on its connection, that LockInv  *)
(* is kept by a statement that takes only free locks, and that a bounded   *)
(* set of ids has a largest one, which ends chains of waits.               *)
(***************************************************************************)
EXTENDS InboxStore, WellFoundedInduction, TLAPS

\* A transaction that has written nothing has a well-typed count of effects.
LEMMA NoEffectType == NoEffect \in [Key -> Nat]
BY Zenon DEF NoEffect

\* What Begin, Rollback and a lost transaction leave on a connection.
LEMMA EmptyTxType ==
  ASSUME NEW st \in {"idle", "open", "dropped"}
  PROVE  EmptyTx(st) \in Tx
BY NoEffectType, Zenon DEF EmptyTx, Tx

\* One more effect where there was none.
LEMMA OneEachNext ==
  ASSUME NEW K \in SUBSET Key, NEW k \in Key, k \notin K
  PROVE  [OneEach(K) EXCEPT ![k] = @ + 1] = OneEach(K \cup {k})
<1> DEFINE f == [OneEach(K) EXCEPT ![k] = @ + 1]  g == OneEach(K \cup {k})
<1>1. f = [j \in Key |-> f[j]] /\ g = [j \in Key |-> g[j]]
  BY Zenon DEF OneEach
<1>2. \A j \in Key : f[j] = g[j]
  BY DEF OneEach
<1> HIDE DEF f, g
<1>3. f = g
  BY <1>1, <1>2, Zenon
<1> QED
  BY <1>3, Zenon DEF f, g

\* A Fresh claim takes a lock nobody held and inserts a row that is not there.
LEMMA InsertRowTx ==
  ASSUME NEW c \in Conns, NEW k \in Key, tx \in [Conns -> Tx], InsertRow(c, k)
  PROVE  \E u \in Tx :
           /\ tx' = [tx EXCEPT ![c] = u]
           /\ u.st = tx[c].st /\ u.ins = tx[c].ins \cup {k} /\ u.lck = tx[c].lck \cup {k}
           /\ u.eff = tx[c].eff /\ u.sp = tx[c].sp /\ u.spIns = tx[c].spIns
<1> DEFINE u == [tx[c] EXCEPT !.ins = @ \cup {k}, !.lck = @ \cup {k}]
<1>1. tx[c] \in Tx
  BY Zenon
<1>2. u \in Tx
  BY <1>1, Zenon DEF Tx
<1>3. /\ u.st = tx[c].st /\ u.ins = tx[c].ins \cup {k} /\ u.lck = tx[c].lck \cup {k}
      /\ u.eff = tx[c].eff /\ u.sp = tx[c].sp /\ u.spIns = tx[c].spIns
  BY <1>1, Zenon DEF Tx
<1>4. tx' = [tx EXCEPT ![c] = u]
  BY Zenon DEF InsertRow
<1> QED
  BY <1>2, <1>3, <1>4, Zenon

\* A Duplicate claim takes at most a lock nobody held.
LEMMA HitRowTx ==
  ASSUME NEW c \in Conns, NEW k \in Key, NEW many, tx \in [Conns -> Tx], HitRow(c, k, many)
  PROVE  \E u \in Tx :
           /\ tx' = [tx EXCEPT ![c] = u]
           /\ u.lck \subseteq tx[c].lck \cup {k} /\ tx[c].lck \subseteq u.lck
           /\ u.st = tx[c].st /\ u.ins = tx[c].ins /\ u.eff = tx[c].eff
           /\ u.sp = tx[c].sp /\ u.spIns = tx[c].spIns
<1>1. tx[c] \in Tx
  BY Zenon
<1>2. CASE DuplicateKeepsLock(many)
  <2> DEFINE u == [tx[c] EXCEPT !.lck = @ \cup {k}]
  <2>1. u \in Tx
    BY <1>1, Zenon DEF Tx
  <2>2. /\ u.lck = tx[c].lck \cup {k}
        /\ u.st = tx[c].st /\ u.ins = tx[c].ins /\ u.eff = tx[c].eff
        /\ u.sp = tx[c].sp /\ u.spIns = tx[c].spIns
    BY <1>1, Zenon DEF Tx
  <2>3. tx' = [tx EXCEPT ![c] = u]
    BY <1>2, Zenon DEF HitRow
  <2> HIDE DEF u
  <2> QED
    BY <2>1, <2>2, <2>3, Zenon
<1>3. CASE ~DuplicateKeepsLock(many)
  <2>1. tx' = [tx EXCEPT ![c] = tx[c]]
    BY <1>3, Zenon DEF HitRow
  <2> QED
    BY <1>1, <2>1, Zenon
<1> QED
  BY <1>2, <1>3, Zenon

\* The handler's write changes the effects of its transaction only.
LEMMA WriteEffectTx ==
  ASSUME NEW c \in Conns, NEW k \in Key, tx \in [Conns -> Tx], WriteEffect(c, k)
  PROVE  \E u \in Tx :
           /\ tx' = [tx EXCEPT ![c] = u]
           /\ u.st = tx[c].st /\ u.ins = tx[c].ins /\ u.lck = tx[c].lck
           /\ u.eff = [tx[c].eff EXCEPT ![k] = @ + 1]
           /\ u.sp = tx[c].sp /\ u.spIns = tx[c].spIns /\ u.spEff = tx[c].spEff
<1> DEFINE e == [tx[c].eff EXCEPT ![k] = @ + 1]
           u == [tx[c] EXCEPT !.eff = e]
<1>1. tx[c] \in Tx
  BY Zenon
<1>2. e \in [Key -> Nat]
  BY <1>1 DEF Tx
<1>3. tx' = [tx EXCEPT ![c] = u]
  BY Zenon DEF WriteEffect
<1> HIDE DEF e
<1>4. u \in Tx
  BY <1>1, <1>2, Zenon DEF Tx
<1>5. /\ u.st = tx[c].st /\ u.ins = tx[c].ins /\ u.lck = tx[c].lck
      /\ u.eff = e
      /\ u.sp = tx[c].sp /\ u.spIns = tx[c].spIns /\ u.spEff = tx[c].spEff
  BY <1>1, Zenon DEF Tx
<1> QED
  BY <1>3, <1>4, <1>5, Zenon DEF e

\* Locks after a step on c that adds at most the lock of k, which nobody held,
\* and commits at most what c had inserted.
LEMMA LockFrame ==
  ASSUME tx \in [Conns -> Tx], LockInv, NEW c \in Conns, NEW K,
         tx' \in [Conns -> Tx],
         \A d \in Conns \ {c} : tx'[d] = tx[d],
         rows' \subseteq rows \cup tx[c].ins,
         tx'[c].lck \subseteq tx[c].lck \cup K,
         \A k \in K : ~Blocked(c, k),
         tx'[c].ins \cup tx'[c].spIns \subseteq tx'[c].lck,
         (tx'[c].ins \cup tx'[c].spIns) \cap rows' = {}
  PROVE  LockInv'
<1>1. \A d \in Conns : tx[d] \in Tx /\ tx'[d] \in Tx
  BY Zenon
<1>2. \A d \in Conns \ {c} :
        IF Backend = "sqlite" THEN tx'[c].lck = {} \/ tx[d].lck = {}
                              ELSE tx'[c].lck \cap tx[d].lck = {}
  <2> TAKE d \in Conns \ {c}
  <2>1. CASE Backend = "sqlite"
    BY <2>1, <1>1 DEF LockInv, Blocked, BlockedBy
  <2>2. CASE Backend # "sqlite"
    BY <2>2, <1>1 DEF LockInv, Blocked, BlockedBy
  <2> QED
    BY <2>1, <2>2, Zenon
<1>3. \A d \in Conns : /\ tx'[d].ins \cup tx'[d].spIns \subseteq tx'[d].lck
                       /\ (tx'[d].ins \cup tx'[d].spIns) \cap rows' = {}
  <2> TAKE d \in Conns
  <2>1. CASE d = c
    BY <2>1, Zenon
  <2>2. CASE d # c
    <3>1. tx'[d] = tx[d] /\ tx[c].lck \cap tx[d].lck = {}
      BY <2>2, Zenon DEF LockInv
    <3> QED
      BY <3>1, Zenon DEF LockInv
  <2> QED
    BY <2>1, <2>2, Zenon
<1> QED
  BY <1>2, <1>3 DEF LockInv

\* A set of ids has a smallest one.
LEMMA SmallestId ==
  ASSUME NEW T, T \subseteq Nat, T # {}
  PROVE  \E x \in T : \A y \in T : x <= y
<1> DEFINE R1 == OpToRel(<, Nat)
<1>1. \A i, j \in Nat : <<i, j>> \in R1 <=> i < j
  BY Zenon DEF OpToRel
<1>2. \E x \in T : \A y \in T : ~(<<y, x>> \in R1)
  <2> HIDE DEF R1
  <2> QED
    BY NatLessThanWellFounded, WFMin, Zenon DEF R1
<1>3. PICK x \in T : \A y \in T : ~(<<y, x>> \in R1)
  BY <1>2, Zenon
<1> HIDE DEF R1
<1>4. ASSUME NEW y \in T PROVE x <= y
  <2>1. x \in Nat /\ y \in Nat
    BY Zenon
  <2>2. ~(y < x)
    BY <1>1, <1>3, <2>1, Zenon
  <2> QED
    BY <2>1, <2>2
<1> QED
  BY <1>4, Zenon

\* A bounded non-empty set of ids has a largest one.
LEMMA LargestId ==
  ASSUME NEW B \in Nat, NEW T, T \subseteq 0..B, T # {}
  PROVE  \E x \in T : \A y \in T : y <= x
<1> DEFINE R == OpToRel(<, Nat)
           U == {n \in Nat : B - n \in T}
<1>1. \A i, j \in Nat : <<i, j>> \in R <=> i < j
  BY Zenon DEF OpToRel
<1>2. U \subseteq Nat /\ U # {}
  <2>1. PICK x \in T : TRUE
    BY Zenon
  <2>2. B - x \in Nat /\ B - (B - x) = x
    BY <2>1
  <2> QED
    BY <2>2, Zenon
<1>3. \E n \in U : \A l \in U : ~(<<l, n>> \in R)
  <2> HIDE DEF R, U
  <2> QED
    BY <1>2, NatLessThanWellFounded, WFMin, Zenon DEF R
<1>4. PICK n \in U : \A l \in U : ~(l < n)
  BY <1>1, <1>2, <1>3, Zenon
<1>5. ASSUME NEW y \in T PROVE y <= B - n
  <2>1. B - y \in Nat /\ B - (B - y) = y
    OBVIOUS
  <2>2. B - y \in U
    BY <2>1, Zenon
  <2>3. n \in Nat /\ ~(B - y < n)
    BY <1>4, <2>2, Zenon
  <2> HIDE DEF U
  <2> QED
    BY <2>1, <2>3
<1> QED
  BY <1>5, Zenon
=============================================================================
