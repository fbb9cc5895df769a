----------------------------- MODULE CallProofs -----------------------------
(***************************************************************************)
(* More about the calls of process and process_many, from the invariants   *)
(* of ConsumerProofs: they never all stand still, each of them is finite,  *)
(* and what ClaimMany and Retention take them for is what they do.         *)
(***************************************************************************)
EXTENDS ConsumerProofs, ConsumerProgress, ProcessDelivery

-----------------------------------------------------------------------------
(* Somebody can always go on.                                              *)

\* A call that has ids to claim is at one of them.
LEMMA HasNext ==
  ASSUME IInv, NEW w \in Workers, call[w].pc = "claim", call[w].todo # {}
  PROVE  \E m \in Messages : Claiming(w, m)
<1>1. call[w].todo \subseteq Messages
  BY TypeFacts, Zenon DEF Call
<1>2. PICK m \in call[w].todo : \A n \in call[w].todo : m <= n
  BY <1>1, MessagesAssumption, SmallestId, Zenon
<1> QED
  BY <1>1, <1>2, Zenon DEF Claiming, IsNext

\* A call that cannot go on waits for a connection or for a lock.
LEMMA StuckCall ==
  ASSUME IInv, NEW w \in Workers, call[w].pc # "idle", ~CanGoOn(w)
  PROVE  \/ call[w].pc = "begin" /\ \A c \in Conns : tx[c].st # "idle"
         \/ call[w].pc = "claim"
            /\ \E m \in Messages : Claiming(w, m) /\ Blocked(call[w].conn, KeyOf(w, m))
<1>1. CASE call[w].pc = "begin"
  BY <1>1, Zenon DEF CanGoOn
<1>2. CASE call[w].pc = "claim"
  <2>1. /\ ~(call[w].many /\ call[w].todo = {})
        /\ \A m \in Messages : Claiming(w, m) => Blocked(call[w].conn, KeyOf(w, m))
    BY <1>2, Zenon DEF CanGoOn
  <2>2. call[w].todo # {}
    BY <1>2, <2>1, CallFacts, Zenon DEF ClaimInv
  <2> QED
    BY <1>2, <2>1, <2>2, HasNext, Zenon
<1>3. CASE call[w].pc = "release"
  <2>1. tx[call[w].conn].sp
    BY <1>3, LoopFacts, Zenon
  <2> QED
    BY <1>3, <2>1, Zenon DEF CanGoOn
<1>4. CASE call[w].pc \notin {"begin", "claim", "release"}
  BY <1>4, Zenon DEF CanGoOn
<1> QED
  BY <1>1, <1>2, <1>3, <1>4, Zenon

\* A claim that waits, waits for a call, unless a rollback is still to be run.
LEMMA WaitsForACall ==
  ASSUME IInv, \A c \in Conns : tx[c].st # "dropped",
         NEW w \in Workers, NEW m \in Messages, Claiming(w, m),
         Blocked(call[w].conn, KeyOf(w, m))
  PROVE  \E v \in Workers : WaitsFor(w, v)
<1>1. PICK d \in Conns : BlockedBy(call[w].conn, d, KeyOf(w, m))
  BY Zenon DEF Blocked
<1>2. tx[d].lck # {}
  BY <1>1, Zenon DEF BlockedBy
<1>3. EmptyTx("idle").lck = {}
  BY Zenon DEF EmptyTx
<1>4. tx[d].st = "open"
  <2>1. tx[d].st # "idle"
    BY <1>2, <1>3, IInvFacts, Zenon DEF ConnInv, PoolAccounting
  <2> QED
    BY <2>1, TypeFacts, Zenon DEF Tx
<1>5. PICK v \in Workers : call[v].conn = d
  BY <1>4, IInvFacts, Zenon DEF ConnInv, PoolAccounting
<1>6. call[v].conn # NoConn
  BY <1>5, ConsumerAssumption, Zenon
<1> QED
  BY <1>1, <1>5, <1>6, Zenon DEF WaitsFor

\* Whoever waits for a connection waits for calls that claim, and those do not
\* all wait for each other.
LEMMA IInvSomeCallGoesOn ==
  ASSUME NEW B \in Nat, Messages \subseteq 0..B, IInv
  PROVE  SomeCallGoesOn
<1> SUFFICES ASSUME NEW u \in Workers, call[u].pc # "idle",
                    \A w \in Workers : ~CanGoOn(w),
                    \A c \in Conns : tx[c].st # "dropped"
             PROVE  FALSE
  BY Zenon DEF SomeCallGoesOn
<1> DEFINE S == {w \in Workers : call[w].pc = "claim"}
<1>1. ASSUME NEW v \in Workers, call[v].conn # NoConn
      PROVE  v \in S
  <2>1. call[v].pc \notin {"idle", "begin", "done"}
    BY <1>1, IInvFacts, Zenon DEF ConnInv
  <2> QED
    BY <2>1, StuckCall, Zenon
<1>2. S # {}
  <2>1. CASE call[u].pc = "claim"
    BY <2>1, Zenon
  <2>2. CASE call[u].pc # "claim"
    <3>1. \A c \in Conns : tx[c].st # "idle"
      BY <2>2, StuckCall, Zenon
    <3>2. PICK c \in Conns : TRUE
      BY PoolAssumption, Zenon
    <3>3. tx[c].st = "open"
      BY <3>1, TypeFacts, Zenon DEF Tx
    <3>4. PICK v \in Workers : call[v].conn = c
      BY <3>3, IInvFacts, Zenon DEF ConnInv, PoolAccounting
    <3>5. call[v].conn # NoConn
      BY <3>4, ConsumerAssumption, Zenon
    <3>6. v \in S
      BY <1>1, <3>5, Zenon
    <3> HIDE DEF S
    <3> QED
      BY <3>6, Zenon
  <2> QED
    BY <2>1, <2>2, Zenon
<1>3. ASSUME NEW w \in S PROVE \E v \in S : WaitsFor(w, v)
  <2>1. w \in Workers /\ call[w].pc = "claim"
    BY Zenon
  <2>2. PICK m \in Messages : Claiming(w, m) /\ Blocked(call[w].conn, KeyOf(w, m))
    BY <2>1, StuckCall, Zenon
  <2>3. PICK v \in Workers : WaitsFor(w, v)
    BY <2>1, <2>2, WaitsForACall, Zenon
  <2>4. v \in S
    BY <1>1, <2>3, Zenon DEF WaitsFor
  <2> QED
    BY <2>3, <2>4, Zenon
<1>4. S \in (SUBSET Workers) \ {{}}
  BY <1>2, Zenon
<1>5. NoWaitCycle
  BY IInvNoWaitCycle, Zenon
<1> HIDE DEF S
<1> QED
  BY <1>3, <1>4, <1>5, Zenon DEF NoWaitCycle

\* The calls never all stand still, however small the pool and however the claims
\* overlap.  MySQL is excluded as in NoDeadlock: it may take a deadlock victim
\* before anybody goes on.  Ids have at most 512 bytes, hence the bound.
THEOREM SomeCallAlwaysGoesOn ==
  ASSUME Backend # "mysql", NEW B \in Nat, Messages \subseteq 0..B
  PROVE  Spec => []SomeCallGoesOn
<1>1. IInv => SomeCallGoesOn
  BY IInvSomeCallGoesOn, Zenon
<1> QED
  BY <1>1, Invariance, PTL

-----------------------------------------------------------------------------
(* A call is finite.                                                       *)

\* The measure, point by point of the code.
LEMMA StepsLeftAt ==
  ASSUME NEW q
  PROVE  LET rest == 4 * (Len(q.batch) + 1 - q.pos)
         IN /\ q.pc = "idle" => StepsLeft(q) = 0
            /\ q.pc = "done" => StepsLeft(q) = 1
            /\ q.pc \in {"commit", "rollback", "undo"} => StepsLeft(q) = 2
            /\ q.pc = "run" => StepsLeft(q) = 3
            /\ q.pc = "release" => StepsLeft(q) = rest - 1
            /\ q.pc = "unclaim" => StepsLeft(q) = rest
            /\ q.pc = "rollback_to" => StepsLeft(q) = rest + 1
            /\ q.pc = "loop" => StepsLeft(q) = rest + 2
            /\ q.pc = "claim" => StepsLeft(q) = rest + 3
            /\ q.pc = "begin" => StepsLeft(q) = rest + 4
BY Zenon DEF StepsLeft

\* Inside a call the loop has not run past the end of the slice, so that there are
\* steps left.
LEMMA StepsRemain ==
  ASSUME IInv, NEW w \in Workers
  PROVE  /\ call[w] \in Call /\ Len(call[w].batch) \in Nat /\ call[w].pos \in Nat
         /\ StepsLeft(call[w]) \in Nat
         /\ call[w].pc # "idle" => StepsLeft(call[w]) >= 1
         /\ call[w].pc \notin {"idle", "done"} => StepsLeft(call[w]) >= 2
         /\ call[w].pc = "claim" => call[w].pos = 1
         /\ ~call[w].many /\ call[w].pc # "idle" => Len(call[w].batch) = 1
<1> DEFINE q == call[w]
           n == Len(q.batch)
           p == q.pos
<1>1. q \in Call
  BY TypeFacts, Zenon
<1>2. n \in Nat /\ p \in Nat
  BY <1>1, CallShape, Zenon
<1>3. q.pc \in {"begin", "claim"} => p = 1
  BY CallFacts, Zenon DEF ClaimInv
<1>4. q.pc \in {"loop", "rollback_to", "unclaim"} => p <= n + 1
  <2>1. q.pc \in {"loop", "rollback_to", "unclaim"} => p \in 1..(n + 1)
    BY LoopFacts, Zenon DEF LoopInv
  <2> HIDE DEF n, p
  <2> QED
    BY <1>2, <2>1
<1>5. q.pc \in {"rollback_to", "unclaim", "release"} => p <= n
  <2>1. q.pc \in {"rollback_to", "unclaim", "release"} => p \in DOMAIN q.batch
    BY LoopFacts, Zenon
  <2> QED
    BY <1>1, <2>1, CallShape, Zenon
<1>6. ~q.many /\ q.pc # "idle" => n = 1
  BY CallFacts, Zenon
<1>7. q.pc \in {"idle", "begin", "claim", "run", "commit", "rollback", "undo",
                "loop", "rollback_to", "unclaim", "release", "done"}
  BY <1>1, Zenon DEF Call
<1> DEFINE s == StepsLeft(q)
<1>8. LET rest == 4 * (n + 1 - p)
      IN /\ q.pc = "idle" => s = 0
         /\ q.pc = "done" => s = 1
         /\ q.pc \in {"commit", "rollback", "undo"} => s = 2
         /\ q.pc = "run" => s = 3
         /\ q.pc = "release" => s = rest - 1
         /\ q.pc = "unclaim" => s = rest
         /\ q.pc = "rollback_to" => s = rest + 1
         /\ q.pc = "loop" => s = rest + 2
         /\ q.pc = "claim" => s = rest + 3
         /\ q.pc = "begin" => s = rest + 4
  BY <1>1, StepsLeftAt, Zenon
<1> HIDE DEF n, p, s
<1>9. /\ s \in Nat
      /\ q.pc # "idle" => s >= 1
      /\ q.pc \notin {"idle", "done"} => s >= 2
  BY <1>2, <1>3, <1>4, <1>5, <1>7, <1>8, SMTT(30)
<1> QED
  BY <1>1, <1>2, <1>3, <1>6, <1>9, Zenon DEF n, p, s

\* A call that returns is as good as over.
LEMMA ReturnNearer ==
  ASSUME IInv, NEW w \in Workers, call[w].pc \notin {"idle", "done"},
         NEW r, NEW e, Return(w, r, e)
  PROVE  /\ GetsNearer(call[w], call'[w])
         /\ \A v \in Workers \ {w} : call'[v] = call[v]
<1>1. PICK q : call' = [call EXCEPT ![w] = q] /\ q.pc = "done"
  BY ReturnedCall
<1>2. call'[w] = q /\ \A v \in Workers \ {w} : call'[v] = call[v]
  BY <1>1, TypeFacts, Zenon
<1>3. StepsLeft(q) = 1
  BY <1>1, Zenon DEF StepsLeft
<1>4. StepsLeft(call[w]) \in Nat /\ StepsLeft(call[w]) >= 2
  BY StepsRemain, Zenon
<1>5. StepsLeft(q) < StepsLeft(call[w])
  BY <1>3, <1>4
<1> QED
  BY <1>2, <1>5, Zenon DEF GetsNearer

\* So is one that is settled or cancelled.
LEMMA EndNearer ==
  ASSUME IInv, NEW w \in Workers, call[w].pc # "idle", call' = [call EXCEPT ![w] = IdleCall]
  PROVE  /\ GetsNearer(call[w], call'[w])
         /\ \A v \in Workers \ {w} : call'[v] = call[v]
<1>1. call'[w] = IdleCall /\ \A v \in Workers \ {w} : call'[v] = call[v]
  BY TypeFacts, Zenon
<1>2. IdleCall.pc = "idle"
  BY Zenon DEF IdleCall, NewCall
<1>3. StepsLeft(IdleCall) = 0
  BY <1>2, Zenon DEF StepsLeft
<1>4. StepsLeft(call[w]) \in Nat /\ StepsLeft(call[w]) >= 1
  BY StepsRemain, Zenon
<1>5. StepsLeft(IdleCall) < StepsLeft(call[w])
  BY <1>3, <1>4
<1> QED
  BY <1>1, <1>5, Zenon DEF GetsNearer

\* The ways through the code of process and process_many, every one downwards.
LEMMA WaysDown ==
  ASSUME NEW q, NEW r, Len(q.batch) \in Nat, q.pos \in Nat, r.batch = q.batch,
         \/ q.pc = "begin" /\ r.pc = "claim" /\ r.pos = q.pos
         \/ q.pc = "claim" /\ r.pc \in {"run", "rollback"} /\ q.pos <= Len(q.batch)
         \/ q.pc = "claim" /\ r.pc = "loop" /\ r.pos = q.pos
         \/ q.pc = "run" /\ r.pc \in {"commit", "undo"}
         \/ q.pc = "loop" /\ r.pc \in {"release", "rollback_to"} /\ r.pos = q.pos
         \/ q.pc = "loop" /\ r.pc = "loop" /\ r.pos = q.pos + 1
         \/ q.pc = "rollback_to" /\ r.pc = "unclaim" /\ r.pos = q.pos
         \/ q.pc = "unclaim" /\ r.pc = "release" /\ r.pos = q.pos
         \/ q.pc = "release" /\ r.pc = "loop" /\ r.pos = q.pos + 1
  PROVE  GetsNearer(q, r)
<1> DEFINE n == Len(q.batch)
           p == q.pos
           x == StepsLeft(q)
           y == StepsLeft(r)
<1>1. n \in Nat /\ p \in Nat
  BY Zenon
<1>2. CASE q.pc = "begin" /\ r.pc = "claim" /\ r.pos = p
  <2>1. x = 4 * (n + 1 - p) + 4 /\ y = 4 * (n + 1 - p) + 3
    BY <1>2, StepsLeftAt, Zenon
  <2> HIDE DEF x, y, n, p
  <2>2. y < x
    BY <1>1, <2>1, SMTT(30)
  <2> QED
    BY <2>2, Zenon DEF GetsNearer, x, y
<1>3. CASE q.pc = "claim" /\ r.pc \in {"run", "rollback"} /\ p <= n
  <2>1. x = 4 * (n + 1 - p) + 3 /\ (y = 3 \/ y = 2)
    BY <1>3, StepsLeftAt, Zenon
  <2>2. p <= n
    BY <1>3, Zenon
  <2> HIDE DEF x, y, n, p
  <2>3. y < x
    BY <1>1, <2>1, <2>2, SMTT(30)
  <2> QED
    BY <2>3, Zenon DEF GetsNearer, x, y
<1>4. CASE q.pc = "claim" /\ r.pc = "loop" /\ r.pos = p
  <2>1. x = 4 * (n + 1 - p) + 3 /\ y = 4 * (n + 1 - p) + 2
    BY <1>4, StepsLeftAt, Zenon
  <2> HIDE DEF x, y, n, p
  <2>2. y < x
    BY <1>1, <2>1, SMTT(30)
  <2> QED
    BY <2>2, Zenon DEF GetsNearer, x, y
<1>5. CASE q.pc = "run" /\ r.pc \in {"commit", "undo"}
  <2>1. x = 3 /\ y = 2
    BY <1>5, StepsLeftAt, Zenon
  <2> HIDE DEF x, y, n, p
  <2>2. y < x
    BY <2>1, SMTT(30)
  <2> QED
    BY <2>2, Zenon DEF GetsNearer, x, y
<1>6. CASE q.pc = "loop" /\ r.pc \in {"release", "rollback_to"} /\ r.pos = p
  <2>1. x = 4 * (n + 1 - p) + 2 /\ (y = 4 * (n + 1 - p) - 1 \/ y = 4 * (n + 1 - p) + 1)
    BY <1>6, StepsLeftAt, Zenon
  <2> HIDE DEF x, y, n, p
  <2>2. y < x
    BY <1>1, <2>1, SMTT(30)
  <2> QED
    BY <2>2, Zenon DEF GetsNearer, x, y
<1>7. CASE q.pc = "loop" /\ r.pc = "loop" /\ r.pos = p + 1
  <2>1. x = 4 * (n + 1 - p) + 2 /\ y = 4 * (n + 1 - (p + 1)) + 2
    BY <1>7, StepsLeftAt, Zenon
  <2> HIDE DEF x, y, n, p
  <2>2. y < x
    BY <1>1, <2>1, SMTT(30)
  <2> QED
    BY <2>2, Zenon DEF GetsNearer, x, y
<1>8. CASE q.pc = "rollback_to" /\ r.pc = "unclaim" /\ r.pos = p
  <2>1. x = 4 * (n + 1 - p) + 1 /\ y = 4 * (n + 1 - p)
    BY <1>8, StepsLeftAt, Zenon
  <2> HIDE DEF x, y, n, p
  <2>2. y < x
    BY <1>1, <2>1, SMTT(30)
  <2> QED
    BY <2>2, Zenon DEF GetsNearer, x, y
<1>9. CASE q.pc = "unclaim" /\ r.pc = "release" /\ r.pos = p
  <2>1. x = 4 * (n + 1 - p) /\ y = 4 * (n + 1 - p) - 1
    BY <1>9, StepsLeftAt, Zenon
  <2> HIDE DEF x, y, n, p
  <2>2. y < x
    BY <1>1, <2>1, SMTT(30)
  <2> QED
    BY <2>2, Zenon DEF GetsNearer, x, y
<1>10. CASE q.pc = "release" /\ r.pc = "loop" /\ r.pos = p + 1
  <2>1. x = 4 * (n + 1 - p) - 1 /\ y = 4 * (n + 1 - (p + 1)) + 2
    BY <1>10, StepsLeftAt, Zenon
  <2> HIDE DEF x, y, n, p
  <2>2. y < x
    BY <1>1, <2>1
  <2> QED
    BY <2>2, Zenon DEF GetsNearer, x, y
<1> QED
  BY <1>2, <1>3, <1>4, <1>5, <1>6, <1>7, <1>8, <1>9, <1>10, Zenon

\* A call that goes on takes one of them, or claims one id more.
LEMMA StepNearer ==
  ASSUME IInv, NEW w \in Workers,
         \/ BeginTx(w) \/ ClaimFresh(w) \/ ClaimDuplicate(w) \/ OpenSavepoint(w)
         \/ SkipDuplicate(w) \/ HandlerOk(w) \/ HandlerErr(w)
         \/ RollbackToSavepoint(w) \/ UnclaimFailed(w) \/ ReleaseSavepoint(w)
  PROVE  GetsNearer(call[w], call'[w])
<1>0. /\ call \in [Workers -> Call] /\ call[w] \in Call
      /\ Len(call[w].batch) \in Nat /\ call[w].pos \in Nat
      /\ call[w].pc = "claim" => call[w].pos = 1
      /\ ~call[w].many /\ call[w].pc # "idle" => Len(call[w].batch) = 1
  BY StepsRemain, TypeFacts, Zenon
<1>1. CASE BeginTx(w)
  <2>1. PICK c : call' = [call EXCEPT ![w].pc = "claim", ![w].conn = c,
                                      ![w].todo = Ids(call[w].batch)]
    BY <1>1, Zenon DEF BeginTx
  <2>2. /\ call'[w].batch = call[w].batch /\ call'[w].pos = call[w].pos
        /\ call[w].pc = "begin" /\ call'[w].pc = "claim"
    BY <1>0, <1>1, <2>1, Zenon DEF BeginTx, Call
  <2> QED
    BY <1>0, <2>2, WaysDown, Zenon
<1>2. CASE ClaimFresh(w) \/ ClaimDuplicate(w)
  <2>1. PICK m : call[w].pc = "claim" /\ m \in call[w].todo /\ call'[w].todo = call[w].todo \ {m}
    <3>1. CASE ClaimFresh(w)
      <4>1. PICK m : /\ call[w].pc = "claim" /\ m \in call[w].todo
                     /\ call' = [call EXCEPT
                                   ![w].pc = IF call[w].many THEN "claim" ELSE "run",
                                   ![w].todo = @ \ {m}, ![w].fresh = @ \cup {m}]
        BY <3>1, Zenon DEF ClaimFresh, Claiming, IsNext
      <4>2. call'[w].todo = call[w].todo \ {m}
        BY <1>0, <4>1, Zenon DEF Call
      <4> QED
        BY <4>1, <4>2, Zenon
    <3>2. CASE ClaimDuplicate(w)
      <4>1. PICK m : /\ call[w].pc = "claim" /\ m \in call[w].todo
                     /\ call' = [call EXCEPT
                                   ![w].pc = IF call[w].many THEN "claim" ELSE "rollback",
                                   ![w].todo = @ \ {m}]
        BY <3>2, Zenon DEF ClaimDuplicate, Claiming, IsNext
      <4>2. call'[w].todo = call[w].todo \ {m}
        BY <1>0, <4>1, Zenon DEF Call
      <4> QED
        BY <4>1, <4>2, Zenon
    <3> QED
      BY <1>2, <3>1, <3>2, Zenon
  <2>2. /\ call'[w].batch = call[w].batch /\ call'[w].pos = call[w].pos
        /\ call[w].many => call'[w].pc = "claim"
        /\ ~call[w].many => call'[w].pc \in {"run", "rollback"}
    <3>1. CASE ClaimFresh(w)
      <4>1. PICK l : call' = [call EXCEPT
                                ![w].pc = IF call[w].many THEN "claim" ELSE "run",
                                ![w].todo = @ \ {l}, ![w].fresh = @ \cup {l}]
        BY <3>1, Zenon DEF ClaimFresh
      <4> QED
        BY <1>0, <4>1, Zenon DEF Call
    <3>2. CASE ClaimDuplicate(w)
      <4>1. PICK l : call' = [call EXCEPT
                                ![w].pc = IF call[w].many THEN "claim" ELSE "rollback",
                                ![w].todo = @ \ {l}]
        BY <3>2, Zenon DEF ClaimDuplicate
      <4> QED
        BY <1>0, <4>1, Zenon DEF Call
    <3> QED
      BY <1>2, <3>1, <3>2, Zenon
  <2>3. CASE call[w].many
    <3>1. StepsLeft(call'[w]) = StepsLeft(call[w])
      <4>1. call'[w].pc = "claim" /\ call[w].pc = "claim"
        BY <2>1, <2>2, <2>3, Zenon
      <4>2. StepsLeft(call'[w]) = 4 * (Len(call'[w].batch) + 1 - call'[w].pos) + 3
        BY <4>1, StepsLeftAt, Zenon
      <4>3. StepsLeft(call[w]) = 4 * (Len(call[w].batch) + 1 - call[w].pos) + 3
        BY <4>1, StepsLeftAt, Zenon
      <4> QED
        BY <2>2, <4>2, <4>3, Zenon
    <3>2. call'[w].todo \subseteq call[w].todo /\ call'[w].todo # call[w].todo
      BY <2>1, <2>2, Zenon
    <3> QED
      BY <3>1, <3>2, Zenon DEF GetsNearer
  <2>4. CASE ~call[w].many
    <3>1. call[w].pos = 1 /\ Len(call[w].batch) = 1 /\ call'[w].pc \in {"run", "rollback"}
      BY <1>0, <2>1, <2>2, <2>4, Zenon
    <3>2. call[w].pos <= Len(call[w].batch)
      BY <3>1
    <3> QED
      BY <1>0, <2>1, <2>2, <3>1, <3>2, WaysDown, Zenon
  <2> QED
    BY <2>3, <2>4, Zenon
<1>3. CASE OpenSavepoint(w)
  <2>1. /\ call'[w].batch = call[w].batch /\ call'[w].pos = call[w].pos
        /\ call[w].pc = "claim" /\ call'[w].pc = "loop"
    BY <1>0, <1>3, Zenon DEF OpenSavepoint, Call
  <2> QED
    BY <1>0, <2>1, WaysDown, Zenon
<1>4. CASE SkipDuplicate(w)
  <2>1. /\ call'[w].batch = call[w].batch /\ call'[w].pos = call[w].pos + 1
        /\ call[w].pc = "loop" /\ call'[w].pc = "loop"
    BY <1>0, <1>4, Zenon DEF SkipDuplicate, InLoop, Call
  <2> QED
    BY <1>0, <2>1, WaysDown, Zenon
<1>5. CASE HandlerOk(w) \/ HandlerErr(w)
  <2>1. call[w].pc \in {"run", "loop"} /\ (call[w].pc = "run" <=> ~call[w].many)
    <3>1. AtHandler(w)
      BY <1>5, Zenon DEF HandlerOk, HandlerErr
    <3> QED
      BY <3>1, CallFacts, LoopFacts, Zenon DEF AtHandler, InLoop, LoopInv
  <2>2. /\ call'[w].batch = call[w].batch /\ call'[w].pos = call[w].pos
        /\ call[w].many => call'[w].pc \in {"release", "rollback_to"}
        /\ ~call[w].many => call'[w].pc \in {"commit", "undo"}
    <3>1. CASE HandlerOk(w)
      BY <1>0, <3>1, Zenon DEF HandlerOk, Call
    <3>2. CASE HandlerErr(w)
      BY <1>0, <3>2, Zenon DEF HandlerErr, Call
    <3> QED
      BY <1>5, <3>1, <3>2, Zenon
  <2> QED
    BY <1>0, <2>1, <2>2, WaysDown, Zenon
<1>6. CASE RollbackToSavepoint(w)
  <2>1. /\ call'[w].batch = call[w].batch /\ call'[w].pos = call[w].pos
        /\ call[w].pc = "rollback_to" /\ call'[w].pc = "unclaim"
    BY <1>0, <1>6, Zenon DEF RollbackToSavepoint, Call
  <2> QED
    BY <1>0, <2>1, WaysDown, Zenon
<1>7. CASE UnclaimFailed(w)
  <2>1. /\ call'[w].batch = call[w].batch /\ call'[w].pos = call[w].pos
        /\ call[w].pc = "unclaim" /\ call'[w].pc = "release"
    BY <1>0, <1>7, Zenon DEF UnclaimFailed, Call
  <2> QED
    BY <1>0, <2>1, WaysDown, Zenon
<1>8. CASE ReleaseSavepoint(w)
  <2>1. /\ call'[w].batch = call[w].batch /\ call'[w].pos = call[w].pos + 1
        /\ call[w].pc = "release" /\ call'[w].pc = "loop"
    BY <1>0, <1>8, Zenon DEF ReleaseSavepoint, Call
  <2> QED
    BY <1>0, <2>1, WaysDown, Zenon
<1> QED
  BY <1>1, <1>2, <1>3, <1>4, <1>5, <1>6, <1>7, <1>8, Zenon

\* Whatever happens in a call, it gets nearer to its end: process and process_many
\* come back after a number of steps that the slice bounds, whatever the handlers,
\* the other calls and the faults do.
THEOREM CallsAlwaysFinite == Spec => CallsAreFinite
<1>1. IInv /\ [Next]_vars =>
        [\A w \in Workers :
           call[w].pc # "idle" /\ call'[w] # call[w] => GetsNearer(call[w], call'[w])]_vars
  <2> SUFFICES ASSUME IInv, [Next]_vars, NEW w \in Workers,
                      call[w].pc # "idle", call'[w] # call[w]
               PROVE  GetsNearer(call[w], call'[w])
    BY Zenon
  <2>1. ASSUME NEW u \in Workers,
               \/ BeginTx(u) \/ ClaimFresh(u) \/ ClaimDuplicate(u) \/ OpenSavepoint(u)
               \/ SkipDuplicate(u) \/ HandlerOk(u) \/ HandlerErr(u)
               \/ RollbackToSavepoint(u) \/ UnclaimFailed(u) \/ ReleaseSavepoint(u)
        PROVE  GetsNearer(call[w], call'[w])
    <3>1. u = w
      BY <2>1, GoingOn, Zenon
    <3> QED
      BY <2>1, <3>1, StepNearer, Zenon
  <2>2. ASSUME NEW u \in Workers,
               \/ SavepointLost(u) \/ RollbackHandlerErr(u) \/ CommitAnswerLost(u)
               \/ ClaimContended(u) \/ StatementFails(u) \/ CommitTx(u) \/ RollbackDuplicate(u)
        PROVE  GetsNearer(call[w], call'[w])
    <3>1. PICK r, e : Return(u, r, e)
      BY <2>2, Zenon DEF SavepointLost, RollbackHandlerErr, CommitAnswerLost, ClaimContended,
                  StatementFails, CommitTx, RollbackDuplicate
    <3>2. call[u].pc \notin {"idle", "done"}
      BY <2>2, Zenon DEF SavepointLost, RollbackHandlerErr, CommitAnswerLost, ClaimContended,
                  StatementFails, CommitTx, RollbackDuplicate, AtCommit, AtStatement, Claiming
    <3> QED
      BY <3>1, <3>2, ReturnNearer, Zenon
  <2>3. ASSUME NEW u \in Workers, Cancel(u) \/ Settle(u)
        PROVE  GetsNearer(call[w], call'[w])
    <3>1. call[u].pc # "idle" /\ call' = [call EXCEPT ![u] = IdleCall]
      BY <2>3, Zenon DEF Cancel, Settle
    <3> QED
      BY <3>1, EndNearer, Zenon
  <2>4. ASSUME NEW u \in Workers,
               \/ \E m \in Messages : Process(u, m) \/ SkipKnown(u, m)
               \/ \E b \in Batches : ProcessMany(u, b)
        PROVE  FALSE
    <3>1. call[u].pc = "idle" /\ (call' = call \/ \E q : call' = [call EXCEPT ![u] = q])
      BY <2>4, Zenon DEF Process, SkipKnown, ProcessMany
    <3> QED
      BY <3>1, TypeFacts, Zenon
  <2>5. ASSUME NEW c \in Conns, PoolRollback(c) PROVE FALSE
    BY <2>5, Zenon DEF PoolRollback
  <2>6. CASE UNCHANGED vars
    BY <2>6, Zenon DEF vars
  <2> QED
    BY <2>1, <2>2, <2>3, <2>4, <2>5, <2>6, Zenon DEF Next, Advance
<1> QED
  BY <1>1, Invariance, PTL DEF Spec, CallsAreFinite

-----------------------------------------------------------------------------
(* What ClaimMany is for the loop.                                         *)

\* The claims the loop goes by stay what claiming the slice one id at a time would
\* give, until the commit: a Duplicate's row stays, and a Fresh one's lock keeps
\* other calls from committing it.
THEOREM ClaimsAlwaysTrue == Spec => []ClaimsStayTrue
<1>1. IInv /\ HoldsInv => ClaimsStayTrue
  <2> SUFFICES ASSUME IInv, HoldsInv, NEW w \in Workers, InBatch(w),
                      NEW i \in DOMAIN call[w].batch
               PROVE  FreshAt(w, i) <=> C!OneByOne(call[w].batch, Recorded(w))[i] = C!Fresh
    BY ZenonT(40) DEF ClaimsStayTrue
  <2> DEFINE b == call[w].batch
             f == call[w].fresh
  <2>1. Keys(w, Ids(b) \ f) \subseteq rows
    BY LoopFacts, Zenon DEF InBatch, LoopInv
  <2>2. \A k \in Keys(w, f) : k \notin rows
    BY Zenon DEF HoldsInv, HoldInv
  <2>3. b[i] \in Ids(b)
    BY Zenon DEF Ids
  <2>4. b[i] \in Messages
    <3>1. b \in Seq(Messages)
      BY TypeFacts, Zenon DEF Call
    <3> QED
      BY <3>1
  <2>5. b[i] \in f <=> KeyOf(w, b[i]) \notin rows
    BY <2>1, <2>2, <2>3, Zenon DEF Keys
  <2>6. b[i] \in f <=> b[i] \notin Recorded(w)
    BY <2>4, <2>5, Zenon DEF Recorded
  <2>7. C!OneByOne(b, Recorded(w))[i] = IF b[i] \in Recorded(w) \cup Seen(w, i)
                                        THEN C!Duplicate ELSE C!Fresh
    BY Zenon DEF C!OneByOne, Seen
  <2>8. C!Duplicate # C!Fresh
    BY Zenon DEF C!Duplicate, C!Fresh
  <2> QED
    BY <2>6, <2>7, <2>8, Zenon DEF FreshAt
<1> QED
  BY <1>1, HoldsInvariance, Invariance, PTL

-----------------------------------------------------------------------------
(* What process is for Retention.                                          *)

\* Without batches every call is one of process.
OnlyProcess == \A w \in Workers : ~call[w].many

\* A call returns as what it was made.
LEMMA ReturnedKind ==
  ASSUME NEW w \in Workers, call \in [Workers -> Call], NEW r, NEW x, Return(w, r, x)
  PROVE  /\ call'[w].many = call[w].many /\ call'[w].pc = "done"
         /\ \A v \in Workers \ {w} : call'[v] = call[v]
<1>1. PICK q : q = [NewCall("done", call[w].many, call[w].batch)
                    EXCEPT !.results = r, !.err = x]
  BY Zenon
<1>2. q.many = call[w].many /\ q.pc = "done"
  BY <1>1, Zenon DEF NewCall
<1>3. call' = [call EXCEPT ![w] = q]
  BY <1>1, Zenon DEF Return
<1> QED
  BY <1>2, <1>3, Zenon

\* What a call is, process or process_many, is settled when it is made.
LEMMA SameKind ==
  ASSUME IInv, NEW w \in Workers, Advance(w), ~call[w].many
  PROVE  ~call'[w].many /\ \A v \in Workers \ {w} : call'[v] = call[v]
<1>0. call \in [Workers -> Call] /\ call[w] \in Call
  BY TypeFacts, Zenon
<1>1. CASE BeginTx(w)
  <2>1. PICK c : call' = [call EXCEPT ![w].pc = "claim", ![w].conn = c,
                                      ![w].todo = Ids(call[w].batch)]
    BY <1>1, Zenon DEF BeginTx
  <2> QED
    BY <1>0, <2>1, Zenon DEF Call
<1>2. CASE ClaimFresh(w)
  <2>1. PICK m : call' = [call EXCEPT ![w].pc = IF call[w].many THEN "claim" ELSE "run",
                                      ![w].todo = @ \ {m}, ![w].fresh = @ \cup {m}]
    BY <1>2, Zenon DEF ClaimFresh
  <2> QED
    BY <1>0, <2>1, Zenon DEF Call
<1>3. CASE ClaimDuplicate(w)
  <2>1. PICK m : call' = [call EXCEPT ![w].pc = IF call[w].many THEN "claim" ELSE "rollback",
                                      ![w].todo = @ \ {m}]
    BY <1>3, Zenon DEF ClaimDuplicate
  <2> QED
    BY <1>0, <2>1, Zenon DEF Call
<1>4. CASE HandlerOk(w)
  BY <1>0, <1>4, Zenon DEF HandlerOk, Call
<1>5. CASE HandlerErr(w)
  BY <1>0, <1>5, Zenon DEF HandlerErr, Call
<1>6. CASE CommitTx(w) \/ RollbackDuplicate(w) \/ RollbackHandlerErr(w)
  <2>1. PICK r, x : Return(w, r, x)
    BY <1>6, Zenon DEF CommitTx, RollbackDuplicate, RollbackHandlerErr
  <2> QED
    BY <1>0, <2>1, ReturnedKind, Zenon
<1>7. CASE Settle(w)
  BY <1>0, <1>7, ZenonT(40) DEF Settle, IdleCall, NewCall
<1>8. ASSUME OpenSavepoint(w) \/ SkipDuplicate(w) \/ RollbackToSavepoint(w) \/ SavepointLost(w)
             \/ UnclaimFailed(w) \/ ReleaseSavepoint(w)
      PROVE  FALSE
  <2>1. call[w].pc \in {"loop", "rollback_to", "unclaim", "release"}
    BY <1>8, Zenon DEF OpenSavepoint, SkipDuplicate, InLoop, RollbackToSavepoint, SavepointLost,
                UnclaimFailed, ReleaseSavepoint
  <2> QED
    BY <2>1, LoopFacts, Zenon DEF LoopInv
<1> QED
  BY <1>1, <1>2, <1>3, <1>4, <1>5, <1>6, <1>7, <1>8, Zenon DEF Advance

\* Without batches nobody calls process_many.
LEMMA NextOnlyProcess ==
  ASSUME Batches = {}, IInv, OnlyProcess, [Next]_vars
  PROVE  OnlyProcess'
<1>0. call \in [Workers -> Call]
  BY TypeFacts, Zenon
<1>1. ASSUME NEW w \in Workers, Advance(w) PROVE OnlyProcess'
  BY <1>1, SameKind, Zenon DEF OnlyProcess
<1>2. ASSUME NEW w \in Workers, ClaimContended(w) \/ CommitAnswerLost(w) \/ StatementFails(w)
      PROVE  OnlyProcess'
  <2>1. PICK r, x : Return(w, r, x)
    BY <1>2, Zenon DEF ClaimContended, CommitAnswerLost, StatementFails
  <2> QED
    BY <1>0, <2>1, ReturnedKind, Zenon DEF OnlyProcess
<1>3. ASSUME NEW w \in Workers, Cancel(w) PROVE OnlyProcess'
  BY <1>0, <1>3, Zenon DEF OnlyProcess, Cancel, IdleCall, NewCall
<1>4. ASSUME NEW w \in Workers, NEW m \in Messages, Process(w, m) PROVE OnlyProcess'
  BY <1>0, <1>4, Zenon DEF OnlyProcess, Process, NewCall
<1>5. ASSUME call' = call PROVE OnlyProcess'
  BY <1>5, Zenon DEF OnlyProcess
<1> QED
  BY <1>1, <1>2, <1>3, <1>4, <1>5, Zenon DEF Next, SkipKnown, PoolRollback, vars

\* What every worker is handling, what is recorded, and what stays as it is.
Work == [w \in Workers |-> DeliveryOf(w, call[w])]
Rows == {<<k, 0>> : k \in rows}

\* The fields of a delivery.
LEMMA HandlingFields ==
  ASSUME NEW st, NEW k
  PROVE  /\ Handling(st, k).st = st /\ Handling(st, k).msg = k
         /\ Handling(st, k).start = 0 /\ Handling(st, k).stamp = 0
BY Zenon DEF Handling

\* The delivery at every point of the code of process.
LEMMA DeliveryAt ==
  ASSUME NEW w, NEW q
  PROVE  LET k == KeyOf(w, q.batch[1])
         IN /\ q.pc = "begin" => DeliveryOf(w, q) = Handling("got", k)
            /\ q.pc = "claim" => DeliveryOf(w, q) = Handling("tx", k)
            /\ q.pc \in {"run", "commit"} => DeliveryOf(w, q) = Handling("claimed", k)
            /\ q.pc \notin {"begin", "claim", "run", "commit"}
                 => DeliveryOf(w, q) = Handling("idle", NoConn)
BY Zenon DEF DeliveryOf

\* How Retention writes the steps of a delivery.
Received(w, k) == [Work EXCEPT ![w].st = "got", ![w].msg = k, ![w].at = 0]
Started(w) == [Work EXCEPT ![w].st = "tx", ![w].start = 0]
Stamped(w) == [Work EXCEPT ![w].st = "claimed", ![w].stamp = 0]

\* With time standing still they change the state of the delivery only.
LEMMA SameUpdates ==
  ASSUME NEW w \in Workers, NEW k
  PROVE  /\ Work[w] = Handling("idle", NoConn) =>
              Received(w, k) = [Work EXCEPT ![w] = Handling("got", k)]
         /\ Work[w] = Handling("got", k) => Started(w) = [Work EXCEPT ![w] = Handling("tx", k)]
         /\ Work[w] = Handling("tx", k) => Stamped(w) = [Work EXCEPT ![w] = Handling("claimed", k)]
<1>0. Work = [v \in Workers |-> Work[v]]
  BY Zenon DEF Work
<1>1. ASSUME Work[w] = Handling("idle", NoConn)
      PROVE  Received(w, k) = [Work EXCEPT ![w] = Handling("got", k)]
  <2>1. [[[Handling("idle", NoConn) EXCEPT !.st = "got"] EXCEPT !.msg = k] EXCEPT !.at = 0]
          = Handling("got", k)
    <3>1. [Handling("idle", NoConn) EXCEPT !.st = "got"] = Handling("got", NoConn)
      BY DEF Handling
    <3>2. [Handling("got", NoConn) EXCEPT !.msg = k] = Handling("got", k)
      BY DEF Handling
    <3>3. [Handling("got", k) EXCEPT !.at = 0] = Handling("got", k)
      BY DEF Handling
    <3> QED
      BY <3>1, <3>2, <3>3, Zenon
  <2> QED
    BY <1>0, <1>1, <2>1, Zenon DEF Received
<1>2. ASSUME Work[w] = Handling("got", k)
      PROVE  Started(w) = [Work EXCEPT ![w] = Handling("tx", k)]
  <2>1. [[Handling("got", k) EXCEPT !.st = "tx"] EXCEPT !.start = 0] = Handling("tx", k)
    <3>1. [Handling("got", k) EXCEPT !.st = "tx"] = Handling("tx", k)
      BY DEF Handling
    <3>2. [Handling("tx", k) EXCEPT !.start = 0] = Handling("tx", k)
      BY DEF Handling
    <3> QED
      BY <3>1, <3>2, Zenon
  <2> QED
    BY <1>0, <1>2, <2>1, Zenon DEF Started
<1>3. ASSUME Work[w] = Handling("tx", k)
      PROVE  Stamped(w) = [Work EXCEPT ![w] = Handling("claimed", k)]
  <2>1. [[Handling("tx", k) EXCEPT !.st = "claimed"] EXCEPT !.stamp = 0] = Handling("claimed", k)
    <3>1. [Handling("tx", k) EXCEPT !.st = "claimed"] = Handling("claimed", k)
      BY DEF Handling
    <3>2. [Handling("claimed", k) EXCEPT !.stamp = 0] = Handling("claimed", k)
      BY DEF Handling
    <3> QED
      BY <3>1, <3>2, Zenon
  <2> QED
    BY <1>0, <1>3, <2>1, Zenon DEF Stamped
<1> QED
  BY <1>1, <1>2, <1>3, Zenon

\* A step of w's call changes what w is handling and nothing else.
LEMMA WorkStep ==
  ASSUME NEW w \in Workers, NEW d, DeliveryOf(w, call'[w]) = d,
         \A v \in Workers \ {w} : call'[v] = call[v]
  PROVE  Work' = [Work EXCEPT ![w] = d]
BY Zenon DEF Work

\* A step that gives up a delivery, or comes after its end.
LEMMA GivesUp ==
  ASSUME NEW w \in Workers, rows' = rows, applied' = applied,
         DeliveryOf(w, call'[w]) = Handling("idle", NoConn),
         \A v \in Workers \ {w} : call'[v] = call[v],
         call[w].pc \in {"idle", "begin", "claim", "run", "commit", "rollback", "undo",
                         "loop", "rollback_to", "unclaim", "release", "done"}
  PROVE  [R!Next]_(R!vars)
<1> DEFINE k == KeyOf(w, call[w].batch[1])
<1>1. Work' = [Work EXCEPT ![w] = Handling("idle", NoConn)] /\ Rows' = Rows
  BY WorkStep, Zenon DEF Rows
<1>2. CASE call[w].pc \notin {"begin", "claim", "run", "commit"}
  <2>1. Work[w] = Handling("idle", NoConn)
    BY <1>2, DeliveryAt, Zenon DEF Work
  <2>2. Work' = Work
    BY <1>1, <2>1, Zenon DEF Work
  <2> QED
    BY <1>1, <2>2, Zenon DEF R!vars, Work, Rows
<1>3. CASE call[w].pc \in {"begin", "claim", "run", "commit"}
  <2>1. Work[w] \in {Handling("got", k), Handling("tx", k), Handling("claimed", k)}
    BY <1>3, DeliveryAt, Zenon DEF Work
  <2>2. Work[w].st # "idle"
    BY <2>1 DEF Handling
  <2>3. R!GiveUp(w)
    BY <1>1, <2>2, Zenon DEF R!GiveUp, R!Idle, R!purgeVars, Handling, Work, Rows
  <2> QED
    BY <2>3, Zenon DEF R!Next
<1> QED
  BY <1>2, <1>3, Zenon

\* Claims of process wait for the deliveries that have claimed the message: their
\* row is in their transaction, and its lock with it.
LEMMA ClaimIsUnlocked ==
  ASSUME IInv, NEW w \in Workers, call[w].pc = "claim", NEW k, Work[w].msg = k,
         ~Blocked(call[w].conn, k)
  PROVE  R!Unlocked(w)
<1> SUFFICES ASSUME NEW v \in Workers, Work[v].st = "claimed", Work[v].msg = k
             PROVE  FALSE
  BY Zenon DEF R!Unlocked, Work
<1> DEFINE kv == KeyOf(v, call[v].batch[1])
<1>1. call[v].pc \in {"run", "commit"}
  <2>1. Work[v] = DeliveryOf(v, call[v])
    BY Zenon DEF Work
  <2>2. CASE call[v].pc = "begin"
    BY <2>1, <2>2, DeliveryAt, HandlingFields, SMTT(30)
  <2>3. CASE call[v].pc = "claim"
    BY <2>1, <2>3, DeliveryAt, HandlingFields, SMTT(30)
  <2>4. CASE call[v].pc \notin {"begin", "claim", "run", "commit"}
    BY <2>1, <2>4, DeliveryAt, HandlingFields, SMTT(30)
  <2> QED
    BY <2>2, <2>3, <2>4, Zenon
<1>2. kv = k
  <2>1. Work[v] = Handling("claimed", kv)
    BY <1>1, DeliveryAt, Zenon DEF Work
  <2> QED
    BY <2>1, HandlingFields
<1>3. k \in tx[call[v].conn].ins
  <2>1. tx[call[v].conn].ins = {kv}
    BY <1>1, CallFacts, Zenon DEF RunInv, CommitInv
  <2> QED
    BY <1>2, <2>1, Zenon
<1>4. call[v].conn \in Conns /\ call[w].conn \in Conns
  BY <1>1, InTx, Zenon
<1>5. call[v].conn # call[w].conn
  BY <1>1, <1>4, IInvFacts, Zenon DEF ConnInv, PoolAccounting
<1>6. k \in tx[call[v].conn].lck
  BY <1>3, <1>4, IInvFacts, Zenon DEF LockInv
<1> QED
  BY <1>4, <1>5, <1>6, Zenon DEF Blocked, BlockedBy

\* The id process claims is the one it was called with.
LEMMA ProcessClaims ==
  ASSUME IInv, NEW w \in Workers, ~call[w].many, NEW m, Claiming(w, m)
  PROVE  /\ m = call[w].batch[1] /\ call[w].pc = "claim"
         /\ Work[w] = Handling("tx", KeyOf(w, m))
         /\ tx[call[w].conn].ins = {}
<1>1. call[w].pc = "claim" /\ m \in call[w].todo
  BY Zenon DEF Claiming, IsNext
<1>2. call[w].todo \subseteq Ids(call[w].batch) /\ Len(call[w].batch) = 1
  BY <1>1, CallFacts, Zenon DEF ClaimInv
<1>3. m = call[w].batch[1]
  <2>1. call[w].batch \in Seq(Messages)
    BY TypeFacts, Zenon DEF Call
  <2>2. DOMAIN call[w].batch = {1}
    BY <1>2, <2>1, SMTT(30)
  <2> QED
    BY <1>1, <1>2, <2>2, Zenon DEF Ids
<1>4. Work[w] = Handling("tx", KeyOf(w, m))
  BY <1>1, <1>3, DeliveryAt, Zenon DEF Work
<1>5. tx[call[w].conn].ins = {}
  <2>1. tx[call[w].conn].ins = Keys(w, call[w].fresh) /\ call[w].fresh = {}
    BY <1>1, CallFacts, Zenon DEF ClaimInv
  <2> QED
    BY <2>1, ZenonT(40) DEF Keys
<1> QED
  BY <1>1, <1>3, <1>4, <1>5, Zenon

\* A message has a row in one view exactly if it has one in the other.
LEMMA SameRows == ASSUME NEW k PROVE R!HasRow(k) <=> k \in rows
<1>1. ASSUME R!HasRow(k) PROVE k \in rows
  <2>1. PICK l \in rows : <<l, 0>>[1] = k
    BY <1>1, Zenon DEF R!HasRow
  <2> QED
    BY <2>1, Zenon
<1>2. ASSUME k \in rows PROVE R!HasRow(k)
  <2>1. <<k, 0>> \in {<<l, 0>> : l \in rows} /\ <<k, 0>>[1] = k
    BY <1>2, Zenon
  <2> QED
    BY <2>1, Zenon DEF R!HasRow
<1> QED
  BY <1>1, <1>2, Zenon

\* Claiming.
LEMMA ClaimDelivers ==
  ASSUME IInv, OnlyProcess, NEW w \in Workers, ClaimFresh(w) \/ ClaimDuplicate(w)
  PROVE  R!Next
<1>0. call \in [Workers -> Call] /\ call[w] \in Call /\ ~call[w].many
  BY TypeFacts, Zenon DEF OnlyProcess
<1>1. PICK m \in Messages : /\ Claiming(w, m)
                            /\ \/ /\ InsertRow(call[w].conn, KeyOf(w, m))
                                  /\ call' = [call EXCEPT
                                                ![w].pc = IF call[w].many THEN "claim" ELSE "run",
                                                ![w].todo = @ \ {m}, ![w].fresh = @ \cup {m}]
                               \/ /\ HitRow(call[w].conn, KeyOf(w, m), call[w].many)
                                  /\ call' = [call EXCEPT
                                                ![w].pc = IF call[w].many THEN "claim" ELSE "rollback",
                                                ![w].todo = @ \ {m}]
  BY Zenon DEF ClaimFresh, ClaimDuplicate
<1> DEFINE k == KeyOf(w, m)
<1>2. /\ m = call[w].batch[1] /\ call[w].pc = "claim" /\ Work[w] = Handling("tx", k)
      /\ tx[call[w].conn].ins = {}
  BY <1>0, <1>1, ProcessClaims, Zenon
<1>3. Work[w].st = "tx" /\ Work[w].msg = k /\ Work[w].start = 0
  BY <1>2, HandlingFields, SMTT(30)
<1>4. ~Blocked(call[w].conn, k) /\ rows' = rows /\ applied' = applied
  BY <1>1, Zenon DEF InsertRow, HitRow
<1>5. R!Unlocked(w)
  BY <1>2, <1>3, <1>4, ClaimIsUnlocked, Zenon
<1>6. Rows' = Rows
  BY <1>4, Zenon DEF Rows
<1>7. CASE /\ InsertRow(call[w].conn, KeyOf(w, m))
           /\ call' = [call EXCEPT ![w].pc = IF call[w].many THEN "claim" ELSE "run",
                                   ![w].todo = @ \ {m}, ![w].fresh = @ \cup {m}]
  <2>1. /\ call'[w].pc = "run" /\ call'[w].batch = call[w].batch
        /\ \A v \in Workers \ {w} : call'[v] = call[v]
    BY <1>0, <1>7, Zenon DEF Call
  <2>2. DeliveryOf(w, call'[w]) = Handling("claimed", k)
    <3>1. KeyOf(w, call'[w].batch[1]) = k
      BY <1>2, <2>1, Zenon
    <3> QED
      BY <2>1, <3>1, DeliveryAt, SMTT(30)
  <2>3. Work' = [Work EXCEPT ![w] = Handling("claimed", k)]
    BY <2>1, <2>2, WorkStep, Zenon
  <2>4. Work' = Stamped(w)
    BY <1>2, <2>3, SameUpdates, Zenon
  <2>5. ~R!HasRow(Work[w].msg)
    BY <1>3, <1>7, SameRows, Zenon DEF InsertRow
  <2>6. 0 \in Work[w].start..0
    BY <1>3, SMTT(30)
  <2>7. R!ClaimFresh(w)
    BY <1>3, <1>4, <1>5, <1>6, <2>4, <2>5, <2>6, Zenon
       DEF R!ClaimFresh, R!purgeVars, Stamped, Work, Rows
  <2> QED
    BY <2>7, Zenon DEF R!Next
<1>8. CASE /\ HitRow(call[w].conn, KeyOf(w, m), call[w].many)
           /\ call' = [call EXCEPT ![w].pc = IF call[w].many THEN "claim" ELSE "rollback",
                                   ![w].todo = @ \ {m}]
  <2>1. /\ call'[w].pc = "rollback" /\ \A v \in Workers \ {w} : call'[v] = call[v]
    BY <1>0, <1>8, Zenon DEF Call
  <2>2. DeliveryOf(w, call'[w]) = Handling("idle", NoConn)
    BY <2>1, DeliveryAt, Zenon
  <2>3. Work' = [Work EXCEPT ![w] = Handling("idle", NoConn)]
    BY <2>1, <2>2, WorkStep, Zenon
  <2>4. R!HasRow(Work[w].msg)
    BY <1>2, <1>3, <1>8, SameRows, Zenon DEF HitRow
  <2>5. R!ClaimDuplicate(w)
    BY <1>3, <1>4, <1>5, <1>6, <2>3, <2>4, Zenon
       DEF R!ClaimDuplicate, R!Idle, Handling, R!purgeVars, Work, Rows
  <2> QED
    BY <2>5, Zenon DEF R!Next
<1> QED
  BY <1>1, <1>7, <1>8, Zenon

\* The call is made, and its transaction begins.
LEMMA StartDelivers ==
  ASSUME IInv, OnlyProcess, NEW w \in Workers,
         BeginTx(w) \/ \E m \in Messages : Process(w, m)
  PROVE  R!Next
<1>0. call \in [Workers -> Call] /\ call[w] \in Call
  BY TypeFacts, Zenon
<1>1. CASE BeginTx(w)
  <2> DEFINE k == KeyOf(w, call[w].batch[1])
  <2>1. PICK c \in Conns : /\ Begin(c)
                           /\ call' = [call EXCEPT ![w].pc = "claim", ![w].conn = c,
                                                   ![w].todo = Ids(call[w].batch)]
    BY <1>1, Zenon DEF BeginTx
  <2>2. /\ call'[w].pc = "claim" /\ call'[w].batch = call[w].batch
        /\ \A v \in Workers \ {w} : call'[v] = call[v]
    BY <1>0, <2>1, Zenon DEF Call
  <2>3. Work[w] = Handling("got", k)
    BY <1>1, DeliveryAt, Zenon DEF BeginTx, Work
  <2>4. DeliveryOf(w, call'[w]) = Handling("tx", k)
    <3>1. KeyOf(w, call'[w].batch[1]) = k
      BY <2>2, Zenon
    <3> QED
      BY <2>2, <3>1, DeliveryAt, SMTT(30)
  <2>5. Work' = [Work EXCEPT ![w] = Handling("tx", k)]
    BY <2>2, <2>4, WorkStep, Zenon
  <2>6. Work' = Started(w)
    BY <2>3, <2>5, SameUpdates, Zenon
  <2>7. Work[w].st = "got" /\ rows' = rows /\ applied' = applied /\ Rows' = Rows
    BY <2>1, <2>3, HandlingFields, SMTT(30) DEF Begin, Rows
  <2>8. R!Begin(w)
    BY <2>6, <2>7, Zenon DEF R!Begin, R!purgeVars, Started, Work, Rows
  <2> QED
    BY <2>8, Zenon DEF R!Next
<1>2. CASE \E m \in Messages : Process(w, m)
  <2>1. PICK m \in Messages : Process(w, m)
    BY <1>2, Zenon
  <2> DEFINE k == KeyOf(w, m)
  <2>2. PICK q : q = NewCall("begin", FALSE, <<m>>)
    BY Zenon
  <2>3. q.pc = "begin" /\ q.batch[1] = m
    BY <2>2, Zenon DEF NewCall
  <2>4. call'[w] = q /\ \A v \in Workers \ {w} : call'[v] = call[v]
    BY <1>0, <2>1, <2>2, Zenon DEF Process
  <2>5. Work[w] = Handling("idle", NoConn)
    BY <2>1, DeliveryAt, Zenon DEF Process, Work
  <2>6. DeliveryOf(w, call'[w]) = Handling("got", k)
    BY <2>3, <2>4, DeliveryAt, Zenon
  <2>7. Work' = [Work EXCEPT ![w] = Handling("got", k)]
    BY <2>4, <2>6, WorkStep, Zenon
  <2>8. Work' = Received(w, k)
    BY <2>5, <2>7, SameUpdates, Zenon
  <2>9. Work[w].st = "idle" /\ rows' = rows /\ applied' = applied /\ Rows' = Rows
    BY <2>1, <2>5, HandlingFields, SMTT(30) DEF Process, storeVars, Rows
  <2>10. k \in Key /\ [l \in Key |-> 0][k] = 0 /\ 0 # -1 /\ 0 <= 0 + 0
    <3>1. k \in Key
      BY KeyOfType, Zenon
    <3> QED
      BY <3>1, SMTT(30)
  <2>11. R!Deliver(w, k)
    <3> HIDE DEF k
    <3> QED
      BY <2>8, <2>9, <2>10, Zenon DEF R!Deliver, R!purgeVars, Received, Work, Rows
  <2> QED
    BY <2>10, <2>11, Zenon DEF R!Next
<1> QED
  BY <1>1, <1>2, Zenon

\* The commit adds the row of the message and one effect.
LEMMA CommitDelivers ==
  ASSUME IInv, OnlyProcess, NEW w \in Workers, CommitTx(w) \/ CommitAnswerLost(w)
  PROVE  R!Next
<1> DEFINE k == KeyOf(w, call[w].batch[1])
<1>0. call \in [Workers -> Call] /\ call[w] \in Call /\ ~call[w].many /\ CallInv(w)
  BY IInvFacts, TypeFacts, Zenon DEF OnlyProcess
<1>1. AtCommit(w) /\ Commit(call[w].conn) /\ \E r, x : Return(w, r, x)
  BY Zenon DEF CommitTx, CommitAnswerLost
<1>2. call[w].pc = "commit" /\ CommitInv(w) /\ Len(call[w].batch) = 1
  BY <1>0, <1>1, Zenon DEF AtCommit, CallInv, LoopInv
<1>3. k \in Key
  <2>1. call[w].batch \in Seq(Messages)
    BY <1>0, Zenon DEF Call
  <2>2. call[w].batch[1] \in Messages
    BY <1>2, <2>1, SMTT(30)
  <2> QED
    BY <2>2, KeyOfType, Zenon
<1>4. tx[call[w].conn].ins = {k} /\ tx[call[w].conn].eff = OneEach({k})
  BY <1>2, Zenon DEF CommitInv
<1>5. call'[w].pc = "done" /\ \A v \in Workers \ {w} : call'[v] = call[v]
  BY <1>0, <1>1, ReturnedKind, Zenon
<1>6. Work' = [Work EXCEPT ![w] = Handling("idle", NoConn)]
  <2>1. DeliveryOf(w, call'[w]) = Handling("idle", NoConn)
    BY <1>5, DeliveryAt, Zenon
  <2> QED
    BY <1>5, <2>1, WorkStep, Zenon
<1>7. Work[w] = Handling("claimed", k)
  BY <1>2, DeliveryAt, Zenon DEF Work
<1>8. Work[w].st = "claimed" /\ Work[w].msg = k /\ Work[w].stamp = 0
  BY <1>7, HandlingFields, SMTT(30)
<1> HIDE DEF k
<1>9. Rows' = Rows \cup {<<k, 0>>}
  BY <1>1, <1>4, Zenon DEF Commit, Rows
<1>10. applied' = [applied EXCEPT ![k] = @ + 1]
  <2>1. applied \in [Key -> Nat]
    BY TypeFacts, Zenon
  <2>2. applied' = [l \in Key |-> applied[l] + OneEach({k})[l]]
    BY <1>1, <1>4, Zenon DEF Commit
  <2>3. \A l \in Key : OneEach({k})[l] = IF l = k THEN 1 ELSE 0
    BY Zenon DEF OneEach
  <2>4. \A l \in Key : applied[l] + (IF l = k THEN 1 ELSE 0)
                         = [applied EXCEPT ![k] = @ + 1][l]
    BY <1>3, <2>1, SMTT(30)
  <2>5. applied' = [l \in Key |-> [applied EXCEPT ![k] = @ + 1][l]]
    BY <2>2, <2>3, <2>4, Zenon
  <2> QED
    BY <1>3, <2>1, <2>5, Zenon
<1>11. R!Commit(w)
  BY <1>6, <1>8, <1>9, <1>10, Zenon
     DEF R!Commit, R!Idle, R!purgeVars, Handling, Work, Rows
<1> QED
  BY <1>11, Zenon DEF R!Next

\* Every step of process is a step of a delivery, or none.
LEMMA StepDelivers ==
  ASSUME Batches = {}, IInv, OnlyProcess, [Next]_vars
  PROVE  [R!Next]_(R!vars)
<1>0. call \in [Workers -> Call]
  BY TypeFacts, Zenon
<1>1. ASSUME NEW w \in Workers,
             \/ RollbackDuplicate(w) \/ RollbackHandlerErr(w) \/ SavepointLost(w)
             \/ ClaimContended(w) \/ StatementFails(w)
             \/ Settle(w) \/ Cancel(w) \/ HandlerErr(w)
      PROVE  [R!Next]_(R!vars)
  <2>0. call[w] \in Call /\ ~call[w].many
    BY <1>0, Zenon DEF OnlyProcess
  <2>1. rows' = rows /\ applied' = applied
    BY <1>1, Zenon DEF RollbackDuplicate, RollbackHandlerErr, SavepointLost, ClaimContended,
       StatementFails, Settle, Cancel, HandlerErr, DropConn, Drop, Rollback, storeVars,
       WriteEffect, LoseTransaction
  <2>2. call'[w].pc \in {"done", "idle", "undo"} /\ \A v \in Workers \ {w} : call'[v] = call[v]
    <3>1. CASE HandlerErr(w)
      BY <1>0, <2>0, <3>1, Zenon DEF HandlerErr, Call
    <3>2. CASE Settle(w) \/ Cancel(w)
      <4>1. IdleCall.pc = "idle" /\ call' = [call EXCEPT ![w] = IdleCall]
        BY <3>2, Zenon DEF Settle, Cancel, IdleCall, NewCall
      <4> QED
        BY <1>0, <4>1, Zenon
    <3>3. CASE \/ RollbackDuplicate(w) \/ RollbackHandlerErr(w) \/ SavepointLost(w)
               \/ ClaimContended(w) \/ StatementFails(w)
      <4>1. PICK r, x : Return(w, r, x)
        BY <3>3, Zenon DEF RollbackDuplicate, RollbackHandlerErr, SavepointLost, ClaimContended,
           StatementFails
      <4> QED
        BY <1>0, <4>1, ReturnedKind, Zenon
    <3> QED
      BY <1>1, <3>1, <3>2, <3>3, Zenon
  <2>3. DeliveryOf(w, call'[w]) = Handling("idle", NoConn)
    BY <2>2, DeliveryAt, Zenon
  <2>4. call[w].pc \in {"idle", "begin", "claim", "run", "commit", "rollback", "undo",
                        "loop", "rollback_to", "unclaim", "release", "done"}
    BY <2>0, Zenon DEF Call
  <2> QED
    BY <2>1, <2>2, <2>3, <2>4, GivesUp, Zenon
<1>2. ASSUME NEW w \in Workers, HandlerOk(w) PROVE UNCHANGED R!vars
  <2>0. call[w] \in Call /\ ~call[w].many
    BY <1>0, Zenon DEF OnlyProcess
  <2>1. call[w].pc = "run"
    BY <1>2, <2>0, LoopFacts, ZenonT(40) DEF HandlerOk, AtHandler, InLoop, LoopInv
  <2>2. /\ call'[w].pc = "commit" /\ call'[w].batch = call[w].batch
        /\ \A v \in Workers \ {w} : call'[v] = call[v]
    BY <1>0, <1>2, <2>0, Zenon DEF HandlerOk, Call
  <2>3. DeliveryOf(w, call'[w]) = DeliveryOf(w, call[w])
    <3>1. DeliveryOf(w, call'[w]) = Handling("claimed", KeyOf(w, call'[w].batch[1]))
      BY <2>2, DeliveryAt, Zenon
    <3>2. DeliveryOf(w, call[w]) = Handling("claimed", KeyOf(w, call[w].batch[1]))
      BY <2>1, DeliveryAt, Zenon
    <3> QED
      BY <2>2, <3>1, <3>2, Zenon
  <2>4. Work' = Work
    BY <2>2, <2>3, Zenon DEF Work
  <2>5. rows' = rows /\ applied' = applied
    BY <1>2, Zenon DEF HandlerOk, WriteEffect
  <2> QED
    BY <2>4, <2>5, Zenon DEF R!vars, Work
<1>3. ASSUME NEW w \in Workers,
             \/ OpenSavepoint(w) \/ SkipDuplicate(w) \/ RollbackToSavepoint(w)
             \/ UnclaimFailed(w) \/ ReleaseSavepoint(w)
      PROVE  FALSE
  <2>1. ~call[w].many /\ CallInv(w)
    BY IInvFacts, Zenon DEF OnlyProcess
  <2>2. call[w].pc \in {"loop", "rollback_to", "unclaim", "release"}
    BY <1>3, <2>1, Zenon DEF OpenSavepoint, SkipDuplicate, InLoop, RollbackToSavepoint,
       UnclaimFailed, ReleaseSavepoint
  <2> QED
    BY <2>1, <2>2, Zenon DEF CallInv, LoopInv
<1>4. ASSUME rows' = rows, applied' = applied, call' = call PROVE UNCHANGED R!vars
  BY <1>4, Zenon DEF R!vars
<1>5. ASSUME NEW w \in Workers, NEW m \in Messages, SkipKnown(w, m) PROVE UNCHANGED R!vars
  BY <1>4, <1>5, Zenon DEF SkipKnown, storeVars
<1>6. ASSUME NEW c \in Conns, PoolRollback(c) PROVE UNCHANGED R!vars
  BY <1>4, <1>6, Zenon DEF PoolRollback, RollbackDropped
<1>7. CASE UNCHANGED vars
  BY <1>4, <1>7, Zenon DEF vars
<1> QED
  BY <1>1, <1>2, <1>3, <1>5, <1>6, <1>7, ClaimDelivers, StartDelivers, CommitDelivers, Zenon
     DEF Next, Advance

\* Retention's view of a delivery is right: whatever fails or is cancelled, process
\* begins, claims under the lock of the message, and commits the row with one
\* effect, or gives up without a trace.
THEOREM ProcessIsADelivery ==
  ASSUME Batches = {}
  PROVE  Spec => DeliversAsRetention
<1>1. Init => OnlyProcess
  BY DEF Init, OnlyProcess, IdleCall, NewCall
<1>2. IInv /\ OnlyProcess /\ [Next]_vars => OnlyProcess' /\ [R!Next]_(R!vars)
  BY NextOnlyProcess, StepDelivers, Zenon
<1> QED
  BY <1>1, <1>2, Invariance, PTL DEF Spec, DeliversAsRetention

=============================================================================
