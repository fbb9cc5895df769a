-------------------------- MODULE RetentionProofs ---------------------------
(***************************************************************************)
(* A message is processed at most once although its row is purged, for any *)
(* number of workers, purges and messages and any policy that covers the   *)
(* broker's window and the time a delivery takes.  A purge that runs alone *)
(* leaves nothing that had expired when it began, and no round of a purge  *)
(* is in vain.                                                             *)
(***************************************************************************)
EXTENDS Retention, FiniteSetTheorems, TLAPS

\* A delivery in progress was made within the window and is not late, and what
\* it stamps its row with is not before the publication.  A message with an
\* uncommitted row has never been processed.
WorkInv(w) ==
  LET q == work[w]  m == work[w].msg
  IN q.st # "idle" =>
       /\ m \in Messages /\ pub[m] # -1
       /\ q.at <= pub[m] + Window
       /\ now <= q.at + MaxDelay
       /\ pub[m] <= q.at /\ q.at <= now
       /\ q.st # "got" => pub[m] <= q.start /\ q.start <= now
       /\ q.st = "claimed" => pub[m] <= q.stamp /\ runs[m] = 0

\* A processed message has its row, or nothing of it is on its way any more.
MessageInv(m) ==
  /\ runs[m] \in {0, 1}
  /\ HasRow(m) => runs[m] = 1
  /\ runs[m] = 1 => pub[m] # -1
  /\ runs[m] = 1 /\ ~HasRow(m) => now > pub[m] + Window + MaxDelay

IInv ==
  /\ TypeOK
  /\ \A m \in Messages : MessageInv(m)
  /\ \A r \in rows : pub[r[1]] # -1 /\ pub[r[1]] <= r[2]
  /\ \A m \in Messages : pub[m] <= now
  /\ \A w \in Workers : WorkInv(w)
  /\ \A v, w \in Workers : work[v].st = "claimed" /\ work[w].st = "claimed"
                             /\ work[v].msg = work[w].msg => v = w
  /\ \A p \in Purgers : /\ purge[p].start <= now
                        /\ \A r \in purge[p].chosen : r[2] < now - MaxAge

USE TimesAssumption, PolicyAssumption

\* Nothing has been published, delivered or purged.
LEMMA InitIInv == Init => IInv
<1> SUFFICES ASSUME Init PROVE IInv
  BY Zenon
<1>1. 0 \in Time
  BY DEF Time
<1>2. Idle \in Delivery /\ NoPurge \in Purge
  BY <1>1, Zenon DEF Idle, Delivery, NoPurge, Purge
<1>3. TypeOK
  BY <1>1, <1>2, Zenon DEF Init, TypeOK
<1>4. \A m \in Messages : MessageInv(m)
  BY DEF Init, MessageInv, HasRow
<1>5. \A w \in Workers : work[w].st = "idle"
  BY Zenon DEF Init, Idle
<1>6. \A p \in Purgers : purge[p].start = 0 /\ purge[p].chosen = {}
  BY Zenon DEF Init, NoPurge
<1> QED
  BY <1>3, <1>4, <1>5, <1>6 DEF IInv, WorkInv, Init

\* Time passes: only a delivery that is not late yet grows older.
LEMMA TickIInv ==
  ASSUME IInv, Tick
  PROVE  IInv'
<1>1. TypeOK'
  BY DEF IInv, TypeOK, Tick, purgeVars, Time
<1>2. \A m \in Messages : MessageInv(m)'
  BY DEF IInv, TypeOK, MessageInv, Tick, HasRow, Time, purgeVars
<1>3. ASSUME NEW w \in Workers PROVE WorkInv(w)'
  <2>1. work[w] \in Delivery
    BY Zenon DEF IInv, TypeOK
  <2> QED
    BY <2>1 DEF IInv, TypeOK, WorkInv, Tick, Time, Delivery, purgeVars
<1>4. \A p \in Purgers : purge[p] \in Purge
  BY Zenon DEF IInv, TypeOK
<1>5. \A p \in Purgers : (/\ purge[p].start <= now
                          /\ \A r \in purge[p].chosen : r[2] < now - MaxAge)'
  BY <1>4 DEF IInv, TypeOK, Tick, Time, Purge, purgeVars
<1>6. \A m \in Messages : (pub[m] <= now)'
  BY DEF IInv, TypeOK, Tick, Time, purgeVars
<1> QED
  BY <1>1, <1>2, <1>3, <1>5, <1>6, Zenon DEF IInv, Tick

\* A message is published: no delivery and no row of it existed.
LEMMA PublishIInv ==
  ASSUME IInv, NEW m \in Messages, Publish(m)
  PROVE  IInv'
<1>1. TypeOK'
  BY Zenon DEF IInv, TypeOK, Publish, purgeVars
<1>2. \A n \in Messages : n # m => pub'[n] = pub[n]
  BY Zenon DEF IInv, TypeOK, Publish
<1>3. pub'[m] = now /\ runs[m] = 0 /\ ~HasRow(m) /\ now \in Int
  BY DEF IInv, TypeOK, Publish, MessageInv, Time
<1>4. UNCHANGED <<now, rows, runs, work, purge>>
  BY Zenon DEF Publish, purgeVars
<1>5. \A n \in Messages : MessageInv(n)'
  BY <1>2, <1>3, <1>4 DEF IInv, MessageInv, HasRow
<1>6. \A w \in Workers : WorkInv(w)'
  BY <1>2, <1>4 DEF IInv, WorkInv, Publish
<1>7. \A r \in rows : r[1] \in Messages /\ r[1] # m
  BY <1>3, Zenon DEF IInv, TypeOK, HasRow
<1> QED
  BY <1>1, <1>2, <1>3, <1>4, <1>5, <1>6, <1>7 DEF IInv

\* A step of one worker that commits nothing.
LEMMA WorkStep ==
  ASSUME IInv, NEW w \in Workers, NEW q \in Delivery,
         work' = [work EXCEPT ![w] = q],
         UNCHANGED <<now, pub, rows, runs, purgeVars>>,
         WorkInv(w)',
         q.st = "claimed" =>
           \A v \in Workers : ~(work[v].st = "claimed" /\ work[v].msg = q.msg)
  PROVE  IInv'
<1>1. work'[w] = q /\ \A v \in Workers : v # w => work'[v] = work[v]
  BY Zenon DEF IInv, TypeOK
<1>2. TypeOK'
  BY Zenon DEF IInv, TypeOK, purgeVars
<1>3. \A m \in Messages : MessageInv(m)'
  BY Zenon DEF IInv, MessageInv, HasRow
<1>4. \A v \in Workers : WorkInv(v)'
  BY <1>1 DEF IInv, WorkInv
<1>5. \A v, u \in Workers : work'[v].st = "claimed" /\ work'[u].st = "claimed"
                              /\ work'[v].msg = work'[u].msg => v = u
  BY <1>1 DEF IInv
<1> QED
  BY <1>2, <1>3, <1>4, <1>5, Zenon DEF IInv, purgeVars

\* The broker delivers within the window; the worker's clock starts.
LEMMA DeliverIInv ==
  ASSUME IInv, NEW w \in Workers, NEW m \in Messages, Deliver(w, m)
  PROVE  IInv'
<1> DEFINE q == [work[w] EXCEPT !.st = "got", !.msg = m, !.at = now]
<1>1. work[w] \in Delivery /\ now \in Time
  BY Zenon DEF IInv, TypeOK
<1>2. q \in Delivery /\ q.st = "got" /\ q.msg = m /\ q.at = now
  BY <1>1, Zenon DEF Delivery
<1>3. work' = [work EXCEPT ![w] = q] /\ work'[w] = q
  BY Zenon DEF Deliver, IInv, TypeOK
<1>4. pub[m] \in Int /\ pub[m] <= now /\ now \in Int
  BY <1>1 DEF IInv, TypeOK, Time
<1> HIDE DEF q
<1>5. WorkInv(w)'
  BY <1>2, <1>3, <1>4 DEF WorkInv, Deliver
<1> QED
  BY <1>2, <1>3, <1>5, WorkStep, Zenon DEF Deliver

\* The transaction begins after the publication.
LEMMA BeginIInv ==
  ASSUME IInv, NEW w \in Workers, Begin(w)
  PROVE  IInv'
<1> DEFINE q == [work[w] EXCEPT !.st = "tx", !.start = now]
<1>1. work[w] \in Delivery /\ now \in Time
  BY Zenon DEF IInv, TypeOK
<1>2. q \in Delivery /\ q.st = "tx" /\ q.msg = work[w].msg /\ q.at = work[w].at /\ q.start = now
  BY <1>1, Zenon DEF Delivery
<1>3. work' = [work EXCEPT ![w] = q] /\ work'[w] = q
  BY Zenon DEF Begin, IInv, TypeOK
<1>4. now \in Int /\ \A m \in Messages : pub[m] \in Int /\ pub[m] <= now
  BY <1>1 DEF IInv, TypeOK, Time
<1> HIDE DEF q
<1>5. WorkInv(w)'
  BY <1>2, <1>3, <1>4 DEF WorkInv, Begin, IInv
<1> QED
  BY <1>2, <1>3, <1>5, WorkStep, Zenon DEF Begin

\* A claim is Fresh only for a message that has never been processed: had its
\* row been purged, this delivery would be too late.
LEMMA ClaimFreshIInv ==
  ASSUME IInv, NEW w \in Workers, ClaimFresh(w)
  PROVE  IInv'
<1>1. PICK s \in work[w].start..now : work' = [work EXCEPT ![w].st = "claimed", ![w].stamp = s]
  BY Zenon DEF ClaimFresh
<1> DEFINE q == [work[w] EXCEPT !.st = "claimed", !.stamp = s]
           m == work[w].msg
<1>2. work[w] \in Delivery /\ now \in Time
  BY Zenon DEF IInv, TypeOK
<1>3. WorkInv(w) /\ work[w].st = "tx"
  BY Zenon DEF IInv, ClaimFresh
<1>4. s \in Time /\ work[w].start \in Int /\ work[w].at \in Int /\ now \in Int
  BY <1>1, <1>2 DEF Time, Delivery
<1>5. /\ q \in Delivery /\ q.st = "claimed" /\ q.msg = m /\ q.at = work[w].at
      /\ q.start = work[w].start /\ q.stamp = s
  BY <1>2, <1>4, Zenon DEF Delivery
<1>6. work' = [work EXCEPT ![w] = q] /\ work'[w] = q
  BY <1>1, Zenon DEF IInv, TypeOK
<1>7. m \in Messages /\ pub[m] \in Int /\ pub[m] <= s
  BY <1>1, <1>3, <1>4 DEF WorkInv, IInv, TypeOK, Time
<1>8. now <= pub[m] + Window + MaxDelay
  BY <1>3, <1>4, <1>7 DEF WorkInv
<1>9. runs[m] = 0
  BY <1>4, <1>7, <1>8 DEF IInv, MessageInv, ClaimFresh
<1> HIDE DEF q
<1>10. WorkInv(w)'
  BY <1>3, <1>5, <1>6, <1>7, <1>9, Zenon DEF WorkInv, ClaimFresh
<1> QED
  BY <1>5, <1>6, <1>10, WorkStep, ZenonT(30) DEF ClaimFresh, Unlocked

\* The worker is done with its delivery: a duplicate, or a failure.
LEMMA DoneIInv ==
  ASSUME IInv, NEW w \in Workers, ClaimDuplicate(w) \/ GiveUp(w)
  PROVE  IInv'
<1>1. /\ work' = [work EXCEPT ![w] = Idle]
      /\ UNCHANGED <<now, pub, rows, runs, purgeVars>>
  BY Zenon DEF ClaimDuplicate, GiveUp
<1>2. Idle \in Delivery /\ Idle.st = "idle"
  BY DEF Idle, Delivery, Time
<1>3. work'[w] = Idle
  BY <1>1, Zenon DEF IInv, TypeOK
<1>4. WorkInv(w)'
  BY <1>2, <1>3, Zenon DEF WorkInv
<1> QED
  BY <1>1, <1>2, <1>4, WorkStep, Zenon

\* The first commit of a message: nobody else has claimed it.
LEMMA CommitIInv ==
  ASSUME IInv, NEW w \in Workers, Commit(w)
  PROVE  IInv'
<1>0. PICK m, s : m = work[w].msg /\ s = work[w].stamp
  BY Zenon
<1>1. /\ work[w] \in Delivery /\ WorkInv(w) /\ work[w].st = "claimed"
      /\ UNCHANGED <<now, pub, purge, since, clean>>
      /\ rows' = rows \cup {<<m, s>>}
  BY <1>0, Zenon DEF IInv, TypeOK, Commit, purgeVars
<1>2. /\ m \in Messages /\ s \in Time /\ runs[m] = 0 /\ pub[m] # -1 /\ pub[m] <= s
  BY <1>0, <1>1, Zenon DEF WorkInv, Delivery
<1>3. runs'[m] = 1 /\ \A n \in Messages : n # m => runs'[n] = runs[n]
  BY <1>0, <1>2 DEF Commit, IInv, TypeOK
<1>4. work'[w] = Idle /\ Idle.st = "idle" /\ \A v \in Workers : v # w => work'[v] = work[v]
  BY Zenon DEF Commit, IInv, TypeOK, Idle
<1>5. Idle \in Delivery
  BY DEF Idle, Delivery, Time
<1>6. TypeOK'
  <2>1. runs' \in [Messages -> Nat]
    BY <1>0, <1>2 DEF Commit, IInv, TypeOK
  <2>2. work' \in [Workers -> Delivery]
    BY <1>5, Zenon DEF Commit, IInv, TypeOK
  <2> QED
    BY <1>1, <1>2, <2>1, <2>2 DEF IInv, TypeOK
<1>7. HasRow(m)' /\ \A n \in Messages : n # m => (HasRow(n)' <=> HasRow(n))
  <2>1. \A r \in rows' : r \in rows \/ r[1] = m
    BY <1>1
  <2>2. <<m, s>> \in rows' /\ <<m, s>>[1] = m /\ rows \subseteq rows'
    BY <1>1, Zenon
  <2> QED
    BY <2>1, <2>2, Zenon DEF HasRow
<1>8. \A n \in Messages : MessageInv(n)'
  BY <1>1, <1>2, <1>3, <1>7, Zenon DEF IInv, MessageInv
<1>9. ASSUME NEW v \in Workers PROVE WorkInv(v)'
  <2>1. CASE v = w
    BY <1>4, <2>1, Zenon DEF WorkInv
  <2>2. CASE v # w
    <3>1. WorkInv(v) /\ work'[v] = work[v]
      BY <1>4, <2>2, Zenon DEF IInv
    <3>2. work[v].st = "claimed" => work[v].msg # m
      BY <1>0, <1>1, <2>2, Zenon DEF IInv
    <3> QED
      BY <1>1, <1>3, <3>1, <3>2, Zenon DEF WorkInv
  <2> QED
    BY <2>1, <2>2, Zenon
<1>10. \A v, u \in Workers : work'[v].st = "claimed" /\ work'[u].st = "claimed"
                               /\ work'[v].msg = work'[u].msg => v = u
  BY <1>4 DEF IInv
<1>11. \A r \in rows' : pub'[r[1]] # -1 /\ pub'[r[1]] <= r[2]
  BY <1>1, <1>2 DEF IInv
<1> QED
  BY <1>1, <1>6, <1>8, <1>9, <1>10, <1>11, Zenon DEF IInv

\* A step of one purge that deletes nothing.
LEMMA PurgeStep ==
  ASSUME IInv, NEW p \in Purgers, NEW u \in Purge,
         purge' = [purge EXCEPT ![p] = u],
         UNCHANGED <<now, pub, rows, runs, work>>,
         since' \in Time, clean' \in BOOLEAN,
         u.start <= now, \A r \in u.chosen : r[2] < now - MaxAge
  PROVE  IInv'
<1>1. purge'[p] = u /\ \A o \in Purgers : o # p => purge'[o] = purge[o]
  BY Zenon DEF IInv, TypeOK
<1>2. TypeOK'
  BY Zenon DEF IInv, TypeOK
<1>3. \A m \in Messages : MessageInv(m)'
  BY Zenon DEF IInv, MessageInv, HasRow
<1>4. \A w \in Workers : WorkInv(w)'
  BY DEF IInv, WorkInv
<1> QED
  BY <1>1, <1>2, <1>3, <1>4 DEF IInv

\* purge is called, or fails.
LEMMA PurgeStartFailsIInv ==
  ASSUME IInv, NEW p \in Purgers, PurgeStart(p) \/ PurgeFails(p)
  PROVE  IInv'
<1>1. now \in Time /\ now \in Int /\ 0 <= now /\ 0 \in Time /\ since \in Time /\ clean \in BOOLEAN
  BY DEF IInv, TypeOK, Time
<1>2. CASE PurgeStart(p)
  <2> DEFINE u == [pc |-> "select", start |-> now, chosen |-> {}]
  <2>1. u \in Purge /\ u.start = now /\ u.chosen = {}
    BY <1>1, Zenon DEF Purge
  <2>2. purge' = [purge EXCEPT ![p] = u] /\ UNCHANGED <<now, pub, rows, runs, work>>
    BY <1>2, Zenon DEF PurgeStart
  <2>3. since' \in Time /\ clean' \in BOOLEAN
    BY <1>1, <1>2, Zenon DEF PurgeStart
  <2> HIDE DEF u
  <2>4. u.start <= now /\ \A r \in u.chosen : r[2] < now - MaxAge
    BY <1>1, <2>1
  <2> QED
    BY <2>1, <2>2, <2>3, <2>4, PurgeStep, Zenon
<1>3. CASE PurgeFails(p)
  <2>1. NoPurge \in Purge /\ NoPurge.start = 0 /\ NoPurge.chosen = {}
    BY <1>1, Zenon DEF NoPurge, Purge
  <2>2. NoPurge.start <= now /\ \A r \in NoPurge.chosen : r[2] < now - MaxAge
    BY <1>1, <2>1, Zenon
  <2> QED
    BY <1>1, <1>3, <2>1, <2>2, PurgeStep, Zenon DEF PurgeFails
<1> QED
  BY <1>2, <1>3, Zenon

\* The rows chosen have expired by now, whichever clock the cutoff is from.
LEMMA PurgeSelectIInv ==
  ASSUME IInv, NEW p \in Purgers, PurgeSelect(p)
  PROVE  IInv'
<1>0. PICK t \in {purge[p].start, now} :
        \E S \in SUBSET Expired(t) :
          purge' = [purge EXCEPT ![p].pc = "delete", ![p].chosen = S]
  BY Zenon DEF PurgeSelect, OldestFirst
<1>1. PICK S \in SUBSET Expired(t) :
        purge' = [purge EXCEPT ![p].pc = "delete", ![p].chosen = S]
  BY <1>0, Zenon
<1> DEFINE u == [purge[p] EXCEPT !.pc = "delete", !.chosen = S]
<1>2. /\ purge[p] \in Purge /\ purge[p].start <= now /\ now \in Time /\ now \in Int
      /\ rows \subseteq Messages \X Time
  BY DEF IInv, TypeOK, Time
<1>3. t \in Int /\ t <= now /\ S \subseteq rows
  BY <1>1, <1>2 DEF Expired, Purge, Time
<1>4. u \in Purge /\ u.start = purge[p].start /\ u.chosen = S
  BY <1>2, <1>3, Zenon DEF Purge
<1>5. \A r \in S : r[2] \in Int /\ r[2] < t - MaxAge
  BY <1>1, <1>2, <1>3 DEF Expired, Time
<1>6. \A r \in S : r[2] < now - MaxAge
  BY <1>2, <1>3, <1>5
<1>7. purge' = [purge EXCEPT ![p] = u]
  BY <1>1, Zenon DEF IInv, TypeOK
<1>8. /\ UNCHANGED <<now, pub, rows, runs, work>>
      /\ since' \in Time /\ clean' \in BOOLEAN
  BY Zenon DEF PurgeSelect, IInv, TypeOK
<1> HIDE DEF u
<1> QED
  BY <1>2, <1>4, <1>6, <1>7, <1>8, PurgeStep, Zenon

\* A message loses its row only when none of its deliveries is left.
LEMMA PurgeDeleteIInv ==
  ASSUME IInv, NEW p \in Purgers, PurgeDelete(p)
  PROVE  IInv'
<1>1. /\ rows' = rows \ purge[p].chosen
      /\ UNCHANGED <<now, pub, runs, work, since, clean>>
  BY Zenon DEF PurgeDelete
<1>2. PICK u \in Purge : /\ purge' = [purge EXCEPT ![p] = u]
                         /\ u.start <= now /\ u.chosen = {}
  <2>1. purge[p] \in Purge /\ now \in Time /\ 0 <= now /\ 0 \in Time /\ purge[p].start <= now
    BY DEF IInv, TypeOK, Time
  <2> DEFINE u == [purge[p] EXCEPT !.pc = "select", !.chosen = {}]
  <2>2. u \in Purge /\ u.start = purge[p].start /\ u.chosen = {}
    BY <2>1, Zenon DEF Purge
  <2>3. NoPurge \in Purge /\ NoPurge.start = 0 /\ NoPurge.chosen = {}
    BY <2>1, Zenon DEF NoPurge, Purge
  <2>4. purge' = [purge EXCEPT ![p] = NoPurge] \/ purge' = [purge EXCEPT ![p] = u]
    BY Zenon DEF PurgeDelete, IInv, TypeOK
  <2> HIDE DEF u
  <2> QED
    BY <2>1, <2>2, <2>3, <2>4, Zenon
<1>3. purge'[p] = u /\ \A o \in Purgers : o # p => purge'[o] = purge[o]
  BY <1>2, Zenon DEF IInv, TypeOK
<1>4. TypeOK'
  BY <1>1, <1>2, Zenon DEF IInv, TypeOK
<1>5. ASSUME NEW m \in Messages PROVE MessageInv(m)'
  <2>1. MessageInv(m) /\ pub[m] \in Int /\ now \in Int
    BY DEF IInv, TypeOK, Time
  <2>2. HasRow(m)' => HasRow(m)
    BY <1>1, Zenon DEF HasRow
  <2>3. HasRow(m) /\ ~HasRow(m)' => now > pub[m] + Window + MaxDelay
    <3> SUFFICES ASSUME NEW r \in rows, r[1] = m, r \in purge[p].chosen
                 PROVE  now > pub[m] + Window + MaxDelay
      BY <1>1, Zenon DEF HasRow
    <3>1. r[2] \in Int /\ r[2] < now - MaxAge /\ pub[m] <= r[2]
      BY DEF IInv, TypeOK, Time
    <3> QED
      BY <2>1, <3>1
  <2> QED
    BY <1>1, <2>1, <2>2, <2>3, Zenon DEF MessageInv
<1>6. \A w \in Workers : WorkInv(w)'
  BY <1>1, Zenon DEF IInv, WorkInv
<1>7. \A o \in Purgers : (/\ purge[o].start <= now
                          /\ \A r \in purge[o].chosen : r[2] < now - MaxAge)'
  BY <1>1, <1>2, <1>3, Zenon DEF IInv
<1> QED
  BY <1>1, <1>4, <1>5, <1>6, <1>7, Zenon DEF IInv

\* Every step keeps the invariant.
LEMMA NextIInv == IInv /\ [Next]_vars => IInv'
<1> SUFFICES ASSUME IInv, [Next]_vars PROVE IInv'
  BY Zenon
<1>1. CASE UNCHANGED vars
  <2>1. \A m \in Messages : MessageInv(m)'
    BY <1>1, Zenon DEF vars, IInv, MessageInv, HasRow
  <2>2. \A w \in Workers : WorkInv(w)'
    BY <1>1, Zenon DEF vars, IInv, WorkInv
  <2>3. TypeOK'
    BY <1>1, Zenon DEF vars, IInv, TypeOK
  <2> QED
    BY <1>1, <2>1, <2>2, <2>3, Zenon DEF vars, IInv
<1>2. CASE Next
  BY <1>2, TickIInv, PublishIInv, DeliverIInv, BeginIInv, ClaimFreshIInv, DoneIInv, CommitIInv,
     PurgeStartFailsIInv, PurgeSelectIInv, PurgeDeleteIInv, Zenon DEF Next
<1> QED
  BY <1>1, <1>2, Zenon

\* Purging does not break exactly once: purge and the claims of process and
\* process_many together process a message at most once.
THEOREM PurgeKeepsExactlyOnce == Spec => []ProcessedOnce
<1>1. IInv => ProcessedOnce
  BY DEF IInv, MessageInv, ProcessedOnce
<1> QED
  BY <1>1, InitIInv, NextIInv, PTL DEF Spec

-----------------------------------------------------------------------------
(* What purges leave behind.                                               *)

Batch == with_batch_size(BatchSize)

\* A running purge that will look for more, or is about to delete the rest: it
\* selects next, or its DELETE finds a full batch, or it has chosen everything
\* that had expired when the first one began.
GoesOn(p) ==
  \/ purge[p].pc = "select"
  \/ /\ purge[p].pc = "delete"
     /\ \/ Cardinality(rows \cap purge[p].chosen) = Batch
        \/ Expired(since) \subseteq purge[p].chosen

\* p is the only purge, and nobody else has deleted what it has chosen.
Alone(p) == Running = {p} /\ purge[p].chosen \subseteq rows

\* As long as something expired is left, some purge goes on.
LeftInv ==
  /\ IsFiniteSet(rows) /\ since <= now
  /\ \A w \in Workers : /\ work[w].st \in {"tx", "claimed"} => work[w].at <= work[w].start
                        /\ work[w].st = "claimed" => work[w].at <= work[w].stamp
  /\ clean = TRUE /\ Running # {} =>
       /\ \A p \in Running : since <= purge[p].start
       /\ Batch = 1 \/ \E p \in Running : Alone(p)
       /\ Expired(since) = {} \/ \E p \in Running : GoesOn(p)

\* A batch has at least one row: with_batch_size clamps zero.
LEMMA BatchType == Batch \in Nat \ {0}
BY DEF Batch, with_batch_size

\* The type of the purges, by itself.
LEMMA PurgeType ==
  ASSUME IInv
  PROVE  purge \in [Purgers -> Purge]
BY Zenon DEF IInv, TypeOK

\* The purges began in the past.
LEMMA BeganBefore ==
  ASSUME IInv, LeftInv
  PROVE  since <= now /\ since \in Int /\ now \in Int
<1>1. TypeOK
  BY Zenon DEF IInv
<1>2. since \in Int /\ now \in Int
  BY <1>1 DEF TypeOK, Time
<1>3. since <= now
  BY Zenon DEF LeftInv
<1> QED
  BY <1>2, <1>3, Zenon

\* Steps that leave the rows and the purges alone.
LEMMA SameLeft ==
  ASSUME LeftInv, UNCHANGED <<rows, purgeVars>>, since <= now',
         \A w \in Workers :
           /\ work'[w].st \in {"tx", "claimed"} => work'[w].at <= work'[w].start
           /\ work'[w].st = "claimed" => work'[w].at <= work'[w].stamp
  PROVE  LeftInv'
<1>1. rows' = rows /\ purge' = purge /\ since' = since /\ clean' = clean
  BY Zenon DEF purgeVars
<1>2. Running' = Running /\ Expired(since)' = Expired(since)
  BY <1>1, Zenon DEF Running, Expired
<1>3. \A p : (GoesOn(p) => GoesOn(p)') /\ (Alone(p) => Alone(p)')
  BY <1>1, <1>2, Zenon DEF GoesOn, Alone, Batch
<1>4. IsFiniteSet(rows')
  BY <1>1, Zenon DEF LeftInv
<1> QED
  BY <1>1, <1>2, <1>3, <1>4, Zenon DEF LeftInv, Batch

\* Time passes, messages are published and delivered, calls begin, claim and
\* give up.
LEMMA BrokerLeft ==
  ASSUME IInv, LeftInv,
         \/ Tick
         \/ \E m \in Messages : Publish(m) \/ \E w \in Workers : Deliver(w, m)
         \/ \E w \in Workers : Begin(w) \/ ClaimFresh(w) \/ ClaimDuplicate(w) \/ GiveUp(w)
  PROVE  LeftInv'
<1>1. UNCHANGED <<rows, purgeVars>>
  BY Zenon DEF Tick, Publish, Deliver, Begin, ClaimFresh, ClaimDuplicate, GiveUp
<1>2. since \in Int /\ now \in Int /\ since <= now
  BY BeganBefore, Zenon
<1>3. since <= now'
  <2>1. now' = now \/ now' = now + 1
    BY Zenon DEF Tick, Publish, Deliver, Begin, ClaimFresh, ClaimDuplicate, GiveUp
  <2> QED
    BY <1>2, <2>1
<1>4. work \in [Workers -> Delivery] /\ \A w \in Workers : work[w] \in Delivery
  BY Zenon DEF IInv, TypeOK
<1>5. ASSUME NEW v \in Workers
      PROVE  /\ work'[v].st \in {"tx", "claimed"} => work'[v].at <= work'[v].start
             /\ work'[v].st = "claimed" => work'[v].at <= work'[v].stamp
  <2>0. /\ work[v].st \in {"tx", "claimed"} => work[v].at <= work[v].start
        /\ work[v].st = "claimed" => work[v].at <= work[v].stamp
        /\ work[v].at \in Int /\ work[v].start \in Int
    BY <1>4 DEF LeftInv, Delivery, Time
  <2>1. CASE Tick \/ \E m \in Messages : Publish(m)
    BY <2>0, <2>1, Zenon DEF Tick, Publish
  <2>2. ASSUME NEW w \in Workers, NEW m \in Messages, Deliver(w, m)
        PROVE  work'[v] = work[v] \/ work'[v].st = "got"
    BY <1>4, <2>2, Zenon DEF Deliver, Delivery
  <2>3. ASSUME NEW w \in Workers, Begin(w)
        PROVE  work'[v] = work[v] \/ (work'[v].st = "tx" /\ work'[v].at <= work'[v].start)
    <3>1. work[w].st = "got" /\ work[w].at <= now
      BY <2>3, Zenon DEF Begin, IInv, WorkInv
    <3> QED
      BY <1>4, <2>3, <3>1, Zenon DEF Begin, Delivery
  <2>4. ASSUME NEW w \in Workers, ClaimFresh(w)
        PROVE  \/ work'[v] = work[v]
               \/ work'[v].at <= work'[v].start /\ work'[v].at <= work'[v].stamp
    <3>1. PICK s \in work[w].start..now :
            work' = [work EXCEPT ![w].st = "claimed", ![w].stamp = s]
      BY <2>4, Zenon DEF ClaimFresh
    <3>2. work[w].at <= work[w].start /\ work[w].at \in Int /\ work[w].start \in Int
      BY <1>4, <2>4 DEF ClaimFresh, LeftInv, Delivery, Time
    <3> QED
      BY <1>2, <1>4, <3>1, <3>2 DEF Delivery
  <2>5. ASSUME NEW w \in Workers, ClaimDuplicate(w) \/ GiveUp(w)
        PROVE  work'[v] = work[v] \/ work'[v].st = "idle"
    BY <1>4, <2>5 DEF ClaimDuplicate, GiveUp, Idle
  <2> QED
    BY <2>0, <2>1, <2>2, <2>3, <2>4, <2>5, Zenon
<1> QED
  BY <1>1, <1>3, <1>5, SameLeft, Zenon

\* A row that is committed is too young to have expired, or to have been chosen.
LEMMA CommitLeft ==
  ASSUME IInv, LeftInv, NEW w \in Workers, Commit(w)
  PROVE  LeftInv'
<1>0. PICK r : r = <<work[w].msg, work[w].stamp>>
  BY Zenon
<1>1. rows' = rows \cup {r} /\ UNCHANGED <<now, purge, since, clean>>
  BY <1>0, Zenon DEF Commit, purgeVars
<1>2. /\ now \in Int /\ since \in Int /\ since <= now
      /\ purge \in [Purgers -> Purge]
  BY BeganBefore, PurgeType, Zenon
<1>3. r[2] \in Int /\ r[2] >= now - MaxAge
  <2>1. work[w].at \in Int /\ work[w].stamp \in Int
    BY DEF IInv, TypeOK, Delivery, Time
  <2>2. now <= work[w].at + MaxDelay /\ work[w].at <= work[w].stamp
    BY Zenon DEF IInv, WorkInv, LeftInv, Commit
  <2>3. r[2] = work[w].stamp
    BY <1>0, Zenon
  <2> QED
    BY <1>2, <2>1, <2>2, <2>3
<1>4. Expired(since)' = Expired(since)
  BY <1>1, <1>2, <1>3 DEF Expired
<1>5. \A p \in Purgers : r \notin purge[p].chosen
  BY <1>2, <1>3 DEF IInv
<1>6. \A p \in Purgers : rows' \cap purge[p].chosen = rows \cap purge[p].chosen
  BY <1>1, <1>5, Zenon
<1>7. Running' = Running /\ Running \subseteq Purgers
  BY <1>1, Zenon DEF Running
<1>8. \A p \in Running : (GoesOn(p) => GoesOn(p)') /\ (Alone(p) => Alone(p)')
  BY <1>1, <1>4, <1>6, <1>7, Zenon DEF GoesOn, Alone, Batch
<1>9. IsFiniteSet(rows')
  BY <1>1, FS_AddElement, Zenon DEF LeftInv
<1>10. ASSUME NEW v \in Workers
       PROVE  /\ work'[v].st \in {"tx", "claimed"} => work'[v].at <= work'[v].start
              /\ work'[v].st = "claimed" => work'[v].at <= work'[v].stamp
  <2>1. work'[v] = work[v] \/ work'[v].st = "idle"
    BY Zenon DEF Commit, Idle, IInv, TypeOK
  <2> QED
    BY <2>1, Zenon DEF LeftInv
<1> QED
  BY <1>1, <1>2, <1>4, <1>7, <1>8, <1>9, <1>10, Zenon DEF LeftInv, Batch

\* What every step of a purge keeps of the invariant.
LEMMA PurgeLeft ==
  ASSUME IInv, LeftInv, UNCHANGED <<now, work>>, since' \in {since, now},
         rows' \subseteq rows,
         clean' = TRUE /\ Running' # {} =>
           (/\ \A p \in Running : since <= purge[p].start
            /\ Batch = 1 \/ \E p \in Running : Alone(p)
            /\ Expired(since) = {} \/ \E p \in Running : GoesOn(p))'
  PROVE  LeftInv'
<1>1. IsFiniteSet(rows')
  BY FS_Subset, Zenon DEF LeftInv
<1>2. since <= now /\ now \in Int
  BY BeganBefore, Zenon
<1>3. since' <= now'
  BY <1>2
<1> QED
  BY <1>1, <1>3, Zenon DEF LeftInv

\* A purge that begins looks for rows; with batches larger than one it must be
\* the only one.
LEMMA PurgeStartLeft ==
  ASSUME IInv, LeftInv, NEW p \in Purgers, PurgeStart(p)
  PROVE  LeftInv'
<1>1. /\ purge'[p] = [pc |-> "select", start |-> now, chosen |-> {}]
      /\ \A q \in Purgers : q # p => purge'[q] = purge[q]
  BY Zenon DEF PurgeStart, IInv, TypeOK
<1>2. UNCHANGED <<now, rows, work>> /\ purge[p].pc = "idle"
  BY Zenon DEF PurgeStart
<1>3. Running' = Running \cup {p} /\ p \notin Running
  BY <1>1, <1>2 DEF Running
<1>4. GoesOn(p)'
  BY <1>1 DEF GoesOn
<1>5. now \in Int /\ since \in Int /\ since <= now
  BY BeganBefore, Zenon
<1>6. CASE Running = {}
  <2>1. since' = now
    BY <1>6, Zenon DEF PurgeStart
  <2>2. Alone(p)'
    BY <1>1, <1>3, <1>6 DEF Alone
  <2>3. \A q \in Running' : since' <= purge'[q].start
    BY <1>1, <1>3, <1>5, <1>6, <2>1
  <2> QED
    BY <1>2, <1>3, <1>4, <2>1, <2>2, <2>3, PurgeLeft, Zenon
<1>7. CASE Running # {}
  <2>1. since' = since /\ clean' = (clean /\ Batch = 1)
    BY <1>7, Zenon DEF PurgeStart, Batch
  <2>2. clean' = TRUE => clean = TRUE /\ Batch = 1
    BY <2>1, Zenon DEF IInv, TypeOK
  <2>3. ASSUME clean' = TRUE
        PROVE  \A q \in Running' : since' <= purge'[q].start
    <3>1. \A q \in Running : since <= purge[q].start
      BY <1>7, <2>2, <2>3, Zenon DEF LeftInv
    <3> QED
      BY <1>1, <1>3, <1>5, <2>1, <3>1 DEF Running
  <2>4. Batch' = Batch
    BY Zenon DEF Batch
  <2> QED
    BY <1>2, <1>3, <1>4, <2>1, <2>2, <2>3, <2>4, PurgeLeft, Zenon
<1> QED
  BY <1>6, <1>7, Zenon

\* A purge that fails ends the promise.
LEMMA PurgeFailsLeft ==
  ASSUME IInv, LeftInv, NEW p \in Purgers, PurgeFails(p)
  PROVE  LeftInv'
<1>1. clean' = FALSE /\ UNCHANGED <<now, rows, work, since>>
  BY Zenon DEF PurgeFails
<1>2. ~(clean' = TRUE)
  BY <1>1, Zenon
<1> QED
  BY <1>1, <1>2, PurgeLeft, Zenon

\* The subselect finds a full batch, or everything that has expired: it looks
\* no earlier than since.
LEMMA PurgeSelectLeft ==
  ASSUME IInv, LeftInv, NEW p \in Purgers, PurgeSelect(p)
  PROVE  LeftInv'
<1>1. PICK t \in {purge[p].start, now} :
        \E S \in OldestFirst(Expired(t), Batch) :
          purge' = [purge EXCEPT ![p].pc = "delete", ![p].chosen = S]
  BY Zenon DEF PurgeSelect, Batch
<1>2. PICK S \in OldestFirst(Expired(t), Batch) :
        purge' = [purge EXCEPT ![p].pc = "delete", ![p].chosen = S]
  BY <1>1, Zenon
<1>3. purge \in [Purgers -> Purge] /\ purge[p] \in Purge
  BY PurgeType, Zenon
<1>4. /\ purge'[p].pc = "delete" /\ purge'[p].chosen = S /\ purge'[p].start = purge[p].start
      /\ \A q \in Purgers : q # p => purge'[q] = purge[q]
  BY <1>2, <1>3, Zenon DEF Purge
<1>5. UNCHANGED <<now, rows, work, since, clean>> /\ purge[p].pc = "select"
  BY Zenon DEF PurgeSelect
<1>6. Running' = Running /\ p \in Running
  BY <1>4, <1>5, Zenon DEF Running
<1>7. S \subseteq Expired(t) /\ S \subseteq rows
  BY <1>2, Zenon DEF OldestFirst, Expired
<1>8. Alone(p) => Alone(p)'
  BY <1>4, <1>5, <1>6, <1>7, Zenon DEF Alone
<1>9. ASSUME since <= purge[p].start PROVE GoesOn(p)'
  <2>1. since \in Int /\ t \in Int /\ since <= t /\ \A r \in rows : r[2] \in Int
    BY <1>3, <1>9 DEF IInv, TypeOK, Time, Purge, LeftInv
  <2>2. Expired(since) \subseteq Expired(t)
    BY <2>1 DEF Expired
  <2>3. IsFiniteSet(Expired(t)) /\ Cardinality(Expired(t)) \in Nat
    BY FS_Subset, FS_CardinalityType, Zenon DEF Expired, LeftInv
  <2>4. Expired(since)' = Expired(since) /\ rows' \cap S = S /\ Batch' = Batch
    BY <1>5, <1>7, Zenon DEF Expired, Batch
  <2>5. CASE Cardinality(Expired(t)) < Batch
    <3>1. Cardinality(S) = Cardinality(Expired(t))
      BY <1>2, <2>5, Zenon DEF OldestFirst
    <3>2. S = Expired(t)
      BY <1>7, <2>3, <3>1, FS_Subset, Zenon
    <3> QED
      BY <1>4, <2>2, <2>4, <3>2, Zenon DEF GoesOn
  <2>6. CASE ~(Cardinality(Expired(t)) < Batch)
    <3>1. Cardinality(S) = Batch
      BY <1>2, <2>6, Zenon DEF OldestFirst
    <3> QED
      BY <1>4, <2>4, <3>1, Zenon DEF GoesOn
  <2> QED
    BY <2>5, <2>6, Zenon
<1>10. ASSUME clean' = TRUE
       PROVE  (/\ \A q \in Running : since <= purge[q].start
               /\ Batch = 1 \/ \E q \in Running : Alone(q)
               /\ Expired(since) = {} \/ \E q \in Running : GoesOn(q))'
  <2>1. /\ \A q \in Running : since <= purge[q].start
        /\ Batch = 1 \/ \E q \in Running : Alone(q)
    BY <1>5, <1>6, <1>10, Zenon DEF LeftInv
  <2>2. \A q \in Running' : since' <= purge'[q].start
    BY <1>4, <1>5, <1>6, <2>1, Zenon DEF Running
  <2>3. Batch = 1 \/ Alone(p)
    BY <1>6, <2>1, Zenon DEF Alone
  <2>4. Batch' = Batch
    BY Zenon DEF Batch
  <2> QED
    BY <1>6, <1>8, <1>9, <2>1, <2>2, <2>3, <2>4, Zenon
<1> QED
  BY <1>5, <1>10, PurgeLeft, Zenon

\* What a DELETE leaves.  It removes fewer than a batch although something
\* expired is left only if another purge took its row, and that one goes on.
LEMMA DeleteLeaves ==
  ASSUME IInv, LeftInv, NEW p \in Purgers, PurgeDelete(p), clean = TRUE,
         Cardinality(rows \cap purge[p].chosen) < Batch
  PROVE  Expired(since)' = {} \/ \E q \in Running \ {p} : GoesOn(q)'
<1>1. /\ rows' = rows \ purge[p].chosen /\ since' = since
      /\ purge[p].pc = "delete" /\ p \in Running
  BY Zenon DEF PurgeDelete, Running
<1>2. Expired(since)' \subseteq Expired(since) \ purge[p].chosen
  BY <1>1, Zenon DEF Expired
<1>3. CASE Expired(since) = {}
  BY <1>2, <1>3, Zenon
<1>4. CASE Expired(since) # {}
  <2>1. PICK q \in Running : GoesOn(q)
    BY <1>1, <1>4, Zenon DEF LeftInv
  <2>2. IsFiniteSet(rows \cap purge[p].chosen)
    BY FS_Subset, Zenon DEF LeftInv
  <2>3. Cardinality(rows \cap purge[p].chosen) \in Nat
    BY <2>2, FS_CardinalityType, Zenon
  <2>4. CASE q = p
    <3>1. Expired(since) \subseteq purge[p].chosen
      BY <1>1, <2>1, <2>3, <2>4, BatchType DEF GoesOn
    <3> QED
      BY <1>2, <3>1, Zenon
  <2>5. CASE q # p
    <3>1. Batch = 1
      BY <1>1, <2>1, <2>5 DEF LeftInv, Alone
    <3>2. rows \cap purge[p].chosen = {}
      BY <2>2, <2>3, <3>1, FS_EmptySet
    <3>3. rows' = rows
      BY <1>1, <3>2, Zenon
    <3>4. purge'[q] = purge[q]
      BY <2>5, Zenon DEF PurgeDelete, IInv, TypeOK, Running
    <3>5. Expired(since)' = Expired(since) /\ Batch' = Batch
      BY <1>1, <3>3, Zenon DEF Expired, Batch
    <3>6. GoesOn(q)'
      BY <2>1, <3>3, <3>4, <3>5, Zenon DEF GoesOn
    <3> QED
      BY <2>5, <3>6, Zenon
  <2> QED
    BY <2>4, <2>5, Zenon
<1> QED
  BY <1>3, <1>4, Zenon

\* A full batch makes purge look again, a smaller one makes it return.
LEMMA PurgeDeleteLeft ==
  ASSUME IInv, LeftInv, NEW p \in Purgers, PurgeDelete(p)
  PROVE  LeftInv'
<1>1. /\ rows' \subseteq rows /\ UNCHANGED <<now, work, since, clean>>
      /\ purge[p].pc = "delete" /\ p \in Running
  BY Zenon DEF PurgeDelete, Running
<1>2. purge \in [Purgers -> Purge] /\ purge[p] \in Purge /\ Running \subseteq Purgers
  BY Zenon DEF IInv, TypeOK, Running
<1>3. \A q \in Purgers : q # p => purge'[q] = purge[q]
  BY <1>2, Zenon DEF PurgeDelete
<1>4. Batch' = Batch
  BY Zenon DEF Batch
<1>5. ASSUME clean' = TRUE, Running' # {}
      PROVE  (/\ \A q \in Running : since <= purge[q].start
              /\ Batch = 1 \/ \E q \in Running : Alone(q)
              /\ Expired(since) = {} \/ \E q \in Running : GoesOn(q))'
  <2>1. /\ \A q \in Running : since <= purge[q].start
        /\ Batch = 1 \/ \E q \in Running : Alone(q)
    BY <1>1, <1>5, Zenon DEF LeftInv
  <2>2. CASE Cardinality(rows \cap purge[p].chosen) < Batch
    <3>1. purge'[p].pc = "idle"
      BY <1>2, <2>2, Zenon DEF PurgeDelete, NoPurge, Batch
    <3>2. Running' = Running \ {p}
      BY <1>3, <3>1, Zenon DEF Running
    <3>3. Batch = 1
      BY <1>1, <1>5, <2>1, <3>2, Zenon DEF Alone
    <3>4. \A q \in Running' : since' <= purge'[q].start
      BY <1>1, <1>2, <1>3, <2>1, <3>2, Zenon
    <3> QED
      BY <1>1, <1>4, <1>5, <2>2, <3>2, <3>3, <3>4, DeleteLeaves, Zenon
  <2>3. CASE ~(Cardinality(rows \cap purge[p].chosen) < Batch)
    <3>1. /\ purge'[p].pc = "select" /\ purge'[p].chosen = {}
          /\ purge'[p].start = purge[p].start
      BY <1>2, <2>3, Zenon DEF PurgeDelete, Batch, Purge
    <3>2. Running' = Running
      BY <1>1, <1>3, <3>1, Zenon DEF Running
    <3>3. GoesOn(p)'
      BY <3>1, Zenon DEF GoesOn
    <3>4. Alone(p) => Alone(p)'
      BY <3>1, <3>2, Zenon DEF Alone
    <3>5. Batch = 1 \/ Alone(p)
      BY <1>1, <2>1, Zenon DEF Alone
    <3>6. \A q \in Running' : since' <= purge'[q].start
      BY <1>1, <1>2, <1>3, <2>1, <3>1, <3>2, Zenon
    <3> QED
      BY <1>1, <1>4, <3>2, <3>3, <3>4, <3>5, <3>6, Zenon
  <2> QED
    BY <2>2, <2>3, Zenon
<1> QED
  BY <1>1, <1>5, PurgeLeft, Zenon

\* Every step keeps it.
LEMMA NextLeft == IInv /\ LeftInv /\ [Next]_vars => LeftInv'
<1> SUFFICES ASSUME IInv, LeftInv, [Next]_vars PROVE LeftInv'
  BY Zenon
<1>1. CASE \/ Tick
           \/ \E m \in Messages : Publish(m) \/ \E w \in Workers : Deliver(w, m)
           \/ \E w \in Workers : Begin(w) \/ ClaimFresh(w) \/ ClaimDuplicate(w) \/ GiveUp(w)
  BY <1>1, BrokerLeft, Zenon
<1>2. CASE \E w \in Workers : Commit(w)
  BY <1>2, CommitLeft, Zenon
<1>3. CASE \E p \in Purgers : \/ PurgeStart(p) \/ PurgeSelect(p)
                              \/ PurgeDelete(p) \/ PurgeFails(p)
  BY <1>3, PurgeStartLeft, PurgeSelectLeft, PurgeDeleteLeft, PurgeFailsLeft, Zenon
<1>4. CASE UNCHANGED vars
  <2>1. UNCHANGED <<rows, purgeVars>> /\ now' = now /\ work' = work
    BY <1>4, Zenon DEF vars, purgeVars
  <2> QED
    BY <2>1, SameLeft, Zenon DEF LeftInv
<1> QED
  BY <1>1, <1>2, <1>3, <1>4, Zenon DEF Next

\* The last of the purges returns from a DELETE that left nothing expired.
LEMMA LastReturns ==
  ASSUME IInv, LeftInv, [Next]_vars, Running # {}, Running' = {}, clean'
  PROVE  \A r \in rows' : r[2] >= since - MaxAge
<1>1. PICK p \in Running : TRUE
  BY Zenon
<1>2. p \in Purgers /\ purge[p].pc # "idle" /\ purge'[p].pc = "idle"
  BY <1>1, Zenon DEF Running
<1>3. purge' # purge
  BY <1>2, Zenon
<1>4. PICK q \in Purgers : \/ PurgeStart(q) \/ PurgeSelect(q)
                           \/ PurgeDelete(q) \/ PurgeFails(q)
  BY <1>3, Zenon DEF Next, vars, purgeVars, Tick, Publish, Deliver, Begin, ClaimFresh,
              ClaimDuplicate, Commit, GiveUp
<1>5. q \notin Running' /\ purge \in [Purgers -> Purge]
  BY PurgeType, Zenon
<1>6. ~PurgeStart(q)
  BY <1>5, Zenon DEF PurgeStart, Running
<1>7. ~PurgeSelect(q)
  <2> SUFFICES ASSUME PurgeSelect(q) PROVE FALSE
    BY Zenon
  <2>1. PICK S : purge' = [purge EXCEPT ![q].pc = "delete", ![q].chosen = S]
    BY Zenon DEF PurgeSelect
  <2>2. purge'[q].pc = "delete"
    BY <1>5, <2>1, Zenon DEF Purge
  <2> QED
    BY <1>5, <2>2, Zenon DEF Running
<1>8. ~PurgeFails(q)
  BY Zenon DEF PurgeFails
<1>9. PurgeDelete(q)
  BY <1>4, <1>6, <1>7, <1>8, Zenon
<1>10. clean = TRUE /\ since' = since /\ rows' \subseteq rows
  <2>1. clean' = clean /\ since' = since /\ rows' \subseteq rows
    BY <1>9, Zenon DEF PurgeDelete
  <2>2. clean = TRUE
    BY <2>1, Zenon DEF IInv, TypeOK
  <2> QED
    BY <2>1, <2>2, Zenon
<1>11. Cardinality(rows \cap purge[q].chosen) < Batch
  BY <1>5, <1>9 DEF PurgeDelete, Running, Batch, Purge
<1>12. \A o \in Running : o = q
  BY <1>5, <1>9, Zenon DEF PurgeDelete, Running
<1>13. Expired(since)' = {}
  BY <1>9, <1>10, <1>11, <1>12, DeleteLeaves, Zenon
<1>14. since \in Int /\ \A r \in rows' : r[2] \in Int
  BY <1>10 DEF IInv, TypeOK, Time
<1> QED
  BY <1>10, <1>13, <1>14 DEF Expired

\* Nothing has been committed and nobody purges.
LEMMA InitLeft == Init => LeftInv
<1> SUFFICES ASSUME Init PROVE LeftInv
  BY Zenon
<1>1. IsFiniteSet(rows)
  BY FS_EmptySet, Zenon DEF Init
<1>2. Running = {}
  BY Zenon DEF Init, Running, NoPurge
<1>3. \A w \in Workers : work[w].st = "idle"
  BY Zenon DEF Init, Idle
<1> QED
  BY <1>1, <1>2, <1>3 DEF LeftInv, Init

\* A purge that runs alone, with any batch size, leaves no row that had expired
\* when it began; and so do any number of purges together that delete one row
\* at a time.
THEOREM PurgeIsThorough == Spec => NothingExpiredLeft
<1>1. Init => IInv /\ LeftInv
  BY InitIInv, InitLeft, Zenon
<1>2. IInv /\ LeftInv /\ [Next]_vars => IInv' /\ LeftInv'
  BY NextIInv, NextLeft, Zenon
<1>3. IInv /\ LeftInv /\ [Next]_vars =>
        [Running # {} /\ Running' = {} /\ clean' => \A r \in rows' : r[2] >= since - MaxAge]_vars
  BY LastReturns, Zenon
<1> QED
  BY <1>1, <1>2, <1>3, PTL DEF Spec, NothingExpiredLeft

\* A purge turns from a DELETE to another round only by a DELETE of its own that
\* deleted a full batch, and a batch is never empty.
LEMMA RoundDeletes ==
  ASSUME IInv, [Next]_vars, NEW p \in Purgers,
         purge[p].pc = "delete", purge'[p].pc = "select"
  PROVE  rows' \subseteq rows /\ rows' # rows
<1>1. purge' # purge
  BY Zenon
<1>2. PICK q \in Purgers : \/ PurgeStart(q) \/ PurgeSelect(q)
                           \/ PurgeDelete(q) \/ PurgeFails(q)
  BY <1>1, Zenon DEF Next, vars, purgeVars, Tick, Publish, Deliver, Begin, ClaimFresh,
              ClaimDuplicate, Commit, GiveUp
<1>3. purge \in [Purgers -> Purge]
  BY PurgeType, Zenon
<1>4. q = p
  <2> SUFFICES ASSUME q # p PROVE purge'[p] = purge[p]
    BY Zenon
  <2>1. CASE PurgeStart(q)
    BY <1>3, <2>1, Zenon DEF PurgeStart
  <2>2. CASE PurgeSelect(q)
    BY <1>3, <2>2, Zenon DEF PurgeSelect
  <2>3. CASE PurgeDelete(q)
    BY <1>3, <2>3, Zenon DEF PurgeDelete
  <2>4. CASE PurgeFails(q)
    BY <1>3, <2>4, Zenon DEF PurgeFails
  <2> QED
    BY <1>2, <2>1, <2>2, <2>3, <2>4, Zenon
<1>5. ~PurgeStart(p) /\ ~PurgeSelect(p)
  BY Zenon DEF PurgeStart, PurgeSelect
<1>6. ~PurgeFails(p)
  <2>1. NoPurge.pc = "idle"
    BY Zenon DEF NoPurge
  <2>2. PurgeFails(p) => purge'[p] = NoPurge
    BY <1>3, Zenon DEF PurgeFails
  <2> QED
    BY <2>1, <2>2, Zenon
<1>7. PurgeDelete(p)
  BY <1>2, <1>4, <1>5, <1>6, Zenon
<1>8. ~(Cardinality(rows \cap purge[p].chosen) < Batch)
  BY <1>3, <1>7, Zenon DEF PurgeDelete, NoPurge, Batch
<1>9. rows \cap purge[p].chosen # {}
  <2> SUFFICES ASSUME rows \cap purge[p].chosen = {} PROVE FALSE
    BY Zenon
  <2>1. Cardinality(rows \cap purge[p].chosen) = 0
    BY FS_EmptySet, Zenon
  <2> QED
    BY <1>8, <2>1, BatchType
<1>10. rows' = rows \ purge[p].chosen
  BY <1>7, Zenon DEF PurgeDelete
<1> QED
  BY <1>9, <1>10, Zenon

\* No round of a purge is in vain, whatever batch size the policy was given and
\* however many purges take each other's rows: a purge loops only after deleting.
THEOREM EveryRoundDeletes == Spec => RoundsDelete
<1>1. Init => IInv
  BY InitIInv, Zenon
<1>2. IInv /\ [Next]_vars => IInv'
  BY NextIInv, Zenon
<1>3. IInv /\ [Next]_vars =>
        [\A p \in Purgers : purge[p].pc = "delete" /\ purge'[p].pc = "select" =>
           rows' \subseteq rows /\ rows' # rows]_vars
  BY RoundDeletes, Zenon
<1> QED
  BY <1>1, <1>2, <1>3, PTL DEF Spec, RoundsDelete
=============================================================================
