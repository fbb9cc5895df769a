------------------------------ MODULE Retention -----------------------------
(***************************************************************************)
(* Purging the inbox while messages are still being delivered.  A row is   *)
(* purged when it is older than max_age; a message whose row is gone is    *)
(* processed again if it is delivered again.  Time counts in ticks.        *)
(*                                                                         *)
(* Consumer models a call in detail; here a delivery is handled in a       *)
(* transaction that begins, claims and then commits or rolls back.  A row  *)
(* is a message and its processed_at.                                      *)
(***************************************************************************)
EXTENDS Integers, FiniteSets

CONSTANTS
  Messages, Workers, Purgers,
  MaxAge,      \* RetentionPolicy::max_age
  BatchSize,   \* what with_batch_size is called with
  Window,      \* how long after its publication the broker delivers a message
  MaxDelay,    \* how long a delivery takes, from the broker to the commit
  MaxTime,     \* end of the model's time
  NoMessage    \* what an idle worker is handling

ASSUME TimesAssumption ==
  /\ MaxAge \in Nat /\ BatchSize \in Nat
  /\ Window \in Nat /\ MaxDelay \in Nat /\ MaxTime \in Nat

(***************************************************************************)
(* max_age must exceed the redelivery window, and by no less than the time *)
(* a delivery may take: the last delivery the broker makes still has to    *)
(* find the row when its claim runs.                                       *)
(***************************************************************************)
ASSUME PolicyAssumption == MaxAge >= Window + MaxDelay

VARIABLES
  now,     \* the database's clock
  pub,     \* when each message was published, -1 before
  rows,    \* committed rows
  runs,    \* how often each message's effect was committed
  work,    \* the delivery each worker is handling
  purge,   \* the call of purge each purger is in
  since,   \* when the purges that are running, or ran last, began
  clean    \* none of them has failed, and they delete row by row or one at a time

vars == <<now, pub, rows, runs, work, purge, since, clean>>

Time == 0..MaxTime

\* at: when it was delivered; start: when the transaction began; stamp: the
\* processed_at of the row it has inserted.
Delivery == [st : {"idle", "got", "tx", "claimed"}, msg : Messages \cup {NoMessage},
             at : Time, start : Time, stamp : Time]

Idle == [st |-> "idle", msg |-> NoMessage, at |-> 0, start |-> 0, stamp |-> 0]

\* chosen: the rows its DELETE is about to delete.
Purge == [pc : {"idle", "select", "delete"}, start : Time,
          chosen : SUBSET (Messages \X Time)]

NoPurge == [pc |-> "idle", start |-> 0, chosen |-> {}]

TypeOK ==
  /\ now \in Time
  /\ pub \in [Messages -> Time \cup {-1}]
  /\ rows \subseteq Messages \X Time
  /\ runs \in [Messages -> Nat]
  /\ work \in [Workers -> Delivery]
  /\ purge \in [Purgers -> Purge]
  /\ since \in Time /\ clean \in BOOLEAN

Init ==
  /\ now = 0
  /\ pub = [m \in Messages |-> -1]
  /\ rows = {}
  /\ runs = [m \in Messages |-> 0]
  /\ work = [w \in Workers |-> Idle]
  /\ purge = [p \in Purgers |-> NoPurge]
  /\ since = 0 /\ clean = TRUE

purgeVars == <<purge, since, clean>>

-----------------------------------------------------------------------------
(* The broker and the consumers.                                           *)

\* Time passes, but no delivery takes longer than MaxDelay.
Tick ==
  /\ now < MaxTime
  /\ \A w \in Workers : work[w].st # "idle" => now < work[w].at + MaxDelay
  /\ now' = now + 1
  /\ UNCHANGED <<pub, rows, runs, work, purgeVars>>

Publish(m) ==
  /\ pub[m] = -1
  /\ pub' = [pub EXCEPT ![m] = now]
  /\ UNCHANGED <<now, rows, runs, work, purgeVars>>

\* Any number of times within the window, to any worker.
Deliver(w, m) ==
  /\ work[w].st = "idle"
  /\ pub[m] # -1 /\ now <= pub[m] + Window
  /\ work' = [work EXCEPT ![w].st = "got", ![w].msg = m, ![w].at = now]
  /\ UNCHANGED <<now, pub, rows, runs, purgeVars>>

Begin(w) ==
  /\ work[w].st = "got"
  /\ work' = [work EXCEPT ![w].st = "tx", ![w].start = now]
  /\ UNCHANGED <<now, pub, rows, runs, purgeVars>>

HasRow(m) == \E r \in rows : r[1] = m

\* The claim waits while another transaction has claimed the message.
Unlocked(w) ==
  \A v \in Workers : ~(work[v].st = "claimed" /\ work[v].msg = work[w].msg)

\* processed_at is when the transaction began (PostgreSQL), when the statement
\* was issued (SQLite) or when it ran (MySQL).
ClaimFresh(w) ==
  /\ work[w].st = "tx" /\ Unlocked(w) /\ ~HasRow(work[w].msg)
  /\ \E s \in work[w].start..now :
       work' = [work EXCEPT ![w].st = "claimed", ![w].stamp = s]
  /\ UNCHANGED <<now, pub, rows, runs, purgeVars>>

ClaimDuplicate(w) ==
  /\ work[w].st = "tx" /\ Unlocked(w) /\ HasRow(work[w].msg)
  /\ work' = [work EXCEPT ![w] = Idle]
  /\ UNCHANGED <<now, pub, rows, runs, purgeVars>>

Commit(w) ==
  /\ work[w].st = "claimed"
  /\ rows' = rows \cup {<<work[w].msg, work[w].stamp>>}
  /\ runs' = [runs EXCEPT ![work[w].msg] = @ + 1]
  /\ work' = [work EXCEPT ![w] = Idle]
  /\ UNCHANGED <<now, pub, purgeVars>>

\* A failure anywhere: the transaction, if there is one, is rolled back.
GiveUp(w) ==
  /\ work[w].st # "idle"
  /\ work' = [work EXCEPT ![w] = Idle]
  /\ UNCHANGED <<now, pub, rows, runs, purgeVars>>

-----------------------------------------------------------------------------
(* purge.                                                                  *)

\* Mutant: a batch size of zero is taken as it is.
NotClamped(n) == n

with_batch_size(n) == IF n < 1 THEN 1 ELSE n

\* Mutant: a row expires as soon as it is max_age old.
ExpiredTooSoon(t) == {r \in rows : r[2] <= t - MaxAge}

\* processed_at < now() - max_age.
Expired(t) == {r \in rows : r[2] < t - MaxAge}

\* ORDER BY processed_at LIMIT n.
OldestFirst(E, n) ==
  {S \in SUBSET E : /\ Cardinality(S) = IF Cardinality(E) < n THEN Cardinality(E) ELSE n
                    /\ \A r \in S, q \in E \ S : r[2] <= q[2]}

Running == {p \in Purgers : purge[p].pc # "idle"}

PurgeStart(p) ==
  /\ purge[p].pc = "idle"
  /\ purge' = [purge EXCEPT ![p] = [pc |-> "select", start |-> now, chosen |-> {}]]
  /\ IF Running = {}
     THEN since' = now /\ clean' = TRUE
     ELSE since' = since /\ clean' = (clean /\ with_batch_size(BatchSize) = 1)
  /\ UNCHANGED <<now, pub, rows, runs, work>>

\* The subselect.  SQLite fixes the cutoff when purge is called, the others
\* read the clock in every statement.
PurgeSelect(p) ==
  /\ purge[p].pc = "select"
  /\ \E t \in {purge[p].start, now} : \E S \in OldestFirst(Expired(t), with_batch_size(BatchSize)) :
       purge' = [purge EXCEPT ![p].pc = "delete", ![p].chosen = S]
  /\ UNCHANGED <<now, pub, rows, runs, work, since, clean>>

\* Mutant: one statement and no loop.
PurgeOnce(p) ==
  /\ purge[p].pc = "delete"
  /\ rows' = rows \ purge[p].chosen
  /\ purge' = [purge EXCEPT ![p] = NoPurge]
  /\ UNCHANGED <<now, pub, runs, work, since, clean>>

\* The DELETE misses the rows another purge has deleted since the subselect;
\* purge returns when it deleted fewer than a batch.
PurgeDelete(p) ==
  /\ purge[p].pc = "delete"
  /\ rows' = rows \ purge[p].chosen
  /\ LET affected == Cardinality(rows \cap purge[p].chosen)
     IN purge' = IF affected < with_batch_size(BatchSize)
                 THEN [purge EXCEPT ![p] = NoPurge]
                 ELSE [purge EXCEPT ![p].pc = "select", ![p].chosen = {}]
  /\ UNCHANGED <<now, pub, runs, work, since, clean>>

PurgeFails(p) ==
  /\ purge[p].pc # "idle"
  /\ purge' = [purge EXCEPT ![p] = NoPurge]
  /\ clean' = FALSE
  /\ UNCHANGED <<now, pub, rows, runs, work, since>>

-----------------------------------------------------------------------------

Next ==
  \/ Tick
  \/ \E m \in Messages : Publish(m) \/ \E w \in Workers : Deliver(w, m)
  \/ \E w \in Workers : \/ Begin(w) \/ ClaimFresh(w) \/ ClaimDuplicate(w)
                        \/ Commit(w) \/ GiveUp(w)
  \/ \E p \in Purgers : \/ PurgeStart(p) \/ PurgeSelect(p)
                        \/ PurgeDelete(p) \/ PurgeFails(p)

Spec == Init /\ [][Next]_vars

\* The task that has called purge is polled.
FairSpec == Spec /\ \A p \in Purgers : WF_vars(PurgeSelect(p) \/ PurgeDelete(p))

\* Purging does not break exactly once: a message is processed at most once
\* although its row is purged while the broker may be delivering it.
ProcessedOnce == \A m \in Messages : runs[m] <= 1

\* A purge that runs alone leaves no row that had expired when it began, whatever
\* is committed meanwhile.  Concurrent purges may stop early because another one
\* took their rows, but with batches of one never all of them: it then holds
\* when the last one returns, of the time the first one began.
NothingExpiredLeft ==
  [][Running # {} /\ Running' = {} /\ clean' => \A r \in rows' : r[2] >= since - MaxAge]_vars

\* A purge goes on only as long as it gets somewhere: before every further round it
\* has deleted a row, so it runs no longer than rows keep expiring.
RoundsDelete ==
  [][\A p \in Purgers : purge[p].pc = "delete" /\ purge'[p].pc = "select" =>
       rows' \subseteq rows /\ rows' # rows]_vars

\* purge returns, whatever batch size the policy was given: zero would delete
\* nothing, for ever.
PurgeReturns == \A p \in Purgers : (purge[p].pc # "idle") ~> (purge[p].pc = "idle")
=============================================================================
