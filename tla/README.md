# txbox in TLA+

txbox is a transactional inbox. A consumer of an at-least-once broker records
each message in a table, in the same database transaction as the effects of
handling it, and so turns at-least-once delivery into exactly-once effects. These
modules model the crate from its source, TLC checks them on small instances, and
TLAPS proves the main results for every instance.

1. [The system](#the-system)
2. [Modules and how they correspond to the code](#modules-and-how-they-correspond-to-the-code)
3. [Runs, bounds and fairness](#runs-bounds-and-fairness)
4. [Where code and documentation disagree](#where-code-and-documentation-disagree)
5. [What is proved](#what-is-proved)
6. [What is only model-checked, and what is not modelled](#what-is-only-model-checked-and-what-is-not-modelled)
7. [Plan](#plan)

## The system

| Part | Source | State | Operations |
|---|---|---|---|
| `Consumer::process` | `src/consumer.rs` | the locals of a call, its transaction | begin, claim, handler, commit; rollback of a duplicate and of a failed handler |
| `Consumer::process_many` | `src/consumer.rs` | the slice, its claims, the ids that failed, the results so far | `claim_many`; for each fresh message savepoint, handler, then release or `rollback_to` and `unclaim`; commit |
| Manual API | `src/consumer.rs` | the caller's transaction | `begin`, `claim`, `claim_many`, `is_known_duplicate`, `commit`, `rollback`, `purge` |
| Store contract | `src/store.rs` | rows, transactions, savepoint | the traits `InboxStore`, `LockTimeout` and `Savepoints` |
| Backends | `src/postgres.rs`, `src/mysql.rs`, `src/sqlite.rs`, `src/sql.rs` | table `inbox_messages`, row locks, the pool, MySQL's session variables | the SQL of the traits' methods |
| Retention | `src/retention.rs`, `purge` of the backends | `processed_at` of the rows | deletion in batches |
| Identifiers | `src/types.rs` | none | validation, `MessageId::scoped` |
| Errors | `src/error.rs` | none | `Handler`, `Contended`, `Backend` |
| Conformance suite | `src/testing.rs` | the rows of a run | its checks of a third-party backend |
| Kafka example | `examples/kafka_consumer.rs` | the group's offset, the record in hand | receive, process, commit the offset |
| Crate root | `src/lib.rs` | none | not modelled |

How the parts interact. A task takes messages from the broker and calls `process`
or `process_many`. The call takes a connection from the pool, opens a transaction
and claims its ids by inserting their rows. If another transaction has an
uncommitted row with the same key, the claim waits for that transaction to end. A
fresh claim leads to the handler, which writes on the same connection. The commit
makes rows and effects visible together. The task acknowledges what came back as
processed or duplicate, and the broker delivers the rest again. Meanwhile `purge`
deletes old rows.

What makes this hard:

- Two replicas get the same message at once, or overlapping batches in crossed
  orders.
- A future can be dropped at any `await`. The transaction is then rolled back
  later, by the pool, and keeps its locks until then.
- A commit can succeed and its answer be lost.
- One message of a batch fails while its neighbours must go through, with one
  savepoint name for all of them, and an id can occur twice in the slice.
- MySQL may roll back the whole transaction under a handler.
- MySQL's lock timeout belongs to the session and outlives the transaction;
  PostgreSQL's lasts for the rest of the transaction.
- A caller of the manual API claims several times in one transaction and can
  deadlock. The server then ends its transaction, and MySQL runs whatever comes
  next statement by statement.
- A row may be purged while its message can still be delivered.
- A broker's offset and the inbox are two logs that are not written together.

`PROJECT.json` lists these and the other hazards with the lines where they bite
and the properties that would catch them. The correctness properties, by part:

| Part | Properties |
|---|---|
| `process`, `process_many` | `EffectIffRow`, `AckedAreCommitted`, `ReplyMatchesCommit`, `ClaimsStayTrue`, `CallsAreFinite`, `HealthyAcked`, `CallsReturn`, `ImplementsExactlyOnce`, `DeliversAsRetention` |
| Locks and the pool | `NoWaitCycle`, `ServicesIndependent`, `PoolAccounting`, `SomeCallGoesOn` |
| Manual API | `EffectIffRow`, `UnitIsAtomic`, `CyclesNeedTwoStatements`, `SomeUnitGoesOn`, `ImplementsExactlyOnce`, `AllAckedWhereQueued` |
| Lock timeouts | `OwnValueSurvives`, `HandlerWaitsItsOwn`, `ClaimWaitsAsAsked` (MySQL); `PgWaitsItsOwn`, `PgClaimWaitsAsAsked` (PostgreSQL) |
| Retention | `ProcessedOnce`, `NothingExpiredLeft`, `RoundsDelete`, `PurgeReturns` |
| `claim_many` | `SameAsOneByOne`, `MiscountIsAnError` |
| Identifiers | `NoCollision` |
| Kafka example | `OffsetBehindInbox`, `DeliveredIsNotLost`, `SettlesBeforePoison` |
| Conformance suite | `GoodStorePasses`, `BadStorePanics`, `BadSavepointsPanic` |

## Modules and how they correspond to the code

```
InboxStore <- StoreProofs
InboxStore <- Consumer <- ConsumerInvariant
                 `- INSTANCE ExactlyOnce
ConsumerInvariant <- ConsumerProgress
ConsumerInvariant <- ProcessDelivery
                 `- INSTANCE Retention, INSTANCE Claims
ConsumerProgress, ProcessDelivery <- MCConsumer <- MCBackends
InboxStore <- ManualBatch <- MCManualBatch
                 `- INSTANCE ExactlyOnce
Claims <- ClaimMany
Claims <- Conformance <- MCConformance
Ids, ClaimMany <- MCValues
MySqlLockTimeout, PgLockTimeout <- LockTimeouts
ConsumerInvariant, StoreProofs <- ConsumerSteps <- ConsumerProofs
ConsumerProofs, ConsumerProgress, ProcessDelivery <- CallProofs
ManualBatch, StoreProofs <- ManualBatchProofs
Retention <- RetentionProofs
Ids, ClaimMany, LockTimeouts <- ValueProofs
KafkaConsumer <- KafkaProofs
```

`A <- B` means that B extends A.

**InboxStore** is the database and the pool. `rows` are the committed keys
`<<consumer id, message id>>`, `applied` counts the committed effects of each
key, and `tx` gives each connection its transaction: rows inserted, locks held,
effects written and what the savepoint saved. One operator stands for each method
of the traits. `Backend` selects among the three databases, which differ in three
places:

- `BlockedBy`: row locks on PostgreSQL and MySQL, one writer on SQLite;
- `DuplicateKeepsLock`: whether a claim that finds the row keeps a lock;
- `LoseTransaction`: on MySQL a deadlock victim loses its transaction and its
  savepoint.

A `Tx` that is dropped goes to state `"dropped"`. It keeps its locks until the
pool has run the queued rollback (`RollbackDropped`), as sqlx does. The databases
and sqlx are not part of the repository. These operators are written from the SQL
the crate sends and from how its code uses the answers, and `PROJECT.json` marks
the ones without source lines as external.

**Consumer** is `process` and `process_many`. Each worker is in at most one call,
the record `call[w]`, whose fields are the locals of the Rust functions and whose
`pc` names the next `await`:

| `pc` | Code | Actions |
|---|---|---|
| `begin` | `store.begin` | `BeginTx` |
| `claim` | `claim`, or `claim_many` row by row in byte order | `ClaimFresh`, `ClaimDuplicate`, `ClaimContended`, `OpenSavepoint` |
| `run`, or `loop` at a fresh position | the handler | `HandlerOk`, `HandlerErr` |
| `loop` at another position | a duplicate, or a repeat of an id | `SkipDuplicate` |
| `rollback_to`, `unclaim`, `release` | the savepoint statements around a handler | `RollbackToSavepoint`, `SavepointLost`, `UnclaimFailed`, `ReleaseSavepoint` |
| `commit`, or the end of `loop` | `store.commit` | `CommitTx`, `CommitAnswerLost` |
| `rollback`, `undo` | `process` on a duplicate, on a failed handler | `RollbackDuplicate`, `RollbackHandlerErr` |
| `done` | the call has returned | `Settle`: the caller acknowledges |

`StatementFails` is the `?` of every statement, `Cancel` the drop of the future or
the death of the process at any point, `SkipKnown` a caller that trusts
`is_known_duplicate`. Faults come out of the budget `MaxFaults`; a `Poison`
message fails every time without spending any of it. Lock timeouts and MySQL's
deadlock victims are faults too. A message id is a natural
number and `<` is the byte order the code sorts by.

Three modules look at these calls. **ConsumerInvariant** has the inductive
invariant. **ConsumerProgress** says why calls come to an end: what a call may have
to wait for (`CanGoOn`) and how many steps it has left (`StepsLeft`).
**ProcessDelivery** says that what two smaller models take from the calls is what
the calls do: the delivery of Retention, and the claims of ClaimMany.

**ExactlyOnce** is the abstract inbox: sets of unhandled keys are handled at once,
and handled keys are acknowledged. `Consumer` implements it with `handled` being
`applied`.

**ManualBatch** is the transaction in the caller's hands, over the same store. A
unit is a sequence of slices; each slice is one claim statement followed by the
effects of the ids that were fresh. Its actions are the statements of the unit,
`LockTimeout` and `DeadlockVictim` for the two ways a claim becomes `Contended`,
`RollbackAndRetry` for what the guide tells the caller to do then, and the faults.
`lost` holds the connections whose transaction the server has ended on its own:
there `Insert`, `Hit` and `Write` do what the server does, which is nothing on
PostgreSQL and a commit of its own on MySQL. It implements ExactlyOnce too.

**ClaimMany** is about what `Consumer` takes for granted in `FreshAt`: that sorting,
deduplicating, claiming and spreading the answers over the caller's slice gives
what id-by-id claims would have given (`OneByOne`, in **Claims**). Several slices are claimed one
after the other in one transaction. A call is a backend's answer to the sorted
batch, and then one step (`TakeNext`) for each id of the slice that takes its claim
out of the map of answers. There is one action for each way to answer: with
`RETURNING` (`ClaimSlice`), with the tokens by which the MySQL backend finds its
fresh rows (`ClaimSliceByToken`), with the default method of the trait
(`ClaimSliceOneByOne`), and with the wrong number of claims
(`ClaimSliceMiscounted`), which leads to an error and to no panic.

**MySqlLockTimeout** is one MySQL connection with the session variable
`innodb_lock_wait_timeout` and the user variable the crate saves it in. It covers
the rounding of a `Duration` to whole seconds, the restore after the INSERT, the
restore in the next BEGIN after a cancelled claim, and reconnects. After a claim
has been cancelled its transaction is dropped, or goes on (`pc` `"left"`) with the
claim's timeout still in force; `Reclaims` says whether callers may claim again then.
**PgLockTimeout** is one PostgreSQL connection, with the session's `lock_timeout`
and the transaction's, the conversion to milliseconds, and the value PostgreSQL
refuses. **LockTimeouts** puts the two side by side for one run.

**Retention** is `purge` against deliveries, with time in ticks. A purge is a loop
of a subselect and a DELETE, which another purge can get between. `Consumer`'s
calls are reduced to begin, claim, and commit or give up.

**KafkaConsumer** is the example: instances of one group share a partition, each
fetches from the position it was assigned, hands the record to `process` and
commits its offset without waiting. `process` is one step, the one ExactlyOnce
allows. An error leaves `main` through the `?`: now and then, as a fault (`Exit`), or
on every delivery of a record in `Poison`, whose handler always fails
(`ProcessFails`). The instance is restarted and gets the record again. The broker reassigns the partition under an owner that is alive, which
goes on until it learns of it; commits are lost, late, or refused because the
sender is no longer the owner.

**Conformance** is `src/testing.rs`: both suites as sequences of calls with the
answers they assert, run against a store that keeps its contract or breaks it in
one way (`flaw`). Each call is one step, so that two runs on one table interleave,
and open transactions stay on the connections of the pool.

**Ids** is the validation of identifiers and `MessageId::scoped`, on sequences of
one-byte characters.

Definitions whose comment begins with "Mutant" are wrong versions of the
definition after them. `PROJECT.json` names the property each of them breaks.

## Runs, bounds and fairness

State counts are TLC's distinct states.

| Run | States | What it shows |
|---|---|---|
| `consumer_backends` | 605,554 | every safety property and the refinement, on each backend; somebody can always go on and every call is finite |
| `consumer_two_services` | 21,781 | services that share the table neither wait for each other nor skip each other's messages, and every call returns with fewer connections than workers; `process` is a delivery of Retention |
| `consumer_poison` | 44,824 | on MySQL a poison message costs only itself, and every call returns |
| `consumer_outer_err` | violation | an outer `Err` of a batch that was committed |
| `manual_batch` | 60,435 | units of one or several claims, on each backend: all or nothing, deadlocks only across statements, no standstill without one, and on PostgreSQL and MySQL every message acknowledged in the end |
| `lock_timeout` | 20,736 | the application's lock timeout survives claims that fail or are cancelled, and claims wait as long as they asked, on MySQL and on PostgreSQL |
| `lock_timeout_reclaim` | violation | it does not survive a second claim on a transaction whose claim was cancelled |
| `retention` | 526,953 | purging does not lead to a message being processed twice, purges that all succeed leave no row that had expired when they began, every round of a purge deletes something, and `purge` returns, with a batch size of zero too |
| `values` | 13,769 | scoped ids do not collide, and `claim_many` agrees with id-by-id claims |
| `kafka` | 423,066 | the offset stays behind the inbox, nothing delivered is passed over, every record before one whose handler always fails is processed or skipped |
| `kafka_new_group` | violation | a group without a committed offset loses the record it crashes with |
| `conformance` | 53,270 | the suites pass a store that keeps its contract and panic on nineteen that do not |

**Bounds.** `consumer_backends` has two workers, two messages, two connections and
two faults. Two workers are enough for every race over one key, two messages for
crossed orders and for a neighbour of a failed message, and two faults for a
failure during the recovery from another one. The slices are `<<>>`, `<<1,1>>`,
`<<1,2>>`, `<<2,1>>` and `<<2,1,2>>`, an id on both sides of another one. The
backend is chosen at the start: `MCBackends!On(b)` is `Consumer` with `b` for its
constant `Backend`. On PostgreSQL and MySQL one worker has a lock timeout and the
other does not. `NoWaitCycle` and `SomeCallGoesOn` are stated there with the
relation of row locks, and so are `CyclesNeedTwoStatements` and `SomeUnitGoesOn` in
`manual_batch`; SQLite's single writer, and more than two workers, are inside the
theorems. `consumer_two_services` has three workers for two
connections, so that some calls wait for the pool while others hold a connection
and wait for a lock; its calls are `process` of one message. `consumer_poison`
delivers both messages, one of which always fails, singly and as a batch; it is on
MySQL, where handlers can also lose the transaction and claims time out.

`manual_batch` has two callers, two connections, one fault and four units: two ids
claimed one by one in both orders, both in one statement, and one id alone. This is
the least for a deadlock, for a fault during its recovery, and for a caller with one
id that the others' units might keep from it. `lock_timeout` has small maxima so
that the cap and the refusal are reached, timeouts on both sides of whole seconds
and milliseconds, and zero. `retention` has two messages, one worker, two purges and
batches of one, the least for an early stop that leaves work to the other purge;
`MaxAge` 2 is the smallest the assumption allows for a window and a delay of 1, and
3 ticks are enough for a row to expire and be purged after a redelivery. `values`
takes every pair of strings of up to three characters over a letter, the separator
and a blank, with `MAX_LEN` 5, so that joined ids that are too long occur; then
every slice of up to two of three ids, and longer ones (three ids in reverse, an id
on both sides of another, a repeat before another id, two ids repeated), one after
the other in one transaction, with two claim tokens. `kafka` has two instances, three records with any of two keys, a key whose
handler always fails and an invalid key, and two faults: a rebalance and a crash, or two lost commits. `conformance` has
two runs, which is enough for their rows to meet.

Symmetry is used only over connections, in `consumer_backends`, which has no
fairness.

**Fairness** (`Consumer!FairSpec`).

- Strong fairness of `Advance(w)`. The runtime polls futures. A call that waits
  for a connection or a lock is enabled again and again rather than always; the
  pool's and the databases' queues are first come, first served, so it gets its
  turn. On SQLite waits are polled by `busy_timeout` rather than queued, so nothing
  says who is next, and no liveness is claimed there.
- Weak fairness of `PoolRollback(c)`: the pool runs the queued rollback.
- Strong fairness of the delivery of an unacknowledged key: an at-least-once
  broker keeps delivering it to some worker of the consumer group.

No fault is assumed to happen or to stop; the budget is finite. Lock timeouts are in
it: calls that time out in turn for ever, each while another one holds what it waits
for, would never finish, and nothing in the library prevents that: it has no
back-off.
`Retention!FairSpec` assumes that the task that called `purge` is polled.

`ManualBatch!FairSpec` assumes the same of callers, pool and broker; that the
database breaks deadlocks; and strong fairness of each claim statement of a unit by
itself, since a lock goes to whoever has waited for it longest and a caller whose
first statement always gets through must not be starved at its second. Lock
timeouts count as faults there too. In `manual_batch`, which has all three backends,
fairness is assumed on PostgreSQL and MySQL only (`MCManualBatch!FairWhereQueued`),
and `AllAckedWhereQueued` speaks of these two.

`KafkaConsumer!FairSpec` assumes that instances are restarted and run, that a
partition without a live owner is assigned, that a former owner learns of its loss,
and that offset commits arrive. All of it is weak fairness; crashes, rebalances
under a live owner, lost commits and errors that come and go are faults. An error that
comes back on every delivery is none: the example exits through the `?` each time, the
instance is restarted, and the partition stays at that record for ever, as the comment
at `examples/kafka_consumer.rs:54-55` and `docs/operations.md:173-175` warn.
`SettlesBeforePoison` therefore promises only the records before the first such one.

`consumer_backends`, `manual_batch`, `lock_timeout` and `values` combine several
instances in one run, and TLC counts each instance's next-state relation there as a
single action. Run alone on each backend, every action of `Consumer`, `ManualBatch`,
`MySqlLockTimeout` and `PgLockTimeout` happens, except where the backend rules it
out: `SavepointLost` is MySQL's only, and SQLite has no deadlock victim.

The deadlock check is off for `kafka`, `kafka_new_group` and `conformance`: a
partition that has been read to its end waits for records, and the suites end.

## Where code and documentation disagree

- `consumer_outer_err`. `process_many` documents that "The outer `Err` is a
  backend failure: nothing was committed." (`src/consumer.rs:69`). When the answer
  to the commit is lost, it returns an outer `Err` for a batch that has been
  committed. Redelivery is safe all the same: `EffectIffRow` and
  `AckedAreCommitted` hold with that fault. A caller must not take the error as
  proof that nothing happened.
- `lock_timeout_reclaim`. The comment at `src/mysql.rs:38-41` says that a value
  the application set in `after_connect` survives a cancelled claim. It does if
  the transaction ends, as it always does in `process` and `process_many`. A
  caller of the manual API can cancel a claim (with a timeout around the future,
  for instance) and claim again on the same transaction. The second claim then
  saves the first one's timeout over the application's value.
- `kafka_new_group`. The example commits offsets by hand because "with auto-commit,
  a crash after delivery but before the inbox transaction commits would still
  advance the offset and lose the message" (`examples/kafka_consumer.rs:32-34`). It
  leaves `auto.offset.reset` at the client's default, the end of the log. A group
  that has never committed an offset and crashes with its first record in hand
  starts behind that record when it comes back.

Remarks that are not disagreements:

- Purges that overlap. With batches of more than one row, and rows of equal
  `processed_at`, which the database may choose in any order, two purges can each
  find that the other has taken part of their batch, and both return although
  expired rows are left, until the next purge. `docs/operations.md:115` asks for
  exactly one instance that purges. `NothingExpiredLeft` is therefore about a purge
  that runs alone, or about batches of one.
- `conformance` does not notice a `claim_many` that answers in reverse: the answers
  it asserts read the same backwards. `savepoints_conformance` does notice. A store
  that leaks transactions is sure to fail only with a pool of one connection, as
  the module's documentation says.
- On PostgreSQL a claim's lock timeout stays in force for the rest of the
  transaction, the handler's statements included. A timeout beyond PostgreSQL's
  maximum makes every claim fail.
- `src/retention.rs` asks that `max_age` exceed the broker's redelivery window. What
  the retention theorem needs is the window plus the time the last delivery takes up
  to its claim: a message delivered at the end of the window has to find the row
  when its claim runs.

## What is proved

All theorems hold for every value of the constants that satisfies the named
assumptions: any numbers of workers, services, connections, messages, slices and
faults, and each of the backends. Three exclude MySQL, marked in the table: they are
about circles of waits, and the model leaves out locks that InnoDB's claims take
([below](#what-is-only-model-checked-and-what-is-not-modelled)).

| Theorem | Module | Statement |
|---|---|---|
| `TypeCorrect` | ConsumerProofs | `Spec => []TypeOK` |
| `ExactlyOnceEffect` | ConsumerProofs | `Spec => []EffectIffRow` |
| `NothingLost` | ConsumerProofs | `Spec => []AckedAreCommitted` |
| `ConnectionsAccounted` | ConsumerProofs | `Spec => []PoolAccounting` |
| `Refinement` | ConsumerProofs | `Spec => ImplementsExactlyOnce` |
| `NoDeadlock` | ConsumerProofs | `Spec => []NoWaitCycle`, for bounded sets of ids, not on MySQL |
| `ServicesDoNotWait` | ConsumerProofs | `Spec => []ServicesIndependent` |
| `AnswersAreTrue` | ConsumerProofs | `Spec => ReplyMatchesCommit` |
| `SomeCallAlwaysGoesOn` | CallProofs | `Spec => []SomeCallGoesOn`, for bounded sets of ids, not on MySQL |
| `CallsAlwaysFinite` | CallProofs | `Spec => CallsAreFinite` |
| `ClaimsAlwaysTrue` | CallProofs | `Spec => []ClaimsStayTrue` |
| `ProcessIsADelivery` | CallProofs | `Spec => DeliversAsRetention`, for calls of `process` |
| `RowsMatchEffects` | ManualBatchProofs | `Spec => []EffectIffRow` |
| `BatchIsOneUnit` | ManualBatchProofs | `Spec => UnitIsAtomic` |
| `OneStatementNoDeadlock` | ManualBatchProofs | `Spec => []CyclesNeedTwoStatements`, for bounded sets of ids, not on MySQL |
| `SomeUnitAlwaysGoesOn` | ManualBatchProofs | `Spec => []SomeUnitGoesOn` |
| `Refinement` | ManualBatchProofs | `Spec => ImplementsExactlyOnce` |
| `OwnValueAlwaysSurvives`, `HandlerAlwaysWaitsItsOwn`, `ClaimAlwaysWaitsAsAsked` | ValueProofs | the three properties of MySqlLockTimeout, unless `Reclaims` |
| `PgAlwaysWaitsItsOwn`, `PgClaimAlwaysWaitsAsAsked` | ValueProofs | the two properties of PgLockTimeout |
| `PurgeKeepsExactlyOnce` | RetentionProofs | `Spec => []ProcessedOnce` |
| `PurgeIsThorough` | RetentionProofs | `Spec => NothingExpiredLeft` |
| `EveryRoundDeletes` | RetentionProofs | `Spec => RoundsDelete` |
| `OffsetAlwaysBehindInbox`, `DeliveredIsNeverLost` | KafkaProofs | `OffsetBehindInbox` and `DeliveredIsNotLost`, unless `NewGroup` |
| `ScopedIdsDoNotCollide` | ValueProofs | `IdsSpec => []NoCollision` |
| `BatchIsSortedAndUnique` | ValueProofs | `Unique(ids)` has every id of the slice once, in increasing order |
| `ClaimManyIsOneByOne` | ValueProofs | `ClaimsSpec => []SameAsOneByOne` |
| `MiscountAlwaysFails` | ValueProofs | `ClaimsSpec => []MiscountIsAnError` |

**Consumer.** Neither `EffectIffRow` nor `AckedAreCommitted` is inductive. That a
commit adds one effect for each row depends on what the transaction holds at that
point, and that depends on the whole history of the call. `ConsumerInvariant!IInv`
says what it holds at each `pc`:

- `ConnInv`: a call has a connection of its own from its begin to its return.
- `LockInv`: locks exclude each other, and uncommitted rows are locked and not
  committed. A commit therefore never adds a row a second time.
- `ClaimInv`, while claiming: the inserted rows are those of the fresh ids, ids
  answered as duplicates are committed, and all locks are on smaller ids than the
  ones still to be claimed.
- `LoopInv` and `Holds`, in the loop: the rows in the transaction are those of the
  fresh ids that have not failed, the effects are those of the ones already
  handled, and the results say so. `Saved` states the same of the savepoint.
- `RunInv`, `CommitInv`, `DoneInv`: the same for `process` and for the answer.

`StoreProofs` has the lemmas about the store alone, which `ManualBatch` uses too:
what a statement does to its transaction, and that `LockInv` survives a step of one
transaction. `ConsumerSteps` shows what a step of one call leaves alone of the
others, and then the claims and the loop. `ConsumerProofs` has the commit and the
theorems. For the
refinement, only the two commits change `applied`, and `IInv` gives that they
handle keys with no effect yet. Only `Settle` and `SkipKnown` change `acked`.

**No deadlock.** By `ClaimInv` a waiting call holds locks only on ids smaller than
the one it waits for. So if everyone in a set of calls waited for someone in the
set, the ids waited for would have no largest one. Message ids have at most 512
bytes, hence the bounded set of ids in the theorem. On SQLite only a call without
the write lock waits. On MySQL the lemma behind the theorem still holds of the
model, but three sessions at one id can deadlock in InnoDB when the one that holds it
rolls back, so the theorem does not claim it there.

**Waits and answers.** `HoldsInv` adds to `IInv` what a call's locks are on: rows of
its own consumer only, and in the loop of `process_many` those of all fresh ids,
the failed ones included. The first half gives `ServicesIndependent`. The second
gives `ReplyMatchesCommit`: a failed id has been unclaimed but stays locked, so
nobody else has committed it when the call returns; and a fresh id is reported at
its first position, processed or failed, so what the commit adds to the rows is
exactly what is reported as processed.

**Standstill and length of a call.** `CallsReturn` itself is a liveness property,
but what it rests on apart from fairness is proved. First, calls wait in two queues,
for a connection of the pool and for a lock, and hold a connection while they wait
for a lock. Suppose nobody can go on and no rollback is queued. Whoever waits for a
connection does so because all of them are taken, and there is at least one
(`PoolAssumption`); by `PoolAccounting` each is in the hands of a call, and that call
must be claiming. Whoever claims waits for a lock, which by `PoolAccounting` is held
by a call and not by an idle connection. So the claiming calls all wait for each
other, and `NoDeadlock` says they do not. Second, `StepsLeft` bounds the
statements a call has before it. Every step lowers it, or claims one more id and
leaves it as it is: four statements for each position of the slice (handler,
`rollback_to`, `unclaim`, release) is the most the loop can take. The proof needs
from `IInv` that the position stays within the slice.

**What other models take from the calls.** `ClaimsStayTrue` is about the time between
the answer of `claim_many` and the commit. A duplicate's row is committed and stays;
a fresh id's row is locked by the call (`HoldsInv`), so nobody else commits it.
`OneByOne` on the rows committed at that moment therefore still gives the claims the
loop uses, repeats included, and the result about `ClaimMany` may be used in
`Consumer`. `DeliversAsRetention` maps a call of `process` to a delivery of
`Retention`, by its `pc`. A claim there needs that no other delivery of the same
message is in progress with a row of its own, which is `LockInv`; a commit has to
add one row and one effect, which is `RunInv` and `CommitInv`. Time does not pass in
`Consumer` and nothing is purged, so the mapping has a clock that stands still and
no purges: what `Retention` adds to this is its own.

**Manual batches.** From `ManualAssumption`: units are non-empty sequences of
non-empty slices of ids, and all callers belong to one consumer group.
`ManualBatchProofs!IInv` says what a caller's transaction holds on the way through
its unit:

- `ConnInv`: each transaction in a caller's hands is open and on a connection of its
  own; one that the server has ended (`lost`) is in the hands of a caller that has
  got `Contended` and can only roll back, or has been dropped. This is where it
  matters that the caller follows the guide: otherwise its next statement on MySQL
  would commit by itself.
- `LockInv`, as for `Consumer`.
- `Holds`: the rows inserted are among the ids claimed so far, in earlier slices and
  in this one; every id claimed so far is committed or among them; the effects
  written are one for each, but for those of the slice in hand that are still to
  come.

At the commit the claimed ids are all ids of the unit and no effect is left to
write. What the commit adds is therefore the rows of the unit that were not there,
each with one effect: this gives `EffectIffRow`, `UnitIsAtomic` (nothing else
changes the rows) and the refinement. The last conjunct of `Holds` is about the
first claim statement only: there all locks are on smaller ids than those to come.
In a circle of callers that are all in their first statement, the largest id that is
waited for would be locked by a caller that waits for a larger one, so somebody is
in a later statement. The ids are bounded as in `NoDeadlock`.

`SomeUnitGoesOn` takes a second invariant, `PoolInv`: every open transaction is in
some caller's hands, a connection in the pool holds no lock, and a claim statement
has an id left to claim. When nobody can go on and no rollback is queued, the callers
that claim wait for each other, as above; here that is a circle, for the database to
break. With one claim statement for each unit there is none.

**claim_many.** From `ClaimsAssumption`: ids are natural numbers in byte order. The
model sorts by rank: the i-th id of the batch is the one with i - 1 smaller ones.
That such an id exists for each i, and that no two ids have the same rank, are
lemmas from the cardinality of finite sets; they give `BatchIsSortedAndUnique`. The
inductive invariant `ClaimsInv` describes a call half way through the slice: the
claims given out are those of `OneByOne`, and the map answers `Duplicate` for the
ids that had a row before the call and for those already taken, `Fresh` for the
rest. Each backend's answer establishes it. For MySQL the reason is that a token
just drawn is on no earlier row, so that the rows carrying it are the ones this
statement has inserted. The invariant also says that the map has every id of the
slice as long as the number of claims is right: hence no panic.

**Lock timeouts.** On PostgreSQL the transaction's value is the conversion of what
the last claim with a timeout asked for, and the session's is never touched. On
MySQL, the inductive invariant is: inside a claim with a timeout the saved
value is the application's and the session has the claim's; between claims nothing
is saved. After a cancelled claim both stay as they are until the next BEGIN restores
the value: statements of such a transaction wait as long as the claim would have, and
`HandlerWaitsItsOwn` says nothing of them. The lemma `RoundsUp` states what the conversion to seconds computes.

**Retention.** From `PolicyAssumption` (`MaxAge >= Window + MaxDelay`). The
invariant: a processed message has its row, or the window and the delivery time
have both passed. A delivery in progress was made within the window and is not
late, and `processed_at` is not before the publication. So when a row is purged, no
delivery that could still claim it is under way.

For `NothingExpiredLeft` the invariant `LeftInv` says that, as long as a row is left
that had expired when the purges began, some running purge *goes on*: it is about to
select, or its DELETE will find a full batch, or it has chosen all such rows. A
subselect that finds less than a batch has found them all, since its cutoff is no
earlier. A row committed meanwhile is too young to matter, by the bound on the time
a delivery takes. A DELETE that comes up short has deleted them all, or its only
row was taken by another purge, which then goes on. `RoundsDelete` says why the
loop ends: another round follows only a DELETE that deleted a full batch, and
`with_batch_size` makes a batch at least one row.

**Kafka.** Not only the committed offset is behind the inbox: so is every offset that
may become it, in flight or about to be sent, also by an instance that has lost the
partition without knowing. `IInv` says so of each instance, and that an instance which
believes it is the owner and asks for the next record has everything before its
position settled. Assignment starts from the committed offset, so the new owner
inherits the invariant. Without a committed offset that step fails, which is the
finding above.

**Identifiers.** A scope has no separator, so the first separator of a scoped id
marks where the scope ends. The proof compares the two lengths.

## What is only model-checked, and what is not modelled

Only model-checked:

- Liveness: `HealthyAcked`, `CallsReturn`, `PurgeReturns`, `AllAckedWhereQueued`,
  `SettlesBeforePoison`. Fairness and `ENABLED` are beyond the proof system. What
  is proved of them is the part without fairness: `SomeCallGoesOn`,
  `CallsAreFinite`, `SomeUnitGoesOn` and `RoundsDelete`. `CanGoOn` is therefore
  written out. Run alone on each backend, with one fault, `Consumer` and
  `ManualBatch` have it equal to `ENABLED Advance(w)` in every state of the instances
  above.
- `Conformance`: `GoodStorePasses`, `BadStorePanics`, `BadSavepointsPanic`. Its
  programs are folds over scripts of calls, and what a fold computes needs induction
  over data, which the installed provers cannot instantiate. The scripts and the
  flaws are finite lists of the source, and TLC covers all of them.

Abstractions of the models:

- Of MySQL's locks, the shared lock of an `INSERT IGNORE` that finds the row is left
  out, and so are those that claims which wait for one id are granted when the
  transaction that holds it rolls back. With two or more of them waiting, InnoDB ends
  all but one as deadlock victims. The model has what that leaves behind, a claim that
  fails with `Contended` on a transaction that is gone, but not the circle: it waits
  less often than the server does. With two connections, as in the runs, at most one
  claim waits for an id. The theorems that exclude circles leave MySQL out.
- MySQL's claim tokens, random 64-bit numbers, are taken to be unique.
- A deadlock in `ManualBatch` is between claims. Handlers' effects do not wait.
- `KafkaConsumer` has one partition, and a record's offset is its position. A commit
  that overtakes another one of the same instance is not modelled: the client
  sends them in order.
- The stores of `Conformance` have one flaw each.
- A handler writes one effect. What it does to other tables, and the locks it
  takes there, are not modelled; that it can fail, or lose the transaction on
  MySQL, is.
- Strings in `Ids` are one-byte characters. Lengths in the code are in bytes, so
  this does not change what is accepted as too long.
- A connection that is lost in `MySqlLockTimeout` is replaced by a new one.
- Rows are not purged in `Consumer`, and calls are coarser in `Retention`.
  `DeliversAsRetention` relates the two for `process`. A call of `process_many` is
  several deliveries of which one transaction commits all, and `Retention` has them
  only one by one.

Not modelled:

- migrations and the wording and sources of errors: no state the properties tell
  apart;
- the conversion of `max_age` to each database's interval type;
- the example's purge task, which is `Retention`'s purge, and `src/lib.rs`;
- a handler that swallows a database error and returns `Ok`. The library cannot
  see it, and the documentation of `Contended` tells callers not to.

## Plan

Done so far, in this order: the store and the consumers, the abstract inbox and
its refinement, the inductive invariant and its proof, deadlock freedom, MySQL's
session timeout, retention, identifiers, and `claim_many` as an algorithm; then
manual batches, PostgreSQL's timeout, claim tokens, the Kafka example, the
conformance suite, and the proofs about answers, services and what purges leave;
then the proofs about manual batches and about `claim_many`; then those about
standstill, the length of calls and rounds, and `process` as a delivery.

Next, the most important first:

1. Deliveries in batches in `Retention`, so that `process_many` can be related to
   it as `process` is.
2. The handler's own locks, with PostgreSQL's `lock_timeout` in force for the rest
   of the transaction, and deadlocks between handlers and claims.
3. Several partitions in `KafkaConsumer`, with `process_many` over a poll.
