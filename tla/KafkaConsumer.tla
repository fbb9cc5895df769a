---------------------------- MODULE KafkaConsumer ---------------------------
(***************************************************************************)
(* The Kafka example: instances of one service read a partition, hand each *)
(* record to Consumer::process and commit its offset afterwards.  process  *)
(* is one step here, the one ExactlyOnce allows it; Consumer shows that it *)
(* may be.  What is left are two logs that move apart: the inbox, and the  *)
(* group's committed offset, which lags behind, is lost, and is where the  *)
(* next owner of the partition starts.                                     *)
(*                                                                         *)
(* A record is its key, and an offset the number of records before and     *)
(* including it.                                                           *)
(***************************************************************************)
EXTENDS Naturals, Sequences

CONSTANTS
  Instances,   \* processes running the example with one group.id
  Keys,        \* keys that are message ids
  Invalid,     \* a missing, non-UTF-8 or invalid key
  Poison,      \* keys of messages on which the handler fails every time
  MaxLog,      \* how many records are produced
  MaxFaults,   \* how many faults the environment may inject
  NewGroup,    \* has the group never committed an offset?
  None         \* no offset; no instance

ASSUME KafkaAssumption ==
  /\ Invalid \notin Keys /\ Poison \subseteq Keys
  /\ MaxLog \in Nat /\ MaxFaults \in Nat
  /\ NewGroup \in BOOLEAN
  /\ None \notin Nat /\ None \notin Instances

VARIABLES
  log,        \* keys of the partition's records
  committed,  \* the group's committed offset
  owner,      \* the instance the broker has assigned the partition to
  assigned,   \* instances that believe they are the owner
  inst,       \* the instances
  handled,    \* how often the effect of each key is committed to the database
  delivered,  \* offsets recv has returned
  faults      \* faults injected so far

vars == <<log, committed, owner, assigned, inst, handled, delivered, faults>>

(***************************************************************************)
(* st: "down", "recv", "handling" in process, "ack" before commit_message; *)
(* pos: offset of the last record it fetched; rec: offset of the record in *)
(* hand; sent: offset of its commit on the way to the broker.              *)
(***************************************************************************)
Inst == [st : {"down", "recv", "handling", "ack"},
         pos : Nat, rec : Nat, sent : Nat \cup {None}]

Down == [st |-> "down", pos |-> 0, rec |-> 0, sent |-> None]

TypeOK ==
  /\ log \in Seq(Keys \cup {Invalid})
  /\ committed \in Nat \cup {None}
  /\ owner \in Instances \cup {None}
  /\ assigned \subseteq Instances
  /\ inst \in [Instances -> Inst]
  /\ handled \in [Keys -> Nat]
  /\ delivered \subseteq Nat \ {0}
  /\ faults \in 0..MaxFaults

Init ==
  /\ log = <<>>
  /\ committed = IF NewGroup THEN None ELSE 0
  /\ owner = None
  /\ assigned = {}
  /\ inst = [i \in Instances |-> Down]
  /\ handled = [k \in Keys |-> 0]
  /\ delivered = {}
  /\ faults = 0

Fault == faults < MaxFaults /\ faults' = faults + 1

-----------------------------------------------------------------------------
(* Producers and the broker.                                               *)

\* A key may come again: the producer retried, or the record was republished.
Produce(k) ==
  /\ Len(log) < MaxLog
  /\ log' = Append(log, k)
  /\ UNCHANGED <<committed, owner, assigned, inst, handled, delivered, faults>>

\* The first offset an owner reads from.  auto.offset.reset is not set: without
\* a committed offset the client starts at the end of the log.
StartOffset == IF committed = None THEN Len(log) ELSE committed

AssignTo(i) ==
  /\ inst[i].st # "down"
  /\ owner' = i
  /\ assigned' = assigned \cup {i}
  /\ inst' = [inst EXCEPT ![i].pos = StartOffset, ![i].sent = None]
  /\ UNCHANGED <<log, committed, handled, delivered>>

\* The partition has no owner, or its owner has died and its session expired.
Assign(i) ==
  /\ owner \notin assigned
  /\ AssignTo(i)
  /\ UNCHANGED faults

\* The partition is taken from an owner that is alive, and goes on for a while.
Rebalance(i) ==
  /\ owner \in assigned \ {i}
  /\ AssignTo(i)
  /\ Fault

\* The former owner learns of it.
Revoke(i) ==
  /\ i \in assigned /\ owner # i
  /\ assigned' = assigned \ {i}
  /\ UNCHANGED <<log, committed, owner, inst, handled, delivered, faults>>

\* The broker takes offsets from the owner only.
OffsetArrives(i) ==
  /\ inst[i].sent # None
  /\ committed' = IF owner = i THEN inst[i].sent ELSE committed
  /\ inst' = [inst EXCEPT ![i].sent = None]
  /\ UNCHANGED <<log, owner, assigned, handled, delivered, faults>>

\* CommitMode::Async: nobody looks at the answer.
OffsetLost(i) ==
  /\ inst[i].sent # None /\ Fault
  /\ inst' = [inst EXCEPT ![i].sent = None]
  /\ UNCHANGED <<log, committed, owner, assigned, handled, delivered>>

-----------------------------------------------------------------------------
(* The instance.                                                           *)

\* main, up to subscribe.
Start(i) ==
  /\ inst[i].st = "down"
  /\ inst' = [inst EXCEPT ![i].st = "recv"]
  /\ UNCHANGED <<log, committed, owner, assigned, handled, delivered, faults>>

CanRecv(i) == inst[i].st = "recv" /\ i \in assigned /\ inst[i].pos < Len(log)

\* Mutant: the offset is committed on delivery, as enable.auto.commit would.
RecvAutoCommit(i) ==
  /\ CanRecv(i)
  /\ LET n == inst[i].pos + 1
     IN /\ inst' = [inst EXCEPT ![i].pos = n, ![i].rec = n, ![i].sent = n,
                                ![i].st = IF log[n] = Invalid THEN "ack" ELSE "handling"]
        /\ delivered' = delivered \cup {n}
  /\ UNCHANGED <<log, committed, owner, assigned, handled, faults>>

\* Mutant: an invalid key is an error like any other, and main returns it.
RecvInvalidExits(i) ==
  /\ CanRecv(i)
  /\ LET n == inst[i].pos + 1
     IN /\ inst' = [inst EXCEPT ![i] = IF log[n] = Invalid THEN Down
                                       ELSE [inst[i] EXCEPT !.pos = n, !.rec = n, !.st = "handling"]]
        /\ assigned' = IF log[n] = Invalid THEN assigned \ {i} ELSE assigned
        /\ delivered' = delivered \cup {n}
  /\ UNCHANGED <<log, committed, owner, handled, faults>>

\* recv returns the next record.  An invalid key is skipped: its offset is
\* committed as if the record had been processed.
Recv(i) ==
  /\ CanRecv(i)
  /\ LET n == inst[i].pos + 1
     IN /\ inst' = [inst EXCEPT ![i].pos = n, ![i].rec = n,
                                ![i].st = IF log[n] = Invalid THEN "ack" ELSE "handling"]
        /\ delivered' = delivered \cup {n}
  /\ UNCHANGED <<log, committed, owner, assigned, handled, faults>>

\* The key's effect is committed, if it has not been before.
Apply(k) == handled' = [handled EXCEPT ![k] = 1]

\* process returns Processed or Duplicate.
Process(i) ==
  /\ inst[i].st = "handling" /\ log[inst[i].rec] \notin Poison
  /\ Apply(log[inst[i].rec])
  /\ inst' = [inst EXCEPT ![i].st = "ack"]
  /\ UNCHANGED <<log, committed, owner, assigned, delivered, faults>>

\* The handler fails, process has rolled its transaction back, and the ? after it
\* returns the error from main.  This happens at every delivery of the record.
ProcessFails(i) ==
  /\ inst[i].st = "handling" /\ log[inst[i].rec] \in Poison
  /\ inst' = [inst EXCEPT ![i] = Down]
  /\ assigned' = assigned \ {i}
  /\ UNCHANGED <<log, committed, owner, handled, delivered, faults>>

\* commit_message(&message, CommitMode::Async).  It replaces a commit that is
\* still on its way, which the broker receives first or not at all.
CommitMessage(i) ==
  /\ inst[i].st = "ack"
  /\ inst' = [inst EXCEPT ![i].st = "recv", ![i].sent = inst[i].rec]
  /\ UNCHANGED <<log, committed, owner, assigned, handled, delivered, faults>>

\* The process dies, or a ? returns an error of the broker or of the database
\* from main; process may have committed.
Exit(i) ==
  /\ inst[i].st # "down" /\ Fault
  /\ inst' = [inst EXCEPT ![i] = Down]
  /\ assigned' = assigned \ {i}
  /\ \/ UNCHANGED handled
     \/ /\ inst[i].st = "handling" /\ log[inst[i].rec] \notin Poison
        /\ Apply(log[inst[i].rec])
  /\ UNCHANGED <<log, committed, owner, delivered>>

-----------------------------------------------------------------------------

Run(i) == Recv(i) \/ Process(i) \/ ProcessFails(i) \/ CommitMessage(i)

Next ==
  \/ \E k \in Keys \cup {Invalid} : Produce(k)
  \/ \E i \in Instances :
       \/ Start(i) \/ Run(i) \/ Exit(i)
       \/ Assign(i) \/ Rebalance(i) \/ Revoke(i)
       \/ OffsetArrives(i) \/ OffsetLost(i)

Spec == Init /\ [][Next]_vars

(***************************************************************************)
(* Fairness.  Instances are restarted and run, the broker assigns a        *)
(* partition without a live owner, and delivers what it is sent.           *)
(***************************************************************************)
Fairness ==
  /\ \A i \in Instances : WF_vars(Start(i)) /\ WF_vars(Run(i))
  /\ WF_vars(\E i \in Instances : Assign(i))
  /\ \A i \in Instances : WF_vars(Revoke(i)) /\ WF_vars(OffsetArrives(i))

FairSpec == Spec /\ Fairness

-----------------------------------------------------------------------------
(* Properties.                                                             *)

Settled(n) == log[n] = Invalid \/ handled[log[n]] = 1

SettledUpTo(n) == n <= Len(log) /\ \A m \in 1..n : Settled(m)

\* The offset never runs ahead of the inbox: every record up to the committed
\* offset has been processed, or skipped for its key, however the instances
\* crash, lose the partition, or go on with it after they have lost it.
OffsetBehindInbox == committed # None => SettledUpTo(committed)

\* Manual commits are there because "with auto-commit, a crash after delivery
\* but before the inbox transaction commits would still advance the offset and
\* lose the message": nobody reads on past a delivered record that has not been
\* processed.
DeliveredIsNotLost ==
  \A i \in Instances : inst[i].st = "recv" /\ i \in assigned =>
    \A n \in delivered : n <= inst[i].pos => Settled(n)

\* Nothing but a message the handler always fails on stalls the partition, an
\* invalid key least of all: the instances always catch up with every record
\* before the first such message, whatever those that keep failing on the message,
\* and being restarted, do to each other.
SettlesBeforePoison ==
  []<>(\A n \in 1..Len(log) : (\A m \in 1..n : log[m] \notin Poison) => Settled(n))
=============================================================================
