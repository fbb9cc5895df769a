----------------------------- MODULE KafkaProofs ----------------------------
(***************************************************************************)
(* The committed offset stays behind the inbox, and no delivered record is *)
(* passed over, for any number of instances, records and faults, once the  *)
(* group has committed an offset.                                          *)
(***************************************************************************)
EXTENDS KafkaConsumer, TLAPS

\* Every offset that is or may become the committed one is settled up to there:
\* what instance r has sent, and what is before the record it has in hand; and,
\* when r believes it owns the partition, what it has read when it asks for more.
Behind(r) ==
  /\ r.sent # None => SettledUpTo(r.sent)
  /\ r.st = "handling" => /\ r.rec \in 1..Len(log) /\ log[r.rec] \in Keys
                          /\ SettledUpTo(r.rec - 1)
  /\ r.st = "ack" => SettledUpTo(r.rec)

Reads(r) ==
  /\ r.st # "down"
  /\ r.st = "recv" => SettledUpTo(r.pos)
  /\ r.st # "recv" => r.pos = r.rec \/ SettledUpTo(r.pos)

OffsetInv(i) == Behind(inst[i]) /\ (i \in assigned => Reads(inst[i]))

IInv ==
  /\ TypeOK
  /\ committed # None /\ SettledUpTo(committed)
  /\ \A i \in Instances : OffsetInv(i)

\* Records are only added, and what is settled stays so.
LEMMA SettledStays ==
  ASSUME TypeOK, TypeOK', NEW n \in Nat,
         Len(log) <= Len(log'), \A m \in 1..Len(log) : log'[m] = log[m],
         \A k \in Keys : handled[k] = 1 => handled'[k] = 1,
         SettledUpTo(n)
  PROVE  SettledUpTo(n)'
<1>1. \A m \in 1..n : m \in 1..Len(log) /\ m \in 1..Len(log')
  BY DEF TypeOK, SettledUpTo
<1>2. ASSUME NEW m \in 1..n PROVE Settled(m)'
  <2>1. Settled(m) /\ log'[m] = log[m] /\ log[m] \in Keys \cup {Invalid}
    BY <1>1, <1>2 DEF SettledUpTo, TypeOK
  <2> QED
    BY <2>1, Zenon DEF Settled
<1> QED
  BY <1>1, <1>2 DEF SettledUpTo, TypeOK

\* What a step may do to the log and to the inbox.
Grows ==
  /\ Len(log) <= Len(log') /\ \A m \in 1..Len(log) : log'[m] = log[m]
  /\ \A k \in Keys : handled[k] = 1 => handled'[k] = 1

\* An assignment to one field of an instance keeps the instances' type.
LEMMA InstField ==
  ASSUME NEW f \in [Instances -> Inst], NEW i \in Instances
  PROVE  /\ \A n \in Nat : /\ [f EXCEPT ![i].pos = n] \in [Instances -> Inst]
                          /\ [f EXCEPT ![i].rec = n] \in [Instances -> Inst]
         /\ \A s \in Nat \cup {None} : [f EXCEPT ![i].sent = s] \in [Instances -> Inst]
         /\ \A st \in {"down", "recv", "handling", "ack"} :
              [f EXCEPT ![i].st = st] \in [Instances -> Inst]
<1>1. ASSUME NEW n \in Nat
      PROVE  [f[i] EXCEPT !.pos = n] \in Inst /\ [f[i] EXCEPT !.rec = n] \in Inst
  BY Zenon DEF Inst
<1>2. ASSUME NEW s \in Nat \cup {None} PROVE [f[i] EXCEPT !.sent = s] \in Inst
  BY Zenon DEF Inst
<1>3. ASSUME NEW st \in {"down", "recv", "handling", "ack"}
      PROVE  [f[i] EXCEPT !.st = st] \in Inst
  BY Zenon DEF Inst
<1> QED
  BY <1>1, <1>2, <1>3, Zenon

\* Every step of an instance or of the broker keeps the instances' type.
LEMMA InstType ==
  ASSUME TypeOK, NEW i \in Instances,
         \/ Start(i) \/ Recv(i) \/ Process(i) \/ ProcessFails(i) \/ CommitMessage(i) \/ Exit(i)
         \/ AssignTo(i) \/ OffsetArrives(i) \/ OffsetLost(i)
  PROVE  inst' \in [Instances -> Inst]
<1>0. inst \in [Instances -> Inst] /\ StartOffset \in Nat
  BY DEF TypeOK, StartOffset
<1>1. ASSUME Start(i) PROVE inst' \in [Instances -> Inst]
  BY <1>0, <1>1, InstField, Zenon DEF Start
<1>2. ASSUME Recv(i) PROVE inst' \in [Instances -> Inst]
  <2>1. PICK n \in Nat : n = inst[i].pos + 1
    BY <1>0 DEF Inst
  <2>2. PICK st \in {"ack", "handling"} : st = IF log[n] = Invalid THEN "ack" ELSE "handling"
    BY Zenon
  <2> DEFINE f == [inst EXCEPT ![i].pos = n]
             g == [f EXCEPT ![i].rec = n]
  <2>3. inst' = [g EXCEPT ![i].st = st]
    BY <1>2, <2>1, <2>2, Zenon DEF Recv
  <2>4. f \in [Instances -> Inst]
    BY <1>0, InstField, Zenon
  <2> HIDE DEF f
  <2>5. g \in [Instances -> Inst]
    BY <2>4, InstField, Zenon
  <2> HIDE DEF g
  <2> QED
    BY <2>3, <2>5, InstField, Zenon
<1>3. ASSUME Process(i) PROVE inst' \in [Instances -> Inst]
  BY <1>0, <1>3, InstField, Zenon DEF Process
<1>4. ASSUME CommitMessage(i) PROVE inst' \in [Instances -> Inst]
  <2> DEFINE f == [inst EXCEPT ![i].st = "recv"]
  <2>1. inst[i].rec \in Nat
    BY <1>0, Zenon DEF Inst
  <2>2. inst' = [f EXCEPT ![i].sent = inst[i].rec]
    BY <1>4, Zenon DEF CommitMessage
  <2>3. f \in [Instances -> Inst]
    BY <1>0, InstField, Zenon
  <2> HIDE DEF f
  <2> QED
    BY <2>1, <2>2, <2>3, InstField, Zenon
<1>5. ASSUME Exit(i) \/ ProcessFails(i) PROVE inst' \in [Instances -> Inst]
  <2>1. inst' = [inst EXCEPT ![i] = Down]
    BY <1>5, Zenon DEF Exit, ProcessFails
  <2> QED
    BY <1>0, <2>1, Zenon DEF Down, Inst
<1>6. ASSUME AssignTo(i) PROVE inst' \in [Instances -> Inst]
  <2> DEFINE f == [inst EXCEPT ![i].pos = StartOffset]
  <2>1. inst' = [f EXCEPT ![i].sent = None]
    BY <1>6, Zenon DEF AssignTo
  <2>2. f \in [Instances -> Inst]
    BY <1>0, InstField, Zenon
  <2> HIDE DEF f
  <2> QED
    BY <2>1, <2>2, InstField, Zenon
<1>7. ASSUME OffsetArrives(i) \/ OffsetLost(i) PROVE inst' \in [Instances -> Inst]
  <2>1. inst' = [inst EXCEPT ![i].sent = None]
    BY <1>7, Zenon DEF OffsetArrives, OffsetLost
  <2> QED
    BY <1>0, <2>1, InstField, Zenon
<1> QED
  BY <1>1, <1>2, <1>3, <1>4, <1>5, <1>6, <1>7, Zenon

\* Every step keeps the types, the records, and what is in the inbox.
LEMMA TypeStays ==
  ASSUME TypeOK, Next
  PROVE  TypeOK' /\ Grows
<1>1. ASSUME NEW k \in Keys \cup {Invalid}, Produce(k)
      PROVE  TypeOK' /\ Grows
  BY <1>1 DEF Produce, TypeOK, Grows
<1> SUFFICES ASSUME NEW i \in Instances,
                    \/ Start(i) \/ Run(i) \/ Exit(i) \/ Assign(i) \/ Rebalance(i)
                    \/ Revoke(i) \/ OffsetArrives(i) \/ OffsetLost(i)
             PROVE  TypeOK' /\ Grows
  BY <1>1, Zenon DEF Next
<1>2. inst' \in [Instances -> Inst]
  <2>1. CASE Revoke(i)
    BY <2>1, Zenon DEF Revoke, TypeOK
  <2>2. CASE ~Revoke(i)
    BY <2>2, InstType, Zenon DEF Assign, Rebalance, Run
  <2> QED
    BY <2>1, <2>2, Zenon
<1>3. inst[i].pos \in Nat /\ inst[i].sent \in Nat \cup {None}
  BY Zenon DEF TypeOK, Inst
<1>4. log' = log
  BY Zenon DEF Start, Run, Recv, Process, ProcessFails, CommitMessage, Exit, Assign, Rebalance, AssignTo,
         Revoke, OffsetArrives, OffsetLost
<1>5. handled' = handled \/ \E k : handled' = [handled EXCEPT ![k] = 1]
  BY Zenon DEF Start, Run, Recv, Process, ProcessFails, CommitMessage, Exit, Assign, Rebalance, AssignTo,
         Revoke, OffsetArrives, OffsetLost, Apply
<1>6. delivered' = delivered \/ delivered' = delivered \cup {inst[i].pos + 1}
  BY Zenon DEF Start, Run, Recv, Process, ProcessFails, CommitMessage, Exit, Assign, Rebalance, AssignTo,
         Revoke, OffsetArrives, OffsetLost
<1>7. committed' \in {committed, inst[i].sent} /\ owner' \in {owner, i}
  BY Zenon DEF Start, Run, Recv, Process, ProcessFails, CommitMessage, Exit, Assign, Rebalance, AssignTo,
         Revoke, OffsetArrives, OffsetLost
<1>8. assigned' \subseteq assigned \cup {i} /\ (faults' = faults \/ Fault)
  BY Zenon DEF Start, Run, Recv, Process, ProcessFails, CommitMessage, Exit, Assign, Rebalance, AssignTo,
         Revoke, OffsetArrives, OffsetLost
<1>9. Grows /\ handled' \in [Keys -> Nat]
  BY <1>4, <1>5 DEF TypeOK, Grows
<1>10. delivered' \subseteq Nat \ {0}
  <2>1. inst[i].pos + 1 \in Nat \ {0} /\ delivered \subseteq Nat \ {0}
    BY <1>3 DEF TypeOK
  <2> QED
    BY <1>6, <2>1, Zenon
<1>11. faults' \in 0..MaxFaults
  BY <1>8, KafkaAssumption DEF TypeOK, Fault
<1> QED
  BY <1>2, <1>3, <1>4, <1>7, <1>8, <1>9, <1>10, <1>11, Zenon DEF TypeOK

\* What is true of an offset, or of the offsets of an instance, stays true.
Kept(n) == SettledUpTo(n) => SettledUpTo(n)'

KeptOf(r) == (Behind(r) => Behind(r)') /\ (Reads(r) => Reads(r)')

\* So every offset that was settled still is.
LEMMA OffsetsStay ==
  ASSUME IInv, Next
  PROVE  /\ TypeOK' /\ Grows
         /\ \A n \in Nat : Kept(n)
         /\ \A r \in Inst : KeptOf(r)
<1>1. TypeOK' /\ Grows /\ TypeOK
  BY TypeStays, Zenon DEF IInv
<1>2. \A n \in Nat : SettledUpTo(n) => SettledUpTo(n)'
  BY <1>1, SettledStays, Zenon DEF Grows
<1>3. ASSUME NEW r \in Inst PROVE KeptOf(r)
  <2>1. r.pos \in Nat /\ r.rec \in Nat /\ r.sent \in Nat \cup {None}
    BY Zenon DEF Inst
  <2>2. Len(log) \in Nat /\ Len(log') \in Nat
    BY <1>1 DEF TypeOK
  <2> QED
    BY <1>1, <1>2, <2>1, <2>2 DEF KeptOf, Behind, Reads, Grows
<1> QED
  BY <1>1, <1>2, <1>3, Zenon DEF Kept

\* The initial state of a group that has committed an offset before.
LEMMA InitIInv == ~NewGroup /\ Init => IInv
BY KafkaAssumption DEF Init, IInv, TypeOK, Inst, Down, OffsetInv, Behind, SettledUpTo

\* The committed offset is settled before a step, and after it if it stays.
LEMMA CommittedStays ==
  ASSUME IInv, Next
  PROVE  \E n \in Nat : /\ n = committed /\ n # None
                       /\ SettledUpTo(n) /\ Kept(n)
<1>1. committed \in Nat /\ SettledUpTo(committed) /\ committed # None
  BY Zenon DEF IInv, TypeOK
<1>2. PICK n \in Nat : n = committed
  BY <1>1, Zenon
<1> QED
  BY <1>1, <1>2, OffsetsStay, Zenon

\* What is known of instance i before a step, with its old record r, and what
\* has to be shown of its new record q.
Old(i, r) ==
  /\ r = inst[i] /\ Behind(r) /\ Behind(r)'
  /\ i \in assigned => Reads(r) /\ Reads(r)'

New(i, q) == q = inst'[i] /\ Behind(q)' /\ (i \in assigned' => Reads(q)')

\* An instance's offsets before a step.
LEMMA OldOffsets ==
  ASSUME IInv, Next, NEW i \in Instances
  PROVE  \E r \in Inst : Old(i, r)
<1>1. PICK r \in Inst : r = inst[i]
  BY Zenon DEF IInv, TypeOK
<1>2. Behind(r) /\ (i \in assigned => Reads(r))
  BY <1>1, Zenon DEF IInv, OffsetInv, Behind, Reads
<1>3. KeptOf(r)
  BY OffsetsStay, Zenon
<1>4. Old(i, r)
  BY <1>1, <1>2, <1>3, Zenon DEF KeptOf, Old
<1> QED
  BY <1>4, Zenon

\* A step of instance i, or of the broker with it.
LEMMA StepOfOne ==
  ASSUME IInv, Next, NEW i \in Instances,
         committed' # None, SettledUpTo(committed)',
         \A j \in Instances \ {i} : inst'[j] = inst[j] /\ (j \in assigned' => j \in assigned),
         NEW q \in Inst, New(i, q)
  PROVE  IInv'
<1>1. ASSUME NEW j \in Instances, j # i PROVE OffsetInv(j)'
  <2>1. PICK r \in Inst : Old(j, r)
    BY OldOffsets, Zenon
  <2>2. r = inst'[j] /\ Behind(r)' /\ (j \in assigned' => Reads(r)')
    BY <1>1, <2>1, Zenon DEF Old
  <2> QED
    BY <2>2, Zenon DEF OffsetInv, Behind, Reads
<1>2. OffsetInv(i)'
  BY Zenon DEF New, OffsetInv, Behind, Reads
<1> QED
  BY <1>1, <1>2, OffsetsStay, Zenon DEF IInv

\* The same for a step that leaves the committed offset alone.
LEMMA StepOfOneKeeping ==
  ASSUME IInv, Next, NEW i \in Instances, UNCHANGED committed,
         \A j \in Instances \ {i} : inst'[j] = inst[j] /\ (j \in assigned' => j \in assigned),
         NEW q \in Inst, New(i, q)
  PROVE  IInv'
<1>1. PICK n \in Nat : n = committed /\ n # None /\ SettledUpTo(n) /\ Kept(n)
  BY CommittedStays, Zenon
<1>2. committed' # None /\ SettledUpTo(committed)'
  BY <1>1, Zenon DEF Kept, SettledUpTo
<1> QED
  BY <1>2, StepOfOne, Zenon

\* A producer appends a record.
LEMMA ProduceStep ==
  ASSUME IInv, Next, NEW k, Produce(k)
  PROVE  IInv'
<1>1. PICK n \in Nat : n = committed /\ n # None /\ SettledUpTo(n) /\ Kept(n)
  BY CommittedStays, Zenon
<1>2. committed' # None /\ SettledUpTo(committed)'
  BY <1>1, Zenon DEF Produce, Kept, SettledUpTo
<1>3. ASSUME NEW i \in Instances PROVE OffsetInv(i)'
  <2>1. PICK r \in Inst : Old(i, r)
    BY OldOffsets, Zenon
  <2>2. r = inst'[i] /\ Behind(r)' /\ (i \in assigned' => Reads(r)')
    BY <2>1, Zenon DEF Old, Produce
  <2> QED
    BY <2>2, Zenon DEF OffsetInv, Behind, Reads
<1> QED
  BY <1>2, <1>3, OffsetsStay, Zenon DEF IInv

\* An owner starts from the committed offset, whatever it has in hand.
LEMMA AssignStep ==
  ASSUME IInv, Next, NEW i \in Instances, AssignTo(i)
  PROVE  IInv'
<1>1. PICK n \in Nat : n = committed /\ n # None /\ SettledUpTo(n) /\ Kept(n)
  BY CommittedStays, Zenon
<1>2. PICK r \in Inst : Old(i, r)
  BY OldOffsets, Zenon
<1>3. PICK q \in Inst : q = [r EXCEPT !.pos = n, !.sent = None]
  BY Zenon DEF Inst
<1>4. inst'[i] = q /\ \A j \in Instances \ {i} : inst'[j] = inst[j]
  BY <1>1, <1>2, <1>3, Zenon DEF AssignTo, StartOffset, Old, IInv, TypeOK, Inst
<1>5. q.st = r.st /\ q.rec = r.rec /\ q.pos = n /\ q.sent = None
  BY <1>3, Zenon DEF Inst
<1>6. New(i, q)
  BY <1>1, <1>2, <1>4, <1>5, Zenon DEF New, Old, Behind, Reads, Kept, AssignTo
<1> QED
  BY <1>4, <1>6, StepOfOneKeeping, Zenon DEF AssignTo

\* The former owner keeps what it has in hand.
LEMMA RevokeStep ==
  ASSUME IInv, Next, NEW i \in Instances, Revoke(i)
  PROVE  IInv'
<1>1. PICK r \in Inst : Old(i, r)
  BY OldOffsets, Zenon
<1>2. New(i, r)
  BY <1>1, Zenon DEF New, Old, Revoke
<1> QED
  BY <1>2, StepOfOneKeeping, Zenon DEF Revoke

\* The broker takes a settled offset, or the offset is lost.
LEMMA OffsetStep ==
  ASSUME IInv, Next, NEW i \in Instances, OffsetArrives(i) \/ OffsetLost(i)
  PROVE  IInv'
<1>1. PICK n \in Nat : n = committed /\ n # None /\ SettledUpTo(n) /\ Kept(n)
  BY CommittedStays, Zenon
<1>2. PICK r \in Inst : Old(i, r)
  BY OldOffsets, Zenon
<1>3. PICK q \in Inst : q = [r EXCEPT !.sent = None]
  BY Zenon DEF Inst
<1>4. inst'[i] = q /\ \A j \in Instances \ {i} : inst'[j] = inst[j]
  BY <1>2, <1>3, Zenon DEF OffsetArrives, OffsetLost, Old, IInv, TypeOK, Inst
<1>5. q.st = r.st /\ q.rec = r.rec /\ q.pos = r.pos /\ q.sent = None
  BY <1>3, Zenon DEF Inst
<1>6. New(i, q)
  BY <1>2, <1>4, <1>5, Zenon DEF New, Old, Behind, Reads, OffsetArrives, OffsetLost
<1>7. PICK m \in Nat : m = committed' /\ (m = n \/ (m = r.sent /\ r.sent # None))
  BY <1>1, <1>2, Zenon DEF OffsetArrives, OffsetLost, Old, Inst
<1>8. SettledUpTo(m)'
  BY <1>1, <1>2, <1>7, Zenon DEF Kept, Old, Behind
<1>9. committed' # None /\ SettledUpTo(committed)'
  BY <1>7, <1>8, KafkaAssumption, Zenon DEF SettledUpTo
<1> QED
  BY <1>4, <1>6, <1>9, StepOfOne, Zenon DEF OffsetArrives, OffsetLost

\* A process starts, owning nothing.
LEMMA StartStep ==
  ASSUME IInv, Next, NEW i \in Instances, Start(i)
  PROVE  IInv'
<1>1. PICK r \in Inst : Old(i, r)
  BY OldOffsets, Zenon
<1>2. PICK q \in Inst : q = [r EXCEPT !.st = "recv"]
  BY Zenon DEF Inst
<1>3. inst'[i] = q /\ \A j \in Instances \ {i} : inst'[j] = inst[j]
  BY <1>1, <1>2, Zenon DEF Start, Old, IInv, TypeOK, Inst
<1>4. q.st = "recv" /\ q.rec = r.rec /\ q.pos = r.pos /\ q.sent = r.sent
  BY <1>2, Zenon DEF Inst
<1>5. New(i, q)
  BY <1>1, <1>3, <1>4, Zenon DEF New, Old, Behind, Reads, Start
<1> QED
  BY <1>3, <1>5, StepOfOneKeeping, Zenon DEF Start

\* recv moves past settled records only.
LEMMA RecvStep ==
  ASSUME IInv, Next, NEW i \in Instances, Recv(i)
  PROVE  IInv'
<1>1. PICK r \in Inst : Old(i, r)
  BY OldOffsets, Zenon
<1>2. PICK n \in Nat : n = r.pos + 1 /\ n \in 1..Len(log) /\ log[n] \in Keys \cup {Invalid}
  BY <1>1 DEF Recv, CanRecv, Old, Inst, IInv, TypeOK
<1>3. PICK q \in Inst : q = [r EXCEPT !.pos = n, !.rec = n,
                                !.st = IF log[n] = Invalid THEN "ack" ELSE "handling"]
  BY Zenon DEF Inst
<1>4. inst'[i] = q /\ \A j \in Instances \ {i} : inst'[j] = inst[j]
  BY <1>1, <1>2, <1>3 DEF Recv, Old, IInv, TypeOK, Inst
<1>5. /\ q.rec = n /\ q.pos = n /\ q.sent = r.sent
      /\ q.st = IF log[n] = Invalid THEN "ack" ELSE "handling"
  BY <1>3, Zenon DEF Inst
<1>6. SettledUpTo(n - 1)'
  BY <1>1, <1>2 DEF Recv, CanRecv, Old, Reads, Inst
<1>7. log[n] = Invalid => SettledUpTo(n)'
  <2>1. \A m \in 1..n : m \in 1..(n - 1) \/ m = n
    BY <1>2
  <2> QED
    BY <1>2, <1>6, <2>1 DEF SettledUpTo, Settled, Recv
<1>8. New(i, q)
  BY <1>1, <1>2, <1>4, <1>5, <1>6, <1>7 DEF New, Old, Behind, Reads, Recv
<1> QED
  BY <1>4, <1>8, StepOfOneKeeping, Zenon DEF Recv

\* process settles the record in hand.
LEMMA ProcessStep ==
  ASSUME IInv, Next, NEW i \in Instances, Process(i)
  PROVE  IInv'
<1>1. PICK r \in Inst : Old(i, r)
  BY OldOffsets, Zenon
<1>2. PICK q \in Inst : q = [r EXCEPT !.st = "ack"]
  BY Zenon DEF Inst
<1>3. inst'[i] = q /\ \A j \in Instances \ {i} : inst'[j] = inst[j]
  BY <1>1, <1>2, Zenon DEF Process, Old, IInv, TypeOK, Inst
<1>4. q.st = "ack" /\ q.rec = r.rec /\ q.pos = r.pos /\ q.sent = r.sent
  BY <1>2, Zenon DEF Inst
<1>5. r.st = "handling" /\ r.rec \in 1..Len(log) /\ log[r.rec] \in Keys /\ SettledUpTo(r.rec - 1)'
  BY <1>1, Zenon DEF Process, Old, Behind
<1>6. SettledUpTo(r.rec)'
  <2>1. \A m \in 1..r.rec : m \in 1..(r.rec - 1) \/ m = r.rec
    BY <1>5
  <2>2. Settled(r.rec)'
    BY <1>1, <1>5, Zenon DEF Settled, Process, Apply, Old, IInv, TypeOK
  <2> QED
    BY <1>5, <2>1, <2>2 DEF SettledUpTo, Process
<1>7. New(i, q)
  BY <1>1, <1>3, <1>4, <1>5, <1>6, Zenon DEF New, Old, Behind, Reads, Process
<1> QED
  BY <1>3, <1>7, StepOfOneKeeping, Zenon DEF Process

\* commit_message sends the offset of a settled record.
LEMMA CommitMessageStep ==
  ASSUME IInv, Next, NEW i \in Instances, CommitMessage(i)
  PROVE  IInv'
<1>1. PICK r \in Inst : Old(i, r)
  BY OldOffsets, Zenon
<1>2. PICK q \in Inst : q = [r EXCEPT !.st = "recv", !.sent = r.rec]
  BY Zenon DEF Inst
<1>3. inst'[i] = q /\ \A j \in Instances \ {i} : inst'[j] = inst[j]
  BY <1>1, <1>2, Zenon DEF CommitMessage, Old, IInv, TypeOK, Inst
<1>4. q.st = "recv" /\ q.rec = r.rec /\ q.pos = r.pos /\ q.sent = r.rec
  BY <1>2, Zenon DEF Inst
<1>5. r.st = "ack" /\ SettledUpTo(r.rec)'
  BY <1>1, Zenon DEF CommitMessage, Old, Behind
<1>6. New(i, q)
  BY <1>1, <1>3, <1>4, <1>5, Zenon DEF New, Old, Behind, Reads, CommitMessage
<1> QED
  BY <1>3, <1>6, StepOfOneKeeping, Zenon DEF CommitMessage

\* A process that is gone owns nothing and sends nothing.
LEMMA ExitStep ==
  ASSUME IInv, Next, NEW i \in Instances, Exit(i) \/ ProcessFails(i)
  PROVE  IInv'
<1>1. PICK q \in Inst : q = Down
  BY Zenon DEF Inst, Down
<1>2. inst'[i] = q /\ \A j \in Instances \ {i} : inst'[j] = inst[j]
  BY <1>1, Zenon DEF Exit, ProcessFails, IInv, TypeOK
<1>3. New(i, q)
  BY <1>1, <1>2 DEF New, Behind, Down, Exit, ProcessFails
<1> QED
  BY <1>2, <1>3, StepOfOneKeeping, Zenon DEF Exit, ProcessFails

\* The invariant is inductive.
LEMMA NextIInv == IInv /\ [Next]_vars => IInv'
<1>1. ASSUME IInv, Next PROVE IInv'
  BY <1>1, ProduceStep, AssignStep, RevokeStep, OffsetStep, StartStep, RecvStep, ProcessStep,
     CommitMessageStep, ExitStep, Zenon DEF Next, Run, Assign, Rebalance
<1>2. ASSUME IInv, UNCHANGED vars PROVE IInv'
  BY <1>2, Zenon DEF vars, IInv, TypeOK, OffsetInv, Behind, Reads, SettledUpTo, Settled
<1> QED
  BY <1>1, <1>2, Zenon

\* Nobody asks for the next record before everything it has read is settled.
LEMMA IInvImplies == IInv => OffsetBehindInbox /\ DeliveredIsNotLost
<1>1. ASSUME IInv, NEW i \in Instances, inst[i].st = "recv", i \in assigned,
             NEW n \in delivered, n <= inst[i].pos
      PROVE  Settled(n)
  <2>1. SettledUpTo(inst[i].pos) /\ inst[i].pos \in Nat /\ n \in Nat \ {0}
    BY <1>1, Zenon DEF IInv, TypeOK, OffsetInv, Reads, Inst
  <2>2. n \in 1..inst[i].pos
    BY <1>1, <2>1
  <2> QED
    BY <2>1, <2>2, Zenon DEF SettledUpTo
<1> QED
  BY <1>1, Zenon DEF OffsetBehindInbox, DeliveredIsNotLost, IInv

\* However the instances crash, lose the partition or go on with it, every record
\* up to the offset commit_message has committed is processed or skipped.
THEOREM OffsetAlwaysBehindInbox ==
  ASSUME ~NewGroup
  PROVE  Spec => []OffsetBehindInbox
<1>1. Init => IInv
  BY InitIInv, Zenon
<1> QED
  BY <1>1, NextIInv, IInvImplies, PTL DEF Spec

\* Once the group has an offset, no record recv has returned is passed over before
\* process has committed it: what the manual commit in the example is for.
THEOREM DeliveredIsNeverLost ==
  ASSUME ~NewGroup
  PROVE  Spec => []DeliveredIsNotLost
<1>1. Init => IInv
  BY InitIInv, Zenon
<1> QED
  BY <1>1, NextIInv, IInvImplies, PTL DEF Spec
=============================================================================
