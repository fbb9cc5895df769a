---------------------------- MODULE ValueProofs -----------------------------
(***************************************************************************)
(* The computations of the crate, for inputs of any size: scoped is        *)
(* injective, claim_many answers a slice as claiming it id by id would     *)
(* whichever backend call answers it, and a claim waits as long as it      *)
(* asked for and everything else as long as the application chose (on      *)
(* MySQL as long as a caller ends a transaction whose claim it has         *)
(* cancelled, on PostgreSQL in every transaction no claim has bounded).    *)
(***************************************************************************)
EXTENDS Ids, ClaimMany, LockTimeouts, SequenceTheorems, FiniteSetTheorems, TLAPS

-----------------------------------------------------------------------------
(* MessageId::scoped.                                                      *)

\* Joining a scope without a separator and an id: where the separator is.
LEMMA Joined ==
  ASSUME NEW s \in Seq(Chars), NEW i \in Seq(Chars)
  PROVE  LET j == s \o <<Sep>> \o i
         IN /\ j \in Seq(Chars) /\ Len(j) = Len(s) + 1 + Len(i)
            /\ \A n \in 1..Len(s) : j[n] = s[n]
            /\ j[Len(s) + 1] = Sep
            /\ \A n \in 1..Len(i) : j[Len(s) + 1 + n] = i[n]
<1>1. Sep \in Chars
  BY CharsAssumption, Zenon
<1> QED
  BY <1>1

\* The scope ends at the first separator, so it is not longer than the other.
LEMMA ScopeNotLonger ==
  ASSUME NEW s \in Seq(Chars), NEW i \in Seq(Chars),
         NEW t \in Seq(Chars), NEW k \in Seq(Chars),
         ~HasChar(s, Sep), s \o <<Sep>> \o i = t \o <<Sep>> \o k
  PROVE  Len(s) <= Len(t)
<1> SUFFICES ASSUME Len(t) < Len(s) PROVE FALSE
  OBVIOUS
<1>1. Len(t) + 1 \in 1..Len(s)
  OBVIOUS
<1>2. s[Len(t) + 1] = Sep
  <2>1. \A n \in 1..Len(s) : (s \o <<Sep>> \o i)[n] = s[n]
    BY Joined, Zenon
  <2>2. (t \o <<Sep>> \o k)[Len(t) + 1] = Sep
    BY Joined, Zenon
  <2> QED
    BY <1>1, <2>1, <2>2, Zenon
<1> QED
  BY <1>1, <1>2 DEF HasChar

\* Equal joined strings come from equal parts.
LEMMA JoinInjective ==
  ASSUME NEW s \in Seq(Chars), NEW i \in Seq(Chars),
         NEW t \in Seq(Chars), NEW k \in Seq(Chars),
         ~HasChar(s, Sep), ~HasChar(t, Sep),
         s \o <<Sep>> \o i = t \o <<Sep>> \o k
  PROVE  s = t /\ i = k
<1>1. Len(s) = Len(t)
  <2>1. Len(s) <= Len(t)
    BY ScopeNotLonger, Zenon
  <2>2. Len(t) <= Len(s)
    BY ScopeNotLonger, Zenon
  <2>3. Len(s) \in Nat /\ Len(t) \in Nat
    OBVIOUS
  <2> QED
    BY <2>1, <2>2, <2>3
<1> DEFINE j == s \o <<Sep>> \o i
           l == t \o <<Sep>> \o k
<1>2. /\ Len(j) = Len(s) + 1 + Len(i)
      /\ \A n \in 1..Len(s) : j[n] = s[n]
      /\ \A n \in 1..Len(i) : j[Len(s) + 1 + n] = i[n]
  BY Joined, Zenon
<1>3. /\ Len(l) = Len(t) + 1 + Len(k)
      /\ \A n \in 1..Len(t) : l[n] = t[n]
      /\ \A n \in 1..Len(k) : l[Len(t) + 1 + n] = k[n]
  BY Joined, Zenon
<1>4. j = l
  BY Zenon
<1> HIDE DEF j, l
<1>5. Len(i) = Len(k)
  BY <1>1, <1>2, <1>3, <1>4
<1>6. \A n \in 1..Len(s) : s[n] = t[n]
  BY <1>1, <1>2, <1>3, <1>4, Zenon
<1>7. \A n \in 1..Len(i) : i[n] = k[n]
  BY <1>1, <1>2, <1>3, <1>4, <1>5, Zenon
<1>8. s = t
  BY <1>1, <1>6, SeqEqual, Zenon
<1>9. i = k
  BY <1>5, <1>7, SeqEqual, Zenon
<1> QED
  BY <1>8, <1>9, Zenon

\* What scoped accepts it has joined, and the scope has no separator.
LEMMA ScopedJoins ==
  ASSUME NEW s, NEW i, scoped(s, i).ok
  PROVE  ~HasChar(s, Sep) /\ scoped(s, i).id = s \o <<Sep>> \o i
BY Zenon DEF scoped, try_from, Ok, Err

\* Every id issued so far was built by scoped.
Built ==
  \A a \in issued : /\ a.scope \in Seq(Chars) /\ a.id \in Seq(Chars)
                    /\ ~HasChar(a.scope, Sep)
                    /\ a.mid = a.scope \o <<Sep>> \o a.id

\* MessageId::scoped never gives two messages the same id, whatever the length
\* of the strings and however many ids are built.
THEOREM ScopedIdsDoNotCollide == IdsSpec => []NoCollision
<1>1. IdsInit => Built
  BY Zenon DEF IdsInit, Built
<1>2. Built /\ [IdsNext]_issued => Built'
  <2> SUFFICES ASSUME Built, [IdsNext]_issued PROVE Built'
    BY Zenon
  <2>1. ASSUME NEW s \in Inputs, NEW i \in Inputs, Issue(s, i)
        PROVE  Built'
    <3>1. ~HasChar(s, Sep) /\ scoped(s, i).id = s \o <<Sep>> \o i
      BY <2>1, ScopedJoins, Zenon DEF Issue
    <3>2. s \in Seq(Chars) /\ i \in Seq(Chars)
      BY CharsAssumption, Zenon
    <3> DEFINE a == [scope |-> s, id |-> i, mid |-> scoped(s, i).id]
    <3>3. issued' = issued \cup {a} /\ a.scope = s /\ a.id = i /\ a.mid = s \o <<Sep>> \o i
      BY <2>1, <3>1, Zenon DEF Issue
    <3> HIDE DEF a
    <3> QED
      BY <3>1, <3>2, <3>3, Zenon DEF Built
  <2>2. CASE UNCHANGED issued
    BY <2>2, Zenon DEF Built
  <2> QED
    BY <2>1, <2>2, Zenon DEF IdsNext, Refuse
<1>3. Built => NoCollision
  <2> SUFFICES ASSUME Built, NEW a \in issued, NEW b \in issued, a.mid = b.mid
               PROVE  a.scope = b.scope /\ a.id = b.id
    BY Zenon DEF NoCollision
  <2>1. /\ a.scope \in Seq(Chars) /\ a.id \in Seq(Chars) /\ ~HasChar(a.scope, Sep)
        /\ b.scope \in Seq(Chars) /\ b.id \in Seq(Chars) /\ ~HasChar(b.scope, Sep)
    BY Zenon DEF Built
  <2>2. a.scope \o <<Sep>> \o a.id = b.scope \o <<Sep>> \o b.id
    BY Zenon DEF Built
  <2> QED
    BY <2>1, <2>2, JoinInjective, Zenon
<1> QED
  BY <1>1, <1>2, <1>3, PTL DEF IdsSpec

-----------------------------------------------------------------------------
(* Sorting and deduplicating.                                              *)

\* A slice has finitely many ids.
LEMMA SliceIsFinite ==
  ASSUME NEW T, NEW ids \in Seq(T)
  PROVE  Range(ids) \subseteq T /\ IsFiniteSet(Range(ids))
<1>1. Range(ids) \subseteq T
  BY DEF Range
<1>2. ids \in Surjection(1..Len(ids), Range(ids))
  BY DEF Surjection, Range
<1>3. IsFiniteSet(1..Len(ids))
  BY FS_Interval
<1> QED
  BY <1>1, <1>2, <1>3, FS_Surjection, Zenon

\* The rank of an id grows with the id.
LEMMA RankGrows ==
  ASSUME NEW S \in SUBSET Nat, IsFiniteSet(S), NEW x \in S, NEW z \in S, x < z
  PROVE  Rank(x, S) < Rank(z, S)
<1> DEFINE A == {y \in S : y < x}
           B == {y \in S : y < z}
<1>1. IsFiniteSet(A) /\ IsFiniteSet(B)
  BY FS_Subset, Zenon
<1>2. A \cup {x} \in SUBSET B /\ x \notin A
  <2>1. x \in Nat /\ z \in Nat /\ ~(x < x)
    OBVIOUS
  <2>2. \A y \in S : y < x => y < z
    BY <2>1
  <2> QED
    BY <2>1, <2>2, Zenon
<1> HIDE DEF A, B
<1>3. IsFiniteSet(A \cup {x}) /\ Cardinality(A \cup {x}) = Cardinality(A) + 1
  BY <1>1, <1>2, FS_AddElement, Zenon
<1>4. Cardinality(A \cup {x}) <= Cardinality(B)
  BY <1>1, <1>2, FS_Subset, Zenon
<1>5. Cardinality(A) \in Nat /\ Cardinality(B) \in Nat
  BY <1>1, FS_CardinalityType, Zenon
<1>6. Cardinality(A) < Cardinality(B)
  BY <1>3, <1>4, <1>5
<1> QED
  BY <1>6, Zenon DEF A, B, Rank

\* The ranks are 0, 1 and so on, without a gap.
LEMMA RankIsOnto ==
  ASSUME NEW S \in SUBSET Nat, IsFiniteSet(S)
  PROVE  /\ Cardinality(S) \in Nat
         /\ \A x \in S : Rank(x, S) \in 0..(Cardinality(S) - 1)
         /\ \A r \in 0..(Cardinality(S) - 1) : \E x \in S : Rank(x, S) = r
<1> DEFINE n == Cardinality(S)
           T == 0..(n - 1)
           f == [x \in S |-> Rank(x, S)]
<1>1. n \in Nat
  BY FS_CardinalityType, Zenon
<1>2. ASSUME NEW x \in S PROVE Rank(x, S) \in T
  <2> DEFINE A == {y \in S : y < x}
  <2>1. IsFiniteSet(A) /\ Cardinality(A) <= n /\ (Cardinality(S) = Cardinality(A) => S = A)
    BY FS_Subset, Zenon
  <2>2. A # S
    OBVIOUS
  <2>3. Cardinality(A) \in Nat
    BY <2>1, FS_CardinalityType, Zenon
  <2> HIDE DEF A
  <2>4. Cardinality(A) \in T
    BY <1>1, <2>1, <2>2, <2>3
  <2> QED
    BY <2>4, Zenon DEF A, Rank
<1>3. \A x, z \in S : f[x] = f[z] => x = z
  <2> SUFFICES ASSUME NEW x \in S, NEW z \in S, x # z PROVE Rank(x, S) # Rank(z, S)
    BY Zenon
  <2>1. Rank(x, S) \in T /\ Rank(z, S) \in T
    BY <1>2, Zenon
  <2>2. x < z \/ z < x
    OBVIOUS
  <2>3. Rank(x, S) < Rank(z, S) \/ Rank(z, S) < Rank(x, S)
    BY <2>2, RankGrows, Zenon
  <2> QED
    BY <1>1, <2>1, <2>3
<1>4. f \in Injection(S, T)
  BY <1>2, <1>3, Zenon DEF Injection, IsInjective
<1>5. IsFiniteSet(T) /\ Cardinality(T) = n
  <2> HIDE DEF n
  <2>1. 0 \in Int /\ n - 1 \in Int
    BY <1>1
  <2>2. IsFiniteSet(T) /\ Cardinality(T) = IF 0 > n - 1 THEN 0 ELSE n - 1 - 0 + 1
    BY <2>1, FS_Interval, Zenon
  <2> QED
    BY <1>1, <2>2
<1> HIDE DEF f, T
<1>6. f \in Surjection(S, T)
  BY <1>4, <1>5, FS_Injection, Zenon
<1>7. \A r \in T : \E x \in S : f[x] = r
  BY <1>6, Zenon DEF Surjection
<1> QED
  BY <1>1, <1>2, <1>7, Zenon DEF f, T

\* "`batch.ids` arrive unique and sorted by bytes": the backend is handed every id
\* of the slice, once, in the order in which the backends lock.
THEOREM BatchIsSortedAndUnique ==
  ASSUME NEW ids \in Seq(Messages)
  PROVE  LET u == Unique(ids)
         IN /\ u \in Seq(Messages) /\ Len(u) = Cardinality(Range(ids))
            /\ Range(u) = Range(ids)
            /\ \A i, j \in 1..Len(u) : i < j => u[i] < u[j]
<1> DEFINE S == Range(ids)  n == Cardinality(S)  u == Unique(ids)
<1>1. S \in SUBSET Nat /\ S \subseteq Messages /\ IsFiniteSet(S)
  BY SliceIsFinite, ClaimsAssumption, Zenon
<1>2. /\ n \in Nat /\ \A x \in S : Rank(x, S) \in 0..(n - 1)
      /\ \A r \in 0..(n - 1) : \E x \in S : Rank(x, S) = r
  BY <1>1, RankIsOnto, Zenon
<1>3. u = [i \in 1..n |-> CHOOSE x \in S : Rank(x, S) = i - 1]
  BY Zenon DEF Unique
<1> HIDE DEF S, n, u
<1>4. ASSUME NEW i \in 1..n PROVE u[i] \in S /\ Rank(u[i], S) = i - 1
  <2>1. i - 1 \in 0..(n - 1)
    BY <1>2
  <2>2. \E x \in S : Rank(x, S) = i - 1
    BY <1>2, <2>1, Zenon
  <2> QED
    BY <1>3, <2>2, Zenon
<1>5. u \in [1..n -> Messages]
  BY <1>1, <1>3, <1>4, Zenon
<1>6. u \in Seq(Messages) /\ Len(u) = n /\ DOMAIN u = 1..n
  BY <1>2, <1>5
<1>7. \A x, z \in S : Rank(x, S) = Rank(z, S) => x = z
  <2> SUFFICES ASSUME NEW x \in S, NEW z \in S, x # z PROVE Rank(x, S) # Rank(z, S)
    BY Zenon
  <2>1. Rank(x, S) \in Int /\ Rank(z, S) \in Int /\ (x < z \/ z < x)
    BY <1>1, <1>2
  <2> QED
    BY <1>1, <2>1, RankGrows
<1>8. Range(u) = S
  <2>1. ASSUME NEW x \in S PROVE x \in Range(u)
    <3>1. PICK i \in 1..n : i - 1 = Rank(x, S)
      <4> DEFINE r == Rank(x, S)
      <4>1. n \in Nat /\ r \in 0..(n - 1)
        BY <1>2, Zenon
      <4> HIDE DEF r
      <4>2. r + 1 \in 1..n /\ (r + 1) - 1 = r
        BY <4>1
      <4> QED
        BY <4>2, Zenon DEF r
    <3>2. u[i] = x
      BY <1>4, <1>7, <3>1, Zenon
    <3> QED
      BY <1>6, <3>1, <3>2, Zenon DEF Range
  <2>2. Range(u) \subseteq S
    BY <1>4, <1>6, Zenon DEF Range
  <2> QED
    BY <2>1, <2>2, Zenon
<1>9. ASSUME NEW i \in 1..n, NEW j \in 1..n, i < j PROVE u[i] < u[j]
  <2>1. /\ u[i] \in S /\ Rank(u[i], S) = i - 1
        /\ u[j] \in S /\ Rank(u[j], S) = j - 1
    BY <1>4, Zenon
  <2>2. u[i] \in Nat /\ u[j] \in Nat /\ i \in Int /\ j \in Int
    <3>1. \A x \in S : x \in Nat
      BY <1>1, Zenon
    <3>2. n \in Nat
      BY <1>2, Zenon
    <3>3. i \in Int /\ j \in Int
      BY <3>2
    <3> QED
      BY <2>1, <3>1, <3>3, Zenon
  <2>3. CASE u[j] < u[i]
    <3>1. j - 1 < i - 1
      BY <1>1, <2>1, <2>3, RankGrows, Zenon
    <3> QED
      BY <1>9, <2>2, <3>1
  <2>4. CASE u[i] = u[j]
    BY <1>9, <2>1, <2>2, <2>4
  <2> QED
    BY <2>2, <2>3, <2>4
<1> QED
  BY <1>6, <1>8, <1>9, Zenon DEF S, n, u

-----------------------------------------------------------------------------
(* Consumer::claim_many.  The inductive invariant.                         *)

Claim == {Fresh, Duplicate}

CallType ==
  [pc : {"taking", "returned", "failed"}, ids : Seq(Messages), before : SUBSET Messages,
   claims : Seq(Claim), answers : UNION {[D -> Claim] : D \in SUBSET Messages}, out : Seq(Claim)]

\* The ids of a slice that have had their claim already.
Taken(s) == {s.ids[j] : j \in 1..Len(s.out)}

\* Where a call s stands, when the transaction sees the rows R: what it has given
\* out is what claiming one by one gives, and its map answers Duplicate for the ids
\* that had a row before the call and for those already taken.
TakeInv(s, R) ==
  /\ s.pc = "failed" <=> Len(s.claims) # Len(Unique(s.ids))
  /\ s.pc = "returned" => Len(s.out) = Len(s.ids)
  /\ s.pc = "taking" =>
       /\ Len(s.out) < Len(s.ids)
       /\ DOMAIN s.answers = Range(s.ids)
       /\ \A id \in Range(s.ids) :
            s.answers[id] = IF id \in s.before \cup Taken(s) THEN Duplicate ELSE Fresh
  /\ s.pc # "failed" =>
       /\ R = s.before \cup Range(s.ids)
       /\ \A i \in 1..Len(s.out) : s.out[i] = OneByOne(s.ids, s.before)[i]

ClaimsInv ==
  /\ rows \subseteq Messages
  /\ drawn \subseteq Nat \ {0}
  /\ token \in [Messages -> drawn \cup {0}]
  /\ call \in CallType
  /\ TakeInv(call, rows)

-----------------------------------------------------------------------------
(* The backend has answered.                                               *)

\* No id is in the batch twice.
LEMMA UniqueInjective ==
  ASSUME NEW ids \in Seq(Messages), NEW i \in 1..Len(Unique(ids)), NEW j \in 1..Len(Unique(ids)),
         Unique(ids)[i] = Unique(ids)[j]
  PROVE  i = j
<1> DEFINE u == Unique(ids)
<1>1. /\ u \in Seq(Messages) /\ \A k, l \in 1..Len(u) : k < l => u[k] < u[l]
  BY BatchIsSortedAndUnique, Zenon
<1> HIDE DEF u
<1>2. i \in 1..Len(u) /\ j \in 1..Len(u) /\ u[i] = u[j]
  BY Zenon DEF u
<1>3. u[i] \in Nat
  <2>1. u[i] \in Messages
    BY <1>1, <1>2
  <2> QED
    BY <2>1, ClaimsAssumption, Zenon
<1>4. ~(i < j) /\ ~(j < i)
  <2>1. ~(u[i] < u[i])
    BY <1>3
  <2> QED
    BY <1>1, <1>2, <2>1, Zenon
<1>5. i \in Int /\ j \in Int
  BY <1>1, <1>2
<1> QED
  BY <1>4, <1>5

\* The map has the claims the backend returned, each under its id.
LEMMA AnswersAre ==
  ASSUME NEW ids \in Seq(Messages), NEW claims \in Seq(Claim)
  PROVE  LET u == Unique(ids)  a == Answers(u, claims)
         IN /\ a \in UNION {[D -> Claim] : D \in SUBSET Messages}
            /\ Len(claims) = Len(u) =>
                 DOMAIN a = Range(ids) /\ \A i \in 1..Len(u) : a[u[i]] = claims[i]
<1> DEFINE u == Unique(ids)
           D == {u[i] : i \in DOMAIN u \cap DOMAIN claims}
           a == Answers(u, claims)
<1>1. u \in Seq(Messages) /\ Range(u) = Range(ids)
  BY BatchIsSortedAndUnique, Zenon
<1>2. a = [id \in D |-> claims[CHOOSE i \in DOMAIN u : u[i] = id]]
  BY Zenon DEF Answers
<1>3. \A i, j \in DOMAIN u : u[i] = u[j] => i = j
  <2>1. DOMAIN u = 1..Len(u)
    BY <1>1
  <2> QED
    BY <2>1, UniqueInjective, Zenon
<1> HIDE DEF u, a
<1>4. ASSUME NEW i \in DOMAIN u \cap DOMAIN claims PROVE a[u[i]] = claims[i]
  <2>1. (CHOOSE j \in DOMAIN u : u[j] = u[i]) = i
    BY <1>3, Zenon
  <2> QED
    BY <1>2, <2>1, Zenon
<1>5. D \in SUBSET Messages
  BY <1>1
<1>6. a \in [D -> Claim]
  <2>1. ASSUME NEW id \in D PROVE a[id] \in Claim
    <3>1. PICK i \in DOMAIN u \cap DOMAIN claims : u[i] = id
      BY Zenon
    <3>2. a[id] = claims[i]
      BY <1>4, <3>1, Zenon
    <3>3. claims[i] \in Claim
      BY <3>1
    <3> QED
      BY <3>2, <3>3, Zenon
  <2> HIDE DEF D
  <2> QED
    BY <1>2, <2>1, Zenon
<1>7. ASSUME Len(claims) = Len(u)
      PROVE  DOMAIN a = Range(ids) /\ \A i \in 1..Len(u) : a[u[i]] = claims[i]
  <2>1. DOMAIN u = 1..Len(u) /\ DOMAIN claims = 1..Len(u)
    BY <1>1, <1>7
  <2>2. D = Range(u)
    BY <2>1, Zenon DEF Range
  <2> QED
    BY <1>1, <1>2, <1>4, <2>1, <2>2, Zenon
<1> HIDE DEF D
<1> QED
  BY <1>5, <1>6, <1>7, Zenon DEF u, a

\* A backend that answers one claim per id answers truthfully.
Truthful(ids, claims) ==
  LET u == Unique(ids)
  IN Len(claims) = Len(u) =>
       \A i \in 1..Len(u) : claims[i] = IF u[i] \in rows THEN Duplicate ELSE Fresh

\* From such an answer on the invariant holds.
LEMMA CallKeeps ==
  ASSUME ClaimsInv, NEW ids \in Slices, NEW claims \in Seq(Claim), Call(ids, claims),
         Truthful(ids, claims),
         drawn' \subseteq Nat \ {0}, token' \in [Messages -> drawn' \cup {0}]
  PROVE  ClaimsInv'
<1> DEFINE u == Unique(ids)
           a == Answers(u, claims)
           next == IF Len(claims) # Len(u) THEN "failed" ELSE "taking"
           s == [pc |-> next, ids |-> ids, before |-> rows, claims |-> claims,
                 answers |-> a, out |-> <<>>]
<1>1. ids \in Seq(Messages) /\ ids # <<>> /\ rows \subseteq Messages
  BY ClaimsAssumption, Zenon DEF ClaimsInv, Call
<1>2. /\ u \in Seq(Messages) /\ Range(u) = Range(ids) /\ Range(ids) \subseteq Messages
  BY <1>1, BatchIsSortedAndUnique, SliceIsFinite, Zenon
<1>3. call' = s /\ rows' = rows \cup (Range(u) \ rows)
  BY Zenon DEF Call, Receive, NewCall, Inserted
<1>4. /\ a \in UNION {[D -> Claim] : D \in SUBSET Messages}
      /\ Len(claims) = Len(u) =>
           DOMAIN a = Range(ids) /\ \A i \in 1..Len(u) : a[u[i]] = claims[i]
  BY <1>1, AnswersAre, Zenon
<1>5. rows' = rows \cup Range(ids) /\ rows' \subseteq Messages
  BY <1>1, <1>2, <1>3, Zenon
<1> HIDE DEF a
<1>6. s \in CallType
  <2>1. <<>> \in Seq(Claim)
    OBVIOUS
  <2>2. next \in {"taking", "returned", "failed"}
    BY Zenon
  <2> HIDE DEF next
  <2> QED
    BY <1>1, <1>4, <2>1, <2>2, Zenon DEF CallType
<1>7. /\ s.pc = next /\ s.ids = ids /\ s.before = rows /\ s.claims = claims /\ s.answers = a
      /\ s.out = <<>>
  BY Zenon
<1> HIDE DEF s
<1>8. TakeInv(s, rows')
  <2>1. Len(s.out) = 0 /\ 1..Len(s.out) = {}
    BY <1>7
  <2>2. Taken(s) = {}
    BY <2>1, Zenon DEF Taken
  <2>3. Len(ids) > 0
    BY <1>1
  <2>4. ASSUME Len(claims) = Len(u), NEW id \in Range(ids)
        PROVE  a[id] = IF id \in rows THEN Duplicate ELSE Fresh
    <3>1. PICK i \in 1..Len(u) : u[i] = id
      <4>1. id \in Range(u) /\ DOMAIN u = 1..Len(u)
        BY <1>2, <2>4, LenProperties, Zenon
      <4> QED
        BY <4>1, Zenon DEF Range
    <3>2. claims[i] = IF u[i] \in rows THEN Duplicate ELSE Fresh
      BY <2>4, <3>1, Zenon DEF Truthful
    <3> QED
      BY <1>4, <2>4, <3>1, <3>2, Zenon
  <2> HIDE DEF u
  <2> QED
    BY <1>4, <1>5, <1>7, <2>1, <2>2, <2>3, <2>4, Zenon DEF TakeInv, u
<1> QED
  BY <1>3, <1>5, <1>6, <1>8, Zenon DEF ClaimsInv

\* PostgreSQL and SQLite report the rows they inserted.
LEMMA ClaimSliceKeeps ==
  ASSUME ClaimsInv, NEW ids \in Slices, ClaimSlice(ids)
  PROVE  ClaimsInv'
<1> DEFINE u == Unique(ids)
           claims == claims_from_fresh(u, Inserted(u, rows))
<1>1. u \in Seq(Messages)
  BY BatchIsSortedAndUnique, ClaimsAssumption, Zenon
<1>2. Call(ids, claims) /\ drawn' = drawn /\ token' = token
  BY Zenon DEF ClaimSlice
<1> HIDE DEF u
<1>3. claims = [i \in 1..Len(u) |-> IF u[i] \in rows THEN Duplicate ELSE Fresh]
  BY <1>1 DEF claims_from_fresh, Inserted, Range
<1> HIDE DEF claims
<1>4. claims \in Seq(Claim) /\ \A i \in 1..Len(u) : claims[i] = IF u[i] \in rows THEN Duplicate ELSE Fresh
  BY <1>1, <1>3 DEF Claim
<1>5. Truthful(ids, claims)
  BY <1>4, Zenon DEF Truthful, u
<1>6. drawn' \subseteq Nat \ {0} /\ token' \in [Messages -> drawn' \cup {0}]
  BY <1>2, Zenon DEF ClaimsInv
<1> QED
  BY <1>2, <1>4, <1>5, <1>6, CallKeeps, Zenon

\* On MySQL the rows that carry the token of the call are those it inserted: no
\* earlier call has drawn it, and rows not claimed in a batch carry none.
LEMMA ClaimSliceByTokenKeeps ==
  ASSUME ClaimsInv, NEW ids \in Slices, ClaimSliceByToken(ids)
  PROVE  ClaimsInv'
<1> DEFINE u == Unique(ids)
<1>1. PICK t \in claim_token(drawn) :
        /\ token' = [id \in Messages |-> IF id \in Inserted(u, rows) THEN t ELSE token[id]]
        /\ drawn' = drawn \cup {t}
        /\ Call(ids, claims_from_fresh(u, ClaimedByToken(u, t, token')))
  BY Zenon DEF ClaimSliceByToken
<1>2. t \in Nat \ {0} /\ t \notin drawn
  BY ClaimsAssumption DEF claim_token
<1>3. u \in Seq(Messages)
  BY BatchIsSortedAndUnique, ClaimsAssumption, Zenon
<1> DEFINE claims == claims_from_fresh(u, ClaimedByToken(u, t, token'))
<1> HIDE DEF u
<1>4. \A id \in Messages : token[id] # t
  BY <1>2, Zenon DEF ClaimsInv
<1>5. \A id \in Range(u) : token'[id] = t <=> id \notin rows
  <2> TAKE id \in Range(u)
  <2>1. id \in Messages
    BY <1>3 DEF Range
  <2> QED
    BY <1>1, <1>4, <2>1, Zenon DEF Inserted
<1>6. claims = [i \in 1..Len(u) |-> IF u[i] \in rows THEN Duplicate ELSE Fresh]
  <2>1. \A i \in DOMAIN u : u[i] \in ClaimedByToken(u, t, token') <=> u[i] \notin rows
    BY <1>5, Zenon DEF ClaimedByToken, Range
  <2> QED
    BY <1>3, <2>1 DEF claims_from_fresh
<1> HIDE DEF claims
<1>7. claims \in Seq(Claim) /\ \A i \in 1..Len(u) : claims[i] = IF u[i] \in rows THEN Duplicate ELSE Fresh
  BY <1>3, <1>6 DEF Claim
<1>8. Truthful(ids, claims)
  BY <1>7, Zenon DEF Truthful, u
<1>9. drawn' \subseteq Nat \ {0} /\ token' \in [Messages -> drawn' \cup {0}]
  BY <1>1, <1>2, Zenon DEF ClaimsInv
<1>10. Call(ids, claims)
  BY <1>1, Zenon DEF claims
<1> QED
  BY <1>7, <1>8, <1>9, <1>10, CallKeeps, Zenon

\* The trait's default: an id of the batch has no earlier occurrence in it.
LEMMA ClaimSliceOneByOneKeeps ==
  ASSUME ClaimsInv, NEW ids \in Slices, ClaimSliceOneByOne(ids)
  PROVE  ClaimsInv'
<1> DEFINE u == Unique(ids)
           claims == OneByOne(u, rows)
<1>1. ids \in Seq(Messages) /\ u \in Seq(Messages)
  BY BatchIsSortedAndUnique, ClaimsAssumption, Zenon
<1>2. Call(ids, claims) /\ drawn' = drawn /\ token' = token
  BY Zenon DEF ClaimSliceOneByOne
<1>3. \A i, j \in 1..Len(u) : u[i] = u[j] => i = j
  BY <1>1, UniqueInjective, Zenon
<1> HIDE DEF u
<1>4. ASSUME NEW i \in 1..Len(u) PROVE u[i] \notin {u[j] : j \in 1..(i - 1)}
  <2>1. Len(u) \in Nat
    BY <1>1
  <2>2. \A j \in 1..(i - 1) : j \in 1..Len(u) /\ j # i
    BY <2>1
  <2> QED
    BY <1>3, <2>2, Zenon
<1>5. claims = [i \in 1..Len(u) |-> IF u[i] \in rows THEN Duplicate ELSE Fresh]
  BY <1>1, <1>4 DEF OneByOne
<1> HIDE DEF claims
<1>6. claims \in Seq(Claim) /\ \A i \in 1..Len(u) : claims[i] = IF u[i] \in rows THEN Duplicate ELSE Fresh
  BY <1>1, <1>5 DEF Claim
<1>7. Truthful(ids, claims)
  BY <1>6, Zenon DEF Truthful, u
<1>8. drawn' \subseteq Nat \ {0} /\ token' \in [Messages -> drawn' \cup {0}]
  BY <1>2, Zenon DEF ClaimsInv
<1> QED
  BY <1>2, <1>6, <1>7, <1>8, CallKeeps, SMTT(30)

\* The wrong number of claims.
LEMMA ClaimSliceMiscountedKeeps ==
  ASSUME ClaimsInv, NEW ids \in Slices, ClaimSliceMiscounted(ids)
  PROVE  ClaimsInv'
<1> DEFINE m == Len(Unique(ids))
<1>1. m \in Nat
  BY BatchIsSortedAndUnique, ClaimsAssumption
<1>2. PICK n \in (0..(m + 1)) \ {m} : Call(ids, [i \in 1..n |-> Fresh])
  BY Zenon DEF ClaimSliceMiscounted
<1> DEFINE claims == [i \in 1..n |-> Fresh]
<1> HIDE DEF m
<1>3. n \in Nat /\ n # m
  BY <1>1, <1>2
<1>4. claims \in Seq(Claim) /\ Len(claims) = n
  BY <1>3 DEF Claim
<1> HIDE DEF claims
<1>5. Truthful(ids, claims)
  BY <1>3, <1>4, Zenon DEF Truthful, m
<1>6. drawn' \subseteq Nat \ {0} /\ token' \in [Messages -> drawn' \cup {0}]
  BY Zenon DEF ClaimSliceMiscounted, ClaimsInv
<1> QED
  BY <1>2, <1>4, <1>5, <1>6, CallKeeps, SMTT(30) DEF claims

-----------------------------------------------------------------------------
(* The claims are taken from the map.                                      *)

\* The first occurrence takes the backend's answer and leaves Duplicate behind.
LEMMA TakeNextKeeps ==
  ASSUME ClaimsInv, TakeNext
  PROVE  ClaimsInv'
<1> DEFINE n == Len(call.out) + 1
           id == call.ids[n]
           done == IF n = Len(call.ids) THEN "returned" ELSE "taking"
           o == Append(call.out, call.answers[id])
           a == [call.answers EXCEPT ![id] = Duplicate]
           s == [call EXCEPT !.pc = done, !.out = o, !.answers = a]
<1>1. /\ call.pc = "taking" /\ UNCHANGED <<rows, token, drawn>>
      /\ call' = [Take(call, id) EXCEPT !.pc = IF n = Len(call.ids) THEN "returned" ELSE @]
  BY Zenon DEF TakeNext
<1>2. call \in CallType /\ TakeInv(call, rows)
  BY Zenon DEF ClaimsInv
<1>3. /\ call.ids \in Seq(Messages) /\ call.out \in Seq(Claim) /\ call.claims \in Seq(Claim)
      /\ call.answers \in UNION {[D -> Claim] : D \in SUBSET Messages}
  BY <1>2, Zenon DEF CallType
<1>4. /\ Len(call.out) < Len(call.ids) /\ DOMAIN call.answers = Range(call.ids)
      /\ \A x \in Range(call.ids) :
           call.answers[x] = IF x \in call.before \cup Taken(call) THEN Duplicate ELSE Fresh
      /\ rows = call.before \cup Range(call.ids)
      /\ \A i \in 1..Len(call.out) : call.out[i] = OneByOne(call.ids, call.before)[i]
      /\ Len(call.claims) = Len(Unique(call.ids))
  BY <1>1, <1>2, Zenon DEF TakeInv
<1>5. /\ Len(call.out) \in Nat /\ n \in 1..Len(call.ids) /\ n - 1 = Len(call.out)
  BY <1>3, <1>4, SMTT(30)
<1>6. id \in Range(call.ids) /\ id \in Messages
  BY <1>3, <1>5 DEF Range
<1>7. call' = s
  BY <1>1, <1>2, <1>4, <1>6, Zenon DEF Take, CallType
<1>8. call.answers \in [Range(call.ids) -> Claim] /\ Range(call.ids) \subseteq Messages
  BY <1>3, <1>4, Zenon
<1> HIDE DEF id
<1>9. /\ a \in [Range(call.ids) -> Claim] /\ a[id] = Duplicate
      /\ \A x \in Range(call.ids) : x # id => a[x] = call.answers[x]
  BY <1>6, <1>8, Zenon DEF Claim
<1>10. /\ o \in Seq(Claim) /\ Len(o) = n /\ o[n] = call.answers[id]
       /\ \A i \in 1..Len(call.out) : o[i] = call.out[i]
  BY <1>3, <1>5, <1>6, <1>8, SMTT(30)
<1> HIDE DEF a, o
<1>11. /\ s \in CallType /\ s.pc = done /\ s.ids = call.ids /\ s.before = call.before
       /\ s.claims = call.claims /\ s.answers = a /\ s.out = o
  <2>1. a \in UNION {[D -> Claim] : D \in SUBSET Messages}
    BY <1>8, <1>9, Zenon
  <2>2. done \in {"taking", "returned", "failed"}
    BY Zenon
  <2> HIDE DEF done
  <2> QED
    BY <1>2, <1>10, <2>1, <2>2, Zenon DEF CallType
<1> HIDE DEF s
<1>12. Taken(s) = Taken(call) \cup {id}
  <2>1. 1..n = 1..Len(call.out) \cup {n}
    BY <1>5
  <2> QED
    BY <1>10, <1>11, <2>1 DEF Taken, id
<1>13. \A i \in 1..Len(o) : o[i] = OneByOne(call.ids, call.before)[i]
  <2> SUFFICES ASSUME NEW i \in 1..n PROVE o[i] = OneByOne(call.ids, call.before)[i]
    BY <1>10, Zenon
  <2>1. CASE i = n
    <3>1. OneByOne(call.ids, call.before)[n]
            = IF id \in call.before \cup Taken(call) THEN Duplicate ELSE Fresh
      <4>1. n \in DOMAIN call.ids /\ Taken(call) = {call.ids[j] : j \in 1..(n - 1)}
        BY <1>3, <1>5 DEF Taken
      <4> HIDE DEF n
      <4> QED
        BY <4>1, Zenon DEF OneByOne, id
    <3> QED
      BY <1>4, <1>6, <1>10, <2>1, <3>1, Zenon
  <2>2. CASE i # n
    BY <1>4, <1>5, <1>10, <2>2, SMTT(30)
  <2> QED
    BY <2>1, <2>2, Zenon
<1>14. TakeInv(s, rows)
  <2>1. \A x \in Range(call.ids) :
          a[x] = IF x \in call.before \cup Taken(s) THEN Duplicate ELSE Fresh
    BY <1>4, <1>9, <1>12, Zenon
  <2>2. done = "taking" => Len(o) < Len(call.ids)
    BY <1>3, <1>5, <1>10, SMTT(30)
  <2>3. done = "returned" => Len(o) = Len(call.ids)
    BY <1>10, Zenon
  <2>4. done # "failed" /\ DOMAIN a = Range(call.ids)
    BY <1>9, Zenon
  <2> HIDE DEF done, n
  <2> QED
    BY <1>4, <1>11, <1>13, <2>1, <2>2, <2>3, <2>4, SMTT(30) DEF TakeInv
<1> QED
  BY <1>1, <1>7, <1>11, <1>14, Zenon DEF ClaimsInv

-----------------------------------------------------------------------------
(* The theorems about claim_many.                                          *)

\* No call has been made, or a call with no ids returns: there is nothing to take.
LEMMA EmptyCallKeeps ==
  ASSUME rows \subseteq Messages
  PROVE  LET s == NewCall("returned", <<>>, <<>>) IN s \in CallType /\ TakeInv(s, rows)
<1> DEFINE a == Answers(Unique(<<>>), <<>>)
           s == [pc |-> "returned", ids |-> <<>>, before |-> rows, claims |-> <<>>,
                 answers |-> a, out |-> <<>>]
<1>1. <<>> \in Seq(Messages) /\ <<>> \in Seq(Claim) /\ Len(<<>>) = 0 /\ Range(<<>>) = {}
  BY DEF Range
<1>2. Len(Unique(<<>>)) = 0
  <2>1. Cardinality({}) = 0
    BY FS_EmptySet, Zenon
  <2>2. Len(Unique(<<>>)) = Cardinality(Range(<<>>))
    BY <1>1, BatchIsSortedAndUnique, Zenon
  <2> QED
    BY <1>1, <2>1, <2>2, Zenon
<1>3. a \in UNION {[D -> Claim] : D \in SUBSET Messages}
  BY <1>1, AnswersAre, Zenon
<1> HIDE DEF a
<1>4. s \in CallType
  BY <1>1, <1>3, Zenon DEF CallType
<1>5. TakeInv(s, rows)
  BY <1>1, <1>2 DEF TakeInv
<1> QED
  BY <1>4, <1>5, Zenon DEF NewCall, a

\* The invariant is inductive.
THEOREM ClaimsInvariance == ClaimsSpec => []ClaimsInv
<1>1. ClaimsInit => ClaimsInv
  BY EmptyCallKeeps, ClaimsAssumption, Zenon DEF ClaimsInit, ClaimsInv
<1>2. ClaimsInv /\ [ClaimsNext]_claimsVars => ClaimsInv'
  <2> SUFFICES ASSUME ClaimsInv, [ClaimsNext]_claimsVars PROVE ClaimsInv'
    BY Zenon
  <2>1. ASSUME NEW ids \in Slices, \/ ClaimSlice(ids) \/ ClaimSliceByToken(ids)
                                   \/ ClaimSliceOneByOne(ids) \/ ClaimSliceMiscounted(ids)
        PROVE  ClaimsInv'
    BY <2>1, ClaimSliceKeeps, ClaimSliceByTokenKeeps, ClaimSliceOneByOneKeeps,
       ClaimSliceMiscountedKeeps, Zenon
  <2>2. CASE ClaimNothing
    BY <2>2, EmptyCallKeeps, Zenon DEF ClaimNothing, ClaimsInv
  <2>3. CASE TakeNext
    BY <2>3, TakeNextKeeps, Zenon
  <2>4. CASE UNCHANGED claimsVars
    BY <2>4, Zenon DEF claimsVars, ClaimsInv
  <2> QED
    BY <2>1, <2>2, <2>3, <2>4, Zenon DEF ClaimsNext
<1> QED
  BY <1>1, <1>2, PTL DEF ClaimsSpec

\* "reporting for each, in order, whether it was new.  A repeated id gets the
\* database's answer the first time and `Duplicate` after": one backend call
\* answers a slice of any length as claiming it id by id would.
THEOREM ClaimManyIsOneByOne == ClaimsSpec => []SameAsOneByOne
<1>1. ClaimsInv => SameAsOneByOne
  <2> SUFFICES ASSUME ClaimsInv, call.pc = "returned"
               PROVE  /\ call.out = OneByOne(call.ids, call.before)
                      /\ rows = call.before \cup Range(call.ids)
    BY Zenon DEF SameAsOneByOne
  <2> DEFINE r == OneByOne(call.ids, call.before)
  <2>1. /\ call.ids \in Seq(Messages) /\ call.out \in Seq(Claim)
        /\ Len(call.out) = Len(call.ids)
        /\ rows = call.before \cup Range(call.ids)
        /\ \A i \in 1..Len(call.out) : call.out[i] = r[i]
    BY Zenon DEF ClaimsInv, TakeInv, CallType
  <2>2. DOMAIN call.ids = 1..Len(call.ids) /\ DOMAIN call.out = 1..Len(call.ids)
    <3>1. DOMAIN call.ids = 1..Len(call.ids) /\ DOMAIN call.out = 1..Len(call.out)
      BY <2>1, LenProperties, Zenon
    <3> QED
      BY <2>1, <3>1, Zenon
  <2>3. /\ r = [i \in 1..Len(call.ids) |-> r[i]]
        /\ call.out = [i \in 1..Len(call.ids) |-> call.out[i]]
    <3>1. r = [i \in DOMAIN call.ids |-> r[i]]
      BY Zenon DEF OneByOne
    <3>2. call.out = [i \in DOMAIN call.out |-> call.out[i]]
      BY <2>1, LenProperties, Zenon
    <3> QED
      BY <2>2, <3>1, <3>2, Zenon
  <2> HIDE DEF r
  <2>4. call.out = r
    BY <2>1, <2>2, <2>3, Zenon
  <2> QED
    BY <2>1, <2>4, Zenon DEF r
<1> QED
  BY <1>1, ClaimsInvariance, PTL

\* "Must return exactly one [`Claim`] per id": claim_many fails if and only if the
\* backend does not, and expect("every id was sent to the backend") never panics.
THEOREM MiscountAlwaysFails == ClaimsSpec => []MiscountIsAnError
<1>1. ClaimsInv => MiscountIsAnError
  <2> SUFFICES ASSUME ClaimsInv PROVE MiscountIsAnError
    BY Zenon
  <2>1. call.out \in Seq(Claim) /\ (call.pc = "failed" <=> Len(call.claims) # Len(Unique(call.ids)))
    BY Zenon DEF ClaimsInv, TakeInv, CallType
  <2>2. \A i \in DOMAIN call.out : call.out[i] \in Claim
    BY <2>1
  <2> QED
    BY <2>1, <2>2, Zenon DEF MiscountIsAnError, Claim, Fresh, Duplicate
<1> QED
  BY <1>1, ClaimsInvariance, PTL

-----------------------------------------------------------------------------
(* Lock timeouts on MySQL.                                                 *)


\* Inside a claim with a timeout the session has the claim's value and the
\* application's is saved; between claims nothing is saved.
IInv ==
  /\ TypeOK
  /\ OwnValueSurvives
  /\ pc = "tx" => saved = Null
  /\ pc \in {"insert", "restore"} =>
       IF asked = NoTimeout THEN saved = Null
       ELSE saved # Null /\ session = mysql_lock_timeout(asked)

\* What mysql_lock_timeout computes: between 1 second and MySQL's maximum, not
\* less than asked for unless that is beyond the maximum, and less than a
\* second more unless it is the minimum.
LEMMA RoundsUp ==
  ASSUME NEW ms \in Nat
  PROVE  /\ mysql_lock_timeout(ms) \in Nat /\ mysql_lock_timeout(ms) \in 1..MaxSeconds
         /\ 1000 * mysql_lock_timeout(ms) >= ms \/ mysql_lock_timeout(ms) = MaxSeconds
         /\ mysql_lock_timeout(ms) = 1 \/ 1000 * (mysql_lock_timeout(ms) - 1) < ms
<1> DEFINE secs == (ms + 999) \div 1000
<1>1. /\ secs \in Nat
      /\ 1000 * secs <= ms + 999
      /\ ms + 999 < 1000 * secs + 1000
  OBVIOUS
<1> HIDE DEF secs
<1>2. mysql_lock_timeout(ms) = IF secs < 1 THEN 1 ELSE IF secs > MaxSeconds THEN MaxSeconds ELSE secs
  BY DEF mysql_lock_timeout, secs
<1> QED
  BY <1>1, <1>2, ValuesAssumption

\* A connection fresh from after_connect.
LEMMA InitIInv == Init => IInv
BY ValuesAssumption, Zenon DEF Init, IInv, TypeOK, OwnValueSurvives

\* Every statement of a claim, its cancellation, and BEGIN keep the invariant.
LEMMA NextIInv ==
  ASSUME ~Reclaims, IInv, [Next]_vars
  PROVE  IInv'
<1> USE ValuesAssumption
<1>1. CASE Begin
  BY <1>1, Zenon DEF Begin, IInv, TypeOK, OwnValueSurvives
<1>2. CASE EndTx
  BY <1>2, Zenon DEF EndTx, IInv, TypeOK, OwnValueSurvives
<1>3. CASE Insert
  BY <1>3, Zenon DEF Insert, IInv, TypeOK, OwnValueSurvives
<1>4. CASE restore_lock_timeout
  BY <1>4, Zenon DEF restore_lock_timeout, IInv, TypeOK, OwnValueSurvives
<1>5. CASE Abandon
  BY <1>5, Zenon DEF Abandon, IInv, TypeOK, OwnValueSurvives
<1>6. CASE Reconnect
  BY <1>6, Zenon DEF Reconnect, IInv, TypeOK, OwnValueSurvives
<1>7. ASSUME NEW t \in Timeouts \cup {NoTimeout}, set_lock_timeout(t)
      PROVE  IInv'
  <2>1. CASE t = NoTimeout
    BY <1>7, <2>1, Zenon DEF set_lock_timeout, IInv, TypeOK, OwnValueSurvives
  <2>2. CASE t # NoTimeout
    <3>1. t \in Nat /\ mysql_lock_timeout(t) \in Nat
      BY <2>2, RoundsUp, Zenon
    <3> QED
      BY <1>7, <2>2, <3>1, Zenon DEF set_lock_timeout, IInv, TypeOK, OwnValueSurvives
  <2> QED
    BY <2>1, <2>2, Zenon
<1>8. CASE UNCHANGED vars
  BY <1>8, Zenon DEF vars, IInv, TypeOK, OwnValueSurvives
<1> QED
  BY <1>1, <1>2, <1>3, <1>4, <1>5, <1>6, <1>7, <1>8 DEF Next

\* The invariant holds throughout unless a caller claims again on a transaction
\* whose claim it has cancelled.
LEMMA IInvHolds ==
  ASSUME ~Reclaims
  PROVE  Spec => []IInv
<1>1. IInv /\ [Next]_vars => IInv'
  BY NextIInv, Zenon
<1> QED
  BY <1>1, InitIInv, PTL DEF Spec

\* The value the application set in after_connect survives every claim that
\* succeeds, fails or is cancelled.
THEOREM OwnValueAlwaysSurvives ==
  ASSUME ~Reclaims
  PROVE  Spec => []OwnValueSurvives
<1>1. IInv => OwnValueSurvives
  BY Zenon DEF IInv
<1> QED
  BY <1>1, IInvHolds, PTL

\* Between claims the application's value is in force.
THEOREM HandlerAlwaysWaitsItsOwn ==
  ASSUME ~Reclaims
  PROVE  Spec => []HandlerWaitsItsOwn
<1>1. IInv => HandlerWaitsItsOwn
  BY Zenon DEF IInv, OwnValueSurvives, HandlerWaitsItsOwn
<1> QED
  BY <1>1, IInvHolds, PTL

\* Within a claim what the claim asked for is in force, rounded up.
THEOREM ClaimAlwaysWaitsAsAsked ==
  ASSUME ~Reclaims
  PROVE  Spec => []ClaimWaitsAsAsked
<1>1. IInv => ClaimWaitsAsAsked
  <2> SUFFICES ASSUME IInv, pc = "insert" PROVE ClaimWaitsAsAsked
    BY Zenon DEF ClaimWaitsAsAsked
  <2>1. CASE asked = NoTimeout
    BY <2>1, Zenon DEF IInv, OwnValueSurvives, ClaimWaitsAsAsked
  <2>2. CASE asked # NoTimeout
    <3>1. asked \in Nat /\ session = mysql_lock_timeout(asked)
      BY <2>2, ValuesAssumption, Zenon DEF IInv, TypeOK
    <3> QED
      BY <2>2, <3>1, RoundsUp DEF ClaimWaitsAsAsked
  <2> QED
    BY <2>1, <2>2, Zenon
<1> QED
  BY <1>1, IInvHolds, PTL

-----------------------------------------------------------------------------
(* Lock timeouts on PostgreSQL.                                            *)

\* What pg_lock_timeout computes: at least 1 ms, at least what was asked for,
\* and less than a millisecond more unless it is the minimum.
LEMMA PgRoundsUp ==
  ASSUME NEW us \in Nat
  PROVE  /\ pg_lock_timeout(us) \in Nat /\ pg_lock_timeout(us) > 0
         /\ 1000 * pg_lock_timeout(us) >= us
         /\ pg_lock_timeout(us) = 1 \/ 1000 * (pg_lock_timeout(us) - 1) < us
<1> DEFINE ms == (us + 999) \div 1000
<1>1. /\ ms \in Nat
      /\ 1000 * ms <= us + 999
      /\ us + 999 < 1000 * ms + 1000
  OBVIOUS
<1> HIDE DEF ms
<1>2. pg_lock_timeout(us) = IF ms < 1 THEN 1 ELSE ms
  BY Zenon DEF pg_lock_timeout, ms
<1> QED
  BY <1>1, <1>2

\* The session keeps the application's value, the transaction has the value of
\* the last claim with a timeout, and a claim in progress is that last one.
PgIInv ==
  /\ PgTypeOK
  /\ inSession = chosen
  /\ inTx = IF wanted = Unset THEN Unset ELSE pg_lock_timeout(wanted)
  /\ claiming # Unset => claiming = wanted

\* A connection fresh from after_connect.
LEMMA PgInitIInv == PgInit => PgIInv
BY PgValuesAssumption, Zenon DEF PgInit, PgIInv, PgTypeOK

\* Every statement of a claim and every end of a transaction keep it.
LEMMA PgNextIInv ==
  ASSUME PgIInv, [PgNext]_pgVars
  PROVE  PgIInv'
<1> USE PgValuesAssumption DEF PgIInv, PgTypeOK
<1>1. CASE PgBegin
  BY <1>1, Zenon DEF PgBegin
<1>2. CASE SetNothing
  BY <1>2, Zenon DEF SetNothing
<1>3. CASE PgInsert
  BY <1>3, Zenon DEF PgInsert
<1>4. CASE PgEndTx
  BY <1>4, Zenon DEF PgEndTx
<1>5. CASE PgReconnect
  BY <1>5, Zenon DEF PgReconnect
<1>6. ASSUME NEW us \in PgTimeouts, SetLocal(us)
      PROVE  PgIInv'
  <2>1. us \in Nat /\ pg_lock_timeout(us) \in Nat
    BY PgRoundsUp
  <2> QED
    BY <1>6, <2>1, Zenon DEF SetLocal
<1>7. ASSUME NEW us \in PgTimeouts, SetRefused(us)
      PROVE  PgIInv'
  BY <1>7, Zenon DEF SetRefused
<1>8. CASE UNCHANGED pgVars
  BY <1>8, Zenon DEF pgVars
<1> QED
  BY <1>1, <1>2, <1>3, <1>4, <1>5, <1>6, <1>7, <1>8 DEF PgNext

\* The timeout of a claim ends with its transaction: it never reaches the next
\* user of the pooled connection.
THEOREM PgAlwaysWaitsItsOwn == PgSpec => []PgWaitsItsOwn
<1>1. PgIInv => PgWaitsItsOwn
  BY Zenon DEF PgIInv, PgWaitsItsOwn, InForce
<1>2. PgIInv /\ [PgNext]_pgVars => PgIInv'
  BY PgNextIInv, Zenon
<1> QED
  BY <1>1, <1>2, PgInitIInv, PTL DEF PgSpec

\* A claim with a timeout waits that long, rounded up; none is sent as 0.
THEOREM PgClaimAlwaysWaitsAsAsked == PgSpec => []PgClaimWaitsAsAsked
<1>1. PgIInv => PgClaimWaitsAsAsked
  <2> SUFFICES ASSUME PgIInv, claiming # Unset
               PROVE  PgClaimWaitsAsAsked
    BY DEF PgClaimWaitsAsAsked
  <2>1. claiming \in Nat /\ InForce = pg_lock_timeout(claiming)
    <3>1. claiming \in Nat /\ inTx = pg_lock_timeout(claiming)
      BY PgValuesAssumption, Zenon DEF PgIInv, PgTypeOK
    <3>2. inTx # Unset
      BY <3>1, PgRoundsUp, PgValuesAssumption
    <3> QED
      BY <3>1, <3>2 DEF InForce
  <2> QED
    BY <2>1, PgRoundsUp DEF PgClaimWaitsAsAsked
<1>2. PgIInv /\ [PgNext]_pgVars => PgIInv'
  BY PgNextIInv, Zenon
<1> QED
  BY <1>1, <1>2, PgInitIInv, PTL DEF PgSpec
=============================================================================
