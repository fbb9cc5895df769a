------------------------------ MODULE ClaimMany -----------------------------
(***************************************************************************)
(* What claim_many computes: the sorted and deduplicated batch, the        *)
(* backend's answers, and the claims of the caller's slice taken from them *)
(* one after the other, against the same slice claimed id by id.  Consumer *)
(* takes the result for granted (its FreshAt); this module is about it,    *)
(* over one transaction that claims several slices.                        *)
(***************************************************************************)
EXTENDS Claims, Sequences, FiniteSets, Functions

CONSTANTS
  Messages,    \* ids, ordered as their bytes are
  Slices,      \* slices claim_many is called with
  Committed,   \* sets of ids that may have rows when the transaction begins
  MaxTokens    \* how many claim tokens are drawn

ASSUME ClaimsAssumption ==
  /\ Messages \subseteq Nat
  /\ Slices \subseteq Seq(Messages)
  /\ Committed \subseteq SUBSET Messages
  /\ MaxTokens \in Nat

VARIABLES
  rows,    \* ids this transaction sees as recorded
  token,   \* claim_token of each row, 0 for NULL
  drawn,   \* claim tokens drawn so far
  call     \* the last call: see NewCall

claimsVars == <<rows, token, drawn, call>>

-----------------------------------------------------------------------------
(* The backend.                                                            *)

\* The rows the INSERT adds, which RETURNING reports on PostgreSQL and SQLite.
Inserted(batch, seen) == Range(batch) \ seen

\* Mutant: the consumer draws a token once and uses it in every call.
TokenOfConsumer(used) == {1}

\* getrandom::u64, taken never to return a token twice.
claim_token(used) == (1..MaxTokens) \ used

\* MySQL reads the rows back that carry the token of this call.
ClaimedByToken(batch, t, stamped) == {id \in Range(batch) : stamped[id] = t}

claims_from_fresh(batch, fresh) ==
  [i \in DOMAIN batch |-> IF batch[i] \in fresh THEN Fresh ELSE Duplicate]

-----------------------------------------------------------------------------
(* Consumer::claim_many.                                                   *)

\* How many ids of S are before x.
Rank(x, S) == Cardinality({y \in S : y < x})

\* sort_unstable_by, dedup: every id once, in the order of their bytes.
Unique(ids) ==
  [i \in 1..Cardinality(Range(ids)) |-> CHOOSE x \in Range(ids) : Rank(x, Range(ids)) = i - 1]

\* unique.iter().zip(claims).collect(): as far as the shorter of the two goes.
Answers(unique, claims) ==
  [id \in {unique[i] : i \in DOMAIN unique \cap DOMAIN claims} |->
     claims[CHOOSE i \in DOMAIN unique : unique[i] = id]]

(***************************************************************************)
(* pc: "taking", "returned" or "failed"; before: the rows before the call; *)
(* claims: what the backend returned; answers and out: the map and the     *)
(* claims taken from it so far.                                            *)
(***************************************************************************)
NewCall(pc, ids, claims) ==
  [pc |-> pc, ids |-> ids, before |-> rows, claims |-> claims,
   answers |-> Answers(Unique(ids), claims), out |-> <<>>]

\* Mutant: the number of claims is not looked at.
ReceiveUnchecked(ids, claims) == NewCall("taking", ids, claims)

\* The backend has answered.
Receive(ids, claims) ==
  NewCall(IF Len(claims) # Len(Unique(ids)) THEN "failed" ELSE "taking", ids, claims)

\* Mutant: a repeat gets the answer of the first occurrence.
TakeAgain(s, id) == [s EXCEPT !.out = Append(@, s.answers[id])]

\* answers.insert(id, Duplicate) returns what was there: the backend's answer
\* the first time.  An id that is not there is a panic.
Take(s, id) ==
  IF id \in DOMAIN s.answers
  THEN [s EXCEPT !.out = Append(@, s.answers[id]), !.answers[id] = Duplicate]
  ELSE [s EXCEPT !.out = Append(@, "panic")]

-----------------------------------------------------------------------------

ClaimsInit ==
  /\ rows \in Committed
  /\ token = [id \in Messages |-> 0]
  /\ drawn = {}
  /\ call = NewCall("returned", <<>>, <<>>)

\* The caller's next slice; with no ids there is no backend call.
Call(ids, claims) ==
  /\ call.pc # "taking" /\ ids # <<>>
  /\ call' = Receive(ids, claims)
  /\ rows' = rows \cup Inserted(Unique(ids), rows)

ClaimNothing ==
  /\ call.pc # "taking" /\ <<>> \in Slices
  /\ call' = NewCall("returned", <<>>, <<>>)
  /\ UNCHANGED <<rows, token, drawn>>

\* PostgreSQL and SQLite.
ClaimSlice(ids) ==
  /\ Call(ids, claims_from_fresh(Unique(ids), Inserted(Unique(ids), rows)))
  /\ UNCHANGED <<token, drawn>>

\* MySQL.  A row that is already there keeps its token.
ClaimSliceByToken(ids) ==
  \E t \in claim_token(drawn) :
    /\ token' = [id \in Messages |-> IF id \in Inserted(Unique(ids), rows) THEN t ELSE token[id]]
    /\ drawn' = drawn \cup {t}
    /\ Call(ids, claims_from_fresh(Unique(ids), ClaimedByToken(Unique(ids), t, token')))

\* The trait's default, in a backend that does not override it.
ClaimSliceOneByOne(ids) ==
  /\ Call(ids, OneByOne(Unique(ids), rows))
  /\ UNCHANGED <<token, drawn>>

\* A third-party backend that returns too few claims, or one too many.
ClaimSliceMiscounted(ids) ==
  /\ \E n \in (0..(Len(Unique(ids)) + 1)) \ {Len(Unique(ids))} : Call(ids, [i \in 1..n |-> Fresh])
  /\ UNCHANGED <<token, drawn>>

TakeNext ==
  LET n == Len(call.out) + 1
  IN /\ call.pc = "taking"
     /\ call' = [Take(call, call.ids[n]) EXCEPT !.pc = IF n = Len(call.ids) THEN "returned" ELSE @]
     /\ UNCHANGED <<rows, token, drawn>>

ClaimsNext ==
  \/ \E ids \in Slices : \/ ClaimSlice(ids) \/ ClaimSliceByToken(ids)
                         \/ ClaimSliceOneByOne(ids) \/ ClaimSliceMiscounted(ids)
  \/ ClaimNothing
  \/ TakeNext

ClaimsSpec == ClaimsInit /\ [][ClaimsNext]_claimsVars

-----------------------------------------------------------------------------
(* Properties.                                                             *)

\* One backend call answers the slice as claiming it id by id would, repeats
\* and earlier claims of the transaction included, and records the same rows.
SameAsOneByOne ==
  call.pc = "returned" =>
    /\ call.out = OneByOne(call.ids, call.before)
    /\ rows = call.before \cup Range(call.ids)

\* claim_many fails if, and only if, the backend breaks its promise of one claim
\* per id; and it never panics on an id without an answer.
MiscountIsAnError ==
  /\ call.pc = "failed" <=> Len(call.claims) # Len(Unique(call.ids))
  /\ \A i \in DOMAIN call.out : call.out[i] # "panic"
=============================================================================
