----------------------------- MODULE Conformance ----------------------------
(***************************************************************************)
(* The conformance suite, run on stores that keep the contract of the      *)
(* InboxStore trait or break it in one way.  Each check is a script of     *)
(* calls with the answers it asserts, and a run of a suite goes through    *)
(* its script and panics at the first other answer.  Several runs share    *)
(* the table, each with a pool of its own.                                 *)
(*                                                                         *)
(* A call is one step: what it writes is private to its connection until   *)
(* it commits.  Message ids are numbers, ordered as their bytes are.       *)
(***************************************************************************)
EXTENDS Claims, SequencesExt

CONSTANTS
  Runs,     \* runs of the suites, which may overlap
  Stores    \* stores they may run on: what is wrong with one, and its pool's size

VARIABLES
  suite,     \* the suite of each run
  flaw,      \* what is wrong with the store
  pool,      \* connections in the pool of each run
  rows,      \* committed rows, as keys
  pending,   \* rows written on each connection and not yet committed
  conn,      \* connection of the transaction a check has open, 0 for none
  todo,      \* calls a run has still to make
  verdict    \* "running", "passed" or "panicked"

vars == <<suite, flaw, pool, rows, pending, conn, todo, verdict>>

-----------------------------------------------------------------------------
(* The ids of the checks that look at them closely.                        *)

max_ascii == 11     \* MAX_LEN bytes
max_wide == 12      \* MAX_LEN bytes of 4-byte characters
long_a == 13        \* MAX_LEN bytes, with another last byte each
long_b == 14
Order_1 == 15
order_1 == 16
cafe_acute == 17
cafe == 18

\* What the table keeps of an id.
Column(id) ==
  CASE flaw = "truncates" /\ id = long_b -> long_a
    [] flaw = "folds case" /\ id = Order_1 -> order_1
    [] flaw = "folds accents" /\ id = cafe_acute -> cafe
    [] OTHER -> id

Stored(key) == [key EXCEPT !.id = Column(@),
                           !.consumer = IF flaw = "ignores the consumer" THEN "any" ELSE @]

Refused(id) ==
  \/ flaw = "narrow column" /\ id \in max_ascii..long_b
  \/ flaw = "no 4-byte characters" /\ id = max_wide

-----------------------------------------------------------------------------
(* The store.  A call turns the rows s.rows, those s.pending on its        *)
(* connection and those s.saved at the savepoint into new ones, and gives  *)
(* the answer s.out.                                                       *)

claim(s, key) ==
  LET known == Stored(key) \in s.rows \cup s.pending
  IN CASE Refused(key.id) -> [s EXCEPT !.out = "Err"]
       [] flaw = "not unique" -> [s EXCEPT !.out = Fresh]
       [] flaw = "claims on another connection" ->
            [s EXCEPT !.rows = @ \cup {Stored(key)}, !.out = IF known THEN Duplicate ELSE Fresh]
       [] OTHER ->
            [s EXCEPT !.pending = @ \cup {Stored(key)}, !.out = IF known THEN Duplicate ELSE Fresh]

commit(s) ==
  [s EXCEPT !.rows = IF flaw = "commit is lost" THEN @ ELSE @ \cup s.pending, !.pending = {}]

drop(s) == IF flaw \in {"leaks on drop", "leaks on rollback"} THEN s ELSE [s EXCEPT !.pending = {}]

\* The default drops the transaction; the backends override it.
rollback(s) ==
  CASE flaw = "rollback commits" -> commit(s)
    [] flaw = "leaks on rollback" -> drop(s)
    [] OTHER -> [s EXCEPT !.pending = {}]

CM == INSTANCE ClaimMany WITH Messages <- {}, Slices <- {}, Committed <- {}, MaxTokens <- 0,
                              token <- 0, drawn <- {}, call <- 0

WithId(key, id) == [key EXCEPT !.id = id]

\* All of what Consumer::claim_many does with the backend's claims.
Assemble(ids, claims) ==
  IF Len(claims) # Len(CM!Unique(ids)) THEN <<"Err">>
  ELSE FoldLeft(CM!Take, [out |-> <<>>, answers |-> CM!Answers(CM!Unique(ids), claims)], ids).out

\* Consumer::claim_many, on a store whose claim_many is the default; key is the
\* key of one of the ids.
claim_many(s, key, ids) ==
  LET ClaimNext(t, id) ==
        LET u == claim(t, WithId(key, id)) IN [u EXCEPT !.out = Append(t.out, u.out)]
      t == FoldLeft(ClaimNext, [s EXCEPT !.out = <<>>], CM!Unique(ids))
      answers == IF flaw = "answers in reverse" THEN Reverse(t.out)
                 ELSE IF flaw = "batch is all fresh" THEN [i \in DOMAIN t.out |-> Fresh]
                 ELSE t.out
  IN [t EXCEPT !.out = Assemble(ids, answers),
               !.pending = IF flaw = "batch is not recorded" THEN s.pending ELSE @]

savepoint(s) == [s EXCEPT !.saved = s.pending]

release_and_savepoint(s) == IF flaw = "keeps the first savepoint" THEN s ELSE savepoint(s)

rollback_to(s) ==
  CASE flaw = "rollback_to does nothing" -> s
    [] flaw = "rollback_to rolls back all" -> [s EXCEPT !.pending = {}]
    [] OTHER -> [s EXCEPT !.pending = s.saved]

unclaim(s, key) ==
  IF flaw = "unclaim does nothing" THEN s ELSE [s EXCEPT !.pending = @ \ {Stored(key)}]

-----------------------------------------------------------------------------
(* The consumer, whose handlers write an effect as a claim under effects   *)
(* and fail for the ids in poisons.                                        *)

process(s, key, effect, poisons) ==
  LET claimed == claim(s, key)
      handled == IF poisons = {} THEN claimed ELSE claim(claimed, effect)
  IN IF claimed.out = Duplicate THEN [rollback(claimed) EXCEPT !.out = Duplicate]
     ELSE IF key.id \in poisons THEN [rollback(handled) EXCEPT !.out = "Handler"]
     ELSE [commit(handled) EXCEPT !.out = "Processed"]

process_many(s, key, effect, poisons, ids) ==
  LET claimed == claim_many(s, key, ids)
      Handle(b, i) ==
        LET id == ids[i]
            written == claim(b.s, WithId(effect, id))
            undone == unclaim(rollback_to(written), WithId(key, id))
        IN IF claimed.out[i] = Duplicate
           THEN [b EXCEPT !.out = Append(@, IF id \in b.failed THEN "Err" ELSE Duplicate)]
           ELSE [s |-> release_and_savepoint(IF id \in poisons THEN undone ELSE written),
                 failed |-> IF id \in poisons THEN b.failed \cup {id} ELSE b.failed,
                 out |-> Append(b.out, IF id \in poisons THEN "Err" ELSE "Processed")]
      done == FoldLeft(Handle, [s |-> savepoint(claimed), failed |-> {}, out |-> <<>>],
                       [i \in DOMAIN ids |-> i])
  IN [commit(done.s) EXCEPT !.out = done.out]

-----------------------------------------------------------------------------
(* The checks.                                                             *)

\* Call op for consumer with ids, and assert that the answer is want.
Call(op, consumer, ids, want) == [op |-> op, consumer |-> consumer, ids |-> ids, want |-> want]

claim_and_commit(consumer, id, want) == Call("claim_and_commit", consumer, <<id>>, want)

\* The answer of the claim a probe makes.
is_committed(consumer, id, yes) ==
  Call("is_committed", consumer, <<id>>, IF yes THEN Duplicate ELSE Fresh)

begin(consumer) == Call("begin", consumer, <<>>, "Ok")
claim_any(consumer, id) == Call("claim", consumer, <<id>>, "Ok")
end(consumer, how) == Call(how, consumer, <<>>, "Ok")

fresh_then_duplicate ==
  <<Call("process", "fresh", <<0>>, "Processed"), Call("process", "fresh", <<0>>, Duplicate)>>

handler_failure_rolls_back ==
  <<Call("process failing", "handler-failure", <<0>>, "Handler"),
    is_committed("handler-failure", 0, FALSE),
    is_committed("handler-failure-effect", 0, FALSE)>>

explicit_rollback_discards ==
  <<begin("rollback"), claim_any("rollback", 0), end("rollback", "rollback"),
    is_committed("rollback", 0, FALSE)>>

\* Mutant: only the later claim is looked at.
dropped_is_not_probed ==
  <<begin("dropped"), claim_any("dropped", 0), end("dropped", "drop"),
    begin("dropped"), claim_any("dropped", 1), end("dropped", "commit"),
    is_committed("dropped", 1, TRUE)>>

dropped_transaction_does_not_persist ==
  <<begin("dropped"), claim_any("dropped", 0), end("dropped", "drop"),
    begin("dropped"), claim_any("dropped", 1), end("dropped", "commit"),
    is_committed("dropped", 1, TRUE), is_committed("dropped", 0, FALSE)>>

max_length_ids_are_accepted ==
  <<claim_and_commit("ascii", max_ascii, Fresh), claim_and_commit("ascii", max_ascii, Duplicate),
    claim_and_commit("wide", max_wide, Fresh), claim_and_commit("wide", max_wide, Duplicate)>>

ids_compare_byte_for_byte ==
  LET ids == <<long_a, long_b, Order_1, order_1, cafe_acute, cafe>>
  IN [i \in DOMAIN ids |-> claim_and_commit("bytes", ids[i], Fresh)]

claim_many_matches_single_claims ==
  <<claim_and_commit("claim-many", 2, Fresh),
    begin("claim-many"),
    Call("claim_many", "claim-many", <<3, 2, 1, 3>>, <<Fresh, Duplicate, Fresh, Duplicate>>),
    end("claim-many", "commit"),
    is_committed("claim-many", 1, TRUE), is_committed("claim-many", 3, TRUE)>>

conformance ==
  fresh_then_duplicate \o handler_failure_rolls_back \o explicit_rollback_discards
  \o dropped_transaction_does_not_persist \o max_length_ids_are_accepted
  \o ids_compare_byte_for_byte \o claim_many_matches_single_claims

poisons == {0, 5, 9}
known == 7

\* Mutant: a batch without repeats and with its poison at the end.
short_savepoints_conformance ==
  LET ids == <<1, 2, 5>>
      Probes(i) == LET id == ids[i]
                   IN <<is_committed("process-many", id, id \notin poisons)>>
  IN <<Call("process_many", "process-many", ids,
            [i \in DOMAIN ids |-> IF ids[i] \in poisons THEN "Err" ELSE "Ok"])>>
     \o FlattenSeq([i \in DOMAIN ids |-> Probes(i)])

savepoints_conformance ==
  LET ids == <<0, 1, 2, 3, 4, 5, 6, 7, 8, 9, 5, 3>>
      Probes(i) == LET id == ids[i]
                   IN IF id = known THEN <<is_committed("process-many-effect", id, FALSE)>>
                      ELSE <<is_committed("process-many", id, id \notin poisons),
                             is_committed("process-many-effect", id, id \notin poisons)>>
  IN <<claim_and_commit("process-many", known, Fresh),
       Call("process_many", "process-many", ids,
            [i \in DOMAIN ids |-> IF ids[i] = known THEN Duplicate
                                  ELSE IF ids[i] \in poisons THEN "Err" ELSE "Ok"])>>
     \o FlattenSeq([i \in DOMAIN ids |-> Probes(i)])

-----------------------------------------------------------------------------

Init ==
  /\ suite \in [Runs -> {"conformance", "savepoints"}]
  /\ \E store \in Stores : flaw = store.flaw /\ pool = store.pool
  /\ rows = {}
  /\ pending = [r \in Runs |-> [c \in 1..pool |-> {}]]
  /\ conn = [r \in Runs |-> 0]
  /\ todo = [r \in Runs |-> IF suite[r] = "conformance" THEN conformance ELSE savepoints_conformance]
  /\ verdict = [r \in Runs |-> "running"]

\* Mutant: the rows of every run have the same prefix.
NoNonce(r) == 0

\* The nonces of two runs are taken to differ.
Nonce(r) == r

Key(r, consumer, id) == [run |-> Nonce(r), consumer |-> consumer, id |-> id]

\* Run r is about to make a call of this kind.
Calls(r, op) == verdict[r] = "running" /\ Head(todo[r]).op = op

Consumer(r) == Head(todo[r]).consumer
Ids(r) == Head(todo[r]).ids
KeyOf(r) == Key(r, Consumer(r), Ids(r)[1])

On(r, c) == [rows |-> rows, pending |-> pending[r][c], saved |-> {}, out |-> "Ok"]

\* The call returns, and the run goes on if the answer is the one it asserts.
Answer(r, c, s) ==
  /\ rows' = s.rows
  /\ pending' = [pending EXCEPT ![r][c] = s.pending]
  /\ todo' = [todo EXCEPT ![r] = Tail(@)]
  /\ verdict' = [verdict EXCEPT ![r] = IF s.out # Head(todo[r]).want THEN "panicked"
                                       ELSE IF Len(todo[r]) = 1 THEN "passed" ELSE @]
  /\ UNCHANGED <<suite, flaw, pool>>

Begin(r) ==
  /\ Calls(r, "begin")
  /\ \E c \in 1..pool : conn' = [conn EXCEPT ![r] = c] /\ Answer(r, c, On(r, c))

\* Whether the claim was fresh is not asserted, only that it was made.
Claim(r) ==
  LET s == claim(On(r, conn[r]), KeyOf(r))
  IN /\ Calls(r, "claim")
     /\ Answer(r, conn[r], IF s.out = "Err" THEN s ELSE [s EXCEPT !.out = "Ok"])
     /\ UNCHANGED conn

ClaimMany(r) ==
  /\ Calls(r, "claim_many")
  /\ Answer(r, conn[r], claim_many(On(r, conn[r]), KeyOf(r), Ids(r)))
  /\ UNCHANGED conn

End(r) ==
  /\ \/ Calls(r, "commit") /\ Answer(r, conn[r], commit(On(r, conn[r])))
     \/ Calls(r, "rollback") /\ Answer(r, conn[r], rollback(On(r, conn[r])))
     \/ Calls(r, "drop") /\ Answer(r, conn[r], drop(On(r, conn[r])))
  /\ conn' = [conn EXCEPT ![r] = 0]

ClaimAndCommit(r) ==
  /\ Calls(r, "claim_and_commit")
  /\ \E c \in 1..pool : Answer(r, c, commit(claim(On(r, c), KeyOf(r))))
  /\ UNCHANGED conn

\* Mutant: the probe is committed.
ProbeCommits(r) ==
  /\ Calls(r, "is_committed")
  /\ \E c \in 1..pool : Answer(r, c, commit(claim(On(r, c), KeyOf(r))))
  /\ UNCHANGED conn

IsCommitted(r) ==
  /\ Calls(r, "is_committed")
  /\ \E c \in 1..pool : Answer(r, c, rollback(claim(On(r, c), KeyOf(r))))
  /\ UNCHANGED conn

Process(r) ==
  /\ \E c \in 1..pool :
       \/ Calls(r, "process") /\ Answer(r, c, process(On(r, c), KeyOf(r), KeyOf(r), {}))
       \/ /\ Calls(r, "process failing")
          /\ Answer(r, c, process(On(r, c), KeyOf(r), Key(r, "handler-failure-effect", 0), {0}))
  /\ UNCHANGED conn

\* The suite tells an error from a success, and a duplicate only for known.
ProcessMany(r) ==
  LET effect == Key(r, "process-many-effect", 0)
      Seen(s) == [s EXCEPT !.out = [i \in DOMAIN Ids(r) |->
                    IF s.out[i] = "Err" \/ Ids(r)[i] = known THEN s.out[i] ELSE "Ok"]]
  IN /\ Calls(r, "process_many")
     /\ \E c \in 1..pool :
          Answer(r, c, Seen(process_many(On(r, c), KeyOf(r), effect, poisons, Ids(r))))
     /\ UNCHANGED conn

Next ==
  \E r \in Runs :
    \/ Begin(r) \/ Claim(r) \/ ClaimMany(r) \/ End(r)
    \/ ClaimAndCommit(r) \/ IsCommitted(r) \/ Process(r) \/ ProcessMany(r)

Spec == Init /\ [][Next]_vars

-----------------------------------------------------------------------------
(* Properties.                                                             *)

SavepointFlaws == {"keeps the first savepoint", "rollback_to does nothing",
                   "rollback_to rolls back all", "unclaim does nothing"}

Leaks == {"leaks on drop", "leaks on rollback"}

\* A store that keeps its contract passes, however often the suites run, on a
\* database that is not empty and at the same time: "Every check scopes its rows
\* under a consumer id unique to the run".
GoodStorePasses == flaw = "none" => \A r \in Runs : verdict[r] # "panicked"

\* The suites panic on a store that breaks one contract.  A leaked transaction is
\* only sure to show when the pool has one connection; a claim_many that answers
\* in reverse is left to savepoints_conformance, conformance asserts answers that
\* read the same backwards.
BadStorePanics ==
  \A r \in Runs : verdict[r] = "passed" /\ suite[r] = "conformance" =>
    \/ flaw \in {"none", "answers in reverse"} \cup SavepointFlaws
    \/ flaw \in Leaks /\ pool > 1

\* The same for savepoints and for the order of a batch's answers.
BadSavepointsPanic ==
  \A r \in Runs : verdict[r] = "passed" /\ suite[r] = "savepoints" =>
    flaw \notin SavepointFlaws \cup {"answers in reverse"}
=============================================================================
