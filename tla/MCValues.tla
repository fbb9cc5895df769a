------------------------------ MODULE MCValues ------------------------------
(* Small instances of Ids and of ClaimMany for TLC, one after the other.   *)
EXTENDS Ids, ClaimMany, SequencesExt

VARIABLE part   \* the module whose turn it is

\* Every string of up to three characters.
AllInputs == BoundedSeq(Chars, 3)

\* Every slice of up to two ids, longer ones with repeats, and every set of
\* recorded ids.
AllSlices == BoundedSeq(Messages, 2) \cup {<<3, 2, 1>>, <<2, 1, 2>>, <<3, 3, 1>>, <<3, 1, 1, 3>>}
AllCommitted == SUBSET Messages

InitEither ==
  /\ IdsInit /\ ClaimsInit
  /\ part \in {"ids", "claims"}
  /\ part = "ids" => rows = {}

NextEither ==
  \/ part = "ids" /\ IdsNext /\ UNCHANGED <<claimsVars, part>>
  \/ part = "claims" /\ ClaimsNext /\ UNCHANGED <<issued, part>>

SpecEither == InitEither /\ [][NextEither]_<<issued, claimsVars, part>>
=============================================================================
