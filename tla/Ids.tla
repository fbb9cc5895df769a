-------------------------------- MODULE Ids ---------------------------------
(***************************************************************************)
(* MessageId: validation, and MessageId::scoped, which folds a producer's  *)
(* identity into the ids of a queue several producers share.  A string is  *)
(* a sequence of one-byte characters.                                      *)
(***************************************************************************)
EXTENDS Naturals, Sequences, FiniteSets

CONSTANTS
  Chars,    \* characters, among them:
  Sep,      \* ':'
  White,    \* the white space trim removes
  MAX_LEN,  \* the longest id
  Inputs,   \* strings producers and brokers supply
  MaxIds    \* how many ids are built

ASSUME CharsAssumption ==
  /\ Sep \in Chars \ White
  /\ MAX_LEN \in Nat
  /\ Inputs \subseteq Seq(Chars)

Ok(v) == [ok |-> TRUE, id |-> v, err |-> "none"]
Err(e) == [ok |-> FALSE, id |-> <<>>, err |-> e]

\* trim().is_empty()
IsBlank(v) == \A i \in DOMAIN v : v[i] \in White

\* trim().len() # len(), for a string that is not blank.
IsPadded(v) == v[1] \in White \/ v[Len(v)] \in White

try_from(v) ==
  IF IsBlank(v) THEN Err("Empty")
  ELSE IF IsPadded(v) THEN Err("SurroundingWhitespace")
  ELSE IF Len(v) > MAX_LEN THEN Err("TooLong")
  ELSE Ok(v)

HasChar(v, c) == \E i \in DOMAIN v : v[i] = c

\* Mutant: the separator is refused in neither part.
ScopedAnything(scope, id) ==
  IF IsBlank(scope) \/ IsBlank(id) THEN Err("Empty")
  ELSE IF IsPadded(scope) \/ IsPadded(id) THEN Err("SurroundingWhitespace")
  ELSE try_from(scope \o <<Sep>> \o id)

scoped(scope, id) ==
  IF HasChar(scope, Sep) THEN Err("ScopeContainsSeparator")
  ELSE IF IsBlank(scope) THEN Err("Empty")
  ELSE IF IsPadded(scope) THEN Err("SurroundingWhitespace")
  ELSE IF IsBlank(id) THEN Err("Empty")
  ELSE IF IsPadded(id) THEN Err("SurroundingWhitespace")
  ELSE try_from(scope \o <<Sep>> \o id)

-----------------------------------------------------------------------------

VARIABLE issued   \* messages that got an id: scope, id and the MessageId

IdsInit == issued = {}

Issue(scope, id) ==
  /\ Cardinality(issued) < MaxIds
  /\ scoped(scope, id).ok
  /\ issued' = issued \cup {[scope |-> scope, id |-> id, mid |-> scoped(scope, id).id]}

\* A message that gets no id changes nothing.
Refuse(scope, id) ==
  /\ ~scoped(scope, id).ok
  /\ UNCHANGED issued

IdsNext == \E scope, id \in Inputs : Issue(scope, id) \/ Refuse(scope, id)

IdsSpec == IdsInit /\ [][IdsNext]_issued

\* Messages of different producers, or different messages of one, never share
\* a MessageId: the inbox would skip one of them as a duplicate of the other.
NoCollision ==
  \A a, b \in issued : a.mid = b.mid => a.scope = b.scope /\ a.id = b.id
=============================================================================
