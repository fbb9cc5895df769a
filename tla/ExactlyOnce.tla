---------------------------- MODULE ExactlyOnce -----------------------------
(***************************************************************************)
(* What the inbox promises: of every key (a consumer and a message), the   *)
(* handler's effect is committed at most once, whole sets of keys at a     *)
(* time, and only handled keys are acknowledged to the broker.             *)
(***************************************************************************)
EXTENDS Naturals

CONSTANT Key

VARIABLES
  handled,   \* how often the effect of each key has been committed
  acked      \* acknowledged keys

Init ==
  /\ handled = [k \in Key |-> 0]
  /\ acked = {}

Handle(S) ==
  /\ \A k \in S : handled[k] = 0
  /\ handled' = [k \in Key |-> IF k \in S THEN 1 ELSE handled[k]]
  /\ UNCHANGED acked

Acknowledge(S) ==
  /\ \A k \in S : handled[k] = 1
  /\ acked' = acked \cup S
  /\ UNCHANGED handled

Next == \E S \in SUBSET Key : Handle(S) \/ Acknowledge(S)

Spec == Init /\ [][Next]_<<handled, acked>>
=============================================================================
