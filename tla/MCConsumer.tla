----------------------------- MODULE MCConsumer -----------------------------
(* Small instances of Consumer for TLC.                                    *)
EXTENDS ConsumerProgress, ProcessDelivery, TLC

CONSTANTS w1, w2, w3, c1, c2

\* All workers are replicas of one service.
OneConsumer == [w \in Workers |-> "orders"]

\* Two replicas of one service, and another service with its own consumer id.
TwoConsumers == [w \in Workers |-> IF w = w3 THEN "billing" ELSE "orders"]

\* Overlapping slices in crossed orders, an id on both sides of another one,
\* one id twice, and the empty slice.
CrossedBatches == {<<>>, <<1, 1>>, <<1, 2>>, <<2, 1>>, <<2, 1, 2>>}
PoisonBatches == {<<2, 1>>}

ConnSymmetry == Permutations(Conns)
=============================================================================
