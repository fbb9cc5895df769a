------------------------------- MODULE Claims -------------------------------
(* A claim, and what claiming a slice of ids one after the other gives.      *)
EXTENDS Naturals

Fresh == "Fresh"
Duplicate == "Duplicate"

\* An id is Duplicate if it has been seen, or comes earlier in the slice: the
\* trait's default for a batch, and the reference for the caller's slice.
OneByOne(ids, seen) ==
  [i \in DOMAIN ids |-> IF ids[i] \in seen \cup {ids[j] : j \in 1..(i - 1)}
                        THEN Duplicate ELSE Fresh]
=============================================================================
