---------------------------- MODULE MCConformance ---------------------------
(* Small instances of Conformance for TLC.                                 *)
EXTENDS Conformance

EveryFlaw ==
  {"none", "truncates", "folds case", "folds accents", "ignores the consumer", "narrow column",
   "no 4-byte characters", "not unique", "claims on another connection", "commit is lost",
   "rollback commits", "answers in reverse", "batch is all fresh", "batch is not recorded"}
  \cup Leaks \cup SavepointFlaws

\* Two connections differ only in what is left on them.
EveryStore ==
  [flaw : EveryFlaw, pool : {1}] \cup [flaw : {"none", "leaks on drop"}, pool : {2}]
=============================================================================
