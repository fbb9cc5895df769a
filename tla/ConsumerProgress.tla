-------------------------- MODULE ConsumerProgress --------------------------
(***************************************************************************)
(* Why a call of process or process_many comes to an end: what it may have *)
(* to wait for, and how many steps it has left.                            *)
(***************************************************************************)
EXTENDS ConsumerInvariant

\* w's call waits neither for a connection nor for a lock.
CanGoOn(w) ==
  CASE call[w].pc = "idle" -> FALSE
    [] call[w].pc = "begin" -> \E c \in Conns : tx[c].st = "idle"
    [] call[w].pc = "claim" ->
         \/ call[w].many /\ call[w].todo = {}
         \/ \E m \in Messages : Claiming(w, m) /\ ~Blocked(call[w].conn, KeyOf(w, m))
    [] call[w].pc = "release" -> tx[call[w].conn].sp
    [] OTHER -> TRUE

\* The calls never all stand still: while there is one, some call can go on, or
\* the pool has a rollback to run.  Claims wait with a connection in hand and
\* others wait for the pool; neither queue is there without someone to serve it.
SomeCallGoesOn ==
  (\E w \in Workers : call[w].pc # "idle") =>
    \/ \E w \in Workers : CanGoOn(w)
    \/ \E c \in Conns : tx[c].st = "dropped"

\* The steps a call with locals q has left, at most, not counting one for each id
\* it has yet to claim.
StepsLeft(q) ==
  LET rest == 4 * (Len(q.batch) + 1 - q.pos)
  IN CASE q.pc = "idle" -> 0
       [] q.pc = "done" -> 1
       [] q.pc \in {"commit", "rollback", "undo"} -> 2
       [] q.pc = "run" -> 3
       [] q.pc = "release" -> rest - 1
       [] q.pc = "unclaim" -> rest
       [] q.pc = "rollback_to" -> rest + 1
       [] q.pc = "loop" -> rest + 2
       [] q.pc = "claim" -> rest + 3
       [] q.pc = "begin" -> rest + 4

\* Going on from the locals q to the locals r gets a call nearer to its end.
GetsNearer(q, r) ==
  \/ StepsLeft(r) < StepsLeft(q)
  \/ StepsLeft(r) = StepsLeft(q) /\ r.todo \subseteq q.todo /\ r.todo # q.todo

\* A call is finite: it retries nothing, and whatever happens in it, every step
\* it takes leaves it fewer steps, or the same and fewer ids to claim.
CallsAreFinite ==
  [][\A w \in Workers :
       call[w].pc # "idle" /\ call'[w] # call[w] => GetsNearer(call[w], call'[w])]_vars
=============================================================================
