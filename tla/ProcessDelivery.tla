--------------------------- MODULE ProcessDelivery --------------------------
(***************************************************************************)
(* process, as Retention sees it.  Retention reduces a delivery to begin,  *)
(* claim, and commit or give up; here every step of Consumer is one of its *)
(* steps or none.  Time stands still, everything is published and nobody   *)
(* purges: what is compared is what a delivery does to rows and effects.   *)
(***************************************************************************)
EXTENDS ConsumerInvariant

\* A delivery of the message with key k; time stands still.
Handling(st, k) == [st |-> st, msg |-> k, at |-> 0, start |-> 0, stamp |-> 0]

\* The delivery w is handling in a call of process with locals q.
DeliveryOf(w, q) ==
  CASE q.pc = "begin" -> Handling("got", KeyOf(w, q.batch[1]))
    [] q.pc = "claim" -> Handling("tx", KeyOf(w, q.batch[1]))
    [] q.pc \in {"run", "commit"} -> Handling("claimed", KeyOf(w, q.batch[1]))
    [] OTHER -> Handling("idle", NoConn)

R == INSTANCE Retention
       WITH Messages <- Key, Purgers <- {}, MaxAge <- 0, BatchSize <- 1, Window <- 0,
            MaxDelay <- 0, MaxTime <- 0, NoMessage <- NoConn,
            now <- 0, pub <- [k \in Key |-> 0], rows <- {<<k, 0>> : k \in rows},
            runs <- applied, work <- [w \in Workers |-> DeliveryOf(w, call[w])],
            purge <- [p \in {} |-> 0], since <- 0, clean <- TRUE

\* process does what Retention takes a delivery to do: it begins, claims under the
\* lock of its key, and adds the row and one effect, or gives up and adds nothing.
DeliversAsRetention == [][R!Next]_(R!vars)

-----------------------------------------------------------------------------
(* What the loop makes of its claims, in the terms of ClaimMany.           *)

C == INSTANCE Claims

Recorded(w) == {m \in Messages : KeyOf(w, m) \in rows}

\* process_many may take the claims of claim_many for granted: from the savepoint
\* to the commit they are what claiming the slice id by id would give on the rows
\* that are committed at that moment, although other calls commit meanwhile.
ClaimsStayTrue ==
  \A w \in Workers : InBatch(w) => \A i \in DOMAIN call[w].batch :
    FreshAt(w, i) <=> C!OneByOne(call[w].batch, Recorded(w))[i] = C!Fresh
=============================================================================
