--------------------------- MODULE LeaseProtocol ---------------------------
(***************************************************************************)
(* What the batch scheduler promises its workers, without queues, ranks,   *)
(* budgets or penalties: a function is leased to at most one worker, and   *)
(* work granted while it is leased survives the release of the lease.      *)
(*                                                                         *)
(*   idle          unknown to the scheduler, or dropped by it              *)
(*   waiting       queued, may be leased                                   *)
(*   leased        one worker runs a batch of it                           *)
(*   leased_again  leased, and new work was granted in the meantime        *)
(***************************************************************************)
CONSTANT Tasks

VARIABLE status

Status == {"idle", "waiting", "leased", "leased_again"}

InStatus(S) == {t \in Tasks : status[t] \in S}

Init == status \in [Tasks -> {"idle", "waiting"}]

(* New work for t: it starts to wait unless it already waits or is leased. *)
Grant(t) ==
  status' = [status EXCEPT ![t] =
               IF @ \in {"leased", "leased_again"} THEN "leased_again" ELSE "waiting"]

(* One waiting function is leased; waiting functions without budget go.    *)
Lease(t, spent) ==
  /\ status[t] = "waiting"
  /\ t \notin spent
  /\ status' = [u \in Tasks |-> IF u = t THEN "leased"
                                ELSE IF u \in spent THEN "idle" ELSE status[u]]

(* Nothing can be leased: only functions without budget were waiting.      *)
Discard ==
  status' = [u \in Tasks |-> IF status[u] = "waiting" THEN "idle" ELSE status[u]]

(* The worker is done. Only a function nobody granted new work may go.     *)
Release(t) ==
  /\ status[t] \in {"leased", "leased_again"}
  /\ \E next \in {"idle", "waiting"} :
       /\ status[t] = "leased_again" => next = "waiting"
       /\ status' = [status EXCEPT ![t] = next]

Next ==
  \/ \E t \in Tasks : Grant(t) \/ Release(t)
  \/ \E t \in Tasks, spent \in SUBSET InStatus({"waiting"}) : Lease(t, spent)
  \/ Discard

Spec == Init /\ [][Next]_status

=============================================================================
