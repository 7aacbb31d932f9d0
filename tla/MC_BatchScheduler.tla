------------------------- MODULE MC_BatchScheduler -------------------------
(* Instances of BatchScheduler small enough for TLC.                       *)
EXTENDS BatchScheduler

CONSTANTS LargestGrant, LargestUse

(* Budgets at both ends of the range, a middle one, and no limit.          *)
MCGrants == {0, LargestGrant, Unbounded}

(* From an idle batch to one that overruns its budget.                     *)
MCUsed == 0 .. LargestUse

(* No discovery, and a discovery that outweighs the cooldown.              *)
MCRanks == {0, COOLDOWN_PENALTY + 1}
=============================================================================
