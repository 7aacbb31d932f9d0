---------------------------- MODULE LayerBudget ----------------------------
(***************************************************************************)
(* The execution budget of one layer of a scan: how it is split over the   *)
(* functions (allocate of shatter-core/src/budget_alloc.rs) and how the    *)
(* functions, explored concurrently, pass on what they do not need         *)
(* (BudgetSurplus, claimed from in the exploration loops and donated to at *)
(* the end of scan's explore task).                                        *)
(*                                                                         *)
(* Under "static" a concolic exploration counts the executions of its      *)
(* loop; under "flat" a random one counts iterations, without those the    *)
(* frontend does not support.  What the code executes without counting     *)
(* (float probes, shrinking, the genetic phase) is no budget and not here. *)
(* Scores are numbers, ceiling_factor is in tenths; floor() is integer     *)
(* division.  Why an exploration stops, and whether it was productive      *)
(* enough to claim, is left open.                                          *)
(***************************************************************************)
EXTENDS Integers

CONSTANTS
  TaskCount,     \* functions of the layer
  MaxIterations, \* default_max_iterations
  Custom,        \* functions with custom generators
  Scores,        \* values a static score may have
  Floors,        \* values of settings.floor
  Factors,       \* values of settings.ceiling_factor, in tenths
  Width,         \* 2^32 in the code
  Coarse         \* explorations stop at three places only (on the instances)

Tasks == 1 .. TaskCount

Larger(a, b) == IF a >= b THEN a ELSE b
Smaller(a, b) == IF a <= b THEN a ELSE b

Sum(f) ==
  LET upTo[n \in 0 .. TaskCount] == IF n = 0 THEN 0 ELSE upTo[n - 1] + f[n]
  IN  upTo[TaskCount]

Only(f, S) == [t \in Tasks |-> IF t \in S THEN f[t] ELSE 0]

(* concolic_scan_max_executions: what each function has under the flat     *)
(* policy; the layer's total is their sum.                                 *)
Flat == [t \in Tasks |-> IF t \in Custom THEN MaxIterations ELSE 5 * MaxIterations]
Total == Sum(Flat)

ASSUME BudgetAssumption ==
  /\ TaskCount \in Nat /\ MaxIterations \in Nat /\ Custom \subseteq Tasks
  /\ Scores \subseteq Nat \ {0} /\ Floors \subseteq Nat /\ Factors \subseteq Nat
  /\ Width \in Nat /\ Total < Width /\ Coarse \in BOOLEAN

VARIABLES
  mode,          \* "static" or "flat"
  score, floor, factor,
  share,         \* max_executions_override, or max_iterations
  pc,            \* where each exploration is
  used,          \* executions made
  unsupported,   \* those of them that are not in `iterations`
  claimed,       \* taken from the surplus
  requested, current,   \* locals of a claim
  available,     \* BudgetSurplus
  failed         \* explorations that ended in an error

demand == <<mode, score, floor, factor, share>>
local == <<used, unsupported, claimed, requested, current>>
vars == <<demand, pc, local, available, failed>>

-----------------------------------------------------------------------------
(* allocate.                                                               *)

(* The ceiling of each function, raised to the floor.                      *)
Ceil == [t \in Tasks |-> Larger(Larger((Flat[t] * factor) \div 10, 1), floor)]

(* Floors beyond the total are scaled down.                                *)
ScaledFloor ==
  IF TaskCount * floor > Total THEN (floor * Total) \div (TaskCount * floor) ELSE floor

(* One pass over the open functions; it is the last one when no function   *)
(* reaches its ceiling.                                                    *)
Pass(s) ==
  IF s.last \/ s.left = 0 \/ s.open = {} THEN s
  ELSE
    LET want(t) == (s.left * score[t]) \div Sum(Only(score, s.open))
        closed == {t \in s.open : want(t) >= Ceil[t] - s.shares[t]}
        next == [t \in Tasks |-> IF t \in closed THEN Ceil[t]
                                 ELSE IF t \in s.open THEN s.shares[t] + want(t)
                                 ELSE s.shares[t]]
    IN [shares |-> next, open |-> s.open \ closed,
        left |-> s.left - (Sum(next) - Sum(s.shares)), last |-> closed = {}]

(* Every pass but the last closes a function: more than TaskCount passes   *)
(* are never made.                                                         *)
Fill(start) ==
  LET after[k \in 0 .. TaskCount] == IF k = 0 THEN start ELSE Pass(after[k - 1])
  IN  after[TaskCount]

Before(t, u) == score[t] > score[u] \/ (score[t] = score[u] /\ t < u)
First(S) == CHOOSE t \in S : \A u \in S \ {t} : Before(t, u)

(* One execution of what rounding left over goes to the next function of   *)
(* the round; at its end those below the ceiling make up another round.    *)
HandOne(s) ==
  IF s.left = 0 \/ s.turn = {} THEN s
  ELSE
    LET t == First(s.turn)
        shares == [s.shares EXCEPT ![t] = @ + 1]
        later == s.turn \ {t}
    IN [shares |-> shares, open |-> s.open, left |-> s.left - 1,
        turn |-> IF later # {} THEN later ELSE {u \in s.open : shares[u] < Ceil[u]}]

(* Slip: what rounding left over is dropped.                               *)
HandOutNothing(filled) == filled.shares

HandOut(filled) ==
  LET start == [shares |-> filled.shares, open |-> filled.open, left |-> filled.left,
                turn |-> filled.open]
      after[k \in 0 .. Total] == IF k = 0 THEN start ELSE HandOne(after[k - 1])
  IN  after[Total].shares

ScaledFloors == [t \in Tasks |-> ScaledFloor]

allocate ==
  IF Sum(Ceil) < Total THEN Ceil
  ELSE HandOut(Fill([shares |-> ScaledFloors, open |-> {t \in Tasks : ScaledFloors[t] < Ceil[t]},
                     left |-> Total - Sum(ScaledFloors), last |-> FALSE]))

-----------------------------------------------------------------------------
TypeOK ==
  /\ mode \in {"static", "flat"}
  /\ score \in [Tasks -> Scores] /\ floor \in Floors /\ factor \in Factors
  /\ share \in [Tasks -> 0 .. Total]
  /\ pc \in [Tasks -> {"run", "claim", "load", "cas", "end", "done"}]
  /\ used \in [Tasks -> 0 .. Total] /\ unsupported \in [Tasks -> 0 .. Total]
  /\ claimed \in [Tasks -> 0 .. Total]
  /\ requested \in [Tasks -> 0 .. Total] /\ current \in [Tasks -> 0 .. Total]
  /\ available \in 0 .. Width - 1
  /\ failed \subseteq Tasks

(* apply_static_allocation writes the shares into the tasks; the random    *)
(* exploration has max_iterations for each, and scores and bounds play no  *)
(* part.                                                                   *)
Init ==
  /\ mode \in {"static", "flat"}
  /\ floor \in Floors /\ factor \in Factors
  /\ score \in [Tasks -> Scores]
  /\ mode = "flat" => /\ floor = CHOOSE f \in Floors : TRUE
                      /\ factor = CHOOSE c \in Factors : TRUE
                      /\ score = [t \in Tasks |-> CHOOSE x \in Scores : TRUE]
  /\ share = IF mode = "static" THEN allocate ELSE [t \in Tasks |-> MaxIterations]
  /\ pc = [t \in Tasks |-> "run"]
  /\ used = [t \in Tasks |-> 0] /\ unsupported = [t \in Tasks |-> 0]
  /\ claimed = [t \in Tasks |-> 0]
  /\ requested = [t \in Tasks |-> 0] /\ current = [t \in Tasks |-> 0]
  /\ available = 0
  /\ failed = {}

Moves(t, from, to) ==
  /\ pc[t] = from
  /\ pc' = [pc EXCEPT ![t] = to]

Cap(t) == share[t] + claimed[t]

(* Where an exploration may stop; Coarse leaves only at once, half-way and *)
(* at the cap, and the frontend supports everything or nothing of it.      *)
Stops(t) ==
  IF Coarse THEN {used[t], (used[t] + Cap(t)) \div 2, Cap(t)} ELSE used[t] .. Cap(t)
Unsupported(n) == IF Coarse THEN {0, n} ELSE 0 .. n

(* The exploration runs for a while: it stops below its cap, or meets it.  *)
Explore(t) ==
  \E n \in Stops(t) :
    /\ Moves(t, "run", IF n = Cap(t) THEN "claim" ELSE "end")
    /\ used' = [used EXCEPT ![t] = n]
    /\ \E u \in Unsupported(n - used[t]) :
         /\ mode = "static" => u = 0
         /\ unsupported' = [unsupported EXCEPT ![t] = @ + u]
    /\ UNCHANGED <<demand, claimed, requested, current, available, failed>>

(* An error ends the task before the donation.                             *)
ExploreFails(t) ==
  \E n \in Stops(t) :
    /\ Moves(t, "run", "done")
    /\ used' = [used EXCEPT ![t] = n]
    /\ failed' = failed \cup {t}
    /\ UNCHANGED <<demand, unsupported, claimed, requested, current, available>>

(* should_claim says no.                                                   *)
Unproductive(t) ==
  /\ Moves(t, "claim", "end")
  /\ UNCHANGED <<demand, local, available, failed>>

(* max_claimable(surplus.available()): a quarter of the share at a time,   *)
(* and at most half of the surplus.                                        *)
Request(t) ==
  /\ Moves(t, "claim", "load")
  /\ requested' = [requested EXCEPT
                     ![t] = Smaller(Larger(share[t] \div 4, 1), available \div 2)]
  /\ UNCHANGED <<demand, used, unsupported, claimed, current, available, failed>>

(* try_claim.                                                              *)
Load(t) ==
  /\ Moves(t, "load", "cas")
  /\ current' = [current EXCEPT ![t] = available]
  /\ UNCHANGED <<demand, used, unsupported, claimed, requested, available, failed>>

Forget(t) ==
  /\ requested' = [requested EXCEPT ![t] = 0]
  /\ current' = [current EXCEPT ![t] = 0]

NothingThere(t) ==
  /\ current[t] < 1
  /\ Moves(t, "cas", "end")
  /\ Forget(t)
  /\ UNCHANGED <<demand, used, unsupported, claimed, available, failed>>

ToClaim(t) == Smaller(current[t], requested[t])

(* Slip: the exchange stores what was read before without comparing.       *)
CasBlind(t) ==
  /\ current[t] >= 1
  /\ Moves(t, "cas", IF ToClaim(t) > 0 THEN "run" ELSE "end")
  /\ available' = current[t] - ToClaim(t)
  /\ claimed' = [claimed EXCEPT ![t] = @ + ToClaim(t)]
  /\ Forget(t)
  /\ UNCHANGED <<demand, used, unsupported, failed>>

Cas(t) ==
  /\ current[t] >= 1 /\ available = current[t]
  /\ Moves(t, "cas", IF ToClaim(t) > 0 THEN "run" ELSE "end")
  /\ available' = current[t] - ToClaim(t)
  /\ claimed' = [claimed EXCEPT ![t] = @ + ToClaim(t)]
  /\ Forget(t)
  /\ UNCHANGED <<demand, used, unsupported, failed>>

(* Slip: after a failed exchange the old value is tried again.             *)
CasFailsStale(t) ==
  /\ pc[t] = "cas" /\ current[t] >= 1 /\ available # current[t]
  /\ UNCHANGED vars

CasFails(t) ==
  /\ pc[t] = "cas" /\ current[t] >= 1 /\ available # current[t]
  /\ current' = [current EXCEPT ![t] = available]
  /\ UNCHANGED <<demand, pc, used, unsupported, claimed, requested, available, failed>>

(* unused_executions under static, and max_iterations minus iterations,    *)
(* claims aside, under flat.                                               *)
Unused(t) ==
  LET iterations == used[t] - unsupported[t] IN
  IF mode = "static" THEN Cap(t) - used[t]
  ELSE IF iterations > share[t] THEN 0 ELSE share[t] - iterations

(* fetch_add wraps.                                                        *)
Donate(t) ==
  /\ Moves(t, "end", "done")
  /\ available' = (available + Unused(t)) % Width
  /\ UNCHANGED <<demand, local, failed>>

Task(t) ==
  \/ Explore(t) \/ ExploreFails(t)
  \/ Unproductive(t) \/ Request(t) \/ Load(t)
  \/ NothingThere(t) \/ Cas(t) \/ CasFails(t)
  \/ Donate(t)

LayerDone == \A t \in Tasks : pc[t] = "done"

Next == (\E t \in Tasks : Task(t)) \/ (LayerDone /\ UNCHANGED vars)

(* A task that is scheduled goes on; nothing in it waits for another.      *)
Spec == Init /\ [][Next]_vars /\ \A t \in Tasks : WF_vars(Task(t))

-----------------------------------------------------------------------------
(* Static shares add up to the flat total unless the ceilings forbid it,   *)
(* and respect every function's bounds.  A higher score gets at least as   *)
(* much unless its own ceiling stops it, and a function below its ceiling  *)
(* is at most one execution behind another of the same score: nobody loses *)
(* more than the rounding.                                                 *)
AllocationFair ==
  mode = "static" =>
    /\ Sum(share) = Smaller(Total, Sum(Ceil))
    /\ \A t \in Tasks : ScaledFloor <= share[t] /\ share[t] <= Ceil[t]
    /\ \A t, u \in Tasks :
         /\ score[t] > score[u] => share[t] >= share[u] \/ share[t] = Ceil[t]
         /\ score[t] = score[u] => share[t] <= share[u] + 1 \/ share[u] = Ceil[u]

Held(t) == IF pc[t] = "done" THEN used[t] ELSE Cap(t)

(* Executions made, held and in the surplus never exceed what the layer    *)
(* was given, whatever the order of claims, retries and donations (under   *)
(* flat, as long as the frontend supports every execution), and under      *)
(* static none of them gets lost unless an exploration fails.              *)
BudgetConserved ==
  LET sum == Sum([t \in Tasks |-> Held(t)]) + available IN
  /\ (\A t \in Tasks : unsupported[t] = 0) => sum <= Sum(share)
  /\ mode = "static" /\ failed = {} => sum = Sum(share)

(* A claim succeeds, or finds the surplus empty: retries come to an end.   *)
EveryoneEnds == <>LayerDone
=============================================================================
