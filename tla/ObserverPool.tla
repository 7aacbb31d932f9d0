---------------------------- MODULE ObserverPool ----------------------------
(***************************************************************************)
(* One function explored by several observers                              *)
(* (explore_function_with_observer_pool of shatter-core/src/explorer.rs):  *)
(* a producer feeds candidates through a bounded channel to workers that   *)
(* own a frontend each, and consumes their messages from an unbounded one. *)
(*                                                                         *)
(* Candidates are not told apart: a candidate either is one of the last    *)
(* fingerprints, which needs an earlier candidate, or is new.  The job     *)
(* queue is then its length.  The result channel is the log of messages    *)
(* sent, of which the producer has read the first `read`.  Any waiting     *)
(* worker may take the next job; the lock around the receiver orders them. *)
(***************************************************************************)
EXTENDS Naturals, Sequences, FiniteSets

CONSTANTS
  Workers,            \* the observers, config.observer_pool of them
  Capacity,           \* candidate_queue_capacity, or its default
  Budget,             \* config.max_iterations
  HasTimeout          \* config.timeout_explore is set

ASSUME PoolAssumption ==
  /\ IsFiniteSet(Workers) /\ Workers # {}
  /\ Capacity \in Nat \ {0}
  /\ Budget \in Nat
  /\ HasTimeout \in BOOLEAN

VARIABLES
  main,            \* where the producer is
  producer_done,
  timed_out,       \* timed_out_due_to_budget
  in_flight,
  iterations,      \* aggregator.iterations()
  unsupported,     \* unsupported_seen
  outcome,         \* what the call returned, "none" before that
  offered,         \* some candidate has a fingerprint in the recent ones
  level,           \* setup_level: per execution, or at most once per worker
  deadline,        \* timeout_explore has elapsed
  queue,           \* number of jobs in the job channel
  results,         \* messages sent to the producer so far
  read,            \* how many of them it has received
  worker           \* [Workers -> where the worker is]

mainVars == <<main, producer_done, timed_out, in_flight, iterations, unsupported,
              outcome, offered>>
workVars == <<results, worker>>
vars == <<mainVars, level, deadline, queue, read, workVars>>

PoolSize == Cardinality(Workers)

Busy == {"job", "execute", "teardown"}
WorkerPhases == Busy \cup {"start", "idle", "ending", "gone"}
MainPhases == {"fill", "pick", "send", "receive", "join", "fail", "returned"}
SetupLevels == {"function", "execution"}
Returns == {"none", "timeout", "budget", "exhausted", "unsupported", "failed", "plan"}

(* job: the message accounts for a candidate the worker had received.      *)
Message == [kind : {"observed", "unsupported", "failed"}, job : BOOLEAN]

TypeOK ==
  /\ main \in MainPhases
  /\ producer_done \in BOOLEAN
  /\ timed_out \in BOOLEAN
  /\ in_flight \in 0 .. PoolSize
  /\ iterations \in Nat
  /\ unsupported \in Nat
  /\ outcome \in Returns
  /\ offered \in BOOLEAN
  /\ level \in SetupLevels
  /\ deadline \in BOOLEAN
  /\ queue \in 0 .. Capacity
  /\ results \in Seq(Message)
  /\ read \in 0 .. Len(results)
  /\ worker \in [Workers -> WorkerPhases]

(* The producer has instrumented through its own frontend and spawned the  *)
(* worker tasks; each starts its frontend on its own.                      *)
Init ==
  /\ main = "fill"
  /\ producer_done = FALSE
  /\ timed_out = FALSE
  /\ in_flight = 0
  /\ iterations = 0
  /\ unsupported = 0
  /\ outcome = "none"
  /\ offered = FALSE
  /\ level \in SetupLevels
  /\ deadline = FALSE
  /\ queue = 0
  /\ results = <<>>
  /\ read = 0
  /\ worker = [w \in Workers |-> "start"]

-----------------------------------------------------------------------------
(* The producer.                                                           *)

(* The sender is dropped by the normal end, by a failure and by an early   *)
(* return.  The receiver stays with the producer to the very end, so a     *)
(* send never fails.                                                       *)
JobsClosed == main \in {"join", "fail", "returned"}

Filling == main = "fill" /\ ~producer_done /\ in_flight < PoolSize

(* Slip: jobs in flight are not counted against the budget.                *)
BudgetSpentByResults == iterations + unsupported >= Budget

BudgetSpent == iterations + in_flight + unsupported >= Budget

StopAtBudget ==
  /\ Filling /\ BudgetSpent
  /\ producer_done' = TRUE
  /\ UNCHANGED <<main, timed_out, in_flight, iterations, unsupported, outcome, offered,
                 level, deadline, queue, read, workVars>>

StopAtDeadline ==
  /\ Filling /\ ~BudgetSpent /\ deadline
  /\ timed_out' = TRUE
  /\ producer_done' = TRUE
  /\ UNCHANGED <<main, in_flight, iterations, unsupported, outcome, offered,
                 level, deadline, queue, read, workVars>>

(* Slip: the clock is not looked at while there are candidates.            *)
GenerateAnyway ==
  /\ Filling /\ ~BudgetSpent
  /\ main' = "pick"
  /\ UNCHANGED <<producer_done, timed_out, in_flight, iterations, unsupported, outcome,
                 offered, level, deadline, queue, read, workVars>>

Generate ==
  /\ Filling /\ ~BudgetSpent /\ ~deadline
  /\ main' = "pick"
  /\ UNCHANGED <<producer_done, timed_out, in_flight, iterations, unsupported, outcome,
                 offered, level, deadline, queue, read, workVars>>

(* The strategies, or the prefetched generator values, have run out.       *)
NoCandidate ==
  /\ main = "pick"
  /\ producer_done' = TRUE
  /\ main' = "fill"
  /\ UNCHANGED <<timed_out, in_flight, iterations, unsupported, outcome, offered,
                 level, deadline, queue, read, workVars>>

(* The `?` on execute_inputs_for_plan_with_pins: the workers are left to   *)
(* themselves.                                                             *)
PlanFails ==
  /\ main = "pick"
  /\ main' = "returned"
  /\ outcome' = "plan"
  /\ UNCHANGED <<producer_done, timed_out, in_flight, iterations, unsupported, offered,
                 level, deadline, queue, read, workVars>>

(* should_enqueue is false: around the inner loop again, with no await.    *)
DropDuplicate ==
  /\ main = "pick" /\ offered
  /\ main' = "fill"
  /\ UNCHANGED <<producer_done, timed_out, in_flight, iterations, unsupported, outcome,
                 offered, level, deadline, queue, read, workVars>>

NewCandidate ==
  /\ main = "pick"
  /\ offered' = TRUE
  /\ main' = "send"
  /\ UNCHANGED <<producer_done, timed_out, in_flight, iterations, unsupported, outcome,
                 level, deadline, queue, read, workVars>>

(* job_tx.send waits for room in the channel.                              *)
Send ==
  /\ main = "send" /\ queue < Capacity
  /\ queue' = queue + 1
  /\ in_flight' = in_flight + 1
  /\ main' = "fill"
  /\ UNCHANGED <<producer_done, timed_out, iterations, unsupported, outcome, offered,
                 level, deadline, read, workVars>>

AwaitResult ==
  /\ main = "fill" /\ in_flight > 0
  /\ producer_done \/ in_flight = PoolSize
  /\ main' = "receive"
  /\ UNCHANGED <<producer_done, timed_out, in_flight, iterations, unsupported, outcome,
                 offered, level, deadline, queue, read, workVars>>

Receive(kind) ==
  /\ main = "receive" /\ read < Len(results)
  /\ results[read + 1].kind = kind
  /\ read' = read + 1
  /\ in_flight' = in_flight - 1

ReceiveObserved ==
  /\ Receive("observed")
  /\ iterations' = iterations + 1
  /\ main' = "fill"
  /\ UNCHANGED <<producer_done, timed_out, unsupported, outcome, offered, level, deadline, queue,
                 workVars>>

ReceiveUnsupported ==
  /\ Receive("unsupported")
  /\ unsupported' = unsupported + 1
  /\ main' = "fill"
  /\ UNCHANGED <<producer_done, timed_out, iterations, outcome, offered, level, deadline, queue,
                 workVars>>

(* One failed worker ends the exploration, whatever the others are doing.  *)
ReceiveFailed ==
  /\ Receive("failed")
  /\ main' = "fail"
  /\ UNCHANGED <<producer_done, timed_out, iterations, unsupported, outcome, offered,
                 level, deadline, queue, workVars>>

EndLoop ==
  /\ main = "fill" /\ producer_done /\ in_flight = 0
  /\ main' = "join"
  /\ UNCHANGED <<producer_done, timed_out, in_flight, iterations, unsupported, outcome,
                 offered, level, deadline, queue, read, workVars>>

AllGone == \A w \in Workers : worker[w] = "gone"

(* aggregate_unsupported_reason, explore_deadline_crossed and              *)
(* classify_stop_reason, in this order.                                    *)
FinalOutcome ==
  IF unsupported > 0 /\ iterations = 0 THEN "unsupported"
  ELSE IF timed_out \/ deadline THEN "timeout"
  ELSE IF iterations + unsupported >= Budget THEN "budget"
  ELSE "exhausted"

(* Slip: the worker handles are dropped instead of awaited.                *)
FinishDetached ==
  /\ main = "join"
  /\ main' = "returned"
  /\ timed_out' = (timed_out \/ deadline)
  /\ outcome' = FinalOutcome
  /\ UNCHANGED <<producer_done, in_flight, iterations, unsupported, offered, level, deadline,
                 queue, read, workVars>>

Finish ==
  /\ main = "join" /\ AllGone
  /\ main' = "returned"
  /\ timed_out' = (timed_out \/ deadline)
  /\ outcome' = FinalOutcome
  /\ UNCHANGED <<producer_done, in_flight, iterations, unsupported, offered, level, deadline,
                 queue, read, workVars>>

FinishFailed ==
  /\ main = "fail" /\ AllGone
  /\ main' = "returned"
  /\ outcome' = "failed"
  /\ UNCHANGED <<producer_done, timed_out, in_flight, iterations, unsupported, offered,
                 level, deadline, queue, read, workVars>>

DeadlinePasses ==
  /\ HasTimeout /\ ~deadline
  /\ deadline' = TRUE
  /\ UNCHANGED <<mainVars, level, queue, read, workVars>>

-----------------------------------------------------------------------------
(* A worker.                                                               *)

(* result_tx.send, which fails once the producer has returned.             *)
Deliver(kind, isJob) ==
  results' = IF main = "returned" THEN results
             ELSE Append(results, [kind |-> kind, job |-> isJob])

WorkerMoves(w, from, to) ==
  /\ worker[w] = from
  /\ worker' = [worker EXCEPT ![w] = to]

(* spawn, instrument, the function's setup and prepare (whose failure is   *)
(* ignored).                                                               *)
Start(w) ==
  /\ WorkerMoves(w, "start", "idle")
  /\ UNCHANGED <<mainVars, level, deadline, queue, read, results>>

(* Every failure ends run_observer_worker_inner, and the frontend with it. *)
StartFails(w) ==
  /\ WorkerMoves(w, "start", "gone")
  /\ Deliver("failed", FALSE)
  /\ UNCHANGED <<mainVars, level, deadline, queue, read>>

TakeJob(w) ==
  /\ queue > 0
  /\ WorkerMoves(w, "idle", IF level = "execution" THEN "job" ELSE "execute")
  /\ queue' = queue - 1
  /\ UNCHANGED <<mainVars, level, deadline, read, results>>

SetUp(w) ==
  /\ WorkerMoves(w, "job", "execute")
  /\ UNCHANGED <<mainVars, level, deadline, queue, read, results>>

(* A setup, an execution or a teardown that fails with the job in hand.    *)
JobFails(w) ==
  /\ worker[w] \in Busy
  /\ worker' = [worker EXCEPT ![w] = "gone"]
  /\ Deliver("failed", TRUE)
  /\ UNCHANGED <<mainVars, level, deadline, queue, read>>

(* After a result the worker waits for the next job, or leaves the loop    *)
(* when nobody reads results any more.                                     *)
NextStop == IF main = "returned" THEN "ending" ELSE "idle"

(* Slip: a job that is not supported is not reported.                      *)
UnsupportedUnreported(w) ==
  /\ WorkerMoves(w, "execute", "idle")
  /\ UNCHANGED <<mainVars, level, deadline, queue, read, results>>

(* A response or a thrown error that says not_supported: `continue`, past  *)
(* the execution's teardown.                                               *)
ExecuteUnsupported(w) ==
  /\ WorkerMoves(w, "execute", NextStop)
  /\ Deliver("unsupported", TRUE)
  /\ UNCHANGED <<mainVars, level, deadline, queue, read>>

ExecuteWithTeardown(w) ==
  /\ level = "execution"
  /\ WorkerMoves(w, "execute", "teardown")
  /\ UNCHANGED <<mainVars, level, deadline, queue, read, results>>

ExecuteObserved(w) ==
  /\ level # "execution"
  /\ WorkerMoves(w, "execute", NextStop)
  /\ Deliver("observed", TRUE)
  /\ UNCHANGED <<mainVars, level, deadline, queue, read>>

TearDown(w) ==
  /\ WorkerMoves(w, "teardown", NextStop)
  /\ Deliver("observed", TRUE)
  /\ UNCHANGED <<mainVars, level, deadline, queue, read>>

(* recv returns None only when the channel is closed and empty.            *)
NoMoreJobs(w) ==
  /\ JobsClosed /\ queue = 0
  /\ WorkerMoves(w, "idle", "ending")
  /\ UNCHANGED <<mainVars, level, deadline, queue, read, results>>

(* The function's teardown and the frontend's shutdown.                    *)
ShutDown(w) ==
  /\ WorkerMoves(w, "ending", "gone")
  /\ UNCHANGED <<mainVars, level, deadline, queue, read, results>>

ShutDownFails(w) ==
  /\ WorkerMoves(w, "ending", "gone")
  /\ Deliver("failed", FALSE)
  /\ UNCHANGED <<mainVars, level, deadline, queue, read>>

-----------------------------------------------------------------------------
Producer ==
  \/ StopAtBudget \/ StopAtDeadline \/ Generate
  \/ NoCandidate \/ PlanFails \/ DropDuplicate \/ NewCandidate
  \/ Send \/ AwaitResult
  \/ ReceiveObserved \/ ReceiveUnsupported \/ ReceiveFailed
  \/ EndLoop \/ Finish \/ FinishFailed

Observer(w) ==
  \/ Start(w) \/ StartFails(w)
  \/ TakeJob(w) \/ SetUp(w) \/ JobFails(w)
  \/ ExecuteUnsupported(w) \/ ExecuteWithTeardown(w) \/ ExecuteObserved(w)
  \/ TearDown(w) \/ NoMoreJobs(w) \/ ShutDown(w) \/ ShutDownFails(w)

(* Returned, and every worker gone.                                        *)
Done == main = "returned" /\ AllGone /\ UNCHANGED vars

Next ==
  \/ Producer
  \/ DeadlinePasses
  \/ \E w \in Workers : Observer(w)
  \/ Done

(* Every await of a worker ends: each request to its frontend has a        *)
(* timeout.  Time passes.                                                  *)
Spec ==
  /\ Init /\ [][Next]_vars
  /\ WF_vars(Producer)
  /\ WF_vars(DeadlinePasses)
  /\ \A w \in Workers : WF_vars(Observer(w))

-----------------------------------------------------------------------------
BusyWorkers == {w \in Workers : worker[w] \in Busy}
JobResults == {i \in DOMAIN results : results[i].job}
Unread == {i \in JobResults : i > read}

(* Every candidate sent is queued, with one worker, or answered by one     *)
(* unread message: the producer waits for exactly the results still to     *)
(* come (in_flight, decremented before the message is looked at).          *)
InFlightExact ==
  main \notin {"fail", "returned"} =>
    in_flight = queue + Cardinality(BusyWorkers) + Cardinality(Unread)

(* No more candidates reach a worker than the iteration budget allows,     *)
(* not even those the workers drain after a failure.                       *)
BudgetKept == Cardinality(BusyWorkers) + Cardinality(JobResults) <= Budget

(* A producer that waits for a result has one to wait for: "observer pool  *)
(* stopped before completing jobs" is never returned.                      *)
NeverSilent ==
  main = "receive" => read < Len(results) \/ ~AllGone

(* Whatever a normal or a failed return leaves behind, it is no worker, no *)
(* queued job and, unless a worker failed, no unread result.               *)
NothingLeftBehind ==
  outcome \notin {"none", "plan"} =>
    /\ AllGone
    /\ outcome # "failed" => queue = 0 /\ Unread = {}

Messages(kind) == {i \in DOMAIN results : results[i].kind = kind}

(* What a call that ends without a failure reports is what its workers     *)
(* saw: no result is left out of the counts, a budget stop has used the    *)
(* budget to the last iteration and not one more, a timeout had passed,    *)
(* and a function is unsupported only if no execution of it was observed.  *)
StopReasonTrue ==
  outcome \in {"timeout", "budget", "exhausted", "unsupported"} =>
    /\ iterations = Cardinality(Messages("observed"))
    /\ unsupported = Cardinality(Messages("unsupported"))
    /\ outcome = "timeout" => deadline
    /\ outcome = "budget" => iterations + unsupported = Budget
    /\ outcome = "exhausted" => iterations + unsupported < Budget
    /\ outcome = "unsupported" => Messages("observed") = {}

(* Every call returns and no worker outlives it for ever, although a       *)
(* candidate may be a duplicate every time.                                *)
CallReturns == <>[](main = "returned" /\ AllGone)
=============================================================================
