------------------------- MODULE ObserverPoolProofs -------------------------
(***************************************************************************)
(* Proofs about ObserverPool for any number of workers, any capacity of    *)
(* the job channel and any budget.                                         *)
(***************************************************************************)
EXTENDS ObserverPool, FiniteSetTheorems, TLAPS

(* Adding to and taking from a finite set.                                 *)
LEMMA CardAdd ==
  ASSUME NEW S, IsFiniteSet(S), NEW x, x \notin S, NEW T, T = S \cup {x}
  PROVE  /\ IsFiniteSet(T)
         /\ Cardinality(S) \in Nat
         /\ Cardinality(T) = Cardinality(S) + 1
  BY FS_AddElement, FS_CardinalityType

LEMMA CardRemove ==
  ASSUME NEW S, IsFiniteSet(S), NEW x \in S, NEW T, T = S \ {x}
  PROVE  /\ IsFiniteSet(T)
         /\ Cardinality(S) \in Nat /\ Cardinality(T) \in Nat
         /\ Cardinality(S) = Cardinality(T) + 1
<1>1. IsFiniteSet(T) /\ Cardinality(T) = Cardinality(S) - 1
  BY FS_RemoveElement
<1>2. Cardinality(T) \in Nat /\ Cardinality(S) \in Nat
  BY <1>1, FS_CardinalityType
<1> QED BY <1>1, <1>2

(* Two names of one set.                                                   *)
LEMMA CardSame ==
  ASSUME NEW S, NEW T, T = S
  PROVE  Cardinality(T) = Cardinality(S)
  OBVIOUS

-----------------------------------------------------------------------------
(* The inductive invariant.                                                *)

UnreadOf(kind) == {i \in Messages(kind) : i > read}

Running == main \notin {"fail", "returned"}

(* A message of a job that was executed accounts for a job.                *)
KindsOK ==
  \A i \in DOMAIN results : results[i].kind # "failed" => results[i].job

(* What the producer knows where it is.                                    *)
WhereOK ==
  /\ main \in {"pick", "send"} => in_flight < PoolSize
  /\ main = "receive" => in_flight > 0
  /\ main = "join" => in_flight = 0
  /\ outcome = "none" <=> main # "returned"
  /\ timed_out => deadline

(* The jobs answered are those the producer has counted, and those still   *)
(* to be read.                                                             *)
Counted ==
  Running =>
    /\ Cardinality(JobResults) = iterations + unsupported + Cardinality(Unread)
    /\ Cardinality(Messages("observed"))
         = iterations + Cardinality(UnreadOf("observed"))
    /\ Cardinality(Messages("unsupported"))
         = unsupported + Cardinality(UnreadOf("unsupported"))

(* BudgetKept, with the queued jobs; with one to spare where one is added. *)
Spent ==
  /\ queue + Cardinality(BusyWorkers) + Cardinality(JobResults) <= Budget
  /\ main \in {"pick", "send"} =>
       queue + Cardinality(BusyWorkers) + Cardinality(JobResults) < Budget

(* As long as the producer loops, nobody leaves but by failing, and a      *)
(* failure is a message still to be read.                                  *)
FailureNoted ==
  main \in {"fill", "pick", "send", "receive"} =>
    \A w \in Workers :
      /\ worker[w] # "ending"
      /\ worker[w] = "gone" =>
           \E i \in DOMAIN results : i > read /\ results[i].kind = "failed"

IInv ==
  /\ TypeOK /\ KindsOK /\ WhereOK
  /\ InFlightExact /\ Counted /\ Spent /\ FailureNoted
  /\ NothingLeftBehind /\ StopReasonTrue

(* The sets the invariant counts.                                          *)
LEMMA SetsFinite ==
  ASSUME TypeOK
  PROVE  /\ IsFiniteSet(BusyWorkers) /\ Cardinality(BusyWorkers) \in Nat
         /\ IsFiniteSet(JobResults) /\ Cardinality(JobResults) \in Nat
         /\ IsFiniteSet(Unread) /\ Cardinality(Unread) \in Nat
         /\ \A k : /\ IsFiniteSet(Messages(k)) /\ Cardinality(Messages(k)) \in Nat
                   /\ IsFiniteSet(UnreadOf(k)) /\ Cardinality(UnreadOf(k)) \in Nat
         /\ PoolSize \in Nat \ {0}
<1>1. IsFiniteSet(DOMAIN results)
  <2>1. DOMAIN results = 1 .. Len(results) /\ Len(results) \in Nat
    BY DEF TypeOK
  <2> QED BY <2>1, FS_Interval
<1>2. BusyWorkers \subseteq Workers BY DEF BusyWorkers
<1>3. IsFiniteSet(BusyWorkers) BY <1>2, PoolAssumption, FS_Subset
<1>4. JobResults \subseteq DOMAIN results /\ Unread \subseteq DOMAIN results
  BY DEF JobResults, Unread
<1>5. IsFiniteSet(JobResults) /\ IsFiniteSet(Unread) BY <1>1, <1>4, FS_Subset
<1>6. ASSUME NEW k
      PROVE IsFiniteSet(Messages(k)) /\ IsFiniteSet(UnreadOf(k))
  <2>1. Messages(k) \subseteq DOMAIN results /\ UnreadOf(k) \subseteq DOMAIN results
    BY DEF Messages, UnreadOf
  <2> QED BY <2>1, <1>1, FS_Subset
<1>7. PoolSize \in Nat BY PoolAssumption, FS_CardinalityType DEF PoolSize
<1>8. PoolSize # 0 BY PoolAssumption, FS_EmptySet DEF PoolSize
<1> QED BY <1>3, <1>5, <1>6, <1>7, <1>8, FS_CardinalityType

-----------------------------------------------------------------------------
(* How the sets change.                                                    *)

LEMMA MessagesSame ==
  ASSUME UNCHANGED <<results, read>>
  PROVE  /\ JobResults' = JobResults /\ Unread' = Unread
         /\ \A k : Messages(k)' = Messages(k) /\ UnreadOf(k)' = UnreadOf(k)
  BY DEF JobResults, Unread, Messages, UnreadOf

LEMMA BusySame ==
  ASSUME UNCHANGED worker
  PROVE  BusyWorkers' = BusyWorkers
  BY DEF BusyWorkers

(* A message for a job is appended.                                        *)
LEMMA JobMessage ==
  ASSUME TypeOK, NEW k \in {"observed", "unsupported", "failed"},
         results' = Append(results, [kind |-> k, job |-> TRUE]), UNCHANGED read
  PROVE  /\ Cardinality(JobResults') = Cardinality(JobResults) + 1
         /\ Cardinality(Unread') = Cardinality(Unread) + 1
         /\ Cardinality(Messages(k)') = Cardinality(Messages(k)) + 1
         /\ Cardinality(UnreadOf(k)') = Cardinality(UnreadOf(k)) + 1
         /\ \A h : h # k => /\ Messages(h)' = Messages(h)
                            /\ UnreadOf(h)' = UnreadOf(h)
<1> DEFINE n == Len(results) + 1
<1>1. /\ results \in Seq(Message) /\ Len(results) \in Nat /\ read <= Len(results) /\ read \in Nat
      /\ DOMAIN results = 1 .. Len(results)
      /\ DOMAIN results' = 1 .. n
      /\ \A i \in DOMAIN results : results'[i] = results[i]
      /\ results'[n] = [kind |-> k, job |-> TRUE]
  BY DEF TypeOK, Message
<1> HIDE DEF n
<1>2. n = Len(results) + 1 BY DEF n
<1>3. n \notin DOMAIN results /\ n > read /\ DOMAIN results' = DOMAIN results \cup {n}
  BY <1>1, <1>2
<1>4. JobResults' = JobResults \cup {n} /\ n \notin JobResults
  BY <1>1, <1>3 DEF JobResults
<1>5. Unread' = Unread \cup {n} /\ n \notin Unread
  BY <1>1, <1>3, <1>4 DEF Unread
<1>6. Messages(k)' = Messages(k) \cup {n} /\ n \notin Messages(k)
  BY <1>1, <1>3 DEF Messages
<1>7. UnreadOf(k)' = UnreadOf(k) \cup {n} /\ n \notin UnreadOf(k)
  BY <1>1, <1>3, <1>6 DEF UnreadOf
<1>8. ASSUME NEW h, h # k
      PROVE  Messages(h)' = Messages(h) /\ UnreadOf(h)' = UnreadOf(h)
  <2>1. Messages(h)' = Messages(h) BY <1>1, <1>3, <1>8 DEF Messages
  <2> QED BY <2>1 DEF UnreadOf
<1>9. Cardinality(JobResults') = Cardinality(JobResults) + 1
  BY <1>4, SetsFinite, CardAdd
<1>10. Cardinality(Unread') = Cardinality(Unread) + 1
  BY <1>5, SetsFinite, CardAdd
<1>11. Cardinality(Messages(k)') = Cardinality(Messages(k)) + 1
  BY <1>6, SetsFinite, CardAdd
<1>12. Cardinality(UnreadOf(k)') = Cardinality(UnreadOf(k)) + 1
  BY <1>7, SetsFinite, CardAdd
<1> QED BY <1>8, <1>9, <1>10, <1>11, <1>12

(* A failure without a job is appended.                                    *)
LEMMA FailureMessage ==
  ASSUME TypeOK,
         results' = Append(results, [kind |-> "failed", job |-> FALSE]), UNCHANGED read
  PROVE  /\ JobResults' = JobResults /\ Unread' = Unread
         /\ \A h : h # "failed" => /\ Messages(h)' = Messages(h)
                                   /\ UnreadOf(h)' = UnreadOf(h)
<1> DEFINE n == Len(results) + 1
<1>1. /\ results \in Seq(Message) /\ Len(results) \in Nat
      /\ DOMAIN results = 1 .. Len(results)
      /\ DOMAIN results' = 1 .. n
      /\ \A i \in DOMAIN results : results'[i] = results[i]
      /\ results'[n] = [kind |-> "failed", job |-> FALSE]
  BY DEF TypeOK, Message
<1> HIDE DEF n
<1>2. n = Len(results) + 1 BY DEF n
<1>3. DOMAIN results' = DOMAIN results \cup {n} BY <1>1, <1>2
<1>4. JobResults' = JobResults BY <1>1, <1>3 DEF JobResults
<1>5. Unread' = Unread BY <1>4 DEF Unread
<1>6. ASSUME NEW h, h # "failed"
      PROVE  Messages(h)' = Messages(h) /\ UnreadOf(h)' = UnreadOf(h)
  <2>1. Messages(h)' = Messages(h) BY <1>1, <1>3, <1>6 DEF Messages
  <2> QED BY <2>1 DEF UnreadOf
<1> QED BY <1>4, <1>5, <1>6

(* A message for a job is read.                                            *)
LEMMA JobRead ==
  ASSUME TypeOK, KindsOK, NEW k, k # "failed",
         read < Len(results), results[read + 1].kind = k,
         read' = read + 1, UNCHANGED results
  PROVE  /\ JobResults' = JobResults
         /\ Cardinality(Unread) = Cardinality(Unread') + 1
         /\ \A h : Messages(h)' = Messages(h)
         /\ Cardinality(UnreadOf(k)) = Cardinality(UnreadOf(k)') + 1
         /\ \A h : h # k => UnreadOf(h)' = UnreadOf(h)
         /\ Cardinality(Unread') \in Nat /\ Cardinality(UnreadOf(k)') \in Nat
<1> DEFINE n == read + 1
<1>1. /\ Len(results) \in Nat /\ read \in Nat /\ DOMAIN results = 1 .. Len(results)
      /\ n \in DOMAIN results
  BY DEF TypeOK
<1> HIDE DEF n
<1>2. n = read + 1 BY DEF n
<1>3. results[n].job /\ results[n].kind = k BY <1>1, <1>2 DEF KindsOK
<1>4. JobResults' = JobResults BY DEF JobResults
<1>5. Unread' = Unread \ {n} /\ n \in Unread
  <2>1. \A i \in JobResults : i > read' <=> i > read /\ i # n
    BY <1>1, <1>2 DEF JobResults
  <2> QED BY <2>1, <1>1, <1>2, <1>3, <1>4 DEF Unread, JobResults
<1>6. ASSUME NEW h PROVE Messages(h)' = Messages(h) BY DEF Messages
<1>7. ASSUME NEW h PROVE \A i \in Messages(h) : i > read' <=> i > read /\ i # n
  BY <1>1, <1>2 DEF Messages
<1>8. UnreadOf(k)' = UnreadOf(k) \ {n} /\ n \in UnreadOf(k)
  BY <1>1, <1>2, <1>3, <1>6, <1>7 DEF UnreadOf, Messages
<1>9. ASSUME NEW h, h # k PROVE UnreadOf(h)' = UnreadOf(h)
  <2>1. n \notin Messages(h) BY <1>3, <1>9 DEF Messages
  <2> QED BY <2>1, <1>6, <1>7 DEF UnreadOf
<1>10. Cardinality(Unread) = Cardinality(Unread') + 1 /\ Cardinality(Unread') \in Nat
  BY <1>5, SetsFinite, CardRemove
<1>11. /\ Cardinality(UnreadOf(k)) = Cardinality(UnreadOf(k)') + 1
       /\ Cardinality(UnreadOf(k)') \in Nat
  BY <1>8, SetsFinite, CardRemove
<1> QED BY <1>4, <1>6, <1>9, <1>10, <1>11

(* A worker takes up a job, or is done with it, or neither.                *)
LEMMA BusyAdds ==
  ASSUME TypeOK, NEW w \in Workers, NEW to \in Busy, worker[w] \notin Busy,
         worker' = [worker EXCEPT ![w] = to]
  PROVE  Cardinality(BusyWorkers') = Cardinality(BusyWorkers) + 1
<1>1. BusyWorkers' = BusyWorkers \cup {w} /\ w \notin BusyWorkers
  BY DEF BusyWorkers, TypeOK
<1> QED BY <1>1, SetsFinite, CardAdd

LEMMA BusyLeaves ==
  ASSUME TypeOK, NEW w \in Workers, NEW to, to \notin Busy, worker[w] \in Busy,
         worker' = [worker EXCEPT ![w] = to]
  PROVE  /\ Cardinality(BusyWorkers) = Cardinality(BusyWorkers') + 1
         /\ Cardinality(BusyWorkers') \in Nat
<1>1. BusyWorkers' = BusyWorkers \ {w} /\ w \in BusyWorkers
  BY DEF BusyWorkers, TypeOK
<1> QED BY <1>1, SetsFinite, CardRemove

LEMMA BusyStays ==
  ASSUME TypeOK, NEW w \in Workers, NEW to, to \in Busy <=> worker[w] \in Busy,
         worker' = [worker EXCEPT ![w] = to]
  PROVE  BusyWorkers' = BusyWorkers
  BY DEF BusyWorkers, TypeOK

-----------------------------------------------------------------------------
(* Steps of the producer that leave the channels and the workers alone.    *)
LEMMA SetsSame ==
  ASSUME UNCHANGED <<results, read, worker>>
  PROVE  /\ BusyWorkers' = BusyWorkers /\ JobResults' = JobResults /\ Unread' = Unread
         /\ Messages("observed")' = Messages("observed")
         /\ UnreadOf("observed")' = UnreadOf("observed")
         /\ Messages("unsupported")' = Messages("unsupported")
         /\ UnreadOf("unsupported")' = UnreadOf("unsupported")
         /\ AllGone' = AllGone
<1>1. AllGone' = AllGone BY DEF AllGone
<1> QED BY <1>1, MessagesSame, BusySame

(* What such a step must still show, when it counts nothing either.        *)
LEMMA QuietStep ==
  ASSUME IInv, UNCHANGED <<results, read, worker, queue, in_flight, iterations, unsupported, level>>,
         TypeOK', WhereOK', main # "returned", main' # "returned", Running,
         main' \in {"pick", "send"} => main \in {"pick", "send"} \/ ~BudgetSpent,
         main' \in {"fill", "pick", "send", "receive"} =>
           main \in {"fill", "pick", "send", "receive"}
  PROVE  IInv'
<1> USE SetsSame
<1>1. KindsOK' BY DEF IInv, KindsOK
<1>2. InFlightExact' BY DEF IInv, InFlightExact, Running
<1>3. Counted' BY DEF IInv, Counted, Running
<1>4. Spent'
  <2>1. CASE main' \in {"pick", "send"} /\ main \notin {"pick", "send"}
    <3>1. /\ in_flight = queue + Cardinality(BusyWorkers) + Cardinality(Unread)
          /\ Cardinality(JobResults) = iterations + unsupported + Cardinality(Unread)
          /\ iterations + in_flight + unsupported < Budget
          /\ queue \in Nat /\ in_flight \in Nat /\ iterations \in Nat /\ unsupported \in Nat
      BY <2>1, PoolAssumption, SetsFinite
      DEF IInv, InFlightExact, Counted, Running, BudgetSpent, TypeOK
    <3> QED BY <3>1, SetsFinite, PoolAssumption DEF IInv, Spent
  <2>2. CASE ~(main' \in {"pick", "send"} /\ main \notin {"pick", "send"})
    BY <2>2 DEF IInv, Spent
  <2> QED BY <2>1, <2>2
<1>5. FailureNoted' BY DEF IInv, FailureNoted
<1>6. NothingLeftBehind' /\ StopReasonTrue'
  <2>1. outcome' = "none" BY DEF WhereOK
  <2> QED BY <2>1 DEF NothingLeftBehind, StopReasonTrue
<1> QED BY <1>1, <1>2, <1>3, <1>4, <1>5, <1>6 DEF IInv

(* The steps of the producer by themselves.                                *)
LEMMA QuietActions ==
  ASSUME IInv,
         \/ StopAtBudget \/ StopAtDeadline \/ Generate \/ NoCandidate
         \/ DropDuplicate \/ NewCandidate \/ AwaitResult \/ EndLoop
  PROVE  IInv'
<1> USE SetsFinite DEF IInv, TypeOK, WhereOK, MainPhases, Returns, Running, Filling, mainVars, workVars
<1>1. CASE StopAtBudget BY <1>1, QuietStep DEF StopAtBudget
<1>2. CASE StopAtDeadline BY <1>2, QuietStep DEF StopAtDeadline
<1>3. CASE Generate BY <1>3, QuietStep DEF Generate
<1>4. CASE NoCandidate BY <1>4, QuietStep DEF NoCandidate
<1>5. CASE DropDuplicate BY <1>5, QuietStep DEF DropDuplicate
<1>6. CASE NewCandidate BY <1>6, QuietStep DEF NewCandidate
<1>7. CASE AwaitResult BY <1>7, QuietStep DEF AwaitResult
<1>8. CASE EndLoop BY <1>8, QuietStep DEF EndLoop
<1> QED BY <1>1, <1>2, <1>3, <1>4, <1>5, <1>6, <1>7, <1>8

(* The `?` that leaves the workers alone.                                  *)
LEMMA PlanFailsStep == ASSUME IInv, PlanFails PROVE IInv'
<1> USE SetsSame DEF PlanFails, workVars
<1>1. TypeOK' BY DEF IInv, TypeOK, MainPhases, Returns
<1>2. KindsOK' BY DEF IInv, KindsOK
<1>3. WhereOK' BY DEF IInv, WhereOK
<1>4. InFlightExact' /\ Counted' /\ FailureNoted' BY DEF InFlightExact, Counted, Running, FailureNoted
<1>5. Spent' BY DEF IInv, Spent
<1>6. NothingLeftBehind' /\ StopReasonTrue' BY DEF NothingLeftBehind, StopReasonTrue
<1> QED BY <1>1, <1>2, <1>3, <1>4, <1>5, <1>6 DEF IInv

(* The clock moves nothing that is counted.                                *)
LEMMA DeadlineStep == ASSUME IInv, DeadlinePasses PROVE IInv'
<1> USE SetsSame DEF DeadlinePasses, mainVars, workVars
<1>1. TypeOK' BY DEF IInv, TypeOK
<1>2. KindsOK' /\ WhereOK' BY DEF IInv, KindsOK, WhereOK
<1>3. InFlightExact' BY DEF IInv, InFlightExact
<1>4. Counted' BY DEF IInv, Counted, Running
<1>5. Spent' BY DEF IInv, Spent
<1>6. FailureNoted' BY DEF IInv, FailureNoted
<1>7. NothingLeftBehind' BY DEF IInv, NothingLeftBehind
<1>8. StopReasonTrue' BY DEF IInv, StopReasonTrue
<1> QED BY <1>1, <1>2, <1>3, <1>4, <1>5, <1>6, <1>7, <1>8 DEF IInv

(* A step that changes nothing.                                            *)
LEMMA StutterStep == ASSUME IInv, UNCHANGED vars PROVE IInv'
<1> USE SetsSame DEF vars, mainVars, workVars
<1>1. TypeOK' BY DEF IInv, TypeOK
<1>2. KindsOK' /\ WhereOK' BY DEF IInv, KindsOK, WhereOK
<1>3. InFlightExact' BY DEF IInv, InFlightExact
<1>4. Counted' BY DEF IInv, Counted, Running
<1>5. Spent' BY DEF IInv, Spent
<1>6. FailureNoted' BY DEF IInv, FailureNoted
<1>7. NothingLeftBehind' BY DEF IInv, NothingLeftBehind
<1>8. StopReasonTrue' BY DEF IInv, StopReasonTrue
<1> QED BY <1>1, <1>2, <1>3, <1>4, <1>5, <1>6, <1>7, <1>8 DEF IInv

(* With nothing in flight every job has been answered and every answer     *)
(* counted.                                                                *)
LEMMA NothingPending ==
  ASSUME IInv, Running, in_flight = 0
  PROVE  /\ queue = 0 /\ Unread = {}
         /\ iterations = Cardinality(Messages("observed"))
         /\ unsupported = Cardinality(Messages("unsupported"))
         /\ iterations + unsupported <= Budget
<1>1. TypeOK BY DEF IInv
<1>2. /\ queue \in Nat /\ iterations \in Nat /\ unsupported \in Nat
      /\ Cardinality(BusyWorkers) \in Nat /\ Cardinality(Unread) \in Nat
      /\ Cardinality(JobResults) \in Nat
  BY <1>1, SetsFinite DEF TypeOK
<1>3. 0 = queue + Cardinality(BusyWorkers) + Cardinality(Unread)
  BY DEF IInv, InFlightExact, Running
<1>4. queue = 0 /\ Cardinality(BusyWorkers) = 0 /\ Cardinality(Unread) = 0 BY <1>2, <1>3
<1>5. Unread = {} BY <1>1, <1>4, SetsFinite, FS_EmptySet
<1>6. ASSUME NEW k, k # "failed" PROVE UnreadOf(k) = {}
  BY <1>5, <1>6 DEF IInv, KindsOK, UnreadOf, Unread, Messages, JobResults
<1>7. UnreadOf("observed") = {} /\ UnreadOf("unsupported") = {} BY <1>6
<1>8. Cardinality(UnreadOf("observed")) = 0 /\ Cardinality(UnreadOf("unsupported")) = 0
  BY <1>7, FS_EmptySet
<1>9. /\ iterations = Cardinality(Messages("observed"))
      /\ unsupported = Cardinality(Messages("unsupported"))
  BY <1>2, <1>8 DEF IInv, Counted
<1>10. iterations + unsupported <= Budget
  BY <1>2, <1>4, PoolAssumption DEF IInv, Counted, Spent
<1> QED BY <1>4, <1>5, <1>9, <1>10

(* The normal return: everything has been read and counted.                *)
LEMMA FinishStep == ASSUME IInv, Finish PROVE IInv'
<1> USE SetsSame DEF Finish, workVars
<1>1. FinalOutcome \in {"timeout", "budget", "exhausted", "unsupported"} BY DEF FinalOutcome
<1>2. TypeOK' BY <1>1 DEF IInv, TypeOK, MainPhases, Returns
<1>3. KindsOK' BY DEF IInv, KindsOK
<1>4. WhereOK' BY <1>1 DEF IInv, WhereOK
<1>5. InFlightExact' /\ Counted' /\ FailureNoted' BY DEF InFlightExact, Counted, Running, FailureNoted
<1>6. Spent' BY DEF IInv, Spent
<1>7. /\ queue = 0 /\ Unread = {}
      /\ iterations = Cardinality(Messages("observed"))
      /\ unsupported = Cardinality(Messages("unsupported"))
      /\ iterations + unsupported <= Budget
  BY NothingPending DEF IInv, WhereOK, Running
<1>8. NothingLeftBehind' BY <1>7 DEF NothingLeftBehind
<1>9. iterations \in Nat /\ unsupported \in Nat /\ Budget \in Nat
  BY PoolAssumption DEF IInv, TypeOK
<1>10. FinalOutcome = "timeout" => deadline BY DEF IInv, WhereOK, FinalOutcome
<1>11. /\ FinalOutcome = "budget" => iterations + unsupported = Budget
       /\ FinalOutcome = "exhausted" => iterations + unsupported < Budget
       /\ FinalOutcome = "unsupported" => iterations = 0
  BY <1>7, <1>9 DEF FinalOutcome
<1>12. FinalOutcome = "unsupported" => Messages("observed") = {}
  BY <1>7, <1>11, SetsFinite, FS_EmptySet DEF IInv
<1>13. StopReasonTrue'
  <2>1. outcome' = FinalOutcome OBVIOUS
  <2>2. iterations' = iterations /\ unsupported' = unsupported /\ deadline' = deadline OBVIOUS
  <2> QED BY <1>7, <1>10, <1>11, <1>12, <2>1, <2>2 DEF StopReasonTrue
<1> QED BY <1>2, <1>3, <1>4, <1>5, <1>6, <1>8, <1>13 DEF IInv

(* The return after a failure waits for every worker, and for nothing else. *)
LEMMA FinishFailedStep == ASSUME IInv, FinishFailed PROVE IInv'
<1> USE SetsSame DEF FinishFailed, workVars
<1>1. TypeOK' BY DEF IInv, TypeOK, MainPhases, Returns
<1>2. KindsOK' BY DEF IInv, KindsOK
<1>3. WhereOK' BY DEF IInv, WhereOK
<1>4. InFlightExact' /\ Counted' /\ FailureNoted' BY DEF InFlightExact, Counted, Running, FailureNoted
<1>5. Spent' BY DEF IInv, Spent
<1>6. NothingLeftBehind' BY DEF NothingLeftBehind
<1>7. StopReasonTrue' BY DEF StopReasonTrue
<1> QED BY <1>1, <1>2, <1>3, <1>4, <1>5, <1>6, <1>7 DEF IInv

(* One candidate more in the queue, one more in flight.                    *)
LEMMA SendStep == ASSUME IInv, Send PROVE IInv'
<1> USE SetsSame DEF Send, workVars
<1>0. /\ queue \in Nat /\ in_flight \in Nat /\ in_flight < PoolSize /\ PoolSize \in Nat
      /\ Cardinality(BusyWorkers) \in Nat /\ Cardinality(Unread) \in Nat
      /\ Cardinality(JobResults) \in Nat /\ Budget \in Nat /\ Capacity \in Nat
  BY SetsFinite, PoolAssumption DEF IInv, TypeOK, WhereOK
<1>1. TypeOK' BY <1>0 DEF IInv, TypeOK, MainPhases
<1>2. KindsOK' BY DEF IInv, KindsOK
<1>3. WhereOK' BY <1>0 DEF IInv, WhereOK
<1>4. InFlightExact'
  <2>1. in_flight = queue + Cardinality(BusyWorkers) + Cardinality(Unread)
    BY DEF IInv, InFlightExact
  <2> QED BY <1>0, <2>1 DEF InFlightExact
<1>5. Counted' BY DEF IInv, Counted, Running
<1>6. Spent' BY <1>0 DEF IInv, Spent
<1>7. FailureNoted' BY DEF IInv, FailureNoted
<1>8. NothingLeftBehind' /\ StopReasonTrue'
  <2>1. outcome' = "none" BY DEF IInv, WhereOK
  <2> QED BY <2>1 DEF NothingLeftBehind, StopReasonTrue
<1> QED BY <1>1, <1>2, <1>3, <1>4, <1>5, <1>6, <1>7, <1>8 DEF IInv

(* One message read.  ReceiveFailed may have read one without a job, which *)
(* matters no more: the producer has stopped counting.                     *)
LEMMA ReceiveFailedStep == ASSUME IInv, ReceiveFailed PROVE IInv'
<1> USE DEF ReceiveFailed, Receive, workVars
<1>0. /\ in_flight \in Nat /\ in_flight > 0 /\ read \in Nat /\ Len(results) \in Nat /\ PoolSize \in Nat
      /\ in_flight <= PoolSize
  BY SetsFinite DEF IInv, TypeOK, WhereOK
<1>1. TypeOK' BY <1>0 DEF IInv, TypeOK, MainPhases
<1>2. KindsOK' BY DEF IInv, KindsOK
<1>3. WhereOK' BY DEF IInv, WhereOK
<1>4. InFlightExact' /\ Counted' /\ FailureNoted' BY DEF InFlightExact, Counted, Running, FailureNoted
<1>5. Spent'
  <2>1. JobResults' = JobResults BY DEF JobResults
  <2>2. BusyWorkers' = BusyWorkers BY DEF BusyWorkers
  <2> QED BY <2>1, <2>2 DEF IInv, Spent
<1>6. NothingLeftBehind' /\ StopReasonTrue'
  <2>1. outcome' = "none" BY DEF IInv, WhereOK
  <2> QED BY <2>1 DEF NothingLeftBehind, StopReasonTrue
<1> QED BY <1>1, <1>2, <1>3, <1>4, <1>5, <1>6 DEF IInv

(* A result read and counted.                                              *)
LEMMA ReceiveJobStep ==
  ASSUME IInv, ReceiveObserved \/ ReceiveUnsupported
  PROVE  IInv'
<1>a. PICK h \in {"observed", "unsupported"} :
        /\ Receive(h) /\ main' = "fill"
        /\ iterations' = IF h = "observed" THEN iterations + 1 ELSE iterations
        /\ unsupported' = IF h = "observed" THEN unsupported ELSE unsupported + 1
        /\ UNCHANGED <<producer_done, timed_out, outcome, offered, level, deadline, queue,
                       results, worker>>
  BY DEF ReceiveObserved, ReceiveUnsupported, workVars
<1>0. /\ in_flight \in Nat /\ in_flight > 0 /\ read \in Nat /\ Len(results) \in Nat /\ PoolSize \in Nat
      /\ in_flight <= PoolSize /\ queue \in Nat /\ iterations \in Nat /\ unsupported \in Nat
      /\ Cardinality(BusyWorkers) \in Nat /\ Cardinality(Unread) \in Nat
      /\ Cardinality(JobResults) \in Nat
      /\ Cardinality(UnreadOf("observed")) \in Nat /\ Cardinality(UnreadOf("unsupported")) \in Nat
  BY <1>a, SetsFinite DEF IInv, TypeOK, WhereOK, Receive
<1>1. TypeOK' BY <1>a, <1>0 DEF IInv, TypeOK, MainPhases, Receive
<1>2. KindsOK' BY <1>a DEF IInv, KindsOK
<1>3. WhereOK' BY <1>a DEF IInv, WhereOK, Receive
<1>4. /\ JobResults' = JobResults
      /\ Cardinality(Unread) = Cardinality(Unread') + 1
      /\ Messages("observed")' = Messages("observed")
      /\ Messages("unsupported")' = Messages("unsupported")
      /\ Cardinality(UnreadOf(h)) = Cardinality(UnreadOf(h)') + 1
      /\ \A g : g # h => UnreadOf(g)' = UnreadOf(g)
      /\ Cardinality(Unread') \in Nat /\ Cardinality(UnreadOf(h)') \in Nat
  BY <1>a, JobRead DEF IInv, Receive
<1>5. BusyWorkers' = BusyWorkers BY <1>a DEF BusyWorkers
<1>7. /\ in_flight = queue + Cardinality(BusyWorkers) + Cardinality(Unread)
      /\ Cardinality(JobResults) = iterations + unsupported + Cardinality(Unread)
      /\ Cardinality(Messages("observed")) = iterations + Cardinality(UnreadOf("observed"))
      /\ Cardinality(Messages("unsupported")) = unsupported + Cardinality(UnreadOf("unsupported"))
  BY <1>a DEF IInv, InFlightExact, Counted, Running, Receive
<1>8. InFlightExact'
  <2>1. in_flight' = in_flight - 1 /\ queue' = queue BY <1>a DEF Receive
  <2>2. Cardinality(BusyWorkers') = Cardinality(BusyWorkers) BY <1>5
  <2>3. Cardinality(Unread) = Cardinality(Unread') + 1 /\ Cardinality(Unread') \in Nat
    BY <1>4
  <2>4. in_flight = queue + Cardinality(BusyWorkers) + Cardinality(Unread) BY <1>7
  <2>5. in_flight' = queue' + Cardinality(BusyWorkers') + Cardinality(Unread')
    BY <1>0, <2>1, <2>2, <2>3, <2>4
  <2> QED BY <2>5 DEF InFlightExact
<1>9. Cardinality(JobResults') = iterations' + unsupported' + Cardinality(Unread')
  BY <1>a, <1>0, <1>4, <1>7
<1>10. ASSUME h = "observed" PROVE Counted'
  <2>1. UnreadOf("unsupported")' = UnreadOf("unsupported") BY <1>4, <1>10
  <2>2. Cardinality(UnreadOf("observed")) = Cardinality(UnreadOf("observed")') + 1 BY <1>4, <1>10
  <2>3. Cardinality(Messages("observed")') = iterations' + Cardinality(UnreadOf("observed")')
    BY <1>a, <1>0, <1>4, <1>7, <1>10, <2>2
  <2>4. Cardinality(Messages("unsupported")')
          = unsupported' + Cardinality(UnreadOf("unsupported")')
    BY <1>a, <1>4, <1>7, <1>10, <2>1
  <2> QED BY <1>9, <2>3, <2>4 DEF Counted
<1>11. ASSUME h = "unsupported" PROVE Counted'
  <2>1. UnreadOf("observed")' = UnreadOf("observed") BY <1>4, <1>11
  <2>2. Cardinality(UnreadOf("unsupported")) = Cardinality(UnreadOf("unsupported")') + 1
    BY <1>4, <1>11
  <2>3. Cardinality(Messages("observed")') = iterations' + Cardinality(UnreadOf("observed")')
    BY <1>a, <1>4, <1>7, <1>11, <2>1
  <2>4. Cardinality(Messages("unsupported")')
          = unsupported' + Cardinality(UnreadOf("unsupported")')
    BY <1>a, <1>0, <1>4, <1>7, <1>11, <2>2
  <2> QED BY <1>9, <2>3, <2>4 DEF Counted
<1>12. Spent' BY <1>a, <1>4, <1>5 DEF IInv, Spent
<1>13. FailureNoted'
  <2> SUFFICES ASSUME NEW w \in Workers
               PROVE  /\ worker'[w] # "ending"
                      /\ worker'[w] = "gone" =>
                           \E i \in DOMAIN results' : i > read' /\ results'[i].kind = "failed"
    BY DEF FailureNoted
  <2>1. /\ worker[w] # "ending"
        /\ worker[w] = "gone" =>
             \E i \in DOMAIN results : i > read /\ results[i].kind = "failed"
    BY <1>a DEF IInv, FailureNoted, Receive
  <2>2. ASSUME NEW i \in DOMAIN results, i > read, results[i].kind = "failed"
        PROVE  i > read'
    <3>1. i # read + 1 BY <1>a, <2>2 DEF Receive
    <3>2. i \in Nat BY <1>0 DEF IInv, TypeOK
    <3> QED BY <1>a, <1>0, <2>2, <3>1, <3>2 DEF Receive
  <2> QED BY <1>a, <2>1, <2>2
<1>14. NothingLeftBehind' /\ StopReasonTrue'
  <2>1. outcome' = "none" BY <1>a DEF IInv, WhereOK, Receive
  <2> QED BY <2>1 DEF NothingLeftBehind, StopReasonTrue
<1> QED BY <1>1, <1>2, <1>3, <1>8, <1>10, <1>11, <1>12, <1>13, <1>14 DEF IInv

-----------------------------------------------------------------------------
(* Steps of a worker.  A worker that is not gone has a call that has not   *)
(* reported yet, or one that returned over the plan.                       *)
LEMMA NotReported ==
  ASSUME IInv, NEW w \in Workers, worker[w] # "gone", UNCHANGED outcome
  PROVE  NothingLeftBehind' /\ StopReasonTrue'
<1>1. outcome \in {"none", "plan"} BY DEF IInv, NothingLeftBehind, AllGone
<1> QED BY <1>1 DEF NothingLeftBehind, StopReasonTrue

Looping == main \in {"fill", "pick", "send", "receive"}

(* A worker that moves without a message.                                  *)
LEMMA NotedSilently ==
  ASSUME IInv, NEW w \in Workers, NEW to, worker' = [worker EXCEPT ![w] = to],
         UNCHANGED <<main, read, results>>, Looping => to \notin {"ending", "gone"}
  PROVE  FailureNoted'
  BY DEF IInv, TypeOK, FailureNoted, Looping

(* One more message in the log.                                            *)
LEMMA Appended ==
  ASSUME TypeOK, NEW m \in Message, results' = Append(results, m)
  PROVE  /\ results' \in Seq(Message)
         /\ Len(results) \in Nat /\ Len(results') = Len(results) + 1
         /\ DOMAIN results \subseteq DOMAIN results'
         /\ Len(results) + 1 \in DOMAIN results'
         /\ \A i \in DOMAIN results' : i \in DOMAIN results \/ i = Len(results) + 1
         /\ \A i \in DOMAIN results : results'[i] = results[i]
         /\ results'[Len(results) + 1] = m
  BY DEF TypeOK

(* A worker that moves with a message.                                     *)
LEMMA NotedAppended ==
  ASSUME IInv, NEW w \in Workers, NEW to, worker' = [worker EXCEPT ![w] = to],
         UNCHANGED <<main, read>>, NEW m \in Message, results' = Append(results, m),
         Looping => to # "ending", to = "gone" => m.kind = "failed",
         m.kind # "failed" => m.job
  PROVE  FailureNoted' /\ KindsOK'
<1>1. TypeOK BY DEF IInv
<1> DEFINE n == Len(results) + 1
<1>2. /\ DOMAIN results \subseteq DOMAIN results' /\ n \in DOMAIN results'
      /\ \A i \in DOMAIN results' : i \in DOMAIN results \/ i = n
      /\ \A i \in DOMAIN results : results'[i] = results[i]
      /\ results'[n] = m
  BY <1>1, Appended
<1>3. n > read BY <1>1 DEF TypeOK
<1> HIDE DEF n
<1>4. KindsOK' BY <1>2 DEF IInv, KindsOK
<1>5. ASSUME Looping, NEW v \in Workers
      PROVE  /\ worker'[v] # "ending"
             /\ worker'[v] = "gone" =>
                  \E i \in DOMAIN results' : i > read /\ results'[i].kind = "failed"
  <2>1. /\ worker[v] # "ending"
        /\ worker[v] = "gone" =>
             \E i \in DOMAIN results : i > read /\ results[i].kind = "failed"
    BY <1>5 DEF IInv, FailureNoted, Looping
  <2>2. worker'[v] = IF v = w THEN to ELSE worker[v] BY <1>1 DEF TypeOK
  <2>3. CASE v = w BY <1>2, <1>3, <1>5, <2>2, <2>3
  <2>4. CASE v # w BY <1>2, <2>1, <2>2, <2>4
  <2> QED BY <2>3, <2>4
<1>6. FailureNoted' BY <1>5 DEF FailureNoted, Looping
<1> QED BY <1>4, <1>6

(* A move between jobs, or within one, that says nothing.                  *)
LEMMA SilentMove ==
  ASSUME IInv, NEW w \in Workers, NEW to \in WorkerPhases,
         worker[w] # "gone", to \in Busy <=> worker[w] \in Busy,
         worker' = [worker EXCEPT ![w] = to],
         UNCHANGED <<mainVars, level, deadline, queue, read, results>>,
         Looping => to \notin {"ending", "gone"}
  PROVE  IInv'
<1> USE DEF mainVars
<1>0. TypeOK BY DEF IInv
<1>1. TypeOK' BY DEF IInv, TypeOK
<1>2. KindsOK' /\ WhereOK' BY DEF IInv, KindsOK, WhereOK
<1>3. BusyWorkers' = BusyWorkers BY <1>0, BusyStays
<1>4. /\ JobResults' = JobResults /\ Unread' = Unread
      /\ Messages("observed")' = Messages("observed")
      /\ UnreadOf("observed")' = UnreadOf("observed")
      /\ Messages("unsupported")' = Messages("unsupported")
      /\ UnreadOf("unsupported")' = UnreadOf("unsupported")
  BY MessagesSame
<1>5. InFlightExact' BY <1>3, <1>4 DEF IInv, InFlightExact
<1>6. Counted' BY <1>4 DEF IInv, Counted, Running
<1>7. Spent' BY <1>3, <1>4 DEF IInv, Spent
<1>8. FailureNoted' BY NotedSilently
<1>9. NothingLeftBehind' /\ StopReasonTrue' BY NotReported
<1> QED BY <1>1, <1>2, <1>5, <1>6, <1>7, <1>8, <1>9 DEF IInv

(* A worker that fails with no job in hand.                                *)
LEMMA FailedMove ==
  ASSUME IInv, NEW w \in Workers, worker[w] \notin Busy, worker[w] # "gone",
         main # "returned",
         worker' = [worker EXCEPT ![w] = "gone"],
         results' = Append(results, [kind |-> "failed", job |-> FALSE]),
         UNCHANGED <<mainVars, level, deadline, queue, read>>
  PROVE  IInv'
<1> USE DEF mainVars
<1> DEFINE m == [kind |-> "failed", job |-> FALSE]
<1>0. TypeOK /\ m \in Message /\ m.kind = "failed" BY DEF IInv, Message
<1>1. TypeOK'
  <2>1. results' \in Seq(Message) /\ Len(results) \in Nat /\ Len(results') = Len(results) + 1
    BY <1>0, Appended
  <2> QED BY <1>0, <2>1 DEF TypeOK, WorkerPhases
<1>2. WhereOK' BY DEF IInv, WhereOK
<1>3. BusyWorkers' = BusyWorkers
  <2>1. "gone" \notin Busy BY DEF Busy
  <2> QED BY <1>0, <2>1, BusyStays
<1>4. /\ JobResults' = JobResults /\ Unread' = Unread
      /\ Messages("observed")' = Messages("observed")
      /\ UnreadOf("observed")' = UnreadOf("observed")
      /\ Messages("unsupported")' = Messages("unsupported")
      /\ UnreadOf("unsupported")' = UnreadOf("unsupported")
  BY <1>0, FailureMessage
<1>5. InFlightExact' BY <1>3, <1>4 DEF IInv, InFlightExact
<1>6. Counted' BY <1>4 DEF IInv, Counted, Running
<1>7. Spent' BY <1>3, <1>4 DEF IInv, Spent
<1>8. FailureNoted' /\ KindsOK'
  <2>1. results' = Append(results, m) OBVIOUS
  <2>2. "gone" # "ending" OBVIOUS
  <2> HIDE DEF m
  <2> QED BY <1>0, <2>1, <2>2, NotedAppended
<1>9. NothingLeftBehind' /\ StopReasonTrue' BY NotReported
<1> QED BY <1>1, <1>2, <1>5, <1>6, <1>7, <1>8, <1>9 DEF IInv

(* A worker takes a job from the queue.                                    *)
LEMMA TakeJobStep ==
  ASSUME IInv, NEW w \in Workers, TakeJob(w)
  PROVE  IInv'
<1> DEFINE to == IF level = "execution" THEN "job" ELSE "execute"
<1>0. /\ TypeOK /\ worker[w] = "idle" /\ worker' = [worker EXCEPT ![w] = to]
      /\ queue > 0 /\ queue' = queue - 1
      /\ to \in Busy /\ worker[w] \notin Busy /\ to \notin {"ending", "gone"} /\ to \in WorkerPhases
      /\ UNCHANGED <<main, producer_done, timed_out, in_flight, iterations, unsupported,
                     outcome, offered, level, deadline, read, results>>
  BY DEF IInv, TakeJob, WorkerMoves, Busy, WorkerPhases, mainVars
<1> HIDE DEF to
<1>a. /\ queue \in Nat /\ Cardinality(BusyWorkers) \in Nat /\ Cardinality(Unread) \in Nat
      /\ Cardinality(JobResults) \in Nat /\ Budget \in Nat /\ Capacity \in Nat
  BY <1>0, SetsFinite, PoolAssumption DEF TypeOK
<1>1. TypeOK' BY <1>0, <1>a DEF TypeOK
<1>2. KindsOK' /\ WhereOK' BY <1>0 DEF IInv, KindsOK, WhereOK
<1>3. Cardinality(BusyWorkers') = Cardinality(BusyWorkers) + 1 BY <1>0, BusyAdds
<1>4. /\ JobResults' = JobResults /\ Unread' = Unread
      /\ Messages("observed")' = Messages("observed")
      /\ UnreadOf("observed")' = UnreadOf("observed")
      /\ Messages("unsupported")' = Messages("unsupported")
      /\ UnreadOf("unsupported")' = UnreadOf("unsupported")
  BY <1>0, MessagesSame
<1>5. queue' + Cardinality(BusyWorkers') = queue + Cardinality(BusyWorkers)
  BY <1>0, <1>a, <1>3
<1>6. InFlightExact' BY <1>0, <1>4, <1>5 DEF IInv, InFlightExact
<1>7. Counted' BY <1>0, <1>4 DEF IInv, Counted, Running
<1>8. Spent' BY <1>0, <1>4, <1>5 DEF IInv, Spent
<1>9. FailureNoted' BY <1>0, NotedSilently
<1>10. NothingLeftBehind' /\ StopReasonTrue' BY <1>0, NotReported
<1> QED BY <1>1, <1>2, <1>6, <1>7, <1>8, <1>9, <1>10 DEF IInv

(* A worker is done with its job and says so.                              *)
LEMMA JobDone ==
  ASSUME IInv, NEW w \in Workers, NEW to \in WorkerPhases \ Busy, worker[w] \in Busy,
         main # "returned", NEW k \in {"observed", "unsupported", "failed"},
         worker' = [worker EXCEPT ![w] = to],
         results' = Append(results, [kind |-> k, job |-> TRUE]),
         UNCHANGED <<mainVars, level, deadline, queue, read>>,
         to # "ending", to = "gone" => k = "failed"
  PROVE  IInv'
<1> DEFINE m == [kind |-> k, job |-> TRUE]
<1>0. /\ TypeOK /\ m \in Message /\ m.kind = k /\ m.job /\ results' = Append(results, m)
      /\ worker[w] # "gone"
      /\ UNCHANGED <<main, producer_done, timed_out, in_flight, iterations, unsupported,
                     outcome, offered, level, deadline, queue, read>>
  BY DEF IInv, Message, Busy, mainVars
<1>a. /\ queue \in Nat /\ Cardinality(BusyWorkers) \in Nat /\ Cardinality(Unread) \in Nat
      /\ Cardinality(JobResults) \in Nat /\ Budget \in Nat
      /\ iterations \in Nat /\ unsupported \in Nat
      /\ Cardinality(UnreadOf("observed")) \in Nat /\ Cardinality(UnreadOf("unsupported")) \in Nat
      /\ Cardinality(Messages("observed")) \in Nat /\ Cardinality(Messages("unsupported")) \in Nat
  BY <1>0, SetsFinite, PoolAssumption DEF TypeOK
<1>1. TypeOK'
  <2>1. results' \in Seq(Message) /\ Len(results) \in Nat /\ Len(results') = Len(results) + 1
    BY <1>0, Appended
  <2> QED BY <1>0, <2>1 DEF TypeOK
<1>2. WhereOK' BY <1>0 DEF IInv, WhereOK
<1>3. /\ Cardinality(BusyWorkers) = Cardinality(BusyWorkers') + 1
      /\ Cardinality(BusyWorkers') \in Nat
  BY <1>0, BusyLeaves
<1>4. /\ Cardinality(JobResults') = Cardinality(JobResults) + 1
      /\ Cardinality(Unread') = Cardinality(Unread) + 1
      /\ Cardinality(Messages(k)') = Cardinality(Messages(k)) + 1
      /\ Cardinality(UnreadOf(k)') = Cardinality(UnreadOf(k)) + 1
      /\ \A h : h # k => Messages(h)' = Messages(h) /\ UnreadOf(h)' = UnreadOf(h)
  BY <1>0, JobMessage
<1>5. ASSUME NEW q \in Nat, NEW b \in Nat, NEW b1 \in Nat, NEW u \in Nat, NEW u1,
             b = b1 + 1, u1 = u + 1
      PROVE  q + b1 + u1 = q + b + u
  BY <1>5
<1>6. InFlightExact'
  <2>1. ASSUME main' \notin {"fail", "returned"}
        PROVE  in_flight' = queue' + Cardinality(BusyWorkers') + Cardinality(Unread')
    <3>1. in_flight = queue + Cardinality(BusyWorkers) + Cardinality(Unread)
      BY <1>0, <2>1 DEF IInv, InFlightExact
    <3>2. in_flight' = in_flight /\ queue' = queue BY <1>0
    <3>3. Cardinality(Unread') = Cardinality(Unread) + 1 BY <1>4
    <3>4. queue + Cardinality(BusyWorkers') + Cardinality(Unread')
            = queue + Cardinality(BusyWorkers) + Cardinality(Unread)
      BY <1>a, <1>3, <1>5, <3>3
    <3> QED BY <3>1, <3>2, <3>4
  <2> QED BY <2>1 DEF InFlightExact
<1>7. ASSUME Running'
      PROVE  Cardinality(JobResults') = iterations' + unsupported' + Cardinality(Unread')
  <2>1. Cardinality(JobResults) = iterations + unsupported + Cardinality(Unread)
    BY <1>0, <1>7 DEF IInv, Counted, Running
  <2>2. Cardinality(JobResults') = Cardinality(JobResults) + 1
        /\ Cardinality(Unread') = Cardinality(Unread) + 1
    BY <1>4
  <2>3. iterations' = iterations /\ unsupported' = unsupported BY <1>0
  <2> QED BY <1>a, <2>1, <2>2, <2>3
<1>8. ASSUME Running', NEW h \in {"observed", "unsupported"}, NEW c \in Nat,
             Cardinality(Messages(h)) = c + Cardinality(UnreadOf(h)),
             Cardinality(UnreadOf(h)) \in Nat
      PROVE  Cardinality(Messages(h)') = c + Cardinality(UnreadOf(h)')
  <2>1. CASE h = k
    <3>1. /\ Cardinality(Messages(h)') = Cardinality(Messages(h)) + 1
          /\ Cardinality(UnreadOf(h)') = Cardinality(UnreadOf(h)) + 1
      BY <1>4, <2>1
    <3> QED BY <1>8, <3>1
  <2>2. CASE h # k
    <3>1. Messages(h)' = Messages(h) /\ UnreadOf(h)' = UnreadOf(h) BY <1>4, <2>2
    <3> QED BY <1>8, <3>1
  <2> QED BY <2>1, <2>2
<1>9. Counted'
  <2>1. ASSUME Running'
        PROVE  /\ Cardinality(Messages("observed")') = iterations' + Cardinality(UnreadOf("observed")')
               /\ Cardinality(Messages("unsupported")') = unsupported' + Cardinality(UnreadOf("unsupported")')
    <3>1. /\ Cardinality(Messages("observed")) = iterations + Cardinality(UnreadOf("observed"))
          /\ Cardinality(Messages("unsupported")) = unsupported + Cardinality(UnreadOf("unsupported"))
      BY <1>0, <2>1 DEF IInv, Counted, Running
    <3>2. Cardinality(Messages("observed")') = iterations + Cardinality(UnreadOf("observed")')
      BY <1>a, <1>8, <2>1, <3>1
    <3>3. Cardinality(Messages("unsupported")') = unsupported + Cardinality(UnreadOf("unsupported")')
      BY <1>a, <1>8, <2>1, <3>1
    <3> QED BY <1>0, <3>2, <3>3
  <2> QED BY <1>7, <2>1 DEF Counted
<1>10. Spent'
  <2>1. Cardinality(JobResults') = Cardinality(JobResults) + 1 BY <1>4
  <2>2. queue + Cardinality(BusyWorkers') + Cardinality(JobResults')
          = queue + Cardinality(BusyWorkers) + Cardinality(JobResults)
    BY <1>a, <1>3, <1>5, <2>1
  <2> QED BY <1>0, <2>2 DEF IInv, Spent
<1>11. FailureNoted' /\ KindsOK'
  <2> HIDE DEF m
  <2> QED BY <1>0, NotedAppended
<1>12. NothingLeftBehind' /\ StopReasonTrue' BY <1>0, NotReported
<1> QED BY <1>1, <1>2, <1>6, <1>9, <1>10, <1>11, <1>12 DEF IInv

(* A worker that has nobody to tell.                                       *)
LEMMA Unheard ==
  ASSUME IInv, NEW w \in Workers, NEW to \in WorkerPhases \ Busy,
         main = "returned", worker[w] # "gone",
         worker' = [worker EXCEPT ![w] = to],
         UNCHANGED <<mainVars, level, deadline, queue, read, results>>
  PROVE  IInv'
<1> USE DEF mainVars
<1>0. TypeOK BY DEF IInv
<1>1. TypeOK' BY DEF IInv, TypeOK
<1>2. KindsOK' /\ WhereOK' BY DEF IInv, KindsOK, WhereOK
<1>3. InFlightExact' /\ Counted' /\ FailureNoted' BY DEF InFlightExact, Counted, Running, FailureNoted
<1>4. Spent'
  <2>1. JobResults' = JobResults BY MessagesSame
  <2>2. CASE worker[w] \in Busy
    <3>1. /\ Cardinality(BusyWorkers) = Cardinality(BusyWorkers') + 1
          /\ Cardinality(BusyWorkers') \in Nat
      BY <1>0, <2>2, BusyLeaves
    <3>2. queue \in Nat /\ Cardinality(JobResults) \in Nat /\ Budget \in Nat
      BY <1>0, SetsFinite, PoolAssumption DEF TypeOK
    <3> QED BY <2>1, <3>1, <3>2 DEF IInv, Spent
  <2>3. CASE worker[w] \notin Busy
    <3>1. BusyWorkers' = BusyWorkers BY <1>0, <2>3, BusyStays
    <3> QED BY <2>1, <3>1 DEF IInv, Spent
  <2> QED BY <2>2, <2>3
<1>5. NothingLeftBehind' /\ StopReasonTrue' BY NotReported
<1> QED BY <1>1, <1>2, <1>3, <1>4, <1>5 DEF IInv

-----------------------------------------------------------------------------
(* The invariant holds at the start, and every step keeps it.              *)
LEMMA InitIInv == Init => IInv
<1> SUFFICES ASSUME Init PROVE IInv OBVIOUS
<1>1. TypeOK
  <2>1. PoolSize \in Nat BY PoolAssumption, FS_CardinalityType DEF PoolSize
  <2>2. results \in Seq(Message) /\ Len(results) = 0 BY DEF Init
  <2>3. worker \in [Workers -> WorkerPhases] BY DEF Init, WorkerPhases
  <2>4. in_flight \in 0 .. PoolSize /\ queue \in 0 .. Capacity /\ read \in 0 .. Len(results)
    BY <2>1, <2>2, PoolAssumption DEF Init
  <2> QED BY <2>2, <2>3, <2>4 DEF Init, TypeOK, MainPhases, Returns
<1>2. KindsOK /\ WhereOK BY DEF Init, KindsOK, WhereOK
<1>3. BusyWorkers = {} BY DEF Init, BusyWorkers, Busy
<1>4. JobResults = {} /\ Unread = {} BY DEF Init, JobResults, Unread
<1>5. ASSUME NEW k PROVE Messages(k) = {} /\ UnreadOf(k) = {} BY DEF Init, Messages, UnreadOf
<1>6. /\ Cardinality(BusyWorkers) = 0 /\ Cardinality(JobResults) = 0 /\ Cardinality(Unread) = 0
      /\ \A k : Cardinality(Messages(k)) = 0 /\ Cardinality(UnreadOf(k)) = 0
  BY <1>3, <1>4, <1>5, FS_EmptySet
<1>7. InFlightExact BY <1>6 DEF Init, InFlightExact
<1>8. Counted BY <1>6 DEF Init, Counted
<1>9. Spent BY <1>6, PoolAssumption DEF Init, Spent
<1>10. FailureNoted BY DEF Init, FailureNoted
<1>11. NothingLeftBehind /\ StopReasonTrue BY DEF Init, NothingLeftBehind, StopReasonTrue
<1> QED BY <1>1, <1>2, <1>7, <1>8, <1>9, <1>10, <1>11 DEF IInv

LEMMA ProducerStep == ASSUME IInv, Producer PROVE IInv'
<1>1. CASE \/ StopAtBudget \/ StopAtDeadline \/ Generate \/ NoCandidate
           \/ DropDuplicate \/ NewCandidate \/ AwaitResult \/ EndLoop
  BY <1>1, QuietActions
<1>2. CASE PlanFails BY <1>2, PlanFailsStep
<1>3. CASE Send BY <1>3, SendStep
<1>4. CASE ReceiveObserved \/ ReceiveUnsupported BY <1>4, ReceiveJobStep
<1>5. CASE ReceiveFailed BY <1>5, ReceiveFailedStep
<1>6. CASE Finish BY <1>6, FinishStep
<1>7. CASE FinishFailed BY <1>7, FinishFailedStep
<1> QED BY <1>1, <1>2, <1>3, <1>4, <1>5, <1>6, <1>7 DEF Producer

LEMMA ObserverStep ==
  ASSUME IInv, NEW w \in Workers, Observer(w)
  PROVE  IInv'
<1> USE DEF WorkerMoves, Busy, WorkerPhases, Looping
<1>1. CASE Start(w) BY <1>1, SilentMove DEF Start
<1>2. CASE StartFails(w)
  <2>1. CASE main = "returned" BY <1>2, <2>1, Unheard DEF StartFails, Deliver
  <2>2. CASE main # "returned" BY <1>2, <2>2, FailedMove DEF StartFails, Deliver
  <2> QED BY <2>1, <2>2
<1>3. CASE TakeJob(w) BY <1>3, TakeJobStep
<1>4. CASE SetUp(w) BY <1>4, SilentMove DEF SetUp
<1>5. CASE JobFails(w)
  <2>1. CASE main = "returned" BY <1>5, <2>1, Unheard DEF JobFails, Deliver
  <2>2. CASE main # "returned" BY <1>5, <2>2, JobDone DEF JobFails, Deliver
  <2> QED BY <2>1, <2>2
<1>6. CASE ExecuteUnsupported(w)
  <2>1. CASE main = "returned"
    <3>1. /\ worker[w] # "gone" /\ worker' = [worker EXCEPT ![w] = "ending"]
          /\ UNCHANGED <<mainVars, level, deadline, queue, read, results>>
      BY <1>6, <2>1 DEF ExecuteUnsupported, Deliver, NextStop
    <3>2. "ending" \in WorkerPhases \ Busy OBVIOUS
    <3> QED BY <2>1, <3>1, <3>2, Unheard
  <2>2. CASE main # "returned"
    <3>1. /\ worker[w] \in Busy /\ worker' = [worker EXCEPT ![w] = "idle"]
          /\ results' = Append(results, [kind |-> "unsupported", job |-> TRUE])
          /\ UNCHANGED <<mainVars, level, deadline, queue, read>>
      BY <1>6, <2>2 DEF ExecuteUnsupported, Deliver, NextStop
    <3>2. "idle" \in WorkerPhases \ Busy /\ "idle" # "ending" /\ "idle" # "gone" OBVIOUS
    <3> QED BY <2>2, <3>1, <3>2, JobDone
  <2> QED BY <2>1, <2>2
<1>7. CASE ExecuteWithTeardown(w) BY <1>7, SilentMove DEF ExecuteWithTeardown
<1>8. CASE ExecuteObserved(w)
  <2>1. CASE main = "returned"
    <3>1. /\ worker[w] # "gone" /\ worker' = [worker EXCEPT ![w] = "ending"]
          /\ UNCHANGED <<mainVars, level, deadline, queue, read, results>>
      BY <1>8, <2>1 DEF ExecuteObserved, Deliver, NextStop
    <3>2. "ending" \in WorkerPhases \ Busy OBVIOUS
    <3> QED BY <2>1, <3>1, <3>2, Unheard
  <2>2. CASE main # "returned"
    <3>1. /\ worker[w] \in Busy /\ worker' = [worker EXCEPT ![w] = "idle"]
          /\ results' = Append(results, [kind |-> "observed", job |-> TRUE])
          /\ UNCHANGED <<mainVars, level, deadline, queue, read>>
      BY <1>8, <2>2 DEF ExecuteObserved, Deliver, NextStop
    <3>2. "idle" \in WorkerPhases \ Busy /\ "idle" # "ending" /\ "idle" # "gone" OBVIOUS
    <3> QED BY <2>2, <3>1, <3>2, JobDone
  <2> QED BY <2>1, <2>2
<1>9. CASE TearDown(w)
  <2>1. CASE main = "returned"
    <3>1. /\ worker[w] # "gone" /\ worker' = [worker EXCEPT ![w] = "ending"]
          /\ UNCHANGED <<mainVars, level, deadline, queue, read, results>>
      BY <1>9, <2>1 DEF TearDown, Deliver, NextStop
    <3>2. "ending" \in WorkerPhases \ Busy OBVIOUS
    <3> QED BY <2>1, <3>1, <3>2, Unheard
  <2>2. CASE main # "returned"
    <3>1. /\ worker[w] \in Busy /\ worker' = [worker EXCEPT ![w] = "idle"]
          /\ results' = Append(results, [kind |-> "observed", job |-> TRUE])
          /\ UNCHANGED <<mainVars, level, deadline, queue, read>>
      BY <1>9, <2>2 DEF TearDown, Deliver, NextStop
    <3>2. "idle" \in WorkerPhases \ Busy /\ "idle" # "ending" /\ "idle" # "gone" OBVIOUS
    <3> QED BY <2>2, <3>1, <3>2, JobDone
  <2> QED BY <2>1, <2>2
<1>10. CASE NoMoreJobs(w) BY <1>10, SilentMove DEF NoMoreJobs, JobsClosed
<1>11. CASE ShutDown(w)
  <2>1. ~Looping BY <1>11 DEF ShutDown, IInv, FailureNoted
  <2> QED BY <1>11, <2>1, SilentMove DEF ShutDown
<1>12. CASE ShutDownFails(w)
  <2>1. CASE main = "returned" BY <1>12, <2>1, Unheard DEF ShutDownFails, Deliver
  <2>2. CASE main # "returned" BY <1>12, <2>2, FailedMove DEF ShutDownFails, Deliver
  <2> QED BY <2>1, <2>2
<1> QED
  BY <1>1, <1>2, <1>3, <1>4, <1>5, <1>6, <1>7, <1>8, <1>9, <1>10, <1>11, <1>12 DEF Observer

LEMMA NextIInv == IInv /\ [Next]_vars => IInv'
<1> SUFFICES ASSUME IInv, [Next]_vars PROVE IInv' OBVIOUS
<1>1. CASE Producer BY <1>1, ProducerStep
<1>2. CASE DeadlinePasses BY <1>2, DeadlineStep
<1>3. CASE \E w \in Workers : Observer(w) BY <1>3, ObserverStep
<1>4. CASE Done BY <1>4, StutterStep DEF Done
<1>5. CASE UNCHANGED vars BY <1>5, StutterStep
<1> QED BY <1>1, <1>2, <1>3, <1>4, <1>5 DEF Next

LEMMA Inductive == Spec => []IInv
  BY InitIInv, NextIInv, PTL DEF Spec

-----------------------------------------------------------------------------
(* Every reachable state of the pool is well-typed: in_flight never falls  *)
(* below zero or exceeds the number of observers.                          *)
THEOREM TypeCorrect == Spec => []TypeOK
<1>1. IInv => TypeOK BY DEF IInv
<1> QED BY <1>1, Inductive, PTL

(* The producer of explore_function_with_observer_pool waits for exactly   *)
(* the results still to come.                                              *)
THEOREM InFlightIsExact == Spec => []InFlightExact
<1>1. IInv => InFlightExact BY DEF IInv
<1> QED BY <1>1, Inductive, PTL

(* However the workers interleave or fail, no more candidates reach them   *)
(* than max_iterations.                                                    *)
THEOREM BudgetIsKept == Spec => []BudgetKept
<1>1. ASSUME IInv PROVE BudgetKept
  <2>1. /\ queue \in Nat /\ Cardinality(BusyWorkers) \in Nat /\ Cardinality(JobResults) \in Nat
        /\ Budget \in Nat
    BY <1>1, SetsFinite, PoolAssumption DEF IInv, TypeOK
  <2>2. queue + Cardinality(BusyWorkers) + Cardinality(JobResults) <= Budget
    BY <1>1 DEF IInv, Spent
  <2> QED BY <2>1, <2>2 DEF BudgetKept
<1> QED BY <1>1, Inductive, PTL

(* A producer that waits for a result has one to wait for: the result      *)
(* channel is never found closed while jobs are in flight.                 *)
THEOREM ProducerNeverStranded == Spec => []NeverSilent
<1>1. ASSUME IInv, main = "receive", AllGone PROVE read < Len(results)
  <2>1. PICK w : w \in Workers BY PoolAssumption
  <2>2. worker[w] = "gone" BY <1>1, <2>1 DEF AllGone
  <2>3. PICK i \in DOMAIN results : i > read BY <1>1, <2>1, <2>2 DEF IInv, FailureNoted
  <2>4. results \in Seq(Message) /\ read \in Nat BY <1>1 DEF IInv, TypeOK
  <2>5. DOMAIN results = 1 .. Len(results) /\ Len(results) \in Nat BY <2>4
  <2> QED BY <2>3, <2>4, <2>5
<1>2. IInv => NeverSilent BY <1>1 DEF NeverSilent
<1> QED BY <1>2, Inductive, PTL

(* A call that returns, other than over a plan, leaves no worker behind,   *)
(* and without a failure no queued job and no unread result.               *)
THEOREM NothingIsLeft == Spec => []NothingLeftBehind
<1>1. IInv => NothingLeftBehind BY DEF IInv
<1> QED BY <1>1, Inductive, PTL

(* The counts and the stop reason a call reports are those of what its     *)
(* workers saw.                                                            *)
THEOREM ReportsAreTrue == Spec => []StopReasonTrue
<1>1. IInv => StopReasonTrue BY DEF IInv
<1> QED BY <1>1, Inductive, PTL
=============================================================================
