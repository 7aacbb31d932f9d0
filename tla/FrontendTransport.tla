-------------------------- MODULE FrontendTransport --------------------------
(***************************************************************************)
(* shatter-core/src/frontend.rs: one frontend subprocess and the requests  *)
(* its owner sends over stdin and stdout, one line each, matched by id.    *)
(* A call is a future: it ends with a result, its own request_timeout      *)
(* fires, or the owner drops it, alone (the timeouts inside run_phased) or *)
(* together with the frontend (a task that is aborted).                    *)
(***************************************************************************)
EXTENDS Integers, Sequences

CONSTANTS
  MaxRequests,   \* bound on next_id
  MaxNoise       \* bound on lines the subprocess prints that are no response

ASSUME TransportAssumption ==
  /\ MaxRequests \in Nat
  /\ MaxNoise \in Nat

Noise == 0       \* a line that does not parse; responses are their ids

VARIABLES
  next_id,
  tainted,
  pending_drain,
  phase,         \* idle, draining, writing, reading or closed (consumed)
  id,            \* id of the current call, or of the last one
  last,          \* result of the last call
  closing,       \* the current call is the Shutdown of shutdown()
  abandoned,     \* a call was dropped and the frontend kept
  torn,          \* ... with part of its line written
  stdin,         \* request lines the subprocess has not read
  stdout,        \* lines it has written that are not read yet
  child,         \* running or exited
  noise          \* lines of noise printed so far

callVars == <<phase, id, last, closing, abandoned, torn>>
childVars == <<stdin, stdout, child, noise>>
wireVars == <<next_id, tainted, pending_drain, callVars, childVars>>

CallResults == {"none", "response", "timeout", "mismatch", "garbled", "exited", "refused"}

(* launch                                                                  *)
WireInit ==
  /\ next_id = 1
  /\ tainted = FALSE
  /\ pending_drain = 0
  /\ phase = "idle"
  /\ id = 0
  /\ last = "none"
  /\ closing = FALSE
  /\ abandoned = FALSE
  /\ torn = FALSE
  /\ stdin = <<>>
  /\ stdout = <<>>
  /\ child = "running"
  /\ noise = 0

-----------------------------------------------------------------------------
(* A call of the owner.                                                    *)

(* A call returns; the call of shutdown consumes the frontend and the      *)
(* subprocess is waited for or killed, whatever the answer.                *)
Return(result) ==
  /\ last' = result
  /\ phase' = IF closing THEN "closed" ELSE "idle"
  /\ UNCHANGED <<id, closing, abandoned, torn>>

Reap == child' = IF closing THEN "exited" ELSE child

(* spawn returns a frontend whose handshake, its first call, succeeded.    *)
Spawned == id = 1 => last = "response"

(* send_with_timeout, which refuses before it assigns an id, and send_raw, *)
(* which assigns one first; the error is a Timeout.                        *)
SendRefused ==
  /\ phase = "idle"
  /\ Spawned
  /\ tainted
  /\ next_id' \in {next_id, next_id + 1}
  /\ next_id' <= MaxRequests + 1
  /\ last' = "refused"
  /\ UNCHANGED <<tainted, pending_drain, phase, id, closing, abandoned, torn, childVars>>

Begin ==
  /\ phase = "idle"
  /\ Spawned
  /\ ~tainted
  /\ next_id <= MaxRequests
  /\ id' = next_id
  /\ next_id' = next_id + 1
  /\ phase' = IF pending_drain > 0 THEN "draining" ELSE "writing"
  /\ last' = "none"
  /\ UNCHANGED <<tainted, pending_drain, abandoned, torn, childVars>>

(* After a timeout run_phased returns, and the frontend is shut down (in   *)
(* function mode) or dropped (in the pool): no request follows.            *)
Send == ~abandoned /\ Begin /\ UNCHANGED closing

Write ==
  /\ phase = "writing"
  /\ child = "running"
  /\ stdin' = Append(stdin, IF torn THEN Noise ELSE id)
  /\ torn' = FALSE
  /\ phase' = "reading"
  /\ UNCHANGED <<next_id, tainted, pending_drain, id, last, closing, abandoned, stdout,
                 child, noise>>

(* A broken pipe is reported as the exit of the subprocess, which is then  *)
(* reaped.                                                                 *)
WriteBroken ==
  /\ phase = "writing"
  /\ child = "exited"
  /\ Return("exited")
  /\ UNCHANGED <<next_id, tainted, pending_drain, childVars>>

ResultOf(line) ==
  CASE line = Noise -> "garbled"
    [] line = id -> "response"
    [] OTHER -> "mismatch"

(* read_response                                                           *)
Read ==
  /\ phase = "reading"
  /\ stdout # <<>>
  /\ stdout' = Tail(stdout)
  /\ Return(ResultOf(Head(stdout)))
  /\ Reap
  /\ UNCHANGED <<next_id, tainted, pending_drain, stdin, noise>>

ReadEof ==
  /\ phase = "reading"
  /\ stdout = <<>>
  /\ child = "exited"
  /\ Return("exited")
  /\ UNCHANGED <<next_id, tainted, pending_drain, childVars>>

(* Slip: a timeout that neither taints the frontend nor counts the response. *)
TimeoutForgotten ==
  /\ phase \in {"writing", "reading"}
  /\ Return("timeout")
  /\ Reap
  /\ UNCHANGED <<next_id, tainted, pending_drain, stdin, stdout, noise>>

(* Slip: a timeout of the read alone.                                      *)
TimeoutOfRead ==
  /\ phase = "reading"
  /\ tainted' = TRUE
  /\ pending_drain' = pending_drain + 1
  /\ Return("timeout")
  /\ Reap
  /\ UNCHANGED <<next_id, stdin, stdout, noise>>

(* request_timeout fires, before or after the request is written.          *)
Timeout ==
  /\ phase \in {"writing", "reading"}
  /\ tainted' = TRUE
  /\ pending_drain' = pending_drain + 1
  /\ Return("timeout")
  /\ Reap
  /\ UNCHANGED <<next_id, stdin, stdout, noise>>

(* Slip: the subprocess outlives the handle.                               *)
DropDetached ==
  /\ phase # "closed"
  /\ phase' = "closed"
  /\ UNCHANGED <<next_id, tainted, pending_drain, id, last, closing, abandoned, torn, childVars>>

(* A timeout inside run_phased drops the future of a call and nothing      *)
(* else: the frontend stays, untainted, and its request may be in the      *)
(* pipe, whole or in part.  The handshake, whose failure ends spawn, and   *)
(* the call of shutdown have no such timeout around them.                  *)
Abandon ==
  /\ phase \notin {"idle", "closed"}
  /\ ~closing
  /\ id > 1
  /\ phase' = "idle"
  /\ abandoned' = TRUE
  /\ \/ torn' = FALSE
     \/ torn' = TRUE /\ phase = "writing"
  /\ UNCHANGED <<next_id, tainted, pending_drain, id, last, closing, childVars>>

(* The owner drops the frontend, within a call (an aborted task) or        *)
(* without, and the drop kills the subprocess.                             *)
Drop ==
  /\ phase # "closed"
  /\ phase' = "closed"
  /\ child' = "exited"
  /\ UNCHANGED <<next_id, tainted, pending_drain, id, last, closing, abandoned, torn, stdin,
                 stdout, noise>>

(* A tainted frontend is killed without a word.                            *)
Shutdown ==
  \/ id > 0 /\ Begin /\ closing' = TRUE
  \/ /\ phase = "idle"
     /\ Spawned
     /\ tainted
     /\ phase' = "closed"
     /\ child' = "exited"
     /\ UNCHANGED <<next_id, tainted, pending_drain, id, last, closing, abandoned, torn, stdin,
                 stdout, noise>>

-----------------------------------------------------------------------------
(* The subprocess: it answers requests in order, prints, exits.            *)

Serve ==
  /\ child = "running"
  /\ stdin # <<>>
  /\ stdin' = Tail(stdin)
  /\ stdout' = Append(stdout, Head(stdin))
  /\ UNCHANGED <<next_id, tainted, pending_drain, callVars, child, noise>>

PrintNoise ==
  /\ child = "running"
  /\ noise < MaxNoise
  /\ noise' = noise + 1
  /\ stdout' = Append(stdout, Noise)
  /\ UNCHANGED <<next_id, tainted, pending_drain, callVars, stdin, child>>

Exit ==
  /\ child = "running"
  /\ child' = "exited"
  /\ UNCHANGED <<next_id, tainted, pending_drain, callVars, stdin, stdout, noise>>

-----------------------------------------------------------------------------
WireNext ==
  \/ Send \/ SendRefused \/ Shutdown
  \/ Write \/ WriteBroken \/ Read \/ ReadEof
  \/ Timeout \/ Abandon \/ Drop
  \/ Serve \/ PrintNoise \/ Exit

(* Time passes, and the executor polls a future whose line has arrived;    *)
(* nothing is assumed of the subprocess.                                   *)
WireFairness == WF_wireVars(Timeout) /\ WF_wireVars(Read \/ ReadEof \/ WriteBroken)

WireSpec == WireInit /\ [][WireNext]_wireVars /\ WireFairness

-----------------------------------------------------------------------------
(* Properties.                                                             *)

Numbers ==
  /\ next_id \in 1 .. MaxRequests + 1
  /\ id \in 0 .. next_id - 1
  /\ phase \in {"writing", "reading"} => id > 0
  /\ pending_drain \in 0 .. 1
  /\ noise \in 0 .. MaxNoise

Flags ==
  /\ tainted \in BOOLEAN /\ closing \in BOOLEAN
  /\ abandoned \in BOOLEAN /\ torn \in BOOLEAN

Names ==
  /\ phase \in {"idle", "draining", "writing", "reading", "closed"}
  /\ last \in CallResults
  /\ child \in {"running", "exited"}

Lines ==
  /\ stdin \in Seq(0 .. MaxRequests)
  /\ stdout \in Seq(0 .. MaxRequests)

(* Ids are handed out once, and at most one response is ever owed.         *)
WireTypeOK == Numbers /\ Flags /\ Names /\ Lines

(* drain_stale_responses is never reached: a frontend that owes responses  *)
(* is tainted and refuses further requests.                                *)
DrainUnreachable == phase # "draining"

(* However timeouts, exits and requests interleave, an IdMismatch takes a  *)
(* line the subprocess printed beside its responses (the test              *)
(* timeout_taints_frontend_and_subsequent_send_returns_timeout), or it is  *)
(* the answer to an abandoned call, read by the last call of all, the      *)
(* Shutdown, whose result nobody looks at.                                 *)
MismatchNeedsNoise ==
  last = "mismatch" => noise > 0 \/ (abandoned /\ closing /\ phase = "closed")

(* The pipes of an untainted frontend that printed nothing extra hold the  *)
(* current call and nothing else: a call that gave up on its response left *)
(* a tainted frontend or a dead subprocess behind, or one line, and then   *)
(* no call but shutdown's meets it.                                        *)
PipesAligned ==
  /\ pending_drain > 0 => tainted
  /\ tainted => phase \in {"idle", "closed"}
  /\ ~tainted /\ ~abandoned /\ noise = 0 /\ phase \in {"idle", "writing"} =>
       stdout = <<>> /\ Len(stdin) <= (IF child = "exited" THEN 1 ELSE 0)
  /\ ~abandoned /\ noise = 0 /\ phase = "reading" =>
       \/ stdin = <<id>> /\ stdout = <<>>
       \/ stdin = <<>> /\ stdout = <<id>>
  /\ abandoned /\ phase # "closed" =>
       /\ phase = "idle" \/ closing
       /\ noise = 0 => Len(stdin) + Len(stdout) <= (IF phase = "reading" THEN 2 ELSE 1)

(* A consumed frontend leaves no subprocess behind.                        *)
ClosedIsReaped == phase = "closed" => child = "exited"

(* Every call ends, even if the subprocess never reads or writes a line.   *)
CallsEnd == phase \in {"writing", "reading"} ~> phase \in {"idle", "closed"}

=============================================================================
