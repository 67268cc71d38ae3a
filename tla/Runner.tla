------------------------------- MODULE Runner -------------------------------
(***************************************************************************)
(* One run of the dms-sql-bastion runner (scripts/runner.py): the main     *)
(* thread walking its step list, the client process of each step in its    *)
(* own process group, the signal handler that may interrupt the main       *)
(* thread between any two of its operations, and the database session that *)
(* outlives the client.                                                    *)
(*                                                                         *)
(* The client, the database and the script store are outside runner.py:    *)
(* they are modelled by what the runner relies on.                         *)
(***************************************************************************)
EXTENDS Steps

CONSTANTS
  Requests,     \* what the run may be asked: see Request
  Statements,   \* statements in every script
  MaxSignals,   \* bound: how many signals one run receives
  NoName,       \* no resume hint was printed
  NoCode        \* the process has no exit code (yet)

\* A request after the parameters were read: the list build_steps and
\* apply_start_at make of it, and the two facts run() tests later.
Request ==
  [steps     : Seq(Step) \ {<<>>},
   dry_run   : BOOLEAN,     \* DryRun=true on a mode other than check
   resumable : BOOLEAN]     \* what.startswith(("runbook", "manifest"))

ASSUME RunnerAssumption ==
  /\ Requests \subseteq Request
  /\ Statements \in Nat \ {0}
  /\ MaxSignals \in Nat
  /\ NoName \notin Name
  /\ NoCode \notin Int

VARIABLES
  request,      \* the Request this process serves
  pc,           \* where the main thread is
  idx,          \* the step the loop in run() is at
  outcome,      \* code of the step in hand, before it is filed
  results,      \* codes of the steps filed so far, in list order
  firstFailure, \* first_failure
  hint,         \* the StartAt the log names, or NoName
  creds,        \* targets whose secret Credentials has cached
  fetched,      \* content of the work file of the step in hand
  current,      \* _current["proc"]: an index of attempts, 0 for None
  handler,      \* where _on_signal is; "none" outside it
  signals,      \* signals delivered so far
  exitCode,     \* status the process ends with
  attempts,     \* every client process this host has started
  run,          \* number of the run that is in progress
  store         \* the S3 objects: Script -> Content

mainVars   == <<idx, outcome, results, firstFailure, hint, creds, fetched>>
signalVars == <<handler, signals>>
vars == <<request, pc, mainVars, current, signalVars, exitCode, attempts,
          run, store>>

-----------------------------------------------------------------------------
(* Client processes. `attempts` keeps one record for each Popen. *)

Attempt ==
  [run     : Nat,
   step    : Nat,                                   \* index in the step list
   name    : Name,
   kind    : {"sql", "shell", "check"},
   tx      : {"single", "none"},
   content : Content \cup {NoSha},                  \* what the client was given
   leader  : {"running", "ok", "failed", "killed"}, \* the client itself
   child   : BOOLEAN,         \* another live member of its process group
   known   : BOOLEAN,         \* it was stored in _current
   termed  : BOOLEAN,         \* its group was sent SIGTERM
   sent    : Nat,             \* requests the server has received
   done    : Nat,             \* requests the server has carried out
   open    : BOOLEAN]         \* its database session still exists

\* The requests a client sends: every statement, then COMMIT if one
\* transaction holds them. A check step sends a single probe.
Items(a) ==
  IF a.kind = "check" THEN 1
  ELSE IF a.tx = "single" THEN Statements + 1 ELSE Statements

\* How many of the script's statements have taken effect in the database.
Durable(a) ==
  IF a.kind = "check" THEN 0
  ELSE IF a.tx = "single"
       THEN IF a.done = Items(a) THEN Statements ELSE 0
       ELSE a.done

steps == request.steps
Cur   == steps[idx]
Mine  == {k \in DOMAIN attempts : attempts[k].run = run}
Running(k) == attempts[k].leader = "running"

-----------------------------------------------------------------------------
(* The main thread. It stands still while the handler runs. *)

At(label) == pc = label /\ handler = "none"

\* What the loop does first with step i.
LoopHead(i) ==
  IF i > Len(steps) THEN "cleanup"
  ELSE IF steps[i].type = "check" THEN "execute" ELSE "fetch"

Settle(code) ==
  /\ outcome' = code
  /\ pc' = "finish"

\* main() has nothing left but the `finally: rmtree`.
Return(code) ==
  /\ exitCode' = code
  /\ pc' = "cleanup"

\* The codes StepList's Plan can end with instead of a list: bad parameters or
\* manifests, a manifest that is not the pinned one, a value of another type.
RefusalCode == {EXIT_UNEXPECTED, EXIT_INTEGRITY, EXIT_CONFIG}

\* A rejected parameter, runbook or manifest raises out of main().
BuildPlan ==
  /\ At("build")
  /\ \/ pc' = LoopHead(1) /\ UNCHANGED exitCode
     \/ \E code \in RefusalCode : Return(code)
  /\ UNCHANGED <<request, mainVars, current, signalVars, attempts, run, store>>

\* A step without a pin takes whatever the bucket holds.
PinRefuses(content) == Cur.sha256 \notin {NoSha, content}

\* (Slip: DryRun is only looked at when the list is built.)
Verified_DryRunExecutes == pc' = "execute" /\ UNCHANGED outcome

\* A dry run verifies the script and goes no further.
Verified ==
  IF request.dry_run THEN Settle(EXIT_OK)
  ELSE pc' = "execute" /\ UNCHANGED outcome

\* What is no RunError - a full disk, a secret that is JSON but no object, a
\* MySQL script that is no text - leaves run() without filing the step.
Uncaught == Return(EXIT_UNEXPECTED) /\ UNCHANGED outcome

\* fetch_object, then the comparison with the step's pin. The content is read
\* once: what was hashed is what the client will be given.
Fetch ==
  /\ At("fetch")
  /\ \/ Settle(EXIT_CONFIG) /\ UNCHANGED <<fetched, exitCode>>
     \/ /\ fetched' = store[Cur.script]
        /\ IF PinRefuses(fetched') THEN Settle(EXIT_INTEGRITY) ELSE Verified
        /\ UNCHANGED exitCode
     \/ Uncaught /\ UNCHANGED fetched
  /\ UNCHANGED <<request, idx, results, firstFailure, hint, creds, current,
                 signalVars, attempts, run, store>>

\* (Slip: the cache is keyed by the step instead of the target.)
Cached_ByStep == creds \cup {Cur.name}

Cached == creds \cup {Cur.target}

\* execute() up to run_client: CA bundle, secret (cached), client binary,
\* transaction mode. Everything but the last may be missing on the host, and
\* anything may raise what run() does not expect, a Popen that never forked
\* included.
Execute ==
  /\ At("execute")
  /\ creds' \in {creds, Cached}
  /\ \/ /\ Cur.target \in creds'
        /\ ~ TransactionRefused(Cur)
        /\ pc' = "spawn"
        /\ UNCHANGED <<outcome, exitCode>>
     \/ Settle(EXIT_CONFIG) /\ UNCHANGED exitCode
     \/ Uncaught
  /\ UNCHANGED <<request, idx, results, firstFailure, hint, fetched, current,
                 signalVars, attempts, run, store>>

\* (Slip: the client reads the object again.)
ClientInput_ReadAgain == store[Cur.script]

\* The file that was hashed is the file the client reads.
ClientInput == fetched

NewAttempt ==
  [run     |-> run,
   step    |-> idx,
   name    |-> Cur.name,
   kind    |-> Cur.type,
   tx      |-> resolve_transaction(Cur),
   content |-> IF Cur.type = "check" THEN NoSha ELSE ClientInput,
   leader  |-> "running",
   child   |-> Cur.type = "shell",
   known   |-> FALSE,
   termed  |-> FALSE,
   sent    |-> 0,
   done    |-> 0,
   open    |-> TRUE]

\* Popen has forked; the assignment to _current is a later operation.
Spawn ==
  /\ At("spawn")
  /\ attempts' = Append(attempts, NewAttempt)
  /\ pc' = "record"
  /\ UNCHANGED <<request, mainVars, current, signalVars, exitCode, run, store>>

Record ==
  /\ At("record")
  /\ current' = Len(attempts)
  /\ attempts' = [attempts EXCEPT ![Len(attempts)].known = TRUE]
  /\ pc' = "wait"
  /\ UNCHANGED <<request, mainVars, signalVars, exitCode, run, store>>

\* proc.wait() returns: run_client forgets the process and hands rc on.
ClientReturns ==
  /\ At("wait")
  /\ ~ Running(current)
  /\ Settle(IF attempts[current].leader = "ok" THEN EXIT_OK ELSE EXIT_SCRIPT)
  /\ current' = 0
  /\ UNCHANGED <<request, idx, results, firstFailure, hint, creds, fetched,
                 signalVars, exitCode, attempts, run, store>>

-----------------------------------------------------------------------------
(* _kill_group: SIGTERM to the group, up to 15 seconds for the leader, then *)
(* SIGKILL to the group. Both the timeout and the handler go through it.    *)

SignalGroup(k) == attempts' = [attempts EXCEPT ![k].termed = TRUE]

KillGroup(k) ==
  attempts' = [attempts EXCEPT ![k].leader = "killed", ![k].child = FALSE]

\* (Slips: no SIGKILL after the grace period; an unbounded wait.)
GraceEnds_NoKill(k)       == UNCHANGED attempts
GraceEnds_WaitsForever(k) == ~ Running(k) /\ UNCHANGED attempts

\* The leader went in time, or the group is killed; either way it is over. The
\* runner does not wait for what it has sent SIGKILL: a process that was killed
\* executes nothing more, and the time until the kernel has removed it is left
\* out.
GraceEnds(k) ==
  IF Running(k) THEN KillGroup(k) ELSE UNCHANGED attempts

StepTimesOut ==
  /\ At("wait")
  /\ Running(current)
  /\ SignalGroup(current)
  /\ pc' = "grace"
  /\ UNCHANGED <<request, mainVars, current, signalVars, exitCode, run, store>>

TimeoutEnds ==
  /\ At("grace")
  /\ GraceEnds(current)
  /\ Settle(EXIT_TIMEOUT)
  /\ current' = 0
  /\ UNCHANGED <<request, idx, results, firstFailure, hint, creds, fetched,
                 signalVars, exitCode, run, store>>

-----------------------------------------------------------------------------
(* The end of a step and of the run. *)

\* (Slip: the last failure's code is kept.)
FirstFailure_LastCodeWins == outcome

FirstFailure == IF firstFailure = EXIT_OK THEN outcome ELSE firstFailure

\* (Slip: only a client's own error stops the run.)
Stops_OnScriptErrorOnly == outcome = EXIT_SCRIPT /\ Cur.on_error = "stop"

Stops == outcome # EXIT_OK /\ Cur.on_error = "stop"

\* (Slip: the hint names the first step that was not run.)
ResumeAt_NextStep == steps[IF idx < Len(steps) THEN idx + 1 ELSE idx].name

ResumeAt == Cur.name

FinishStep ==
  /\ At("finish")
  /\ results' = Append(results, outcome)
  /\ firstFailure' = FirstFailure
  /\ IF Stops
     THEN /\ hint' = IF request.resumable THEN ResumeAt ELSE NoName
          /\ Return(firstFailure')
          /\ UNCHANGED idx
     ELSE /\ idx' = idx + 1
          /\ pc' = LoopHead(idx')
          /\ exitCode' = IF pc' = "cleanup" THEN firstFailure' ELSE exitCode
          /\ UNCHANGED hint
  /\ UNCHANGED <<request, outcome, creds, fetched, current, signalVars,
                 attempts, run, store>>

Exit ==
  /\ At("cleanup")
  /\ pc' = "exited"
  /\ UNCHANGED <<request, mainVars, current, signalVars, exitCode, attempts,
                 run, store>>

MainThread ==
  \/ BuildPlan \/ Fetch \/ Execute \/ Spawn \/ Record \/ ClientReturns
  \/ StepTimesOut \/ TimeoutEnds \/ FinishStep \/ Exit

-----------------------------------------------------------------------------
(* _on_signal. SIGTERM and SIGINT are handled alike, between any two        *)
(* operations of the main thread, and a second signal re-enters the handler. *)

Sigterm ==
  /\ pc # "exited"
  /\ signals < MaxSignals
  /\ signals' = signals + 1
  /\ handler' = "poll"
  /\ UNCHANGED <<request, pc, mainVars, current, exitCode, attempts, run, store>>

\* (Slip: a client that is being timed out is left to the main thread.)
ClientToStop_NotInGrace == pc = "wait" /\ Running(current)

\* Only a process that is known can be stopped.
ClientToStop == current # 0 /\ Running(current)

PollClient ==
  /\ handler = "poll"
  /\ handler' = IF ClientToStop THEN "kill" ELSE "leave"
  /\ UNCHANGED <<request, pc, mainVars, current, signals, exitCode, attempts,
                 run, store>>

HandlerKills ==
  /\ handler = "kill"
  /\ SignalGroup(current)
  /\ handler' = "grace"
  /\ UNCHANGED <<request, pc, mainVars, current, signals, exitCode, run, store>>

HandlerGraceEnds ==
  /\ handler = "grace"
  /\ GraceEnds(current)
  /\ handler' = "leave"
  /\ UNCHANGED <<request, pc, mainVars, current, signals, exitCode, run, store>>

\* (Slip: the handler raises RunError, which run() files as a failed step.)
HandlerLeaves_AsStepFailure ==
  /\ handler = "leave"
  /\ handler' = "none"
  /\ current' = 0
  /\ pc' = IF pc = "cleanup" THEN "exited" ELSE "finish"
  /\ outcome' = EXIT_INTERRUPTED
  /\ UNCHANGED <<request, idx, results, firstFailure, hint, creds, fetched,
                 signals, exitCode, attempts, run, store>>

\* sys.exit(5) unwinds the main thread: nothing below main() catches it, and
\* the finally clauses clear _current and remove the work directory.
HandlerLeaves ==
  /\ handler = "leave"
  /\ handler' = "none"
  /\ current' = 0
  /\ pc' = "exited"
  /\ exitCode' = EXIT_INTERRUPTED
  /\ UNCHANGED <<request, mainVars, signals, attempts, run, store>>

Handler ==
  PollClient \/ HandlerKills \/ HandlerGraceEnds \/ HandlerLeaves

-----------------------------------------------------------------------------
(* The client process: psql, mysql, sqlplus or bash.                        *)

ClientSends(k) ==
  /\ Running(k) /\ attempts[k].open
  /\ attempts[k].sent = attempts[k].done
  /\ attempts[k].sent < Items(attempts[k])
  /\ attempts' = [attempts EXCEPT ![k].sent = @ + 1]

\* Every request was answered: the client exits 0 and closes its session.
ClientSucceeds(k) ==
  /\ Running(k) /\ attempts[k].open
  /\ attempts[k].done = Items(attempts[k])
  /\ attempts' = [attempts EXCEPT ![k].leader = "ok", ![k].open = FALSE]

\* A statement is refused, the connection is lost, or there never was one.
ClientFails(k) ==
  /\ Running(k)
  /\ attempts' = [attempts EXCEPT ![k].leader = "failed"]

\* SIGTERM takes effect some time after it was sent, if at all.
ClientTerminates(k) ==
  /\ Running(k) /\ attempts[k].termed
  /\ attempts' = [attempts EXCEPT ![k].leader = "killed"]

\* What a shell step started may end before, with or after the script.
ChildEnds(k) ==
  /\ attempts[k].child
  /\ attempts' = [attempts EXCEPT ![k].child = FALSE]

-----------------------------------------------------------------------------
(* The database session of a client. It learns that the client is gone only *)
(* when it next looks; a request already received may still be carried out. *)

ServerExecutes(k) ==
  /\ attempts[k].open
  /\ attempts[k].done < attempts[k].sent
  /\ attempts' = [attempts EXCEPT ![k].done = @ + 1]

ServerCloses(k) ==
  /\ attempts[k].open /\ ~ Running(k)
  /\ attempts' = [attempts EXCEPT ![k].open = FALSE]

ClientOrServer ==
  /\ \E k \in DOMAIN attempts :
       \/ ClientSends(k) \/ ClientSucceeds(k) \/ ClientFails(k)
       \/ ClientTerminates(k) \/ ChildEnds(k)
       \/ ServerExecutes(k) \/ ServerCloses(k)
  /\ UNCHANGED <<request, pc, mainVars, current, signalVars, exitCode, run, store>>

-----------------------------------------------------------------------------
(* The rest of the world. *)

\* Somebody, or an earlier shell step, writes an object of the bucket.
Upload ==
  /\ pc # "exited"
  /\ \E s \in Script, c \in Content :
       store[s] # c /\ store' = [store EXCEPT ![s] = c]
  /\ UNCHANGED <<request, pc, mainVars, current, signalVars, exitCode, attempts, run>>

\* The instance is stopped or lost: every process on it ends at once.
InstanceLost ==
  /\ pc # "exited"
  /\ pc' = "exited"
  /\ exitCode' = NoCode
  /\ handler' = "none"
  /\ current' = 0
  /\ attempts' = [k \in DOMAIN attempts |->
       [attempts[k] EXCEPT !.leader = IF @ = "running" THEN "killed" ELSE @,
                           !.child = FALSE]]
  /\ UNCHANGED <<request, mainVars, signals, run, store>>

-----------------------------------------------------------------------------
InitMain ==
  /\ request \in Requests
  /\ pc = "build"
  /\ idx = 1
  /\ outcome = EXIT_OK
  /\ results = <<>>
  /\ firstFailure = EXIT_OK
  /\ hint = NoName
  /\ creds = {}
  /\ fetched = NoSha
  /\ current = 0
  /\ handler = "none"
  /\ signals = 0
  /\ exitCode = NoCode

Init ==
  /\ InitMain
  /\ attempts = <<>>
  /\ run = 1
  /\ store \in [Script -> Content]

Next ==
  MainThread \/ Sigterm \/ Handler \/ ClientOrServer \/ Upload \/ InstanceLost

\* The operating system schedules the runner, and its waits are bounded: a
\* step's timeout and the grace period run out.
Fairness == WF_vars(MainThread) /\ WF_vars(Handler)

Spec == Init /\ [][Next]_vars
LiveSpec == Spec /\ Fairness

-----------------------------------------------------------------------------
TypeOK ==
  /\ request \in Request
  /\ pc \in {"build", "fetch", "execute", "spawn", "record", "wait", "grace",
             "finish", "cleanup", "exited"}
  /\ idx \in Nat \ {0}
  /\ outcome \in ExitCode
  /\ results \in Seq(ExitCode)
  /\ firstFailure \in ExitCode
  /\ hint \in Name \cup {NoName}
  /\ creds \subseteq Target
  /\ fetched \in Content \cup {NoSha}
  /\ current \in Nat
  /\ handler \in {"none", "poll", "kill", "grace", "leave"}
  /\ signals \in Nat
  /\ exitCode \in ExitCode \cup {NoCode}
  /\ attempts \in Seq(Attempt)
  /\ run \in Nat
  /\ store \in [Script -> Content]

-----------------------------------------------------------------------------
(* Safety. *)

Exited(code) == pc = "exited" /\ exitCode = code

\* A run that exits 0 and was no dry run has carried every step of its list
\* through: exactly one client ran it, the client reported success, and every
\* statement is in the database. (first_failure and the loop in run())
ExitZeroMeansApplied ==
  Exited(EXIT_OK) /\ ~ request.dry_run =>
    \A i \in DOMAIN steps :
      \E k \in Mine :
        /\ attempts[k].step = i
        /\ attempts[k].leader = "ok"
        /\ attempts[k].done = Items(attempts[k])
        /\ \A l \in Mine \ {k} : attempts[l].step # i

\* Steps run one at a time and in list order: once a client of a run has been
\* started, every client the run started before it has ended, and belonged to
\* an earlier step - also when that one had to be killed.
OneClientAtATime ==
  \A k, l \in Mine : k < l =>
    /\ ~ Running(k)
    /\ attempts[k].step < attempts[l].step

\* Nothing runs beyond a failed step that may not fail.
StopIsRespected ==
  \A k \in Mine : \A i \in 1 .. attempts[k].step - 1 :
    /\ i \in DOMAIN results
    /\ results[i] = EXIT_OK \/ steps[i].on_error = "continue"

\* A client never gets a content other than the one its step is pinned to,
\* whatever happens to the object between the download and the start.
OnlyPinnedContent ==
  \A k \in Mine :
    LET s == steps[attempts[k].step] IN
      s.type # "check" => s.sha256 \in {NoSha, attempts[k].content}

\* When the process has ended of its own accord, the only client it can have
\* left running is one it had started but not yet stored in _current.
KnownClientsAreStopped ==
  pc = "exited" => \A k \in Mine : Running(k) => ~ attempts[k].known

\* A dry run starts no script, and exits 0 only if a probe has connected to
\* every target its steps use.
DryRunProvesTargets ==
  request.dry_run =>
    /\ \A k \in Mine : attempts[k].kind = "check"
    /\ Exited(EXIT_OK) =>
         \A i \in DOMAIN steps : \E k \in Mine :
           /\ steps[attempts[k].step].target = steps[i].target
           /\ attempts[k].leader = "ok"

\* The StartAt a run prints is where it got to: what precedes that step has
\* succeeded or was allowed to fail, and nothing after it was started.
HintIsTheFrontier ==
  hint # NoName =>
    \E h \in DOMAIN steps :
      /\ steps[h].name = hint
      /\ \A i \in 1 .. h - 1 :
           results[i] = EXIT_OK \/ steps[i].on_error = "continue"
      /\ results[h] # EXIT_OK
      /\ \A k \in Mine : attempts[k].step <= h

\* After the first signal no client is started, whatever on_error says.
NothingStartsAfterASignal ==
  [][signals > 0 => Len(attempts') = Len(attempts)]_vars

-----------------------------------------------------------------------------
(* Liveness. *)

\* Every run ends: a client that never answers is timed out and killed.
Terminates == <>(pc = "exited")

\* A signalled run ends interrupted, even if the client ignores SIGTERM.
SignalEndsTheRun ==
  handler # "none" ~> (pc = "exited" /\ exitCode \in {EXIT_INTERRUPTED, NoCode})

-----------------------------------------------------------------------------
(* The inductive invariant behind the safety theorems of RunnerProofs.      *)

InStep == pc \in {"fetch", "execute", "spawn", "record", "wait", "grace", "finish"}

\* The loop counter, _current and the handler fit the place of the main thread.
Control ==
  /\ InStep => idx \in DOMAIN steps
  /\ pc = "fetch" => Cur.type # "check"
  /\ pc = "build" => idx = 1 /\ results = <<>>
  /\ InStep => Len(results) = idx - 1
  /\ pc = "record" => attempts # <<>>
  /\ pc \in {"wait", "grace"} <=> current # 0
  /\ current # 0 => current = Len(attempts)
  /\ handler \in {"kill", "grace"} => current # 0
  /\ pc = "exited" => handler = "none"

\* Of the run's clients at most the newest one runs, and only while the main
\* thread is at it. What earlier runs have left on the host is not restricted.
Clients ==
  /\ \A k \in DOMAIN attempts : attempts[k].run <= run
  /\ pc \in {"record", "wait", "grace"} => Len(attempts) \in Mine
  /\ \A k \in Mine : Running(k) =>
       /\ k = Len(attempts)
       /\ pc \in {"record", "wait", "grace", "exited"}
       /\ pc \in {"record", "exited"} => ~ attempts[k].known
  /\ handler = "leave" /\ current # 0 => ~ Running(current)

\* The run's clients were started in list order, past no failed step that may
\* not fail.
Order ==
  /\ \A k \in Mine :
       /\ attempts[k].step \in 1 .. idx
       /\ pc \in {"build", "fetch", "execute", "spawn"} => attempts[k].step < idx
  /\ \A k, l \in Mine : k < l => attempts[k].step < attempts[l].step
  /\ idx - 1 <= Len(results)
  /\ \A i \in 1 .. idx - 1 :
       results[i] = EXIT_OK \/ steps[i].on_error = "continue"

Inv == TypeOK /\ Control /\ Clients /\ Order

-----------------------------------------------------------------------------
(* What the operator is promised. *)

Promise == INSTANCE OrderedSteps WITH
  policy   <- [i \in DOMAIN steps |-> steps[i].on_error],
  verdicts <- results,
  ended    <- pc = "exited",
  status   <- IF pc = "exited" THEN exitCode ELSE NoCode

ImplementsPromise == Promise!Spec

-----------------------------------------------------------------------------
(* What README.md and test_runner.py say, and the code does not do. *)

\* test_runner.py:463: "the client process group must be gone" when a run was
\* stopped with SIGTERM.
StoppedRunLeavesNoClient ==
  Exited(EXIT_INTERRUPTED) => \A k \in Mine : ~ Running(k)

\* README.md:276: on a timeout or a stop "the runner terminates the client's
\* whole process group".
WholeGroupIsTerminated ==
  \A k \in Mine :
    attempts[k].termed /\ pc = "exited" => ~ Running(k) /\ ~ attempts[k].child
=============================================================================
