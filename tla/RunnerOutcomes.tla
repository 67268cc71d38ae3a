--------------------------- MODULE RunnerOutcomes ---------------------------
(***************************************************************************)
(* Theorems about what a run of the runner achieves and reports, for every *)
(* set of requests, every script length and every number of signals.       *)
(*                                                                         *)
(* They need more than Inv: where the content of a client comes from       *)
(* (Origin), which client stands behind a verdict (Verdicts), and what the *)
(* exit status and the resume hint say about the verdicts (Report). Each   *)
(* is kept by every step of a state that satisfies Inv and those before it.*)
(***************************************************************************)
EXTENDS RunnerProofs

\* A signal is dealt with before the main thread goes on.
Signalled == signals > 0 => handler # "none" \/ pc = "exited"

\* Where a client can be started, its script was verified.
Checked ==
  pc \in {"execute", "spawn"} =>
    \/ Cur.type = "check"
    \/ ~ request.dry_run /\ Cur.sha256 \in {NoSha, fetched}

\* What client a of this run is, given the step s it was started for.
Suits(a, s) ==
  /\ a.name = s.name
  /\ a.kind = s.type
  /\ a.tx = resolve_transaction(s)
  /\ s.type = "check" \/ s.sha256 \in {NoSha, a.content}

\* A client of any run: success means that everything is in the database.
Sound(a) ==
  /\ a.leader = "ok" => ~ a.open /\ a.done = Items(a)
  /\ request.dry_run => a.kind = "check"

Origin ==
  /\ \A k \in DOMAIN attempts : Sound(attempts[k])
  /\ \A k \in Mine : Suits(attempts[k], steps[attempts[k].step])

\* A dry run executes the probes only.
Executed(i) == ~ request.dry_run \/ steps[i].type = "check"

CarriedOut(i) ==
  \E k \in Mine : attempts[k].step = i /\ attempts[k].leader = "ok"

\* A verdict of 0 was given by a client that reported success.
Verdicts ==
  /\ pc \in {"record", "wait", "grace"} => attempts[Len(attempts)].step = idx
  /\ \A i \in DOMAIN results :
       results[i] = EXIT_OK /\ Executed(i) => CarriedOut(i)
  /\ pc = "finish" =>
       /\ outcome \in {EXIT_OK, EXIT_SCRIPT, EXIT_INTEGRITY, EXIT_CONFIG, EXIT_TIMEOUT}
       /\ outcome = EXIT_OK /\ Executed(idx) => CarriedOut(idx)

\* firstFailure is what its name says.
FirstFailureIsFirst ==
  \/ firstFailure = EXIT_OK /\ \A i \in DOMAIN results : results[i] = EXIT_OK
  \/ \E i \in DOMAIN results :
       /\ results[i] = firstFailure /\ firstFailure # EXIT_OK
       /\ \A j \in 1 .. i - 1 : results[j] = EXIT_OK

ListStopped ==
  \E i \in DOMAIN results : results[i] # EXIT_OK /\ steps[i].on_error = "stop"

\* The hint names the step of the last verdict, and no client of the run is left.
Frontier(h) ==
  /\ steps[h].name = hint
  /\ h = Len(results)
  /\ \A i \in 1 .. h - 1 : results[i] = EXIT_OK \/ steps[i].on_error = "continue"
  /\ results[h] # EXIT_OK
  /\ \A k \in Mine : attempts[k].step <= h /\ ~ Running(k)

NoMoreThanSteps == Len(results) <= Len(steps)

\* The exit status fits the verdicts, from the moment it is known.
StatusFits ==
  /\ NoMoreThanSteps
  /\ pc \notin {"cleanup", "exited"} => exitCode = NoCode /\ hint = NoName
  /\ pc = "cleanup" =>
       \/ exitCode \in RefusalCode /\ results = <<>>
       \/ exitCode = EXIT_UNEXPECTED /\ ~ ListStopped /\ Len(results) < Len(steps)
       \/ exitCode = firstFailure /\ (ListStopped \/ Len(results) = Len(steps))
  /\ pc \in {"cleanup", "exited"} /\ exitCode = EXIT_OK =>
       Len(results) = Len(steps) /\ firstFailure = EXIT_OK

Report ==
  /\ FirstFailureIsFirst
  /\ StatusFits
  /\ hint # NoName => \E h \in DOMAIN steps : Frontier(h)

-----------------------------------------------------------------------------
(* What happens to the clients once they are started. *)

\* Client a may become b: it stays what it is, keeps its success, and does not
\* come back to life.
Keeps(a, b) ==
  /\ b.run = a.run /\ b.step = a.step /\ b.name = a.name
  /\ b.kind = a.kind /\ b.tx = a.tx /\ b.content = a.content
  /\ a.leader = "ok" => b.leader = "ok"
  /\ b.leader = "running" => a.leader = "running"
  /\ (a.leader = "ok" => ~ a.open /\ a.done = Items(a)) =>
       (b.leader = "ok" => ~ b.open /\ b.done = Items(b))

ClientsKept ==
  /\ DOMAIN attempts' = DOMAIN attempts
  /\ Len(attempts') = Len(attempts)
  /\ \A k \in DOMAIN attempts : Keeps(attempts[k], attempts'[k])

LEMMA OneIsKept ==
  ASSUME TypeOK, NEW k \in DOMAIN attempts, NEW r \in Attempt,
         attempts' = [attempts EXCEPT ![k] = r], Keeps(attempts[k], r)
  PROVE  ClientsKept
<1>1. \A j \in DOMAIN attempts : Keeps(attempts[j], attempts[j])
  BY DEF Keeps
<1>2. QED
  BY <1>1, OneAttemptChanges DEF TypeOK, ClientsKept

LEMMA SignalledIsKept ==
  ASSUME TypeOK, NEW k \in DOMAIN attempts, SignalGroup(k)
  PROVE  ClientsKept
<1> DEFINE r == [attempts[k] EXCEPT !.termed = TRUE]
<1>1. attempts[k] \in Attempt
  BY ElementOfSeq DEF TypeOK
<1>2. r \in Attempt /\ Keeps(attempts[k], r)
  BY <1>1 DEF Attempt, Keeps, Items
<1>3. QED
  BY <1>2, OneIsKept DEF SignalGroup

LEMMA GraceKeeps ==
  ASSUME TypeOK, NEW k \in DOMAIN attempts, GraceEnds(k)
  PROVE  ClientsKept
<1>1. attempts[k] \in Attempt
  BY ElementOfSeq DEF TypeOK
<1>2. CASE Running(k)
  <2> DEFINE r == [attempts[k] EXCEPT !.leader = "killed", !.child = FALSE]
  <2>1. r \in Attempt /\ Keeps(attempts[k], r)
    BY <1>1, <1>2 DEF Attempt, Keeps, Items, Running
  <2>2. attempts' = [attempts EXCEPT ![k] = r]
    BY <1>2 DEF GraceEnds, KillGroup
  <2>3. QED
    BY <2>1, <2>2, OneIsKept
<1>3. CASE ~ Running(k)
  BY <1>3 DEF GraceEnds, ClientsKept, Keeps
<1>4. QED
  BY <1>2, <1>3

LEMMA ClientOrServerKeeps ==
  ASSUME TypeOK, ClientOrServer
  PROVE  ClientsKept
<1>1. PICK k \in DOMAIN attempts :
        \/ ClientSends(k) \/ ClientSucceeds(k) \/ ClientFails(k)
        \/ ClientTerminates(k) \/ ChildEnds(k)
        \/ ServerExecutes(k) \/ ServerCloses(k)
  BY DEF ClientOrServer
<1> DEFINE a == attempts[k]
           Moves(r) == attempts' = [attempts EXCEPT ![k] = r] /\ r \in Attempt /\ Keeps(a, r)
<1>2. a \in Attempt
  BY ElementOfSeq DEF TypeOK
<1>3. CASE ClientSends(k)
  <2>1. Moves([a EXCEPT !.sent = @ + 1])
    BY <1>2, <1>3 DEF ClientSends, Attempt, Keeps, Items
  <2>2. QED
    BY <2>1, OneIsKept
<1>4. CASE ClientSucceeds(k)
  <2>1. Moves([a EXCEPT !.leader = "ok", !.open = FALSE])
    BY <1>2, <1>4 DEF ClientSucceeds, Attempt, Keeps, Items
  <2>2. QED
    BY <2>1, OneIsKept
<1>5. CASE ClientFails(k)
  <2>1. Moves([a EXCEPT !.leader = "failed"])
    BY <1>2, <1>5 DEF ClientFails, Attempt, Keeps, Running
  <2>2. QED
    BY <2>1, OneIsKept
<1>6. CASE ClientTerminates(k)
  <2>1. Moves([a EXCEPT !.leader = "killed"])
    BY <1>2, <1>6 DEF ClientTerminates, Attempt, Keeps, Running
  <2>2. QED
    BY <2>1, OneIsKept
<1>7. CASE ChildEnds(k)
  <2>1. Moves([a EXCEPT !.child = FALSE])
    BY <1>2, <1>7 DEF ChildEnds, Attempt, Keeps, Items
  <2>2. QED
    BY <2>1, OneIsKept
<1>8. CASE ServerExecutes(k)
  <2>1. Moves([a EXCEPT !.done = @ + 1])
    BY <1>2, <1>8 DEF ServerExecutes, Attempt, Keeps, Items
  <2>2. QED
    BY <2>1, OneIsKept
<1>9. CASE ServerCloses(k)
  <2>1. Moves([a EXCEPT !.open = FALSE])
    BY <1>2, <1>9 DEF ServerCloses, Attempt, Keeps, Items
  <2>2. QED
    BY <2>1, OneIsKept
<1>10. QED
  BY <1>1, <1>3, <1>4, <1>5, <1>6, <1>7, <1>8, <1>9

LEMMA InstanceLostKeeps ==
  ASSUME TypeOK, InstanceLost
  PROVE  ClientsKept
<1> DEFINE Lost(a) == [a EXCEPT !.leader = IF @ = "running" THEN "killed" ELSE @,
                                !.child = FALSE]
<1>1. \A k \in DOMAIN attempts : attempts[k] \in Attempt
  BY ElementOfSeq DEF TypeOK
<1>2. \A a \in Attempt : Keeps(a, Lost(a))
  BY DEF Attempt, Keeps, Items
<1>3. attempts' = [k \in DOMAIN attempts |-> Lost(attempts[k])]
  BY DEF InstanceLost
<1> HIDE DEF Lost
<1>4. Len(attempts') = Len(attempts)
  BY InstanceLostMoves DEF SameClients
<1>5. QED
  BY <1>1, <1>2, <1>3, <1>4 DEF ClientsKept

LEMMA RecordKeeps ==
  ASSUME Inv, Record
  PROVE  ClientsKept
<1> DEFINE n == Len(attempts)
           r == [attempts[n] EXCEPT !.known = TRUE]
<1>1. n \in DOMAIN attempts
  BY EmptySeq, LenProperties DEF Inv, TypeOK, Control, Record, At
<1>2. attempts[n] \in Attempt
  BY <1>1, ElementOfSeq DEF Inv, TypeOK
<1>3. r \in Attempt /\ Keeps(attempts[n], r)
  BY <1>2 DEF Attempt, Keeps, Items
<1>4. attempts' = [attempts EXCEPT ![n] = r]
  BY DEF Record
<1>5. QED
  BY <1>1, <1>3, <1>4, OneIsKept DEF Inv

\* The client in hand is the newest one.
LEMMA CurrentIsLast ==
  ASSUME Inv, pc \in {"wait", "grace"} \/ handler \in {"kill", "grace"}
  PROVE  current \in DOMAIN attempts /\ current = Len(attempts)
  BY EmptySeq, LenProperties DEF Inv, TypeOK, Control

\* Only Spawn adds a client, and no step makes another one of it.
LEMMA Kept ==
  ASSUME Inv, [Next]_vars, ~ Spawn
  PROVE  ClientsKept
<1>1. CASE attempts' = attempts
  BY <1>1 DEF ClientsKept, Keeps
<1>2. CASE Record
  BY <1>2, RecordKeeps
<1>3. CASE StepTimesOut
  BY <1>3, CurrentIsLast, SignalledIsKept DEF StepTimesOut, At, Inv
<1>4. CASE TimeoutEnds
  BY <1>4, CurrentIsLast, GraceKeeps DEF TimeoutEnds, At, Inv
<1>5. CASE HandlerKills
  BY <1>5, CurrentIsLast, SignalledIsKept DEF HandlerKills, Inv
<1>6. CASE HandlerGraceEnds
  BY <1>6, CurrentIsLast, GraceKeeps DEF HandlerGraceEnds, Inv
<1>7. CASE ClientOrServer
  BY <1>7, ClientOrServerKeeps DEF Inv
<1>8. CASE InstanceLost
  BY <1>8, InstanceLostKeeps DEF Inv
<1>9. CASE \/ BuildPlan \/ Fetch \/ Execute \/ ClientReturns \/ FinishStep \/ Exit
           \/ Sigterm \/ PollClient \/ HandlerLeaves \/ Upload \/ UNCHANGED vars
  <2>1. attempts' = attempts
    BY <1>9 DEF BuildPlan, Fetch, Execute, ClientReturns, FinishStep, Exit,
       Sigterm, PollClient, HandlerLeaves, Upload, vars
  <2>2. QED
    BY <1>1, <2>1
<1>10. QED
  BY <1>2, <1>3, <1>4, <1>5, <1>6, <1>7, <1>8, <1>9
  DEF Next, MainThread, Handler

\* The clients of the run are the same then.
LEMMA SameMine ==
  ASSUME ClientsKept, run' = run
  PROVE  Mine' = Mine
  BY DEF ClientsKept, Keeps, Mine

\* What Spawn does to the sequence.
LEMMA SpawnAdds ==
  ASSUME Inv, Spawn
  PROVE  LET n == Len(attempts) IN
           /\ n \in Nat /\ Len(attempts') = n + 1
           /\ DOMAIN attempts = 1 .. n /\ DOMAIN attempts' = 1 .. n + 1
           /\ attempts'[n + 1] = NewAttempt
           /\ \A k \in 1 .. n : attempts'[k] = attempts[k]
           /\ Mine' = Mine \cup {n + 1}
<1> DEFINE n == Len(attempts)
<1>1. NewAttempt \in Attempt
  BY NewAttemptType DEF Inv, Control, InStep, Spawn, At
<1>2. /\ n \in Nat /\ Len(attempts') = n + 1
      /\ DOMAIN attempts = 1 .. n /\ DOMAIN attempts' = 1 .. n + 1
      /\ attempts'[n + 1] = NewAttempt
      /\ \A k \in 1 .. n : attempts'[k] = attempts[k]
  BY <1>1, AppendProperties, LenProperties DEF Spawn, Inv, TypeOK
<1>3. NewAttempt.run = run /\ run' = run
  BY DEF NewAttempt, Spawn
<1>4. Mine' = Mine \cup {n + 1}
  BY <1>2, <1>3 DEF Mine
<1>5. QED
  BY <1>2, <1>4

\* The process serves one request.
LEMMA SameRequest ==
  ASSUME [Next]_vars
  PROVE  request' = request /\ run' = run /\ steps' = steps
<1>1. request' = request /\ run' = run
  BY DEF Next, MainThread, Handler, BuildPlan, Fetch, Execute, Spawn, Record,
     ClientReturns, StepTimesOut, TimeoutEnds, FinishStep, Exit, Sigterm,
     PollClient, HandlerKills, HandlerGraceEnds, HandlerLeaves, ClientOrServer,
     Upload, InstanceLost, vars
<1>2. QED
  BY <1>1 DEF steps

-----------------------------------------------------------------------------
(* Signalled and Checked: the place of the main thread. *)

LEMMA SignalledStep ==
  ASSUME Inv, Signalled, [Next]_vars
  PROVE  Signalled'
<1> USE DEF Signalled, signalVars
<1>1. CASE MainThread
  BY <1>1 DEF MainThread, At, BuildPlan, Fetch, Execute, Spawn, Record,
     ClientReturns, StepTimesOut, TimeoutEnds, FinishStep, Exit
<1>2. CASE Sigterm
  BY <1>2 DEF Sigterm
<1>3. CASE Handler
  BY <1>3 DEF Handler, PollClient, HandlerKills, HandlerGraceEnds, HandlerLeaves
<1>4. CASE ClientOrServer \/ Upload \/ InstanceLost \/ UNCHANGED vars
  BY <1>4 DEF ClientOrServer, Upload, InstanceLost, vars
<1>5. QED
  BY <1>1, <1>2, <1>3, <1>4 DEF Next

\* The main thread gets to "execute" with a probe, or past the verification.
LEMMA CheckedStep ==
  ASSUME Inv, Checked, [Next]_vars
  PROVE  Checked'
<1> USE DEF Checked, Cur, mainVars, signalVars
<1>1. steps' = steps /\ request' = request
  BY SameRequest
<1>2. CASE BuildPlan
  BY <1>1, <1>2 DEF BuildPlan, LoopHead, Return, At, Inv, Control
<1>3. CASE Fetch
  BY <1>1, <1>3 DEF Fetch, Settle, PinRefuses, Verified, Uncaught, Return
<1>4. CASE Execute
  BY <1>1, <1>4 DEF Execute, Settle, Uncaught, Return, At
<1>5. CASE FinishStep
  BY <1>1, <1>5 DEF FinishStep, Return, LoopHead
<1>6. CASE Spawn \/ Record \/ ClientReturns \/ StepTimesOut \/ TimeoutEnds \/ Exit
  BY <1>6 DEF Spawn, Record, ClientReturns, StepTimesOut, TimeoutEnds, Exit, Settle
<1>7. CASE Handler
  BY <1>1, <1>7 DEF Handler, PollClient, HandlerKills, HandlerGraceEnds, HandlerLeaves
<1>8. CASE Sigterm \/ ClientOrServer \/ Upload \/ InstanceLost \/ UNCHANGED vars
  BY <1>1, <1>8 DEF Sigterm, ClientOrServer, Upload, InstanceLost, vars
<1>9. QED
  BY <1>2, <1>3, <1>4, <1>5, <1>6, <1>7, <1>8 DEF Next, MainThread

-----------------------------------------------------------------------------
(* Origin: a client is what the loop made it. *)

LEMMA OriginStep ==
  ASSUME Inv, Checked, Origin, [Next]_vars
  PROVE  Origin'
<1>1. steps' = steps /\ request' = request
  BY SameRequest
<1>2. \A a, s : (Suits(a, s)' <=> Suits(a, s)) /\ (Sound(a)' <=> Sound(a))
  BY <1>1 DEF Suits, Sound
<1>3. CASE Spawn
  <2> DEFINE n == Len(attempts)
  <2>1. /\ n \in Nat /\ DOMAIN attempts = 1 .. n /\ DOMAIN attempts' = 1 .. n + 1
        /\ attempts'[n + 1] = NewAttempt
        /\ \A k \in 1 .. n : attempts'[k] = attempts[k]
        /\ Mine' = Mine \cup {n + 1}
    BY <1>3, SpawnAdds
  <2>2. Suits(NewAttempt, steps[NewAttempt.step]) /\ Sound(NewAttempt)
    BY <1>3 DEF Suits, Sound, NewAttempt, ClientInput, Cur, Checked, Spawn, At
  <2>3. Mine \subseteq 1 .. n
    BY <2>1 DEF Mine
  <2>4. \A k \in 1 .. n + 1 : Sound(attempts'[k])
    BY <2>1, <2>2 DEF Origin
  <2>5. \A k \in Mine \cup {n + 1} : Suits(attempts'[k], steps[attempts'[k].step])
    BY <2>1, <2>2, <2>3 DEF Origin
  <2>6. QED
    BY <1>1, <2>1, <2>4, <2>5 DEF Origin, Suits, Sound
<1>4. CASE ~ Spawn
  <2>1. ClientsKept /\ Mine' = Mine /\ Mine \subseteq DOMAIN attempts
    BY <1>4, Kept, SameRequest, SameMine DEF Mine
  <2>2. \A k \in Mine : Suits(attempts'[k], steps[attempts'[k].step])
    BY <2>1 DEF ClientsKept, Keeps, Origin, Suits
  <2>3. \A k \in DOMAIN attempts : Sound(attempts'[k])
    BY <2>1 DEF ClientsKept, Keeps, Origin, Sound
  <2>4. QED
    BY <1>1, <2>1, <2>2, <2>3 DEF Origin, Suits, Sound, ClientsKept
<1>5. QED
  BY <1>3, <1>4

-----------------------------------------------------------------------------
(* Verdicts: behind a verdict of 0 stands a client. *)

\* What was carried out stays so.
LEMMA CarriedOutStays ==
  ASSUME Inv, [Next]_vars, NEW i, CarriedOut(i)
  PROVE  CarriedOut(i)'
<1>1. PICK k \in Mine : attempts[k].step = i /\ attempts[k].leader = "ok"
  BY DEF CarriedOut
<1>2. k \in DOMAIN attempts
  BY DEF Mine
<1>3. CASE Spawn
  BY <1>1, <1>2, <1>3, SpawnAdds DEF CarriedOut
<1>4. CASE ~ Spawn
  BY <1>1, <1>2, <1>4, Kept, SameRequest, SameMine DEF ClientsKept, Keeps, CarriedOut
<1>5. QED
  BY <1>3, <1>4

LEMMA VerdictsStep ==
  ASSUME Inv, Checked, Verdicts, [Next]_vars
  PROVE  Verdicts'
<1>1. steps' = steps /\ request' = request
  BY SameRequest
<1>2. \A i : Executed(i)' <=> Executed(i)
  BY <1>1 DEF Executed
<1>3. \A i : CarriedOut(i) => CarriedOut(i)'
  BY CarriedOutStays
<1> DEFINE First  == pc \in {"record", "wait", "grace"} => attempts[Len(attempts)].step = idx
           Second == \A i \in DOMAIN results :
                       results[i] = EXIT_OK /\ Executed(i) => CarriedOut(i)
           Third  == pc = "finish" =>
             /\ outcome \in {EXIT_OK, EXIT_SCRIPT, EXIT_INTEGRITY, EXIT_CONFIG, EXIT_TIMEOUT}
             /\ outcome = EXIT_OK /\ Executed(idx) => CarriedOut(idx)
<1>4. First'
  <2>1. CASE Spawn
    <3>1. NewAttempt.step = idx
      BY DEF NewAttempt
    <3>2. idx' = idx
      BY <2>1 DEF Spawn, mainVars
    <3>3. QED
      BY <2>1, <3>1, <3>2, SpawnAdds
  <2>2. CASE Record \/ StepTimesOut
    <3>1. ClientsKept
      BY <2>2, Kept DEF Record, StepTimesOut, Spawn, At
    <3>2. Len(attempts) \in DOMAIN attempts
      BY <2>2, EmptySeq, LenProperties DEF Record, StepTimesOut, At, Inv, TypeOK, Control
    <3>3. QED
      BY <2>2, <3>1, <3>2 DEF Record, StepTimesOut, At, mainVars, ClientsKept, Keeps, Verdicts
  <2>3. CASE Sigterm \/ PollClient \/ HandlerKills \/ HandlerGraceEnds
             \/ ClientOrServer \/ Upload \/ UNCHANGED vars
    <3>1. pc' = pc /\ idx' = idx
      BY <2>3 DEF Sigterm, PollClient, HandlerKills, HandlerGraceEnds,
         ClientOrServer, Upload, vars, mainVars
    <3>2. pc \in {"record", "wait", "grace"} => Len(attempts) \in DOMAIN attempts
      BY EmptySeq, LenProperties DEF Inv, TypeOK, Control
    <3>3. CASE Spawn
      BY <3>1, <3>3 DEF Spawn, At
    <3>4. CASE ~ Spawn
      BY <3>1, <3>2, <3>4, Kept DEF ClientsKept, Keeps, Verdicts
    <3>5. QED
      BY <3>3, <3>4
  <2>4. CASE \/ BuildPlan \/ Fetch \/ Execute \/ ClientReturns \/ TimeoutEnds
             \/ FinishStep \/ Exit \/ HandlerLeaves \/ InstanceLost
    <3>1. pc' \notin {"record", "wait", "grace"}
      BY <2>4 DEF BuildPlan, Fetch, Execute, ClientReturns, TimeoutEnds,
         FinishStep, Exit, HandlerLeaves, InstanceLost, Settle, Return, Uncaught,
         Verified, LoopHead
    <3>2. QED
      BY <3>1
  <2>5. QED
    BY <2>1, <2>2, <2>3, <2>4 DEF Next, MainThread, Handler
<1>5. Second'
  <2>1. CASE FinishStep
    <3>1. results \in Seq(ExitCode) /\ outcome \in ExitCode /\ Len(results) = idx - 1 /\ idx \in Nat
      BY <2>1 DEF FinishStep, At, Inv, TypeOK, Control, InStep
    <3>2. /\ DOMAIN results' = 1 .. idx /\ DOMAIN results = 1 .. idx - 1
          /\ results'[idx] = outcome
          /\ \A i \in 1 .. idx - 1 : results'[i] = results[i]
      BY <2>1, <3>1, AppendProperties, LenProperties DEF FinishStep
    <3>3. outcome = EXIT_OK /\ Executed(idx) => CarriedOut(idx)
      BY <2>1 DEF FinishStep, At, Verdicts
    <3>4. \A i \in 1 .. idx : results'[i] = EXIT_OK /\ Executed(i) => CarriedOut(i)
      BY <3>1, <3>2, <3>3 DEF Verdicts
    <3>5. QED
      BY <1>2, <1>3, <3>2, <3>4
  <2>2. CASE ~ FinishStep
    <3>1. results' = results
      BY <2>2 DEF Next, MainThread, Handler, BuildPlan, Fetch, Execute, Spawn,
         Record, ClientReturns, StepTimesOut, TimeoutEnds, Exit, Sigterm,
         PollClient, HandlerKills, HandlerGraceEnds, HandlerLeaves,
         ClientOrServer, Upload, InstanceLost, vars, mainVars
    <3>2. QED
      BY <1>2, <1>3, <3>1 DEF Verdicts
  <2>3. QED
    BY <2>1, <2>2
<1>6. Third'
  <2> USE DEF EXIT_OK, EXIT_SCRIPT, EXIT_INTEGRITY, EXIT_CONFIG, EXIT_TIMEOUT
  <2>1. CASE Fetch
    <3>1. idx' = idx
      BY <2>1 DEF Fetch
    <3>2. CASE Settle(EXIT_CONFIG) \/ Settle(EXIT_INTEGRITY)
      BY <3>1, <3>2 DEF Settle
    <3>3. CASE Verified
      <4>1. ~ Executed(idx) \/ pc' # "finish"
        BY <2>1, <3>3 DEF Verified, Executed, Fetch, At, Inv, Control, Cur
      <4>2. pc' = "finish" => outcome' = EXIT_OK
        BY <3>3 DEF Verified, Settle
      <4>3. QED
        BY <1>2, <3>1, <4>1, <4>2
    <3>4. CASE Uncaught
      BY <3>1, <3>4 DEF Uncaught, Return
    <3>5. QED
      BY <2>1, <3>2, <3>3, <3>4 DEF Fetch
  <2>2. CASE Execute
    BY <2>2 DEF Execute, Settle, Uncaught, Return
  <2>3. CASE ClientReturns
    <3>1. current \in DOMAIN attempts /\ current = Len(attempts)
      BY <2>3, CurrentIsLast DEF ClientReturns, At
    <3>2. attempts[current].step = idx
      BY <2>3, <3>1 DEF ClientReturns, At, Verdicts
    <3>3. current \in Mine
      BY <2>3, <3>1 DEF ClientReturns, At, Inv, Clients
    <3>4. outcome' = EXIT_OK => CarriedOut(idx)
      BY <2>3, <3>2, <3>3 DEF ClientReturns, Settle, CarriedOut
    <3>5. idx' = idx /\ outcome' \in {EXIT_OK, EXIT_SCRIPT}
      BY <2>3 DEF ClientReturns, Settle
    <3>6. QED
      BY <1>3, <3>4, <3>5
  <2>4. CASE TimeoutEnds
    BY <2>4 DEF TimeoutEnds, Settle
  <2>5. CASE Sigterm \/ PollClient \/ HandlerKills \/ HandlerGraceEnds
             \/ ClientOrServer \/ Upload \/ UNCHANGED vars
    <3>1. pc' = pc /\ idx' = idx /\ outcome' = outcome
      BY <2>5 DEF Sigterm, PollClient, HandlerKills, HandlerGraceEnds,
         ClientOrServer, Upload, vars, mainVars
    <3>2. QED
      BY <1>2, <1>3, <3>1 DEF Verdicts
  <2>6. CASE BuildPlan \/ Spawn \/ Record \/ StepTimesOut \/ FinishStep \/ Exit
             \/ HandlerLeaves \/ InstanceLost
    <3>1. pc' # "finish"
      BY <2>6 DEF BuildPlan, Spawn, Record, StepTimesOut, FinishStep, Exit,
         HandlerLeaves, InstanceLost, Return, LoopHead
    <3>2. QED
      BY <3>1
  <2>7. QED
    BY <2>1, <2>2, <2>3, <2>4, <2>5, <2>6 DEF Next, MainThread, Handler
<1>7. QED
  BY <1>4, <1>5, <1>6 DEF Verdicts

-----------------------------------------------------------------------------
(* Report: the exit status and the resume hint. *)

\* Steps that file no verdict leave the report alone, apart from the place.
Unreported == UNCHANGED <<results, firstFailure, hint, request>>

LEMMA FrontierStays ==
  ASSUME Inv, [Next]_vars, ~ Spawn, Unreported, NEW h \in DOMAIN steps, Frontier(h)
  PROVE  Frontier(h)'
<1>1. steps' = steps
  BY SameRequest
<1>2. ClientsKept /\ Mine' = Mine /\ Mine \subseteq DOMAIN attempts
  BY Kept, SameRequest, SameMine DEF Mine
<1>3. QED
  BY <1>1, <1>2 DEF Unreported, Frontier, Running, ClientsKept, Keeps

LEMMA FinishStepReport ==
  ASSUME Inv, Verdicts, Report, FinishStep
  PROVE  Report'
<1> USE DEF EXIT_OK
<1>1. steps' = steps
  BY DEF FinishStep, steps
<1>2. /\ idx \in DOMAIN steps /\ idx \in Nat \ {0} /\ Cur = steps[idx]
      /\ DOMAIN steps = 1 .. Len(steps) /\ Len(steps) \in Nat /\ Cur \in Step
  BY RequestType DEF FinishStep, At, Inv, TypeOK, Control, InStep, Cur
<1>3. results \in Seq(ExitCode) /\ outcome \in ExitCode /\ Len(results) = idx - 1
  BY DEF FinishStep, At, Inv, TypeOK, Control, InStep
<1>4. /\ results' \in Seq(ExitCode) /\ Len(results') = idx
      /\ DOMAIN results' = 1 .. idx /\ DOMAIN results = 1 .. idx - 1
      /\ results'[idx] = outcome
      /\ \A i \in 1 .. idx - 1 : results'[i] = results[i]
  BY <1>2, <1>3, AppendProperties, LenProperties DEF FinishStep
<1>5. firstFailure' = IF firstFailure = EXIT_OK THEN outcome ELSE firstFailure
  BY DEF FinishStep, FirstFailure
<1>6. FirstFailureIsFirst'
  <2>1. CASE firstFailure = EXIT_OK /\ \A i \in DOMAIN results : results[i] = EXIT_OK
    <3>1. \A i \in 1 .. idx - 1 : results'[i] = EXIT_OK
      BY <1>4, <2>1
    <3>2. CASE outcome = EXIT_OK
      <4>1. \A i \in 1 .. idx : results'[i] = EXIT_OK
        BY <1>2, <1>4, <3>1, <3>2
      <4>2. QED
        BY <1>4, <1>5, <2>1, <3>2, <4>1 DEF FirstFailureIsFirst
    <3>3. CASE outcome # EXIT_OK
      BY <1>2, <1>4, <1>5, <2>1, <3>1, <3>3 DEF FirstFailureIsFirst
    <3>4. QED
      BY <3>2, <3>3
  <2>2. ASSUME NEW i \in DOMAIN results,
               results[i] = firstFailure, firstFailure # EXIT_OK,
               \A j \in 1 .. i - 1 : results[j] = EXIT_OK
        PROVE  FirstFailureIsFirst'
    <3>1. i \in DOMAIN results' /\ results'[i] = firstFailure'
      BY <1>2, <1>4, <1>5, <2>2
    <3>2. \A j \in 1 .. i - 1 : results'[j] = EXIT_OK
      BY <1>2, <1>4, <2>2
    <3>3. QED
      BY <1>5, <2>2, <3>1, <3>2 DEF FirstFailureIsFirst
  <2>3. QED
    BY <2>1, <2>2 DEF Report, FirstFailureIsFirst
<1>7. exitCode = NoCode /\ hint = NoName
  BY DEF Report, StatusFits, FinishStep, At
<1>8. NoCode \notin Int
  BY RunnerAssumption
<1>9. NoMoreThanSteps'
  BY <1>1, <1>2, <1>4 DEF NoMoreThanSteps
<1>10. CASE Stops
  <2>1. pc' = "cleanup" /\ exitCode' = firstFailure' /\ outcome # EXIT_OK
        /\ Cur.on_error = "stop" /\ hint' \in {Cur.name, NoName}
        /\ idx' = idx
    BY <1>10 DEF FinishStep, Return, Stops, ResumeAt
  <2>2. ListStopped'
    BY <1>1, <1>2, <1>4, <2>1 DEF ListStopped
  <2>3. firstFailure' # EXIT_OK
    BY <1>5, <2>1
  <2>4. hint' # NoName => \E h \in DOMAIN steps' : Frontier(h)'
    <3>1. ASSUME hint' = Cur.name
          PROVE  Frontier(idx)'
      <4>1. attempts' = attempts /\ Mine' = Mine
        BY DEF FinishStep, Mine
      <4>2. \A k \in Mine : attempts[k].step <= idx /\ ~ Running(k)
        BY <1>2 DEF Inv, Order, Clients, FinishStep, At
      <4>3. \A i \in 1 .. idx - 1 :
              results'[i] = EXIT_OK \/ steps'[i].on_error = "continue"
        BY <1>1, <1>2, <1>4 DEF Inv, Order
      <4>4. QED
        BY <1>1, <1>2, <1>4, <2>1, <3>1, <4>1, <4>2, <4>3 DEF Frontier, Running
    <3>2. QED
      BY <1>1, <1>2, <2>1, <3>1
  <2>5. QED
    BY <1>6, <1>9, <2>1, <2>2, <2>3, <2>4 DEF Report, StatusFits
<1>11. CASE ~ Stops
  <2>1. /\ pc' = LoopHead(idx + 1) /\ hint' = NoName
        /\ exitCode' = IF pc' = "cleanup" THEN firstFailure' ELSE exitCode
    BY <1>7, <1>11 DEF FinishStep
  <2>2. pc' = "cleanup" => idx = Len(steps)
    BY <1>2, <2>1 DEF LoopHead
  <2>3. pc' \in {"cleanup", "fetch", "execute"}
    BY <2>1 DEF LoopHead
  <2>4. QED
    BY <1>1, <1>4, <1>6, <1>7, <1>9, <2>1, <2>2, <2>3 DEF Report, StatusFits
<1>12. QED
  BY <1>10, <1>11

LEMMA OnlyFinishReports ==
  ASSUME [Next]_vars, ~ FinishStep
  PROVE  Unreported
  BY DEF Next, MainThread, Handler, BuildPlan, Fetch, Execute, Spawn,
     Record, ClientReturns, StepTimesOut, TimeoutEnds, Exit, Sigterm,
     PollClient, HandlerKills, HandlerGraceEnds, HandlerLeaves,
     ClientOrServer, Upload, InstanceLost, vars, mainVars, Unreported

LEMMA StatusFitsStep ==
  ASSUME Inv, Verdicts, StatusFits, [Next]_vars, ~ FinishStep
  PROVE  StatusFits'
<1> USE DEF EXIT_OK
<1>1. steps' = steps /\ request' = request
  BY SameRequest
<1>2. NoCode \notin Int
  BY RunnerAssumption
<1>3. Unreported
  BY OnlyFinishReports
<1>4. NoMoreThanSteps'
  BY <1>1, <1>3 DEF StatusFits, NoMoreThanSteps, Unreported
<1>5. ASSUME pc' \notin {"cleanup", "exited"},
             pc \notin {"cleanup", "exited"}, exitCode' = exitCode
      PROVE  StatusFits'
  BY <1>4, <1>3, <1>5 DEF Unreported, StatusFits
<1>6. ASSUME pc' = pc, exitCode' = exitCode
      PROVE  StatusFits'
  BY <1>4, <1>1, <1>3, <1>6 DEF Unreported, StatusFits, ListStopped
<1>7. CASE BuildPlan
  <2>1. CASE pc' = LoopHead(1) /\ UNCHANGED exitCode
    <3>1. pc' \in {"fetch", "execute"}
      BY <2>1, RequestType DEF LoopHead, Inv
    <3>2. pc = "build"
      BY <1>7 DEF BuildPlan, FinishStep, At
    <3>3. QED
      BY <1>5, <2>1, <3>1, <3>2
  <2>2. ASSUME NEW code \in RefusalCode, Return(code)
        PROVE  StatusFits'
    <3>1. results = <<>> /\ UNCHANGED results
      BY <1>7 DEF BuildPlan, At, Inv, Control, mainVars
    <3>2. code # EXIT_OK
      BY DEF RefusalCode, EXIT_UNEXPECTED, EXIT_INTEGRITY, EXIT_CONFIG
    <3>3. QED
      BY <1>4, <2>2, <3>1, <3>2 DEF Return, StatusFits, mainVars
  <2>3. QED
    BY <1>7, <2>1, <2>2 DEF BuildPlan
<1>8. CASE Fetch \/ Execute
  <2> USE DEF Fetch, Execute, Settle, Uncaught, Return, Verified
  <2>1. pc \in {"fetch", "execute"}
    BY <1>8 DEF FinishStep, At
  <2>2. CASE exitCode' = exitCode
    <3>1. pc' \in {"execute", "spawn", "finish", "cleanup"}
      BY <1>8
    <3>2. CASE pc' = "cleanup"
      <4>1. exitCode = NoCode /\ exitCode' = EXIT_UNEXPECTED
        BY <1>4, <1>8, <2>1, <3>2 DEF StatusFits
      <4>2. QED
        BY <1>2, <2>2, <4>1 DEF EXIT_UNEXPECTED
    <3>3. QED
      BY <1>5, <2>1, <2>2, <3>1, <3>2
  <2>3. CASE exitCode' # exitCode
    <3>1. pc' = "cleanup" /\ exitCode' = EXIT_UNEXPECTED
      BY <1>8, <2>3
    <3>2. /\ idx \in DOMAIN steps /\ Len(results) = idx - 1 /\ idx \in Nat
          /\ DOMAIN steps = 1 .. Len(steps) /\ Len(steps) \in Nat
          /\ DOMAIN results = 1 .. idx - 1
      BY <2>1, RequestType, LenProperties DEF Inv, Control, InStep, TypeOK
    <3>3. ~ ListStopped
      BY <3>2 DEF ListStopped, Inv, Order
    <3>4. (~ ListStopped)' /\ Len(results') < Len(steps')
      BY <1>1, <1>3, <2>1, <3>2, <3>3 DEF ListStopped, Unreported
    <3>5. QED
      BY <1>4, <3>1, <3>4 DEF EXIT_UNEXPECTED, StatusFits
  <2>4. QED
    BY <2>2, <2>3
<1>9. CASE Spawn \/ Record \/ ClientReturns \/ StepTimesOut \/ TimeoutEnds
  <2>1. /\ pc \notin {"cleanup", "exited"}
        /\ pc' \notin {"cleanup", "exited"} /\ exitCode' = exitCode
    BY <1>9 DEF Spawn, Record, ClientReturns, StepTimesOut, TimeoutEnds,
       FinishStep, At, Settle
  <2>2. QED
    BY <1>5, <2>1
<1>10. CASE Exit
  BY <1>4, <1>1, <1>10 DEF Exit, At, mainVars, StatusFits
<1>11. CASE HandlerLeaves
  BY <1>4, <1>11 DEF HandlerLeaves, EXIT_INTERRUPTED, StatusFits
<1>12. CASE InstanceLost
  <2>1. NoCode # 0
    BY <1>2
  <2>2. pc' = "exited" /\ exitCode' = NoCode
    BY <1>12 DEF InstanceLost
  <2>3. QED
    BY <1>4, <2>1, <2>2 DEF StatusFits
<1>13. CASE Sigterm \/ PollClient \/ HandlerKills \/ HandlerGraceEnds
            \/ ClientOrServer \/ Upload \/ UNCHANGED vars
  <2>1. pc' = pc /\ exitCode' = exitCode
    BY <1>13 DEF Sigterm, PollClient, HandlerKills, HandlerGraceEnds,
       ClientOrServer, Upload, vars, mainVars
  <2>2. QED
    BY <1>6, <2>1
<1>14. QED
  BY <1>7, <1>8, <1>9, <1>10, <1>11, <1>12, <1>13
  DEF Next, MainThread, Handler

LEMMA ReportStep ==
  ASSUME Inv, Verdicts, Report, [Next]_vars
  PROVE  Report'
<1>1. CASE FinishStep
  BY <1>1, FinishStepReport
<1>2. CASE ~ FinishStep
  <2>1. Unreported /\ steps' = steps
    BY <1>2, OnlyFinishReports, SameRequest
  <2>2. FirstFailureIsFirst'
    BY <2>1 DEF Report, FirstFailureIsFirst, Unreported
  <2>3. StatusFits'
    BY <1>2, StatusFitsStep DEF Report
  <2>4. hint' # NoName => \E h \in DOMAIN steps' : Frontier(h)'
    <3>1. CASE Spawn
      BY <2>1, <3>1 DEF Unreported, Report, StatusFits, Spawn, At
    <3>2. CASE ~ Spawn
      BY <2>1, <3>2, FrontierStays DEF Unreported, Report
    <3>3. QED
      BY <3>1, <3>2
  <2>5. QED
    BY <2>2, <2>3, <2>4 DEF Report
<1>3. QED
  BY <1>1, <1>2

-----------------------------------------------------------------------------
Outcomes == Inv /\ Signalled /\ Checked /\ Origin /\ Verdicts /\ Report

LEMMA InitOutcomes == Init => Outcomes
<1> SUFFICES ASSUME Init PROVE Outcomes
  OBVIOUS
<1>1. Inv
  BY InitInv
<1>2. Signalled /\ Checked /\ Origin
  BY EmptySeq DEF Init, InitMain, Signalled, Checked, Origin, Mine
<1>3. Verdicts
  BY DEF Init, InitMain, Verdicts
<1>4. Report
  BY <1>1, RequestType, EmptySeq DEF Init, InitMain, Inv, Report, StatusFits,
     NoMoreThanSteps, FirstFailureIsFirst
<1>5. QED
  BY <1>1, <1>2, <1>3, <1>4 DEF Outcomes

LEMMA NextOutcomes == Outcomes /\ [Next]_vars => Outcomes'
  BY NextInv, SignalledStep, CheckedStep, OriginStep, VerdictsStep, ReportStep
  DEF Outcomes

\* What the log of a run says of its steps fits what their clients did.
THEOREM OutcomesHold == Spec => []Outcomes
  BY InitOutcomes, NextOutcomes, PTL DEF Spec

-----------------------------------------------------------------------------
(* What follows for the operator. Each lemma is about a state or a step in  *)
(* which Outcomes holds, whatever runs came before.                         *)

LEMMA NothingStartsFact ==
  ASSUME Outcomes, [Next]_vars, signals > 0
  PROVE  Len(attempts') = Len(attempts)
<1>1. ~ Spawn
  BY DEF Outcomes, Signalled, Spawn, At
<1>2. QED
  BY <1>1, Kept DEF Outcomes, ClientsKept

\* A signal is never taken for a step's failure: once it has arrived, the loop
\* of run() starts no client any more, whatever on_error says.
THEOREM NothingStarts == Spec => NothingStartsAfterASignal
<1>1. Outcomes /\ [Next]_vars => [signals > 0 => Len(attempts') = Len(attempts)]_vars
  BY NothingStartsFact
<1>2. QED
  BY <1>1, OutcomesHold, PTL DEF Spec, NothingStartsAfterASignal

LEMMA PinnedFact == Outcomes => OnlyPinnedContent
  BY DEF Outcomes, Origin, Suits, OnlyPinnedContent

\* The content a client gets is the one its step is pinned to, whatever is
\* uploaded between the download, the comparison and the start.
THEOREM PinnedContent == Spec => []OnlyPinnedContent
  BY PinnedFact, OutcomesHold, PTL

\* Status 0: every step of the list has the verdict 0.
LEMMA ZeroVerdicts ==
  ASSUME Outcomes, Exited(EXIT_OK)
  PROVE  /\ DOMAIN results = DOMAIN steps
         /\ \A i \in DOMAIN steps : results[i] = EXIT_OK
<1>1. Len(results) = Len(steps) /\ firstFailure = EXIT_OK
  BY DEF Outcomes, Report, StatusFits, Exited
<1>2. DOMAIN results = DOMAIN steps
  BY <1>1, RequestType, LenProperties DEF Outcomes, Inv, TypeOK
<1>3. QED
  BY <1>1, <1>2 DEF Outcomes, Report, FirstFailureIsFirst

\* Two clients of a run belong to different steps.
LEMMA OneClientPerStep ==
  ASSUME Inv, NEW k \in Mine, NEW l \in Mine, k # l
  PROVE  attempts[k].step # attempts[l].step
<1>1. attempts \in Seq(Attempt) /\ k \in DOMAIN attempts /\ l \in DOMAIN attempts
  BY DEF Inv, TypeOK, Mine
<1>2. attempts[k] \in Attempt /\ attempts[l] \in Attempt /\ k \in Nat /\ l \in Nat
  BY <1>1, ElementOfSeq, LenProperties
<1>3. attempts[k].step \in Nat /\ attempts[l].step \in Nat
  BY <1>2 DEF Attempt
<1>4. k < l \/ l < k
  BY <1>2
<1>5. attempts[k].step < attempts[l].step \/ attempts[l].step < attempts[k].step
  BY <1>4 DEF Inv, Order
<1>6. QED
  BY <1>3, <1>5

LEMMA ZeroFact == Outcomes => ExitZeroMeansApplied
<1> SUFFICES ASSUME Outcomes, Exited(EXIT_OK), ~ request.dry_run,
                    NEW i \in DOMAIN steps
             PROVE  \E k \in Mine :
                      /\ attempts[k].step = i
                      /\ attempts[k].leader = "ok"
                      /\ attempts[k].done = Items(attempts[k])
                      /\ \A l \in Mine \ {k} : attempts[l].step # i
  BY DEF ExitZeroMeansApplied
<1>1. i \in DOMAIN results /\ results[i] = EXIT_OK
  BY ZeroVerdicts
<1>2. PICK k \in Mine : attempts[k].step = i /\ attempts[k].leader = "ok"
  BY <1>1 DEF Outcomes, Verdicts, Executed, CarriedOut
<1>3. attempts[k].done = Items(attempts[k])
  BY <1>2 DEF Outcomes, Origin, Sound, Mine
<1>4. \A l \in Mine \ {k} : attempts[l].step # i
  BY <1>2, OneClientPerStep DEF Outcomes
<1>5. QED
  BY <1>2, <1>3, <1>4

\* Exit status 0 of a run that is no dry run: each step of the list was
\* carried through, by one client.
THEOREM ZeroMeansApplied == Spec => []ExitZeroMeansApplied
  BY ZeroFact, OutcomesHold, PTL

LEMMA FrontierFact == Outcomes => HintIsTheFrontier
  BY DEF Outcomes, Report, Frontier, HintIsTheFrontier

\* The StartAt of the log is the step the run stopped at: nothing before it is
\* missing, and nothing behind it was started.
THEOREM HintIsFrontier == Spec => []HintIsTheFrontier
  BY FrontierFact, OutcomesHold, PTL

\* StepList appends a probe of every target to the list of a dry run.
Probed(r) ==
  r.dry_run => \A i \in DOMAIN r.steps : \E j \in DOMAIN r.steps :
    r.steps[j].type = "check" /\ r.steps[j].target = r.steps[i].target

LEMMA DryRunFact ==
  ASSUME Outcomes, Probed(request)
  PROVE  DryRunProvesTargets
<1> SUFFICES ASSUME request.dry_run
             PROVE  /\ \A k \in Mine : attempts[k].kind = "check"
                    /\ Exited(EXIT_OK) =>
                         \A i \in DOMAIN steps : \E k \in Mine :
                           /\ steps[attempts[k].step].target = steps[i].target
                           /\ attempts[k].leader = "ok"
  BY DEF DryRunProvesTargets
<1>1. \A k \in Mine : attempts[k].kind = "check"
  BY DEF Outcomes, Origin, Sound, Mine
<1>2. ASSUME Exited(EXIT_OK), NEW i \in DOMAIN steps
      PROVE  \E k \in Mine : /\ steps[attempts[k].step].target = steps[i].target
                             /\ attempts[k].leader = "ok"
  <2>1. PICK j \in DOMAIN steps :
          steps[j].type = "check" /\ steps[j].target = steps[i].target
    BY <1>2 DEF Probed, steps
  <2>2. j \in DOMAIN results /\ results[j] = EXIT_OK
    BY <1>2, ZeroVerdicts
  <2>3. PICK k \in Mine : attempts[k].step = j /\ attempts[k].leader = "ok"
    BY <2>1, <2>2 DEF Outcomes, Verdicts, Executed, CarriedOut
  <2>4. QED
    BY <2>1, <2>3
<1>3. QED
  BY <1>1, <1>2

\* Given lists with their probes, a dry run starts nothing but probes, and
\* exits 0 only if one has connected to each target.
THEOREM DryRunProves ==
  ASSUME \A r \in Requests : Probed(r)
  PROVE  Spec => []DryRunProvesTargets
<1>1. Init => Probed(request)
  BY DEF Init, InitMain
<1>2. Probed(request) /\ [Next]_vars => Probed(request)'
  BY SameRequest DEF Probed
<1>3. Outcomes /\ Probed(request) => DryRunProvesTargets
  BY DryRunFact
<1>4. QED
  BY <1>1, <1>2, <1>3, OutcomesHold, PTL DEF Spec

-----------------------------------------------------------------------------
(* The refinement: a run is a run of OrderedSteps. *)

LEMMA PromiseInit == Init => Promise!Init
<1> SUFFICES ASSUME Init PROVE Promise!Init
  OBVIOUS
<1>1. TypeOK
  BY InitInv DEF Inv
<1>2. /\ DOMAIN steps = 1 .. Len(steps) /\ Len(steps) \in Nat
      /\ \A i \in DOMAIN steps : steps[i].on_error \in {"stop", "continue"}
  BY <1>1, RequestType DEF Step, StepRecord, ON_ERROR
<1>3. [i \in DOMAIN steps |-> steps[i].on_error] \in Seq({"stop", "continue"})
  BY <1>2, IsASeq
<1>4. QED
  BY <1>3 DEF Promise!Init, Init, InitMain

\* FirstFailure of OrderedSteps picks what run() has kept in first_failure.
LEMMA PromiseFirstFailure ==
  ASSUME Inv, FirstFailureIsFirst
  PROVE  Promise!FirstFailure(results) = firstFailure
<1> DEFINE First(i) == results[i] # 0 /\ \A j \in 1 .. i - 1 : results[j] = 0
<1>1. DOMAIN results = 1 .. Len(results) /\ Len(results) \in Nat
  BY LenProperties DEF Inv, TypeOK
<1>2. CASE firstFailure = EXIT_OK /\ \A i \in DOMAIN results : results[i] = EXIT_OK
  BY <1>2 DEF Promise!FirstFailure, EXIT_OK
<1>3. ASSUME NEW i \in DOMAIN results,
             results[i] = firstFailure, firstFailure # EXIT_OK,
             \A j \in 1 .. i - 1 : results[j] = EXIT_OK
      PROVE  Promise!FirstFailure(results) = firstFailure
  <2>1. First(i)
    BY <1>3 DEF EXIT_OK
  <2>2. \A j \in DOMAIN results : First(j) => j = i
    BY <1>1, <2>1
  <2> HIDE DEF First
  <2>3. (CHOOSE j \in DOMAIN results : First(j)) = i
    BY <2>1, <2>2
  <2> USE DEF First
  <2>4. QED
    BY <1>3, <2>1, <2>3 DEF Promise!FirstFailure
<1>4. QED
  BY <1>2, <1>3 DEF FirstFailureIsFirst

LEMMA PromiseStopped ==
  ASSUME Inv, StatusFits
  PROVE  /\ ListStopped <=> Promise!Stopped
         /\ Len([i \in DOMAIN steps |-> steps[i].on_error]) = Len(steps)
<1>1. /\ DOMAIN steps = 1 .. Len(steps) /\ Len(steps) \in Nat
      /\ DOMAIN results = 1 .. Len(results) /\ Len(results) \in Nat
  BY RequestType, LenProperties DEF Inv, TypeOK
<1>2. Len(results) <= Len(steps)
  BY DEF StatusFits, NoMoreThanSteps
<1>3. DOMAIN results \subseteq DOMAIN steps
  BY <1>1, <1>2
<1>4. Len([i \in DOMAIN steps |-> steps[i].on_error]) = Len(steps)
  BY <1>1
<1>5. QED
  BY <1>1, <1>3, <1>4 DEF ListStopped, Promise!Stopped, EXIT_OK

LEMMA PromiseFinishes ==
  ASSUME Outcomes, FinishStep
  PROVE  Promise!StepEnds
<1>1. pc = "finish" /\ pc' \in {"cleanup", "fetch", "execute"}
  BY DEF FinishStep, At, Return, LoopHead
<1>2. /\ idx \in DOMAIN steps /\ idx \in Nat \ {0} /\ Len(results) = idx - 1
      /\ DOMAIN steps = 1 .. Len(steps) /\ Len(steps) \in Nat
      /\ DOMAIN results = 1 .. idx - 1
  BY <1>1, RequestType, LenProperties DEF Outcomes, Inv, TypeOK, Control, InStep
<1>3. ~ ListStopped
  BY <1>2 DEF ListStopped, Outcomes, Inv, Order
<1>4. results' = Append(results, outcome) /\ outcome \in {0, 2, 3, 4, 6}
  BY <1>1 DEF FinishStep, Outcomes, Verdicts, EXIT_OK, EXIT_SCRIPT,
     EXIT_INTEGRITY, EXIT_CONFIG, EXIT_TIMEOUT
<1>5. UNCHANGED [i \in DOMAIN steps |-> steps[i].on_error]
  BY DEF FinishStep, steps
<1>6. QED
  BY <1>1, <1>2, <1>3, <1>4, <1>5, PromiseStopped
  DEF Promise!StepEnds, Outcomes, Report

\* The end of the process: with a summary, refused, or broken down.
LEMMA PromiseExits ==
  ASSUME Outcomes, Exit
  PROVE  Promise!Next
<1>1. /\ pc = "cleanup" /\ pc' = "exited" /\ results' = results /\ exitCode' = exitCode
      /\ UNCHANGED [i \in DOMAIN steps |-> steps[i].on_error]
  BY DEF Exit, At, mainVars, steps
<1>2. \A c : exitCode = c => Promise!End(c)
  BY <1>1 DEF Promise!End
<1>3. CASE exitCode \in RefusalCode /\ results = <<>>
  BY <1>2, <1>3 DEF Promise!Next, Promise!Refused, RefusalCode,
     EXIT_UNEXPECTED, EXIT_INTEGRITY, EXIT_CONFIG
<1>4. CASE exitCode = EXIT_UNEXPECTED /\ ~ ListStopped /\ Len(results) < Len(steps)
  BY <1>2, <1>4, PromiseStopped
  DEF Promise!Next, Promise!BreaksDown, EXIT_UNEXPECTED, Outcomes, Report
<1>5. CASE exitCode = firstFailure /\ (ListStopped \/ Len(results) = Len(steps))
  <2>1. Promise!FirstFailure(results) = firstFailure
    BY PromiseFirstFailure DEF Outcomes, Report
  <2>2. QED
    BY <1>2, <1>5, <2>1, PromiseStopped
    DEF Promise!Next, Promise!Finishes, Outcomes, Report
<1>6. QED
  BY <1>1, <1>3, <1>4, <1>5 DEF Outcomes, Report, StatusFits

LEMMA PromiseNext == Outcomes /\ [Next]_vars => [Promise!Next]_(Promise!vars)
<1> SUFFICES ASSUME Outcomes, [Next]_vars
             PROVE  Promise!Next \/ UNCHANGED Promise!vars
  OBVIOUS
<1>1. UNCHANGED [i \in DOMAIN steps |-> steps[i].on_error]
  BY SameRequest
<1>2. CASE FinishStep
  BY <1>2, PromiseFinishes DEF Promise!Next
<1>3. CASE Exit
  BY <1>3, PromiseExits
<1>4. CASE HandlerLeaves
  <2>1. pc # "exited" /\ pc' = "exited" /\ results' = results /\ exitCode' = 5
    BY <1>4 DEF HandlerLeaves, mainVars, EXIT_INTERRUPTED, Outcomes, Inv, Control
  <2>2. QED
    BY <1>1, <2>1 DEF Promise!Next, Promise!Interrupted, Promise!End
<1>5. CASE InstanceLost
  <2>1. pc # "exited" /\ pc' = "exited" /\ results' = results /\ exitCode' = NoCode
    BY <1>5 DEF InstanceLost, mainVars
  <2>2. QED
    BY <1>1, <2>1 DEF Promise!Next, Promise!Lost, Promise!End
<1>6. ASSUME results' = results, pc # "exited", pc' # "exited"
      PROVE  UNCHANGED Promise!vars
  BY <1>1, <1>6 DEF Promise!vars
<1>7. ASSUME results' = results, pc' = pc, exitCode' = exitCode
      PROVE  UNCHANGED Promise!vars
  BY <1>1, <1>7 DEF Promise!vars
<1>8. CASE BuildPlan \/ Fetch \/ Execute \/ Spawn \/ Record \/ ClientReturns
           \/ StepTimesOut \/ TimeoutEnds
  <2>1. results' = results /\ pc # "exited" /\ pc' # "exited"
    BY <1>8 DEF BuildPlan, Fetch, Execute, Spawn, Record, ClientReturns,
       StepTimesOut, TimeoutEnds, At, Settle, Return, Uncaught, Verified, LoopHead,
       mainVars
  <2>2. QED
    BY <1>6, <2>1
<1>9. CASE Sigterm \/ PollClient \/ HandlerKills \/ HandlerGraceEnds
           \/ ClientOrServer \/ Upload \/ UNCHANGED vars
  <2>1. results' = results /\ pc' = pc /\ exitCode' = exitCode
    BY <1>9 DEF Sigterm, PollClient, HandlerKills, HandlerGraceEnds,
       ClientOrServer, Upload, vars, mainVars
  <2>2. QED
    BY <1>7, <2>1
<1>10. QED
  BY <1>2, <1>3, <1>4, <1>5, <1>8, <1>9 DEF Next, MainThread, Handler

\* Whatever clients, signals, uploads and the host do, a run shows its
\* operator a behaviour of OrderedSteps: verdicts in list order up to the first
\* failure that stops the list, and an exit status that fits them.
THEOREM Implements == Spec => ImplementsPromise
<1>1. Spec => Promise!Spec
  BY PromiseInit, PromiseNext, OutcomesHold, PTL DEF Spec, Promise!Spec
<1>2. QED
  BY <1>1 DEF ImplementsPromise
=============================================================================
