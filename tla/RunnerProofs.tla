---------------------------- MODULE RunnerProofs ----------------------------
(***************************************************************************)
(* Theorems about Runner, for every set of requests, every script length   *)
(* and every number of signals.                                            *)
(*                                                                         *)
(* Everything rests on one inductive invariant, Inv of Runner. TypeOK      *)
(* alone is not inductive (a step's name is only a name while idx is in    *)
(* the list), and OneClientAtATime needs to know where the main thread can *)
(* be while a client is running, also when the handler interrupts it.      *)
(***************************************************************************)
EXTENDS Runner, SequenceTheorems, TLAPS

\* Replacing one client record keeps `attempts` a sequence of the same length
\* and leaves the others alone.
LEMMA OneAttemptChanges ==
  ASSUME NEW s \in Seq(Attempt), NEW k \in DOMAIN s, NEW r \in Attempt
  PROVE  LET t == [s EXCEPT ![k] = r] IN
           /\ t \in Seq(Attempt)
           /\ Len(t) = Len(s)
           /\ DOMAIN t = DOMAIN s
           /\ t[k] = r
           /\ \A j \in DOMAIN s \ {k} : t[j] = s[j]
  BY ExceptSeq

LEMMA RequestType ==
  ASSUME TypeOK
  PROVE  /\ request \in Request
         /\ steps \in Seq(Step)
         /\ steps # <<>>
         /\ Len(steps) \in Nat \ {0}
         /\ DOMAIN steps = 1 .. Len(steps)
         /\ \A i \in DOMAIN steps : steps[i] \in Step
<1>1. request \in Request
  BY DEF TypeOK
<1>2. steps \in Seq(Step) /\ steps # <<>>
  BY <1>1 DEF Request, steps
<1>3. Len(steps) \in Nat \ {0}
  BY <1>2, EmptySeq, LenProperties
<1>4. QED
  BY <1>1, <1>2, <1>3, LenProperties, ElementOfSeq

\* The record a Popen adds is well-typed.
LEMMA NewAttemptType ==
  ASSUME TypeOK, idx \in DOMAIN steps
  PROVE  NewAttempt \in Attempt
<1>1. Cur \in Step
  BY RequestType DEF Cur
<1>2. Cur.type \in {"sql", "shell", "check"} /\ Cur.name \in Name
  BY <1>1 DEF Step, StepRecord, TYPES
<1>3. resolve_transaction(Cur) \in {"single", "none"}
  BY <1>1 DEF Step, StepRecord, TRANSACTIONS, resolve_transaction
<1>4. QED
  BY <1>1, <1>2, <1>3 DEF NewAttempt, Attempt, TypeOK, ClientInput

LEMMA InitInv == Init => Inv
<1> SUFFICES ASSUME Init PROVE Inv
  OBVIOUS
<1> USE DEF Init, InitMain
<1>1. TypeOK
  BY RunnerAssumption DEF TypeOK, ExitCode, EXIT_OK, EXIT_TIMEOUT
<1>2. Control
  BY DEF Control, InStep, Cur
<1>3. Clients
  BY DEF Clients, Running, Mine
<1>4. Order
  BY DEF Order, Mine
<1>5. QED
  BY <1>1, <1>2, <1>3, <1>4 DEF Inv

-----------------------------------------------------------------------------
(* The main thread, one lemma for each action. Where `attempts` does not    *)
(* change, Clients and Order only depend on the place of the main thread.   *)

LEMMA BuildPlanInv == Inv /\ BuildPlan => Inv'
<1> SUFFICES ASSUME Inv, BuildPlan PROVE Inv'
  OBVIOUS
<1> USE DEF Inv, BuildPlan, At, Return, RefusalCode, LoopHead, mainVars, signalVars
<1>1. 1 \in DOMAIN steps /\ steps' = steps
  BY RequestType DEF steps
<1>2. TypeOK'
  BY <1>1 DEF TypeOK, ExitCode, EXIT_CONFIG, EXIT_INTEGRITY, EXIT_UNEXPECTED, EXIT_OK, EXIT_TIMEOUT
<1>3. Control'
  BY <1>1, RequestType DEF Control, InStep, TypeOK, Cur
<1>4. Clients'
  BY DEF Clients, Running, Mine
<1>5. Order'
  BY <1>1 DEF Order, Mine, Control
<1>6. QED
  BY <1>2, <1>3, <1>4, <1>5

LEMMA FetchInv == Inv /\ Fetch => Inv'
<1> SUFFICES ASSUME Inv, Fetch PROVE Inv'
  OBVIOUS
<1> USE DEF Inv, Fetch, At, Settle, Uncaught, Return, signalVars
<1>1. idx \in DOMAIN steps /\ steps' = steps /\ Cur \in Step
  BY RequestType DEF steps, Control, InStep, Cur
<1>2. /\ pc' \in {"finish", "execute", "cleanup"} /\ outcome' \in ExitCode
      /\ exitCode' \in ExitCode \cup {NoCode}
      /\ UNCHANGED <<attempts, idx, results>>
  BY DEF Verified, TypeOK, ExitCode, EXIT_CONFIG, EXIT_INTEGRITY, EXIT_UNEXPECTED,
     EXIT_OK, EXIT_TIMEOUT
<1>3. fetched' \in Content \cup {NoSha}
  <2>1. CASE fetched' = fetched
    BY <2>1 DEF TypeOK
  <2>2. CASE fetched' = store[Cur.script]
    <3>1. Cur.script \in Script
      BY <1>1 DEF Control, Step, StepRecord
    <3>2. QED
      BY <2>2, <3>1 DEF TypeOK
  <2>3. QED
    BY <2>1, <2>2
<1>4. TypeOK'
  BY <1>2, <1>3 DEF TypeOK
<1>5. Control'
  BY <1>1, <1>2 DEF Control, InStep
<1>6. Clients'
  BY <1>2 DEF Clients, Running, Mine
<1>7. Order'
  BY <1>1, <1>2 DEF Order, Mine
<1>8. QED
  BY <1>4, <1>5, <1>6, <1>7

LEMMA ExecuteInv == Inv /\ Execute => Inv'
<1> SUFFICES ASSUME Inv, Execute PROVE Inv'
  OBVIOUS
<1> USE DEF Inv, Execute, At, Settle, Uncaught, Return, signalVars
<1>1. idx \in DOMAIN steps /\ steps' = steps /\ Cur \in Step
  BY RequestType DEF steps, Control, InStep, Cur
<1>2. /\ pc' \in {"finish", "spawn", "cleanup"} /\ outcome' \in ExitCode
      /\ exitCode' \in ExitCode \cup {NoCode}
      /\ UNCHANGED <<attempts, idx, results>>
  BY DEF TypeOK, ExitCode, EXIT_CONFIG, EXIT_UNEXPECTED, EXIT_OK, EXIT_TIMEOUT
<1>3. creds' \subseteq Target
  BY <1>1 DEF TypeOK, Cached, Step, StepRecord
<1>4. TypeOK'
  BY <1>2, <1>3 DEF TypeOK
<1>5. Control'
  BY <1>1, <1>2 DEF Control, InStep
<1>6. Clients'
  BY <1>2 DEF Clients, Running, Mine
<1>7. Order'
  BY <1>1, <1>2 DEF Order, Mine
<1>8. QED
  BY <1>4, <1>5, <1>6, <1>7

LEMMA SpawnInv == Inv /\ Spawn => Inv'
<1> SUFFICES ASSUME Inv, Spawn PROVE Inv'
  OBVIOUS
<1> USE DEF Inv, Spawn, At, mainVars, signalVars
<1> DEFINE n == Len(attempts)
<1>1. idx \in DOMAIN steps /\ steps' = steps
  BY DEF steps, Control, InStep
<1>2. NewAttempt \in Attempt
  BY <1>1, NewAttemptType
<1>3. /\ attempts' \in Seq(Attempt)
      /\ n \in Nat /\ Len(attempts') = n + 1
      /\ DOMAIN attempts = 1 .. n /\ DOMAIN attempts' = 1 .. n + 1
      /\ attempts'[n + 1] = NewAttempt
      /\ \A k \in 1 .. n : attempts'[k] = attempts[k]
  BY <1>2, AppendProperties, LenProperties DEF TypeOK
<1>4. Mine' = Mine \cup {n + 1}
  <2>1. NewAttempt.run = run
    BY DEF NewAttempt
  <2>2. QED
    BY <1>3, <2>1 DEF Mine
<1>5. /\ Mine \subseteq 1 .. n
      /\ \A k \in Mine : attempts'[k] = attempts[k]
  BY <1>3 DEF Mine
<1>6. TypeOK'
  BY <1>3 DEF TypeOK
<1>7. Control'
  BY <1>1, <1>3, EmptySeq DEF Control, InStep
<1>8. Clients'
  <2>1. \A k \in Mine : ~ (attempts'[k].leader = "running")
    BY <1>5 DEF Clients, Running
  <2>2. NewAttempt.run = run /\ NewAttempt.known = FALSE
    BY DEF NewAttempt
  <2>3. \A k \in 1 .. n + 1 : attempts'[k].run <= run
    BY <1>3, <2>2 DEF Clients, TypeOK
  <2>4. \A k \in Mine' : attempts'[k].leader = "running" => k = n + 1
    BY <1>4, <2>1
  <2>5. n + 1 \in Mine' /\ attempts'[n + 1].known = FALSE
    BY <1>3, <1>4, <2>2
  <2>6. QED
    BY <1>3, <2>3, <2>4, <2>5 DEF Clients, Running, Control
<1>9. Order'
  <2>1. NewAttempt.step = idx
    BY DEF NewAttempt
  <2>2. idx \in 1 .. idx
    BY DEF TypeOK
  <2>3. \A k \in Mine : attempts'[k].step \in 1 .. idx /\ attempts'[k].step < idx
    BY <1>5 DEF Order
  <2>4. \A k, l \in Mine : k < l => attempts'[k].step < attempts'[l].step
    BY <1>5 DEF Order
  <2>5. \A k \in Mine' : attempts'[k].step \in 1 .. idx
    BY <1>3, <1>4, <2>1, <2>2, <2>3
  <2>6. \A k, l \in Mine' : k < l => attempts'[k].step < attempts'[l].step
    BY <1>3, <1>4, <1>5, <2>1, <2>3, <2>4
  <2>7. QED
    BY <1>1, <2>5, <2>6 DEF Order
<1>10. QED
  BY <1>6, <1>7, <1>8, <1>9

LEMMA RecordInv == Inv /\ Record => Inv'
<1> SUFFICES ASSUME Inv, Record PROVE Inv'
  OBVIOUS
<1> USE DEF Inv, Record, At, mainVars, signalVars
<1> DEFINE n == Len(attempts)
           r == [attempts[n] EXCEPT !.known = TRUE]
<1>1. idx \in DOMAIN steps /\ steps' = steps
  BY DEF steps, Control, InStep
<1>2. n \in DOMAIN attempts /\ n \in Nat \ {0}
  BY EmptySeq, LenProperties DEF TypeOK, Control
<1>3. attempts[n] \in Attempt
  BY <1>2, ElementOfSeq DEF TypeOK
<1>4. r \in Attempt
  BY <1>3 DEF Attempt
<1>5. attempts' = [attempts EXCEPT ![n] = r]
  BY <1>2 DEF TypeOK
<1>6. /\ attempts' \in Seq(Attempt) /\ Len(attempts') = n
      /\ DOMAIN attempts' = DOMAIN attempts
      /\ attempts'[n] = r /\ \A j \in DOMAIN attempts \ {n} : attempts'[j] = attempts[j]
  BY <1>2, <1>4, <1>5, OneAttemptChanges DEF TypeOK
<1>7. r.run = attempts[n].run /\ r.step = attempts[n].step /\ r.leader = attempts[n].leader
  BY <1>3 DEF Attempt
<1>8. \A k \in DOMAIN attempts :
        /\ attempts'[k].run = attempts[k].run
        /\ attempts'[k].step = attempts[k].step
        /\ attempts'[k].leader = attempts[k].leader
  BY <1>6, <1>7
<1>9. TypeOK'
  BY <1>2, <1>6 DEF TypeOK
<1>10. Control'
  BY <1>1, <1>2, <1>6 DEF Control, InStep
<1>11. Clients'
  BY <1>6, <1>8 DEF Clients, Running, Mine
<1>12. Order'
  BY <1>1, <1>6, <1>8 DEF Order, Mine
<1>13. QED
  BY <1>9, <1>10, <1>11, <1>12

-----------------------------------------------------------------------------
(* Steps that change clients without starting one: no client comes back to  *)
(* life, and which run and step it belongs to never changes.                *)

SameClients ==
  /\ attempts' \in Seq(Attempt)
  /\ Len(attempts') = Len(attempts)
  /\ DOMAIN attempts' = DOMAIN attempts
  /\ \A j \in DOMAIN attempts :
       /\ attempts'[j].run = attempts[j].run
       /\ attempts'[j].step = attempts[j].step
       /\ attempts'[j].known = attempts[j].known
       /\ attempts'[j].leader = "running" => attempts[j].leader = "running"

LEMMA OneClientMoves ==
  ASSUME TypeOK, NEW k \in DOMAIN attempts, NEW r \in Attempt,
         attempts' = [attempts EXCEPT ![k] = r],
         r.run = attempts[k].run, r.step = attempts[k].step,
         r.known = attempts[k].known,
         r.leader = "running" => attempts[k].leader = "running"
  PROVE  SameClients /\ attempts'[k] = r
  BY OneAttemptChanges DEF TypeOK, SameClients

LEMMA SignalGroupMoves ==
  ASSUME TypeOK, NEW k \in DOMAIN attempts, SignalGroup(k)
  PROVE  SameClients
<1> DEFINE r == [attempts[k] EXCEPT !.termed = TRUE]
<1>1. attempts[k] \in Attempt
  BY ElementOfSeq DEF TypeOK
<1>2. r \in Attempt /\ r.run = attempts[k].run /\ r.step = attempts[k].step
      /\ r.known = attempts[k].known /\ r.leader = attempts[k].leader
  BY <1>1 DEF Attempt
<1>3. attempts' = [attempts EXCEPT ![k] = r]
  BY DEF SignalGroup
<1>4. QED
  BY <1>2, <1>3, OneClientMoves

LEMMA GraceEndsMoves ==
  ASSUME TypeOK, NEW k \in DOMAIN attempts, GraceEnds(k)
  PROVE  SameClients /\ attempts'[k].leader # "running"
<1>1. attempts[k] \in Attempt
  BY ElementOfSeq DEF TypeOK
<1>2. CASE Running(k)
  <2> DEFINE r == [attempts[k] EXCEPT !.leader = "killed", !.child = FALSE]
  <2>1. r \in Attempt /\ r.run = attempts[k].run /\ r.step = attempts[k].step
        /\ r.known = attempts[k].known /\ r.leader = "killed"
    BY <1>1 DEF Attempt
  <2>2. attempts' = [attempts EXCEPT ![k] = r]
    BY <1>2 DEF GraceEnds, KillGroup
  <2>3. QED
    BY <2>1, <2>2, OneClientMoves
<1>3. CASE ~ Running(k)
  BY <1>3, LenProperties DEF GraceEnds, SameClients, Running, Mine, TypeOK
<1>4. QED
  BY <1>2, <1>3

LEMMA ClientOrServerMoves ==
  ASSUME TypeOK, ClientOrServer
  PROVE  SameClients
<1>1. PICK k \in DOMAIN attempts :
        \/ ClientSends(k) \/ ClientSucceeds(k) \/ ClientFails(k)
        \/ ClientTerminates(k) \/ ChildEnds(k)
        \/ ServerExecutes(k) \/ ServerCloses(k)
  BY DEF ClientOrServer
<1> DEFINE a == attempts[k]
           Moves(r) == /\ attempts' = [attempts EXCEPT ![k] = r]
                       /\ r \in Attempt
                       /\ r.run = a.run /\ r.step = a.step /\ r.known = a.known
                       /\ r.leader = "running" => a.leader = "running"
<1>2. a \in Attempt
  BY ElementOfSeq DEF TypeOK
<1>3. CASE ClientSends(k)
  <2>1. Moves([a EXCEPT !.sent = @ + 1])
    BY <1>2, <1>3 DEF ClientSends, Attempt
  <2>2. QED
    BY <2>1, OneClientMoves
<1>4. CASE ClientSucceeds(k)
  <2>1. Moves([a EXCEPT !.leader = "ok", !.open = FALSE])
    BY <1>2, <1>4 DEF ClientSucceeds, Attempt
  <2>2. QED
    BY <2>1, OneClientMoves
<1>5. CASE ClientFails(k)
  <2>1. Moves([a EXCEPT !.leader = "failed"])
    BY <1>2, <1>5 DEF ClientFails, Attempt
  <2>2. QED
    BY <2>1, OneClientMoves
<1>6. CASE ClientTerminates(k)
  <2>1. Moves([a EXCEPT !.leader = "killed"])
    BY <1>2, <1>6 DEF ClientTerminates, Attempt
  <2>2. QED
    BY <2>1, OneClientMoves
<1>7. CASE ChildEnds(k)
  <2>1. Moves([a EXCEPT !.child = FALSE])
    BY <1>2, <1>7 DEF ChildEnds, Attempt
  <2>2. QED
    BY <2>1, OneClientMoves
<1>8. CASE ServerExecutes(k)
  <2>1. Moves([a EXCEPT !.done = @ + 1])
    BY <1>2, <1>8 DEF ServerExecutes, Attempt
  <2>2. QED
    BY <2>1, OneClientMoves
<1>9. CASE ServerCloses(k)
  <2>1. Moves([a EXCEPT !.open = FALSE])
    BY <1>2, <1>9 DEF ServerCloses, Attempt
  <2>2. QED
    BY <2>1, OneClientMoves
<1>10. QED
  BY <1>1, <1>3, <1>4, <1>5, <1>6, <1>7, <1>8, <1>9

-----------------------------------------------------------------------------
(* The rest of the main thread. *)

LEMMA ClientReturnsInv == Inv /\ ClientReturns => Inv'
<1> SUFFICES ASSUME Inv, ClientReturns PROVE Inv'
  OBVIOUS
<1> USE DEF Inv, ClientReturns, At, Settle, signalVars
<1>1. idx \in DOMAIN steps /\ steps' = steps
  BY DEF steps, Control, InStep
<1>2. outcome' \in ExitCode
  BY DEF ExitCode, EXIT_OK, EXIT_SCRIPT, EXIT_TIMEOUT
<1>3. TypeOK'
  BY <1>2 DEF TypeOK
<1>4. Control'
  BY <1>1 DEF Control, InStep
<1>5. Clients'
  BY DEF Clients, Running, Mine, Control
<1>6. Order'
  BY <1>1 DEF Order, Mine
<1>7. QED
  BY <1>3, <1>4, <1>5, <1>6

LEMMA StepTimesOutInv == Inv /\ StepTimesOut => Inv'
<1> SUFFICES ASSUME Inv, StepTimesOut PROVE Inv'
  OBVIOUS
<1> USE DEF Inv, StepTimesOut, At, mainVars, signalVars
<1>1. idx \in DOMAIN steps /\ steps' = steps
  BY DEF steps, Control, InStep
<1>2. current \in DOMAIN attempts /\ current = Len(attempts)
  BY EmptySeq, LenProperties DEF TypeOK, Control
<1>3. SameClients
  BY <1>2, SignalGroupMoves
<1>4. TypeOK'
  BY <1>3 DEF TypeOK, SameClients
<1>5. Control'
  BY <1>1, <1>3 DEF Control, InStep, SameClients
<1>6. Clients'
  BY <1>2, <1>3 DEF Clients, Running, Mine, SameClients
<1>7. Order'
  BY <1>1, <1>3 DEF Order, Mine, SameClients
<1>8. QED
  BY <1>4, <1>5, <1>6, <1>7

LEMMA TimeoutEndsInv == Inv /\ TimeoutEnds => Inv'
<1> SUFFICES ASSUME Inv, TimeoutEnds PROVE Inv'
  OBVIOUS
<1> USE DEF Inv, TimeoutEnds, At, Settle, signalVars
<1>1. idx \in DOMAIN steps /\ steps' = steps
  BY DEF steps, Control, InStep
<1>2. current \in DOMAIN attempts /\ current = Len(attempts)
  BY EmptySeq, LenProperties DEF TypeOK, Control
<1>3. SameClients /\ attempts'[current].leader # "running"
  BY <1>2, GraceEndsMoves
<1>4. TypeOK'
  BY <1>3 DEF TypeOK, SameClients, ExitCode, EXIT_OK, EXIT_TIMEOUT
<1>5. Control'
  BY <1>1, <1>3 DEF Control, InStep, SameClients
<1>6. Clients'
  BY <1>2, <1>3 DEF Clients, Running, Mine, SameClients
<1>7. Order'
  BY <1>1, <1>3 DEF Order, Mine, SameClients
<1>8. QED
  BY <1>4, <1>5, <1>6, <1>7

LEMMA FinishStepInv == Inv /\ FinishStep => Inv'
<1> SUFFICES ASSUME Inv, FinishStep PROVE Inv'
  OBVIOUS
<1> USE DEF Inv, FinishStep, At, Return, signalVars
<1>1. /\ idx \in DOMAIN steps /\ steps' = steps /\ Cur \in Step
      /\ DOMAIN steps = 1 .. Len(steps) /\ Len(steps) \in Nat
  BY RequestType DEF steps, Control, InStep, Cur
<1>2. /\ results' \in Seq(ExitCode) /\ Len(results') = idx
      /\ results'[idx] = outcome
      /\ \A i \in 1 .. idx - 1 : results'[i] = results[i]
  BY AppendProperties DEF TypeOK, Control, InStep
<1>3. firstFailure' \in ExitCode
  BY DEF TypeOK, FirstFailure
<1>4. hint' \in Name \cup {NoName}
  BY <1>1 DEF TypeOK, ResumeAt, Step, StepRecord
<1>5. CASE Stops
  <2>1. pc' = "cleanup" /\ idx' = idx /\ exitCode' \in ExitCode
    BY <1>3, <1>5
  <2>2. TypeOK'
    BY <1>2, <1>3, <1>4, <2>1 DEF TypeOK
  <2>3. Control'
    BY <1>1, <1>2, <2>1 DEF Control, InStep
  <2>4. Clients'
    BY <2>1 DEF Clients, Running, Mine
  <2>5. Order'
    BY <1>1, <1>2, <2>1 DEF Order, Mine, TypeOK
  <2>6. QED
    BY <2>2, <2>3, <2>4, <2>5
<1>6. CASE ~ Stops
  <2>1. /\ idx' = idx + 1
        /\ pc' \in {"cleanup", "execute", "fetch"}
        /\ exitCode' \in ExitCode \cup {NoCode}
    BY <1>3, <1>6 DEF LoopHead, TypeOK
  <2>2. pc' # "cleanup" => idx' \in DOMAIN steps
    BY <1>1, <1>6 DEF LoopHead
  <2>3. pc' = "fetch" => steps[idx'].type # "check"
    BY <1>6 DEF LoopHead
  <2>4. TypeOK'
    BY <1>2, <1>3, <1>4, <2>1 DEF TypeOK
  <2>5. Control'
    BY <1>1, <1>2, <2>1, <2>2, <2>3 DEF Control, InStep, Cur
  <2>6. Clients'
    BY <2>1 DEF Clients, Running, Mine
  <2>7. outcome = EXIT_OK \/ steps[idx].on_error = "continue"
    BY <1>1, <1>6 DEF Stops, Cur, Step, StepRecord, ON_ERROR
  <2>8. Order'
    BY <1>1, <1>2, <2>1, <2>7 DEF Order, Mine, TypeOK
  <2>9. QED
    BY <2>4, <2>5, <2>6, <2>8
<1>7. QED
  BY <1>5, <1>6

LEMMA ExitInv == Inv /\ Exit => Inv'
<1> SUFFICES ASSUME Inv, Exit PROVE Inv'
  OBVIOUS
<1> USE DEF Inv, Exit, At, mainVars, signalVars
<1>1. TypeOK'
  BY DEF TypeOK
<1>2. Control'
  BY DEF Control, InStep
<1>3. Clients'
  BY DEF Clients, Running, Mine
<1>4. Order'
  BY DEF Order, Mine, steps
<1>5. QED
  BY <1>1, <1>2, <1>3, <1>4

-----------------------------------------------------------------------------
(* Signals, the handler, the clients and the world. *)

LEMMA SigtermInv == Inv /\ Sigterm => Inv'
<1> SUFFICES ASSUME Inv, Sigterm PROVE Inv'
  OBVIOUS
<1> USE DEF Inv, Sigterm, mainVars
<1>1. TypeOK'
  BY DEF TypeOK
<1>2. Control'
  BY DEF Control, InStep, steps, Cur
<1>3. Clients'
  BY DEF Clients, Running, Mine
<1>4. Order'
  BY DEF Order, Mine, steps
<1>5. QED
  BY <1>1, <1>2, <1>3, <1>4

LEMMA HandlerInv == Inv /\ Handler => Inv'
<1> SUFFICES ASSUME Inv, Handler PROVE Inv'
  OBVIOUS
<1> USE DEF Inv, mainVars
<1>1. CASE PollClient
  <2>1. TypeOK'
    BY <1>1 DEF PollClient, TypeOK
  <2>2. Control'
    BY <1>1 DEF PollClient, ClientToStop, Control, InStep, steps, Cur
  <2>3. Clients'
    BY <1>1 DEF PollClient, ClientToStop, Clients, Running, Mine
  <2>4. Order'
    BY <1>1 DEF PollClient, Order, Mine, steps
  <2>5. QED
    BY <2>1, <2>2, <2>3, <2>4
<1>2. ASSUME handler \in {"kill", "grace"}
      PROVE  current \in DOMAIN attempts /\ current = Len(attempts)
  BY <1>2, EmptySeq, LenProperties DEF TypeOK, Control
<1>3. CASE HandlerKills
  <2>1. SameClients
    BY <1>2, <1>3, SignalGroupMoves DEF HandlerKills
  <2>2. TypeOK'
    BY <1>3, <2>1 DEF HandlerKills, TypeOK, SameClients
  <2>3. Control'
    BY <1>3, <2>1, EmptySeq, LenProperties DEF HandlerKills, Control, InStep, steps, Cur, SameClients, TypeOK
  <2>4. Clients'
    BY <1>3, <2>1 DEF HandlerKills, Clients, Running, Mine, SameClients
  <2>5. Order'
    BY <1>3, <2>1 DEF HandlerKills, Order, Mine, steps, SameClients
  <2>6. QED
    BY <2>2, <2>3, <2>4, <2>5
<1>4. CASE HandlerGraceEnds
  <2>1. SameClients /\ attempts'[current].leader # "running"
    BY <1>2, <1>4, GraceEndsMoves DEF HandlerGraceEnds
  <2>2. TypeOK'
    BY <1>4, <2>1 DEF HandlerGraceEnds, TypeOK, SameClients
  <2>3. Control'
    BY <1>4, <2>1, EmptySeq, LenProperties DEF HandlerGraceEnds, Control, InStep, steps, Cur, SameClients, TypeOK
  <2>4. Clients'
    BY <1>4, <2>1 DEF HandlerGraceEnds, Clients, Running, Mine, SameClients
  <2>5. Order'
    BY <1>4, <2>1 DEF HandlerGraceEnds, Order, Mine, steps, SameClients
  <2>6. QED
    BY <2>2, <2>3, <2>4, <2>5
<1>5. CASE HandlerLeaves
  <2>1. TypeOK'
    BY <1>5 DEF HandlerLeaves, TypeOK, ExitCode, EXIT_OK, EXIT_INTERRUPTED, EXIT_TIMEOUT
  <2>2. Control'
    BY <1>5 DEF HandlerLeaves, Control, InStep
  <2>3. Clients'
    BY <1>5 DEF HandlerLeaves, Clients, Running, Mine, Control
  <2>4. Order'
    BY <1>5 DEF HandlerLeaves, Order, Mine, steps
  <2>5. QED
    BY <2>1, <2>2, <2>3, <2>4
<1>6. QED
  BY <1>1, <1>3, <1>4, <1>5 DEF Handler

LEMMA ClientOrServerInv == Inv /\ ClientOrServer => Inv'
<1> SUFFICES ASSUME Inv, ClientOrServer PROVE Inv'
  OBVIOUS
<1> USE DEF Inv, ClientOrServer, mainVars, signalVars
<1>1. SameClients
  BY ClientOrServerMoves
<1>2. TypeOK'
  BY <1>1 DEF TypeOK, SameClients
<1>3. Control'
  BY <1>1, EmptySeq, LenProperties DEF Control, InStep, steps, Cur, SameClients, TypeOK
<1>4. Clients'
  <2>1. current # 0 => current \in DOMAIN attempts
    BY LenProperties DEF Control, TypeOK
  <2>2. QED
    BY <1>1, <2>1 DEF Clients, Running, Mine, SameClients
<1>5. Order'
  BY <1>1 DEF Order, Mine, steps, SameClients
<1>6. QED
  BY <1>2, <1>3, <1>4, <1>5

LEMMA UploadInv == Inv /\ Upload => Inv'
<1> SUFFICES ASSUME Inv, Upload PROVE Inv'
  OBVIOUS
<1> USE DEF Inv, Upload, mainVars, signalVars
<1>1. TypeOK'
  BY DEF TypeOK
<1>2. Control'
  BY DEF Control, InStep, steps, Cur
<1>3. Clients'
  BY DEF Clients, Running, Mine
<1>4. Order'
  BY DEF Order, Mine, steps
<1>5. QED
  BY <1>1, <1>2, <1>3, <1>4

LEMMA InstanceLostMoves ==
  ASSUME TypeOK, InstanceLost
  PROVE  SameClients /\ \A k \in DOMAIN attempts : attempts'[k].leader # "running"
<1> DEFINE Lost(a) == [a EXCEPT !.leader = IF @ = "running" THEN "killed" ELSE @,
                                !.child = FALSE]
<1>1. \A k \in DOMAIN attempts : attempts[k] \in Attempt
  BY ElementOfSeq DEF TypeOK
<1>2. \A a \in Attempt : /\ Lost(a) \in Attempt /\ Lost(a).run = a.run
                         /\ Lost(a).step = a.step /\ Lost(a).known = a.known
                         /\ Lost(a).leader # "running"
  BY DEF Attempt
<1>3. attempts' = [k \in DOMAIN attempts |-> Lost(attempts[k])]
  BY DEF InstanceLost
<1> HIDE DEF Lost
<1>4. Len(attempts) \in Nat /\ DOMAIN attempts = 1 .. Len(attempts)
  BY LenProperties DEF TypeOK
<1>5. \A k \in 1 .. Len(attempts) : Lost(attempts[k]) \in Attempt
  BY <1>1, <1>2, <1>4
<1>6. attempts' \in Seq(Attempt) /\ Len(attempts') = Len(attempts)
  BY <1>3, <1>4, <1>5, IsASeq
<1>7. QED
  BY <1>1, <1>2, <1>3, <1>4, <1>6 DEF SameClients

LEMMA InstanceLostInv == Inv /\ InstanceLost => Inv'
<1> SUFFICES ASSUME Inv, InstanceLost PROVE Inv'
  OBVIOUS
<1> USE DEF Inv
<1>1. SameClients /\ \A k \in DOMAIN attempts : attempts'[k].leader # "running"
  BY InstanceLostMoves
<1>2. /\ pc' = "exited" /\ exitCode' = NoCode /\ handler' = "none" /\ current' = 0
      /\ UNCHANGED <<request, mainVars, signals, run, store>>
  BY DEF InstanceLost
<1>3. TypeOK'
  BY <1>1, <1>2 DEF TypeOK, SameClients, mainVars
<1>4. Control'
  BY <1>1, <1>2 DEF Control, InStep, SameClients
<1>5. Clients'
  BY <1>1, <1>2 DEF Clients, Running, Mine, SameClients
<1>6. Order'
  BY <1>1, <1>2 DEF Order, Mine, steps, SameClients, mainVars
<1>7. QED
  BY <1>3, <1>4, <1>5, <1>6

-----------------------------------------------------------------------------
LEMMA NextInv == Inv /\ [Next]_vars => Inv'
<1> SUFFICES ASSUME Inv, [Next]_vars PROVE Inv'
  OBVIOUS
<1>1. CASE MainThread
  BY <1>1, BuildPlanInv, FetchInv, ExecuteInv, SpawnInv, RecordInv,
     ClientReturnsInv, StepTimesOutInv, TimeoutEndsInv, FinishStepInv, ExitInv
  DEF MainThread
<1>2. CASE Sigterm
  BY <1>2, SigtermInv
<1>3. CASE Handler
  BY <1>3, HandlerInv
<1>4. CASE ClientOrServer
  BY <1>4, ClientOrServerInv
<1>5. CASE Upload
  BY <1>5, UploadInv
<1>6. CASE InstanceLost
  BY <1>6, InstanceLostInv
<1>7. CASE UNCHANGED vars
  BY <1>7 DEF vars, mainVars, signalVars, Inv, TypeOK, Control, InStep, Clients,
     Running, Mine, Order, steps, Cur
<1>8. QED
  BY <1>1, <1>2, <1>3, <1>4, <1>5, <1>6, <1>7 DEF Next

\* The loop, the clients and the order of attempts fit together in every state
\* of a run.
THEOREM Invariance == Spec => []Inv
  BY InitInv, NextInv, PTL DEF Spec

-----------------------------------------------------------------------------
(* What the invariant gives. *)

\* Every variable keeps its type in every run of the runner: in particular a
\* resume hint is always the name of a step, and no list index is out of range.
THEOREM TypeCorrect == Spec => []TypeOK
<1>1. Inv => TypeOK
  BY DEF Inv
<1>2. QED
  BY <1>1, Invariance, PTL

\* Of two clients of one run the earlier has ended, and had the earlier step.
LEMMA OneClientFact == Inv => OneClientAtATime
<1> SUFFICES ASSUME Inv, NEW k \in Mine, NEW l \in Mine, k < l
             PROVE  ~ Running(k) /\ attempts[k].step < attempts[l].step
  BY DEF OneClientAtATime
<1>1. k \in DOMAIN attempts /\ l \in DOMAIN attempts
  BY DEF Mine
<1>2. l \in 1 .. Len(attempts)
  BY <1>1, LenProperties DEF Inv, TypeOK
<1>3. k # Len(attempts)
  BY <1>1, <1>2, LenProperties DEF Inv, TypeOK
<1>4. QED
  BY <1>3 DEF Inv, Clients, Order

\* Steps run one at a time and in list order, whatever is timed out, signalled
\* or killed: run_client is only left when its client has ended.
THEOREM OneClient == Spec => []OneClientAtATime
  BY OneClientFact, Invariance, PTL

\* The attempt of a step was made with the counter at it.
LEMMA StopFact == Inv => StopIsRespected
<1> SUFFICES ASSUME Inv, NEW k \in Mine, NEW i \in 1 .. attempts[k].step - 1
             PROVE  /\ i \in DOMAIN results
                    /\ results[i] = EXIT_OK \/ steps[i].on_error = "continue"
  BY DEF StopIsRespected
<1>1. attempts[k].step \in 1 .. idx /\ idx \in Nat
  BY DEF Inv, Order, TypeOK
<1>2. i \in 1 .. idx - 1
  BY <1>1
<1>3. DOMAIN results = 1 .. Len(results) /\ Len(results) \in Nat
  BY LenProperties DEF Inv, TypeOK
<1>4. QED
  BY <1>1, <1>2, <1>3 DEF Inv, Order

\* No step after a failed one that may not fail is ever started.
THEOREM StopRespected == Spec => []StopIsRespected
  BY StopFact, Invariance, PTL

\* At the end of the process only a client that was never stored can run.
LEMMA KnownClientsFact == Inv => KnownClientsAreStopped
  BY DEF Inv, Clients, KnownClientsAreStopped

\* A runner that has ended leaves no client it knew of: only one it was about
\* to record can survive it.
THEOREM KnownClientsStopped == Spec => []KnownClientsAreStopped
  BY KnownClientsFact, Invariance, PTL
=============================================================================
