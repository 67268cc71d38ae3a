---------------------------- MODULE OrderedSteps ----------------------------
(***************************************************************************)
(* What one run of dms-sql-bastion promises its operator, without clients, *)
(* signals or transactions: the steps of a list get a verdict each, one at *)
(* a time and in list order, until the list ends or a step that may not    *)
(* fail has failed; the exit status is the first failure's code, and 0     *)
(* only if there is none. Apart from that a run can only be refused before *)
(* its first step, break down in the runner itself, be interrupted, or be  *)
(* lost with its instance.                                                 *)
(***************************************************************************)
EXTENDS Integers, Sequences

CONSTANT NoCode    \* no exit status

VARIABLES
  policy,    \* on_error of each step of the list
  verdicts,  \* the codes of the steps that have ended, in list order
  ended,     \* the run is over
  status     \* its exit status

vars == <<policy, verdicts, ended, status>>

Code == 0 .. 6

Stopped == \E i \in DOMAIN verdicts : verdicts[i] # 0 /\ policy[i] = "stop"

FirstFailure(v) ==
  IF \E i \in DOMAIN v : v[i] # 0
  THEN v[CHOOSE i \in DOMAIN v : v[i] # 0 /\ \A j \in 1 .. i - 1 : v[j] = 0]
  ELSE 0

Init ==
  /\ policy \in Seq({"stop", "continue"})
  /\ verdicts = <<>>
  /\ ended = FALSE
  /\ status = NoCode

StepEnds ==
  /\ ~ ended /\ ~ Stopped
  /\ Len(verdicts) < Len(policy)
  /\ \E c \in {0, 2, 3, 4, 6} : verdicts' = Append(verdicts, c)
  /\ UNCHANGED <<policy, ended, status>>

End(c) ==
  /\ ~ ended
  /\ ended' = TRUE
  /\ status' = c
  /\ UNCHANGED <<policy, verdicts>>

Finishes ==
  /\ Stopped \/ Len(verdicts) = Len(policy)
  /\ End(FirstFailure(verdicts))

\* Bad parameters, a manifest that is unreadable, invalid or not the pinned one.
Refused == verdicts = <<>> /\ \E c \in {1, 3, 4} : End(c)

\* An error of the runner itself, in the middle of a step.
BreaksDown == ~ Stopped /\ Len(verdicts) < Len(policy) /\ End(1)

Interrupted == End(5)
Lost        == End(NoCode)

Next == StepEnds \/ Finishes \/ Refused \/ BreaksDown \/ Interrupted \/ Lost

Spec == Init /\ [][Next]_vars
=============================================================================
