----------------------------- MODULE MCStepList -----------------------------
(* Values of the constants of StepListCheck for TLC. *)
EXTENDS StepListCheck

MCTarget    == {"aurora", "legacy"}
MCTargetSeq == <<"aurora", "legacy">>
MCFamily    == [t \in MCTarget |-> IF t = "aurora" THEN "postgres" ELSE "mysql"]
MCStepName  == <<"step-1", "step-2", "step-3">>
MCCheckName == [t \in MCTarget |-> IF t = "aurora" THEN "check-aurora"
                                                  ELSE "check-legacy"]
\* A list may name a step like the default of another, or like a probe.
MCName == {"step-1", "step-2", "step-3", "step-4", "run",
           "check-aurora", "check-legacy"}

RawA == [spelling |-> "good", name |-> Absent, target |-> "aurora",
         script |-> "a.sql", sha256 |-> NoSha, type |-> Absent,
         transaction |-> Absent, timeout_seconds |-> Absent,
         on_error |-> Absent]

Raws ==
  {[RawA EXCEPT !.name = n] : n \in {Absent, "step-1", "step-2", "check-aurora"}}
  \cup {[RawA EXCEPT !.target = "legacy", !.transaction = t] :
          t \in {Absent, "single", "none"}}
  \cup {[RawA EXCEPT !.script = "a.sh"], [RawA EXCEPT !.target = Absent],
        [RawA EXCEPT !.script = "a.sh", !.target = "legacy", !.transaction = "single"],
        [RawA EXCEPT !.spelling = "bad"], [RawA EXCEPT !.spelling = "mistyped"]}
  \cup {[RawA EXCEPT !.timeout_seconds = t] : t \in {0, 1, MAX_TIMEOUT + 1}}


Input(modes, raws, pins) ==
  [mode     : modes,
   refused  : {"no"},
   target   : {Absent, "legacy"},
   raws     : raws,
   pin      : pins,
   start_at : {Absent, "step-2", "check-aurora"},
   dry_run  : BOOLEAN,
   timeout  : {0, 900, MAX_TIMEOUT + 1}]

Modes   == {"check", "run", "runbook", "manifest"}
Pairs   == {<<q, r>> : q, r \in Raws}
Singles == {<<r>> : r \in Raws}
Lengths == {<<>>, <<RawA, RawA, RawA>>,
            <<RawA, RawA, [RawA EXCEPT !.name = "step-1"]>>,
            <<RawA, RawA, RawA, RawA>>}

\* Every pair of steps as a manifest, those a plan accepts as a runbook, and
\* every single step that SSM parameters can spell as Mode=run. Each mode is
\* also refused for what it names, and a manifest for what it is.
MCInputs ==
  Input({"manifest"}, Pairs \cup Lengths, {"unset"})
  \cup Input({"manifest"}, Singles, {"match", "mismatch"})
  \cup Input({"runbook"}, {l \in Pairs \cup Lengths : RunbookValid(l)}, {"unset"})
  \cup Input({"run"}, {l \in Singles : l[1].spelling # "mistyped"}, {"unset"})
  \cup Input({"check"}, {<<RawA>>}, {"unset"})
  \cup {[p EXCEPT !.refused = r] :
          p \in Input(Modes, {<<RawA>>}, {"unset", "mismatch"}),
          r \in {"request", "manifest"}}
=============================================================================
