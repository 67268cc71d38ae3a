----------------------------- MODULE Governance -----------------------------
(***************************************************************************)
(* The ratchet of scripts/check_governance.py over the life of the         *)
(* repository: pull requests are checked as GitHub merges them when they   *)
(* are pushed, and merged later, into a main that may have moved.          *)
(*                                                                         *)
(* A tree is what the check reads of a checkout: files, a set of facts     *)
(* <<fact, subject>>, and baseline, the accepted keys <<rule, subject>>.   *)
(* What is on the right-hand side of a fact (which version, which text) is *)
(* left out, except for variables.tf: it is read token by token (HclScan). *)
(***************************************************************************)
EXTENDS HclScan, FiniteSets

CONSTANTS
  Module, Doc,    \* names of modules and of Markdown files
  Canonical,      \* the module whose lint_validations.py is the canonical one
  SubdirDoc,      \* documents whose path has a "/" in it
  MatrixKnown,    \* ci_matrix_modules finds the list of the workflow
  RemoteKnown,    \* git knows a remote, so links can be recognised
  Varied,         \* the facts that pull requests change
  PullRequest,    \* pull requests that may be open together
  MaxMerges,      \* bound of the model: pull requests merged
  InitialFiles    \* the repository when the check was introduced

ASSUME GovernanceAssumption ==
  /\ Canonical \in Module /\ SubdirDoc \subseteq Doc
  /\ MatrixKnown \in BOOLEAN /\ RemoteKnown \in BOOLEAN /\ MaxMerges \in Nat

VARIABLES
  main,       \* the tree of the main branch
  prs,        \* pull requests that passed the check: the main they were checked on, their head
  text,       \* the variables.tf an author is writing, as both readers see it
  merges,
  fixed,      \* history: keys whose subject was on main without the violation
  amnesty,    \* history: keys that a pull request wrote into the baseline
  unchecked   \* history: some merge gave a tree that no check has seen

vars == <<main, prs, text, merges, fixed, amnesty, unchecked>>

-----------------------------------------------------------------------------
(* The rules.                                                              *)

\* What a module must have to satisfy each rule about modules.
Needs == [G001 |-> "required_version", G002 |-> "floor", G003 |-> "aws_bound",
          G004 |-> "README", G005 |-> "CHANGELOG", G006 |-> "tests",
          G007 |-> "looks_described", G008 |-> "described_outputs",
          G009 |-> "matrix", G012 |-> "no_provider"]
ModuleRule == DOMAIN Needs
Linter == {"linter_1", "linter_2"}   \* two contents of lint_validations.py
\* What keeps a module's directory there; "tf" is that it has *.tf files.
DirFact == {"tf", "README", "CHANGELOG", "tests"} \cup Linter
ModuleFact == DirFact \cup {"described"} \cup {Needs[r] : r \in ModuleRule}
\* What is said in *.tf files.
TfFact == ModuleFact \ ({"README", "CHANGELOG", "tests", "matrix"} \cup Linter)
File == (ModuleFact \X Module) \cup ({"doc", "link"} \X Doc)
Key == ((ModuleRule \cup {"G010"}) \X Module) \cup ({"G011"} \X Doc)

\* The repository's files at first, and what a pull request changes one by one.
ASSUME FilesAssumption ==
  /\ Varied \subseteq ModuleFact \ {"tf", "described", "looks_described"}
  /\ \A files \in InitialFiles :
       /\ files \subseteq File
       /\ \A m \in Module : <<"described", m>> \in files <=> <<"looks_described", m>> \in files

module_dirs(files) == {m \in Module : <<"tf", m>> \in files}
is_dir(m, files) == \E f \in DirFact : <<f, m>> \in files

Applies(rule, m, files) ==
  /\ rule = "G002" => <<"required_version", m>> \in files
  /\ rule = "G009" => MatrixKnown /\ <<"tests", m>> \in files

\* The violations of a tree, where needs says which fact settles which rule. The
\* linter copies under templates/ are left out: to G010 they are like one in a
\* directory without *.tf files.
Found(files, needs) ==
  {k \in ModuleRule \X module_dirs(files) :
     Applies(k[1], k[2], files) /\ <<needs[k[1]], k[2]>> \notin files}
  \cup {<<"G010", m>> : m \in {c \in Module \ {Canonical} :
          /\ \E v \in Linter : <<v, Canonical>> \in files
          /\ \E v \in Linter : <<v, c>> \in files /\ <<v, Canonical>> \notin files}}
  \cup {<<"G011", d>> : d \in {c \in Doc : RemoteKnown /\ <<"link", c>> \in files}}

check(files) == Found(files, Needs)

\* What is really wrong with a tree: G007 by the language, not by strip_hcl.
Debt(files) == Found(files, [Needs EXCEPT !.G007 = "described"])

\* The subject of a key is there: a copy of the linter, a document, a directory.
Present(key, files) ==
  CASE key[1] = "G010" -> \E v \in Linter : <<v, key[2]>> \in files
    [] key[1] = "G011" -> <<"doc", key[2]>> \in files
    [] OTHER -> is_dir(key[2], files)

\* A document in the root of the repository: a subject without "/".
InRoot(key) == key[1] = "G011" /\ key[2] \notin SubdirDoc

\* Slip: every subject is looked for among the modules.
OnDisk_AmongModules(key, files) ==
  key[1] \notin {"G010", "G011"} /\ Present(key, files)

\* report() looks for a subject without "/" among the modules, where no
\* document is.
OnDisk(key, files) == Present(key, files) /\ ~InRoot(key)

\* Slip: fixed entries are not reported.
report_NeverStale(tree) == [new |-> check(tree.files) \ tree.baseline, stale |-> {}]

report(tree) ==
  [new   |-> check(tree.files) \ tree.baseline,
   stale |-> {k \in tree.baseline \ check(tree.files) : OnDisk(k, tree.files)}]

\* A module that satisfies every rule, and one change at a time to it.
Compliant(m) == ({"tf", "described"} \cup {Needs[r] : r \in ModuleRule}) \X {m}
SelfTest ==
  \A m \in Module : /\ check(Compliant(m)) = {}
                    /\ MatrixKnown =>
                         \A r \in ModuleRule :
                           check(Compliant(m) \ {<<Needs[r], m>>}) = {<<r, m>>}

\* The last step of the job: every copy of the linter is the canonical one.
SameLinter(files) ==
  \A m \in Module, v \in Linter : <<v, m>> \in files => <<v, Canonical>> \in files

\* The "module conventions" job of governance.yml.
Passes(tree) ==
  /\ SelfTest
  /\ report(tree).new = {} /\ report(tree).stale = {}
  /\ SameLinter(tree.files)

-----------------------------------------------------------------------------
(* Pull requests.                                                          *)

EmptyTree == [files |-> {}, baseline |-> {}]
Idle == [base |-> EmptyTree, head |-> EmptyTree]
NoText == [hcl |-> AtStart, strip |-> AtStart]

Without(files, m) == files \ ((ModuleFact \ {"matrix"}) \X {m})
WithoutTf(files, m) == files \ (TfFact \X {m})   \* the rest of the directory stays
Toggled(files, f) == IF f \in files THEN files \ {f} ELSE files \cup {f}
Described(files, m) ==   \* variables.tf of m replaced by the text
  (files \ ({"described", "looks_described"} \X {m}))
  \cup (IF Bare(text.hcl) THEN {} ELSE {<<"described", m>>})
  \cup (IF Bare(text.strip) THEN {} ELSE {<<"looks_described", m>>})

\* What one pull request may make of the files.
Edits(files) ==
  {files}
  \cup {files \cup (Compliant(m) \ (lacking \X {m})) :
          m \in Module \ module_dirs(files), lacking \in SUBSET (Varied \ Linter)}
  \cup {Without(files, m) : m \in {n \in Module : is_dir(n, files)}}
  \cup {WithoutTf(files, m) : m \in module_dirs(files)}
  \cup {Toggled(files, <<f, m>>) : f \in Varied \ Linter, m \in module_dirs(files)}
  \cup {(files \ (Linter \X {m})) \cup {<<v, m>>} : v \in Varied \cap Linter, m \in module_dirs(files)}
  \cup {Toggled(files, <<"link", d>>) : d \in {c \in Doc : <<"doc", c>> \in files}}
  \cup (IF text = NoText \/ text.hcl.stack # <<>> THEN {}
        ELSE {Described(files, m) : m \in module_dirs(files)})

\* Slip: key and subject change places in the file.
write_baseline_Swapped(tree) == [tree EXCEPT !.baseline = {<<k[2], k[1]>> : k \in check(tree.files)}]

write_baseline(tree) == [tree EXCEPT !.baseline = check(tree.files)]

\* The authors remove the entries the check calls fixed, or regenerate the file.
Heads(tree) ==
  LET edited == {[tree EXCEPT !.files = f] : f \in Edits(tree.files)}
  IN edited \cup {[t EXCEPT !.baseline = @ \ report(t).stale] : t \in edited}
            \cup {write_baseline(t) : t \in edited}

\* Git's three-way merge, of a set.
Merged(ours, base, theirs) == (ours \ (base \ theirs)) \cup (theirs \ base)
MergedTree(pr) ==
  [files    |-> Merged(main.files, pr.base.files, pr.head.files),
   baseline |-> Merged(main.baseline, pr.base.baseline, pr.head.baseline)]

CleanKeys(files) == {k \in Key \ Debt(files) : Present(k, files)}

-----------------------------------------------------------------------------
Init ==
  /\ \E files \in InitialFiles : main = write_baseline([files |-> files, baseline |-> {}])
  /\ prs = [p \in PullRequest |-> Idle]
  /\ text = NoText
  /\ merges = 0
  /\ fixed = CleanKeys(main.files)
  /\ amnesty = {}
  /\ unchecked = FALSE

\* An author writes a variables.tf.  Nothing reads it before the check of the
\* pull request, so it is written when no pull request is open.
Write ==
  /\ \A p \in PullRequest : prs[p] = Idle
  /\ merges < MaxMerges
  /\ \E token \in Token :
       /\ Follows(token, text.hcl.stack)
       /\ text' = [hcl |-> ReadHcl(text.hcl, token), strip |-> ReadStripped(text.strip, token)]
  /\ UNCHANGED <<main, prs, merges, fixed, amnesty, unchecked>>

\* A pull request is pushed and its required check passes.  One that fails it
\* cannot be merged and is not followed further.
Check(p) ==
  /\ prs[p] = Idle
  /\ merges < MaxMerges
  /\ \E head \in Heads(main) :
       /\ head # main /\ Passes(head)
       /\ prs' = [prs EXCEPT ![p] = [base |-> main, head |-> head]]
  /\ text' = NoText
  /\ UNCHANGED <<main, merges, fixed, amnesty, unchecked>>

Merge(p) ==
  /\ prs[p] # Idle
  /\ merges < MaxMerges
  /\ main' = MergedTree(prs[p])
  /\ prs' = [prs EXCEPT ![p] = Idle]
  /\ merges' = merges + 1
  /\ fixed' = fixed \cup CleanKeys(main'.files)
  /\ amnesty' = amnesty \cup (prs[p].head.baseline \ prs[p].base.baseline)
  /\ unchecked' = (unchecked \/ main' # prs[p].head)
  /\ UNCHANGED text

\* Nothing more to do within the bound.
Done ==
  /\ merges = MaxMerges
  /\ UNCHANGED vars

Next == Write \/ Done \/ \E p \in PullRequest : Check(p) \/ Merge(p)

Spec == Init /\ [][Next]_vars

-----------------------------------------------------------------------------
Tree == [files : SUBSET File, baseline : SUBSET Key]

\* What the variables hold.
TypeOK ==
  /\ main \in Tree
  /\ prs \in [PullRequest -> [base : Tree, head : Tree]]
  /\ text \in [hcl : Reader, strip : Reader]
  /\ merges \in 0..MaxMerges
  /\ fixed \subseteq Key /\ amnesty \subseteq Key /\ unchecked \in BOOLEAN

\* At the end of every file, strip_hcl and blocks have found a block without
\* its attribute if and only if there is one (no miss, no false positive).
ReadsAsWritten ==
  text.hcl.stack = <<>> => (Bare(text.strip) <=> Bare(text.hcl))

\* "It fails towards reporting a violation (a false positive) rather than
\* missing one": a block without its attribute never goes unseen.
MissesNothing ==
  text.hcl.stack = <<>> /\ Bare(text.hcl) => Bare(text.strip)

\* The baseline is the debt of main: every violation there really is was
\* accepted, and every entry whose subject is there is still violated - but for
\* the links of documents in the root, and unless two pull requests were merged
\* that were checked without each other.
BaselineIsTheDebt ==
  unchecked \/ /\ Debt(main.files) \subseteq main.baseline
               /\ {k \in main.baseline : Present(k, main.files) /\ ~InRoot(k)}
                    \subseteq Debt(main.files)

\* The ratchet: a violation that main was once free of, with its subject
\* there, never comes back, whatever was deleted, returned, merged or
\* accepted for other subjects in between, unless somebody accepted it anew
\* or it is a link of a document in the root.
FixedStaysFixed ==
  unchecked \/ {k \in fixed \cap Debt(main.files) : ~InRoot(k)} \subseteq amnesty

\* "A baseline entry that no longer violates" fails: no pull request passes
\* whose baseline accepts what it has fixed.
FixedEntriesFail ==
  \A p \in PullRequest :
    LET head == prs[p].head
    IN {k \in head.baseline : Present(k, head.files)} \subseteq Debt(head.files)
=============================================================================
