-------------------------- MODULE GovernanceProofs --------------------------
(***************************************************************************)
(* The ratchet, for every set of modules, documents and pull requests, any *)
(* number of merges and any depth of nesting: types for every repository,  *)
(* and the promises of the baseline for one without the rare spellings     *)
(* (Rare).                                                                 *)
(***************************************************************************)
EXTENDS Governance, HclScanProofs

-----------------------------------------------------------------------------
(* What the operators on trees return.                                     *)

LEMMA Names ==
  /\ ModuleRule = {"G001", "G002", "G003", "G004", "G005", "G006", "G007", "G008", "G009", "G012"}
  /\ \A r \in ModuleRule : Needs[r] \in ModuleFact
  /\ Linter \subseteq ModuleFact /\ {"tf", "described", "looks_described"} \subseteq ModuleFact
  /\ "described" \notin Linter /\ "looks_described" \notin Linter
  /\ "described" \in TfFact /\ "looks_described" \in TfFact
<1>1. ModuleRule = {"G001", "G002", "G003", "G004", "G005", "G006", "G007", "G008", "G009", "G012"}
  BY DEF ModuleRule, Needs
<1>2. \A r \in ModuleRule : Needs[r] \in ModuleFact
  BY DEF ModuleFact
<1>3. Needs["G007"] = "looks_described" /\ "G007" \in ModuleRule
  BY <1>1 DEF Needs
<1>4. "looks_described" \in ModuleFact
  BY <1>2, <1>3
<1>5. "tf" \in ModuleFact /\ "described" \in ModuleFact /\ Linter \subseteq ModuleFact
  BY DEF ModuleFact, DirFact
<1> QED BY <1>1, <1>2, <1>4, <1>5 DEF Linter, TfFact

LEMMA FoundType ==
  ASSUME NEW files, NEW needs
  PROVE  Found(files, needs) \subseteq Key
<1>1. module_dirs(files) \subseteq Module
  BY DEF module_dirs
<1>2. {k \in ModuleRule \X module_dirs(files) :
         Applies(k[1], k[2], files) /\ <<needs[k[1]], k[2]>> \notin files} \subseteq Key
  BY <1>1 DEF Key
<1>3. \A m \in Module : <<"G010", m>> \in Key
  BY DEF Key
<1>4. \A d \in Doc : <<"G011", d>> \in Key
  BY DEF Key
<1> QED BY <1>2, <1>3, <1>4 DEF Found

\* The reader and the language agree about every module.
Looks(files) ==
  \A m \in Module : <<"described", m>> \in files <=> <<"looks_described", m>> \in files

\* Then what the check finds is what is wrong.
LEMMA CheckIsDebt ==
  ASSUME NEW files, Looks(files)
  PROVE  check(files) = Debt(files)
<1> DEFINE really == [Needs EXCEPT !.G007 = "described"]
<1>1. /\ Needs["G007"] = "looks_described" /\ really["G007"] = "described"
      /\ \A r \in ModuleRule \ {"G007"} : really[r] = Needs[r]
  BY DEF Needs, ModuleRule
<1>2. \A r \in ModuleRule, m \in module_dirs(files) :
        <<Needs[r], m>> \in files <=> <<really[r], m>> \in files
  <2> TAKE r \in ModuleRule, m \in module_dirs(files)
  <2>1. m \in Module
    BY DEF module_dirs
  <2> HIDE DEF really
  <2> QED BY <1>1, <2>1 DEF Looks
<1> HIDE DEF really
<1>3. \A k \in ModuleRule \X module_dirs(files) :
        <<Needs[k[1]], k[2]>> \in files <=> <<really[k[1]], k[2]>> \in files
  BY <1>2
<1>4. {k \in ModuleRule \X module_dirs(files) :
         Applies(k[1], k[2], files) /\ <<Needs[k[1]], k[2]>> \notin files}
      = {k \in ModuleRule \X module_dirs(files) :
           Applies(k[1], k[2], files) /\ <<really[k[1]], k[2]>> \notin files}
  BY <1>3
<1>5. Found(files, Needs) = Found(files, really)
  BY <1>4 DEF Found
<1> QED BY <1>5 DEF check, Debt, really

\* A tree that the report has nothing to say about.
Kept(tree) ==
  /\ check(tree.files) \subseteq tree.baseline
  /\ \A k \in tree.baseline : OnDisk(k, tree.files) => k \in check(tree.files)

LEMMA PassedIsKept ==
  ASSUME NEW tree, Passes(tree)
  PROVE  Kept(tree)
BY DEF Passes, report, Kept

LEMMA CleanIsOnDisk ==
  ASSUME NEW files, NEW k \in CleanKeys(files), ~InRoot(k)
  PROVE  k \in Key /\ k \notin Debt(files) /\ OnDisk(k, files)
BY DEF CleanKeys, OnDisk

-----------------------------------------------------------------------------
(* What a pull request makes of a tree.                                    *)

LEMMA CompliantFacts ==
  ASSUME NEW m \in Module
  PROVE  /\ Compliant(m) \subseteq File
         /\ \A n \in Module : <<"described", n>> \in Compliant(m) <=> n = m
         /\ \A n \in Module : <<"looks_described", n>> \in Compliant(m) <=> n = m
<1>1. Needs["G007"] = "looks_described" /\ "G007" \in ModuleRule
  BY Names DEF Needs
<1>2. "looks_described" \in {Needs[r] : r \in ModuleRule}
  BY <1>1
<1>3. ({"tf", "described"} \cup {Needs[r] : r \in ModuleRule}) \subseteq ModuleFact
  BY Names
<1> QED BY <1>2, <1>3 DEF Compliant, File

LEMMA EditsFacts ==
  ASSUME NEW files \in SUBSET File, NEW edited \in Edits(files)
  PROVE  /\ edited \subseteq File
         /\ Looks(files) /\ text.hcl = text.strip => Looks(edited)
<1> USE Names, FilesAssumption
<1>1. CASE edited = files
  BY <1>1
<1>2. ASSUME NEW m \in Module \ module_dirs(files), NEW lacking \in SUBSET (Varied \ Linter),
             edited = files \cup (Compliant(m) \ (lacking \X {m}))
      PROVE  edited \subseteq File /\ (Looks(files) => Looks(edited))
  <2>1. "described" \notin lacking /\ "looks_described" \notin lacking
    OBVIOUS
  <2> QED BY <1>2, <2>1, CompliantFacts DEF Looks
<1>3. ASSUME NEW m \in Module,
             edited = Without(files, m) \/ edited = WithoutTf(files, m)
      PROVE  edited \subseteq File /\ (Looks(files) => Looks(edited))
  BY <1>3 DEF Without, WithoutTf, Looks
<1>4. ASSUME NEW f \in Varied \ Linter, NEW m \in module_dirs(files), edited = Toggled(files, <<f, m>>)
      PROVE  edited \subseteq File /\ (Looks(files) => Looks(edited))
  <2>1. <<f, m>> \in File
    BY DEF File, module_dirs
  <2>2. f \notin {"described", "looks_described"}
    OBVIOUS
  <2> QED BY <1>4, <2>1, <2>2 DEF Toggled, Looks
<1>5. ASSUME NEW v \in Varied \cap Linter, NEW m \in module_dirs(files),
             edited = (files \ (Linter \X {m})) \cup {<<v, m>>}
      PROVE  edited \subseteq File /\ (Looks(files) => Looks(edited))
  <2>1. <<v, m>> \in File
    BY DEF File, module_dirs
  <2>2. v \notin {"described", "looks_described"}
    OBVIOUS
  <2> QED BY <1>5, <2>1, <2>2 DEF Looks
<1>6. ASSUME NEW d \in Doc, edited = Toggled(files, <<"link", d>>)
      PROVE  edited \subseteq File /\ (Looks(files) => Looks(edited))
  <2>1. <<"link", d>> \in File
    BY DEF File
  <2> QED BY <1>6, <2>1 DEF Toggled, Looks
<1>7. ASSUME NEW m \in module_dirs(files), edited = Described(files, m)
      PROVE  edited \subseteq File /\ (Looks(files) /\ text.hcl = text.strip => Looks(edited))
  <2>1. m \in Module /\ <<"described", m>> \in File /\ <<"looks_described", m>> \in File
    BY DEF File, module_dirs
  <2>2. edited \subseteq File
    BY <1>7, <2>1 DEF Described
  <2>3. ASSUME Looks(files), text.hcl = text.strip
        PROVE  Looks(edited)
    <3>1. CASE Bare(text.hcl)
      BY <1>7, <2>1, <2>3, <3>1 DEF Described, Looks
    <3>2. CASE ~Bare(text.hcl)
      BY <1>7, <2>1, <2>3, <3>2 DEF Described, Looks
    <3> QED BY <3>1, <3>2
  <2> QED BY <2>2, <2>3
<1>8. \/ edited = files
      \/ \E m \in Module \ module_dirs(files), lacking \in SUBSET (Varied \ Linter) :
           edited = files \cup (Compliant(m) \ (lacking \X {m}))
      \/ \E m \in Module : edited = Without(files, m) \/ edited = WithoutTf(files, m)
      \/ \E f \in Varied \ Linter, m \in module_dirs(files) : edited = Toggled(files, <<f, m>>)
      \/ \E v \in Varied \cap Linter, m \in module_dirs(files) :
           edited = (files \ (Linter \X {m})) \cup {<<v, m>>}
      \/ \E d \in Doc : edited = Toggled(files, <<"link", d>>)
      \/ \E m \in module_dirs(files) : edited = Described(files, m)
  <2> DEFINE added == {files \cup (Compliant(m) \ (lacking \X {m})) :
                         m \in Module \ module_dirs(files), lacking \in SUBSET (Varied \ Linter)}
             deleted == {Without(files, m) : m \in {n \in Module : is_dir(n, files)}}
             emptied == {WithoutTf(files, m) : m \in module_dirs(files)}
             toggled == {Toggled(files, <<f, m>>) : f \in Varied \ Linter, m \in module_dirs(files)}
             linted == {(files \ (Linter \X {m})) \cup {<<v, m>>} :
                          v \in Varied \cap Linter, m \in module_dirs(files)}
             linked == {Toggled(files, <<"link", d>>) : d \in {c \in Doc : <<"doc", c>> \in files}}
             written == {Described(files, m) : m \in module_dirs(files)}
  <2>1. Edits(files) = {files} \cup added \cup deleted \cup emptied \cup toggled
                       \cup linted \cup linked
                       \cup (IF text = NoText \/ text.hcl.stack # <<>> THEN {} ELSE written)
    BY DEF Edits
  <2>2. edited \in added => \E m \in Module \ module_dirs(files), lacking \in SUBSET (Varied \ Linter) :
           edited = files \cup (Compliant(m) \ (lacking \X {m}))
    OBVIOUS
  <2>3. edited \in toggled => \E f \in Varied \ Linter, m \in module_dirs(files) :
           edited = Toggled(files, <<f, m>>)
    OBVIOUS
  <2>4. edited \in linted => \E v \in Varied \cap Linter, m \in module_dirs(files) :
           edited = (files \ (Linter \X {m})) \cup {<<v, m>>}
    OBVIOUS
  <2>5. /\ edited \in deleted => \E m \in Module : edited = Without(files, m)
        /\ edited \in emptied => \E m \in Module : edited = WithoutTf(files, m)
    BY DEF module_dirs
  <2>6. edited \in linked => \E d \in Doc : edited = Toggled(files, <<"link", d>>)
    OBVIOUS
  <2>7. edited \in written => \E m \in module_dirs(files) : edited = Described(files, m)
    OBVIOUS
  <2>8. \/ edited = files \/ edited \in added \/ edited \in deleted \/ edited \in emptied
        \/ edited \in toggled \/ edited \in linted \/ edited \in linked \/ edited \in written
    <3> HIDE DEF added, deleted, emptied, toggled, linted, linked, written
    <3> QED BY <2>1
  <2> HIDE DEF added, deleted, emptied, toggled, linted, linked, written
  <2> QED BY <2>2, <2>3, <2>4, <2>5, <2>6, <2>7, <2>8
<1> QED BY <1>1, <1>2, <1>3, <1>4, <1>5, <1>6, <1>7, <1>8

LEMMA HeadsFacts ==
  ASSUME NEW tree \in Tree, NEW head \in Heads(tree)
  PROVE  /\ head \in Tree
         /\ Looks(tree.files) /\ text.hcl = text.strip => Looks(head.files)
<1> DEFINE edited == {[tree EXCEPT !.files = f] : f \in Edits(tree.files)}
<1>1. ASSUME NEW t \in edited
      PROVE  /\ t \in Tree
             /\ Looks(tree.files) /\ text.hcl = text.strip => Looks(t.files)
  BY <1>1, EditsFacts DEF Tree
<1>2. \/ head \in edited
      \/ \E t \in edited : head = [t EXCEPT !.baseline = @ \ report(t).stale]
      \/ \E t \in edited : head = write_baseline(t)
  BY DEF Heads
<1> HIDE DEF edited
<1>3. ASSUME NEW t \in edited, head = [t EXCEPT !.baseline = @ \ report(t).stale]
      PROVE  head \in Tree /\ head.files = t.files
  BY <1>1, <1>3 DEF Tree
<1>4. ASSUME NEW t \in edited, head = write_baseline(t)
      PROVE  head \in Tree /\ head.files = t.files
  BY <1>1, <1>4, FoundType DEF Tree, write_baseline, check
<1> QED BY <1>1, <1>2, <1>3, <1>4

LEMMA MergedFacts ==
  ASSUME main \in Tree, NEW pr \in [base : Tree, head : Tree]
  PROVE  /\ MergedTree(pr) \in Tree
         /\ Looks(main.files) /\ Looks(pr.base.files) /\ Looks(pr.head.files)
              => Looks(MergedTree(pr).files)
         /\ MergedTree(pr).baseline \subseteq main.baseline \cup (pr.head.baseline \ pr.base.baseline)
<1>1. /\ main.files \in SUBSET File /\ main.baseline \in SUBSET Key
      /\ pr.base.files \in SUBSET File /\ pr.base.baseline \in SUBSET Key
      /\ pr.head.files \in SUBSET File /\ pr.head.baseline \in SUBSET Key
  BY DEF Tree
<1>2. MergedTree(pr) \in Tree
  BY <1>1 DEF Tree, MergedTree, Merged
<1>3. ASSUME Looks(main.files), Looks(pr.base.files), Looks(pr.head.files)
      PROVE  Looks(MergedTree(pr).files)
  BY <1>3 DEF Looks, MergedTree, Merged
<1>4. MergedTree(pr).baseline \subseteq main.baseline \cup (pr.head.baseline \ pr.base.baseline)
  BY DEF MergedTree, Merged
<1> QED BY <1>2, <1>3, <1>4

-----------------------------------------------------------------------------
(* Types.                                                                  *)

LEMMA StartIsReader == AtStart \in Reader
<1>1. <<>> \in Seq(Frame)
  OBVIOUS
<1> QED BY <1>1 DEF AtStart, Reader

LEMMA NextType == TypeOK /\ [Next]_vars => TypeOK'
<1> SUFFICES ASSUME TypeOK, [Next]_vars PROVE TypeOK'
  OBVIOUS
<1> USE GovernanceAssumption DEF TypeOK
<1>1. CASE Write
  <2>1. PICK token \in Token :
          text' = [hcl |-> ReadHcl(text.hcl, token), strip |-> ReadStripped(text.strip, token)]
    BY <1>1 DEF Write
  <2>2. text' \in [hcl : Reader, strip : Reader]
    BY <2>1, ReadersType
  <2> QED BY <1>1, <2>2 DEF Write
<1>2. ASSUME NEW p \in PullRequest, Check(p)
      PROVE  TypeOK'
  <2>1. PICK head \in Heads(main) : prs' = [prs EXCEPT ![p] = [base |-> main, head |-> head]]
    BY <1>2 DEF Check
  <2>2. prs' \in [PullRequest -> [base : Tree, head : Tree]]
    BY <2>1, HeadsFacts
  <2>3. text' \in [hcl : Reader, strip : Reader]
    BY <1>2, StartIsReader DEF Check, NoText
  <2> QED BY <1>2, <2>2, <2>3 DEF Check
<1>3. ASSUME NEW p \in PullRequest, Merge(p)
      PROVE  TypeOK'
  <2>1. main' \in Tree
    BY <1>3, MergedFacts DEF Merge
  <2>2. prs' \in [PullRequest -> [base : Tree, head : Tree]]
    BY <1>3 DEF Merge, Idle, EmptyTree, Tree
  <2>3. merges' \in 0..MaxMerges
    BY <1>3 DEF Merge
  <2>4. fixed' \subseteq Key
    BY <1>3 DEF Merge, CleanKeys
  <2>5. prs[p].head.baseline \subseteq Key
    BY DEF Tree
  <2>6. amnesty' \subseteq Key
    BY <1>3, <2>5 DEF Merge
  <2>7. unchecked' \in BOOLEAN /\ text' = text
    BY <1>3 DEF Merge
  <2> QED BY <2>1, <2>2, <2>3, <2>4, <2>6, <2>7
<1>4. CASE UNCHANGED vars
  BY <1>4 DEF vars
<1> QED BY <1>1, <1>2, <1>3, <1>4 DEF Next, Done

LEMMA InitType == Init => TypeOK
<1> SUFFICES ASSUME Init PROVE TypeOK
  OBVIOUS
<1>1. PICK files \in InitialFiles : main = write_baseline([files |-> files, baseline |-> {}])
  BY DEF Init
<1>2. main \in Tree
  BY <1>1, FilesAssumption, FoundType DEF write_baseline, Tree, check
<1>3. prs \in [PullRequest -> [base : Tree, head : Tree]]
  BY DEF Init, Idle, EmptyTree, Tree
<1>4. text \in [hcl : Reader, strip : Reader]
  BY StartIsReader DEF Init, NoText
<1>5. fixed \subseteq Key /\ amnesty \subseteq Key
  BY DEF Init, CleanKeys
<1>6. merges \in 0..MaxMerges /\ unchecked \in BOOLEAN
  <2>1. merges = 0 /\ unchecked = FALSE
    BY DEF Init
  <2>2. merges \in 0..MaxMerges
    BY <2>1, GovernanceAssumption
  <2> QED BY <2>1, <2>2
<1> QED BY <1>2, <1>3, <1>4, <1>5, <1>6 DEF TypeOK

\* Every reachable state is well-typed, rare spellings or not.
THEOREM TypeCorrect == Spec => []TypeOK
BY InitType, NextType, PTL DEF Spec

-----------------------------------------------------------------------------
(* The ratchet.                                                            *)

\* The readers are at the same place, and every tree shows the check what is
\* there; what was checked is kept; what was once clean is not accepted.
Readers == text.hcl = text.strip /\ Grounded(text.hcl.stack)
Trees ==
  /\ Looks(main.files)
  /\ \A p \in PullRequest : Looks(prs[p].base.files) /\ Looks(prs[p].head.files)
Checked ==
  /\ \A p \in PullRequest : prs[p] # Idle => Kept(prs[p].head)
  /\ unchecked \/ Kept(main)
Fixed == unchecked \/ {k \in fixed \cap main.baseline : ~InRoot(k)} \subseteq amnesty

Inv == Readers /\ Trees /\ Checked /\ Fixed

LEMMA InitInv ==
  ASSUME Init
  PROVE  Inv
<1>1. Readers
  BY DEF Init, Readers, NoText, AtStart, Grounded
<1>2. PICK files \in InitialFiles : main = write_baseline([files |-> files, baseline |-> {}])
  BY DEF Init
<1>3. main.files = files /\ main.baseline = check(files)
  BY <1>2 DEF write_baseline
<1>4. Looks(main.files)
  BY <1>3, FilesAssumption DEF Looks
<1>5. Trees
  BY <1>4 DEF Init, Trees, Idle, EmptyTree, Looks
<1>6. Checked
  BY <1>3 DEF Init, Checked, Kept
<1>7. Fixed
  BY <1>3, <1>4, CleanIsOnDisk, CheckIsDebt DEF Init, Fixed
<1> QED BY <1>1, <1>5, <1>6, <1>7 DEF Inv

LEMMA NextInv ==
  ASSUME Rare = {}, TypeOK, Inv, [Next]_vars
  PROVE  Inv'
<1> USE DEF Inv
<1>1. CASE Write
  <2>1. PICK token \in Token :
          /\ Follows(token, text.hcl.stack)
          /\ text' = [hcl |-> ReadHcl(text.hcl, token), strip |-> ReadStripped(text.strip, token)]
    BY <1>1 DEF Write
  <2>2. text.hcl \in Reader
    BY DEF TypeOK
  <2>3. Readers'
    BY <2>1, <2>2, SameRead, ReadGrounded DEF Readers, Follows
  <2> QED BY <1>1, <2>3 DEF Write, Trees, Checked, Fixed, Kept
<1>2. ASSUME NEW p \in PullRequest, Check(p)
      PROVE  Inv'
  <2>1. PICK head \in Heads(main) :
          Passes(head) /\ prs' = [prs EXCEPT ![p] = [base |-> main, head |-> head]]
    BY <1>2 DEF Check
  <2>2. UNCHANGED <<main, fixed, amnesty, unchecked>> /\ text' = NoText
    BY <1>2 DEF Check
  <2>3. Looks(head.files) /\ Kept(head)
    BY <2>1, HeadsFacts, PassedIsKept DEF TypeOK, Trees, Readers
  <2>4. /\ prs'[p].base = main /\ prs'[p].head = head
        /\ \A q \in PullRequest \ {p} : prs'[q] = prs[q]
    BY <2>1 DEF TypeOK
  <2>5. Readers'
    BY <2>2 DEF Readers, NoText, AtStart, Grounded
  <2>6. Trees'
    BY <2>2, <2>3, <2>4 DEF Trees
  <2>7. Checked' /\ Fixed'
    BY <2>2, <2>3, <2>4 DEF Checked, Fixed, Kept
  <2> QED BY <2>5, <2>6, <2>7
<1>3. ASSUME NEW p \in PullRequest, Merge(p)
      PROVE  Inv'
  <2>1. /\ prs[p] # Idle /\ main' = MergedTree(prs[p]) /\ text' = text
        /\ fixed' = fixed \cup CleanKeys(main'.files)
        /\ amnesty' = amnesty \cup (prs[p].head.baseline \ prs[p].base.baseline)
        /\ unchecked' = (unchecked \/ main' # prs[p].head)
    BY <1>3 DEF Merge
  <2>2. prs'[p] = Idle /\ \A q \in PullRequest \ {p} : prs'[q] = prs[q]
    BY <1>3 DEF Merge, TypeOK
  <2>3. prs[p] \in [base : Tree, head : Tree] /\ main \in Tree
    BY DEF TypeOK
  <2>4. Looks(main'.files)
    BY <2>1, <2>3, MergedFacts DEF Trees
  <2>5. Trees'
    BY <2>2, <2>4 DEF Trees, Idle, EmptyTree, Looks
  <2>6. unchecked' \/ Kept(main')
    BY <2>1 DEF Checked
  <2>7. Checked'
    BY <2>2, <2>6 DEF Checked, Kept
  <2>8. Fixed'
    <3>1. SUFFICES ASSUME ~unchecked', NEW k \in fixed', k \in main'.baseline, ~InRoot(k)
                   PROVE  k \in amnesty'
      BY DEF Fixed
    <3>2. ~unchecked /\ Kept(main')
      BY <2>1, <2>6, <3>1
    <3>3. k \notin CleanKeys(main'.files)
      BY <2>4, <3>1, <3>2, CleanIsOnDisk, CheckIsDebt DEF Kept
    <3>4. k \in main.baseline \cup (prs[p].head.baseline \ prs[p].base.baseline)
      BY <2>1, <2>3, <3>1, MergedFacts
    <3> QED BY <2>1, <3>1, <3>2, <3>3, <3>4 DEF Fixed
  <2>9. Readers'
    BY <2>1 DEF Readers
  <2> QED BY <2>5, <2>7, <2>8, <2>9
<1>4. CASE UNCHANGED vars
  BY <1>4 DEF vars, Readers, Trees, Checked, Fixed, Kept
<1> QED BY <1>1, <1>2, <1>3, <1>4 DEF Next, Done

\* The two readers stay at the same place, and every tree, open or merged, has
\* a baseline that fits it.
THEOREM Invariance ==
  ASSUME Rare = {}
  PROVE  Spec => []Inv
<1>1. Init => Inv
  BY InitInv
<1>2. TypeOK /\ Inv /\ [Next]_vars => Inv'
  BY NextInv
<1> QED BY <1>1, <1>2, TypeCorrect, PTL DEF Spec

\* The reader of the check and the language find a variable without its
\* attribute in the same files, at any depth of nesting.
THEOREM ReaderAgrees ==
  ASSUME Rare = {}
  PROVE  Spec => []ReadsAsWritten
<1>1. Inv => ReadsAsWritten
  BY DEF Inv, Readers, ReadsAsWritten
<1> QED BY <1>1, Invariance, PTL

\* As long as every merge gave the tree that was checked, the baseline is the
\* debt of main, whatever modules come and go.
THEOREM BaselineExact ==
  ASSUME Rare = {}
  PROVE  Spec => []BaselineIsTheDebt
<1>1. Inv => BaselineIsTheDebt
  BY CheckIsDebt DEF Inv, Trees, Checked, Kept, OnDisk, BaselineIsTheDebt
<1> QED BY <1>1, Invariance, PTL

\* Debt that was fixed comes back only through an entry somebody wrote, or as a
\* link of a document in the root.
THEOREM RatchetHolds ==
  ASSUME Rare = {}
  PROVE  Spec => []FixedStaysFixed
<1>1. Inv => FixedStaysFixed
  BY CheckIsDebt DEF Inv, Trees, Checked, Kept, Fixed, FixedStaysFixed
<1> QED BY <1>1, Invariance, PTL
=============================================================================
