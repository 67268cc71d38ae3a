SPECIFICATION Spec
CONSTANTS
  acm = acm
  ami_builder = ami_builder
  readme = readme
  guide = guide
  pr1 = pr1
  pr2 = pr2
  Rare <- MCRare
  MaxDepth = 5
  Module <- MCModule
  Doc <- MCDoc
  Canonical = ami_builder
  SubdirDoc <- MCSubdirDoc
  MatrixKnown = TRUE
  RemoteKnown = TRUE
  Varied <- MCVaried
  PullRequest <- MCPullRequest
  MaxMerges = 3
  InitialFiles <- MCInitialFiles
SYMMETRY MCSymmetry
INVARIANTS
  TypeOK
  ReadsAsWritten
  BaselineIsTheDebt
  FixedStaysFixed
