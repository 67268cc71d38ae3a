---------------------------- MODULE MCGovernance ----------------------------
(* One old module with debt, the canonical one, and two documents. *)
EXTENDS Governance, TLC

CONSTANTS acm, ami_builder, readme, guide, pr1, pr2

MCModule == {acm, ami_builder}
MCDoc == {readme, guide}
MCSubdirDoc == {guide}
MCVaried == {"tests", "matrix", "linter_1", "linter_2"}
MCPullRequest == {pr1, pr2}
MCSymmetry == Permutations(MCPullRequest)
MCRare == {}
MCEscaped == {"escaped_template"}

\* acm lacks its tests and a variable's description; both documents have a link.
MCInitialFiles ==
  {(Compliant(ami_builder) \cup {<<"linter_1", ami_builder>>} \cup ({"doc", "link"} \X MCDoc))
   \cup (Compliant(acm) \ ({"tests", "described", "looks_described"} \X {acm}))}
=============================================================================
