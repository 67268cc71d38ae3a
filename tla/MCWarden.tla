------------------------------ MODULE MCWarden ------------------------------
(* Two thresholds and two notices; three events, two of them the role's. *)
EXTENDS Warden

CONSTANTS e1, e2, e3

MCStacks == {{"budget_killswitch"}, {"daily_digest"}}
MCThreshold == {80, 100}
MCNotice == 1..2
MCEvent == {e1, e2, e3}
MCRoleEvents == {e1, e2}
=============================================================================
