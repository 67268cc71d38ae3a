----------------------------- MODULE MCIamUsers -----------------------------
(* Values of the constants of IamUsers for TLC. *)
EXTENDS IamUsers

MCNames == <<"etl", "orders">>

\* The lists in which each listed user has one of its settings.
Lists(settings) ==
  {list \in Input : \A u \in DOMAIN list : list[u] \in settings[u]}

\* Either user may change its setting, and all three settings occur.
MixedInputs  == Lists([u \in User |-> IF u = "etl" THEN {"revoke", "keep"}
                                                  ELSE {"revoke", "drop"}])
RevokeInputs == Lists([u \in User |-> {"revoke"}])
=============================================================================
