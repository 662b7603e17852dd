------------------------------ MODULE MCApiAccess ------------------------------
(* Instances of ApiAccess: an administrator's key, a reader's key that expires, *)
(* and a row to be created; windows of two seconds and four ticks. *)
EXTENDS ApiAccess, TLC

CONSTANTS admin, reader, spare, ip

MCKeys == {admin, reader, spare}
MCGrants == (admin :> "admin") @@ (reader :> "read") @@ (spare :> "none")
MCLifetimes == (admin :> Never) @@ (reader :> 3) @@ (spare :> Never)
MCAllowed == [tier \in Tiers |-> IF tier = "admin" THEN 2 ELSE 1]

\* The reader also tries to create a key; the address has none.
MCCalls == {<<ip, "public", None>>, <<ip, "create", None>>, <<reader, "read", None>>,
            <<admin, "create", None>>, <<admin, "revoke", reader>>}
MCSymmetry == Permutations(Requests)
MCTerms == {Never}

Cfg(enforce, limit, failOpen, selfService) ==
  [enforce |-> enforce, limit |-> limit, failOpen |-> failOpen, selfService |-> selfService]
MCConfigs == {Cfg(TRUE, TRUE, TRUE, FALSE), Cfg(TRUE, TRUE, FALSE, TRUE), Cfg(FALSE, TRUE, TRUE, FALSE)}
================================================================================
