--------------------------- MODULE MCProviderRollout ---------------------------
(* One user inside a percentage rollout and one outside it, a request each; *)
(* two operators and two canary runs.                                       *)
EXTENDS ProviderRollout, TLC

CONSTANTS inside, outside, op1, op2, run1, run2, req1, req2

TheUsers == {inside, outside}
TheBuckets == inside :> 9 @@ outside :> 10
TheOwners == req1 :> inside @@ req2 :> outside
ThePolicies ==
    {[mode |-> "percentage", percentage |-> 10, allowed |-> {}],
     [mode |-> "allowlist", percentage |-> 0, allowed |-> {outside}]}
Symmetric == Permutations({op1, op2}) \cup Permutations({run1, run2})
=============================================================================
