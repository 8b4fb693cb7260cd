-------------------------- MODULE MCPolicyService --------------------------
(* Instances of PolicyService for TLC. *)
EXTENDS PolicyService, TLC

CONSTANTS g1, g2, safe, normal, performance

\* Loads below and above the band 3..6, with the average of two devices inside it;
\* temperatures below, inside and above the band 5..7.
MCLoad == {1, 9}
MCTemp == {4, 6, 8}

Hot == {[hot_temp |-> 7, cool_temp |-> 5, hot_mode |-> safe]}

Guarded == [busy_load |-> 6, idle_load |-> 3, busy_mode |-> performance,
            idle_mode |-> normal, thermal |-> Hot]
Plain == [Guarded EXCEPT !.thermal = None]

\* g1 with thermal protection, g1 without it, and g2 only, so that a reload can
\* remove a thermal rule or the whole rule of a device's group.
MCPolicies == {g1 :> Guarded, g1 :> Plain, g2 :> Guarded}

ASSUME \A p \in MCPolicies : \A g \in DOMAIN p : ValidRule(p[g])
============================================================================
