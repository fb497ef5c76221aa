-------------------------- MODULE MCProxyLifecycle --------------------------
(* The proxy lifecycle on a small instance: every pass can meet every other. *)
EXTENDS ProxyLifecycle, TLC

CONSTANTS a1, a2

MCActors == {a1, a2}
Processes == Permutations(MCActors)

\* One proxy of each kind the policy tells apart; the quiet one is promoted
\* only when another says the same or when it is pinned.
MCClasses ==
    {[salient |-> TRUE, safe |-> TRUE, trust |-> "local_observed", sig |-> "x"],
     [salient |-> FALSE, safe |-> TRUE, trust |-> "local_observed", sig |-> "y"],
     [salient |-> FALSE, safe |-> TRUE, trust |-> "cloud_draft", sig |-> "y"],
     [salient |-> TRUE, safe |-> FALSE, trust |-> "local_observed", sig |-> "z"]}

=============================================================================
