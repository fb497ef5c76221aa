--------------------------- MODULE MCClaimLedger ---------------------------
(* The claim ledger on small instances. *)
EXTENDS ClaimLedger, TLC

CONSTANTS c1, c2, cli, slow

MCClaims == {c1, c2}
MCOneClaim == {c1}
MCProposals == 1 .. 2
MCOperators == {cli}
MCResidents == {slow}

\* What the capture paths insert: cloud_draft by capture_cloud_output_claims,
\* local_observed by propose_open_decision_reviews.
MCClaimDrafts == {<<"cloud_draft", "short_term_candidate">>,
                  <<"local_observed", "short_term_candidate">>}

MCCloudOnly == {<<"cloud_draft", "short_term_candidate">>}

Promote(target, cs, support) ==
    [action |-> "propose_promotion", target |-> target, claims |-> cs,
     support |-> support]
Decay(cs) ==
    [action |-> "decay", target |-> "forgotten", claims |-> cs, support |-> {}]
Other(a, target, cs) ==
    [action |-> a, target |-> target, claims |-> cs, support |-> {}]

MCProposalDrafts ==
    {Promote("semantic_fact", {c1, c2}, {}),
     Promote("semantic_fact", {c2}, {c1}),
     Decay({c1})}

\* An open promotion and a decay of the same claim.
MCForgetDrafts == {Promote("long_term_memory", {c1}, {}), Decay({c1})}

\* Two promotions of the same claim.
MCRaceDrafts ==
    {Promote("long_term_memory", {c1}, {}), Promote("semantic_fact", {c1}, {c1})}

\* Rows a drain applies, rows it must pass over, and rows that wait for ever.
MCDrainDrafts ==
    {Promote("long_term_memory", {c1}, {}),
     Other("request_verification", "none", {c1}),
     Other("noop", "none", {})}

MCReopen == {"queued"}

MCReject == {"rejected"}
MCConfirmed == {"confirmed"}
MCVerdicts == {"confirmed", "superseded"}

=============================================================================
