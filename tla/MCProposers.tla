---------------------------- MODULE MCProposers ----------------------------
(* The proposers on small instances. *)
EXTENDS Proposers, TLC

CONSTANTS a1, a2, proj1, sess1, sess2

MCActors == {a1, a2}
MCProjects == {proj1}
MCSessions == {sess1, sess2}
\* Two sessions of one project, and an episode that has no session.
At(p, s) == [project |-> p, session |-> s]
MCPlaces == {At(proj1, sess1), At(proj1, sess2), At(proj1, None)}
Symmetry == Permutations(MCActors) \cup Permutations(MCSessions)

\* 2 says "no" to 1 (a word too short for a token); 3 says "never" (token 9)
\* to a paraphrase of 1; 4 says the same as 1 in other words.
MCTokens == <<{1, 2, 3, 4, 5}, {1, 2, 3, 4, 5}, {1, 2, 3, 4, 6, 9}, {1, 2, 3, 4, 5}>>
MCHome == [t \in DOMAIN MCTokens |-> At(proj1, None)]
MCNegated == <<FALSE, TRUE, TRUE, FALSE>>

=============================================================================
