-------------------------- MODULE MCProposalStore --------------------------
EXTENDS ProposalStore, TLC

\* Callers, authors and identifiers are interchangeable; participants are
\* not, their capabilities differ.
Symmetry == Permutations(Callers) \cup Permutations(Authors)
                \cup Permutations(Proposals) \cup Permutations(Reviews)
                \cup Permutations(Decisions)
=============================================================================
