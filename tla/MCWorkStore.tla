----------------------------- MODULE MCWorkStore -----------------------------
EXTENDS WorkStore, TLC

\* Identifiers are interchangeable, and so are the callers of one half.
Symmetry == Permutations(Callers) \cup Permutations(Workers)
                \cup Permutations(Proposals) \cup Permutations(Reviews)
                \cup Permutations(Decisions) \cup Permutations(Assignments)
                \cup Permutations(Executions) \cup Permutations(Results)
=============================================================================
