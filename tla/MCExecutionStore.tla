-------------------------- MODULE MCExecutionStore --------------------------
EXTENDS ExecutionStore, TLC

\* Workers and identifiers are interchangeable.
Symmetry == Permutations(Workers) \cup Permutations(Assignments)
                \cup Permutations(Executions) \cup Permutations(Results)
=============================================================================
