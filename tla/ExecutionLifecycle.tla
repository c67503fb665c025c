------------------------- MODULE ExecutionLifecycle -------------------------
(***************************************************************************)
(* What the store promises about assigned work (docs/WORK_EXECUTION.md),    *)
(* with every operation in one indivisible step: an assignment waits, runs  *)
(* under one execution, and ends once; completion and failure leave exactly *)
(* one result, cancellation leaves none.                                    *)
(***************************************************************************)
CONSTANTS Assignments, Executions, Results

VARIABLES
    phase,   \* the state of each assignment
    runs,    \* the executions that materialise it
    output   \* the results they left

vars == <<phase, runs, output>>

Init ==
    /\ phase = [a \in Assignments |-> "Absent"]
    /\ runs = [a \in Assignments |-> {}]
    /\ output = [a \in Assignments |-> {}]

Assign(a) ==
    /\ phase[a] = "Absent"
    /\ phase' = [phase EXCEPT ![a] = "Pending"]
    /\ UNCHANGED <<runs, output>>

Start(a, x) ==
    /\ phase[a] = "Pending"
    /\ phase' = [phase EXCEPT ![a] = "Active"]
    /\ runs' = [runs EXCEPT ![a] = {x}]
    /\ UNCHANGED output

\* The provider reported an outcome.
Report(a, o) ==
    /\ phase[a] = "Active"
    /\ \E s \in {"Completed", "Failed"} : phase' = [phase EXCEPT ![a] = s]
    /\ output' = [output EXCEPT ![a] = {o}]
    /\ UNCHANGED runs

Cancel(a) ==
    /\ phase[a] = "Active"
    /\ phase' = [phase EXCEPT ![a] = "Cancelled"]
    /\ UNCHANGED <<runs, output>>

Next ==
    \E a \in Assignments :
        \/ Assign(a)
        \/ \E x \in Executions : Start(a, x)
        \/ \E o \in Results : Report(a, o)
        \/ Cancel(a)

Spec == Init /\ [][Next]_vars
=============================================================================
