----------------------------- MODULE WorkStore -----------------------------
(***************************************************************************)
(* One FeltDbWorkStore with both halves of its coordination records: the    *)
(* proposals, reviews and decisions of ProposalStore and the assignments,   *)
(* executions and results of ExecutionStore, in one database and under one  *)
(* revision.  A write of one half is what the other half's OtherWrite       *)
(* stands for, and the approved proposals ExecutionStore takes as given are *)
(* the ones ProposalStore holds.                                            *)
(***************************************************************************)
EXTENDS FeltDb

CONSTANTS
    Callers, Authors, Proposals, Reviews, Decisions,
    Participants, CanPropose, CanReview, CanDecide, AtomicContext,
    Workers, Assignments, Executions, Results, None

ASSUME CapabilitiesAreParticipants ==
    /\ CanPropose \subseteq Participants
    /\ CanReview \subseteq Participants
    /\ CanDecide \subseteq Participants

ASSUME NoneIsNoIdentifier ==
    /\ None \notin Proposals \cup Reviews \cup Decisions \cup Participants
    /\ None \notin Assignments \cup Executions \cup Results

ASSUME AtomicContextIsBoolean == AtomicContext \in BOOLEAN

VARIABLES
    proposals, reviews, decisions, op,
    assignments, executions, results, noted, work

proposalVars == <<proposals, reviews, decisions, op>>
executionVars == <<assignments, executions, results, noted, work>>
vars == <<revision, proposalVars, executionVars>>

\* The proposals add_assignment finds approved.
Approved == {p \in Proposals : proposals[p].status = "Approved"}

P == INSTANCE ProposalStore
E == INSTANCE ExecutionStore WITH approved <- Approved

Init == P!Init /\ E!Init

\* A write to a record of neither half.
OtherWrite == LogWrite /\ UNCHANGED <<proposalVars, executionVars>>

Next ==
    \/ UNCHANGED executionVars /\ P!Step
    \/ UNCHANGED proposalVars /\ E!Step
    \/ OtherWrite

Spec == Init /\ [][Next]_vars

-----------------------------------------------------------------------------
(* Properties *)

\* Work is delegated only under a mandate (docs/WORK_COORDINATION.md): the
\* proposal an assignment names is Approved for as long as the assignment
\* exists, the approval is older than the assignment and than the execution
\* that carries it out, and a decision records it.  add_assignment looks at
\* the proposal and inserts without a precondition, so this rests on what
\* every writer of a proposal leaves alone.
WorkUnderMandate ==
    \A a \in Assignments :
        LET p == assignments[a].proposal IN
        p # None =>
            /\ p \in Approved
            /\ proposals[p].ver < assignments[a].ver
            /\ \E d \in Decisions : decisions[d].proposal = p
                                       /\ decisions[d].review # None
            /\ \A x \in E!RunsOf(a) : proposals[p].ver < executions[x].ver

\* Seen from assignments and executions, everything the other half does is
\* a write that may approve a proposal and never takes an approval back.
RefinesExecutionStore == E!Spec

\* Seen from proposals, everything the other half does is some other write.
RefinesProposalStore == P!Spec
=============================================================================
