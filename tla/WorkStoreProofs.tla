-------------------------- MODULE WorkStoreProofs --------------------------
(***************************************************************************)
(* Proofs about WorkStore: each half of the store runs inside the whole as   *)
(* its own module describes it, so that what is proved of the halves holds   *)
(* of the whole, and delegated work has its mandate.                         *)
(***************************************************************************)
EXTENDS WorkStore, TLAPS

PP == INSTANCE ProposalStoreProofs
EP == INSTANCE ExecutionStoreProofs WITH approved <- Approved

-----------------------------------------------------------------------------
(* The halves as WorkStore and as the proofs name them are the same *)

LEMMA SameProposals == (P!Init => PP!Init) /\ (P!Step => PP!Step)
  <1>1. P!Init => PP!Init
    BY DEF P!Init, P!Idle, P!NoReview, P!NoDecision, P!Actors,
           PP!Init, PP!Idle, PP!NoReview, PP!NoDecision, PP!Actors
  <1>2. P!Step => PP!Step
    BY Zenon
    DEF P!Actors, P!Settled, P!Outcome, P!Verdict, P!Movable, P!Statuses,
        P!Idle, P!Holding, P!Dropped, P!Refreshing, P!Done, P!NoReview,
        P!NoDecision, P!AtVersion, P!ReviewIsNew, P!AtRevision,
        P!CreateProposal, P!RecordDecision, P!BeginSet, P!BeginReview,
        P!Admissible, P!ReadProposal, P!CommitSet, P!ReviewHolds, P!Mandate,
        P!CommitReview, P!ReadContext, P!StampContext, P!Submit, P!MayGive,
        P!SubmitReview, P!AcceptMessage, P!AcceptProposal, P!AcceptDecision,
        P!Holds, P!Refuse, P!Refresh, P!Abandon, P!CallStep, P!CallerStep,
        P!AuthorStep, P!Step, P!LogWrite, P!Stamp,
        PP!Actors, PP!Settled, PP!Outcome, PP!Verdict, PP!Movable, PP!Statuses,
        PP!Idle, PP!Holding, PP!Dropped, PP!Refreshing, PP!Done, PP!NoReview,
        PP!NoDecision, PP!AtVersion, PP!ReviewIsNew, PP!AtRevision,
        PP!CreateProposal, PP!RecordDecision, PP!BeginSet, PP!BeginReview,
        PP!Admissible, PP!ReadProposal, PP!CommitSet, PP!ReviewHolds,
        PP!Mandate, PP!CommitReview, PP!ReadContext, PP!StampContext,
        PP!Submit, PP!MayGive, PP!SubmitReview, PP!AcceptMessage,
        PP!AcceptProposal, PP!AcceptDecision, PP!Holds, PP!Refuse, PP!Refresh,
        PP!Abandon, PP!CallStep, PP!CallerStep, PP!AuthorStep, PP!Step,
        PP!LogWrite, PP!Stamp
  <1> QED
    BY <1>1, <1>2

LEMMA SameExecutions == (E!Init => EP!Init) /\ (E!Step => EP!Step)
  <1>1. E!Init => EP!Init
    BY DEF E!Init, E!Idle, E!NoAssignment, E!NoExecution,
           EP!Init, EP!Idle, EP!NoAssignment, EP!NoExecution
  <1>2. E!Step => EP!Step
    BY Zenon
    DEF E!Ended, E!Outcomes, E!NeedsResult, E!NoAssignment, E!NoExecution,
        E!RunsOf, E!Idle, E!store, E!Goto, E!Return, E!AssignmentAtVersion,
        E!ExecutionAtVersion, E!ExecutionIsNew, E!ResultIsNew, E!AtRevision,
        E!Authorized, E!BeginAssign, E!CommitAssign, E!BeginStart,
        E!CommitStart, E!BeginHeartbeat, E!ReadHeartbeat, E!CommitHeartbeat,
        E!BeginFinish, E!ReadExecutionVersion, E!ReadAssignmentVersion,
        E!Needed, E!ReadAssignment, E!FinishHolds, E!FileResult,
        E!CommitFinish, E!BeginReview, E!CommitReview, E!Holds, E!Refuse,
        E!Abandon, E!WorkerStep, E!Step, E!LogWrite, E!Stamp, E!Revision,
        EP!Ended, EP!Outcomes, EP!NeedsResult, EP!NoAssignment, EP!NoExecution,
        EP!RunsOf, EP!Idle, EP!store, EP!Goto, EP!Return,
        EP!AssignmentAtVersion, EP!ExecutionAtVersion, EP!ExecutionIsNew,
        EP!ResultIsNew, EP!AtRevision, EP!Authorized, EP!BeginAssign,
        EP!CommitAssign, EP!BeginStart, EP!CommitStart, EP!BeginHeartbeat,
        EP!ReadHeartbeat, EP!CommitHeartbeat, EP!BeginFinish,
        EP!ReadExecutionVersion, EP!ReadAssignmentVersion, EP!Needed,
        EP!ReadAssignment, EP!FinishHolds, EP!FileResult, EP!CommitFinish,
        EP!BeginReview, EP!CommitReview, EP!Holds, EP!Refuse, EP!Abandon,
        EP!WorkerStep, EP!Step, EP!LogWrite, EP!Stamp, EP!Revision
  <1> QED
    BY <1>1, <1>2

-----------------------------------------------------------------------------
(* The whole as each half sees it *)

LEMMA LogOfExecutions ==
  ASSUME UNCHANGED proposalVars, E!Step
  PROVE  LogWrite \/ UNCHANGED revision
  <1>1. [EP!Next]_(EP!vars)
    BY SameExecutions DEF EP!Next
  <1>2. EP!LogWrite \/ UNCHANGED revision
    BY <1>1, NoneIsNoIdentifier, MaxRevisionIsNat, EP!StepOfLog
  <1> QED
    BY <1>2 DEF EP!LogWrite, EP!Stamp, LogWrite, Stamp

\* To proposals, a step of the other half is another write or nothing.
LEMMA ProposalsStep ==
  ASSUME [Next]_vars
  PROVE  /\ [P!Next]_(P!vars)
         /\ [PP!Next]_(PP!vars)
  <1> USE DEF P!Next, P!vars, PP!Next, PP!vars, P!OtherWrite, PP!OtherWrite,
              P!LogWrite, P!Stamp, PP!LogWrite, PP!Stamp, LogWrite, Stamp,
              proposalVars
  <1>1. CASE UNCHANGED executionVars /\ P!Step
    BY <1>1, SameProposals
  <1>2. CASE UNCHANGED proposalVars /\ E!Step
    <2>1. LogWrite \/ UNCHANGED revision
      BY <1>2, LogOfExecutions
    <2> QED
      BY <1>2, <2>1
  <1>3. CASE OtherWrite \/ UNCHANGED vars
    BY <1>3 DEF OtherWrite, vars
  <1> QED
    BY <1>1, <1>2, <1>3 DEF Next

\* Everything that holds of ProposalStore holds of the proposals here.
THEOREM ProposalsAsAlone == Spec => RefinesProposalStore
  <1>1. Init => P!Init
    BY DEF Init
  <1>2. [Next]_vars => [P!Next]_(P!vars)
    BY ProposalsStep
  <1> QED
    BY <1>1, <1>2, PTL DEF Spec, P!Spec, RefinesProposalStore

LEMMA ProposalInvariance == Spec => []PP!IInv
  <1>1. Init => PP!IInv
    BY SameProposals, PP!InitInvariant, CapabilitiesAreParticipants,
       NoneIsNoIdentifier, AtomicContextIsBoolean, MaxRevisionIsNat DEF Init
  <1>2. PP!IInv /\ [Next]_vars => PP!IInv'
    BY ProposalsStep, PP!StepInvariant, CapabilitiesAreParticipants,
       NoneIsNoIdentifier, AtomicContextIsBoolean, MaxRevisionIsNat
  <1> QED
    BY <1>1, <1>2, PTL DEF Spec

\* What a step does to the approved proposals.
LEMMA ApprovedStep ==
  ASSUME PP!IInv, [Next]_vars
  PROVE  /\ UNCHANGED Approved \/ \E p \in Proposals : Approved' = Approved \cup {p}
         /\ UNCHANGED revision => UNCHANGED Approved
         /\ revision' >= revision
         /\ \A p \in Approved : proposals'[p] = proposals[p]
  <1>1. [PP!Next]_(PP!vars)
    BY ProposalsStep
  <1>2. PP!Advance
    BY <1>1, PP!StepInvariant, CapabilitiesAreParticipants,
       NoneIsNoIdentifier, AtomicContextIsBoolean, MaxRevisionIsNat
  <1>3. \/ UNCHANGED PP!ApprovedNow
        \/ \E p \in Proposals : PP!ApprovedNow' = PP!ApprovedNow \cup {p}
    BY <1>1, PP!ApprovesOne, CapabilitiesAreParticipants,
       NoneIsNoIdentifier, AtomicContextIsBoolean, MaxRevisionIsNat
  <1>4. revision \in Nat
    BY MaxRevisionIsNat DEF PP!IInv, PP!TypeOK, PP!Revision
  <1>5. UNCHANGED revision => UNCHANGED proposals
    BY <1>2, <1>4 DEF PP!Advance
  <1> QED
    BY <1>2, <1>3, <1>5 DEF PP!Advance, PP!ApprovedNow, PP!Settled, Approved

\* To executions, a step of the other half is another write, which approves
\* at most one proposal and takes no approval back, or nothing.
LEMMA ExecutionsStep ==
  ASSUME PP!IInv, [Next]_vars
  PROVE  /\ [E!Next]_(E!vars)
         /\ [EP!Next]_(EP!vars)
  <1> USE DEF E!Next, E!vars, EP!Next, EP!vars
  <1>1. /\ UNCHANGED Approved \/ \E p \in Proposals : Approved' = Approved \cup {p}
        /\ UNCHANGED revision => UNCHANGED Approved
    BY ApprovedStep
  <1>2. ASSUME UNCHANGED executionVars, LogWrite \/ UNCHANGED revision
        PROVE  [E!Next]_(E!vars) /\ [EP!Next]_(EP!vars)
    BY <1>1, <1>2
    DEF executionVars, E!OtherWrite, EP!OtherWrite, E!LogWrite, E!Stamp,
        EP!LogWrite, EP!Stamp, LogWrite, Stamp
  <1>3. CASE UNCHANGED executionVars /\ P!Step
    <2>1. [PP!Next]_(PP!vars)
      BY ProposalsStep
    <2>2. PP!LogWrite \/ UNCHANGED revision
      BY <2>1, PP!StepOfLog, CapabilitiesAreParticipants, NoneIsNoIdentifier,
         AtomicContextIsBoolean, MaxRevisionIsNat
    <2> QED
      BY <1>2, <1>3, <2>2 DEF PP!LogWrite, PP!Stamp, LogWrite, Stamp
  <1>4. CASE UNCHANGED proposalVars /\ E!Step
    BY <1>4, SameExecutions
  <1>5. CASE OtherWrite \/ UNCHANGED vars
    BY <1>2, <1>5 DEF OtherWrite, vars
  <1> QED
    BY <1>3, <1>4, <1>5 DEF Next

\* Everything that holds of ExecutionStore, whose approved proposals come
\* from nowhere, holds of the assignments and executions here.
THEOREM ExecutionsAsAlone == Spec => RefinesExecutionStore
  <1>1. Init => E!Init
    BY DEF Init
  <1>2. PP!IInv /\ [Next]_vars => [E!Next]_(E!vars)
    BY ExecutionsStep
  <1> QED
    BY <1>1, <1>2, ProposalInvariance, PTL DEF Spec, E!Spec, RefinesExecutionStore

LEMMA ExecutionInvariance == Spec => [](EP!IInv /\ EP!Delegated)
  <1>1. Init => EP!Init
    BY SameExecutions DEF Init
  <1>2. PP!IInv /\ [Next]_vars => [EP!Next]_(EP!vars)
    BY ExecutionsStep
  <1>3. Spec => EP!Spec
    BY <1>1, <1>2, ProposalInvariance, PTL DEF Spec, EP!Spec
  <1>4. EP!Spec => []EP!IInv
    BY NoneIsNoIdentifier, MaxRevisionIsNat, EP!Invariance
  <1>5. EP!Spec => []EP!Delegated
    BY NoneIsNoIdentifier, MaxRevisionIsNat, EP!DelegatesApproved
  <1> QED
    BY <1>3, <1>4, <1>5, PTL

-----------------------------------------------------------------------------
(* Delegated work has its mandate *)

\* An approval is older than what was done under it.
Dated ==
    \A a \in Assignments : assignments[a].proposal # None =>
        LET v == proposals[assignments[a].proposal].ver IN
        /\ v < assignments[a].ver
        /\ \A x \in Executions :
              executions[x].assignment = a => v < executions[x].ver

\* A step that writes an assignment writes no proposal.
LEMMA AssignmentsWritten ==
  ASSUME [Next]_vars, UNCHANGED assignments => FALSE
  PROVE  UNCHANGED proposals
  BY DEF Next, OtherWrite, vars, proposalVars, executionVars

LEMMA RevisionGrows ==
  ASSUME revision \in Nat, revision' \in Nat, revision' > revision,
         NEW v \in Nat, v <= revision
  PROVE  v < revision'
  OBVIOUS

LEMMA DatedStep ==
  ASSUME PP!IInv, EP!IInv, EP!Delegated, EP!Delegated', Dated, [Next]_vars
  PROVE  Dated'
  <1>1. /\ \A p \in Approved : proposals'[p] = proposals[p]
        /\ \A p \in Approved : proposals[p].ver \in Nat /\ proposals[p].ver <= revision
        /\ revision \in Nat
    BY ApprovedStep, MaxRevisionIsNat
    DEF PP!IInv, PP!TypeOK, PP!WellDated, PP!Proposal, PP!Revision, Approved
  <1>2. /\ [EP!Next]_(EP!vars)
        /\ EP!Advance
        /\ revision' \in Nat
    <2>1. [EP!Next]_(EP!vars)
      BY ExecutionsStep
    <2>2. EP!Advance /\ EP!IInv'
      BY <2>1, EP!Advances, EP!StepInvariant, NoneIsNoIdentifier, MaxRevisionIsNat
    <2> QED
      BY <2>1, <2>2, MaxRevisionIsNat DEF EP!IInv, EP!TypeOK, EP!Revision
  <1>3. \A a \in Assignments :
           \/ assignments'[a].proposal = assignments[a].proposal
           \/ assignments[a].status = "Absent" /\ EP!RunsOf(a) = {}
    <2>1. \A a \in Assignments :
             \/ assignments'[a].proposal = assignments[a].proposal
             \/ assignments[a].status = "Absent"
      BY <1>2, EP!LinkStep, NoneIsNoIdentifier, MaxRevisionIsNat
    <2> QED
      BY <2>1 DEF EP!IInv, EP!InStep
  <1>4. \A a \in Assignments : assignments[a].status = "Absent" =>
           assignments[a].ver = 0
    BY DEF EP!IInv, EP!WellDated, EP!NoAssignment
  <1> SUFFICES ASSUME NEW a \in Assignments, NEW p,
                      p = assignments'[a].proposal, p # None
               PROVE  /\ proposals'[p].ver < assignments'[a].ver
                      /\ \A x \in Executions : executions'[x].assignment = a =>
                            proposals'[p].ver < executions'[x].ver
    BY DEF Dated
  <1>5. p \in Approved
    <2>1. p \in Approved'
      BY DEF EP!Delegated, EP!Authorized
    <2>2. CASE p = assignments[a].proposal
      BY <2>2 DEF EP!Delegated, EP!Authorized
    <2>3. CASE p # assignments[a].proposal
      <3>1. assignments'[a] # assignments[a]
        BY <2>3
      <3>2. UNCHANGED proposals
        BY <3>1, AssignmentsWritten
      <3> QED
        BY <2>1, <3>2 DEF Approved
    <2> QED
      BY <2>2, <2>3
  <1>6. PICK v \in Nat : v = proposals[p].ver /\ v = proposals'[p].ver /\ v <= revision
    BY <1>1, <1>5
  <1>7. v < assignments'[a].ver
    <2>1. CASE assignments'[a] = assignments[a]
      BY <1>6, <2>1 DEF Dated
    <2>2. CASE assignments'[a] # assignments[a]
      BY <1>1, <1>2, <1>6, <2>2, RevisionGrows DEF EP!Advance
    <2> QED
      BY <2>1, <2>2
  <1>8. ASSUME NEW x \in Executions, executions'[x].assignment = a
        PROVE  v < executions'[x].ver
    <2>1. CASE executions'[x] = executions[x]
      <3>1. x \in EP!RunsOf(a)
        BY <1>8, <2>1 DEF EP!RunsOf
      <3>2. p = assignments[a].proposal
        BY <1>3, <3>1
      <3> QED
        BY <1>6, <1>8, <2>1, <3>2 DEF Dated
    <2>2. CASE executions'[x] # executions[x]
      BY <1>1, <1>2, <1>6, <2>2, RevisionGrows DEF EP!Advance
    <2> QED
      BY <2>1, <2>2
  <1> QED
    BY <1>6, <1>7, <1>8

\* The approval of a proposal is recorded by a decision that cites its review.
LEMMA ApprovedIsRecorded ==
  ASSUME PP!IInv, NEW p \in Approved
  PROVE  \E d \in Decisions : decisions[d].proposal = p /\ decisions[d].review # None
  <1>1. PICK r \in PP!Verdicts(p, "Approve") : TRUE
    BY DEF PP!IInv, PP!ApprovalChain, Approved
  <1>2. r \in Reviews /\ reviews[r].proposal = p /\ reviews[r].verdict = "Approve"
    BY <1>1 DEF PP!Verdicts
  <1>3. PICK d \in Decisions : decisions[d].review = r
    BY <1>2 DEF PP!IInv, PP!ApprovalChain
  <1>4. decisions[d].review # None
    BY <1>2, <1>3, NoneIsNoIdentifier
  <1> QED
    BY <1>2, <1>3, <1>4 DEF PP!IInv, PP!ApprovalChain

\* Whatever is assigned or carried out under a proposal has, and had when it
\* was written, a recorded approval that still stands.
THEOREM MandateStands == Spec => []WorkUnderMandate
  <1>1. Init => Dated
    BY DEF Init, E!Init, E!NoAssignment, Dated
  <1>2. /\ PP!IInv /\ EP!IInv /\ EP!Delegated /\ EP!Delegated' /\ [Next]_vars
        => (Dated => Dated')
    BY DatedStep
  <1>3. Spec => []Dated
    BY <1>1, <1>2, ProposalInvariance, ExecutionInvariance, PTL DEF Spec
  <1>4. PP!IInv /\ EP!Delegated /\ Dated => WorkUnderMandate
    BY ApprovedIsRecorded
    DEF EP!Delegated, EP!Authorized, Dated, WorkUnderMandate, E!RunsOf
  <1> QED
    BY <1>3, <1>4, ProposalInvariance, ExecutionInvariance, PTL
=============================================================================
