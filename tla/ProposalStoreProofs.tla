------------------------ MODULE ProposalStoreProofs ------------------------
(***************************************************************************)
(* Proofs about ProposalStore for every number of callers, authors and      *)
(* records, every distribution of capabilities and every length of the log. *)
(*                                                                          *)
(* A call that has read a proposal relies on it being as it was seen for as *)
(* long as its version is the one the call noted; a package that is still   *)
(* at the present revision has stored nothing yet.                          *)
(***************************************************************************)
EXTENDS ProposalStore, TLAPS

-----------------------------------------------------------------------------
(* The inductive invariant *)

WellDated == \A p \in Proposals : proposals[p].ver <= revision

\* The proposal a call has read under its version.
Seen(o, ok) ==
    /\ o.p \in Proposals
    /\ proposals[o.p].status # "Absent"
    /\ o.ver <= proposals[o.p].ver
    /\ o.pc = "commit" /\ AtVersion(o) => ok

\* What a call in flight may rely on.
Setting(o) ==
    /\ o.call = "set" /\ o.pc \in {"record", "commit"} /\ o.kind = "none"
    /\ o.to \in {"Proposed", "Superseded"}
    /\ Seen(o, <<proposals[o.p].status, o.to>> \in Movable)

Judging(o) ==
    /\ o.call \in {"review", "accept"} /\ o.pc \in {"record", "commit"}
    /\ o.kind = "review"
    /\ o.r \in Reviews /\ o.by \in Participants /\ o.verdict \in Verdict
    /\ Seen(o, proposals[o.p].status = "Proposed")

Submitting(o) ==
    /\ o.call = "accept" /\ o.pc = "commit"
    /\ o.kind \in {"message", "proposal", "decision"}
    /\ o.kind = "decision" => o.by \in Participants

Resting(o) ==
    /\ o.pc \in {"idle", "stamp", "package", "refresh"}
    /\ o.kind = "none"
    /\ o.pc \in {"stamp", "package"} => o.call = "accept"
    /\ o.pc = "refresh" => o.call = "refresh"
    /\ o.pc = "stamp" => o.accepted = 0
    /\ o.pc = "idle" => o = Idle

Underway(o) == Setting(o) \/ Judging(o) \/ Submitting(o) \/ Resting(o)

\* A package counts at most one stored contribution, and that one moved the
\* revision past it.
Spent(o) ==
    /\ o.base <= revision
    /\ o.accepted = 0 \/ (o.accepted = 1 /\ o.base < revision)

\* Unless it was torn, a package at the present revision shows the present.
Current(o) ==
    AtomicContext /\ o.call = "accept" /\ o.base = revision => o.shown = Statuses

InOrder(o) == Underway(o) /\ Spent(o) /\ Current(o)

IInv ==
    /\ TypeOK
    /\ WellDated
    /\ ApprovalChain
    /\ \A t \in Actors : InOrder(op[t])

-----------------------------------------------------------------------------
(* Types of calls *)

LEMMA RevisionIsNat == Revision \subseteq Nat /\ 0 \in Revision
  BY MaxRevisionIsNat DEF Revision

LEMMA StampIsRevision ==
  ASSUME revision \in Revision, LogWrite
  PROVE  /\ Stamp \in Revision /\ revision' \in Revision
         /\ revision' = Stamp /\ revision' > revision
  BY MaxRevisionIsNat DEF Revision, LogWrite, Stamp

LEMMA IdleIsOp == Idle \in OpType /\ Refreshing \in OpType
  BY RevisionIsNat DEF Idle, Refreshing, OpType, Status

LEMMA HoldingIsOp ==
  ASSUME NEW o \in OpType
  PROVE  Holding(o) \in OpType /\ Dropped(o) \in OpType /\ Done(o) \in OpType
  <1>1. o.base \in Revision /\ o.shown \in [Proposals -> Status] /\ o.accepted \in Nat
    BY DEF OpType
  <1>2. Holding(o) \in OpType
    BY <1>1, RevisionIsNat DEF Holding, Idle, OpType, Status
  <1>3. [Holding(o) EXCEPT !.accepted = o.accepted + 1] \in OpType
    BY <1>1, <1>2 DEF OpType
  <1> QED
    BY <1>2, <1>3, IdleIsOp DEF Dropped, Done

LEMMA HoldingIs ==
  ASSUME NEW o \in OpType
  PROVE  /\ Holding(o).call = "accept" /\ Holding(o).pc = "package"
         /\ Holding(o).kind = "none" /\ Holding(o).base = o.base
         /\ Holding(o).shown = o.shown /\ Holding(o).accepted = o.accepted
  BY DEF Holding, Idle

LEMMA Dates ==
  ASSUME TypeOK
  PROVE  /\ 0 <= revision
         /\ \A p \in Proposals :
               proposals[p].ver \in Revision /\ proposals[p].ver <= proposals[p].ver
  <1>1. \A n \in Revision : n \in Nat /\ 0 <= n /\ n <= n
    BY RevisionIsNat
  <1>2. revision \in Revision /\ \A p \in Proposals : proposals[p].ver \in Revision
    BY DEF TypeOK, Proposal
  <1> QED
    BY <1>1, <1>2

-----------------------------------------------------------------------------
(* Calls in order *)

LEMMA IdleInOrder == TypeOK => InOrder(Idle) /\ InOrder(Refreshing)
  <1> SUFFICES ASSUME TypeOK PROVE InOrder(Idle) /\ InOrder(Refreshing)
    OBVIOUS
  <1>1. 0 <= revision
    BY RevisionIsNat DEF TypeOK
  <1> QED
    BY <1>1 DEF InOrder, Underway, Resting, Spent, Current, Idle, Refreshing

\* A call that ends without an effect leaves a package as good as before.
LEMMA DroppedInOrder ==
  ASSUME TypeOK, NEW o \in OpType, InOrder(o)
  PROVE  InOrder(Dropped(o))
  <1>1. CASE o.call = "accept"
    <2>1. Dropped(o) = Holding(o)
      BY <1>1 DEF Dropped
    <2>2. Resting(Holding(o))
      BY HoldingIs DEF Resting
    <2>3. Spent(Holding(o)) /\ Current(Holding(o))
      BY <1>1, HoldingIs DEF InOrder, Spent, Current
    <2> QED
      BY <2>1, <2>2, <2>3 DEF InOrder, Underway
  <1>2. CASE o.call # "accept"
    BY <1>2, IdleInOrder DEF Dropped
  <1> QED
    BY <1>1, <1>2

\* tlapm keeps what is said of the record v apart from what is said of op[u].
LEMMA SameCall ==
  ASSUME NEW u \in Actors, NEW v, op'[u] = v, InOrder(v)'
  PROVE  InOrder(op[u])'
  BY DEF InOrder, Underway, Setting, Judging, Submitting, Resting, Seen,
         AtVersion, Spent, Current, Statuses

LEMMA GotoStep ==
  ASSUME IInv, NEW t \in Actors, NEW o \in OpType,
         op' = [op EXCEPT ![t] = o],
         UNCHANGED <<revision, proposals, reviews, decisions>>,
         InOrder(o)
  PROVE  IInv'
  <1> USE DEF IInv
  <1>1. TypeOK'
    BY DEF TypeOK
  <1>2. WellDated' /\ ApprovalChain'
    BY DEF WellDated, ApprovalChain, Verdicts, Citing
  <1>3. ASSUME NEW u \in Actors PROVE InOrder(op[u])'
    <2>1. PICK v : v = IF u = t THEN o ELSE op[u]
      OBVIOUS
    <2>2. InOrder(v) /\ op'[u] = v
      BY <2>1 DEF TypeOK
    <2>3. InOrder(v)'
      BY <2>2
      DEF InOrder, Underway, Setting, Judging, Submitting, Resting, Seen,
          AtVersion, Spent, Current, Statuses
    <2> QED
      BY <2>2, <2>3, SameCall
  <1> QED
    BY <1>1, <1>2, <1>3

-----------------------------------------------------------------------------
(* Steps that write *)

\* What every step keeps to: a proposal that is written was not settled and
\* gets the new revision as its version; evidence is only added.
Advance ==
    /\ revision' >= revision
    /\ revision' > revision \/ proposals' = proposals
    /\ \A p \in Proposals :
          \/ proposals'[p] = proposals[p]
          \/ /\ proposals'[p].ver = revision'
             /\ proposals'[p].status # "Absent"
             /\ proposals[p].status \notin Settled
    /\ \A r \in Reviews :
          \/ reviews'[r] = reviews[r]
          \/ /\ reviews[r] = NoReview
             /\ proposals[reviews'[r].proposal].status = "Proposed"
    /\ \A d \in Decisions : decisions'[d] = decisions[d] \/ decisions[d] = NoDecision

LEMMA AdvanceKeepsDates ==
  ASSUME TypeOK, TypeOK', WellDated, Advance
  PROVE  WellDated'
  <1>0. /\ revision \in Nat /\ revision' \in Nat
        /\ \A p \in Proposals : proposals[p].ver \in Nat
    BY RevisionIsNat DEF TypeOK, Proposal
  <1> QED
    BY <1>0 DEF WellDated, Advance

\* What a call relies on survives the writes of others.
LEMMA AdvanceKeepsCalls ==
  ASSUME TypeOK, TypeOK', WellDated, Advance, NEW o \in OpType, InOrder(o)
  PROVE  InOrder(o)'
  <1>0. /\ revision \in Nat /\ revision' \in Nat /\ o.ver \in Nat /\ o.base \in Nat
        /\ \A p \in Proposals : proposals[p].ver \in Nat
    BY RevisionIsNat DEF TypeOK, Proposal, OpType
  <1>1. Underway(o)'
    <2>1. CASE Setting(o)
      BY <1>0, <2>1 DEF Underway, Setting, Seen, AtVersion, Advance, WellDated
    <2>2. CASE Judging(o)
      BY <1>0, <2>2 DEF Underway, Judging, Seen, AtVersion, Advance, WellDated
    <2>3. CASE Submitting(o) \/ Resting(o)
      BY <2>3 DEF Underway, Submitting, Resting
    <2> QED
      BY <2>1, <2>2, <2>3 DEF InOrder, Underway
  <1>2. Spent(o)'
    BY <1>0 DEF InOrder, Spent, Advance
  <1>3. Current(o)'
    <2>1. o.base = revision' => proposals' = proposals /\ revision' = revision
      BY <1>0 DEF InOrder, Spent, Advance
    <2> QED
      BY <2>1 DEF InOrder, Current, Statuses
  <1> QED
    BY <1>1, <1>2, <1>3 DEF InOrder

\* The rest of the invariant after a step that leaves o of the call of t.
LEMMA WriteStep ==
  ASSUME IInv, TypeOK', Advance, ApprovalChain', NEW t \in Actors, NEW o,
         op' = [op EXCEPT ![t] = o], InOrder(o)'
  PROVE  IInv'
  <1> USE DEF IInv
  <1>1. ASSUME NEW u \in Actors PROVE InOrder(op[u])'
    <2>1. PICK v : v = IF u = t THEN o ELSE op[u]
      OBVIOUS
    <2>2. op'[u] = v /\ (u # t => v \in OpType /\ InOrder(v))
      BY <2>1 DEF TypeOK
    <2>3. InOrder(v)'
      <3>1. CASE u = t
        BY <2>1, <3>1
      <3>2. CASE u # t
        BY <2>2, <3>2, AdvanceKeepsCalls
      <3> QED
        BY <3>1, <3>2
    <2> QED
      BY <2>2, <2>3, SameCall
  <1> QED
    BY <1>1, AdvanceKeepsDates

\* A call that committed: the package it was made from, if any, is spent.
LEMMA DoneInOrder ==
  ASSUME TypeOK, TypeOK', NEW o \in OpType, InOrder(o), AtRevision(o),
         revision' > revision
  PROVE  InOrder(Done(o))'
  <1>0. revision \in Nat /\ revision' \in Nat /\ o.base \in Nat
    BY RevisionIsNat DEF TypeOK, OpType
  <1>1. CASE o.call = "accept"
    <2> DEFINE h == [Holding(o) EXCEPT !.accepted = o.accepted + 1]
    <2>1. Done(o) = h
      BY <1>1 DEF Done
    <2>2. /\ h.call = "accept" /\ h.pc = "package" /\ h.kind = "none"
          /\ h.base = revision /\ h.accepted = 1
      BY <1>0, <1>1, HoldingIs, HoldingIsOp DEF InOrder, Spent, AtRevision, OpType
    <2> HIDE DEF h
    <2>3. Underway(h)'
      BY <2>2 DEF Underway, Resting
    <2>4. Spent(h)'
      BY <1>0, <2>2 DEF Spent
    <2>5. Current(h)'
      BY <1>0, <2>2 DEF Current
    <2> QED
      BY <2>1, <2>3, <2>4, <2>5 DEF InOrder
  <1>2. CASE o.call # "accept"
    <2>1. Done(o) \in {Idle, Refreshing}
      BY <1>2 DEF Done
    <2>2. (InOrder(Idle) /\ InOrder(Refreshing))'
      <3>1. 0 <= revision'
        BY <1>0
      <3> QED
        BY <3>1 DEF InOrder, Underway, Resting, Spent, Current, Idle, Refreshing
    <2> QED
      BY <2>1, <2>2
  <1> QED
    BY <1>1, <1>2

\* A write by nobody's call.
LEMMA AnonymousStep ==
  ASSUME IInv, TypeOK', Advance, ApprovalChain', op' = op
  PROVE  IInv'
  <1> USE DEF IInv
  <1>1. ASSUME NEW u \in Actors PROVE InOrder(op[u])'
    <2>1. PICK v : v = op[u]
      OBVIOUS
    <2>2. v \in OpType /\ InOrder(v) /\ op'[u] = v
      BY <2>1 DEF TypeOK
    <2> QED
      BY <2>2, AdvanceKeepsCalls, SameCall
  <1> QED
    BY <1>1, AdvanceKeepsDates

\* What the present step of a call found.
LEMMA AtStep ==
  ASSUME IInv, NEW t \in Actors
  PROVE  /\ op[t] \in OpType /\ InOrder(op[t])
         /\ op[t].pc = "commit" /\ op[t].call = "set" => Setting(op[t])
         /\ op[t].kind = "review" => Judging(op[t])
         /\ op[t].kind \in {"message", "proposal", "decision"} => Submitting(op[t])
         /\ op[t].pc = "record" => Setting(op[t]) \/ Judging(op[t])
         /\ op[t].pc \in {"idle", "stamp", "package", "refresh"} => Resting(op[t])
  BY DEF IInv, TypeOK, InOrder, Underway, Setting, Judging, Submitting, Resting

-----------------------------------------------------------------------------
(* Reads preserve the invariant *)

LEMMA BeginSetStep ==
  ASSUME IInv, NEW t \in Actors, NEW p \in Proposals,
         NEW to \in {"Proposed", "Superseded"}, BeginSet(t, p, to)
  PROVE  IInv'
  <1> DEFINE o == [Idle EXCEPT !.call = "set", !.pc = "record", !.p = p, !.to = to,
                               !.ver = proposals[p].ver]
  <1>1. proposals[p].ver \in Revision /\ proposals[p].ver <= proposals[p].ver
        /\ 0 <= revision
    BY Dates DEF IInv
  <1>2. o \in OpType
    BY <1>1, IdleIsOp DEF OpType, Idle
  <1>3. Setting(o)
    BY <1>1 DEF BeginSet, Setting, Seen, Idle
  <1>4. Spent(o) /\ Current(o)
    BY <1>1 DEF Spent, Current, Idle
  <1>5. InOrder(o)
    BY <1>3, <1>4 DEF InOrder, Underway
  <1> QED
    BY <1>2, <1>5, GotoStep DEF BeginSet

LEMMA BeginReviewStep ==
  ASSUME IInv, NEW t \in Actors, NEW p \in Proposals, NEW r \in Reviews,
         NEW w \in Participants, NEW v \in Verdict, BeginReview(t, p, r, w, v)
  PROVE  IInv'
  <1> DEFINE o == [Idle EXCEPT !.call = "review", !.pc = "record",
                               !.kind = "review", !.p = p, !.r = r, !.by = w,
                               !.verdict = v, !.ver = proposals[p].ver]
  <1>1. proposals[p].ver \in Revision /\ proposals[p].ver <= proposals[p].ver
        /\ 0 <= revision
    BY Dates DEF IInv
  <1>2. o \in OpType
    BY <1>1, IdleIsOp DEF OpType, Idle
  <1>3. Judging(o)
    BY <1>1 DEF BeginReview, Judging, Seen, Idle
  <1>4. Spent(o) /\ Current(o)
    BY <1>1 DEF Spent, Current, Idle
  <1>5. InOrder(o)
    BY <1>3, <1>4 DEF InOrder, Underway
  <1> QED
    BY <1>2, <1>5, GotoStep DEF BeginReview

LEMMA DroppedStep ==
  ASSUME IInv, NEW t \in Actors, op' = [op EXCEPT ![t] = Dropped(op[t])],
         UNCHANGED <<revision, proposals, reviews, decisions>>
  PROVE  IInv'
  <1>1. Dropped(op[t]) \in OpType /\ InOrder(Dropped(op[t]))
    BY AtStep, HoldingIsOp, DroppedInOrder DEF IInv
  <1> QED
    BY <1>1, GotoStep

LEMMA ReadProposalStep ==
  ASSUME IInv, NEW t \in Actors, ReadProposal(t)
  PROVE  IInv'
  <1> DEFINE s == proposals[op[t].p].status
             o == [op[t] EXCEPT !.pc = "commit", !.seen = s]
  <1>1. CASE Admissible(op[t], s)
    <2>1. /\ op[t] \in OpType /\ InOrder(op[t])
          /\ Setting(op[t]) \/ Judging(op[t])
      BY AtStep DEF ReadProposal
    <2>2. s \in Status
      BY <2>1 DEF Setting, Judging, Seen, IInv, TypeOK, Proposal
    <2>3. o \in OpType
      BY <2>1, <2>2 DEF OpType
    <2>4. Underway(o)
      <3>1. CASE Setting(op[t])
        <4>1. <<s, op[t].to>> \in Movable
          BY <1>1, <3>1 DEF Setting, Admissible
        <4> QED
          BY <2>1, <3>1, <4>1 DEF Setting, Seen, OpType, Underway
      <3>2. CASE Judging(op[t])
        <4>1. s = "Proposed"
          BY <1>1, <3>2 DEF Judging, Admissible
        <4> QED
          BY <2>1, <3>2, <4>1 DEF Judging, Seen, OpType, Underway
      <3> QED
        BY <2>1, <3>1, <3>2
    <2>5. Spent(o) /\ Current(o)
      BY <2>1 DEF InOrder, Spent, Current, OpType
    <2>6. InOrder(o)
      BY <2>4, <2>5 DEF InOrder
    <2>7. op' = [op EXCEPT ![t] = o]
          /\ UNCHANGED <<revision, proposals, reviews, decisions>>
      BY <1>1 DEF ReadProposal
    <2> QED
      BY <2>3, <2>6, <2>7, GotoStep
  <1>2. CASE ~Admissible(op[t], s)
    BY <1>2, DroppedStep DEF ReadProposal
  <1> QED
    BY <1>1, <1>2

LEMMA ReadContextStep ==
  ASSUME IInv, NEW t \in Actors, ReadContext(t)
  PROVE  IInv'
  <1> DEFINE o == [Idle EXCEPT !.call = "accept", !.pc = "stamp",
                               !.base = revision, !.shown = Statuses]
  <1>1. Statuses \in [Proposals -> Status] /\ revision \in Revision
    BY DEF IInv, TypeOK, Statuses, Proposal
  <1>2. o \in OpType
    BY <1>1, IdleIsOp DEF OpType, Idle
  <1>3. o.call = "accept" /\ o.pc = "stamp" /\ o.base = revision
        /\ o.shown = Statuses /\ o.accepted = 0 /\ o.kind = "none"
    BY DEF Idle
  <1>4. Resting(o)
    BY <1>3 DEF Resting
  <1>5. Spent(o)
    <2>1. 0 <= revision /\ revision <= revision
      BY <1>1, RevisionIsNat
    <2> QED
      BY <1>3, <2>1 DEF Spent
  <1>6. Current(o)
    BY <1>3 DEF Current
  <1>7. InOrder(o)
    BY <1>4, <1>5, <1>6 DEF InOrder, Underway
  <1> QED
    BY <1>2, <1>7, GotoStep DEF ReadContext

LEMMA StampContextStep ==
  ASSUME IInv, NEW t \in Actors, StampContext(t)
  PROVE  IInv'
  <1> DEFINE o == [op[t] EXCEPT !.pc = "package", !.base = revision]
  <1>1. /\ op[t] \in OpType /\ Resting(op[t]) /\ op[t].pc = "stamp"
        /\ Current(op[t]) /\ op[t].call = "accept"
        /\ AtomicContext => revision = op[t].base
    BY AtStep DEF StampContext, InOrder, Resting
  <1>2. revision \in Revision /\ revision <= revision
    BY RevisionIsNat DEF IInv, TypeOK
  <1>3. o \in OpType
    BY <1>1, <1>2 DEF OpType
  <1>4. InOrder(o)
    BY <1>1, <1>2 DEF InOrder, Underway, Resting, Spent, Current, OpType
  <1>5. op' = [op EXCEPT ![t] = o]
    BY DEF StampContext, IInv, TypeOK
  <1> QED
    BY <1>3, <1>4, <1>5, GotoStep DEF StampContext

LEMMA SubmitStep ==
  ASSUME IInv, NEW t \in Actors, NEW kind \in {"message", "proposal", "decision"},
         NEW p \in Proposals \cup {None}, NEW w \in Participants,
         Submit(t, kind, p, w)
  PROVE  IInv'
  <1> DEFINE by == IF kind = "decision" THEN w ELSE None
             o == [op[t] EXCEPT !.pc = "commit", !.kind = kind, !.p = p, !.by = by]
  <1>1. op[t] \in OpType /\ Resting(op[t]) /\ op[t].pc = "package" /\ InOrder(op[t])
    BY AtStep DEF Submit
  <1>2. o \in OpType
    <2>1. by \in Participants \cup {None}
      OBVIOUS
    <2> HIDE DEF by
    <2> QED
      BY <1>1, <2>1 DEF OpType
  <1>3. Submitting(o)
    BY <1>1 DEF Resting, Submitting, OpType
  <1>4. Spent(o) /\ Current(o)
    BY <1>1 DEF InOrder, Spent, Current, OpType
  <1>5. InOrder(o)
    BY <1>3, <1>4 DEF InOrder, Underway
  <1> QED
    BY <1>2, <1>5, GotoStep DEF Submit

LEMMA SubmitReviewStep ==
  ASSUME IInv, NEW t \in Actors, NEW p \in Proposals, NEW r \in Reviews,
         NEW w \in Participants, NEW v \in Verdict, SubmitReview(t, p, r, w, v)
  PROVE  IInv'
  <1> DEFINE o == [op[t] EXCEPT !.pc = "record", !.kind = "review", !.p = p,
                                !.r = r, !.by = w, !.verdict = v,
                                !.ver = proposals[p].ver]
  <1>1. op[t] \in OpType /\ Resting(op[t]) /\ op[t].pc = "package" /\ InOrder(op[t])
    BY AtStep DEF SubmitReview
  <1>2. proposals[p].ver \in Revision /\ proposals[p].ver <= proposals[p].ver
    BY Dates DEF IInv
  <1>3. o \in OpType
    BY <1>1, <1>2 DEF OpType
  <1>4. Judging(o)
    BY <1>1, <1>2 DEF SubmitReview, Resting, Judging, Seen, OpType
  <1>5. Spent(o) /\ Current(o)
    BY <1>1 DEF InOrder, Spent, Current, OpType
  <1>6. InOrder(o)
    BY <1>4, <1>5 DEF InOrder, Underway
  <1> QED
    BY <1>3, <1>6, GotoStep DEF SubmitReview

LEMMA AbandonStep ==
  ASSUME IInv, NEW t \in Actors, Abandon(t)
  PROVE  IInv'
  <1>1. CASE op[t].pc \in {"package", "stamp"}
    BY <1>1, IdleIsOp, IdleInOrder, GotoStep DEF Abandon, IInv
  <1>2. CASE op[t].pc \notin {"package", "stamp"}
    BY <1>2, DroppedStep DEF Abandon
  <1> QED
    BY <1>1, <1>2

-----------------------------------------------------------------------------
(* The approval chain *)

\* A write that settles nothing, stores no review and at most a decision
\* that cites none keeps the chain.
LEMMA ChainByFrame ==
  ASSUME TypeOK, ApprovalChain, reviews' = reviews,
         \A p \in Proposals :
            /\ proposals'[p].status = "Approved" <=> proposals[p].status = "Approved"
            /\ proposals'[p].status = "Rejected" <=> proposals[p].status = "Rejected",
         \A d \in Decisions :
            \/ decisions'[d] = decisions[d]
            \/ decisions[d].review = None /\ decisions'[d].review = None
  PROVE  ApprovalChain'
  <1>1. \A p \in Proposals : /\ Verdicts(p, "Approve")' = Verdicts(p, "Approve")
                             /\ Verdicts(p, "Reject")' = Verdicts(p, "Reject")
    BY DEF Verdicts
  <1>2. None \notin Reviews
    BY NoneIsNoIdentifier
  <1>3. ASSUME NEW R \in SUBSET Reviews
        PROVE  Citing(R)' = Citing(R)
    BY <1>2, <1>3 DEF Citing
  <1>4. \A p \in Proposals : Citing(Verdicts(p, "Approve"))' =
                             Citing(Verdicts(p, "Approve"))
    <2> TAKE p \in Proposals
    <2>1. PICK R \in SUBSET Reviews : R = Verdicts(p, "Approve")
      BY DEF Verdicts
    <2>2. Citing(Verdicts(p, "Approve"))' = Citing(R)'
      BY <1>1, <2>1 DEF Citing
    <2> QED
      BY <1>3, <2>1, <2>2
  <1>5. \A p \in Proposals :
           /\ (proposals'[p].status = "Approved") <=> (Verdicts(p, "Approve")' # {})
           /\ (proposals'[p].status = "Rejected") <=> (Verdicts(p, "Reject")' # {})
           /\ AtMostOne(Verdicts(p, "Approve"))'
           /\ AtMostOne(Verdicts(p, "Reject"))'
           /\ AtMostOne(Citing(Verdicts(p, "Approve")))'
    BY <1>1, <1>4 DEF ApprovalChain, AtMostOne
  <1>6. \A r \in Reviews : reviews'[r].verdict = "Approve" =>
           \E d \in Decisions : decisions'[d].review = r
    BY <1>2 DEF ApprovalChain
  <1>7. \A d \in Decisions : decisions'[d].review # None =>
           LET r == reviews'[decisions'[d].review] IN
           /\ r.verdict = "Approve"
           /\ r.proposal = decisions'[d].proposal
           /\ r.by = decisions'[d].by
    BY DEF ApprovalChain
  <1> QED
    BY <1>5, <1>6, <1>7 DEF ApprovalChain

\* The reviews of a proposal after o's review is stored.
LEMMA VerdictsAfter ==
  ASSUME TypeOK, NEW o, o.r \in Reviews, reviews[o.r] = NoReview,
         reviews' = [reviews EXCEPT
            ![o.r] = [proposal |-> o.p, by |-> o.by, verdict |-> o.verdict]],
         NEW p \in Proposals, NEW v \in {"Approve", "Reject"}
  PROVE  Verdicts(p, v)' = IF p = o.p /\ v = o.verdict
                             THEN Verdicts(p, v) \cup {o.r} ELSE Verdicts(p, v)
  <1>1. \A r \in Reviews : r # o.r => reviews'[r] = reviews[r]
    BY DEF TypeOK
  <1>2. reviews'[o.r] = [proposal |-> o.p, by |-> o.by, verdict |-> o.verdict]
    BY DEF TypeOK
  <1>3. o.r \notin Verdicts(p, v)
    BY DEF Verdicts, NoReview
  <1> QED
    BY <1>1, <1>2, <1>3 DEF Verdicts

\* An open proposal has not been settled by any review.
LEMMA OpenIsUnsettled ==
  ASSUME ApprovalChain, NEW p \in Proposals, proposals[p].status = "Proposed"
  PROVE  Verdicts(p, "Approve") = {} /\ Verdicts(p, "Reject") = {}
  BY DEF ApprovalChain

\* An unused review identifier is cited by no decision.
LEMMA UnusedIsUncited ==
  ASSUME TypeOK, ApprovalChain, NEW r \in Reviews, reviews[r] = NoReview
  PROVE  \A d \in Decisions : decisions[d].review # r
  <1> SUFFICES ASSUME NEW d \in Decisions, decisions[d].review = r
               PROVE  FALSE
    OBVIOUS
  <1>1. r # None
    BY NoneIsNoIdentifier
  <1>2. reviews[r].verdict = "Approve"
    BY <1>1 DEF ApprovalChain
  <1> QED
    BY <1>2 DEF NoReview

\* What the transaction of the review call o does.
Reviewed(o) ==
    /\ o \in OpType /\ InOrder(o) /\ AtRevision(o)
    /\ o.p \in Proposals /\ o.r \in Reviews /\ o.by \in Participants
    /\ o.verdict \in Verdict
    /\ proposals[o.p].status = "Proposed"
    /\ reviews[o.r] = NoReview
    /\ proposals' = [proposals EXCEPT
          ![o.p] = [status |-> Outcome[o.verdict], ver |-> Stamp]]
    /\ reviews' = [reviews EXCEPT
          ![o.r] = [proposal |-> o.p, by |-> o.by, verdict |-> o.verdict]]
    /\ Mandate(o)

LEMMA ReviewEffect ==
  ASSUME IInv, NEW t \in Actors, CommitReview(t)
  PROVE  \E o : /\ o = op[t] /\ Reviewed(o)
                /\ op' = [op EXCEPT ![t] = Done(o)]
                /\ LogWrite
  <1>1. PICK o : o = op[t]
    OBVIOUS
  <1>2. /\ o \in OpType /\ InOrder(o) /\ AtRevision(o)
        /\ o.p \in Proposals /\ o.r \in Reviews /\ o.by \in Participants
        /\ o.verdict \in Verdict
        /\ proposals[o.p].status = "Proposed"
        /\ reviews[o.r] = NoReview
    BY <1>1, AtStep DEF CommitReview, ReviewHolds, ReviewIsNew, Judging, Seen, IInv
  <1>3. /\ proposals' = [proposals EXCEPT
              ![o.p] = [status |-> Outcome[o.verdict], ver |-> Stamp]]
        /\ reviews' = [reviews EXCEPT
              ![o.r] = [proposal |-> o.p, by |-> o.by, verdict |-> o.verdict]]
        /\ Mandate(o)
        /\ op' = [op EXCEPT ![t] = Done(o)]
        /\ LogWrite
    BY <1>1 DEF CommitReview
  <1> QED
    BY <1>1, <1>2, <1>3 DEF Reviewed

LEMMA WrittenByReview ==
  ASSUME TypeOK, NEW o, Reviewed(o)
  PROVE  /\ proposals'[o.p].status = Outcome[o.verdict]
         /\ \A p \in Proposals : p # o.p => proposals'[p] = proposals[p]
         /\ reviews'[o.r] = [proposal |-> o.p, by |-> o.by, verdict |-> o.verdict]
         /\ \A r \in Reviews : r # o.r => reviews'[r] = reviews[r]
  BY DEF Reviewed, TypeOK

LEMMA VerdictsOfReview ==
  ASSUME TypeOK, ApprovalChain, NEW o, Reviewed(o)
  PROVE  /\ Verdicts(o.p, "Approve") = {} /\ Verdicts(o.p, "Reject") = {}
         /\ \A p \in Proposals, v \in {"Approve", "Reject"} :
               Verdicts(p, v)' = IF p = o.p
                                   THEN IF v = o.verdict THEN {o.r} ELSE {}
                                   ELSE Verdicts(p, v)
  <1>0. /\ o.p \in Proposals /\ o.r \in Reviews
        /\ proposals[o.p].status = "Proposed" /\ reviews[o.r] = NoReview
        /\ reviews' = [reviews EXCEPT
              ![o.r] = [proposal |-> o.p, by |-> o.by, verdict |-> o.verdict]]
    BY DEF Reviewed
  <1>1. Verdicts(o.p, "Approve") = {} /\ Verdicts(o.p, "Reject") = {}
    BY <1>0, OpenIsUnsettled
  <1>2. \A p \in Proposals, v \in {"Approve", "Reject"} :
           Verdicts(p, v)' = IF p = o.p /\ v = o.verdict
                               THEN Verdicts(p, v) \cup {o.r} ELSE Verdicts(p, v)
    BY <1>0, VerdictsAfter
  <1> QED
    BY <1>1, <1>2

\* An approval is cited by the one decision it adds, any other review by none.
LEMMA MandateOfReview ==
  ASSUME TypeOK, ApprovalChain, NEW o, Reviewed(o)
  PROVE  \/ /\ o.verdict # "Approve"
            /\ decisions' = decisions
            /\ \A p \in Proposals : Citing(Verdicts(p, "Approve"))' =
                  IF p = o.p THEN {} ELSE Citing(Verdicts(p, "Approve"))
         \/ /\ o.verdict = "Approve"
            /\ \E d \in Decisions :
                  /\ decisions[d] = NoDecision
                  /\ decisions'[d] = [proposal |-> o.p, review |-> o.r, by |-> o.by]
                  /\ \A e \in Decisions : e # d => decisions'[e] = decisions[e]
                  /\ \A p \in Proposals : Citing(Verdicts(p, "Approve"))' =
                        IF p = o.p THEN {d} ELSE Citing(Verdicts(p, "Approve"))
  <1>0. o.r \in Reviews /\ reviews[o.r] = NoReview /\ Mandate(o)
    BY DEF Reviewed
  <1>1. \A d \in Decisions : decisions[d].review # o.r
    BY <1>0, UnusedIsUncited
  <1>v. \A p \in Proposals : Verdicts(p, "Approve")' =
           IF p = o.p THEN IF o.verdict = "Approve" THEN {o.r} ELSE {}
                      ELSE Verdicts(p, "Approve")
    BY VerdictsOfReview
  <1>2. CASE o.verdict # "Approve"
    <2>1. decisions' = decisions
      BY <1>0, <1>2 DEF Mandate
    <2>2. \A p \in Proposals : Citing(Verdicts(p, "Approve"))' =
             IF p = o.p THEN {} ELSE Citing(Verdicts(p, "Approve"))
      BY <1>2, <1>v, <2>1 DEF Citing
    <2> QED
      BY <1>2, <2>1, <2>2
  <1>3. CASE o.verdict = "Approve"
    <2>1. PICK d \in Decisions :
             /\ decisions[d] = NoDecision
             /\ decisions' = [decisions EXCEPT
                   ![d] = [proposal |-> o.p, review |-> o.r, by |-> o.by]]
      BY <1>0, <1>3 DEF Mandate
    <2>2. /\ decisions'[d] = [proposal |-> o.p, review |-> o.r, by |-> o.by]
          /\ \A e \in Decisions : e # d => decisions'[e] = decisions[e]
          /\ decisions[d].review = None
      BY <2>1 DEF TypeOK, NoDecision
    <2>3. \A p \in Proposals : /\ o.r \notin Verdicts(p, "Approve")
                               /\ None \notin Verdicts(p, "Approve")
      BY <1>0, NoneIsNoIdentifier DEF Verdicts, NoReview
    <2>4. \A p \in Proposals : Citing(Verdicts(p, "Approve"))' =
             IF p = o.p THEN {d} ELSE Citing(Verdicts(p, "Approve"))
      BY <1>1, <1>3, <1>v, <2>1, <2>2, <2>3 DEF Citing
    <2> QED
      BY <1>3, <2>1, <2>2, <2>4
  <1> QED
    BY <1>2, <1>3

LEMMA ReviewKeepsChain ==
  ASSUME TypeOK, ApprovalChain, NEW o, Reviewed(o)
  PROVE  ApprovalChain'
  <1>0. /\ o.p \in Proposals /\ o.r \in Reviews /\ o.verdict \in Verdict
        /\ proposals[o.p].status = "Proposed" /\ reviews[o.r] = NoReview
    BY DEF Reviewed
  <1>w. /\ proposals'[o.p].status = Outcome[o.verdict]
        /\ \A p \in Proposals : p # o.p => proposals'[p] = proposals[p]
        /\ reviews'[o.r] = [proposal |-> o.p, by |-> o.by, verdict |-> o.verdict]
        /\ \A r \in Reviews : r # o.r => reviews'[r] = reviews[r]
    BY WrittenByReview
  <1>v. \A p \in Proposals, v \in {"Approve", "Reject"} :
           Verdicts(p, v)' = IF p = o.p
                               THEN IF v = o.verdict THEN {o.r} ELSE {}
                               ELSE Verdicts(p, v)
    BY VerdictsOfReview
  <1>m. \/ /\ o.verdict # "Approve"
           /\ decisions' = decisions
           /\ \A p \in Proposals : Citing(Verdicts(p, "Approve"))' =
                 IF p = o.p THEN {} ELSE Citing(Verdicts(p, "Approve"))
        \/ /\ o.verdict = "Approve"
           /\ \E d \in Decisions :
                 /\ decisions[d] = NoDecision
                 /\ decisions'[d] = [proposal |-> o.p, review |-> o.r, by |-> o.by]
                 /\ \A e \in Decisions : e # d => decisions'[e] = decisions[e]
                 /\ \A p \in Proposals : Citing(Verdicts(p, "Approve"))' =
                       IF p = o.p THEN {d} ELSE Citing(Verdicts(p, "Approve"))
    BY MandateOfReview
  <1>1. /\ (Outcome[o.verdict] = "Approved") <=> (o.verdict = "Approve")
        /\ (Outcome[o.verdict] = "Rejected") <=> (o.verdict = "Reject")
    BY <1>0 DEF Verdict, Outcome
  <1>2. \A p \in Proposals :
           /\ (proposals'[p].status = "Approved") <=> (Verdicts(p, "Approve")' # {})
           /\ (proposals'[p].status = "Rejected") <=> (Verdicts(p, "Reject")' # {})
           /\ AtMostOne(Verdicts(p, "Approve"))'
           /\ AtMostOne(Verdicts(p, "Reject"))'
    BY <1>1, <1>w, <1>v DEF ApprovalChain, AtMostOne
  <1>3. \A d \in Decisions : decisions[d].review # o.r
    BY <1>0, UnusedIsUncited
  <1>4. \A p \in Proposals : AtMostOne(Citing(Verdicts(p, "Approve")))'
    BY <1>m DEF ApprovalChain, AtMostOne
  <1>5. \A r \in Reviews : reviews'[r].verdict = "Approve" =>
           \E d \in Decisions : decisions'[d].review = r
    <2>1. \A r \in Reviews : r # None
      BY NoneIsNoIdentifier
    <2> QED
      BY <1>w, <1>m, <2>1 DEF ApprovalChain, NoDecision
  <1>6. \A d \in Decisions : decisions'[d].review # None =>
           LET r == reviews'[decisions'[d].review] IN
           /\ r.verdict = "Approve"
           /\ r.proposal = decisions'[d].proposal
           /\ r.by = decisions'[d].by
    <2>1. \A d \in Decisions : decisions[d].review \in Reviews \cup {None}
      BY DEF TypeOK, Decision, NoDecision
    <2> QED
      BY <1>w, <1>m, <1>3, <2>1 DEF ApprovalChain
  <1> QED
    BY <1>2, <1>4, <1>5, <1>6 DEF ApprovalChain

-----------------------------------------------------------------------------
(* Writes preserve the invariant and advance *)

LEMMA StillAdvances ==
  ASSUME TypeOK, UNCHANGED <<revision, proposals, reviews, decisions>>
  PROVE  Advance
  BY RevisionIsNat DEF TypeOK, Advance

LEMMA WriteIsNewer ==
  ASSUME TypeOK, LogWrite
  PROVE  /\ revision' > revision /\ revision' >= revision
         /\ revision' = Stamp /\ Stamp \in Revision /\ revision' \in Revision
  BY MaxRevisionIsNat DEF TypeOK, Revision, LogWrite, Stamp

LEMMA CreateProposalStep ==
  ASSUME IInv, NEW p \in Proposals, NEW s \in {"Draft", "Proposed"},
         CreateProposal(p, s)
  PROVE  IInv' /\ Advance
  <1> USE DEF IInv
  <1>1. TypeOK'
    BY WriteIsNewer DEF CreateProposal, TypeOK, Proposal, Status
  <1>2. Advance
    BY WriteIsNewer DEF CreateProposal, TypeOK, Advance, Settled
  <1>3. ApprovalChain'
    BY ChainByFrame DEF CreateProposal, TypeOK
  <1> QED
    BY <1>1, <1>2, <1>3, AnonymousStep DEF CreateProposal

LEMMA OtherWriteStep ==
  ASSUME IInv, OtherWrite
  PROVE  IInv' /\ Advance
  <1> USE DEF IInv
  <1>1. TypeOK'
    BY WriteIsNewer DEF OtherWrite, TypeOK
  <1>2. Advance
    BY WriteIsNewer DEF OtherWrite, Advance
  <1>3. ApprovalChain'
    BY ChainByFrame DEF OtherWrite
  <1> QED
    BY <1>1, <1>2, <1>3, AnonymousStep DEF OtherWrite

LEMMA CommitSetStep ==
  ASSUME IInv, NEW t \in Actors, CommitSet(t)
  PROVE  IInv' /\ Advance
  <1> USE DEF IInv
  <1>0. PICK o : o = op[t]
    OBVIOUS
  <1>1. /\ o \in OpType /\ InOrder(o) /\ o.call = "set"
        /\ o.p \in Proposals /\ o.to \in {"Proposed", "Superseded"}
        /\ <<proposals[o.p].status, o.to>> \in Movable
    BY <1>0, AtStep DEF CommitSet, Setting, Seen
  <1>2. /\ proposals' = [proposals EXCEPT ![o.p] = [status |-> o.to, ver |-> Stamp]]
        /\ op' = [op EXCEPT ![t] = Done(o)]
        /\ LogWrite /\ UNCHANGED <<reviews, decisions>>
    BY <1>0 DEF CommitSet
  <1>3. Done(o) \in OpType
    BY <1>1, HoldingIsOp
  <1>4. TypeOK'
    BY <1>1, <1>2, <1>3, WriteIsNewer DEF TypeOK, Proposal, Status
  <1>5. proposals[o.p].status \in {"Draft", "Proposed"}
    BY <1>1 DEF Movable
  <1>6. Advance
    BY <1>1, <1>2, <1>5, WriteIsNewer DEF TypeOK, Advance, Settled
  <1>7. ApprovalChain'
    BY <1>1, <1>2, <1>5, ChainByFrame DEF TypeOK
  <1>8. InOrder(Done(o))'
    BY <1>1, <1>2, <1>4, WriteIsNewer, DoneInOrder DEF AtRevision
  <1> QED
    BY <1>2, <1>4, <1>6, <1>7, <1>8, WriteStep

LEMMA CommitReviewStep ==
  ASSUME IInv, NEW t \in Actors, CommitReview(t)
  PROVE  IInv' /\ Advance
  <1> USE DEF IInv
  <1>0. PICK o : /\ o = op[t] /\ Reviewed(o)
                 /\ op' = [op EXCEPT ![t] = Done(o)]
                 /\ LogWrite
    BY ReviewEffect
  <1>1. /\ o \in OpType /\ InOrder(o) /\ AtRevision(o)
        /\ o.p \in Proposals /\ o.r \in Reviews /\ o.by \in Participants
        /\ o.verdict \in Verdict
        /\ proposals[o.p].status = "Proposed"
        /\ reviews[o.r] = NoReview
    BY <1>0 DEF Reviewed
  <1>2. /\ proposals' = [proposals EXCEPT
              ![o.p] = [status |-> Outcome[o.verdict], ver |-> Stamp]]
        /\ reviews' = [reviews EXCEPT
              ![o.r] = [proposal |-> o.p, by |-> o.by, verdict |-> o.verdict]]
        /\ Mandate(o)
        /\ op' = [op EXCEPT ![t] = Done(o)]
        /\ LogWrite
    BY <1>0 DEF Reviewed
  <1>3. Done(o) \in OpType
    BY <1>1, HoldingIsOp
  <1>4. TypeOK'
    <2>1. Outcome[o.verdict] \in {"Approved", "Rejected", "Proposed"}
      BY <1>1 DEF Verdict, Outcome
    <2>2. proposals' \in [Proposals -> Proposal]
      BY <1>1, <1>2, <2>1, WriteIsNewer DEF TypeOK, Proposal, Status
    <2>3. reviews' \in [Reviews -> Review \cup {NoReview}]
      BY <1>1, <1>2 DEF TypeOK, Review
    <2>4. decisions' \in [Decisions -> Decision \cup {NoDecision}]
      BY <1>1, <1>2 DEF Mandate, TypeOK, Decision
    <2> QED
      BY <1>2, <1>3, <2>2, <2>3, <2>4, WriteIsNewer DEF TypeOK
  <1>5. Advance
    <2>1. \A r \in Reviews : \/ reviews'[r] = reviews[r]
                             \/ /\ reviews[r] = NoReview
                                /\ proposals[reviews'[r].proposal].status = "Proposed"
      BY <1>1, <1>2 DEF TypeOK
    <2>2. \A d \in Decisions : decisions'[d] = decisions[d] \/ decisions[d] = NoDecision
      BY <1>2 DEF Mandate, TypeOK
    <2>3. Outcome[o.verdict] # "Absent"
      BY <1>1 DEF Verdict, Outcome
    <2>4. \A p \in Proposals :
             \/ proposals'[p] = proposals[p]
             \/ /\ proposals'[p].ver = revision'
                /\ proposals'[p].status # "Absent"
                /\ proposals[p].status \notin Settled
      BY <1>1, <1>2, <2>3, WriteIsNewer DEF TypeOK, Settled
    <2> QED
      BY <1>2, <2>1, <2>2, <2>4, WriteIsNewer DEF Advance
  <1>6. ApprovalChain'
    BY <1>0, ReviewKeepsChain
  <1>7. InOrder(Done(o))'
    BY <1>1, <1>2, <1>4, WriteIsNewer, DoneInOrder
  <1> QED
    BY <1>2, <1>4, <1>5, <1>6, <1>7, WriteStep

LEMMA RecordDecisionStep ==
  ASSUME IInv, NEW t \in Actors, NEW d \in Decisions, NEW w \in Participants,
         RecordDecision(t, d, w)
  PROVE  IInv' /\ Advance
  <1> USE DEF IInv
  <1>1. TypeOK'
    BY WriteIsNewer, IdleIsOp DEF RecordDecision, TypeOK, Decision
  <1>2. Advance
    BY WriteIsNewer DEF RecordDecision, TypeOK, Advance
  <1>3. ApprovalChain'
    BY ChainByFrame DEF RecordDecision, TypeOK, NoDecision
  <1>4. InOrder(Refreshing)'
    <2>1. 0 <= revision'
      BY <1>1, RevisionIsNat DEF TypeOK
    <2> QED
      BY <2>1 DEF InOrder, Underway, Resting, Spent, Current, Idle, Refreshing
  <1> QED
    BY <1>1, <1>2, <1>3, <1>4, WriteStep DEF RecordDecision

LEMMA RefreshStep ==
  ASSUME IInv, NEW t \in Actors, Refresh(t)
  PROVE  IInv' /\ Advance
  <1> USE DEF IInv
  <1>1. CASE UNCHANGED revision
    BY <1>1, IdleIsOp, IdleInOrder, GotoStep, StillAdvances DEF Refresh
  <1>2. CASE LogWrite
    <2>1. TypeOK'
      BY <1>2, WriteIsNewer, IdleIsOp DEF Refresh, TypeOK
    <2>2. Advance
      BY <1>2, WriteIsNewer DEF Refresh, Advance
    <2>3. ApprovalChain'
      BY ChainByFrame DEF Refresh
    <2>4. InOrder(Idle)'
      <3>1. 0 <= revision'
        BY <2>1, RevisionIsNat DEF TypeOK
      <3> QED
        BY <3>1 DEF InOrder, Underway, Resting, Spent, Current, Idle
    <2> QED
      BY <2>1, <2>2, <2>3, <2>4, WriteStep DEF Refresh
  <1> QED
    BY <1>1, <1>2 DEF Refresh

LEMMA AcceptMessageStep ==
  ASSUME IInv, NEW t \in Actors, AcceptMessage(t)
  PROVE  IInv' /\ Advance
  <1> USE DEF IInv
  <1>0. PICK o : o = op[t]
    OBVIOUS
  <1>1. /\ o \in OpType /\ InOrder(o) /\ AtRevision(o)
        /\ op' = [op EXCEPT ![t] = Done(o)] /\ LogWrite
        /\ UNCHANGED <<proposals, reviews, decisions>>
    BY <1>0, AtStep DEF AcceptMessage
  <1>2. TypeOK'
    BY <1>1, HoldingIsOp, WriteIsNewer DEF TypeOK
  <1>3. Advance
    BY <1>1, WriteIsNewer DEF Advance
  <1>4. ApprovalChain'
    BY <1>1, ChainByFrame
  <1>5. InOrder(Done(o))'
    BY <1>1, <1>2, WriteIsNewer, DoneInOrder
  <1> QED
    BY <1>1, <1>2, <1>3, <1>4, <1>5, WriteStep

LEMMA AcceptProposalStep ==
  ASSUME IInv, NEW t \in Actors, AcceptProposal(t)
  PROVE  IInv' /\ Advance
  <1> USE DEF IInv
  <1>0. PICK o : o = op[t]
    OBVIOUS
  <1>1. /\ o \in OpType /\ InOrder(o) /\ AtRevision(o)
        /\ op' = [op EXCEPT ![t] = Done(o)] /\ LogWrite
        /\ UNCHANGED <<reviews, decisions>>
    BY <1>0, AtStep DEF AcceptProposal
  <1>2. PICK p \in Proposals :
           /\ proposals[p].status = "Absent"
           /\ proposals' = [proposals EXCEPT
                 ![p] = [status |-> "Proposed", ver |-> Stamp]]
    BY DEF AcceptProposal
  <1>3. TypeOK'
    BY <1>1, <1>2, HoldingIsOp, WriteIsNewer DEF TypeOK, Proposal, Status
  <1>4. Advance
    BY <1>1, <1>2, WriteIsNewer DEF TypeOK, Advance, Settled
  <1>5. ApprovalChain'
    BY <1>1, <1>2, ChainByFrame DEF TypeOK
  <1>6. InOrder(Done(o))'
    BY <1>1, <1>3, WriteIsNewer, DoneInOrder
  <1> QED
    BY <1>1, <1>3, <1>4, <1>5, <1>6, WriteStep

LEMMA AcceptDecisionStep ==
  ASSUME IInv, NEW t \in Actors, AcceptDecision(t)
  PROVE  IInv' /\ Advance
  <1> USE DEF IInv
  <1>0. PICK o : o = op[t]
    OBVIOUS
  <1>1. /\ o \in OpType /\ InOrder(o) /\ AtRevision(o) /\ o.by \in Participants
        /\ op' = [op EXCEPT ![t] = Done(o)] /\ LogWrite
        /\ UNCHANGED <<proposals, reviews>>
    BY <1>0, AtStep DEF AcceptDecision, Submitting
  <1>2. PICK d \in Decisions :
           /\ decisions[d] = NoDecision
           /\ decisions' = [decisions EXCEPT
                 ![d] = [proposal |-> o.p, review |-> None, by |-> o.by]]
    BY <1>0 DEF AcceptDecision
  <1>3. TypeOK'
    <2>1. o.p \in Proposals \cup {None}
      BY <1>1 DEF OpType
    <2> QED
      BY <1>1, <1>2, <2>1, HoldingIsOp, WriteIsNewer DEF TypeOK, Decision
  <1>4. Advance
    BY <1>1, <1>2, WriteIsNewer DEF TypeOK, Advance
  <1>5. ApprovalChain'
    BY <1>1, <1>2, ChainByFrame DEF TypeOK, NoDecision
  <1>6. InOrder(Done(o))'
    BY <1>1, <1>3, WriteIsNewer, DoneInOrder
  <1> QED
    BY <1>1, <1>3, <1>4, <1>5, <1>6, WriteStep

-----------------------------------------------------------------------------
(* The theorems *)

LEMMA InitInvariant == Init => IInv
  <1> SUFFICES ASSUME Init PROVE IInv
    OBVIOUS
  <1> USE DEF Init
  <1>1. TypeOK
    BY IdleIsOp, RevisionIsNat DEF TypeOK, Proposal, Status
  <1>2. WellDated
    BY DEF WellDated
  <1>3. ApprovalChain
    BY NoneIsNoIdentifier
    DEF ApprovalChain, Verdicts, Citing, AtMostOne, NoReview, NoDecision
  <1>4. \A t \in Actors : InOrder(op[t])
    BY <1>1, IdleInOrder
  <1> QED
    BY <1>1, <1>2, <1>3, <1>4 DEF IInv

\* Every step keeps the invariant and advances.
LEMMA StepInvariant ==
  ASSUME IInv, [Next]_vars
  PROVE  IInv' /\ Advance
  <1>1. CASE UNCHANGED vars
    <2>1. Advance
      BY <1>1, StillAdvances DEF vars, IInv
    <2>2. TypeOK'
      BY <1>1 DEF vars, IInv, TypeOK
    <2>3. ApprovalChain'
      BY <1>1, ChainByFrame DEF vars, IInv
    <2> QED
      BY <1>1, <2>1, <2>2, <2>3, AnonymousStep DEF vars
  <1>2. CASE OtherWrite
    BY <1>2, OtherWriteStep
  <1>3. ASSUME NEW p \in Proposals, NEW s \in {"Draft", "Proposed"},
               CreateProposal(p, s)
        PROVE  IInv' /\ Advance
    BY <1>3, CreateProposalStep
  <1>4. ASSUME NEW t \in Actors, CallStep(t)
        PROVE  IInv' /\ Advance
    <2>1. CASE CommitReview(t)
      BY <2>1, CommitReviewStep
    <2>2. CASE ReadProposal(t) \/ Refuse(t) \/ Abandon(t)
      <3>1. IInv'
        BY <2>2, ReadProposalStep, AbandonStep, DroppedStep DEF Refuse
      <3>2. Advance
        BY <2>2, StillAdvances DEF ReadProposal, Refuse, Abandon, IInv
      <3> QED
        BY <3>1, <3>2
    <2> QED
      BY <1>4, <2>1, <2>2 DEF CallStep
  <1>5. ASSUME NEW t \in Actors, CallerStep(t)
        PROVE  IInv' /\ Advance
    <2>1. CASE CommitSet(t) \/ Refresh(t)
      BY <2>1, CommitSetStep, RefreshStep
    <2>2. ASSUME NEW d \in Decisions, NEW w \in Participants, RecordDecision(t, d, w)
          PROVE  IInv' /\ Advance
      BY <2>2, RecordDecisionStep
    <2>3. ASSUME NEW p \in Proposals, NEW to \in {"Proposed", "Superseded"},
                 BeginSet(t, p, to)
          PROVE  IInv' /\ Advance
      BY <2>3, BeginSetStep, StillAdvances DEF BeginSet, IInv
    <2>4. ASSUME NEW p \in Proposals, NEW r \in Reviews, NEW w \in Participants,
                 NEW v \in Verdict, BeginReview(t, p, r, w, v)
          PROVE  IInv' /\ Advance
      BY <2>4, BeginReviewStep, StillAdvances DEF BeginReview, IInv
    <2> QED
      BY <1>5, <2>1, <2>2, <2>3, <2>4 DEF CallerStep
  <1>6. ASSUME NEW t \in Actors, AuthorStep(t)
        PROVE  IInv' /\ Advance
    <2>1. CASE AcceptMessage(t) \/ AcceptProposal(t) \/ AcceptDecision(t)
      BY <2>1, AcceptMessageStep, AcceptProposalStep, AcceptDecisionStep
    <2>2. CASE ReadContext(t) \/ StampContext(t)
      <3>1. IInv'
        BY <2>2, ReadContextStep, StampContextStep
      <3>2. Advance
        BY <2>2, StillAdvances DEF ReadContext, StampContext, IInv
      <3> QED
        BY <3>1, <3>2
    <2>3. ASSUME NEW kind \in {"message", "proposal", "decision"},
                 NEW p \in Proposals \cup {None}, NEW w \in Participants,
                 Submit(t, kind, p, w)
          PROVE  IInv' /\ Advance
      BY <2>3, SubmitStep, StillAdvances DEF Submit, IInv
    <2>4. ASSUME NEW p \in Proposals, NEW r \in Reviews, NEW w \in Participants,
                 NEW v \in Verdict, SubmitReview(t, p, r, w, v)
          PROVE  IInv' /\ Advance
      BY <2>4, SubmitReviewStep, StillAdvances DEF SubmitReview, IInv
    <2> QED
      BY <1>6, <2>1, <2>2, <2>3, <2>4 DEF AuthorStep
  <1> QED
    BY <1>1, <1>2, <1>3, <1>4, <1>5, <1>6 DEF Next, Step, Actors

THEOREM Invariance == Spec => []IInv
  <1>1. Init => IInv
    BY InitInvariant
  <1>2. IInv /\ [Next]_vars => IInv'
    BY StepInvariant
  <1> QED
    BY <1>1, <1>2, PTL DEF Spec

\* Every variable keeps its type.
THEOREM TypeCorrect == Spec => []TypeOK
  <1>1. IInv => TypeOK
    BY DEF IInv
  <1> QED
    BY <1>1, Invariance, PTL

\* Status, review and decision of a settled proposal always agree, and there
\* is one of each, however many callers and authors settle it at once.
THEOREM ApprovalsAreDocumented == Spec => []ApprovalChain
  <1>1. IInv => ApprovalChain
    BY DEF IInv
  <1> QED
    BY <1>1, Invariance, PTL

\* A settled proposal is never written again.
THEOREM SettledIsTerminal == Spec => SettledForever
  <1>1. IInv /\ [Next]_vars =>
          [\A p \in Proposals :
              proposals[p].status \in Settled => proposals'[p] = proposals[p]]_vars
    BY StepInvariant DEF Advance
  <1> QED
    BY <1>1, Invariance, PTL DEF Spec, SettledForever

\* No review is stored on a proposal that has been settled or withdrawn since
\* the reviewer looked.
THEOREM ReviewsFindProposed == Spec => ReviewedWhileProposed
  <1>1. IInv /\ [Next]_vars =>
          [\A r \in Reviews : reviews[r] = NoReview /\ reviews'[r] # NoReview
              => proposals[reviews'[r].proposal].status = "Proposed"]_vars
    BY StepInvariant DEF Advance
  <1> QED
    BY <1>1, Invariance, PTL DEF Spec, ReviewedWhileProposed

\* Reviews and decisions are only added.
THEOREM EvidenceStands == Spec => EvidenceIsImmutable
  <1>1. IInv /\ [Next]_vars =>
          [/\ \A r \in Reviews : reviews[r] # NoReview => reviews'[r] = reviews[r]
           /\ \A d \in Decisions :
                 decisions[d] # NoDecision => decisions'[d] = decisions[d]]_vars
    BY StepInvariant DEF Advance
  <1> QED
    BY <1>1, Invariance, PTL DEF Spec, EvidenceIsImmutable

\* The three together: nothing that was written for the record is taken back.
THEOREM RecordIsKept == Spec => RecordStands
  BY SettledIsTerminal, ReviewsFindProposed, EvidenceStands DEF RecordStands

\* One package, one stored contribution.
THEOREM PackagesAreSpentOnce == Spec => []OncePerPackage
  <1>1. IInv => OncePerPackage
    BY DEF IInv, InOrder, Spent, OncePerPackage
  <1> QED
    BY <1>1, Invariance, PTL

-----------------------------------------------------------------------------
(* A contribution is judged on what its author was shown *)

\* Only the commit of a contribution at the revision of its package counts.
LEMMA CountedAtRevision ==
  ASSUME IInv, [Next]_vars, NEW t \in Actors, op'[t].accepted > op[t].accepted
  PROVE  op[t].call = "accept" /\ op[t].base = revision
  <1> USE DEF IInv
  <1>0. op \in [Actors -> OpType] /\ \A u \in Actors : op[u].accepted \in Nat
    BY DEF TypeOK, OpType
  <1>1. ASSUME NEW u \in Actors, NEW o, op' = [op EXCEPT ![u] = o],
               o.accepted = 0 \/ o.accepted = op[u].accepted
        PROVE  FALSE
    BY <1>0, <1>1
  <1>2. op' # op
    BY <1>0
  <1>3. Idle.accepted = 0 /\ Refreshing.accepted = 0
    BY DEF Idle, Refreshing
  <1>4. \A u \in Actors : \/ Dropped(op[u]).accepted = 0
                          \/ Dropped(op[u]).accepted = op[u].accepted
    BY <1>0, <1>3, HoldingIs DEF Dropped
  <1>5. ASSUME NEW u \in Actors, op' = [op EXCEPT ![u] = Done(op[u])],
               AtRevision(op[u])
        PROVE  op[t].call = "accept" /\ op[t].base = revision
    <2>1. CASE op[u].call = "accept"
      BY <1>0, <1>5, <2>1 DEF AtRevision
    <2>2. CASE op[u].call # "accept"
      <3>1. Done(op[u]).accepted = 0
        BY <1>3, <2>2 DEF Done
      <3> QED
        BY <1>1, <1>5, <3>1
    <2> QED
      BY <2>1, <2>2
  <1>6. ASSUME NEW u \in Actors, CallStep(u)
        PROVE  op[t].call = "accept" /\ op[t].base = revision
    <2>1. CASE CommitReview(u)
      BY <1>5, <2>1 DEF CommitReview, ReviewHolds
    <2>2. CASE Refuse(u) \/ Abandon(u)
      BY <1>1, <1>3, <1>4, <2>2 DEF Refuse, Abandon
    <2>3. CASE ReadProposal(u)
      <3>1. [op[u] EXCEPT !.pc = "commit",
                          !.seen = proposals[op[u].p].status].accepted = op[u].accepted
        BY <1>0 DEF OpType
      <3> QED
        BY <1>1, <1>4, <2>3, <3>1 DEF ReadProposal
    <2> QED
      BY <1>6, <2>1, <2>2, <2>3 DEF CallStep
  <1>7. ASSUME NEW u \in Actors, CallerStep(u)
        PROVE  op[t].call = "accept" /\ op[t].base = revision
    <2>1. CASE CommitSet(u)
      BY <1>5, <2>1 DEF CommitSet, AtRevision
    <2>2. CASE Refresh(u) \/ \E d \in Decisions, w \in Participants :
                                RecordDecision(u, d, w)
      BY <1>1, <1>3, <2>2 DEF Refresh, RecordDecision
    <2>3. ASSUME NEW p \in Proposals, NEW to, BeginSet(u, p, to)
          PROVE  FALSE
      <3>1. [Idle EXCEPT !.call = "set", !.pc = "record", !.p = p, !.to = to,
                         !.ver = proposals[p].ver].accepted = 0
        BY DEF Idle
      <3> QED
        BY <1>1, <2>3, <3>1 DEF BeginSet
    <2>4. ASSUME NEW p \in Proposals, NEW r, NEW w, NEW v, BeginReview(u, p, r, w, v)
          PROVE  FALSE
      <3>1. [Idle EXCEPT !.call = "review", !.pc = "record", !.kind = "review",
                         !.p = p, !.r = r, !.by = w, !.verdict = v,
                         !.ver = proposals[p].ver].accepted = 0
        BY DEF Idle
      <3> QED
        BY <1>1, <2>4, <3>1 DEF BeginReview
    <2> QED
      BY <1>7, <2>1, <2>2, <2>3, <2>4 DEF CallerStep
  <1>8. ASSUME NEW u \in Actors, AuthorStep(u)
        PROVE  op[t].call = "accept" /\ op[t].base = revision
    <2>1. CASE AcceptMessage(u) \/ AcceptProposal(u) \/ AcceptDecision(u)
      BY <1>5, <2>1 DEF AcceptMessage, AcceptProposal, AcceptDecision
    <2>2. CASE ReadContext(u)
      <3>1. [Idle EXCEPT !.call = "accept", !.pc = "stamp", !.base = revision,
                         !.shown = Statuses].accepted = 0
        BY DEF Idle
      <3> QED
        BY <1>1, <2>2, <3>1 DEF ReadContext
    <2>3. CASE StampContext(u)
      BY <1>0, <2>3 DEF StampContext, OpType
    <2>4. ASSUME NEW kind, NEW p, NEW w, Submit(u, kind, p, w)
          PROVE  FALSE
      <3> DEFINE by == IF kind = "decision" THEN w ELSE None
      <3>1. [op[u] EXCEPT !.pc = "commit", !.kind = kind, !.p = p,
                          !.by = by].accepted = op[u].accepted
        BY <1>0 DEF OpType
      <3> QED
        BY <1>1, <2>4, <3>1 DEF Submit
    <2>5. ASSUME NEW p \in Proposals, NEW r, NEW w, NEW v, SubmitReview(u, p, r, w, v)
          PROVE  FALSE
      <3>1. [op[u] EXCEPT !.pc = "record", !.kind = "review", !.p = p, !.r = r,
                          !.by = w, !.verdict = v,
                          !.ver = proposals[p].ver].accepted = op[u].accepted
        BY <1>0 DEF OpType
      <3> QED
        BY <1>1, <2>5, <3>1 DEF SubmitReview
    <2> QED
      BY <1>8, <2>1, <2>2, <2>3, <2>4, <2>5 DEF AuthorStep
  <1> QED
    BY <1>2, <1>6, <1>7, <1>8 DEF Next, Step, vars, Actors, OtherWrite, CreateProposal

\* Where nothing writes while a package is rendered, a contribution is stored
\* only on the proposals its author was shown.
THEOREM ShownIsJudged ==
  ASSUME AtomicContext
  PROVE  Spec => AcceptedOnShownState
  <1>1. IInv /\ [Next]_vars =>
          [\A t \in Actors :
              op'[t].accepted > op[t].accepted => op[t].shown = Statuses]_vars
    BY CountedAtRevision DEF IInv, InOrder, Current
  <1> QED
    BY <1>1, Invariance, PTL DEF Spec, AcceptedOnShownState

-----------------------------------------------------------------------------
(* The store implements the lifecycle of a proposal *)

Authorities == [p \in Proposals |-> Authority(p)]
Mandates == [p \in Proposals |-> Citing(Verdicts(p, "Approve"))]

\* A step that leaves the reviews alone, and the decisions but for one that
\* cites no review, changes neither authority nor mandate.
LEMMA EvidenceByFrame ==
  ASSUME reviews' = reviews,
         \A d \in Decisions :
            \/ decisions'[d] = decisions[d]
            \/ decisions[d].review = None /\ decisions'[d].review = None
  PROVE  UNCHANGED <<Authorities, Mandates>>
  <1>1. \A p \in Proposals : /\ Verdicts(p, "Approve")' = Verdicts(p, "Approve")
                             /\ Verdicts(p, "Reject")' = Verdicts(p, "Reject")
    BY DEF Verdicts
  <1>2. \A p \in Proposals : Authority(p)' = Authority(p)
    BY <1>1 DEF Authority
  <1>3. \A p \in Proposals : Citing(Verdicts(p, "Approve"))' =
                             Citing(Verdicts(p, "Approve"))
    <2> TAKE p \in Proposals
    <2>1. None \notin Verdicts(p, "Approve")
      BY NoneIsNoIdentifier DEF Verdicts
    <2> QED
      BY <1>1, <2>1 DEF Citing
  <1>4. UNCHANGED Authorities
    BY <1>2 DEF Authorities
  <1>5. UNCHANGED Mandates
    BY <1>3 DEF Mandates
  <1> QED
    BY <1>4, <1>5

\* A write of one proposal shows as a change of its status.
LEMMA StatusWritten ==
  ASSUME TypeOK, NEW p \in Proposals, NEW s,
         proposals' = [proposals EXCEPT ![p] = [status |-> s, ver |-> Stamp]]
  PROVE  Statuses' = [Statuses EXCEPT ![p] = s]
  <1>1. \A q \in Proposals : proposals'[q].status =
                             IF q = p THEN s ELSE proposals[q].status
    BY DEF TypeOK
  <1> QED
    BY <1>1 DEF Statuses

\* The transaction of a review settles the proposal or leaves it open.
LEMMA ReviewRefines ==
  ASSUME TypeOK, ApprovalChain, NEW o, Reviewed(o)
  PROVE  \/ UNCHANGED <<Statuses, Authorities, Mandates>>
         \/ /\ Statuses[o.p] = "Proposed"
            /\ Statuses' = [Statuses EXCEPT ![o.p] = "Rejected"]
            /\ Authorities' = [Authorities EXCEPT ![o.p] = {o.by}]
            /\ UNCHANGED Mandates
         \/ \E d \in Decisions :
               /\ Statuses[o.p] = "Proposed"
               /\ Statuses' = [Statuses EXCEPT ![o.p] = "Approved"]
               /\ Authorities' = [Authorities EXCEPT ![o.p] = {o.by}]
               /\ Mandates' = [Mandates EXCEPT ![o.p] = {d}]
  <1>0. /\ o.p \in Proposals /\ o.verdict \in Verdict
        /\ proposals[o.p].status = "Proposed"
        /\ proposals' = [proposals EXCEPT
              ![o.p] = [status |-> Outcome[o.verdict], ver |-> Stamp]]
    BY DEF Reviewed
  <1>1. Statuses[o.p] = "Proposed"
    BY <1>0 DEF Statuses
  <1>2. Statuses' = [Statuses EXCEPT ![o.p] = Outcome[o.verdict]]
    BY <1>0, StatusWritten
  <1>3. /\ Verdicts(o.p, "Approve") = {} /\ Verdicts(o.p, "Reject") = {}
        /\ \A p \in Proposals, v \in {"Approve", "Reject"} :
              Verdicts(p, v)' = IF p = o.p
                                  THEN IF v = o.verdict THEN {o.r} ELSE {}
                                  ELSE Verdicts(p, v)
    BY VerdictsOfReview
  <1>4. reviews'[o.r].by = o.by /\ \A r \in Reviews : r # o.r => reviews'[r] = reviews[r]
    <2>1. /\ reviews'[o.r] = [proposal |-> o.p, by |-> o.by, verdict |-> o.verdict]
          /\ \A r \in Reviews : r # o.r => reviews'[r] = reviews[r]
      BY WrittenByReview
    <2> QED
      BY <2>1
  <1>5. o.r \in Reviews /\ reviews[o.r] = NoReview
    BY DEF Reviewed
  <1>6. \A p \in Proposals :
           Authority(p)' = IF p = o.p
                             THEN IF o.verdict \in {"Approve", "Reject"} THEN {o.by} ELSE {}
                             ELSE Authority(p)
    <2> TAKE p \in Proposals
    <2>1. CASE p = o.p
      BY <1>3, <1>4, <2>1 DEF Authority
    <2>2. CASE p # o.p
      <3>1. /\ Verdicts(p, "Approve")' = Verdicts(p, "Approve")
            /\ Verdicts(p, "Reject")' = Verdicts(p, "Reject")
        BY <1>3, <2>2
      <3>2. \A r \in Verdicts(p, "Approve") \cup Verdicts(p, "Reject") :
               reviews'[r] = reviews[r]
        BY <1>4, <1>5 DEF Verdicts, NoReview
      <3> QED
        BY <2>2, <3>1, <3>2 DEF Authority
    <2> QED
      BY <2>1, <2>2
  <1>7. Authority(o.p) = {}
    BY <1>3 DEF Authority
  <1>8. Citing(Verdicts(o.p, "Approve")) = {}
    BY <1>3 DEF Citing
  <1>9. \/ /\ o.verdict # "Approve"
           /\ \A p \in Proposals : Citing(Verdicts(p, "Approve"))' =
                 IF p = o.p THEN {} ELSE Citing(Verdicts(p, "Approve"))
        \/ /\ o.verdict = "Approve"
           /\ \E d \in Decisions : \A p \in Proposals :
                 Citing(Verdicts(p, "Approve"))' =
                    IF p = o.p THEN {d} ELSE Citing(Verdicts(p, "Approve"))
    BY MandateOfReview
  <1>10. CASE o.verdict = "RequestChanges"
    <2>1. UNCHANGED Statuses
      BY <1>1, <1>2, <1>10 DEF Outcome, Statuses
    <2>2. UNCHANGED Authorities
      BY <1>6, <1>7, <1>10 DEF Authorities
    <2>3. UNCHANGED Mandates
      BY <1>8, <1>9, <1>10 DEF Mandates
    <2> QED
      BY <2>1, <2>2, <2>3
  <1>11. CASE o.verdict = "Reject"
    <2>1. Statuses' = [Statuses EXCEPT ![o.p] = "Rejected"]
      BY <1>2, <1>11 DEF Outcome
    <2>2. Authorities' = [Authorities EXCEPT ![o.p] = {o.by}]
      BY <1>6, <1>11 DEF Authorities
    <2>3. UNCHANGED Mandates
      BY <1>8, <1>9, <1>11 DEF Mandates
    <2> QED
      BY <1>1, <2>1, <2>2, <2>3
  <1>12. CASE o.verdict = "Approve"
    <2>1. Statuses' = [Statuses EXCEPT ![o.p] = "Approved"]
      BY <1>2, <1>12 DEF Outcome
    <2>2. Authorities' = [Authorities EXCEPT ![o.p] = {o.by}]
      BY <1>6, <1>12 DEF Authorities
    <2>3. PICK d \in Decisions : \A p \in Proposals :
             Citing(Verdicts(p, "Approve"))' =
                IF p = o.p THEN {d} ELSE Citing(Verdicts(p, "Approve"))
      BY <1>9, <1>12
    <2>4. Mandates' = [Mandates EXCEPT ![o.p] = {d}]
      BY <2>3 DEF Mandates
    <2> QED
      BY <1>1, <2>1, <2>2, <2>4
  <1> QED
    BY <1>0, <1>10, <1>11, <1>12 DEF Verdict, Outcome

LEMMA StepRefines ==
  ASSUME IInv, [Next]_vars
  PROVE  [Lifecycle!Next]_(Lifecycle!vars)
  <1> USE DEF IInv
  <1>1. CASE UNCHANGED <<Statuses, Authorities, Mandates>>
    BY <1>1 DEF Lifecycle!vars, Statuses, Authorities, Mandates
  <1>2. CASE UNCHANGED <<proposals, reviews, decisions>>
    BY <1>1, <1>2, EvidenceByFrame DEF Statuses
  <1>3. ASSUME NEW p \in Proposals, NEW s, proposals[p].status = "Absent",
               s \in {"Draft", "Proposed"},
               proposals' = [proposals EXCEPT ![p] = [status |-> s, ver |-> Stamp]],
               UNCHANGED <<reviews, decisions>>
        PROVE  [Lifecycle!Next]_(Lifecycle!vars)
    <2>1. Statuses' = [Statuses EXCEPT ![p] = s]
      BY <1>3, StatusWritten
    <2>2. UNCHANGED <<Authorities, Mandates>>
      BY <1>3, EvidenceByFrame
    <2>3. Statuses[p] = "Absent"
      BY <1>3 DEF Statuses
    <2> QED
      BY <1>3, <2>1, <2>2, <2>3
      DEF Lifecycle!Next, Lifecycle!Submit, Lifecycle!vars, Statuses,
          Authorities, Mandates
  <1>4. ASSUME NEW t \in Actors, CommitSet(t)
        PROVE  [Lifecycle!Next]_(Lifecycle!vars)
    <2>0. PICK o : o = op[t]
      OBVIOUS
    <2>1. /\ o.p \in Proposals
          /\ <<proposals[o.p].status, o.to>> \in Movable
      BY <1>4, <2>0, AtStep DEF CommitSet, Setting, Seen
    <2>2. Statuses' = [Statuses EXCEPT ![o.p] = o.to]
      BY <1>4, <2>0, <2>1, StatusWritten DEF CommitSet
    <2>3. UNCHANGED <<Authorities, Mandates>>
      BY <1>4, EvidenceByFrame DEF CommitSet
    <2>4. <<Statuses[o.p], o.to>> \in Movable
      BY <2>1 DEF Statuses
    <2> QED
      BY <2>1, <2>2, <2>3, <2>4
      DEF Movable, Lifecycle!Next, Lifecycle!Move, Lifecycle!vars, Statuses,
          Authorities, Mandates
  <1>5. ASSUME NEW t \in Actors, CommitReview(t)
        PROVE  [Lifecycle!Next]_(Lifecycle!vars)
    <2>0. PICK o : Reviewed(o)
      BY <1>5, ReviewEffect
    <2>1. o.p \in Proposals /\ o.by \in Participants
      BY <2>0 DEF Reviewed
    <2>2. \/ UNCHANGED <<Statuses, Authorities, Mandates>>
          \/ /\ Statuses[o.p] = "Proposed"
             /\ Statuses' = [Statuses EXCEPT ![o.p] = "Rejected"]
             /\ Authorities' = [Authorities EXCEPT ![o.p] = {o.by}]
             /\ UNCHANGED Mandates
          \/ \E d \in Decisions :
                /\ Statuses[o.p] = "Proposed"
                /\ Statuses' = [Statuses EXCEPT ![o.p] = "Approved"]
                /\ Authorities' = [Authorities EXCEPT ![o.p] = {o.by}]
                /\ Mandates' = [Mandates EXCEPT ![o.p] = {d}]
      BY <2>0, ReviewRefines
    <2> QED
      BY <1>1, <2>1, <2>2
      DEF Lifecycle!Next, Lifecycle!Approve, Lifecycle!Reject, Lifecycle!vars,
          Authorities, Mandates
  <1>6. ASSUME NEW t \in Actors,
               \/ AcceptDecision(t)
               \/ \E d \in Decisions, w \in Participants : RecordDecision(t, d, w)
        PROVE  [Lifecycle!Next]_(Lifecycle!vars)
    <2>1. /\ UNCHANGED <<proposals, reviews>>
          /\ \A d \in Decisions :
                \/ decisions'[d] = decisions[d]
                \/ decisions[d].review = None /\ decisions'[d].review = None
      BY <1>6 DEF AcceptDecision, RecordDecision, TypeOK, NoDecision
    <2> QED
      BY <1>1, <2>1, EvidenceByFrame DEF Statuses
  <1>7. ASSUME NEW t \in Actors, CallStep(t)
        PROVE  [Lifecycle!Next]_(Lifecycle!vars)
    BY <1>2, <1>5, <1>7 DEF CallStep, ReadProposal, Refuse, Abandon
  <1>8. ASSUME NEW t \in Actors, CallerStep(t)
        PROVE  [Lifecycle!Next]_(Lifecycle!vars)
    BY <1>2, <1>4, <1>6, <1>8 DEF CallerStep, BeginSet, BeginReview, Refresh
  <1>9. ASSUME NEW t \in Actors, AuthorStep(t)
        PROVE  [Lifecycle!Next]_(Lifecycle!vars)
    <2>1. CASE AcceptProposal(t)
      BY <1>3, <2>1 DEF AcceptProposal
    <2>2. CASE ~AcceptProposal(t)
      BY <1>2, <1>6, <1>9, <2>2
      DEF AuthorStep, ReadContext, StampContext, Submit, SubmitReview, AcceptMessage
    <2> QED
      BY <2>1, <2>2
  <1>10. ASSUME NEW p \in Proposals, NEW s \in {"Draft", "Proposed"},
                CreateProposal(p, s)
         PROVE  [Lifecycle!Next]_(Lifecycle!vars)
    BY <1>3, <1>10 DEF CreateProposal
  <1> QED
    <2>1. CASE Step
      BY <1>7, <1>8, <1>9, <1>10, <2>1 DEF Step, Actors
    <2>2. CASE OtherWrite \/ UNCHANGED vars
      BY <1>2, <2>2 DEF OtherWrite, vars
    <2> QED
      BY <2>1, <2>2 DEF Next

\* The interleaved store calls implement the one-step lifecycle.
THEOREM ImplementsLifecycle == Spec => RefinesLifecycle
  <1>1. Init => Lifecycle!Init
    <2> SUFFICES ASSUME Init
                 PROVE  Lifecycle!Init
      OBVIOUS
    <2>1. \A p \in Proposals, v \in {"Approve", "Reject"} : Verdicts(p, v) = {}
      BY DEF Init, Verdicts, NoReview
    <2> QED
      BY <2>1 DEF Init, Lifecycle!Init, Statuses, Authority, Citing
  <1>2. IInv /\ [Next]_vars => [Lifecycle!Next]_(Lifecycle!vars)
    BY StepRefines
  <1> QED
    BY <1>1, <1>2, Invariance, PTL DEF Spec, Lifecycle!Spec, RefinesLifecycle

-----------------------------------------------------------------------------
(* What a store built around this one relies on *)

\* A step writes to the log or leaves the revision alone.
LEMMA StepOfLog ==
  ASSUME [Next]_vars
  PROVE  LogWrite \/ UNCHANGED revision
  <1>1. ASSUME NEW t \in Actors, CallStep(t) \/ CallerStep(t) \/ AuthorStep(t)
        PROVE  LogWrite \/ UNCHANGED revision
    BY <1>1
    DEF CallStep, ReadProposal, CommitReview, Refuse, Abandon, CallerStep,
        BeginSet, BeginReview, CommitSet, RecordDecision, Refresh, AuthorStep,
        ReadContext, StampContext, Submit, SubmitReview, AcceptMessage,
        AcceptProposal, AcceptDecision
  <1> QED
    BY <1>1 DEF Next, Step, Actors, CreateProposal, OtherWrite, vars

ApprovedNow == {p \in Proposals : proposals[p].status = "Approved"}

\* A step approves at most one proposal and takes no approval back.
LEMMA ApprovesOne ==
  ASSUME IInv, [Next]_vars
  PROVE  \/ UNCHANGED ApprovedNow
         \/ \E p \in Proposals : ApprovedNow' = ApprovedNow \cup {p}
  <1>1. [Lifecycle!Next]_(Lifecycle!vars)
    BY StepRefines
  <1>2. \/ \A p \in Proposals : proposals'[p].status = proposals[p].status
        \/ \E p \in Proposals :
              /\ proposals[p].status # "Approved"
              /\ \A q \in Proposals :
                    q # p => proposals'[q].status = proposals[q].status
    <2>1. \/ Statuses' = Statuses
          \/ \E p \in Proposals, s \in Status :
                Statuses[p] # "Approved" /\ Statuses' = [Statuses EXCEPT ![p] = s]
      BY <1>1
      DEF Lifecycle!Next, Lifecycle!vars, Lifecycle!Submit, Lifecycle!Move,
          Lifecycle!Approve, Lifecycle!Reject, Statuses, Status
    <2>2. \A p \in Proposals : /\ Statuses[p] = proposals[p].status
                               /\ Statuses'[p] = proposals'[p].status
      BY DEF Statuses
    <2>3. DOMAIN Statuses = Proposals
      BY DEF Statuses
    <2> QED
      BY <2>1, <2>2, <2>3
  <1> QED
    BY <1>2 DEF ApprovedNow
=============================================================================
