--------------------------- MODULE ProposalStore ---------------------------
(***************************************************************************)
(* Proposals, reviews and decisions in FeltDbWorkStore                      *)
(* (crates/combe-state/src/work_feltdb.rs), one action per store call of    *)
(* every operation that writes them.                                        *)
(*                                                                          *)
(* A caller is a thread with a store handle.  An author is a participant    *)
(* outside the process who holds an exported context package and submits    *)
(* contributions made from it.  create_proposal and record_decision read    *)
(* nothing that can change, so each commits in its first step.              *)
(* set_proposal_status, review_proposal and the review arm of               *)
(* accept_contribution read the proposal's version, then the proposal, and  *)
(* commit later: three steps, in that order, with the steps of other        *)
(* callers between them.  record_decision and review_proposal end with the  *)
(* refresh of the context graph.                                            *)
(*                                                                          *)
(* Left out: titles, statements, comments and times; conversation links     *)
(* (validate_origin) and Work membership (validate_participant), which are  *)
(* checks against records no operation changes; what the context graph      *)
(* holds, of which only the write is seen here.  All records belong to one  *)
(* Work.                                                                    *)
(***************************************************************************)
EXTENDS FeltDb

CONSTANTS
    Callers,        \* threads that call the store's own operations
    Authors,        \* participants that work from an exported package
    Proposals, Reviews, Decisions,   \* identifiers
    Participants,
    CanPropose, CanReview, CanDecide,   \* capabilities, fixed per participant
    AtomicContext,  \* TRUE: no other thread writes while context() reads
    None

ASSUME CapabilitiesAreParticipants ==
    /\ CanPropose \subseteq Participants
    /\ CanReview \subseteq Participants
    /\ CanDecide \subseteq Participants

ASSUME NoneIsNoIdentifier ==
    None \notin Proposals \cup Reviews \cup Decisions \cup Participants

ASSUME AtomicContextIsBoolean == AtomicContext \in BOOLEAN

Actors == Callers \cup Authors

VARIABLES proposals, reviews, decisions, op

vars == <<revision, proposals, reviews, decisions, op>>

-----------------------------------------------------------------------------
(* Records *)

Status == {"Absent", "Draft", "Proposed", "Approved", "Rejected", "Superseded"}
Settled == {"Approved", "Rejected", "Superseded"}

\* MUTANT of Outcome: requested changes get a status of their own.
OwnStatusForChanges == [Approve        |-> "Approved",
                        Reject         |-> "Rejected",
                        RequestChanges |-> "ChangesRequested"]

\* ReviewOutcome and the status it gives the proposal under review.
Outcome == [Approve        |-> "Approved",
            Reject         |-> "Rejected",
            RequestChanges |-> "Proposed"]
Verdict == DOMAIN Outcome

Proposal == [status : Status, ver : Revision]

NoReview == [proposal |-> None, by |-> None, verdict |-> "none"]
Review == [proposal : Proposals, by : Participants, verdict : Verdict]

NoDecision == [proposal |-> None, review |-> None, by |-> None]
Decision == [proposal : Proposals \cup {None},
             review : Reviews \cup {None},
             by : Participants]

\* MUTANT of Movable: an approved proposal can be withdrawn.
WithdrawApproved == {<<"Draft", "Proposed">>, <<"Draft", "Superseded">>,
                     <<"Proposed", "Superseded">>, <<"Approved", "Superseded">>}

\* The transitions set_proposal_status allows.
Movable == {<<"Draft", "Proposed">>, <<"Draft", "Superseded">>,
            <<"Proposed", "Superseded">>}

Statuses == [p \in Proposals |-> proposals[p].status]

(* A call in flight.  call and pc say which operation and its next step;    *)
(* kind, p, r, by, verdict and to are its arguments; ver and seen what it   *)
(* read.  base and shown are the revision and the proposals of the package  *)
(* a participant holds, accepted how often a contribution made from it was  *)
(* stored.                                                                  *)
Idle == [call |-> "idle", pc |-> "idle", kind |-> "none", p |-> None,
         r |-> None, by |-> None, verdict |-> "none", to |-> "Absent",
         ver |-> 0, seen |-> "Absent",
         base |-> 0, shown |-> [p \in Proposals |-> "Absent"],
         accepted |-> 0]

\* The package survives the call made from it, and the participant may use
\* it again.
Holding(o) == [Idle EXCEPT !.call = "accept", !.pc = "package",
                           !.base = o.base, !.shown = o.shown,
                           !.accepted = o.accepted]

\* What is left of a call that ended without an effect.
Dropped(o) == IF o.call = "accept" THEN Holding(o) ELSE Idle

\* record_decision and review_proposal go on to refresh_context_graph.
Refreshing == [Idle EXCEPT !.call = "refresh", !.pc = "refresh"]

\* What is left of a call that committed.
Done(o) == CASE o.call = "accept" -> [Holding(o) EXCEPT !.accepted = o.accepted + 1]
             [] o.call = "review" -> Refreshing
             [] OTHER             -> Idle

Init ==
    /\ revision = 0
    /\ proposals = [p \in Proposals |-> [status |-> "Absent", ver |-> 0]]
    /\ reviews = [r \in Reviews |-> NoReview]
    /\ decisions = [d \in Decisions |-> NoDecision]
    /\ op = [t \in Actors |-> Idle]

-----------------------------------------------------------------------------
(* The preconditions of a transaction *)

\* MUTANT of AtVersion, ReviewIsNew and AtRevision: the precondition is not
\* handed to the transaction.
Unchecked(o) == TRUE

\* at_version: the record is the one the caller read.
AtVersion(o) == proposals[o.p].ver = o.ver

\* absent: the review identifier is not taken.
ReviewIsNew(o) == reviews[o.r] = NoReview

\* atomic_at: a contribution names the revision its author saw; other
\* operations name none.
AtRevision(o) == o.call = "accept" => o.base = revision

-----------------------------------------------------------------------------
(* Operations without a read *)

\* create_proposal; the identifier must be unused.
CreateProposal(p, s) ==
    /\ proposals[p].status = "Absent"
    /\ s \in {"Draft", "Proposed"}
    /\ LogWrite
    /\ proposals' = [proposals EXCEPT ![p] = [status |-> s, ver |-> Stamp]]
    /\ UNCHANGED <<reviews, decisions, op>>

\* record_decision: a decision of its own, under no proposal and no review.
\* It checks no capability; its one caller, work_decision in cli.rs, passes
\* the Work's Human, who may decide.
RecordDecision(t, d, w) ==
    /\ op[t] = Idle
    /\ w \in CanDecide
    /\ decisions[d] = NoDecision
    /\ LogWrite
    /\ decisions' = [decisions EXCEPT
            ![d] = [proposal |-> None, review |-> None, by |-> w]]
    /\ op' = [op EXCEPT ![t] = Refreshing]
    /\ UNCHANGED <<proposals, reviews>>

\* Any other record of the database is written: a turn, an assignment, an
\* execution, a conversation.
OtherWrite ==
    /\ LogWrite
    /\ UNCHANGED <<proposals, reviews, decisions, op>>

-----------------------------------------------------------------------------
(* set_proposal_status and review_proposal *)

\* The first step of both: the version of an existing proposal.
BeginSet(t, p, to) ==
    /\ op[t] = Idle
    /\ proposals[p].status # "Absent"
    /\ op' = [op EXCEPT ![t] = [Idle EXCEPT
            !.call = "set", !.pc = "record", !.p = p, !.to = to,
            !.ver = proposals[p].ver]]
    /\ UNCHANGED <<revision, proposals, reviews, decisions>>

BeginReview(t, p, r, w, v) ==
    /\ op[t] = Idle
    /\ proposals[p].status # "Absent"
    /\ op' = [op EXCEPT ![t] = [Idle EXCEPT
            !.call = "review", !.pc = "record", !.kind = "review", !.p = p,
            !.r = r, !.by = w, !.verdict = v, !.ver = proposals[p].ver]]
    /\ UNCHANGED <<revision, proposals, reviews, decisions>>

\* The second step: the record, and the check of its status.
Admissible(o, s) == IF o.call = "set" THEN <<s, o.to>> \in Movable
                                      ELSE s = "Proposed"

ReadProposal(t) ==
    LET s == proposals[op[t].p].status IN
    /\ op[t].pc = "record"
    /\ op' = [op EXCEPT ![t] =
            IF Admissible(op[t], s)
              THEN [op[t] EXCEPT !.pc = "commit", !.seen = s]
              ELSE Dropped(op[t])]
    /\ UNCHANGED <<revision, proposals, reviews, decisions>>

CommitSet(t) ==
    LET o == op[t] IN
    /\ o.pc = "commit" /\ o.call = "set"
    /\ AtVersion(o)
    /\ LogWrite
    /\ proposals' = [proposals EXCEPT ![o.p] = [status |-> o.to, ver |-> Stamp]]
    /\ op' = [op EXCEPT ![t] = Done(o)]
    /\ UNCHANGED <<reviews, decisions>>

\* The transaction of review_proposal and of a proposal review that arrives
\* as a contribution: proposal, review and, for an approval, the decision.
ReviewHolds(o) == AtVersion(o) /\ ReviewIsNew(o) /\ AtRevision(o)

\* MUTANT of Mandate: an approval leaves no decision behind.
NoMandate(o) == UNCHANGED decisions

\* The decision record an approval adds under a new identifier.
Mandate(o) ==
    IF o.verdict = "Approve"
      THEN \E d \in Decisions :
              /\ decisions[d] = NoDecision
              /\ decisions' = [decisions EXCEPT
                    ![d] = [proposal |-> o.p, review |-> o.r, by |-> o.by]]
      ELSE UNCHANGED decisions

CommitReview(t) ==
    LET o == op[t] IN
    /\ o.pc = "commit" /\ o.kind = "review"
    /\ ReviewHolds(o)
    /\ LogWrite
    /\ proposals' = [proposals EXCEPT
            ![o.p] = [status |-> Outcome[o.verdict], ver |-> Stamp]]
    /\ reviews' = [reviews EXCEPT
            ![o.r] = [proposal |-> o.p, by |-> o.by, verdict |-> o.verdict]]
    /\ Mandate(o)
    /\ op' = [op EXCEPT ![t] = Done(o)]

-----------------------------------------------------------------------------
(* Context packages and accept_contribution *)

\* context(): the records are scanned first and current_revision is read last.
\* Until then base is the revision at which they were scanned, which only the
\* assumption AtomicContext looks at.
ReadContext(t) ==
    /\ op[t] = Idle
    /\ op' = [op EXCEPT ![t] = [Idle EXCEPT
            !.call = "accept", !.pc = "stamp", !.base = revision, !.shown = Statuses]]
    /\ UNCHANGED <<revision, proposals, reviews, decisions>>

StampContext(t) ==
    /\ op[t].pc = "stamp"
    /\ AtomicContext => revision = op[t].base
    /\ op' = [op EXCEPT ![t].pc = "package", ![t].base = revision]
    /\ UNCHANGED <<revision, proposals, reviews, decisions>>

\* A contribution other than a proposal review: nothing it checks can change.
\* Only a decision keeps its reference to a proposal.
Submit(t, kind, p, w) ==
    /\ op[t].pc = "package"
    /\ \/ kind = "message" /\ p = None
       \/ kind = "proposal" /\ p = None /\ w \in CanPropose
       \/ /\ kind = "decision" /\ w \in CanDecide
          /\ p # None => proposals[p].status # "Absent"
    /\ op' = [op EXCEPT ![t] = [op[t] EXCEPT
            !.pc = "commit", !.kind = kind, !.p = p,
            !.by = IF kind = "decision" THEN w ELSE None]]
    /\ UNCHANGED <<revision, proposals, reviews, decisions>>

\* Who may give which verdict through a contribution.
MayGive(w, v) == w \in CanReview /\ (v = "Approve" => w \in CanDecide)

\* The review gets an identifier nobody else uses.
SubmitReview(t, p, r, w, v) ==
    /\ op[t].pc = "package"
    /\ proposals[p].status # "Absent"
    /\ MayGive(w, v)
    /\ reviews[r] = NoReview /\ \A u \in Actors : op[u].r # r
    /\ op' = [op EXCEPT ![t] = [op[t] EXCEPT
            !.pc = "record", !.kind = "review", !.p = p, !.r = r, !.by = w,
            !.verdict = v, !.ver = proposals[p].ver]]
    /\ UNCHANGED <<revision, proposals, reviews, decisions>>

AcceptMessage(t) ==
    LET o == op[t] IN
    /\ o.pc = "commit" /\ o.kind = "message"
    /\ AtRevision(o)
    /\ LogWrite
    /\ op' = [op EXCEPT ![t] = Done(o)]
    /\ UNCHANGED <<proposals, reviews, decisions>>

AcceptProposal(t) ==
    LET o == op[t] IN
    /\ o.pc = "commit" /\ o.kind = "proposal"
    /\ AtRevision(o)
    /\ LogWrite
    /\ \E p \in Proposals :
          /\ proposals[p].status = "Absent"
          /\ proposals' = [proposals EXCEPT
                ![p] = [status |-> "Proposed", ver |-> Stamp]]
    /\ op' = [op EXCEPT ![t] = Done(o)]
    /\ UNCHANGED <<reviews, decisions>>

AcceptDecision(t) ==
    LET o == op[t] IN
    /\ o.pc = "commit" /\ o.kind = "decision"
    /\ AtRevision(o)
    /\ LogWrite
    /\ \E d \in Decisions :
          /\ decisions[d] = NoDecision
          /\ decisions' = [decisions EXCEPT
                ![d] = [proposal |-> o.p, review |-> None, by |-> o.by]]
    /\ op' = [op EXCEPT ![t] = Done(o)]
    /\ UNCHANGED <<proposals, reviews>>

-----------------------------------------------------------------------------
(* Calls that end without an effect *)

\* The preconditions a transaction of this call has.
Holds(o) ==
    CASE o.call = "set"      -> AtVersion(o)
      [] o.kind = "review"   -> ReviewHolds(o)
      [] OTHER               -> AtRevision(o)

\* A precondition fails: the transaction writes nothing and the call errs.
Refuse(t) ==
    /\ op[t].pc = "commit"
    /\ ~Holds(op[t])
    /\ op' = [op EXCEPT ![t] = Dropped(op[t])]
    /\ UNCHANGED <<revision, proposals, reviews, decisions>>

\* refresh_context_graph: a saved graph is built anew and stored.  Without
\* one, or when the projection fails, nothing is; the error is dropped.
Refresh(t) ==
    /\ op[t].pc = "refresh"
    /\ LogWrite \/ UNCHANGED revision
    /\ op' = [op EXCEPT ![t] = Idle]
    /\ UNCHANGED <<proposals, reviews, decisions>>

\* The process ends in the middle of a call, or a participant throws its
\* package away.  What is durable stays as it is.
Abandon(t) ==
    /\ op[t] # Idle
    /\ op' = [op EXCEPT ![t] = IF op[t].pc \in {"package", "stamp"}
                                 THEN Idle ELSE Dropped(op[t])]
    /\ UNCHANGED <<revision, proposals, reviews, decisions>>

\* The steps of a call, whoever made it.
CallStep(t) ==
    \/ ReadProposal(t)
    \/ CommitReview(t)
    \/ Refuse(t)
    \/ Abandon(t)

CallerStep(t) ==
    \/ \E p \in Proposals, to \in {"Proposed", "Superseded"} : BeginSet(t, p, to)
    \/ \E p \in Proposals, r \in Reviews, w \in Participants, v \in Verdict :
          BeginReview(t, p, r, w, v)
    \/ CommitSet(t)
    \/ \E d \in Decisions, w \in Participants : RecordDecision(t, d, w)
    \/ Refresh(t)

AuthorStep(t) ==
    \/ ReadContext(t)
    \/ StampContext(t)
    \/ \E kind \in {"message", "proposal", "decision"},
          p \in Proposals \cup {None}, w \in Participants : Submit(t, kind, p, w)
    \/ \E p \in Proposals, r \in Reviews, w \in Participants, v \in Verdict :
          SubmitReview(t, p, r, w, v)
    \/ AcceptMessage(t)
    \/ AcceptProposal(t)
    \/ AcceptDecision(t)

Step ==
    \/ \E p \in Proposals, s \in {"Draft", "Proposed"} : CreateProposal(p, s)
    \/ \E t \in Actors : CallStep(t)
    \/ \E t \in Callers : CallerStep(t)
    \/ \E t \in Authors : AuthorStep(t)

Next == OtherWrite \/ Step

Spec == Init /\ [][Next]_vars

-----------------------------------------------------------------------------
(* Properties *)

OpType == [call : {"idle", "set", "review", "accept", "refresh"},
           pc : {"idle", "record", "commit", "stamp", "package", "refresh"},
           kind : {"none", "message", "proposal", "review", "decision"},
           p : Proposals \cup {None},
           r : Reviews \cup {None},
           by : Participants \cup {None},
           verdict : Verdict \cup {"none"},
           to : {"Absent", "Proposed", "Superseded"},
           ver : Revision,
           seen : Status,
           base : Revision,
           shown : [Proposals -> Status],
           accepted : Nat]

\* Every variable has its type.
TypeOK ==
    /\ revision \in Revision
    /\ proposals \in [Proposals -> Proposal]
    /\ reviews \in [Reviews -> Review \cup {NoReview}]
    /\ decisions \in [Decisions -> Decision \cup {NoDecision}]
    /\ op \in [Actors -> OpType]

\* The reviews that settled a proposal with verdict v.
Verdicts(p, v) ==
    {r \in Reviews : reviews[r].proposal = p /\ reviews[r].verdict = v}

\* The decisions that cite one of a set of reviews.
Citing(R) == {d \in Decisions : decisions[d].review \in R}

AtMostOne(S) == \A x, y \in S : x = y

\* Approval writes review, status and decision together and happens once
\* (review_proposal, accept_contribution): a proposal is Approved exactly
\* when one approving review and one decision citing it exist, the decision
\* names the same proposal and the same participant, and the same holds of
\* Rejected and its one rejecting review, however callers interleave.
ApprovalChain ==
    /\ \A p \in Proposals :
          /\ (proposals[p].status = "Approved") <=> (Verdicts(p, "Approve") # {})
          /\ (proposals[p].status = "Rejected") <=> (Verdicts(p, "Reject") # {})
          /\ AtMostOne(Verdicts(p, "Approve"))
          /\ AtMostOne(Verdicts(p, "Reject"))
          /\ AtMostOne(Citing(Verdicts(p, "Approve")))
    /\ \A r \in Reviews :
          reviews[r].verdict = "Approve" => \E d \in Decisions : decisions[d].review = r
    /\ \A d \in Decisions : decisions[d].review # None =>
          LET r == reviews[decisions[d].review] IN
          /\ r.verdict = "Approve"
          /\ r.proposal = decisions[d].proposal
          /\ r.by = decisions[d].by

\* A settled proposal is never written again (docs/WORK_COORDINATION.md:
\* "Approve and Reject are terminal"), not even with the same status.
SettledForever ==
    [][\A p \in Proposals :
          proposals[p].status \in Settled => proposals'[p] = proposals[p]]_vars

\* A review is stored only in a step that finds its proposal Proposed: the
\* check review_proposal made two reads earlier still holds at the commit.
ReviewedWhileProposed ==
    [][\A r \in Reviews : reviews[r] = NoReview /\ reviews'[r] # NoReview
          => proposals[reviews'[r].proposal].status = "Proposed"]_vars

\* Reviews and decisions are evidence: once stored they never change, also
\* when a caller submits a second record under an identifier in use.
EvidenceIsImmutable ==
    [][/\ \A r \in Reviews : reviews[r] # NoReview => reviews'[r] = reviews[r]
       /\ \A d \in Decisions :
             decisions[d] # NoDecision => decisions'[d] = decisions[d]]_vars

\* What was written for the record stands: settled proposals, reviews and decisions
\* keep what they say, and no review comes after the verdict it would contradict,
\* whatever callers that read the proposal earlier do later.
RecordStands == SettledForever /\ ReviewedWhileProposed /\ EvidenceIsImmutable

\* A package is good for one contribution: a participant that submits again,
\* not knowing that the first submission was stored, stores nothing.
OncePerPackage == \A t \in Actors : op[t].accepted <= 1

\* A contribution is stored only on the proposals its author was shown
\* (docs/WORK_COORDINATION_PROTOCOL.md: a stale revision writes nothing).
AcceptedOnShownState ==
    [][\A t \in Actors :
          op'[t].accepted > op[t].accepted => op[t].shown = Statuses]_vars

\* Only a participant with the decide capability authorizes Work
\* (docs/CHATGPT_PARTICIPANT.md:36).  The code does not keep this:
\* review_proposal never looks at the reviewer's capabilities.
DecidedByDeciders ==
    \A d \in Decisions : decisions[d] # NoDecision => decisions[d].by \in CanDecide

\* The participants that settled a proposal.
Authority(p) == {reviews[r].by : r \in Verdicts(p, "Approve") \cup Verdicts(p, "Reject")}

Lifecycle == INSTANCE ProposalLifecycle WITH
    status <- Statuses,
    authority <- [p \in Proposals |-> Authority(p)],
    mandate <- [p \in Proposals |-> Citing(Verdicts(p, "Approve"))]

\* The interleaved operations implement the lifecycle of ProposalLifecycle.
RefinesLifecycle == Lifecycle!Spec
=============================================================================
