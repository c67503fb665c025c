------------------------- MODULE ProposalLifecycle -------------------------
(***************************************************************************)
(* What the store promises about proposals (docs/WORK_COORDINATION.md,      *)
(* "Lifecycle"), with every operation in one indivisible step: a proposal   *)
(* is submitted as Draft or Proposed, may be put forward or superseded, and *)
(* is settled at most once.  An approval names the participant on whose     *)
(* authority it was given, together with the one Decision that records it.  *)
(***************************************************************************)
CONSTANTS Proposals, Participants, Decisions, None

VARIABLES
    status,     \* the state of each proposal
    authority,  \* who settled it: the reviewers whose verdict ended it
    mandate     \* the decisions that record its approval

vars == <<status, authority, mandate>>

Init ==
    /\ status = [p \in Proposals |-> "Absent"]
    /\ authority = [p \in Proposals |-> {}]
    /\ mandate = [p \in Proposals |-> {}]

\* A new proposal.
Submit(p) ==
    /\ status[p] = "Absent"
    /\ \E s \in {"Draft", "Proposed"} : status' = [status EXCEPT ![p] = s]
    /\ UNCHANGED <<authority, mandate>>

\* A draft is put forward, a draft or an open proposal is withdrawn.
Move(p) ==
    /\ \/ status[p] = "Draft" /\ status' = [status EXCEPT ![p] = "Proposed"]
       \/ status[p] \in {"Draft", "Proposed"}
          /\ status' = [status EXCEPT ![p] = "Superseded"]
    /\ UNCHANGED <<authority, mandate>>

\* An approval: status, authority and decision appear together.
Approve(p, w, d) ==
    /\ status[p] = "Proposed"
    /\ status' = [status EXCEPT ![p] = "Approved"]
    /\ authority' = [authority EXCEPT ![p] = {w}]
    /\ mandate' = [mandate EXCEPT ![p] = {d}]

Reject(p, w) ==
    /\ status[p] = "Proposed"
    /\ status' = [status EXCEPT ![p] = "Rejected"]
    /\ authority' = [authority EXCEPT ![p] = {w}]
    /\ UNCHANGED mandate

Next ==
    \E p \in Proposals :
        \/ Submit(p)
        \/ Move(p)
        \/ \E w \in Participants :
              Reject(p, w) \/ \E d \in Decisions : Approve(p, w, d)

Spec == Init /\ [][Next]_vars
=============================================================================
