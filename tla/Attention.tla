------------------------------ MODULE Attention ------------------------------
(***************************************************************************)
(* What a Work asks of the user (crates/combe-state/src/attention.rs): a    *)
(* projection of the newest proposals, assignments, executions and reviews  *)
(* of the Work (context, work_feltdb.rs) and of the exchanges with its      *)
(* recipients.  The window's sidebar counts the items, combe work attention *)
(* lists them.                                                              *)
(*                                                                          *)
(* The records of the Work are a sequence in the order of their creation;   *)
(* a record is named by its place in it.                                    *)
(***************************************************************************)
EXTENDS Naturals, Sequences, FiniteSetsExt

CONSTANTS
    Asked,       \* recipients a message can be sent to
    Limit,       \* CONTEXT_PROPOSAL_LIMIT and the others: all 100
    MaxLog       \* bound: records of the Work

VARIABLES
    log,      \* the records: what each is, and of which record or recipient
    status,   \* the status of each record, as it is now
    open,     \* the Work is neither Completed nor Archived
    healthy   \* the context graph is healthy

vars == <<log, status, open, healthy>>

Kinds == {"proposal", "review", "assignment", "execution", "execution_review", "exchange"}
Ids == 1..Len(log)
Of(kind) == {i \in Ids : log[i].kind = kind}

Init == log = <<>> /\ status = <<>> /\ open = TRUE /\ healthy = TRUE

-----------------------------------------------------------------------------
(* The records. *)

Add(kind, of, s) ==
    /\ Len(log) < MaxLog
    /\ log' = Append(log, [kind |-> kind, of |-> of])
    /\ status' = Append(status, s)
    /\ UNCHANGED <<open, healthy>>

Becomes(i, s) ==
    /\ status' = [status EXCEPT ![i] = s]
    /\ UNCHANGED <<log, open, healthy>>

Propose == Add("proposal", 0, "proposed")

\* review_proposal: a request for changes leaves the proposal as it was.
Review(i, s) ==
    /\ i \in Of("proposal") /\ status[i] = "proposed"
    /\ Len(log) < MaxLog
    /\ log' = Append(log, [kind |-> "review", of |-> i])
    /\ status' = Append([status EXCEPT ![i] = s], "done")
    /\ UNCHANGED <<open, healthy>>

\* add_assignment: of an approved proposal, or of none.
Assign(i) == i \in Of("proposal") /\ status[i] = "approved" /\ Add("assignment", i, "done")
AssignNone == Add("assignment", 0, "done")

\* start_execution: one for each assignment.
Start(i) ==
    /\ i \in Of("assignment") /\ \A j \in Of("execution") : log[j].of # i
    /\ Add("execution", i, "started")

\* Heartbeats stop for EXECUTION_STALE_AFTER_MINUTES, and may come again.
GoStale(i)   == i \in Of("execution") /\ status[i] = "started" /\ Becomes(i, "stale")
Heartbeat(i) == i \in Of("execution") /\ status[i] = "stale" /\ Becomes(i, "started")

Finish(i, s) == i \in Of("execution") /\ status[i] \in {"started", "stale"} /\ Becomes(i, s)

ReviewExecution(i) ==
    /\ i \in Of("execution") /\ status[i] \in {"completed", "failed", "cancelled"}
    /\ Add("execution_review", i, "done")

\* The router writes an exchange when it is over.
Exchange(r, s) == Add("exchange", r, s)

\* set_work_status
SetOpen == open' = ~open /\ UNCHANGED <<log, status, healthy>>

Health == healthy' = ~healthy /\ UNCHANGED <<log, status, open>>

Next ==
    \/ Propose \/ AssignNone \/ SetOpen \/ Health
    \/ \E i \in Ids :
        \/ \E s \in {"approved", "rejected", "proposed"} : Review(i, s)
        \/ \E s \in {"completed", "failed", "cancelled"} : Finish(i, s)
        \/ Assign(i) \/ Start(i) \/ GoStale(i) \/ Heartbeat(i) \/ ReviewExecution(i)
    \/ \E r \in Asked, s \in {"completed", "failed", "manual"} : Exchange(r, s)

Spec == Init /\ [][Next]_vars

-----------------------------------------------------------------------------
(* context, project_attention *)

Newest(S) == {i \in S : Cardinality({j \in S : j > i}) < Limit}

Proposals  == Newest(Of("proposal"))
Assignments == Newest(Of("assignment"))
Executions == Newest(Of("execution"))
Reviews    == Newest({i \in Of("review") : log[i].of \in Proposals})
ExecutionReviews == Newest(Of("execution_review"))

\* The last exchange with the recipient.
Last(r) == Max({i \in Of("exchange") : log[i].of = r})
Latest == {Last(log[i].of) : i \in Of("exchange")}

Item(kind, S) == {[kind |-> kind, of |-> i] : i \in S}
Later(S, i) == \E j \in S : j > i

\* MUTANT of Assigned: only the newest assignment is looked at.
AssignedLast(i) == Assignments # {} /\ log[Max(Assignments)].of = i

\* MUTANT of Reviewed: a review of any execution will do.
ReviewedAny(i) == ExecutionReviews # {}

Reviewed(i) == \E j \in ExecutionReviews : log[j].of = i

Assigned(i) == \E j \in Assignments : log[j].of = i

Failed == {i \in Executions : status[i] \in {"failed", "cancelled", "stale"}}

ResolveFailure == Item("resolve_failure", {i \in Latest : status[i] = "failed"} \cup Failed)
ReviewResult ==
    Item("review_result", {i \in Latest : status[i] = "completed"
                                 /\ ~Later(Proposals \cup Reviews \cup ExecutionReviews, i)})
ReviewProposal == Item("review_proposal", {i \in Proposals : status[i] = "proposed"})
AssignWork == Item("assign_work", {i \in Proposals : status[i] = "approved" /\ ~Assigned(i)})
ReviewWork ==
    Item("review_execution", {i \in Executions : status[i] = "completed" /\ ~Reviewed(i)})
RebuildGraph == IF healthy THEN {} ELSE Item("rebuild_graph", {0})

\* What there is to do before the Work may be completed.
ToDo ==
    ResolveFailure \cup ReviewResult \cup ReviewProposal \cup AssignWork \cup ReviewWork
        \cup RebuildGraph

Completable == Executions # {} /\ \A i \in Executions : status[i] = "completed"

Items ==
    IF ~open THEN {}
    ELSE IF ToDo = {} /\ Completable THEN Item("complete_work", {0}) ELSE ToDo

-----------------------------------------------------------------------------
(* Properties *)

\* Every variable has its type.
TypeOK ==
    /\ \A i \in Ids : log[i].kind \in Kinds /\ log[i].of \in Asked \cup 0..(i - 1)
    /\ Len(status) = Len(log) /\ Len(log) <= MaxLog
    /\ open \in BOOLEAN /\ healthy \in BOOLEAN

Truncates == \E kind \in Kinds \ {"exchange"} : Cardinality(Of(kind)) > Limit

Touched(i) == i \notin Ids \/ status'[i] # status[i]

\* What was answered is not asked again: a step makes items only for the record it
\* makes or changes.  A record that has as many newer ones as the context shows is not
\* seen any more, and what it had answered may be.
AnsweredStaysAnswered ==
    [][open' = open /\ ~Truncates' =>
        \A item \in Items' \ Items : item.of = 0 \/ Touched(item.of)]_vars

\* "All executions have completed and been reviewed" (attention.rs:222) is said only
\* when they all are: also those the context no longer has.
CompletionIsTrue ==
    \A item \in Items :
        item.kind = "complete_work" /\ ~Truncates =>
            \A i \in Of("execution") :
                status[i] = "completed" /\ \E j \in Of("execution_review") : log[j].of = i

\* An answer to a recipient's failure is the next exchange with it.
RetriesResolve ==
    \A item \in Items :
        item.kind = "resolve_failure" /\ log[item.of].kind = "exchange" =>
            \A j \in Of("exchange") : log[j].of = log[item.of].of => j <= item.of
=============================================================================
