--------------------------- MODULE ExecutionStore ---------------------------
(***************************************************************************)
(* Assignments, executions, results and execution reviews in                *)
(* FeltDbWorkStore (crates/combe-state/src/work_feltdb.rs), one action per  *)
(* store call of every operation that writes them.  A worker is a thread    *)
(* with a store handle or a participant outside the process.                *)
(*                                                                          *)
(* approved is the set of approved proposals.  It belongs to ProposalStore; *)
(* here it only grows, because a proposal never leaves Approved.            *)
(*                                                                          *)
(* Left out: instructions, provider names and ids, times, the content of    *)
(* results; the Turn and the artifacts that finish_execution writes in the  *)
(* same transaction as the result; provenance checks against fields no      *)
(* operation changes.                                                       *)
(***************************************************************************)
EXTENDS FeltDb

CONSTANTS Workers, Proposals, Assignments, Executions, Results, None

ASSUME NoneIsNoRecord ==
    None \notin Proposals \cup Assignments \cup Executions \cup Results

VARIABLES approved, assignments, executions, results, noted, work

vars == <<revision, approved, assignments, executions, results, noted, work>>

-----------------------------------------------------------------------------
(* Records *)

Ended == {"Completed", "Failed", "Cancelled"}
AssignmentStatus == {"Absent", "Pending", "Active"} \cup Ended
ExecutionStatus == {"Absent", "Started"} \cup Ended

\* What finish_execution may report.
Outcomes == Ended

\* The outcomes that need a result and a turn.
NeedsResult == {"Completed", "Failed"}

NoAssignment == [status |-> "Absent", proposal |-> None, ver |-> 0]
NoExecution == [status |-> "Absent", assignment |-> None, result |-> None,
                ver |-> 0]

\* The executions of an assignment: execution_for_assignment scans for one.
RunsOf(a) == {x \in Executions : executions[x].assignment = a}

(* A call in flight: the operation, its next step, its arguments, and the   *)
(* versions it read.                                                        *)
Idle == [call |-> "idle", pc |-> "idle", a |-> None, x |-> None, o |-> None,
         p |-> None, to |-> "Absent", aver |-> 0, xver |-> 0, base |-> 0]

Init ==
    /\ revision = 0
    /\ approved = {}
    /\ assignments = [a \in Assignments |-> NoAssignment]
    /\ executions = [x \in Executions |-> NoExecution]
    /\ results = [o \in Results |-> None]
    /\ noted = [x \in Executions |-> {}]
    /\ work = [t \in Workers |-> Idle]

store == <<revision, approved, assignments, executions, results, noted>>

\* The call of t takes its next read, or ends.
Goto(t, w) == work' = [work EXCEPT ![t] = w] /\ UNCHANGED store
Return(t) == work' = [work EXCEPT ![t] = Idle]

-----------------------------------------------------------------------------
(* The preconditions of a transaction *)

\* MUTANT of AssignmentAtVersion, ExecutionIsNew, ResultIsNew and AtRevision:
\* the precondition is not handed to the transaction.
Unchecked(w) == TRUE

AssignmentAtVersion(w) == assignments[w.a].ver = w.aver
ExecutionAtVersion(w) == executions[w.x].ver = w.xver
ExecutionIsNew(w) == executions[w.x].status = "Absent"
ResultIsNew(w) == w.o # None => results[w.o] = None
AtRevision(w) == w.base = revision

-----------------------------------------------------------------------------
(* add_assignment *)

\* MUTANT of Authorized: the link is stored as the caller gave it.
AnyProposal(p) == TRUE

\* The linked proposal, if any, must be approved.
Authorized(p) == p # None => p \in approved

\* The identifier is new: every caller draws it for this call.
BeginAssign(t, a, p) ==
    /\ work[t] = Idle
    /\ assignments[a] = NoAssignment
    /\ \A u \in Workers : work[u].a # a
    /\ Authorized(p)
    /\ Goto(t, [Idle EXCEPT !.call = "assign", !.pc = "commit", !.a = a, !.p = p])

\* A plain insert: no precondition.
CommitAssign(t) ==
    LET w == work[t] IN
    /\ w.call = "assign" /\ w.pc = "commit"
    /\ LogWrite
    /\ assignments' = [assignments EXCEPT
            ![w.a] = [status |-> "Pending", proposal |-> w.p, ver |-> Stamp]]
    /\ Return(t)
    /\ UNCHANGED <<approved, executions, results, noted>>

-----------------------------------------------------------------------------
(* start_execution *)

\* An assignment that has an execution gets that one back and nothing is
\* written; otherwise the call goes on.
BeginStart(t, a, x) ==
    /\ work[t] = Idle
    /\ assignments[a].status # "Absent"
    /\ RunsOf(a) = {}
    /\ Goto(t, [Idle EXCEPT !.call = "start", !.pc = "aver", !.a = a, !.x = x])

CommitStart(t) ==
    LET w == work[t] IN
    /\ w.call = "start" /\ w.pc = "commit"
    /\ AssignmentAtVersion(w) /\ ExecutionIsNew(w)
    /\ LogWrite
    /\ assignments' = [assignments EXCEPT ![w.a].status = "Active",
                                          ![w.a].ver = Stamp]
    /\ executions' = [executions EXCEPT
            ![w.x] = [status |-> "Started", assignment |-> w.a,
                      result |-> None, ver |-> Stamp]]
    /\ Return(t)
    /\ UNCHANGED <<approved, results, noted>>

-----------------------------------------------------------------------------
(* heartbeat_execution *)

BeginHeartbeat(t, x) ==
    /\ work[t] = Idle
    /\ executions[x].status # "Absent"
    /\ Goto(t, [Idle EXCEPT !.call = "heartbeat", !.pc = "execution", !.x = x,
                            !.xver = executions[x].ver])

ReadHeartbeat(t) ==
    /\ work[t].pc = "execution"
    /\ Goto(t, IF executions[work[t].x].status = "Started"
                 THEN [work[t] EXCEPT !.pc = "commit"] ELSE Idle)

\* Of the record only its version changes here: heartbeat_at is left out.
\* The record written is the Started one that was read.
CommitHeartbeat(t) ==
    LET w == work[t] IN
    /\ w.call = "heartbeat" /\ w.pc = "commit"
    /\ ExecutionAtVersion(w)
    /\ LogWrite
    /\ executions' = [executions EXCEPT ![w.x].status = "Started",
                                        ![w.x].ver = Stamp]
    /\ Return(t)
    /\ UNCHANGED <<approved, assignments, results, noted>>

-----------------------------------------------------------------------------
(* finish_execution *)

\* The execution must be Started.  A terminal one is returned, or refused, and
\* nothing is written.
BeginFinish(t, x, s, o) ==
    /\ work[t] = Idle
    /\ executions[x].status = "Started"
    /\ (o # None) <=> (s \in NeedsResult)
    /\ Goto(t, [Idle EXCEPT !.call = "finish", !.pc = "xver", !.x = x,
                            !.a = executions[x].assignment, !.to = s, !.o = o])

\* Only now the version of the execution that was loaded a step ago.
ReadExecutionVersion(t) ==
    /\ work[t].pc = "xver"
    /\ Goto(t, [work[t] EXCEPT !.pc = "aver", !.xver = executions[work[t].x].ver])

\* The version, then the record, of the assignment; start_execution needs it
\* Pending and finish_execution Active.
ReadAssignmentVersion(t) ==
    /\ work[t].pc = "aver"
    /\ Goto(t, [work[t] EXCEPT !.pc = "assignment",
                               !.aver = assignments[work[t].a].ver])

\* MUTANT of Needed: finish_execution relies on its first look at the
\* execution and lets the assignment be in any state.
FinishAnyState(w) == IF w.call = "start" THEN {"Pending"} ELSE AssignmentStatus

Needed(w) == IF w.call = "start" THEN {"Pending"} ELSE {"Active"}

ReadAssignment(t) ==
    /\ work[t].pc = "assignment"
    /\ Goto(t, IF assignments[work[t].a].status \in Needed(work[t])
                 THEN [work[t] EXCEPT !.pc = "commit"] ELSE Idle)

FinishHolds(w) ==
    AssignmentAtVersion(w) /\ ExecutionAtVersion(w) /\ ResultIsNew(w)

\* The result, when the outcome has one.
FileResult(w) ==
    results' = [o \in Results |-> IF o = w.o THEN w.x ELSE results[o]]

CommitFinish(t) ==
    LET w == work[t] IN
    /\ w.call = "finish" /\ w.pc = "commit"
    /\ FinishHolds(w)
    /\ LogWrite
    /\ assignments' = [assignments EXCEPT ![w.a].status = w.to,
                                          ![w.a].ver = Stamp]
    /\ executions' = [executions EXCEPT
            ![w.x] = [status |-> w.to, assignment |-> w.a,
                      result |-> w.o, ver |-> Stamp]]
    /\ FileResult(w)
    /\ Return(t)
    /\ UNCHANGED <<approved, noted>>

-----------------------------------------------------------------------------
(* accept_contribution, the review of an execution *)

\* The contribution was made from a package of revision base, exported at any
\* time before.
BeginReview(t, x, base) ==
    /\ work[t] = Idle
    /\ executions[x].status \in Ended
    /\ base <= revision
    /\ Goto(t, [Idle EXCEPT !.call = "review", !.pc = "commit", !.x = x,
                            !.base = base])

CommitReview(t) ==
    LET w == work[t] IN
    /\ w.call = "review" /\ w.pc = "commit"
    /\ AtRevision(w)
    /\ LogWrite
    /\ noted' = [noted EXCEPT ![w.x] = @ \cup {w.base}]
    /\ Return(t)
    /\ UNCHANGED <<approved, assignments, executions, results>>

-----------------------------------------------------------------------------
(* Calls that end without an effect, and the rest of the system *)

Holds(w) ==
    CASE w.call = "start"     -> AssignmentAtVersion(w) /\ ExecutionIsNew(w)
      [] w.call = "heartbeat" -> ExecutionAtVersion(w)
      [] w.call = "finish"    -> FinishHolds(w)
      [] w.call = "review"    -> AtRevision(w)
      [] OTHER                -> TRUE

\* A precondition fails: the transaction writes nothing and the call errs.
Refuse(t) == work[t].pc = "commit" /\ ~Holds(work[t]) /\ Goto(t, Idle)

\* The process ends in the middle of a call.
Abandon(t) == work[t] # Idle /\ Goto(t, Idle)

WorkerStep(t) ==
    \/ \E a \in Assignments, p \in Proposals \cup {None} : BeginAssign(t, a, p)
    \/ CommitAssign(t)
    \/ \E a \in Assignments, x \in Executions : BeginStart(t, a, x)
    \/ CommitStart(t)
    \/ \E x \in Executions :
          \/ BeginHeartbeat(t, x)
          \/ \E s \in Outcomes, o \in Results \cup {None} : BeginFinish(t, x, s, o)
          \/ \E base \in Revision : BeginReview(t, x, base)
    \/ ReadHeartbeat(t)
    \/ CommitHeartbeat(t)
    \/ ReadExecutionVersion(t)
    \/ ReadAssignmentVersion(t)
    \/ ReadAssignment(t)
    \/ CommitFinish(t)
    \/ CommitReview(t)
    \/ Refuse(t)
    \/ Abandon(t)

\* A proposal is approved, or another record is written.
OtherWrite ==
    /\ LogWrite
    /\ \/ UNCHANGED approved
       \/ \E p \in Proposals : approved' = approved \cup {p}
    /\ UNCHANGED <<assignments, executions, results, noted, work>>

Step == \E t \in Workers : WorkerStep(t)

Next == OtherWrite \/ Step

Spec == Init /\ [][Next]_vars

-----------------------------------------------------------------------------
(* Properties *)

WorkType == [call : {"idle", "assign", "start", "heartbeat", "finish", "review"},
             pc : {"idle", "execution", "xver", "aver", "assignment", "commit"},
             a : Assignments \cup {None},
             x : Executions \cup {None},
             o : Results \cup {None},
             p : Proposals \cup {None},
             to : {"Absent"} \cup Ended,
             aver : Revision, xver : Revision, base : Revision]

\* Every variable has its type.
TypeOK ==
    /\ revision \in Revision
    /\ approved \in SUBSET Proposals
    /\ assignments \in [Assignments -> [status : AssignmentStatus,
                                        proposal : Proposals \cup {None},
                                        ver : Revision]]
    /\ executions \in [Executions -> [status : ExecutionStatus,
                                      assignment : Assignments \cup {None},
                                      result : Results \cup {None},
                                      ver : Revision]]
    /\ results \in [Results -> Executions \cup {None}]
    /\ noted \in [Executions -> SUBSET Revision]
    /\ work \in [Workers -> WorkType]

\* start_execution keeps one canonical execution per assignment, also when
\* two callers find none and go on to create one each.
SoleExecution ==
    \A x, y \in Executions :
        executions[x].assignment = executions[y].assignment
            /\ executions[x].status # "Absent" => x = y

\* Assignment and execution move together: an assignment that waits has no
\* execution, an Active one a Started one, an ended one ended as it did.
InStep ==
    /\ \A a \in Assignments :
          assignments[a].status \in {"Absent", "Pending"} <=> RunsOf(a) = {}
    /\ \A x \in Executions : executions[x].status # "Absent" =>
          assignments[executions[x].assignment].status =
              IF executions[x].status = "Started" THEN "Active"
                                                  ELSE executions[x].status

\* An execution has a result exactly when it Completed or Failed, and no two
\* executions, and no second finish of one, leave a result that nobody cites.
ResultChain ==
    /\ \A x \in Executions :
          (executions[x].result # None) <=> (executions[x].status \in NeedsResult)
    /\ \A o \in Results, x \in Executions :
          (results[o] = x) <=> (executions[x].result = o)

\* Assignment, execution and result form one chain, whichever calls of
\* start_execution and finish_execution meet: no second execution, no state that
\* one of them has and the other has not, no result without its execution.
OneChain == TypeOK /\ SoleExecution /\ InStep /\ ResultChain

\* The first terminal outcome stands: neither a second finish nor a late
\* heartbeat writes the execution or its assignment again.
EndedForever ==
    [][/\ \A x \in Executions :
             executions[x].status \in Ended => executions'[x] = executions[x]
       /\ \A a \in Assignments :
             assignments[a].status \in Ended => assignments'[a] = assignments[a]]_vars

\* An execution review is anchored to a package that showed the execution
\* ended: its context revision is not older than the terminal write.
ReviewedAfterEnd ==
    \A x \in Executions : \A base \in noted[x] :
        executions[x].status \in Ended /\ executions[x].ver <= base

Lifecycle == INSTANCE ExecutionLifecycle WITH
    phase <- [a \in Assignments |-> assignments[a].status],
    runs <- [a \in Assignments |-> RunsOf(a)],
    output <- [a \in Assignments |-> {o \in Results : results[o] \in RunsOf(a)}]

\* The interleaved operations implement the lifecycle of ExecutionLifecycle.
RefinesLifecycle == Lifecycle!Spec
=============================================================================
