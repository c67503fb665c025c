------------------------ MODULE ExecutionStoreProofs ------------------------
(***************************************************************************)
(* Proofs about ExecutionStore for every number of workers, assignments,    *)
(* executions and results and every length of the log.                      *)
(*                                                                          *)
(* The argument is optimistic concurrency: a call remembers a version and   *)
(* what it saw under it; every write of a record gives it a version newer   *)
(* than any that was ever read, so a version that still matches at the      *)
(* commit proves that what was seen still holds.                            *)
(***************************************************************************)
EXTENDS ExecutionStore, TLAPS

-----------------------------------------------------------------------------
(* The inductive invariant *)

\* No record is newer than the log, and a record that was never written is
\* the empty one.
WellDated ==
    /\ \A a \in Assignments :
          /\ assignments[a].ver <= revision
          /\ assignments[a].status = "Absent" => assignments[a] = NoAssignment
    /\ \A x \in Executions :
          /\ executions[x].ver <= revision
          /\ executions[x].status = "Absent" => executions[x] = NoExecution
          /\ executions[x].status # "Absent" => executions[x].assignment \in Assignments

\* What a call in flight may rely on.
Assigning(w) ==
    /\ w.call = "assign" /\ w.pc = "commit"
    /\ w.a \in Assignments
    /\ assignments[w.a] = NoAssignment

Starting(w) ==
    /\ w.call = "start" /\ w.pc \in {"aver", "assignment", "commit"}
    /\ w.a \in Assignments /\ w.x \in Executions
    /\ assignments[w.a].status # "Absent"
    /\ w.pc # "aver" => w.aver <= assignments[w.a].ver
    /\ w.pc = "commit" /\ AssignmentAtVersion(w) => assignments[w.a].status = "Pending"

Beating(w) ==
    /\ w.call = "heartbeat" /\ w.pc \in {"execution", "commit"}
    /\ w.x \in Executions
    /\ executions[w.x].status # "Absent"
    /\ w.xver <= executions[w.x].ver
    /\ w.pc = "commit" /\ ExecutionAtVersion(w) => executions[w.x].status = "Started"

Finishing(w) ==
    /\ w.call = "finish" /\ w.pc \in {"xver", "aver", "assignment", "commit"}
    /\ w.a \in Assignments /\ w.x \in Executions
    /\ w.to \in Ended
    /\ (w.o # None) <=> (w.to \in NeedsResult)
    /\ executions[w.x].status # "Absent"
    /\ executions[w.x].assignment = w.a
    /\ assignments[w.a].status # "Absent"
    /\ w.pc \in {"assignment", "commit"} => w.aver <= assignments[w.a].ver
    /\ w.pc = "commit" /\ AssignmentAtVersion(w) => assignments[w.a].status = "Active"

Reviewing(w) ==
    /\ w.call = "review" /\ w.pc = "commit"
    /\ w.x \in Executions
    /\ executions[w.x].status \in Ended

Underway(w) ==
    \/ w = Idle
    \/ Assigning(w) \/ Starting(w) \/ Beating(w) \/ Finishing(w) \/ Reviewing(w)

\* An identifier drawn for a new assignment is known to nobody else.
FreshlyDrawn ==
    \A t, u \in Workers :
        work[t].call = "assign" /\ work[u].a = work[t].a => t = u

IInv ==
    /\ TypeOK
    /\ WellDated
    /\ SoleExecution
    /\ InStep
    /\ ResultChain
    /\ ReviewedAfterEnd
    /\ \A t \in Workers : Underway(work[t])
    /\ FreshlyDrawn

-----------------------------------------------------------------------------
(* Types *)

LEMMA RevisionIsNat == Revision \subseteq Nat /\ 0 \in Revision
  BY MaxRevisionIsNat DEF Revision

LEMMA StampIsRevision ==
  ASSUME revision \in Revision, LogWrite
  PROVE  /\ Stamp \in Revision /\ revision' \in Revision
         /\ revision' = Stamp /\ Stamp > revision
  BY MaxRevisionIsNat DEF Revision, LogWrite, Stamp

LEMMA IdleIsWork == Idle \in WorkType
  BY RevisionIsNat DEF Idle, WorkType

\* A call that only reads leaves every variable but its own record alone.
LEMMA GotoType ==
  ASSUME TypeOK, NEW t \in Workers, NEW w \in WorkType, Goto(t, w)
  PROVE  TypeOK'
  BY DEF TypeOK, Goto, store

LEMMA ReturnType ==
  ASSUME TypeOK, NEW t \in Workers, Return(t)
  PROVE  work' \in [Workers -> WorkType]
  BY IdleIsWork DEF TypeOK, Return

\* A version is read of a record the call is known to name.
LEMMA TypeStep ==
  ASSUME TypeOK, \A t \in Workers : Underway(work[t]), [Next]_vars
  PROVE  TypeOK'
  <1>1. CASE UNCHANGED vars
    BY <1>1 DEF vars, TypeOK
  <1>2. CASE OtherWrite
    BY <1>2, StampIsRevision DEF OtherWrite, TypeOK
  <1>3. ASSUME NEW t \in Workers, WorkerStep(t)
        PROVE  TypeOK'
    <2> DEFINE w == work[t]
    <2>0. w \in WorkType
      BY DEF TypeOK
    <2>1. ASSUME NEW a \in Assignments, NEW p \in Proposals \cup {None},
                 BeginAssign(t, a, p)
          PROVE  TypeOK'
      <3>1. [Idle EXCEPT !.call = "assign", !.pc = "commit", !.a = a, !.p = p]
              \in WorkType
        BY RevisionIsNat DEF Idle, WorkType
      <3> QED
        BY <3>1, <2>1, GotoType DEF BeginAssign
    <2>2. CASE CommitAssign(t)
      <3>1. w.p \in Proposals \cup {None}
        BY <2>0 DEF WorkType
      <3> QED
        BY <3>1, <2>2, StampIsRevision, ReturnType
        DEF CommitAssign, TypeOK, AssignmentStatus
    <2>3. ASSUME NEW a \in Assignments, NEW x \in Executions, BeginStart(t, a, x)
          PROVE  TypeOK'
      <3>1. [Idle EXCEPT !.call = "start", !.pc = "aver", !.a = a, !.x = x]
              \in WorkType
        BY RevisionIsNat DEF Idle, WorkType
      <3> QED
        BY <3>1, <2>3, GotoType DEF BeginStart
    <2>4. CASE CommitStart(t)
      <3>1. w.a \in Assignments \cup {None}
        BY <2>0 DEF WorkType
      <3> QED
        BY <3>1, <2>4, StampIsRevision, ReturnType
        DEF CommitStart, TypeOK, AssignmentStatus, ExecutionStatus
    <2>5. ASSUME NEW x \in Executions, BeginHeartbeat(t, x)
          PROVE  TypeOK'
      <3>1. [Idle EXCEPT !.call = "heartbeat", !.pc = "execution", !.x = x,
                         !.xver = executions[x].ver] \in WorkType
        BY RevisionIsNat DEF Idle, WorkType, TypeOK
      <3> QED
        BY <3>1, <2>5, GotoType DEF BeginHeartbeat
    <2>6. ASSUME NEW x \in Executions, NEW s \in Outcomes,
                 NEW o \in Results \cup {None}, BeginFinish(t, x, s, o)
          PROVE  TypeOK'
      <3>1. [Idle EXCEPT !.call = "finish", !.pc = "xver", !.x = x,
                         !.a = executions[x].assignment, !.to = s, !.o = o]
              \in WorkType
        BY RevisionIsNat DEF Idle, WorkType, TypeOK, Outcomes
      <3> QED
        BY <3>1, <2>6, GotoType DEF BeginFinish
    <2>7. ASSUME NEW x \in Executions, NEW base \in Revision, BeginReview(t, x, base)
          PROVE  TypeOK'
      <3>1. [Idle EXCEPT !.call = "review", !.pc = "commit", !.x = x, !.base = base]
              \in WorkType
        BY RevisionIsNat DEF Idle, WorkType
      <3> QED
        BY <3>1, <2>7, GotoType DEF BeginReview
    <2>8. CASE ReadHeartbeat(t)
      <3>1. [w EXCEPT !.pc = "commit"] \in WorkType
        BY <2>0 DEF WorkType
      <3> QED
        BY <3>1, <2>8, IdleIsWork, GotoType DEF ReadHeartbeat
    <2>9. CASE CommitHeartbeat(t)
      BY <2>9, StampIsRevision, ReturnType
      DEF CommitHeartbeat, TypeOK, ExecutionStatus
    <2>10. CASE ReadExecutionVersion(t)
      <3>1. w.x \in Executions
        BY <2>10 DEF ReadExecutionVersion, Underway, Idle, Assigning, Starting,
                     Beating, Finishing, Reviewing
      <3>2. [w EXCEPT !.pc = "aver", !.xver = executions[w.x].ver] \in WorkType
        BY <2>0, <3>1 DEF WorkType, TypeOK
      <3> QED
        BY <3>2, <2>10, GotoType DEF ReadExecutionVersion
    <2>11. CASE ReadAssignmentVersion(t)
      <3>1. w.a \in Assignments
        BY <2>11 DEF ReadAssignmentVersion, Underway, Idle, Assigning, Starting,
                     Beating, Finishing, Reviewing
      <3>2. [w EXCEPT !.pc = "assignment", !.aver = assignments[w.a].ver]
              \in WorkType
        BY <2>0, <3>1 DEF WorkType, TypeOK
      <3> QED
        BY <3>2, <2>11, GotoType DEF ReadAssignmentVersion
    <2>12. CASE ReadAssignment(t)
      <3>1. [w EXCEPT !.pc = "commit"] \in WorkType
        BY <2>0 DEF WorkType
      <3> QED
        BY <3>1, <2>12, IdleIsWork, GotoType DEF ReadAssignment
    <2>13. CASE CommitFinish(t)
      <3>1. /\ w.a \in Assignments \cup {None} /\ w.x \in Executions \cup {None}
            /\ w.o \in Results \cup {None} /\ w.to \in {"Absent"} \cup Ended
        BY <2>0 DEF WorkType
      <3>2. results' \in [Results -> Executions \cup {None}]
        BY <3>1, <2>13 DEF CommitFinish, FileResult, TypeOK
      <3>3. assignments' \in [Assignments -> [status : AssignmentStatus,
                                              proposal : Proposals \cup {None},
                                              ver : Revision]]
        <4>1. w.to \in AssignmentStatus
          BY <3>1 DEF AssignmentStatus
        <4>2. Stamp \in Revision
          BY <2>13, StampIsRevision DEF CommitFinish, TypeOK
        <4>3. assignments' = [assignments EXCEPT ![w.a].status = w.to,
                                                 ![w.a].ver = Stamp]
          BY <2>13 DEF CommitFinish
        <4> QED
          BY <4>1, <4>2, <4>3, <3>1 DEF TypeOK
      <3>4. executions' \in [Executions -> [status : ExecutionStatus,
                                            assignment : Assignments \cup {None},
                                            result : Results \cup {None},
                                            ver : Revision]]
        BY <3>1, <2>13, StampIsRevision DEF CommitFinish, TypeOK, ExecutionStatus
      <3> QED
        BY <3>2, <3>3, <3>4, <2>13, StampIsRevision, ReturnType
        DEF CommitFinish, TypeOK
    <2>14. CASE CommitReview(t)
      <3>1. w.base \in Revision
        BY <2>0 DEF WorkType
      <3> QED
        BY <3>1, <2>14, StampIsRevision, ReturnType DEF CommitReview, TypeOK
    <2>15. CASE Refuse(t)
      BY <2>15, IdleIsWork, GotoType DEF Refuse
    <2>16. CASE Abandon(t)
      BY <2>16, IdleIsWork, GotoType DEF Abandon
    <2> QED
      BY <1>3, <2>1, <2>2, <2>3, <2>4, <2>5, <2>6, <2>7, <2>8, <2>9, <2>10,
         <2>11, <2>12, <2>13, <2>14, <2>15, <2>16 DEF WorkerStep
  <1> QED
    BY <1>1, <1>2, <1>3 DEF Next, Step

-----------------------------------------------------------------------------
(* Steps that only read *)

\* What t may hold next without two callers holding one drawn identifier.
Apart(t, w) ==
    \A u \in Workers \ {t} :
        work[u].call = "assign" \/ w.call = "assign" => work[u].a # w.a

LEMMA ApartByNone ==
  ASSUME IInv, NEW t \in Workers, NEW w, w.a = None, w.call # "assign"
  PROVE  Apart(t, w)
  BY NoneIsNoRecord
  DEF IInv, Apart, Underway, Idle, Assigning, Starting, Beating, Finishing, Reviewing

LEMMA ApartByStatus ==
  ASSUME IInv, NEW t \in Workers, NEW w, w.call # "assign",
         assignments[w.a].status # "Absent"
  PROVE  Apart(t, w)
  BY DEF IInv, Apart, Underway, Idle, Assigning, Starting, Beating, Finishing,
         Reviewing, NoAssignment

LEMMA ApartBySame ==
  ASSUME IInv, NEW t \in Workers, NEW w, w.call = work[t].call, w.a = work[t].a
  PROVE  Apart(t, w)
  BY DEF IInv, Apart, FreshlyDrawn

\* tlapm keeps what is said of the record v apart from what is said of work[u].
LEMMA SameCall ==
  ASSUME NEW u \in Workers, NEW v, work'[u] = v, Underway(v)'
  PROVE  Underway(work[u])'
  BY DEF Underway, Assigning, Starting, Beating, Finishing, Reviewing,
         AssignmentAtVersion, ExecutionAtVersion

\* A read disturbs nothing if the call it leads to is in order.
LEMMA GotoStep ==
  ASSUME IInv, NEW t \in Workers, NEW w \in WorkType, Goto(t, w),
         Underway(w), Apart(t, w)
  PROVE  IInv'
  <1> USE DEF IInv
  <1>1. TypeOK'
    BY GotoType
  <1>2. UNCHANGED <<revision, approved, assignments, executions, results, noted>>
    BY DEF Goto, store
  <1>3. WellDated' /\ SoleExecution' /\ InStep' /\ ResultChain' /\ ReviewedAfterEnd'
    BY <1>2 DEF WellDated, SoleExecution, InStep, RunsOf, ResultChain, ReviewedAfterEnd
  <1>4. work' = [work EXCEPT ![t] = w] /\ work \in [Workers -> WorkType]
    BY DEF Goto, TypeOK
  <1>5. ASSUME NEW u \in Workers PROVE Underway(work[u])'
    <2>1. PICK v : v = IF u = t THEN w ELSE work[u]
      OBVIOUS
    <2>2. Underway(v) /\ work'[u] = v
      BY <1>4, <2>1
    <2>3. Underway(v)'
      BY <1>2, <2>2
      DEF Underway, Assigning, Starting, Beating, Finishing, Reviewing,
          AssignmentAtVersion, ExecutionAtVersion
    <2> QED
      BY <2>2, <2>3, SameCall
  <1>6. FreshlyDrawn'
    BY <1>4 DEF FreshlyDrawn, Apart
  <1> QED
    BY <1>1, <1>3, <1>5, <1>6

LEMMA IdleStep ==
  ASSUME IInv, NEW t \in Workers, Goto(t, Idle)
  PROVE  IInv'
  <1>1. Apart(t, Idle)
    BY ApartByNone DEF Idle
  <1>2. Underway(Idle)
    BY DEF Underway
  <1> QED
    BY <1>1, <1>2, IdleIsWork, GotoStep

-----------------------------------------------------------------------------
(* Steps that write *)

\* What every write of a record keeps to: it is dated with the new revision,
\* nothing is removed, and an ended execution or assignment is not touched.
Advance ==
    /\ revision' >= revision
    /\ approved \subseteq approved'
    /\ \A a \in Assignments :
          \/ assignments'[a] = assignments[a]
          \/ /\ revision' > revision
             /\ assignments'[a].ver = revision'
             /\ assignments'[a].status # "Absent"
             /\ assignments[a].status \notin Ended
    /\ \A x \in Executions :
          \/ executions'[x] = executions[x]
          \/ /\ revision' > revision
             /\ executions'[x].ver = revision'
             /\ executions'[x].status # "Absent"
             /\ executions'[x].assignment \in Assignments
             /\ executions[x].status \notin Ended
             /\ executions[x].status # "Absent" =>
                   executions'[x].assignment = executions[x].assignment

LEMMA AdvanceKeepsDates ==
  ASSUME TypeOK, TypeOK', WellDated, Advance
  PROVE  WellDated'
  <1>0. /\ revision \in Nat /\ revision' \in Nat
        /\ \A a \in Assignments : assignments[a].ver \in Nat
        /\ \A x \in Executions : executions[x].ver \in Nat
    BY RevisionIsNat DEF TypeOK
  <1>1. ASSUME NEW a \in Assignments
        PROVE  /\ assignments'[a].ver <= revision'
               /\ assignments'[a].status = "Absent" => assignments'[a] = NoAssignment
    BY <1>0 DEF WellDated, Advance
  <1>2. ASSUME NEW x \in Executions
        PROVE  /\ executions'[x].ver <= revision'
               /\ executions'[x].status = "Absent" => executions'[x] = NoExecution
               /\ executions'[x].status # "Absent" =>
                     executions'[x].assignment \in Assignments
    BY <1>0 DEF WellDated, Advance
  <1> QED
    BY <1>1, <1>2 DEF WellDated, NoAssignment, NoExecution

\* What a call relies on survives the writes of others.
LEMMA AdvanceKeepsCalls ==
  ASSUME TypeOK, TypeOK', WellDated, Advance, NEW w \in WorkType, Underway(w),
         w.call = "assign" => assignments'[w.a] = assignments[w.a]
  PROVE  Underway(w)'
  <1> USE RevisionIsNat
  <1>0. /\ revision \in Nat /\ revision' \in Nat
        /\ w.aver \in Nat /\ w.xver \in Nat
        /\ \A a \in Assignments : assignments[a].ver \in Nat
        /\ \A x \in Executions : executions[x].ver \in Nat
    BY DEF TypeOK, WorkType
  <1>1. CASE w = Idle
    BY <1>1 DEF Underway
  <1>2. CASE Assigning(w)
    BY <1>2 DEF Underway, Assigning
  <1>3. CASE Starting(w)
    BY <1>0, <1>3 DEF Underway, Starting, AssignmentAtVersion, Advance, WellDated
  <1>4. CASE Beating(w)
    BY <1>0, <1>4 DEF Underway, Beating, ExecutionAtVersion, Advance, WellDated
  <1>5. CASE Finishing(w)
    BY <1>0, <1>5 DEF Underway, Finishing, AssignmentAtVersion, Advance, WellDated
  <1>6. CASE Reviewing(w)
    BY <1>6 DEF Underway, Reviewing, Advance
  <1> QED
    BY <1>1, <1>2, <1>3, <1>4, <1>5, <1>6 DEF Underway

\* A commit ends the call of t; the others go on.
LEMMA CommitKeepsCalls ==
  ASSUME IInv, TypeOK', Advance, NEW t \in Workers, Return(t),
         \A u \in Workers \ {t} : work[u].call = "assign" =>
             assignments'[work[u].a] = assignments[work[u].a]
  PROVE  (\A u \in Workers : Underway(work[u]))' /\ FreshlyDrawn'
  <1> USE DEF IInv
  <1>1. work' = [work EXCEPT ![t] = Idle] /\ work \in [Workers -> WorkType]
    BY DEF Return, TypeOK
  <1>2. ASSUME NEW u \in Workers PROVE Underway(work[u])'
    <2>1. PICK v : v = IF u = t THEN Idle ELSE work[u]
      OBVIOUS
    <2>2. v \in WorkType /\ Underway(v) /\ work'[u] = v
      BY <1>1, <2>1, IdleIsWork DEF Underway
    <2>3. v.call = "assign" => assignments'[v.a] = assignments[v.a]
      BY <2>1 DEF Idle
    <2>4. Underway(v)'
      BY <2>2, <2>3, AdvanceKeepsCalls
    <2> QED
      BY <2>2, <2>4, SameCall
  <1>3. ASSUME NEW u \in Workers, NEW v \in Workers,
               work'[u].call = "assign", work'[v].a = work'[u].a
        PROVE  u = v
    <2>1. u # t /\ work'[u] = work[u]
      BY <1>1, <1>3 DEF Idle
    <2>2. work[u].a # None
      BY <2>1, <1>3, NoneIsNoRecord
      DEF Underway, Idle, Assigning, Starting, Beating, Finishing, Reviewing
    <2> QED
      BY <1>1, <1>3, <2>1, <2>2 DEF FreshlyDrawn, Idle
  <1> QED
    BY <1>2, <1>3 DEF FreshlyDrawn

-----------------------------------------------------------------------------
(* Every step advances *)

\* What the commit of each call found; the version that matches makes the
\* status that was read the present one.
LEMMA AtCommit ==
  ASSUME IInv, NEW t \in Workers, work[t].pc = "commit"
  PROVE  /\ work[t].call = "assign" => Assigning(work[t])
         /\ work[t].call = "start" => Starting(work[t])
         /\ work[t].call = "heartbeat" => Beating(work[t])
         /\ work[t].call = "finish" => Finishing(work[t])
         /\ work[t].call = "review" => Reviewing(work[t])
  BY DEF IInv, Underway, Idle, Assigning, Starting, Beating, Finishing, Reviewing

LEMMA Still ==
  ASSUME TypeOK, UNCHANGED <<revision, approved, assignments, executions>>
  PROVE  Advance
  BY RevisionIsNat DEF TypeOK, Advance

LEMMA GotoAdvances ==
  ASSUME TypeOK, NEW t \in Workers, NEW w, Goto(t, w)
  PROVE  Advance
  BY Still DEF Goto, store

LEMMA WriteIsNewer ==
  ASSUME TypeOK, LogWrite
  PROVE  revision' > revision /\ revision' >= revision /\ revision' = Stamp
  BY MaxRevisionIsNat DEF TypeOK, Revision, LogWrite, Stamp

LEMMA Advances ==
  ASSUME IInv, [Next]_vars
  PROVE  Advance
  <1> USE DEF IInv
  <1>1. CASE UNCHANGED vars
    BY <1>1, Still DEF vars
  <1>2. CASE OtherWrite
    BY <1>2, WriteIsNewer DEF OtherWrite, Advance
  <1>3. ASSUME NEW t \in Workers, WorkerStep(t)
        PROVE  Advance
    <2> DEFINE w == work[t]
    <2>1. CASE CommitAssign(t)
      BY <2>1, AtCommit, WriteIsNewer
      DEF CommitAssign, Assigning, NoAssignment, Advance, TypeOK, Ended
    <2>2. CASE CommitStart(t)
      <3>1. Starting(w) /\ assignments[w.a].status = "Pending"
            /\ executions[w.x].status = "Absent"
        BY <2>2, AtCommit DEF CommitStart, Starting, ExecutionIsNew
      <3> QED
        BY <3>1, <2>2, WriteIsNewer DEF CommitStart, Starting, Advance, TypeOK, Ended
    <2>3. CASE CommitHeartbeat(t)
      <3>1. Beating(w) /\ executions[w.x].status = "Started"
        BY <2>3, AtCommit DEF CommitHeartbeat, Beating
      <3> QED
        BY <3>1, <2>3, WriteIsNewer
        DEF CommitHeartbeat, Beating, Advance, TypeOK, Ended, WellDated
    <2>4. CASE CommitFinish(t)
      <3>1. Finishing(w) /\ assignments[w.a].status = "Active"
        BY <2>4, AtCommit DEF CommitFinish, Finishing, FinishHolds
      <3>2. executions[w.x].status = "Started"
        <4>1. /\ w.x \in Executions
              /\ executions[w.x].status # "Absent"
              /\ assignments[executions[w.x].assignment].status = "Active"
          BY <3>1 DEF Finishing
        <4>2. "Active" = IF executions[w.x].status = "Started"
                           THEN "Active" ELSE executions[w.x].status
          BY <4>1 DEF InStep
        <4>3. executions[w.x].status \in ExecutionStatus
          BY <4>1 DEF TypeOK
        <4> QED
          BY <4>2, <4>3 DEF ExecutionStatus, Ended
      <3> QED
        BY <3>1, <3>2, <2>4, WriteIsNewer
        DEF CommitFinish, Finishing, Advance, TypeOK, Ended
    <2>5. CASE CommitReview(t)
      BY <2>5, WriteIsNewer DEF CommitReview, Advance
    <2>6. ASSUME NEW a \in Assignments, NEW p \in Proposals \cup {None},
                 BeginAssign(t, a, p)
          PROVE  Advance
      BY <2>6, GotoAdvances DEF BeginAssign
    <2>7. ASSUME NEW a \in Assignments, NEW x \in Executions, BeginStart(t, a, x)
          PROVE  Advance
      BY <2>7, GotoAdvances DEF BeginStart
    <2>8. ASSUME NEW x \in Executions,
                 \/ BeginHeartbeat(t, x)
                 \/ \E s \in Outcomes, o \in Results \cup {None} :
                       BeginFinish(t, x, s, o)
                 \/ \E base \in Revision : BeginReview(t, x, base)
          PROVE  Advance
      BY <2>8, GotoAdvances DEF BeginHeartbeat, BeginFinish, BeginReview
    <2>9. CASE \/ ReadHeartbeat(t) \/ ReadExecutionVersion(t)
               \/ ReadAssignmentVersion(t) \/ ReadAssignment(t)
               \/ Refuse(t) \/ Abandon(t)
      BY <2>9, GotoAdvances
      DEF ReadHeartbeat, ReadExecutionVersion, ReadAssignmentVersion,
          ReadAssignment, Refuse, Abandon
    <2> QED
      BY <1>3, <2>1, <2>2, <2>3, <2>4, <2>5, <2>6, <2>7, <2>8, <2>9 DEF WorkerStep
  <1> QED
    BY <1>1, <1>2, <1>3 DEF Next, Step

-----------------------------------------------------------------------------
(* Reads preserve the invariant *)

LEMMA BeginAssignStep ==
  ASSUME IInv, NEW t \in Workers, NEW a \in Assignments,
         NEW p \in Proposals \cup {None}, BeginAssign(t, a, p)
  PROVE  IInv'
  <1> DEFINE w == [Idle EXCEPT !.call = "assign", !.pc = "commit", !.a = a, !.p = p]
  <1>1. w \in WorkType
    BY RevisionIsNat DEF Idle, WorkType
  <1>2. Underway(w)
    BY DEF BeginAssign, Underway, Assigning, Idle
  <1>3. Apart(t, w)
    BY DEF BeginAssign, Apart, Idle
  <1>4. Goto(t, w)
    BY DEF BeginAssign
  <1> QED
    BY <1>1, <1>2, <1>3, <1>4, GotoStep

LEMMA BeginStartStep ==
  ASSUME IInv, NEW t \in Workers, NEW a \in Assignments, NEW x \in Executions,
         BeginStart(t, a, x)
  PROVE  IInv'
  <1> DEFINE w == [Idle EXCEPT !.call = "start", !.pc = "aver", !.a = a, !.x = x]
  <1>1. w \in WorkType
    BY RevisionIsNat DEF Idle, WorkType
  <1>2. Underway(w)
    BY DEF BeginStart, Underway, Starting, Idle
  <1>3. Apart(t, w)
    <2>1. w.call # "assign" /\ assignments[w.a].status # "Absent"
      BY DEF BeginStart, Idle
    <2> QED
      BY <2>1, ApartByStatus
  <1>4. Goto(t, w)
    BY DEF BeginStart
  <1> QED
    BY <1>1, <1>2, <1>3, <1>4, GotoStep

LEMMA BeginHeartbeatStep ==
  ASSUME IInv, NEW t \in Workers, NEW x \in Executions, BeginHeartbeat(t, x)
  PROVE  IInv'
  <1> DEFINE w == [Idle EXCEPT !.call = "heartbeat", !.pc = "execution", !.x = x,
                               !.xver = executions[x].ver]
  <1>0. executions[x].ver \in Revision
    BY DEF IInv, TypeOK
  <1>1. w \in WorkType
    BY <1>0, RevisionIsNat DEF Idle, WorkType
  <1>2. Underway(w)
    BY <1>0, RevisionIsNat DEF BeginHeartbeat, Underway, Beating, Idle
  <1>3. Apart(t, w)
    <2>1. w.call # "assign" /\ w.a = None
      BY DEF Idle
    <2> QED
      BY <2>1, ApartByNone
  <1>4. Goto(t, w)
    BY DEF BeginHeartbeat
  <1> QED
    BY <1>1, <1>2, <1>3, <1>4, GotoStep

\* An execution that was started belongs to an assignment that is there.
LEMMA StartedIsAssigned ==
  ASSUME IInv, NEW x \in Executions, executions[x].status # "Absent"
  PROVE  /\ executions[x].assignment \in Assignments
         /\ assignments[executions[x].assignment].status # "Absent"
  <1>1. executions[x].assignment \in Assignments
    BY DEF IInv, WellDated
  <1>2. RunsOf(executions[x].assignment) # {}
    BY DEF RunsOf
  <1> QED
    BY <1>1, <1>2 DEF IInv, InStep

LEMMA BeginFinishStep ==
  ASSUME IInv, NEW t \in Workers, NEW x \in Executions, NEW s \in Outcomes,
         NEW o \in Results \cup {None}, BeginFinish(t, x, s, o)
  PROVE  IInv'
  <1> DEFINE w == [Idle EXCEPT !.call = "finish", !.pc = "xver", !.x = x,
                               !.a = executions[x].assignment, !.to = s, !.o = o]
  <1>0. /\ executions[x].assignment \in Assignments
        /\ assignments[executions[x].assignment].status # "Absent"
        /\ executions[x].status = "Started"
    BY StartedIsAssigned DEF BeginFinish
  <1>1. w \in WorkType
    BY <1>0, RevisionIsNat DEF Idle, WorkType, Outcomes
  <1>2. Underway(w)
    BY <1>0 DEF BeginFinish, Underway, Finishing, Idle, Outcomes
  <1>3. Apart(t, w)
    <2>1. w.call # "assign" /\ assignments[w.a].status # "Absent"
      BY <1>0 DEF Idle
    <2> QED
      BY <2>1, ApartByStatus
  <1>4. Goto(t, w)
    BY DEF BeginFinish
  <1> QED
    BY <1>1, <1>2, <1>3, <1>4, GotoStep

LEMMA BeginReviewStep ==
  ASSUME IInv, NEW t \in Workers, NEW x \in Executions, NEW base \in Revision,
         BeginReview(t, x, base)
  PROVE  IInv'
  <1> DEFINE w == [Idle EXCEPT !.call = "review", !.pc = "commit", !.x = x,
                               !.base = base]
  <1>1. w \in WorkType
    BY RevisionIsNat DEF Idle, WorkType
  <1>2. Underway(w)
    BY DEF BeginReview, Underway, Reviewing, Idle
  <1>3. Apart(t, w)
    <2>1. w.call # "assign" /\ w.a = None
      BY DEF Idle
    <2> QED
      BY <2>1, ApartByNone
  <1>4. Goto(t, w)
    BY DEF BeginReview
  <1> QED
    BY <1>1, <1>2, <1>3, <1>4, GotoStep

\* A call that goes on and is in order after its read.
LEMMA ContinueStep ==
  ASSUME IInv, NEW t \in Workers, NEW w \in WorkType, Goto(t, w), Underway(w),
         w.call = work[t].call, w.a = work[t].a
  PROVE  IInv'
  BY ApartBySame, GotoStep

\* Which calls take which reads.
LEMMA AtRead ==
  ASSUME IInv, NEW t \in Workers
  PROVE  /\ work[t] \in WorkType
         /\ work[t].pc = "execution" => Beating(work[t])
         /\ work[t].pc = "xver" => Finishing(work[t])
         /\ work[t].pc \in {"aver", "assignment"} =>
               Starting(work[t]) \/ Finishing(work[t])
  BY DEF IInv, TypeOK, Underway, Idle, Assigning, Starting, Beating, Finishing,
         Reviewing

LEMMA ReadHeartbeatStep ==
  ASSUME IInv, NEW t \in Workers, ReadHeartbeat(t)
  PROVE  IInv'
  <1>1. CASE executions[work[t].x].status = "Started"
    <2> DEFINE w == [work[t] EXCEPT !.pc = "commit"]
    <2>1. Goto(t, w) /\ work[t].pc = "execution"
      BY <1>1 DEF ReadHeartbeat
    <2>2. w \in WorkType /\ w.call = work[t].call /\ w.a = work[t].a
      BY AtRead DEF WorkType
    <2>3. Underway(w)
      BY <1>1, <2>1, AtRead DEF Underway, Beating, WorkType
    <2> QED
      BY <2>1, <2>2, <2>3, ContinueStep
  <1>2. CASE executions[work[t].x].status # "Started"
    BY <1>2, IdleStep DEF ReadHeartbeat
  <1> QED
    BY <1>1, <1>2

LEMMA ReadExecutionVersionStep ==
  ASSUME IInv, NEW t \in Workers, ReadExecutionVersion(t)
  PROVE  IInv'
  <1> DEFINE w == [work[t] EXCEPT !.pc = "aver", !.xver = executions[work[t].x].ver]
  <1>1. Goto(t, w) /\ Finishing(work[t]) /\ work[t] \in WorkType
    BY AtRead DEF ReadExecutionVersion
  <1>2. executions[work[t].x].ver \in Revision
    BY <1>1 DEF IInv, TypeOK, Finishing
  <1>3. w \in WorkType /\ w.call = work[t].call /\ w.a = work[t].a
    BY <1>1, <1>2 DEF WorkType
  <1>4. Underway(w)
    BY <1>1 DEF Underway, Finishing, WorkType
  <1> QED
    BY <1>1, <1>3, <1>4, ContinueStep

LEMMA ReadAssignmentVersionStep ==
  ASSUME IInv, NEW t \in Workers, ReadAssignmentVersion(t)
  PROVE  IInv'
  <1> DEFINE w == [work[t] EXCEPT !.pc = "assignment",
                                  !.aver = assignments[work[t].a].ver]
  <1>1. /\ Goto(t, w) /\ work[t] \in WorkType
        /\ Starting(work[t]) \/ Finishing(work[t])
    BY AtRead DEF ReadAssignmentVersion
  <1>2. assignments[work[t].a].ver \in Revision
    BY <1>1 DEF IInv, TypeOK, Starting, Finishing
  <1>3. w \in WorkType /\ w.call = work[t].call /\ w.a = work[t].a
    BY <1>1, <1>2 DEF WorkType
  <1>4. assignments[work[t].a].ver <= assignments[work[t].a].ver
    <2>1. \A n \in Revision : n <= n
      BY RevisionIsNat
    <2> QED
      BY <1>2, <2>1
  <1>5. Starting(w) \/ Finishing(w)
    BY <1>1, <1>4 DEF Starting, Finishing, WorkType
  <1> QED
    BY <1>1, <1>3, <1>5, ContinueStep DEF Underway

LEMMA ReadAssignmentStep ==
  ASSUME IInv, NEW t \in Workers, ReadAssignment(t)
  PROVE  IInv'
  <1>1. CASE assignments[work[t].a].status \in Needed(work[t])
    <2> DEFINE w == [work[t] EXCEPT !.pc = "commit"]
    <2>1. /\ Goto(t, w) /\ work[t] \in WorkType /\ work[t].pc = "assignment"
          /\ Starting(work[t]) \/ Finishing(work[t])
      BY <1>1, AtRead DEF ReadAssignment
    <2>2. w \in WorkType /\ w.call = work[t].call /\ w.a = work[t].a
      BY <2>1 DEF WorkType
    <2>3. Starting(w) \/ Finishing(w)
      BY <1>1, <2>1 DEF Starting, Finishing, WorkType, Needed
    <2> QED
      BY <2>1, <2>2, <2>3, ContinueStep DEF Underway
  <1>2. CASE assignments[work[t].a].status \notin Needed(work[t])
    BY <1>2, IdleStep DEF ReadAssignment
  <1> QED
    BY <1>1, <1>2

-----------------------------------------------------------------------------
(* Commits preserve the invariant *)

LEMMA CommitStep ==
  ASSUME IInv, TypeOK', Advance, NEW t \in Workers, Return(t),
         \A u \in Workers \ {t} : work[u].call = "assign" =>
             assignments'[work[u].a] = assignments[work[u].a],
         SoleExecution', InStep', ResultChain', ReviewedAfterEnd'
  PROVE  IInv'
  BY CommitKeepsCalls, AdvanceKeepsDates DEF IInv

\* Who has an identifier drawn for a new assignment finds nothing stored.
LEMMA DrawnIsAbsent ==
  ASSUME IInv, NEW u \in Workers, work[u].call = "assign"
  PROVE  work[u].a \in Assignments /\ assignments[work[u].a] = NoAssignment
  BY DEF IInv, Underway, Idle, Assigning, Starting, Beating, Finishing, Reviewing

LEMMA CommitAssignStep ==
  ASSUME IInv, TypeOK', Advance, NEW t \in Workers, CommitAssign(t)
  PROVE  IInv'
  <1> DEFINE w == work[t]
  <1>1. w.a \in Assignments /\ assignments[w.a] = NoAssignment
    BY DrawnIsAbsent DEF CommitAssign
  <1>2. /\ assignments' = [assignments EXCEPT
              ![w.a] = [status |-> "Pending", proposal |-> w.p, ver |-> Stamp]]
        /\ Return(t)
        /\ UNCHANGED <<executions, results, noted>>
        /\ assignments \in [Assignments -> [status : AssignmentStatus,
                                            proposal : Proposals \cup {None},
                                            ver : Revision]]
    BY DEF CommitAssign, IInv, TypeOK
  <1>3. \A u \in Workers \ {t} : work[u].call = "assign" =>
             assignments'[work[u].a] = assignments[work[u].a]
    BY <1>2, DrawnIsAbsent DEF IInv, FreshlyDrawn, CommitAssign
  <1>4. InStep'
    <2>1. \A a \in Assignments : RunsOf(a)' = RunsOf(a)
      BY <1>2 DEF RunsOf
    <2>2. \A a \in Assignments :
             assignments'[a].status \in {"Absent", "Pending"} <=> RunsOf(a) = {}
      BY <1>1, <1>2 DEF IInv, InStep, NoAssignment
    <2>3. ASSUME NEW x \in Executions, executions[x].status # "Absent"
          PROVE  assignments'[executions[x].assignment].status =
                     assignments[executions[x].assignment].status
      BY <1>1, <1>2, <2>3, StartedIsAssigned DEF NoAssignment
    <2> QED
      BY <1>2, <2>1, <2>2, <2>3 DEF IInv, InStep
  <1>5. SoleExecution' /\ ResultChain' /\ ReviewedAfterEnd'
    BY <1>2 DEF IInv, SoleExecution, ResultChain, ReviewedAfterEnd
  <1> QED
    BY <1>2, <1>3, <1>4, <1>5, CommitStep

LEMMA CommitStartStep ==
  ASSUME IInv, TypeOK', Advance, NEW t \in Workers, CommitStart(t)
  PROVE  IInv'
  <1>0. PICK w : w = work[t]
    OBVIOUS
  <1>1. /\ w.a \in Assignments /\ w.x \in Executions
        /\ assignments[w.a].status = "Pending"
        /\ executions[w.x] = NoExecution
    BY <1>0, AtCommit DEF CommitStart, Starting, ExecutionIsNew, IInv, WellDated
  <1>2. RunsOf(w.a) = {}
    BY <1>1 DEF IInv, InStep
  <1>3. /\ executions' = [executions EXCEPT
              ![w.x] = [status |-> "Started", assignment |-> w.a,
                        result |-> None, ver |-> Stamp]]
        /\ Return(t)
        /\ UNCHANGED <<results, noted>>
        /\ \A x \in Executions : x # w.x => executions'[x] = executions[x]
        /\ executions'[w.x].status = "Started"
        /\ executions'[w.x].assignment = w.a
        /\ executions'[w.x].result = None
    BY <1>0, <1>1 DEF CommitStart, IInv, TypeOK
  <1>4. /\ assignments'[w.a].status = "Active"
        /\ \A a \in Assignments : a # w.a => assignments'[a] = assignments[a]
    BY <1>0, <1>1 DEF CommitStart, IInv, TypeOK
  <1>5. \A u \in Workers \ {t} : work[u].call = "assign" =>
             assignments'[work[u].a] = assignments[work[u].a]
    BY <1>1, <1>4, DrawnIsAbsent DEF NoAssignment
  <1>6. \A x \in Executions : executions[x].assignment # w.a
    BY <1>2 DEF RunsOf
  <1>7. SoleExecution'
    BY <1>1, <1>3, <1>6 DEF IInv, SoleExecution
  <1>8. InStep'
    <2>1. RunsOf(w.a)' # {}
      BY <1>1, <1>3 DEF RunsOf
    <2>2. ASSUME NEW a \in Assignments, a # w.a
          PROVE  RunsOf(a)' = RunsOf(a)
      BY <1>1, <1>3, <2>2, NoneIsNoRecord DEF RunsOf, NoExecution
    <2>3. \A a \in Assignments :
             assignments'[a].status \in {"Absent", "Pending"} <=> RunsOf(a)' = {}
      BY <1>1, <1>4, <2>1, <2>2 DEF IInv, InStep
    <2>4. ASSUME NEW x \in Executions, executions'[x].status # "Absent"
          PROVE  assignments'[executions'[x].assignment].status =
                    IF executions'[x].status = "Started" THEN "Active"
                                                         ELSE executions'[x].status
      <3>1. CASE x = w.x
        BY <1>3, <1>4, <3>1
      <3>2. CASE x # w.x
        <4>1. executions'[x] = executions[x] /\ executions[x].assignment \in Assignments
              /\ executions[x].assignment # w.a
          BY <1>3, <1>6, <2>4, <3>2, StartedIsAssigned
        <4> QED
          BY <1>4, <2>4, <4>1 DEF IInv, InStep
      <3> QED
        BY <3>1, <3>2
    <2> QED
      BY <2>3, <2>4 DEF InStep
  <1>9. ResultChain'
    BY <1>1, <1>3, NoneIsNoRecord DEF IInv, ResultChain, NoExecution, NeedsResult
  <1>10. ReviewedAfterEnd'
    BY <1>1, <1>3 DEF IInv, ReviewedAfterEnd, NoExecution, Ended
  <1> QED
    BY <1>3, <1>5, <1>7, <1>8, <1>9, <1>10, CommitStep

LEMMA CommitHeartbeatStep ==
  ASSUME IInv, TypeOK', Advance, NEW t \in Workers, CommitHeartbeat(t)
  PROVE  IInv'
  <1>0. PICK w : w = work[t]
    OBVIOUS
  <1>1. w.x \in Executions /\ executions[w.x].status = "Started"
    BY <1>0, AtCommit DEF CommitHeartbeat, Beating
  <1>2. /\ Return(t)
        /\ UNCHANGED <<assignments, results, noted>>
        /\ \A x \in Executions :
              /\ executions'[x].status = executions[x].status
              /\ executions'[x].assignment = executions[x].assignment
              /\ executions'[x].result = executions[x].result
              /\ x # w.x => executions'[x] = executions[x]
    BY <1>0, <1>1 DEF CommitHeartbeat, IInv, TypeOK
  <1>3. \A a \in Assignments : RunsOf(a)' = RunsOf(a)
    BY <1>2 DEF RunsOf
  <1>4. InStep'
    BY <1>2, <1>3 DEF IInv, InStep
  <1>5. SoleExecution' /\ ResultChain'
    BY <1>2 DEF IInv, SoleExecution, ResultChain
  <1>6. ReviewedAfterEnd'
    BY <1>1, <1>2 DEF IInv, ReviewedAfterEnd, Ended
  <1> QED
    BY <1>2, <1>4, <1>5, <1>6, CommitStep

LEMMA CommitFinishStep ==
  ASSUME IInv, TypeOK', Advance, NEW t \in Workers, CommitFinish(t)
  PROVE  IInv'
  <1>0. PICK w : w = work[t]
    OBVIOUS
  <1>1. /\ w.a \in Assignments /\ w.x \in Executions /\ w.to \in Ended
        /\ (w.o # None) <=> (w.to \in NeedsResult)
        /\ executions[w.x].assignment = w.a
        /\ executions[w.x].status # "Absent"
        /\ assignments[w.a].status = "Active"
    BY <1>0, AtCommit DEF CommitFinish, Finishing, FinishHolds
  <1>2. executions[w.x].status = "Started"
    <2>1. "Active" = IF executions[w.x].status = "Started"
                       THEN "Active" ELSE executions[w.x].status
      BY <1>1 DEF IInv, InStep
    <2>2. executions[w.x].status \in ExecutionStatus
      BY <1>1 DEF IInv, TypeOK
    <2> QED
      BY <2>1, <2>2 DEF ExecutionStatus, Ended
  <1>3. w.o \in Results \cup {None} /\ (w.o # None => results[w.o] = None)
    BY <1>0 DEF CommitFinish, FinishHolds, ResultIsNew, IInv, TypeOK, WorkType
  <1>4. /\ Return(t)
        /\ UNCHANGED noted
        /\ \A x \in Executions : x # w.x => executions'[x] = executions[x]
        /\ executions'[w.x].status = w.to
        /\ executions'[w.x].assignment = w.a
        /\ executions'[w.x].result = w.o
    BY <1>0, <1>1 DEF CommitFinish, IInv, TypeOK
  <1>5. /\ assignments'[w.a].status = w.to
        /\ \A a \in Assignments : a # w.a => assignments'[a] = assignments[a]
    BY <1>0, <1>1 DEF CommitFinish, IInv, TypeOK
  <1>6. \A o \in Results : results'[o] = IF o = w.o THEN w.x ELSE results[o]
    BY <1>0 DEF CommitFinish, FileResult
  <1>7. \A u \in Workers \ {t} : work[u].call = "assign" =>
             assignments'[work[u].a] = assignments[work[u].a]
    BY <1>1, <1>5, DrawnIsAbsent DEF NoAssignment
  <1>8. \A x \in Executions : executions'[x].assignment = executions[x].assignment
    BY <1>1, <1>4
  <1>9. SoleExecution'
    BY <1>1, <1>2, <1>4, <1>8 DEF IInv, SoleExecution
  <1>10. \A x \in Executions : executions[x].assignment = w.a => x = w.x
    BY <1>1, <1>2 DEF IInv, SoleExecution
  <1>11. InStep'
    <2>1. \A a \in Assignments : RunsOf(a)' = RunsOf(a)
      BY <1>8 DEF RunsOf
    <2>2. \A a \in Assignments :
             assignments'[a].status \in {"Absent", "Pending"} <=> RunsOf(a)' = {}
      BY <1>1, <1>5, <2>1 DEF IInv, InStep, Ended
    <2>3. ASSUME NEW x \in Executions, executions'[x].status # "Absent"
          PROVE  assignments'[executions'[x].assignment].status =
                    IF executions'[x].status = "Started" THEN "Active"
                                                         ELSE executions'[x].status
      <3>1. CASE x = w.x
        BY <1>1, <1>4, <1>5, <3>1 DEF Ended
      <3>2. CASE x # w.x
        <4>1. /\ executions'[x] = executions[x]
              /\ executions[x].assignment \in Assignments
              /\ executions[x].assignment # w.a
          BY <1>4, <1>10, <2>3, <3>2, StartedIsAssigned
        <4> QED
          BY <1>5, <2>3, <4>1 DEF IInv, InStep
      <3> QED
        BY <3>1, <3>2
    <2> QED
      BY <2>2, <2>3 DEF InStep
  <1>12. ResultChain'
    <2>1. executions[w.x].result = None /\ \A o \in Results : results[o] # w.x
      BY <1>1, <1>2, NoneIsNoRecord DEF IInv, ResultChain, NeedsResult
    <2>2. ASSUME NEW x \in Executions
          PROVE  (executions'[x].result # None) <=> (executions'[x].status \in NeedsResult)
      BY <1>1, <1>4 DEF IInv, ResultChain
    <2>3. ASSUME NEW o \in Results, NEW x \in Executions
          PROVE  (results'[o] = x) <=> (executions'[x].result = o)
      <3>1. CASE x = w.x
        BY <1>4, <1>6, <2>1, <3>1
      <3>2. CASE x # w.x /\ o = w.o
        BY <1>3, <1>4, <1>6, <3>2, NoneIsNoRecord DEF IInv, ResultChain
      <3>3. CASE x # w.x /\ o # w.o
        BY <1>4, <1>6, <3>3 DEF IInv, ResultChain
      <3> QED
        BY <3>1, <3>2, <3>3
    <2> QED
      BY <2>2, <2>3 DEF ResultChain
  <1>13. ReviewedAfterEnd'
    BY <1>1, <1>2, <1>4 DEF IInv, ReviewedAfterEnd, Ended
  <1> QED
    BY <1>4, <1>7, <1>9, <1>11, <1>12, <1>13, CommitStep

LEMMA CommitReviewStep ==
  ASSUME IInv, TypeOK', Advance, NEW t \in Workers, CommitReview(t)
  PROVE  IInv'
  <1>0. PICK w : w = work[t]
    OBVIOUS
  <1>1. w.x \in Executions /\ executions[w.x].status \in Ended /\ w.base = revision
    BY <1>0, AtCommit DEF CommitReview, Reviewing, AtRevision
  <1>2. Return(t) /\ UNCHANGED <<assignments, executions, results>>
    BY DEF CommitReview
  <1>3. /\ \A x \in Executions : x # w.x => noted'[x] = noted[x]
        /\ noted'[w.x] = noted[w.x] \cup {w.base}
    BY <1>0, <1>1 DEF CommitReview, IInv, TypeOK
  <1>4. InStep' /\ SoleExecution' /\ ResultChain'
    BY <1>2 DEF IInv, InStep, RunsOf, SoleExecution, ResultChain
  <1>5. ReviewedAfterEnd'
    BY <1>1, <1>2, <1>3 DEF IInv, ReviewedAfterEnd, WellDated
  <1> QED
    BY <1>2, <1>4, <1>5, CommitStep

-----------------------------------------------------------------------------
(* The theorems *)

LEMMA InitInvariant == Init => IInv
  <1> SUFFICES ASSUME Init PROVE IInv
    OBVIOUS
  <1> USE DEF Init
  <1>1. TypeOK
    BY IdleIsWork, RevisionIsNat
    DEF TypeOK, NoAssignment, NoExecution, AssignmentStatus, ExecutionStatus
  <1>2. WellDated /\ SoleExecution /\ ReviewedAfterEnd
    BY DEF WellDated, NoAssignment, NoExecution, SoleExecution, ReviewedAfterEnd
  <1>3. InStep
    BY NoneIsNoRecord DEF InStep, RunsOf, NoAssignment, NoExecution
  <1>4. ResultChain
    BY NoneIsNoRecord DEF ResultChain, NoExecution, NeedsResult
  <1>5. (\A t \in Workers : Underway(work[t])) /\ FreshlyDrawn
    BY DEF Underway, FreshlyDrawn, Idle
  <1> QED
    BY <1>1, <1>2, <1>3, <1>4, <1>5 DEF IInv

LEMMA StepInvariant ==
  ASSUME IInv, [Next]_vars
  PROVE  IInv'
  <1>1. TypeOK' /\ Advance
    BY TypeStep, Advances DEF IInv
  <1>2. CASE UNCHANGED vars
    BY <1>2
    DEF vars, IInv, TypeOK, WellDated, SoleExecution, InStep, RunsOf, ResultChain,
        ReviewedAfterEnd, Underway, Assigning, Starting, Beating, Finishing,
        Reviewing, AssignmentAtVersion, ExecutionAtVersion, FreshlyDrawn
  <1>3. CASE OtherWrite
    <2>1. UNCHANGED <<assignments, executions, results, noted, work>>
      BY <1>3 DEF OtherWrite
    <2>2. SoleExecution' /\ InStep' /\ ResultChain' /\ ReviewedAfterEnd' /\ FreshlyDrawn'
      BY <2>1 DEF IInv, SoleExecution, InStep, RunsOf, ResultChain,
                  ReviewedAfterEnd, FreshlyDrawn
    <2>3. WellDated'
      BY <1>1, AdvanceKeepsDates DEF IInv
    <2>4. (\A u \in Workers : Underway(work[u]))'
      BY <2>1 DEF IInv, Underway, Assigning, Starting, Beating, Finishing,
                  Reviewing, AssignmentAtVersion, ExecutionAtVersion
    <2> QED
      BY <1>1, <2>2, <2>3, <2>4 DEF IInv
  <1>4. ASSUME NEW t \in Workers, WorkerStep(t)
        PROVE  IInv'
    <2>1. CASE \/ CommitAssign(t) \/ CommitStart(t) \/ CommitHeartbeat(t)
               \/ CommitFinish(t) \/ CommitReview(t)
      BY <1>1, <2>1, CommitAssignStep, CommitStartStep, CommitHeartbeatStep,
         CommitFinishStep, CommitReviewStep
    <2>2. CASE \/ ReadHeartbeat(t) \/ ReadExecutionVersion(t)
               \/ ReadAssignmentVersion(t) \/ ReadAssignment(t)
      BY <2>2, ReadHeartbeatStep, ReadExecutionVersionStep,
         ReadAssignmentVersionStep, ReadAssignmentStep
    <2>3. CASE Refuse(t) \/ Abandon(t)
      BY <2>3, IdleStep DEF Refuse, Abandon
    <2> QED
      BY <1>4, <2>1, <2>2, <2>3, BeginAssignStep, BeginStartStep,
         BeginHeartbeatStep, BeginFinishStep, BeginReviewStep DEF WorkerStep
  <1> QED
    BY <1>2, <1>3, <1>4 DEF Next, Step

THEOREM Invariance == Spec => []IInv
  <1>1. Init => IInv
    BY InitInvariant
  <1>2. IInv /\ [Next]_vars => IInv'
    BY StepInvariant
  <1> QED
    BY <1>1, <1>2, PTL DEF Spec

\* Every variable keeps its type.
THEOREM TypeCorrect == Spec => []TypeOK
  <1>1. IInv => TypeOK
    BY DEF IInv
  <1> QED
    BY <1>1, Invariance, PTL

\* start_execution never leaves an assignment with two executions.
THEOREM OneExecutionPerAssignment == Spec => []SoleExecution
  <1>1. IInv => SoleExecution
    BY DEF IInv
  <1> QED
    BY <1>1, Invariance, PTL

\* Assignment and execution never disagree on how far the work is.
THEOREM MoveTogether == Spec => []InStep
  <1>1. IInv => InStep
    BY DEF IInv
  <1> QED
    BY <1>1, Invariance, PTL

\* Results and the executions that cite them match one to one.
THEOREM ResultsAreCited == Spec => []ResultChain
  <1>1. IInv => ResultChain
    BY DEF IInv
  <1> QED
    BY <1>1, Invariance, PTL

\* The four together: assignments, executions and results are one chain.
THEOREM ChainHolds == Spec => []OneChain
  <1>1. IInv => OneChain
    BY DEF IInv, OneChain
  <1> QED
    BY <1>1, Invariance, PTL

\* A stored execution review was written on a context that had the outcome.
THEOREM ReviewsAreInformed == Spec => []ReviewedAfterEnd
  <1>1. IInv => ReviewedAfterEnd
    BY DEF IInv
  <1> QED
    BY <1>1, Invariance, PTL

\* The first terminal outcome stands, whatever else is in flight.
THEOREM OutcomeIsFinal == Spec => EndedForever
  <1>1. IInv /\ [Next]_vars =>
          [/\ \A x \in Executions :
                 executions[x].status \in Ended => executions'[x] = executions[x]
           /\ \A a \in Assignments :
                 assignments[a].status \in Ended => assignments'[a] = assignments[a]]_vars
    BY Advances DEF Advance
  <1> QED
    BY <1>1, Invariance, PTL DEF Spec, EndedForever

-----------------------------------------------------------------------------
(* ExecutionStore implements ExecutionLifecycle *)

Phase == [a \in Assignments |-> assignments[a].status]
Runs == [a \in Assignments |-> RunsOf(a)]
Output == [a \in Assignments |-> {o \in Results : results[o] \in RunsOf(a)}]

\* A step that moves no status, starts nothing and files nothing stutters.
LEMMA Stutter ==
  ASSUME \A a \in Assignments : assignments'[a].status = assignments[a].status,
         \A x \in Executions : executions'[x].assignment = executions[x].assignment,
         UNCHANGED results
  PROVE  UNCHANGED <<Phase, Runs, Output>>
  <1>1. \A a \in Assignments : RunsOf(a)' = RunsOf(a)
    BY DEF RunsOf
  <1> QED
    BY <1>1 DEF Phase, Runs, Output

LEMMA GotoStutters ==
  ASSUME NEW t \in Workers, NEW w, Goto(t, w)
  PROVE  UNCHANGED <<Phase, Runs, Output>>
  BY Stutter DEF Goto, store

LEMMA AssignRefines ==
  ASSUME IInv, NEW t \in Workers, CommitAssign(t)
  PROVE  \E a \in Assignments :
            /\ Phase[a] = "Absent"
            /\ Phase' = [Phase EXCEPT ![a] = "Pending"]
            /\ UNCHANGED <<Runs, Output>>
  <1>0. PICK w : w = work[t]
    OBVIOUS
  <1>1. w.a \in Assignments /\ assignments[w.a].status = "Absent"
    BY <1>0, DrawnIsAbsent DEF CommitAssign, NoAssignment
  <1>2. /\ UNCHANGED <<executions, results>>
        /\ assignments'[w.a].status = "Pending"
        /\ \A a \in Assignments : a # w.a => assignments'[a] = assignments[a]
    BY <1>0, <1>1 DEF CommitAssign, IInv, TypeOK
  <1>3. UNCHANGED <<Runs, Output>>
    BY <1>2 DEF Runs, Output, RunsOf
  <1>4. Phase' = [Phase EXCEPT ![w.a] = "Pending"]
    BY <1>1, <1>2 DEF Phase
  <1> QED
    BY <1>1, <1>3, <1>4 DEF Phase

LEMMA StartRefines ==
  ASSUME IInv, NEW t \in Workers, CommitStart(t)
  PROVE  \E a \in Assignments, x \in Executions :
            /\ Phase[a] = "Pending"
            /\ Phase' = [Phase EXCEPT ![a] = "Active"]
            /\ Runs' = [Runs EXCEPT ![a] = {x}]
            /\ UNCHANGED Output
  <1>0. PICK w : w = work[t]
    OBVIOUS
  <1>1. /\ w.a \in Assignments /\ w.x \in Executions
        /\ assignments[w.a].status = "Pending"
        /\ executions[w.x] = NoExecution
    BY <1>0, AtCommit DEF CommitStart, Starting, ExecutionIsNew, IInv, WellDated
  <1>2. /\ UNCHANGED results
        /\ \A x \in Executions : x # w.x => executions'[x] = executions[x]
        /\ executions'[w.x].assignment = w.a
        /\ assignments'[w.a].status = "Active"
        /\ \A a \in Assignments : a # w.a => assignments'[a] = assignments[a]
    BY <1>0, <1>1 DEF CommitStart, IInv, TypeOK
  <1>3. RunsOf(w.a) = {}
    BY <1>1 DEF IInv, InStep
  <1>4. RunsOf(w.a)' = {w.x}
    BY <1>1, <1>2, <1>3 DEF RunsOf
  <1>5. ASSUME NEW a \in Assignments, a # w.a
        PROVE  RunsOf(a)' = RunsOf(a)
    BY <1>1, <1>2, <1>5, NoneIsNoRecord DEF RunsOf, NoExecution
  <1>6. \A o \in Results : results[o] # w.x
    BY <1>1, NoneIsNoRecord DEF IInv, ResultChain, NoExecution
  <1>7. UNCHANGED Output
    BY <1>2, <1>3, <1>4, <1>5, <1>6 DEF Output
  <1>8. Phase' = [Phase EXCEPT ![w.a] = "Active"]
    BY <1>1, <1>2 DEF Phase
  <1>9. Runs' = [Runs EXCEPT ![w.a] = {w.x}]
    BY <1>1, <1>4, <1>5 DEF Runs
  <1> QED
    BY <1>1, <1>7, <1>8, <1>9 DEF Phase

LEMMA FinishRefines ==
  ASSUME IInv, NEW t \in Workers, CommitFinish(t)
  PROVE  \E a \in Assignments :
            /\ Phase[a] = "Active"
            /\ UNCHANGED Runs
            /\ \/ \E o \in Results :
                     /\ \E s \in {"Completed", "Failed"} :
                           Phase' = [Phase EXCEPT ![a] = s]
                     /\ Output' = [Output EXCEPT ![a] = {o}]
               \/ Phase' = [Phase EXCEPT ![a] = "Cancelled"] /\ UNCHANGED Output
  <1>0. PICK w : w = work[t]
    OBVIOUS
  <1>1. /\ w.a \in Assignments /\ w.x \in Executions /\ w.to \in Ended
        /\ (w.o # None) <=> (w.to \in NeedsResult)
        /\ executions[w.x].assignment = w.a
        /\ executions[w.x].status # "Absent"
        /\ assignments[w.a].status = "Active"
        /\ w.o \in Results \cup {None}
    BY <1>0, AtCommit
    DEF CommitFinish, Finishing, FinishHolds, IInv, TypeOK, WorkType
  <1>2. executions[w.x].status \notin NeedsResult
    BY <1>1 DEF IInv, InStep, NeedsResult
  <1>3. /\ \A x \in Executions : x # w.x => executions'[x] = executions[x]
        /\ executions'[w.x].assignment = w.a
        /\ assignments'[w.a].status = w.to
        /\ \A a \in Assignments : a # w.a => assignments'[a] = assignments[a]
        /\ \A o \in Results : results'[o] = IF o = w.o THEN w.x ELSE results[o]
    BY <1>0, <1>1 DEF CommitFinish, FileResult, IInv, TypeOK
  <1>4. \A a \in Assignments : RunsOf(a)' = RunsOf(a)
    BY <1>1, <1>3 DEF RunsOf
  <1>5. RunsOf(w.a) = {w.x}
    BY <1>1 DEF RunsOf, IInv, SoleExecution
  <1>6. \A o \in Results : results[o] # w.x
    BY <1>1, <1>2, NoneIsNoRecord DEF IInv, ResultChain
  <1>7. w.o # None => results[w.o] = None
    BY <1>0 DEF CommitFinish, FinishHolds, ResultIsNew
  <1>8. Phase' = [Phase EXCEPT ![w.a] = w.to]
    BY <1>1, <1>3 DEF Phase
  <1>9. UNCHANGED Runs
    BY <1>4 DEF Runs
  <1>10. CASE w.o = None
    <2>1. \A o \in Results : results'[o] = results[o]
      BY <1>3, <1>10, NoneIsNoRecord
    <2>2. UNCHANGED Output
      BY <1>4, <2>1 DEF Output
    <2> QED
      BY <1>1, <1>8, <1>9, <1>10, <2>2 DEF Phase, Ended, NeedsResult
  <1>11. CASE w.o # None
    <2>1. {o \in Results : results'[o] \in RunsOf(w.a)} = {w.o}
      BY <1>1, <1>3, <1>5, <1>6, <1>11
    <2>2. ASSUME NEW a \in Assignments, a # w.a
          PROVE  {o \in Results : results'[o] \in RunsOf(a)} =
                 {o \in Results : results[o] \in RunsOf(a)}
      <3>1. w.x \notin RunsOf(a) /\ None \notin RunsOf(a)
        BY <1>1, <2>2, NoneIsNoRecord DEF RunsOf
      <3> QED
        BY <1>3, <1>7, <1>11, <3>1
    <2>3. Output' = [Output EXCEPT ![w.a] = {w.o}]
      BY <1>1, <1>4, <2>1, <2>2 DEF Output
    <2> QED
      BY <1>1, <1>8, <1>9, <1>11, <2>3 DEF Phase, NeedsResult
  <1> QED
    BY <1>10, <1>11

LEMMA StepRefines ==
  ASSUME IInv, [Next]_vars
  PROVE  [Lifecycle!Next]_(Lifecycle!vars)
  <1> USE DEF Lifecycle!Next, Lifecycle!vars, Lifecycle!Assign, Lifecycle!Start,
              Lifecycle!Report, Lifecycle!Cancel
  <1>1. CASE UNCHANGED <<Phase, Runs, Output>>
    BY <1>1 DEF Phase, Runs, Output
  <1>2. CASE UNCHANGED vars
    BY <1>2, Stutter, <1>1 DEF vars
  <1>3. CASE OtherWrite
    BY <1>3, Stutter, <1>1 DEF OtherWrite
  <1>4. ASSUME NEW t \in Workers, WorkerStep(t)
        PROVE  [Lifecycle!Next]_(Lifecycle!vars)
    <2>1. CASE CommitAssign(t)
      BY <2>1, AssignRefines DEF Phase, Runs, Output
    <2>2. CASE CommitStart(t)
      BY <2>2, StartRefines DEF Phase, Runs, Output
    <2>3. CASE CommitFinish(t)
      BY <2>3, FinishRefines DEF Phase, Runs, Output
    <2>4. CASE CommitHeartbeat(t)
      <3>1. work[t].x \in Executions
        BY <2>4, AtCommit DEF CommitHeartbeat, Beating
      <3> QED
        BY <1>1, <2>4, <3>1, Stutter DEF CommitHeartbeat, IInv, TypeOK
    <2>5. CASE CommitReview(t)
      BY <1>1, <2>5, Stutter DEF CommitReview
    <2>6. ASSUME NEW w, Goto(t, w)
          PROVE  [Lifecycle!Next]_(Lifecycle!vars)
      BY <1>1, <2>6, GotoStutters
    <2> QED
      BY <1>4, <2>1, <2>2, <2>3, <2>4, <2>5, <2>6
      DEF WorkerStep, BeginAssign, BeginStart, BeginHeartbeat, BeginFinish,
          BeginReview, ReadHeartbeat, ReadExecutionVersion,
          ReadAssignmentVersion, ReadAssignment, Refuse, Abandon
  <1> QED
    BY <1>2, <1>3, <1>4 DEF Next, Step

\* The interleaved store calls implement the one-step lifecycle.
THEOREM ImplementsLifecycle == Spec => RefinesLifecycle
  <1>1. Init => Lifecycle!Init
    BY NoneIsNoRecord DEF Init, Lifecycle!Init, NoAssignment, NoExecution, RunsOf
  <1>2. IInv /\ [Next]_vars => [Lifecycle!Next]_(Lifecycle!vars)
    BY StepRefines
  <1> QED
    BY <1>1, <1>2, Invariance, PTL DEF Spec, Lifecycle!Spec, RefinesLifecycle

-----------------------------------------------------------------------------
(* What a store built around this one relies on *)

\* A step writes to the log or leaves the revision alone.
LEMMA StepOfLog ==
  ASSUME [Next]_vars
  PROVE  LogWrite \/ UNCHANGED revision
  <1>1. ASSUME NEW t \in Workers, WorkerStep(t)
        PROVE  LogWrite \/ UNCHANGED revision
    BY <1>1
    DEF WorkerStep, BeginAssign, CommitAssign, BeginStart, CommitStart,
        BeginHeartbeat, BeginFinish, BeginReview, ReadHeartbeat,
        CommitHeartbeat, ReadExecutionVersion, ReadAssignmentVersion,
        ReadAssignment, CommitFinish, CommitReview, Refuse, Abandon, Goto, store
  <1> QED
    BY <1>1 DEF Next, Step, OtherWrite, vars

\* The proposal a call or an assignment names is approved.
Delegated ==
    /\ \A a \in Assignments : Authorized(assignments[a].proposal)
    /\ \A t \in Workers : work[t].call = "assign" => Authorized(work[t].p)

\* Where the link of an assignment, and that of a call, comes from.
LEMMA LinkStep ==
  ASSUME IInv, [Next]_vars
  PROVE  /\ \A a \in Assignments :
               \/ assignments'[a].proposal = assignments[a].proposal
               \/ /\ assignments[a].status = "Absent"
                  /\ \E t \in Workers : /\ work[t].call = "assign"
                                        /\ assignments'[a].proposal = work[t].p
         /\ \A t \in Workers : work'[t].call = "assign" =>
               \/ work'[t] = work[t]
               \/ Authorized(work'[t].p)
  <1> DEFINE Links ==
               \A a \in Assignments :
                  \/ assignments'[a].proposal = assignments[a].proposal
                  \/ /\ assignments[a].status = "Absent"
                     /\ \E t \in Workers : /\ work[t].call = "assign"
                                           /\ assignments'[a].proposal = work[t].p
             Calls ==
               \A t \in Workers : work'[t].call = "assign" =>
                  \/ work'[t] = work[t]
                  \/ Authorized(work'[t].p)
  <1>0. /\ assignments \in [Assignments -> [status : AssignmentStatus,
                                            proposal : Proposals \cup {None},
                                            ver : Revision]]
        /\ work \in [Workers -> WorkType]
    BY DEF IInv, TypeOK
  <1>1. CASE UNCHANGED <<assignments, work>>
    BY <1>1
  <1>2. ASSUME NEW t \in Workers, NEW w, work' = [work EXCEPT ![t] = w],
               w.call = "assign" => w = work[t] \/ Authorized(w.p)
        PROVE  Calls
    BY <1>0, <1>2
  <1>3. Idle.call # "assign"
    BY DEF Idle
  <1>4. ASSUME NEW t \in Workers, WorkerStep(t)
        PROVE  Links /\ Calls
    <2>1. CASE CommitAssign(t)
      <3>1. work[t].a \in Assignments /\ assignments[work[t].a].status = "Absent"
        BY <2>1, AtCommit DEF CommitAssign, Assigning, NoAssignment
      <3>2. Links
        BY <1>0, <2>1, <3>1 DEF CommitAssign
      <3> QED
        BY <1>2, <1>3, <2>1, <3>2 DEF CommitAssign, Return
    <2>2. CASE CommitStart(t) \/ CommitFinish(t)
      BY <1>0, <1>2, <1>3, <2>2 DEF CommitStart, CommitFinish, Return
    <2>3. CASE CommitHeartbeat(t) \/ CommitReview(t)
      BY <1>2, <1>3, <2>3 DEF CommitHeartbeat, CommitReview, Return
    <2>4. ASSUME NEW w, Goto(t, w),
                 w.call = "assign" => w = work[t] \/ Authorized(w.p)
          PROVE  Links /\ Calls
      BY <1>2, <2>4 DEF Goto, store
    <2>5. ASSUME NEW a \in Assignments, NEW p \in Proposals \cup {None},
                 BeginAssign(t, a, p)
          PROVE  Links /\ Calls
      <3>1. [Idle EXCEPT !.call = "assign", !.pc = "commit", !.a = a, !.p = p].p = p
        BY DEF Idle
      <3> QED
        BY <2>4, <2>5, <3>1 DEF BeginAssign
    <2>6. ASSUME NEW a \in Assignments, NEW x \in Executions, BeginStart(t, a, x)
          PROVE  Links /\ Calls
      <3>1. [Idle EXCEPT !.call = "start", !.pc = "aver", !.a = a, !.x = x].call
              = "start"
        BY DEF Idle
      <3> QED
        BY <2>4, <2>6, <3>1 DEF BeginStart
    <2>7. ASSUME NEW x \in Executions, BeginHeartbeat(t, x)
          PROVE  Links /\ Calls
      <3>1. [Idle EXCEPT !.call = "heartbeat", !.pc = "execution", !.x = x,
                         !.xver = executions[x].ver].call = "heartbeat"
        BY DEF Idle
      <3> QED
        BY <2>4, <2>7, <3>1 DEF BeginHeartbeat
    <2>8. ASSUME NEW x \in Executions, NEW s \in Outcomes,
                 NEW o \in Results \cup {None}, BeginFinish(t, x, s, o)
          PROVE  Links /\ Calls
      <3>1. [Idle EXCEPT !.call = "finish", !.pc = "xver", !.x = x,
                         !.a = executions[x].assignment, !.to = s,
                         !.o = o].call = "finish"
        BY DEF Idle
      <3> QED
        BY <2>4, <2>8, <3>1 DEF BeginFinish
    <2>9. ASSUME NEW x \in Executions, NEW base \in Revision, BeginReview(t, x, base)
          PROVE  Links /\ Calls
      <3>1. [Idle EXCEPT !.call = "review", !.pc = "commit", !.x = x,
                         !.base = base].call = "review"
        BY DEF Idle
      <3> QED
        BY <2>4, <2>9, <3>1 DEF BeginReview
    <2>10. CASE \/ ReadHeartbeat(t) \/ ReadExecutionVersion(t)
                \/ ReadAssignmentVersion(t) \/ ReadAssignment(t)
      <3>0. work[t].pc \in {"execution", "xver", "aver", "assignment"}
        BY <2>10 DEF ReadHeartbeat, ReadExecutionVersion, ReadAssignmentVersion,
                     ReadAssignment
      <3>1. work[t].call # "assign"
        BY <3>0 DEF IInv, Underway, Idle, Assigning, Starting, Beating,
                    Finishing, Reviewing
      <3>2. work[t] \in WorkType
        BY <1>0
      <3>3. /\ [work[t] EXCEPT !.pc = "commit"].call # "assign"
            /\ \A v : [work[t] EXCEPT !.pc = "aver", !.xver = v].call # "assign"
            /\ \A v : [work[t] EXCEPT !.pc = "assignment", !.aver = v].call # "assign"
        BY <3>1, <3>2 DEF WorkType
      <3> QED
        BY <1>3, <2>4, <2>10, <3>3
        DEF ReadHeartbeat, ReadExecutionVersion, ReadAssignmentVersion,
            ReadAssignment
    <2>11. CASE Refuse(t) \/ Abandon(t)
      BY <1>3, <2>4, <2>11 DEF Refuse, Abandon
    <2> QED
      BY <1>4, <2>1, <2>2, <2>3, <2>5, <2>6, <2>7, <2>8, <2>9, <2>10, <2>11
      DEF WorkerStep
  <1> QED
    BY <1>1, <1>4 DEF Next, Step, OtherWrite, vars

\* Every assignment that names a proposal names an approved one, although
\* add_assignment looks at the proposal before it writes and not while.
THEOREM DelegatesApproved == Spec => []Delegated
  <1>1. Init => Delegated
    BY DEF Init, Delegated, Authorized, NoAssignment, Idle
  <1>2. ASSUME IInv, Delegated, [Next]_vars
        PROVE  Delegated'
    <2>1. approved \subseteq approved'
      BY <1>2, Advances DEF Advance
    <2>2. \A p : Authorized(p) => Authorized(p)'
      BY <2>1 DEF Authorized
    <2>3. \A t \in Workers : work'[t].call = "assign" =>
             \/ work[t].call = "assign" /\ work'[t].p = work[t].p
             \/ Authorized(work'[t].p)
      BY <1>2, LinkStep
    <2>4. \A a \in Assignments : Authorized(assignments'[a].proposal)
      BY <1>2, LinkStep DEF Delegated
    <2> QED
      BY <1>2, <2>2, <2>3, <2>4 DEF Delegated, Authorized
  <1> QED
    BY <1>1, <1>2, Invariance, PTL DEF Spec
=============================================================================
