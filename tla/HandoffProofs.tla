---------------------------- MODULE HandoffProofs ----------------------------
(***************************************************************************)
(* Proofs about Handoff, for every number of processes and assignments and  *)
(* every size of packages, outputs and pipes.                               *)
(*                                                                          *)
(* OneLaunch is not inductive by itself: a handoff takes the answer of      *)
(* start_execution for its own start.  That it may rests on the ownership   *)
(* of the database (Alone): the assignment it found Pending still is when   *)
(* it starts it (Staged), and one that waits was never launched (Counted).  *)
(***************************************************************************)
EXTENDS Handoff, TLAPS

\* A process that runs a command owns the database.
Alone == \A p \in Processes : proc[p] # Idle => owner = p

\* The steps of a handoff are those of a handoff, and it has its assignment.
Shaped ==
    \A p \in Processes :
        /\ proc[p].pc \in {"start", "launch", "feed", "drain", "finish"} =>
              proc[p].cmd = "handoff" /\ proc[p].a \in Assignments
        /\ proc[p].cmd \in {"start", "verdict"} => proc[p].a \in Assignments

\* How far an assignment is while a handoff has it.
Staged ==
    \A p \in Processes :
        LET a == proc[p].a IN
        /\ proc[p].pc = "start" => phase[a] = "Pending"
        /\ proc[p].pc \in {"launch", "feed", "drain", "finish"} => phase[a] = "Active"
        /\ proc[p].pc = "launch" => launches[a] = 0
        /\ proc[p].pc = "drain" => child[a].unsent = 0

\* What waits was never launched, and a provider that ended has written all.
Counted ==
    \A a \in Assignments :
        /\ phase[a] \in {"Absent", "Pending"} => launches[a] = 0
        /\ child[a].state \in {"success", "failure"} => child[a].left = 0

Local == Alone /\ Shaped /\ Staged /\ Counted
Shown == OneLaunch /\ CompletedOnSuccess /\ ActiveIsTended
IInv == TypeOK /\ Local /\ Shown

-----------------------------------------------------------------------------
(* Facts about states *)

\* While a process has the database no other runs a command.
LEMMA OthersIdle ==
  ASSUME Alone, NEW p \in Processes, proc[p] # Idle
  PROVE  owner = p /\ \A q \in Processes : q # p => proc[q] = Idle
  BY DEF Alone

\* A record whose command or step is that of a running command is not Idle.
LEMMA Running ==
  ASSUME NEW p \in Processes, proc[p].cmd # "none" \/ proc[p].pc # "idle"
  PROVE  proc[p] # Idle
  BY DEF Idle

LEMMA InitInvariant == Init => IInv
  <1> SUFFICES ASSUME Init PROVE IInv
    OBVIOUS
  <1>1. TypeOK
    BY PipesHold DEF Init, TypeOK, Phase, ProcRec, ChildRec, Idle, NoChild, Ended, Programs
  <1>2. Local
    BY DEF Init, Local, Alone, Shaped, Staged, Counted, Idle, NoChild
  <1>3. Shown
    BY DEF Init, Shown, OneLaunch, CompletedOnSuccess, ActiveIsTended, Tends, Idle
  <1> QED
    BY <1>1, <1>2, <1>3 DEF IInv

-----------------------------------------------------------------------------
(* Steps *)

LEMMA OpenStep ==
  ASSUME IInv, NEW p \in Processes, Command(p)
  PROVE  IInv'
  <1>1. PICK cmd \in {"handoff", "assign", "start", "verdict"},
             pc \in {"context", "commit", "load"}, a \in Assignments \cup {None}, to \in Ended :
          Open(p, cmd, pc, a, to) /\ (cmd \in {"start", "verdict"} => a \in Assignments)
    BY DEF Command, Ended
  <1>2. /\ owner = None /\ owner' = p
        /\ proc' = [proc EXCEPT ![p] = [cmd |-> cmd, pc |-> pc, a |-> a, to |-> to]]
        /\ UNCHANGED <<phase, child, launches, abandoned>>
    BY <1>1 DEF Open, Available
  <1>3. \A q \in Processes : proc[q] = Idle
    BY <1>2, NoneIsNobody DEF IInv, Local, Alone
  <1>4. \A q \in Processes :
          proc'[q] = IF q = p THEN [cmd |-> cmd, pc |-> pc, a |-> a, to |-> to] ELSE Idle
    BY <1>2, <1>3 DEF IInv, TypeOK
  <1>5. TypeOK'
    BY <1>2 DEF IInv, TypeOK, ProcRec
  <1>6. Alone' /\ Shaped' /\ Staged'
    BY <1>1, <1>2, <1>4 DEF Alone, Shaped, Staged, Idle
  <1>7. Counted' /\ OneLaunch'
    BY <1>2 DEF IInv, Local, Shown, Counted, OneLaunch
  <1>8. \A q \in Processes, b \in Assignments : ~Tends(q, b) /\ ~Tends(q, b)'
    BY <1>3, <1>4 DEF Tends, Idle
  <1>9. CompletedOnSuccess' /\ ActiveIsTended'
    BY <1>2, <1>8 DEF IInv, Shown, CompletedOnSuccess, ActiveIsTended, Tended
  <1> QED
    BY <1>5, <1>6, <1>7, <1>9 DEF IInv, Local, Shown

\* Only the process that runs a command has pipes in its hands.
LEMMA SoleTender ==
  ASSUME Alone, NEW p \in Processes, proc[p] # Idle
  PROVE  \A q \in Processes, a \in Assignments : Tends(q, a) => q = p /\ a = proc[p].a
  BY OthersIdle DEF Tends, Idle

\* A command that ends leaves every process idle.
LEMMA ExitStep ==
  ASSUME IInv, NEW p \in Processes, proc[p] # Idle, Exit(p)
  PROVE  /\ owner' \in Processes \cup {None}
         /\ proc' \in [Processes -> ProcRec]
         /\ \A q \in Processes, a \in Assignments : ~Tends(q, a)'
         /\ Alone' /\ Shaped' /\ Staged' /\ CompletedOnSuccess'
  <1>1. proc' = [proc EXCEPT ![p] = Idle] /\ owner' \in Processes \cup {None}
    BY DEF Exit, IInv, TypeOK
  <1>2. \A q \in Processes : proc'[q] = Idle
    BY <1>1, OthersIdle DEF IInv, TypeOK, Local
  <1>3. proc' \in [Processes -> ProcRec]
    BY <1>1 DEF IInv, TypeOK, ProcRec, Idle, Ended
  <1>4. \A q \in Processes, a \in Assignments : ~Tends(q, a)'
    BY <1>2 DEF Tends, Idle
  <1>5. Alone' /\ Shaped' /\ Staged'
    BY <1>2 DEF Alone, Shaped, Staged, Idle
  <1>6. CompletedOnSuccess'
    BY <1>4 DEF CompletedOnSuccess
  <1> QED
    BY <1>1, <1>3, <1>4, <1>5, <1>6

LEMMA KillStep ==
  ASSUME IInv, NEW p \in Processes, Kill(p)
  PROVE  IInv'
  <1>1. /\ proc[p] # Idle /\ Exit(p) /\ LeaveChild(p) /\ UNCHANGED <<phase, launches>>
        /\ abandoned' = [a \in Assignments |-> abandoned[a] \/ Tends(p, a)]
    BY DEF Kill
  <1>2. \A a \in Assignments : abandoned'[a] <=> abandoned[a] \/ Tends(p, a)
    BY <1>1
  <1>3. abandoned' \in [Assignments -> BOOLEAN]
    BY <1>1 DEF IInv, TypeOK, Tends
  <1>4. \A a \in Assignments :
          child'[a] \in {child[a], [child[a] EXCEPT !.unsent = 0, !.said = 0]}
    BY <1>1 DEF LeaveChild
  <1>5. child' \in [Assignments -> ChildRec]
    <2>1. ASSUME NEW a \in Assignments
          PROVE  [child[a] EXCEPT !.unsent = 0, !.said = 0] \in ChildRec
      <3>1. child[a] \in ChildRec /\ 0 \in 0..PackageSize /\ 0 \in 0..PipeSize
        BY PipesHold DEF IInv, TypeOK
      <3> QED
        BY <3>1 DEF ChildRec
    <2> QED
      BY <1>1, <1>4, <2>1 DEF LeaveChild, IInv, TypeOK
  <1>6. TypeOK'
    BY <1>1, <1>3, <1>5, ExitStep DEF IInv, TypeOK
  <1>7. Counted' /\ OneLaunch'
    <2>1. ASSUME NEW a \in Assignments
          PROVE  child'[a].state = child[a].state /\ child'[a].left = child[a].left
      <3>1. child[a] \in ChildRec
        BY DEF IInv, TypeOK
      <3>2. [child[a] EXCEPT !.unsent = 0, !.said = 0].state = child[a].state
        BY <3>1 DEF ChildRec
      <3>3. [child[a] EXCEPT !.unsent = 0, !.said = 0].left = child[a].left
        BY <3>1 DEF ChildRec
      <3> QED
        BY <1>4, <3>2, <3>3
    <2>2. UNCHANGED <<phase, launches>>
      BY <1>1
    <2> QED
      BY <2>1, <2>2 DEF IInv, Local, Shown, Counted, OneLaunch
  <1>8. \A a \in Assignments : phase[a] = "Active" => abandoned'[a]
    BY <1>1, <1>2, SoleTender DEF IInv, Local, Shown, ActiveIsTended, Tended
  <1>9. ActiveIsTended'
    BY <1>1, <1>8 DEF ActiveIsTended
  <1> QED
    BY <1>1, <1>6, <1>7, <1>9, ExitStep DEF IInv, Local, Shown

LEMMA AssignStep ==
  ASSUME IInv, NEW p \in Processes, NEW a \in Assignments, Assign(p, a)
  PROVE  IInv'
  <1>1. /\ proc[p] # Idle /\ proc[p].cmd = "assign" /\ Exit(p) /\ phase[a] = "Absent"
        /\ phase' = [phase EXCEPT ![a] = "Pending"] /\ UNCHANGED <<child, launches, abandoned>>
    BY Running DEF Assign
  <1>2. TypeOK'
    BY <1>1, ExitStep DEF IInv, TypeOK, Phase
  <1>3. Counted' /\ OneLaunch'
    BY <1>1 DEF IInv, Local, Shown, TypeOK, Counted, OneLaunch
  <1>4. \A b \in Assignments : ~Tended(b)
    BY <1>1, SoleTender DEF IInv, Local, Tended, Tends
  <1>5. ActiveIsTended'
    BY <1>1, <1>4 DEF IInv, Shown, TypeOK, ActiveIsTended
  <1> QED
    BY <1>1, <1>2, <1>3, <1>5, ExitStep DEF IInv, Local, Shown

LEMMA StartStep ==
  ASSUME IInv, NEW p \in Processes, Start(p)
  PROVE  IInv'
  <1> DEFINE a == proc[p].a
  <1>1. /\ proc[p] # Idle /\ proc[p].cmd = "start" /\ Exit(p) /\ StartExecution(a)
        /\ abandoned' = [abandoned EXCEPT ![a] = @ \/ phase[a] = "Pending"]
        /\ UNCHANGED <<child, launches>>
    BY Running DEF Start
  <1>2. a \in Assignments
    BY <1>1 DEF IInv, Local, Shaped
  <1>3. TypeOK'
    BY <1>1, <1>2, ExitStep DEF IInv, TypeOK, Phase, StartExecution
  <1>4. Counted' /\ OneLaunch'
    BY <1>1, <1>2 DEF IInv, Local, Shown, TypeOK, Counted, OneLaunch, StartExecution
  <1>5. \A b \in Assignments : ~Tended(b)
    BY <1>1, SoleTender DEF IInv, Local, Tended, Tends
  <1>6. ActiveIsTended'
    BY <1>1, <1>2, <1>5 DEF IInv, Shown, TypeOK, ActiveIsTended, StartExecution
  <1> QED
    BY <1>1, <1>3, <1>4, <1>6, ExitStep DEF IInv, Local, Shown

\* A step of a process that is no part of a handoff changes nothing but that process.
LEMMA VerdictStep ==
  ASSUME IInv, NEW p \in Processes, LoadRun(p) \/ ReadStdin(p) \/ Verdict(p)
  PROVE  IInv'
  <1>0. proc[p].cmd \in {"none", "verdict"} \/ proc[p].pc = "stdin"
    BY DEF LoadRun, ReadStdin, Verdict
  <1>1. proc[p] # Idle
    BY Running DEF LoadRun, ReadStdin, Verdict
  <1>2. \A b \in Assignments : ~Tended(b)
    BY <1>1, SoleTender DEF IInv, Local, Tended, Tends, LoadRun, ReadStdin, Verdict
  <1>3. CASE Exit(p) /\ UNCHANGED <<phase, child, launches, abandoned>>
    <2>1. TypeOK' /\ Counted' /\ OneLaunch'
      BY <1>1, <1>3, ExitStep DEF IInv, Local, Shown, TypeOK, Counted, OneLaunch
    <2>2. ActiveIsTended'
      BY <1>2, <1>3 DEF IInv, Shown, ActiveIsTended
    <2> QED
      BY <1>1, <1>3, <2>1, <2>2, ExitStep DEF IInv, Local, Shown
  <1>4. ASSUME NEW pc \in {"stdin", "commit"}, Goto(p, pc), UNCHANGED <<phase, child, launches, abandoned>>
        PROVE  IInv'
    <2>1. owner' = owner /\ \A q \in Processes :
            proc'[q] = IF q = p THEN [proc[p] EXCEPT !.pc = pc] ELSE Idle
      BY <1>1, <1>4, OthersIdle DEF Goto, IInv, Local, TypeOK
    <2>2. TypeOK'
      BY <1>4 DEF Goto, IInv, TypeOK, ProcRec
    <2>3. Alone'
      BY <1>1, <2>1, OthersIdle DEF IInv, Local, Alone
    <2>4. Shaped' /\ Staged'
      BY <2>1 DEF IInv, Local, TypeOK, ProcRec, Shaped, Staged, Idle
    <2>5. \A q \in Processes, b \in Assignments : ~Tends(q, b)'
      BY <2>1 DEF IInv, TypeOK, ProcRec, Tends, Idle
    <2>6. Counted' /\ OneLaunch' /\ CompletedOnSuccess' /\ ActiveIsTended'
      BY <1>2, <1>4, <2>5 DEF IInv, Local, Shown, Counted, OneLaunch, CompletedOnSuccess, ActiveIsTended
    <2> QED
      BY <2>2, <2>3, <2>4, <2>6 DEF IInv, Local, Shown
  <1>5. CASE Verdict(p)
    <2> DEFINE a == proc[p].a
    <2>1. /\ Exit(p) /\ FinishExecution(a, proc[p].to) /\ UNCHANGED <<child, launches, abandoned>>
          /\ a \in Assignments /\ proc[p].to \in Ended
      BY <1>5 DEF Verdict, IInv, Local, Shaped, TypeOK, ProcRec
    <2>2. TypeOK'
      BY <1>1, <2>1, ExitStep DEF IInv, TypeOK, Phase, FinishExecution
    <2>3. Counted' /\ OneLaunch'
      BY <2>1 DEF IInv, Local, Shown, TypeOK, Counted, OneLaunch, FinishExecution, Ended
    <2>4. ActiveIsTended'
      BY <1>2, <2>1 DEF IInv, Shown, TypeOK, ActiveIsTended, FinishExecution, Ended
    <2> QED
      BY <1>1, <2>1, <2>2, <2>3, <2>4, ExitStep DEF IInv, Local, Shown
  <1> QED
    BY <1>3, <1>4, <1>5 DEF LoadRun, ReadStdin


-----------------------------------------------------------------------------
(* The steps of a handoff *)

\* A handoff that goes on stays the only command.
LEMMA GoOn ==
  ASSUME IInv, NEW p \in Processes, proc[p].cmd = "handoff", owner' = owner,
         NEW pc \in {"start", "launch", "feed", "drain", "finish"},
         NEW a \in Assignments, NEW to \in Ended,
         proc' = [proc EXCEPT ![p] = proc'[p]],
         proc'[p] = [cmd |-> "handoff", pc |-> pc, a |-> a, to |-> to]
  PROVE  /\ owner' \in Processes \cup {None} /\ proc' \in [Processes -> ProcRec]
         /\ proc'[p] = [cmd |-> "handoff", pc |-> pc, a |-> a, to |-> to]
         /\ \A q \in Processes : q # p => proc'[q] = Idle
         /\ Alone' /\ Shaped'
         /\ \A q \in Processes, b \in Assignments :
               Tends(q, b)' <=> q = p /\ b = a /\ pc # "start"
  <1>1. owner = p /\ \A q \in Processes : q # p => proc[q] = Idle
    BY Running, OthersIdle DEF IInv, Local
  <1>2. \A q \in Processes :
          proc'[q] = IF q = p THEN [cmd |-> "handoff", pc |-> pc, a |-> a, to |-> to] ELSE Idle
    BY <1>1 DEF IInv, TypeOK
  <1>3. proc' \in [Processes -> ProcRec] /\ owner' \in Processes \cup {None}
    BY <1>2 DEF IInv, TypeOK, ProcRec
  <1>4. Alone' /\ Shaped'
    BY <1>1, <1>2 DEF Alone, Shaped, Idle
  <1>5. \A q \in Processes, b \in Assignments :
          Tends(q, b)' <=> q = p /\ b = a /\ pc # "start"
    BY <1>2 DEF Tends, Idle
  <1> QED
    BY <1>2, <1>3, <1>4, <1>5

LEMMA ReadContextStep ==
  ASSUME IInv, NEW p \in Processes, ReadContext(p)
  PROVE  IInv'
  <1>1. /\ proc[p].cmd = "handoff" /\ proc[p].pc = "context" /\ proc[p] # Idle
        /\ UNCHANGED <<phase, child, launches, abandoned>>
    BY Running DEF ReadContext
  <1>2. \A b \in Assignments : ~Tended(b)
    BY <1>1, SoleTender DEF IInv, Local, Tended, Tends
  <1>3. CASE Exit(p)
    <2>1. TypeOK' /\ Counted' /\ OneLaunch'
      BY <1>1, <1>3, ExitStep DEF IInv, Local, Shown, TypeOK, Counted, OneLaunch
    <2>2. ActiveIsTended'
      BY <1>1, <1>2 DEF IInv, Shown, ActiveIsTended
    <2> QED
      BY <1>1, <1>3, <2>1, <2>2, ExitStep DEF IInv, Local, Shown
  <1>4. ASSUME NEW a \in Assignments, Offered(a), UNCHANGED owner,
               proc' = [proc EXCEPT ![p].pc = "start", ![p].a = a]
        PROVE  IInv'
    <2>1. /\ proc' = [proc EXCEPT ![p] = proc'[p]]
          /\ proc'[p] = [cmd |-> "handoff", pc |-> "start", a |-> a, to |-> proc[p].to]
      BY <1>1, <1>4 DEF IInv, TypeOK, ProcRec
    <2>2. /\ owner' \in Processes \cup {None} /\ proc' \in [Processes -> ProcRec]
          /\ proc'[p] = [cmd |-> "handoff", pc |-> "start", a |-> a, to |-> proc[p].to]
          /\ \A q \in Processes : q # p => proc'[q] = Idle
          /\ Alone' /\ Shaped'
          /\ \A q \in Processes, b \in Assignments : ~Tends(q, b)'
      <3>1. proc[p].to \in Ended
        BY DEF IInv, TypeOK, ProcRec
      <3>2. "start" \in {"start", "launch", "feed", "drain", "finish"} /\ owner' = owner
        BY <1>4
      <3> QED
        BY <1>1, <2>1, <3>1, <3>2, GoOn
    <2>3. TypeOK' /\ Counted' /\ OneLaunch'
      BY <1>1, <2>2 DEF IInv, Local, Shown, TypeOK, Counted, OneLaunch
    <2>4. Staged'
      BY <1>1, <1>4, <2>2 DEF Staged, Offered, Idle
    <2>5. CompletedOnSuccess' /\ ActiveIsTended'
      BY <1>1, <1>2, <2>2 DEF IInv, Shown, CompletedOnSuccess, ActiveIsTended
    <2> QED
      BY <2>2, <2>3, <2>4, <2>5 DEF IInv, Local, Shown
  <1> QED
    BY <1>3, <1>4 DEF ReadContext


\* What holds at every further step of a handoff.
LEMMA Launched ==
  ASSUME IInv, NEW p \in Processes,
         proc[p].pc \in {"start", "launch", "feed", "drain", "finish"}
  PROVE  /\ proc[p] # Idle /\ proc[p].cmd = "handoff"
         /\ proc[p].a \in Assignments /\ proc[p].to \in Ended
         /\ phase[proc[p].a] = IF proc[p].pc = "start" THEN "Pending" ELSE "Active"
         /\ \A q \in Processes, b \in Assignments :
               Tends(q, b) <=> q = p /\ b = proc[p].a /\ proc[p].pc # "start"
  <1>1. proc[p] # Idle
    BY Running
  <1>2. proc[p].cmd = "handoff" /\ proc[p].a \in Assignments /\ proc[p].to \in Ended
    BY DEF IInv, Local, Shaped, TypeOK, ProcRec
  <1>3. phase[proc[p].a] = IF proc[p].pc = "start" THEN "Pending" ELSE "Active"
    BY DEF IInv, Local, Staged
  <1>4. \A q \in Processes : q # p => proc[q] = Idle
    BY <1>1, OthersIdle DEF IInv, Local
  <1>5. \A q \in Processes, b \in Assignments :
          Tends(q, b) <=> q = p /\ b = proc[p].a /\ proc[p].pc # "start"
    BY <1>2, <1>4 DEF Tends, Idle
  <1> QED
    BY <1>1, <1>2, <1>3, <1>5

\* A handoff that goes to another step with the assignment it has.
LEMMA Goes ==
  ASSUME IInv, NEW p \in Processes,
         proc[p].pc \in {"start", "launch", "feed", "drain", "finish"},
         NEW pc \in {"launch", "feed", "drain", "finish"}, NEW to \in Ended, UNCHANGED owner,
         proc' = [proc EXCEPT ![p] = proc'[p]],
         proc'[p] = [cmd |-> "handoff", pc |-> pc, a |-> proc[p].a, to |-> to]
  PROVE  /\ owner' \in Processes \cup {None} /\ proc' \in [Processes -> ProcRec]
         /\ proc'[p] = [cmd |-> "handoff", pc |-> pc, a |-> proc[p].a, to |-> to]
         /\ \A q \in Processes : q # p => proc'[q] = Idle
         /\ Alone' /\ Shaped'
         /\ \A q \in Processes, b \in Assignments : Tends(q, b)' <=> q = p /\ b = proc[p].a
  <1>1. proc[p].cmd = "handoff" /\ proc[p].a \in Assignments
    BY Launched
  <1>2. pc \in {"start", "launch", "feed", "drain", "finish"} /\ owner' = owner /\ pc # "start"
    OBVIOUS
  <1> QED
    BY <1>1, <1>2, GoOn

LEMMA StartHandoffStep ==
  ASSUME IInv, NEW p \in Processes, StartHandoff(p)
  PROVE  IInv'
  <1> DEFINE a == proc[p].a
  <1>1. /\ proc[p].pc = "start" /\ StartExecution(a) /\ UNCHANGED <<owner, child, launches, abandoned>>
        /\ proc' = [proc EXCEPT ![p] = proc'[p]]
        /\ proc'[p] = [cmd |-> "handoff", pc |-> "launch", a |-> a, to |-> proc[p].to]
    BY DEF StartHandoff, Goto, IInv, TypeOK, ProcRec
  <1>2. a \in Assignments /\ phase[a] = "Pending" /\ proc[p].to \in Ended
    BY <1>1, Launched
  <1>3. /\ owner' \in Processes \cup {None} /\ proc' \in [Processes -> ProcRec]
        /\ \A q \in Processes : q # p => proc'[q] = Idle
        /\ Alone' /\ Shaped'
        /\ \A q \in Processes, b \in Assignments : Tends(q, b)' <=> q = p /\ b = a
    <2>1. "launch" \in {"launch", "feed", "drain", "finish"} /\ proc[p].pc \in {"start", "launch", "feed", "drain", "finish"}
      BY <1>1
    <2> QED
      BY <1>1, <1>2, <2>1, Goes
  <1>4. phase' = [phase EXCEPT ![a] = "Active"]
    BY <1>1, <1>2 DEF StartExecution
  <1>5. TypeOK'
    BY <1>1, <1>3, <1>4 DEF IInv, TypeOK, Phase
  <1>6. Staged'
    BY <1>1, <1>2, <1>3, <1>4 DEF IInv, Local, TypeOK, Staged, Counted, Idle
  <1>7. Counted' /\ OneLaunch'
    BY <1>1, <1>4 DEF IInv, Local, Shown, TypeOK, Counted, OneLaunch
  <1>8. CompletedOnSuccess'
    BY <1>1, <1>3 DEF CompletedOnSuccess
  <1>9. \A q \in Processes, b \in Assignments : ~Tends(q, b)
    BY <1>1, Launched
  <1>10. ActiveIsTended'
    BY <1>1, <1>2, <1>3, <1>4, <1>9 DEF IInv, Shown, TypeOK, ActiveIsTended, Tended
  <1> QED
    BY <1>3, <1>5, <1>6, <1>7, <1>8, <1>10 DEF IInv, Local, Shown

LEMMA SpawnStep ==
  ASSUME IInv, NEW p \in Processes, Spawn(p)
  PROVE  IInv'
  <1> DEFINE a == proc[p].a
  <1>1. PICK program \in Programs, size \in 0..MaxOutput :
          child' = [child EXCEPT ![a] =
             [state |-> "running", program |-> program, unsent |-> PackageSize,
              input |-> 0, left |-> size, said |-> 0]]
    BY DEF Spawn
  <1>2. /\ proc[p].pc = "launch" /\ UNCHANGED <<owner, phase, abandoned>>
        /\ launches' = [launches EXCEPT ![a] = @ + 1]
        /\ proc' = [proc EXCEPT ![p] = proc'[p]]
        /\ proc'[p] = [proc[p] EXCEPT !.pc = "feed"]
    BY DEF Spawn, Goto, IInv, TypeOK
  <1>3. /\ a \in Assignments /\ phase[a] = "Active" /\ proc[p].to \in Ended /\ launches[a] = 0
        /\ proc'[p] = [cmd |-> "handoff", pc |-> "feed", a |-> a, to |-> proc[p].to]
    BY <1>2, Launched DEF IInv, Local, Staged, TypeOK, ProcRec
  <1>4. /\ owner' \in Processes \cup {None} /\ proc' \in [Processes -> ProcRec]
        /\ \A q \in Processes : q # p => proc'[q] = Idle
        /\ Alone' /\ Shaped'
        /\ \A q \in Processes, b \in Assignments : Tends(q, b)' <=> q = p /\ b = a
    <2>1. "feed" \in {"launch", "feed", "drain", "finish"} /\ proc[p].pc \in {"start", "launch", "feed", "drain", "finish"}
      BY <1>2
    <2> QED
      BY <1>2, <1>3, <2>1, Goes
  <1>5. child' \in [Assignments -> ChildRec]
    <2>1. [state |-> "running", program |-> program, unsent |-> PackageSize,
           input |-> 0, left |-> size, said |-> 0] \in ChildRec
      BY PipesHold DEF ChildRec
    <2> QED
      BY <1>1, <1>3, <2>1 DEF IInv, TypeOK
  <1>6. TypeOK'
    <2>1. launches' \in [Assignments -> Nat]
      BY <1>2, <1>3 DEF IInv, TypeOK
    <2> QED
      BY <1>2, <1>4, <1>5, <2>1 DEF IInv, TypeOK
  <1>7. Staged'
    BY <1>2, <1>3, <1>4 DEF Staged, Idle
  <1>8. \A b \in Assignments : b # a => child'[b] = child[b] /\ launches'[b] = launches[b]
    BY <1>1, <1>2 DEF IInv, TypeOK
  <1>9. child'[a].state = "running" /\ launches'[a] = 1
    BY <1>1, <1>2, <1>3 DEF IInv, TypeOK
  <1>10. Counted' /\ OneLaunch'
    BY <1>2, <1>3, <1>8, <1>9 DEF IInv, Local, Shown, Counted, OneLaunch
  <1>11. CompletedOnSuccess'
    BY <1>3, <1>4 DEF CompletedOnSuccess
  <1>12. \A b \in Assignments : Tended(b) => Tended(b)'
    BY <1>2, <1>4, Launched DEF Tended
  <1>13. ActiveIsTended'
    BY <1>2, <1>12 DEF IInv, Shown, ActiveIsTended
  <1> QED
    BY <1>4, <1>6, <1>7, <1>10, <1>11, <1>13 DEF IInv, Local, Shown


\* The launch fails, the package is written, or the provider has ended.
LEMMA MoveStep ==
  ASSUME IInv, NEW p \in Processes,
         CannotSpawn(p) \/ BreakPipe(p) \/ EndFeed(p) \/ Reap(p)
  PROVE  IInv'
  <1> DEFINE a == proc[p].a
  <1>1. /\ proc[p].pc \in {"launch", "feed", "drain"}
        /\ UNCHANGED <<owner, phase, child, launches, abandoned>>
    BY DEF CannotSpawn, BreakPipe, EndFeed, Reap, Broken, Goto
  <1>2. /\ a \in Assignments /\ proc[p].cmd = "handoff" /\ proc[p].to \in Ended
        /\ phase[a] = "Active"
        /\ \A q \in Processes, b \in Assignments : Tends(q, b) <=> q = p /\ b = a
    BY <1>1, Launched
  <1>3. PICK pc \in {"drain", "finish"}, to \in Ended :
          /\ proc' = [proc EXCEPT ![p] = proc'[p]]
          /\ proc'[p] = [cmd |-> "handoff", pc |-> pc, a |-> a, to |-> to]
          /\ pc = "drain" => child[a].unsent = 0
          /\ pc = "finish" /\ to = "Completed" =>
                child[a].state = "success" /\ child[a].unsent = 0 /\ child[a].said = 0
    <2>1. CASE CannotSpawn(p) \/ BreakPipe(p)
      <3>1. "finish" \in {"drain", "finish"} /\ "Failed" \in Ended
        BY DEF Ended
      <3>2. /\ proc' = [proc EXCEPT ![p] = proc'[p]]
            /\ proc'[p] = [cmd |-> "handoff", pc |-> "finish", a |-> a, to |-> "Failed"]
        BY <1>2, <2>1 DEF CannotSpawn, BreakPipe, Broken, IInv, TypeOK, ProcRec
      <3> QED
        BY <3>1, <3>2
    <2>2. CASE EndFeed(p)
      <3>1. /\ proc' = [proc EXCEPT ![p] = proc'[p]]
            /\ proc'[p] = [cmd |-> "handoff", pc |-> "drain", a |-> a, to |-> proc[p].to]
            /\ child[a].unsent = 0
        BY <1>2, <2>2 DEF EndFeed, Goto, IInv, TypeOK, ProcRec
      <3> QED
        BY <1>2, <3>1
    <2>3. CASE Reap(p)
      <3>1. /\ proc' = [proc EXCEPT ![p] = proc'[p]]
            /\ proc'[p] = [cmd |-> "handoff", pc |-> "finish", a |-> a, to |-> Reported(child[a].state)]
        BY <1>2, <2>3 DEF Reap, IInv, TypeOK, ProcRec
      <3>2. /\ Reported(child[a].state) \in Ended
            /\ Reported(child[a].state) = "Completed" => child[a].state = "success"
        BY DEF Reported, Ended
      <3>3. child[a].unsent = 0 /\ child[a].said = 0
        BY <2>3 DEF Reap, IInv, Local, Staged
      <3> QED
        BY <3>1, <3>2, <3>3
    <2> QED
      BY <2>1, <2>2, <2>3
  <1>4. /\ owner' \in Processes \cup {None} /\ proc' \in [Processes -> ProcRec]
        /\ \A q \in Processes : q # p => proc'[q] = Idle
        /\ Alone' /\ Shaped'
        /\ \A q \in Processes, b \in Assignments : Tends(q, b)' <=> q = p /\ b = a
    <2>1. pc \in {"launch", "feed", "drain", "finish"} /\ proc[p].pc \in {"start", "launch", "feed", "drain", "finish"}
      BY <1>1
    <2> QED
      BY <1>1, <1>3, <2>1, Goes
  <1>5. TypeOK' /\ Counted' /\ OneLaunch'
    BY <1>1, <1>4 DEF IInv, Local, Shown, TypeOK, Counted, OneLaunch
  <1>6. Staged'
    BY <1>1, <1>2, <1>3, <1>4 DEF Staged, Idle
  <1>7. child[a].state = "success" => child[a].left = 0
    BY <1>2 DEF IInv, Local, Counted
  <1>8. CompletedOnSuccess'
    BY <1>1, <1>3, <1>4, <1>7 DEF CompletedOnSuccess
  <1>9. ActiveIsTended'
    BY <1>1, <1>2, <1>4 DEF IInv, Shown, ActiveIsTended, Tended
  <1> QED
    BY <1>4, <1>5, <1>6, <1>8, <1>9 DEF IInv, Local, Shown

\* The outcome is stored, or lost.
LEMMA FinishStep ==
  ASSUME IInv, NEW p \in Processes, Finish(p) \/ CannotFinish(p)
  PROVE  IInv'
  <1> DEFINE a == proc[p].a
  <1>1. proc[p].pc = "finish" /\ Exit(p) /\ LeaveChild(p) /\ UNCHANGED launches
    BY DEF Finish, CannotFinish
  <1>2. /\ proc[p] # Idle /\ a \in Assignments /\ phase[a] = "Active" /\ proc[p].to \in Ended
        /\ \A q \in Processes, b \in Assignments : Tends(q, b) => b = a
    BY <1>1, Launched
  <1>3. \A b \in Assignments :
          child'[b] \in {child[b], [child[b] EXCEPT !.unsent = 0, !.said = 0]}
    BY <1>1 DEF LeaveChild
  <1>4. child' \in [Assignments -> ChildRec]
    <2>1. ASSUME NEW b \in Assignments
          PROVE  [child[b] EXCEPT !.unsent = 0, !.said = 0] \in ChildRec
      <3>1. child[b] \in ChildRec /\ 0 \in 0..PackageSize /\ 0 \in 0..PipeSize
        BY PipesHold DEF IInv, TypeOK
      <3> QED
        BY <3>1 DEF ChildRec
    <2> QED
      BY <1>1, <1>3, <2>1 DEF LeaveChild, IInv, TypeOK
  <1>5. \/ phase' = [phase EXCEPT ![a] = proc[p].to] /\ UNCHANGED abandoned
        \/ UNCHANGED phase /\ abandoned' = [abandoned EXCEPT ![a] = TRUE]
    BY <1>2 DEF Finish, CannotFinish, FinishExecution
  <1>6. TypeOK'
    BY <1>1, <1>2, <1>4, <1>5, ExitStep DEF IInv, TypeOK, Phase
  <1>7. Counted' /\ OneLaunch'
    <2>1. \A b \in Assignments : phase'[b] \in {"Absent", "Pending"} => phase[b] = phase'[b]
      BY <1>2, <1>5 DEF IInv, TypeOK, Ended
    <2>2. \A b \in Assignments : child'[b].state = child[b].state /\ child'[b].left = child[b].left
      BY <1>3 DEF IInv, TypeOK, ChildRec
    <2> QED
      BY <1>1, <2>1, <2>2 DEF IInv, Local, Shown, Counted, OneLaunch
  <1>8. \A b \in Assignments : b # a /\ phase[b] = "Active" => abandoned[b]
    BY <1>2 DEF IInv, Shown, ActiveIsTended, Tended
  <1>9. ActiveIsTended'
    BY <1>2, <1>5, <1>8 DEF IInv, TypeOK, ActiveIsTended, Ended
  <1> QED
    BY <1>1, <1>2, <1>6, <1>7, <1>9, ExitStep DEF IInv, Local, Shown

\* The pipes fill and drain, and providers run, whatever commands do.  A provider that
\* has ended writes nothing more.
LEMMA PipeStep ==
  ASSUME IInv, NEW a \in Assignments, UNCHANGED <<owner, phase, proc, launches, abandoned>>,
         child' = [child EXCEPT ![a] = child'[a]], child'[a] \in ChildRec,
         child'[a].unsent <= child[a].unsent,
         child[a].state = "success" =>
            child'[a].state = "success" /\ child'[a].left = 0 /\ child'[a].said <= child[a].said,
         child'[a].state \in {"success", "failure"} => child'[a].left = 0
  PROVE  IInv'
  <1>1. TypeOK'
    BY DEF IInv, TypeOK
  <1>2. \A b \in Assignments : b # a => child'[b] = child[b]
    BY DEF IInv, TypeOK
  <1>3. child[a] \in ChildRec
    BY DEF IInv, TypeOK
  <1>4. Alone' /\ Shaped' /\ OneLaunch'
    BY DEF IInv, Local, Shown, Alone, Shaped, OneLaunch
  <1>5. child[a].unsent = 0 => child'[a].unsent = 0
    BY <1>3 DEF ChildRec
  <1>6. Staged'
    BY <1>2, <1>5 DEF IInv, Local, Shaped, Staged
  <1>7. Counted'
    BY <1>2 DEF IInv, Local, Counted
  <1>8. CompletedOnSuccess'
    BY <1>2, <1>3, <1>5 DEF IInv, Shown, CompletedOnSuccess, Tends, ChildRec
  <1>9. ActiveIsTended'
    BY DEF IInv, Shown, ActiveIsTended, Tended, Tends
  <1> QED
    BY <1>1, <1>4, <1>6, <1>7, <1>8, <1>9 DEF IInv, Local, Shown


LEMMA FeedStep ==
  ASSUME IInv, NEW p \in Processes, Feed(p) \/ Drain(p)
  PROVE  IInv'
  <1> DEFINE a == proc[p].a
  <1>1. a \in Assignments /\ child[a] \in ChildRec
    BY Launched DEF Feed, Drain, IInv, TypeOK
  <1>2. CASE Feed(p)
    <2>1. /\ child' = [child EXCEPT ![a] = child'[a]]
          /\ child'[a] = [child[a] EXCEPT !.unsent = @ - 1, !.input = @ + 1]
          /\ child[a].state = "running" /\ child[a].unsent > 0 /\ child[a].input < PipeSize
          /\ UNCHANGED <<owner, phase, proc, launches, abandoned>>
      BY <1>1, <1>2 DEF Feed, Room, IInv, TypeOK
    <2>2. /\ child[a].unsent - 1 \in 0..PackageSize /\ child[a].input + 1 \in 0..PipeSize
          /\ child[a].unsent - 1 <= child[a].unsent
      BY <1>1, <2>1, PipesHold DEF ChildRec
    <2>3. /\ child'[a] \in ChildRec /\ child'[a].state = "running"
          /\ child'[a].unsent <= child[a].unsent
      BY <1>1, <2>1, <2>2 DEF ChildRec
    <2> QED
      BY <1>1, <2>1, <2>3, PipeStep
  <1>3. CASE Drain(p)
    <2>1. /\ child' = [child EXCEPT ![a] = child'[a]]
          /\ child'[a] = [child[a] EXCEPT !.said = @ - 1]
          /\ child[a].said > 0
          /\ UNCHANGED <<owner, phase, proc, launches, abandoned>>
      BY <1>1, <1>3 DEF Drain, IInv, TypeOK
    <2>2. /\ child'[a] \in ChildRec /\ child'[a].state = child[a].state
          /\ child'[a].unsent <= child[a].unsent /\ child'[a].said <= child[a].said
          /\ child'[a].left = child[a].left
      BY <1>1, <2>1, PipesHold DEF ChildRec
    <2>3. child[a].state \in {"success", "failure"} => child[a].left = 0
      BY <1>1 DEF IInv, Local, Counted
    <2> QED
      BY <1>1, <2>1, <2>2, <2>3, PipeStep
  <1> QED
    BY <1>2, <1>3

LEMMA ProviderSteps ==
  ASSUME IInv, NEW a \in Assignments, ProviderStep(a)
  PROVE  IInv'
  <1>1. child[a] \in ChildRec /\ child[a].state = "running"
        /\ UNCHANGED <<owner, phase, proc, launches, abandoned>>
    BY DEF ProviderStep, ReadInput, WriteOutput, Terminate, IInv, TypeOK
  <1>2. CASE ReadInput(a)
    <2>1. /\ child' = [child EXCEPT ![a] = child'[a]]
          /\ child'[a] = [child[a] EXCEPT !.input = @ - 1] /\ child[a].input > 0
      BY <1>2 DEF ReadInput, IInv, TypeOK
    <2>2. /\ child'[a] \in ChildRec /\ child'[a].state = "running"
          /\ child'[a].unsent <= child[a].unsent
      BY <1>1, <2>1, PipesHold DEF ChildRec
    <2> QED
      BY <1>1, <2>1, <2>2, PipeStep
  <1>3. CASE WriteOutput(a)
    <2>1. /\ child' = [child EXCEPT ![a] = child'[a]]
          /\ child[a].left > 0
          /\ \/ child'[a] = [child[a] EXCEPT !.left = @ - 1]
             \/ /\ child'[a] = [child[a] EXCEPT !.left = @ - 1, !.said = @ + 1]
                /\ child[a].said < PipeSize
      BY <1>3 DEF WriteOutput, IInv, TypeOK
    <2>2. /\ child[a].left - 1 \in 0..MaxOutput
          /\ child[a].said < PipeSize => child[a].said + 1 \in 0..PipeSize
      BY <1>1, <2>1, PipesHold DEF ChildRec
    <2>3. child'[a] \in ChildRec /\ child'[a].state = "running" /\ child'[a].unsent = child[a].unsent
      BY <1>1, <2>1, <2>2 DEF ChildRec
    <2>4. child'[a].unsent <= child[a].unsent
      BY <1>1, <2>3, PipesHold DEF ChildRec
    <2> QED
      BY <1>1, <2>1, <2>3, <2>4, PipeStep
  <1>4. CASE Terminate(a)
    <2>1. PICK exit \in {"success", "failure"} :
            child' = [child EXCEPT ![a].state = exit, ![a].input = 0, ![a].program = "reader"]
      BY <1>4 DEF Terminate
    <2>2. /\ child' = [child EXCEPT ![a] = child'[a]]
          /\ child'[a] = [child[a] EXCEPT !.state = exit, !.input = 0, !.program = "reader"]
          /\ child[a].left = 0
      BY <1>4, <2>1 DEF Terminate, IInv, TypeOK
    <2>3. 0 \in 0..PipeSize /\ "reader" \in Programs
      BY PipesHold DEF Programs
    <2>4. child'[a] \in ChildRec /\ child'[a].left = 0 /\ child'[a].unsent = child[a].unsent
      BY <1>1, <2>2, <2>3 DEF ChildRec
    <2>5. child'[a].unsent <= child[a].unsent
      BY <1>1, <2>4, PipesHold DEF ChildRec
    <2> QED
      BY <1>1, <2>2, <2>4, <2>5, PipeStep
  <1> QED
    BY <1>2, <1>3, <1>4 DEF ProviderStep

LEMMA StepInvariant == IInv /\ [Next]_vars => IInv'
  <1> SUFFICES ASSUME IInv, [Next]_vars PROVE IInv'
    OBVIOUS
  <1>1. CASE UNCHANGED vars
    BY <1>1 DEF vars, IInv, Local, Shown, TypeOK, Alone, Shaped, Staged, Counted, OneLaunch,
                CompletedOnSuccess, ActiveIsTended, Tended, Tends
  <1>2. ASSUME NEW p \in Processes, HandoffStep(p)
        PROVE  IInv'
    BY <1>2, ReadContextStep, StartHandoffStep, SpawnStep, MoveStep, FeedStep, FinishStep
    DEF HandoffStep
  <1>3. ASSUME NEW p \in Processes,
               \/ Command(p) \/ (\E a \in Assignments : Assign(p, a)) \/ Start(p)
               \/ LoadRun(p) \/ ReadStdin(p) \/ Verdict(p) \/ Kill(p)
        PROVE  IInv'
    BY <1>3, OpenStep, AssignStep, StartStep, VerdictStep, KillStep
  <1> QED
    BY <1>1, <1>2, <1>3, ProviderSteps DEF Next

-----------------------------------------------------------------------------
(* The theorems *)

\* The inductive invariant holds in every behaviour.
THEOREM Invariance == Spec => []IInv
  BY InitInvariant, StepInvariant, PTL DEF Spec

\* A provider is launched at most once for an assignment, whatever is killed and run
\* again.
THEOREM LaunchedOnce == Spec => []OneLaunch
  <1>1. IInv => OneLaunch
    BY DEF IInv, Shown
  <1> QED
    BY <1>1, Invariance, PTL

\* What a handoff reports is what its provider did, and a running execution is tended
\* unless its process was killed or failed.
THEOREM OutcomesHold == Spec => []OutcomesAreTrue
  <1>1. IInv => OutcomesAreTrue
    BY DEF IInv, Shown, OutcomesAreTrue
  <1> QED
    BY <1>1, Invariance, PTL


-----------------------------------------------------------------------------
(* The steps of an assignment *)

Moves == {<<"Absent", "Pending">>, <<"Pending", "Active">>} \cup ({"Active"} \X Ended)

\* A step moves at most one assignment on.  It is a command without pipes that does,
\* or a handoff that has not launched or has just finished.
LEMMA PhaseStep ==
  ASSUME IInv, Next
  PROVE  \/ UNCHANGED phase
         \/ \E a \in Assignments, p \in Processes, s \in Phase :
               /\ phase' = [phase EXCEPT ![a] = s] /\ <<phase[a], s>> \in Moves
               /\ proc[p] # Idle
               /\ Tends(p, a) => proc[p].pc = "finish" /\ proc'[p] = Idle
  <1>1. ASSUME NEW p \in Processes, NEW a \in Assignments, Assign(p, a), phase' # phase
        PROVE  /\ phase' = [phase EXCEPT ![a] = "Pending"] /\ phase[a] = "Absent"
               /\ proc[p] # Idle /\ ~Tends(p, a)
    BY <1>1, Running DEF Assign, Tends
  <1>2. ASSUME NEW p \in Processes, Start(p), phase' # phase
        PROVE  /\ proc[p].a \in Assignments /\ phase[proc[p].a] = "Pending"
               /\ phase' = [phase EXCEPT ![proc[p].a] = "Active"]
               /\ proc[p] # Idle /\ ~Tends(p, proc[p].a)
    BY <1>2, Running DEF Start, StartExecution, Tends, IInv, Local, Shaped
  <1>3. ASSUME NEW p \in Processes, StartHandoff(p), phase' # phase
        PROVE  /\ proc[p].a \in Assignments /\ phase[proc[p].a] = "Pending"
               /\ phase' = [phase EXCEPT ![proc[p].a] = "Active"]
               /\ proc[p] # Idle /\ ~Tends(p, proc[p].a)
    BY <1>3, Running DEF StartHandoff, StartExecution, Tends, IInv, Local, Shaped
  <1>4. ASSUME NEW p \in Processes, Verdict(p), phase' # phase
        PROVE  /\ proc[p].a \in Assignments /\ proc[p].to \in Ended
               /\ phase[proc[p].a] = "Active"
               /\ phase' = [phase EXCEPT ![proc[p].a] = proc[p].to]
               /\ proc[p] # Idle /\ ~Tends(p, proc[p].a)
    BY <1>4, Running DEF Verdict, FinishExecution, Tends, IInv, Local, Shaped, TypeOK, ProcRec
  <1>5. ASSUME NEW p \in Processes, Finish(p), phase' # phase
        PROVE  /\ proc[p].a \in Assignments /\ proc[p].to \in Ended
               /\ phase[proc[p].a] = "Active"
               /\ phase' = [phase EXCEPT ![proc[p].a] = proc[p].to]
               /\ proc[p] # Idle /\ proc[p].pc = "finish" /\ proc'[p] = Idle
    BY <1>5, Launched DEF Finish, FinishExecution, Exit, IInv, TypeOK
  <1>6. \/ UNCHANGED phase
        \/ \E p \in Processes :
              \/ \E a \in Assignments : Assign(p, a)
              \/ Start(p) \/ StartHandoff(p) \/ Verdict(p) \/ Finish(p)
    BY DEF Next, Command, Open, LoadRun, ReadStdin, HandoffStep, ReadContext, Spawn, CannotSpawn,
           Feed, BreakPipe, EndFeed, Drain, Reap, CannotFinish, Kill, ProviderStep
  <1>7. {"Pending", "Active"} \cup Ended \subseteq Phase
    BY DEF Phase
  <1> QED
    BY <1>1, <1>2, <1>3, <1>4, <1>5, <1>6, <1>7 DEF Moves

\* Nobody ends an execution while its handoff waits for the provider.
THEOREM VerdictWaits == Spec => VerdictAfterHandoff
  <1> DEFINE Waits ==
        \A a \in Assignments, p \in Processes :
           Tends(p, a) /\ phase'[a] # phase[a] => proc[p].pc = "finish" /\ proc'[p] = Idle
  <1>1. IInv /\ [Next]_vars => [Waits]_vars
    <2> SUFFICES ASSUME IInv, Next PROVE Waits
      OBVIOUS
    <2>1. SUFFICES ASSUME NEW a \in Assignments, NEW p \in Processes, Tends(p, a),
                          phase'[a] # phase[a]
                   PROVE  proc[p].pc = "finish" /\ proc'[p] = Idle
      OBVIOUS
    <2>2. PICK b \in Assignments, q \in Processes, s \in Phase :
            /\ phase' = [phase EXCEPT ![b] = s] /\ proc[q] # Idle
            /\ Tends(q, b) => proc[q].pc = "finish" /\ proc'[q] = Idle
      BY <2>1, PhaseStep
    <2>3. a = b
      BY <2>1, <2>2 DEF IInv, TypeOK
    <2>4. p = q
      BY <2>1, <2>2, SoleTender DEF IInv, Local
    <2> QED
      BY <2>1, <2>2, <2>3, <2>4
  <1> QED
    BY <1>1, Invariance, PTL DEF Spec, VerdictAfterHandoff

\* The commands, the providers and whoever kills them move assignments as
\* ExecutionLifecycle says.
THEOREM ImplementsLifecycle == Spec => RefinesLifecycle
  <1>1. Init => Lifecycle!Init
    BY DEF Init, Lifecycle!Init, Stored, Ended
  <1>2. IInv /\ [Next]_vars => [Lifecycle!Next]_(Lifecycle!vars)
    <2> SUFFICES ASSUME IInv, [Next]_vars, phase' # phase
                 PROVE  Lifecycle!Next
      BY DEF Lifecycle!vars, Stored
    <2>1. PICK a \in Assignments, s \in Phase :
            phase' = [phase EXCEPT ![a] = s] /\ <<phase[a], s>> \in Moves
      BY PhaseStep DEF vars
    <2>2. phase \in [Assignments -> Phase]
      BY DEF IInv, TypeOK
    <2>3. CASE phase[a] = "Absent" /\ s = "Pending"
      BY <2>1, <2>2, <2>3 DEF Lifecycle!Next, Lifecycle!Assign, Stored, Ended
    <2>4. CASE phase[a] = "Pending" /\ s = "Active"
      BY <2>1, <2>2, <2>4 DEF Lifecycle!Next, Lifecycle!Start, Stored, Ended
    <2>5. CASE phase[a] = "Active" /\ s \in {"Completed", "Failed"}
      BY <2>1, <2>2, <2>5 DEF Lifecycle!Next, Lifecycle!Report, Stored, Ended
    <2>6. CASE phase[a] = "Active" /\ s = "Cancelled"
      BY <2>1, <2>2, <2>6 DEF Lifecycle!Next, Lifecycle!Cancel, Stored, Ended
    <2> QED
      BY <2>1, <2>3, <2>4, <2>5, <2>6 DEF Moves, Ended
  <1> QED
    BY <1>1, <1>2, Invariance, PTL DEF Spec, Lifecycle!Spec, RefinesLifecycle

=============================================================================
