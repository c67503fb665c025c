------------------------------- MODULE Handoff -------------------------------
(***************************************************************************)
(* The commands that carry an assignment out (crates/combe/src/cli.rs):     *)
(* `work assign`, `work start`, `work complete | fail | cancel` and         *)
(* `work handoff`, which launches a provider through LocalCliAdapter        *)
(* (crates/combe/src/participant_adapter.rs) and waits for it.  Every       *)
(* command is a process of its own; so is the window, whose assignments are *)
(* those of `work assign`.                                                  *)
(*                                                                          *)
(* One process at a time owns the database, from its first store call to    *)
(* its end (docs/FELTDB_LOCAL_CONCURRENCY.md); others fail to open it.  A   *)
(* process has one thread, so a store operation is one step here; how the   *)
(* store keeps operations of several threads apart is in ExecutionStore.    *)
(*                                                                          *)
(* A provider is a program that reads its input and writes output through   *)
(* pipes of PipeSize units; standard output and error are one pipe.  It may *)
(* outlive the command that launched it.                                    *)
(*                                                                          *)
(* Left out: which participant and provider are meant, what packages and    *)
(* outputs say, artifacts, heartbeats.                                      *)
(***************************************************************************)
EXTENDS Naturals

CONSTANTS
    Processes,     \* command lines, and the window
    Assignments,
    PackageSize,   \* units of a package written to a provider
    MaxOutput,     \* units a provider writes at most
    PipeSize,
    None

ASSUME PipesHold == PipeSize \in Nat \ {0} /\ PackageSize \in Nat /\ MaxOutput \in Nat
ASSUME NoneIsNobody == None \notin Processes \cup Assignments

VARIABLES
    owner,       \* the process that owns the database
    phase,       \* the state of each assignment, and of its one execution
    proc,        \* what each process is doing
    child,       \* the provider launched for each assignment
    launches,    \* how often that happened
    abandoned    \* nobody is left to report the outcome

vars == <<owner, phase, proc, child, launches, abandoned>>

Ended == {"Completed", "Failed", "Cancelled"}
Phase == {"Absent", "Pending", "Active"} \cup Ended

\* Reads its input to the end and then writes; writes first; never reads.
Programs == {"reader", "writer", "quitter"}

NoChild == [state |-> "none", program |-> "reader", unsent |-> 0, input |-> 0,
            left |-> 0, said |-> 0]
Idle == [cmd |-> "none", pc |-> "idle", a |-> None, to |-> "Failed"]

\* The process that holds the pipes of the provider of a.
Tends(p, a) == /\ proc[p].cmd = "handoff" /\ proc[p].a = a
               /\ proc[p].pc \in {"launch", "feed", "drain", "finish"}
Tended(a) == \E p \in Processes : Tends(p, a)
Feeds(a) == \E p \in Processes : Tends(p, a) /\ proc[p].pc = "feed"
Hears(a) == \E p \in Processes : Tends(p, a) /\ proc[p].pc \in {"feed", "drain"}

Init ==
    /\ owner = None
    /\ phase = [a \in Assignments |-> "Absent"]
    /\ proc = [p \in Processes |-> Idle]
    /\ child = [a \in Assignments |-> NoChild]
    /\ launches = [a \in Assignments |-> 0]
    /\ abandoned = [a \in Assignments |-> FALSE]

-----------------------------------------------------------------------------
(* A process opens the database, and gives it up when it ends *)

\* One process at a time has the database.
Available == owner = None

Open(p, cmd, pc, a, to) ==
    /\ proc[p] = Idle
    /\ Available
    /\ owner' = p
    /\ proc' = [proc EXCEPT ![p] = [cmd |-> cmd, pc |-> pc, a |-> a, to |-> to]]
    /\ UNCHANGED <<phase, child, launches, abandoned>>

Goto(p, pc) == proc' = [proc EXCEPT ![p].pc = pc] /\ UNCHANGED owner

Exit(p) ==
    /\ proc' = [proc EXCEPT ![p] = Idle]
    /\ owner' = IF owner = p THEN None ELSE owner

\* A provider lives on, but nobody holds the other ends of its pipes.
LeaveChild(p) ==
    child' = [a \in Assignments |->
        IF Tends(p, a) THEN [child[a] EXCEPT !.unsent = 0, !.said = 0] ELSE child[a]]

\* Killed, as when its terminal is closed.
Kill(p) ==
    /\ proc[p] # Idle
    /\ abandoned' = [a \in Assignments |-> abandoned[a] \/ Tends(p, a)]
    /\ LeaveChild(p)
    /\ Exit(p)
    /\ UNCHANGED <<phase, launches>>

-----------------------------------------------------------------------------
(* work assign *)

Assign(p, a) ==
    /\ proc[p].cmd = "assign"
    /\ phase[a] = "Absent"
    /\ phase' = [phase EXCEPT ![a] = "Pending"]
    /\ Exit(p)
    /\ UNCHANGED <<child, launches, abandoned>>

-----------------------------------------------------------------------------
(* start_execution, for `work start` and `work handoff` *)

\* An assignment that has an execution gets that one back.
StartExecution(a) ==
    IF phase[a] = "Pending" THEN phase' = [phase EXCEPT ![a] = "Active"]
                            ELSE UNCHANGED phase

\* `work start`: what runs is none of this process's business.
Start(p) ==
    LET a == proc[p].a IN
    /\ proc[p].cmd = "start"
    /\ StartExecution(a)
    /\ abandoned' = [abandoned EXCEPT ![a] = @ \/ phase[a] = "Pending"]
    /\ Exit(p)
    /\ UNCHANGED <<child, launches>>

-----------------------------------------------------------------------------
(* finish_execution, for every command that reports an outcome *)

\* MUTANT of FinishExecution: the stored status is not looked at.
FinishAnyway(a, to) == phase' = [phase EXCEPT ![a] = to]

\* A terminal execution is returned or refused; nothing is written.
FinishExecution(a, to) ==
    IF phase[a] = "Active" THEN phase' = [phase EXCEPT ![a] = to]
                           ELSE UNCHANGED phase

\* `work complete | fail | cancel`: finds the execution of its assignment.
LoadRun(p) ==
    LET a == proc[p].a IN
    /\ proc[p].cmd = "verdict" /\ proc[p].pc = "load"
    /\ IF phase[a] = "Pending" THEN Exit(p)
                       ELSE Goto(p, IF proc[p].to = "Cancelled" THEN "commit" ELSE "stdin")
    /\ UNCHANGED <<phase, child, launches, abandoned>>

\* The text of the result comes from the terminal.
ReadStdin(p) ==
    /\ proc[p].pc = "stdin"
    /\ Goto(p, "commit")
    /\ UNCHANGED <<phase, child, launches, abandoned>>

Verdict(p) ==
    /\ proc[p].cmd = "verdict" /\ proc[p].pc = "commit"
    /\ FinishExecution(proc[p].a, proc[p].to)
    /\ Exit(p)
    /\ UNCHANGED <<child, launches, abandoned>>

-----------------------------------------------------------------------------
(* work handoff *)

\* MUTANT of Offered: the handoff takes an assignment in any active state.
AnyActive(a) == phase[a] \in {"Pending", "Active"}

\* What the handoff looks for in the context.  Assignments are in the order of
\* the wall clock: any Pending one may come first.
Offered(a) == phase[a] = "Pending"

\* No Pending assignment, no worktree, no such provider: the command errs.
ReadContext(p) ==
    /\ proc[p].cmd = "handoff" /\ proc[p].pc = "context"
    /\ \/ \E a \in Assignments :
            /\ Offered(a)
            /\ proc' = [proc EXCEPT ![p].pc = "start", ![p].a = a]
            /\ UNCHANGED owner
       \/ Exit(p)
    /\ UNCHANGED <<phase, child, launches, abandoned>>

StartHandoff(p) ==
    /\ proc[p].cmd = "handoff" /\ proc[p].pc = "start"
    /\ StartExecution(proc[p].a)
    /\ Goto(p, "launch")
    /\ UNCHANGED <<child, launches, abandoned>>

Spawn(p) ==
    LET a == proc[p].a IN
    /\ proc[p].pc = "launch"
    /\ \E program \in Programs, size \in 0..MaxOutput :
          child' = [child EXCEPT ![a] =
             [state |-> "running", program |-> program, unsent |-> PackageSize,
              input |-> 0, left |-> size, said |-> 0]]
    /\ launches' = [launches EXCEPT ![a] = @ + 1]
    /\ Goto(p, "feed")
    /\ UNCHANGED <<phase, abandoned>>

\* MUTANT of Broken: the error of launch ends the command.
PassOn(p) == Exit(p)

\* An error of launch is an outcome: Failed.
Broken(p) == proc' = [proc EXCEPT ![p].pc = "finish", ![p].to = "Failed"] /\ UNCHANGED owner

CannotSpawn(p) ==
    /\ proc[p].pc = "launch"
    /\ Broken(p)
    /\ UNCHANGED <<phase, child, launches, abandoned>>

\* A pipe holds PipeSize.
Room(a) == child[a].input < PipeSize

\* write_all: as much as the pipe takes.
Feed(p) ==
    LET a == proc[p].a IN
    /\ proc[p].pc = "feed"
    /\ child[a].state = "running" /\ child[a].unsent > 0 /\ Room(a)
    /\ child' = [child EXCEPT ![a].unsent = @ - 1, ![a].input = @ + 1]
    /\ UNCHANGED <<owner, phase, proc, launches, abandoned>>

\* write_all fails when the provider is gone.
BreakPipe(p) ==
    /\ proc[p].pc = "feed"
    /\ child[proc[p].a].state # "running" /\ child[proc[p].a].unsent > 0
    /\ Broken(p)
    /\ UNCHANGED <<phase, child, launches, abandoned>>

\* The end of the statement closes the provider's input.
EndFeed(p) ==
    /\ proc[p].pc = "feed"
    /\ child[proc[p].a].unsent = 0
    /\ Goto(p, "drain")
    /\ UNCHANGED <<phase, child, launches, abandoned>>

\* wait_with_output: reads until the provider has closed its output.
Drain(p) ==
    LET a == proc[p].a IN
    /\ proc[p].pc = "drain" /\ child[a].said > 0
    /\ child' = [child EXCEPT ![a].said = @ - 1]
    /\ UNCHANGED <<owner, phase, proc, launches, abandoned>>

\* The outcome of what the provider returned.
Reported(exit) == IF exit = "success" THEN "Completed" ELSE "Failed"

Reap(p) ==
    LET a == proc[p].a IN
    /\ proc[p].pc = "drain"
    /\ child[a].state # "running" /\ child[a].said = 0
    /\ proc' = [proc EXCEPT ![p].pc = "finish", ![p].to = Reported(child[a].state)]
    /\ UNCHANGED <<owner, phase, child, launches, abandoned>>

Finish(p) ==
    /\ proc[p].cmd = "handoff" /\ proc[p].pc = "finish"
    /\ FinishExecution(proc[p].a, proc[p].to)
    /\ LeaveChild(p)
    /\ Exit(p)
    /\ UNCHANGED <<launches, abandoned>>

\* The worktree's path cannot be read, or the transaction fails: the error ends
\* the command and the outcome is lost.
CannotFinish(p) ==
    /\ proc[p].cmd = "handoff" /\ proc[p].pc = "finish"
    /\ abandoned' = [abandoned EXCEPT ![proc[p].a] = TRUE]
    /\ LeaveChild(p)
    /\ Exit(p)
    /\ UNCHANGED <<phase, launches>>

-----------------------------------------------------------------------------
(* The provider *)

\* MUTANT of AtEof: the command keeps the provider's input open while it waits.
OpenWhileHeard(a) == child[a].input = 0 /\ ~Hears(a)
AtEof(a) == child[a].input = 0 /\ ~Feeds(a)

ReadInput(a) ==
    /\ child[a].state = "running" /\ child[a].input > 0
    /\ \/ child[a].program = "reader"
       \/ child[a].program = "writer" /\ child[a].left = 0
    /\ child' = [child EXCEPT ![a].input = @ - 1]

\* What nobody reads is lost.
WriteOutput(a) ==
    /\ child[a].state = "running" /\ child[a].left > 0
    /\ child[a].program = "reader" => AtEof(a)
    /\ IF Hears(a)
         THEN /\ child[a].said < PipeSize
              /\ child' = [child EXCEPT ![a].left = @ - 1, ![a].said = @ + 1]
         ELSE child' = [child EXCEPT ![a].left = @ - 1]

Terminate(a) ==
    /\ child[a].state = "running" /\ child[a].left = 0
    /\ child[a].program # "quitter" => AtEof(a)
    /\ \E exit \in {"success", "failure"} :
          child' = [child EXCEPT ![a].state = exit, ![a].input = 0,
                                 ![a].program = "reader"]

ProviderStep(a) ==
    /\ ReadInput(a) \/ WriteOutput(a) \/ Terminate(a)
    /\ UNCHANGED <<owner, phase, proc, launches, abandoned>>

-----------------------------------------------------------------------------

\* What a handoff does once it is running.
HandoffStep(p) ==
    \/ ReadContext(p) \/ StartHandoff(p) \/ Spawn(p) \/ CannotSpawn(p)
    \/ Feed(p) \/ BreakPipe(p) \/ EndFeed(p) \/ Drain(p) \/ Reap(p)
    \/ Finish(p) \/ CannotFinish(p)

\* A user runs a command.
Command(p) ==
    \/ Open(p, "handoff", "context", None, "Failed")
    \/ Open(p, "assign", "commit", None, "Failed")
    \/ \E a \in Assignments :
          \/ phase[a] # "Absent" /\ Open(p, "start", "commit", a, "Failed")
          \/ \E to \in Ended : phase[a] # "Absent" /\ Open(p, "verdict", "load", a, to)

Next ==
    \/ \E p \in Processes :
          \/ Command(p)
          \/ \E a \in Assignments : Assign(p, a)
          \/ Start(p)
          \/ LoadRun(p) \/ ReadStdin(p) \/ Verdict(p)
          \/ HandoffStep(p)
          \/ Kill(p)
    \/ \E a \in Assignments : ProviderStep(a)

Spec == Init /\ [][Next]_vars

\* The operating system runs the command that waits and the provider it waits
\* for.  Users owe nothing: commands need not be typed, nor answered.
Fairness ==
    /\ \A p \in Processes : WF_vars(HandoffStep(p))
    /\ \A a \in Assignments : WF_vars(ProviderStep(a))

FairSpec == Spec /\ Fairness

-----------------------------------------------------------------------------
(* Properties *)

ProcRec == [cmd: {"none", "handoff", "assign", "start", "verdict"},
            pc: {"idle", "context", "start", "launch", "feed", "drain", "finish",
                 "load", "stdin", "commit"},
            a: Assignments \cup {None}, to: Ended]
ChildRec == [state: {"none", "running", "success", "failure"}, program: Programs,
             unsent: 0..PackageSize, input: 0..PipeSize, left: 0..MaxOutput,
             said: 0..PipeSize]

\* Every variable has its type; pipes hold no more than they can.
TypeOK ==
    /\ owner \in Processes \cup {None}
    /\ phase \in [Assignments -> Phase]
    /\ proc \in [Processes -> ProcRec]
    /\ child \in [Assignments -> ChildRec]
    /\ launches \in [Assignments -> Nat]
    /\ abandoned \in [Assignments -> BOOLEAN]

\* A provider is launched at most once for an assignment, however many handoffs
\* run, are killed and are run again: work_handoff takes the answer of
\* start_execution for its own start, which is right only because no other
\* process can write between its context and its start.
OneLaunch == \A a \in Assignments : launches[a] <= 1

\* A handoff reports Completed only if its provider was sent all of the package,
\* ended successfully, and all its output was taken.
CompletedOnSuccess ==
    \A p \in Processes, a \in Assignments :
        /\ Tends(p, a) /\ proc[p].pc = "finish" /\ proc[p].to = "Completed"
        => /\ child[a].state = "success"
           /\ child[a].unsent = 0 /\ child[a].left = 0 /\ child[a].said = 0

\* A running execution has a process that will report it, unless that process
\* was killed or could not store the outcome, or the execution was declared by
\* `work start`: errors of the launch itself are outcomes.
ActiveIsTended ==
    \A a \in Assignments : phase[a] = "Active" /\ ~abandoned[a] => Tended(a)

\* What a handoff reports is what its provider did, and no execution is left without
\* somebody to report it.
OutcomesAreTrue == TypeOK /\ CompletedOnSuccess /\ ActiveIsTended

\* While a handoff waits for its provider nobody else ends the execution.
VerdictAfterHandoff ==
    [][\A a \in Assignments, p \in Processes :
         Tends(p, a) /\ phase'[a] # phase[a] => proc[p].pc = "finish" /\ proc'[p] = Idle]_vars

\* The commands implement what docs/WORK_EXECUTION.md says of assignments.
\* That the execution, its result and the status of the assignment are stored
\* together is shown in ExecutionStore; here they are one variable.
Stored(S) == [a \in Assignments |-> IF phase[a] \in S THEN {a} ELSE {}]
Lifecycle == INSTANCE ExecutionLifecycle WITH
    Executions <- Assignments, Results <- Assignments,
    runs <- Stored({"Active"} \cup Ended), output <- Stored({"Completed", "Failed"})
RefinesLifecycle == Lifecycle!Spec

\* A handoff gives the database back, unless its provider is one that writes
\* more than a pipe holds before it reads a package larger than a pipe: launch
\* writes everything before it reads anything.
Stuck(a) ==
    /\ child[a].program # "reader"
    /\ PackageSize > PipeSize
    /\ child[a].left + child[a].said > PipeSize
HandoffEnds ==
    \A p \in Processes :
        (proc[p].cmd = "handoff") ~>
            (proc[p].cmd # "handoff" \/ \E a \in Assignments : Tends(p, a) /\ Stuck(a))
=============================================================================
