----------------------------- MODULE QuotaReader -----------------------------
(***************************************************************************)
(* How a quota is read from the files other programs write (Reader in       *)
(* crates/combe/src/quota.rs): Claude's snapshot, and the last events in    *)
(* the logs of the most recent Codex sessions, while the sessions append to *)
(* them.  A reading is kept under the stamp of the file it was made of.     *)
(*                                                                          *)
(* The unit of a file's length is half a line, so that both the end of a    *)
(* file and the start of what is read of it may lie within a line.          *)
(***************************************************************************)
EXTENDS Integers, Sequences, FiniteSets, FiniteSetsExt

CONSTANTS
    Logs, Claude,   \* the files: rollout-*.jsonl, rate-limits.json
    Candidates,     \* CODEX_CANDIDATE_FILES
    Budget,         \* CODEX_TAIL_BYTES, in halves of lines
    MaxTime, MaxWrites, \* bounds: clock, writes of the other programs
    None

VARIABLES
    disk,    \* the files
    clock,   \* the clock of modification times; writes may share a tick
    cache,   \* Reader.files
    thread,  \* a refresh
    shown,   \* the Refresh it ended with
    calm     \* nothing was written since the last refresh began

vars == <<disk, clock, cache, thread, shown, calm>>
files == <<disk, clock>>

Files == Logs \cup {Claude}

\* A line is the time of the quota in it, or 0: some other event, another bucket,
\* an unsupported window.
Size(file) == 2 * Len(file.lines) - (IF file.partial THEN 1 ELSE 0)
Stamp(file) == <<file.ino, Size(file), file.mtime>>

Init ==
    /\ disk = [f \in Files |-> None]
    /\ clock = 1
    /\ cache = [f \in {} |-> 0]
    /\ thread = None
    /\ shown = [claude |-> 0, codex |-> 0]
    /\ calm = FALSE

-----------------------------------------------------------------------------
(* The other programs. *)

\* Every write lengthens a log or replaces Claude's file.
Writes(f) == IF disk[f] = None THEN 0 ELSE IF f = Claude THEN disk[f].ino ELSE Size(disk[f])

Write(f, file) ==
    /\ \E t \in {clock, clock + 1} :
        /\ t <= MaxTime /\ MapThenSumSet(Writes, Files) < MaxWrites
        /\ clock' = t
        /\ disk' = [disk EXCEPT ![f] = [file EXCEPT !.mtime = t]]
    /\ calm' = FALSE
    /\ UNCHANGED <<cache, thread, shown>>

\* A session begins, or continues with the first half of a line.
AddLine(l, at) ==
    LET old == disk[l] IN
    IF old = None THEN Write(l, [ino |-> 1, mtime |-> 0, lines |-> <<at>>, partial |-> TRUE])
    ELSE /\ ~old.partial
         /\ Write(l, [old EXCEPT !.lines = Append(@, at), !.partial = TRUE])

EndLine(l) ==
    /\ disk[l] # None /\ disk[l].partial
    /\ Write(l, [disk[l] EXCEPT !.partial = FALSE])

\* The status line's writer puts another file in place; two lines stand for one
\* that is longer than CLAUDE_CACHE_BYTES.
Replace(lines) ==
    LET ino == IF disk[Claude] = None THEN 1 ELSE disk[Claude].ino + 1 IN
    Write(Claude, [ino |-> ino, mtime |-> 0, lines |-> lines, partial |-> FALSE])

-----------------------------------------------------------------------------
(* A refresh. *)

\* What is read of a file that was size long when opened: what lies between start
\* and start + budget by now.
Start(f, size) == LET s == size - (IF f = Claude THEN 2 ELSE Budget) IN IF s < 0 THEN 0 ELSE s

Whole(i, first, last) == 2 * i <= last /\ 2 * i - 2 >= first

\* The newest event in whole lines; the first line after start is skipped.
Parse(f, file, size) ==
    LET start == Start(f, size)
        first == IF start = 0 THEN 0 ELSE 2 * ((start + 2) \div 2)
        end   == Min({start + Budget, Size(file)})
    IN IF f = Claude THEN (IF start = 0 THEN file.lines[1] ELSE 0)
       ELSE Max({0} \cup {file.lines[i] : i \in {j \in DOMAIN file.lines : Whole(j, first, end)}})

\* rollout_files, sorted and cut: the latest modified; of the same time some.
Chosen(set) ==
    LET logs == {l \in Logs : disk[l] # None} IN
    /\ set \subseteq logs
    /\ Cardinality(set) = Min({Candidates, Cardinality(logs)})
    /\ \A l \in set, k \in logs \ set : disk[l].mtime >= disk[k].mtime

Begin ==
    /\ thread = None
    /\ thread' = [todo |-> {Claude}, chosen |-> None, open |-> None, claude |-> 0, codex |-> 0]
    /\ calm' = TRUE
    /\ UNCHANGED <<disk, clock, cache, shown>>

List(set) ==
    /\ thread # None /\ thread.todo = {} /\ thread.open = None /\ thread.chosen = None
    /\ Chosen(set)
    /\ thread' = [thread EXCEPT !.todo = set, !.chosen = set]
    /\ UNCHANGED <<disk, clock, cache, shown, calm>>

\* filter_map, max_by_key.
Found(f, quota) ==
    IF f = Claude THEN [thread EXCEPT !.todo = @ \ {f}, !.open = None, !.claude = quota]
    ELSE [thread EXCEPT !.todo = @ \ {f}, !.open = None, !.codex = Max({@, quota})]

\* read: a file that is gone has no quota, one with the stamp of the cache that of
\* the cache; another is opened.
Open(f) ==
    /\ thread # None /\ f \in thread.todo /\ thread.open = None
    /\ thread' =
        IF disk[f] = None THEN Found(f, 0)
        ELSE IF f \in DOMAIN cache /\ cache[f].stamp = Stamp(disk[f])
        THEN Found(f, cache[f].quota)
        ELSE [thread EXCEPT !.open = [name |-> f, file |-> disk[f]]]
    /\ UNCHANGED <<disk, clock, cache, shown, calm>>

\* The file that was opened, as it is now; one that was replaced stays as it was.
Opened ==
    LET f == thread.open.name IN
    IF disk[f].ino = thread.open.file.ino
    THEN disk[f] ELSE thread.open.file

\* MUTANT of KeptStamp: taken after the reading.
StampAfter == Stamp(Opened)

\* Taken from the open file before it is read.
KeptStamp == Stamp(thread.open.file)

Read ==
    /\ thread # None /\ thread.open # None
    /\ LET f     == thread.open.name
           quota == Parse(f, Opened, Size(thread.open.file))
       IN /\ cache' = [g \in (DOMAIN cache) \cup {f} |->
                          IF g = f THEN [stamp |-> KeptStamp, quota |-> quota] ELSE cache[g]]
          /\ thread' = Found(f, quota)
    /\ UNCHANGED <<disk, clock, shown, calm>>

\* What the cache keeps.
Retained == (DOMAIN cache) \cap (thread.chosen \cup {Claude})

Finish ==
    /\ thread # None /\ thread.chosen # None /\ thread.todo = {}
    /\ shown' = [claude |-> thread.claude, codex |-> thread.codex]
    /\ cache' = [f \in Retained |-> cache[f]]
    /\ thread' = None
    /\ UNCHANGED <<disk, clock, calm>>

Next ==
    \/ \E l \in Logs : EndLine(l) \/ \E at \in {0, clock} : AddLine(l, at)
    \/ \E lines \in {<<clock>>, <<0, 0>>} : Replace(lines)
    \/ Begin \/ Read \/ Finish
    \/ \E set \in SUBSET Logs : List(set)
    \/ \E f \in Files : Open(f)

Spec == Init /\ [][Next]_vars

-----------------------------------------------------------------------------
(* Properties *)

File == [ino: Nat \ {0}, mtime: 1..MaxTime, lines: Seq(0..MaxTime) \ {<<>>}, partial: BOOLEAN]
Reading == [stamp: Nat \X Nat \X Nat, quota: 0..MaxTime]
Handle == [name: Files, file: File]
Refresh == [todo: SUBSET Files, chosen: (SUBSET Logs) \cup {None}, open: Handle \cup {None},
            claude: 0..MaxTime, codex: 0..MaxTime]

\* Every variable has its type; between refreshes the cache holds the files of the
\* last one and no others.
TypeOK ==
    /\ disk \in [Files -> File \cup {None}] /\ clock \in 1..MaxTime
    /\ DOMAIN cache \subseteq Files /\ \A f \in DOMAIN cache : cache[f] \in Reading
    /\ thread \in Refresh \cup {None}
    /\ thread = None => Cardinality(DOMAIN cache) <= Candidates + 1
    /\ shown \in [claude: 0..MaxTime, codex: 0..MaxTime] /\ calm \in BOOLEAN

\* "Unchanged files reuse their parsed in-memory snapshots" (docs/DESIGN.md:275),
\* and only they: what is kept under the present stamp of a file is what reading
\* it now would give, however it was written to while it was read.
CacheIsSound ==
    \A f \in DOMAIN cache :
        cache[f].stamp = Stamp(disk[f])
            => cache[f].quota = Parse(f, disk[f], Size(disk[f]))

\* The events a reading has to find: those in the last whole lines of a log.
Visible(l) ==
    IF disk[l] = None THEN {}
    ELSE {disk[l].lines[i] : i \in {j \in DOMAIN disk[l].lines :
            2 * j <= Size(disk[l]) /\ 2 * j - 2 > Size(disk[l]) - Budget}}

\* Logs that fewer than Candidates others may be preferred to.
Recent ==
    {l \in Logs : disk[l] # None /\ Candidates >
        Cardinality({k \in Logs \ {l} : disk[k] # None /\ disk[k].mtime >= disk[l].mtime})}

Ended(l) == {disk[l].lines[i] : i \in {j \in DOMAIN disk[l].lines : 2 * j <= Size(disk[l])}}

\* A refresh shows "the newest timestamped event" of the recent logs, from a line
\* that has ended (docs/DESIGN.md:275), and Claude's file as it is, if nothing was
\* written since the refresh began.
ShownIsNewest ==
    thread = None /\ calm =>
        /\ \A l \in Recent : \A at \in Visible(l) : at <= shown.codex
        /\ shown.codex = 0 \/ \E l \in Logs : disk[l] # None /\ shown.codex \in Ended(l)
        /\ shown.claude = IF disk[Claude] = None \/ Len(disk[Claude].lines) > 1 THEN 0
                          ELSE disk[Claude].lines[1]
=============================================================================
