---------------------------- MODULE ContextAssembly ----------------------------
(***************************************************************************)
(* The package a provider is given (ContextAssembler::assemble in           *)
(* crates/combe-state/src/context_assembly.rs): the Work and its worktree,  *)
(* then files and other items in an order, cut to bounds of items,          *)
(* references and bytes, while hints and files change between two sends.    *)
(*                                                                          *)
(* A file is its path, a number in the order of paths; an item and a small  *)
(* file count as one byte.  Decisions and the other kinds, which are ranked *)
(* around the files, are left out.                                          *)
(***************************************************************************)
EXTENDS Integers, Sequences, FiniteSets, SequencesExt

CONSTANTS
    Paths,       \* File paths, 1..n
    Sensitive,   \* those that may contain credentials
    MaxItems, MaxBytes, MaxReferences, MaxContent, MaxFile,  \* the request's bounds
    None

\* A path is numbered from 1; a request with room for less than two items, or for few
\* bytes, is refused.
ASSUME RequestAssumption ==
    /\ Paths \subseteq Nat \ {0} /\ IsFiniteSet(Paths) /\ Sensitive \subseteq Paths
    /\ MaxItems \in Nat /\ MaxItems >= 2 /\ MaxBytes \in Nat /\ MaxBytes > 2
    /\ {MaxReferences, MaxContent, MaxFile} \subseteq Nat

VARIABLES
    hints,    \* the Work's file hints
    disk,     \* what is at each path
    attached, \* paths of File nodes in the Work's part of the graph
    score,    \* repository_score of each path for the message
    objective,\* size of the Work's item, its objective
    package   \* the package sent last, until something changes

vars == <<hints, disk, attached, score, objective, package>>

\* A text of the size the bound allows, a longer one, one with a key in it or not
\* in UTF-8, a path that is gone or leads out of the worktree.
Files == {"small", "large", "secret", "gone"}
FileSize == [small |-> 1, large |-> MaxFile + 1, secret |-> 1, gone |-> 0]

\* Nothing matches; the file is one of orientation; ten words of the message match.
Scores == {0, 1000, 5500}

\* The relevance of a file the Work includes.
Included == 5000

Init ==
    /\ hints = [p \in Paths |-> "none"]
    /\ disk \in [Paths -> Files] /\ \A p \in Sensitive : disk[p] = "small"
    /\ attached \in SUBSET Paths
    /\ score \in [Paths -> Scores] /\ \A p \in Sensitive : score[p] = 0
    /\ objective \in {1, MaxBytes - 2, MaxBytes - 1, MaxBytes + 1}
    /\ package = None

-----------------------------------------------------------------------------
(* assemble *)

\* What the path of a node or an item is shown as: all sensitive ones are the same.
Reference(p) == IF p \in Sensitive THEN 0 ELSE p

Graphed == {[path |-> Reference(p), from |-> "graph", relevance |-> 0] : p \in attached}

\* repository_candidates
Found ==
    {[path |-> p, from |-> "worktree", relevance |-> score[p]] :
        p \in {q \in Paths \ Sensitive : disk[q] # "gone" /\ score[q] > 0}}

\* Of two candidates with one path the graph's comes first.
Once(cands) == {c \in cands : c.from = "graph" \/ \A d \in cands : d.path = c.path => d = c}

\* MUTANT of Automatic: what the Work excludes is left out of the worktree only.
AutomaticGraph ==
    Once(Graphed \cup {c \in Found : hints[c.path] # "exclude"})

\* The candidates of the graph and the worktree that the Work does not exclude.
Automatic ==
    Once({c \in Graphed \cup Found : c.path = 0 \/ hints[c.path] # "exclude"})

Raised(c) ==
    IF c.path # 0 /\ hints[c.path] = "include" /\ c.relevance < Included
    THEN [c EXCEPT !.relevance = Included] ELSE c

Hinted ==
    {[path |-> p, from |-> "hint", relevance |-> Included] :
        p \in {q \in Paths : hints[q] = "include" /\ \A c \in Automatic : c.path # q}}

\* The positions of graph nodes are those of their paths; an item without one comes
\* before those that have one.
Before(a, b) ==
    \/ a.relevance > b.relevance
    \/ a.relevance = b.relevance /\ a.from # "graph" /\ b.from = "graph"
    \/ a.relevance = b.relevance /\ (a.from = "graph" <=> b.from = "graph") /\ a.path < b.path

Sorted(cands) ==
    LET rank(c) == Cardinality({d \in cands : Before(d, c)}) + 1
    IN [i \in 1..Cardinality(cands) |-> CHOOSE c \in cands : rank(c) = i]

Fits(size, used) == size <= MaxFile /\ used + size <= MaxContent

\* materialize_file: the files in order, and the content they have used.
Content(cands) ==
    LET status(c, n, used) ==
            IF n + 2 > MaxReferences THEN "reference"
            ELSE IF c.path \in Sensitive \cup {0} THEN "excluded"
            ELSE IF disk[c.path] = "gone" THEN "unavailable"
            ELSE IF ~Fits(FileSize[disk[c.path]], used) THEN "reference"
            ELSE IF disk[c.path] = "secret" THEN "excluded"
            ELSE "included"
        done[n \in 0..Len(cands)] ==
            IF n = 0 THEN [items |-> <<>>, used |-> 0]
            ELSE LET c == cands[n]
                     s == status(c, n, done[n - 1].used)
                     size == IF s = "included" THEN FileSize[disk[c.path]] ELSE 0
                 IN [items |-> Append(done[n - 1].items,
                        [kind |-> "file", path |-> c.path, from |-> c.from, status |-> s, size |-> 1 + size]),
                     used  |-> done[n - 1].used + size]
    IN done[Len(cands)].items

Item(kind, size) == [kind |-> kind, path |-> 0, from |-> "graph", status |-> "none", size |-> size]

Sum(numbers) ==
    LET total[n \in 0..Len(numbers)] == IF n = 0 THEN 0 ELSE total[n - 1] + numbers[n]
    IN total[Len(numbers)]
Size(items) == Sum([i \in 1..Len(items) |-> items[i].size])

\* The items that fit, in order; one too long is passed over.
Cut(items) ==
    LET cut[n \in 0..Len(items)] ==
            IF n = 0 THEN <<>>
            ELSE LET out == cut[n - 1]
                 IN IF Len(out) < MaxItems /\ Size(out) + items[n].size <= MaxBytes
                    THEN Append(out, items[n]) ELSE out
    IN cut[Len(items)]

\* The package itself takes room: items are taken off its end, but never the first
\* two.
Trimmed(items, truncated) ==
    LET fits(n) == Size(SubSeq(items, 1, n)) + 1 <= MaxBytes
        least   == IF Len(items) < 2 THEN Len(items) ELSE 2
        n       == CHOOSE n \in least..Len(items) : fits(n) /\ (n = Len(items) \/ ~fits(n + 1))
    IN IF ~fits(least) THEN None
       ELSE [items |-> SubSeq(items, 1, n), truncated |-> truncated \/ n < Len(items)]

\* Whether the bounds left an item out.
Told(all, cut) == Len(cut) < Len(all)

Candidates == Sorted({Raised(c) : c \in Automatic} \cup Hinted)

Assembled ==
    LET all == <<Item("work", objective), Item("worktree", 1)>> \o Content(Candidates)
        cut == Cut(all)
    IN Trimmed(cut, Told(all, cut))

-----------------------------------------------------------------------------
\* set_context_file_hint
SetHint(p, hint) ==
    /\ hint # hints[p]
    /\ hints' = [hints EXCEPT ![p] = hint]
    /\ package' = None
    /\ UNCHANGED <<disk, attached, score, objective>>

\* The file is edited, removed or made.
ChangeFile(p, file) ==
    /\ p \notin Sensitive /\ file # disk[p]
    /\ disk' = [disk EXCEPT ![p] = file]
    /\ package' = None
    /\ UNCHANGED <<hints, attached, score, objective>>

\* Nothing is sent when the first two items do not fit.
Send ==
    /\ package = None
    /\ package' = Assembled
    /\ UNCHANGED <<hints, disk, attached, score, objective>>

Next ==
    \/ \E p \in Paths : \/ \E h \in {"none", "include", "exclude"} : SetHint(p, h)
                        \/ \E f \in Files : ChangeFile(p, f)
    \/ Send

Spec == Init /\ [][Next]_vars

-----------------------------------------------------------------------------
(* Properties *)

Sent == package # None
Shown == IF Sent THEN {i \in DOMAIN package.items : package.items[i].kind = "file"} ELSE {}
At(i) == package.items[i]

\* Every variable has its type.
TypeOK ==
    /\ hints \in [Paths -> {"none", "include", "exclude"}] /\ disk \in [Paths -> Files]
    /\ attached \subseteq Paths /\ score \in [Paths -> Scores]
    /\ \A i \in Shown : At(i).status \in {"reference", "excluded", "unavailable", "included"}

\* "Explicit excludes suppress" a file (docs/DESIGN.md:145), whether the graph or
\* the worktree has it.
ExcludedStaysOut == \A i \in Shown : At(i).path # 0 => hints[At(i).path] # "exclude"

\* What of the items is content of files.
ContentSize(items) ==
    Sum([i \in 1..Len(items) |-> IF items[i].status = "included" THEN items[i].size - 1 ELSE 0])

\* "Both item and serialized-byte limits are hard" (docs/DESIGN.md:155), and so is
\* the one of content.
BoundsAreHard ==
    Sent => /\ Len(package.items) <= MaxItems /\ Size(package.items) < MaxBytes
            /\ ContentSize(package.items) <= MaxContent

\* "Work and current Worktree lead" (docs/CONTEXT_ASSEMBLY.md:5), unless the Work's
\* item alone is longer than a package: then it is passed over.
WorkLeads ==
    Sent /\ objective <= MaxBytes =>
        Len(package.items) >= 2 /\ At(1).kind = "work" /\ At(2).kind = "worktree"

\* "Explicit includes lead automatic candidates" (docs/DESIGN.md:145), but for a
\* file whose path more than nine words of the message match.
IncludesLead ==
    \A i, j \in Shown :
        i < j /\ At(j).path # 0 /\ hints[At(j).path] = "include"
            => At(i).path # 0 /\ (hints[At(i).path] = "include" \/ score[At(i).path] > Included)

\* "Deterministic truncation is explicit" (docs/DESIGN.md:155): a package that does
\* not say so has every file that is to be in it.
TruncationIsTold ==
    Sent /\ ~package.truncated =>
        \A c \in Automatic \cup Hinted : \E i \in Shown : At(i).path = c.path

\* A package keeps its promises: what is excluded stays out, what leads leads, no bound
\* is passed and what is missing is told.
PackageKeepsPromises ==
    TypeOK /\ ExcludedStaysOut /\ BoundsAreHard /\ WorkLeads /\ IncludesLead /\ TruncationIsTold
===============================================================================
