----------------------------- MODULE CatalogFile -----------------------------
(***************************************************************************)
(* The file of registered repositories, state.json, and the processes that  *)
(* edit it (crates/combe-catalog/src/lib.rs, store.rs; crates/combe/src/    *)
(* sidebar.rs, cli.rs).  An edit loads the file, changes its copy and saves *)
(* the whole; nothing locks the file in between.  A save replaces it in one *)
(* step (a temporary file that is renamed).  The window's edit runs on its  *)
(* main thread, the others are commands in processes of their own.          *)
(***************************************************************************)
CONSTANTS Paths, Commands, Window, None

VARIABLES
    file,   \* registered paths
    dirs,   \* paths that are directories
    edit    \* what each writer has loaded and is about to save

vars == <<file, dirs, edit>>

Writers == Commands \cup {Window}
Ops == {"add", "remove", "clean"}

Edit(op, paths, base) == [op |-> op, paths |-> paths, base |-> base, overtaken |-> FALSE]

Init ==
    /\ file = {}
    /\ dirs \in SUBSET Paths
    /\ edit = [w \in Writers |-> None]

\* The copy after the edit.  A path that is no directory is not added; the window
\* gives up then, a command goes on with the others.
Applied(w) ==
    LET e == edit[w] IN
    CASE e.op = "add" -> e.base \cup (e.paths \cap dirs)
      [] e.op = "remove" -> e.base \ e.paths
      [] e.op = "clean" -> e.base \cap dirs

\* The window writes whenever nothing failed, a command when its copy changed.
Saves(w) ==
    IF w = Window THEN edit[w].paths \subseteq dirs ELSE Applied(w) # edit[w].base

\* MUTANT of Load: the copy of an earlier edit is used again.
LoadNothing(w, op, paths) ==
    /\ edit[w] = None
    /\ edit' = [edit EXCEPT ![w] = Edit(op, paths, {})]
    /\ UNCHANGED <<file, dirs>>

Load(w, op, paths) ==
    /\ edit[w] = None
    /\ edit' = [edit EXCEPT ![w] = Edit(op, paths, file)]
    /\ UNCHANGED <<file, dirs>>

WindowAdd(paths) == Load(Window, "add", paths)
Add(w, paths) == w \in Commands /\ Load(w, "add", paths)
Remove(w, paths) == w \in Commands /\ Load(w, "remove", paths)
Clean(w) == w \in Commands /\ Load(w, "clean", {})

Save(w) ==
    /\ edit[w] # None /\ Saves(w)
    /\ file' = Applied(w)
    /\ edit' = [v \in Writers |-> IF v = w THEN None
                                  ELSE IF edit[v] = None THEN None
                                  ELSE [edit[v] EXCEPT !.overtaken = @ \/ file' # file]]
    /\ UNCHANGED dirs

\* Nothing to save, an error, or the end of the process.
Leave(w) ==
    /\ edit[w] # None
    /\ edit' = [edit EXCEPT ![w] = None]
    /\ UNCHANGED <<file, dirs>>

\* Directories come and go.
ChangeDirs(p) ==
    /\ dirs' = IF p \in dirs THEN dirs \ {p} ELSE dirs \cup {p}
    /\ UNCHANGED <<file, edit>>

Next ==
    \/ \E paths \in (SUBSET Paths) \ {{}} :
          WindowAdd(paths) \/ \E w \in Commands : Add(w, paths) \/ Remove(w, paths)
    \/ \E w \in Commands : Clean(w)
    \/ \E w \in Writers : Save(w) \/ Leave(w)
    \/ \E p \in Paths : ChangeDirs(p)

Spec == Init /\ [][Next]_vars

-----------------------------------------------------------------------------
(* Properties *)

EditRec == [op: Ops, paths: SUBSET Paths, base: SUBSET Paths, overtaken: BOOLEAN]

\* Every variable has its type.
TypeOK ==
    /\ file \subseteq Paths /\ dirs \subseteq Paths
    /\ edit \in [Writers -> EditRec \cup {None}]

\* An edit changes only what it was asked to, unless another writer saved between
\* its load and its save; then it undoes that writer's edit.
EditsAreExact ==
    [][\A w \in Writers :
          edit[w] # None /\ edit'[w] = None /\ ~edit[w].overtaken =>
              CASE edit[w].op = "add" -> file \subseteq file' /\ file' \ file \subseteq edit[w].paths
                [] edit[w].op = "remove" -> file' \subseteq file /\ file \ file' \subseteq edit[w].paths
                [] edit[w].op = "clean" -> file' \subseteq file /\ (file \ file') \cap dirs = {}]_vars
=============================================================================
