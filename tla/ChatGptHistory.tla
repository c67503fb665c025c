--------------------------- MODULE ChatGptHistory ---------------------------
(***************************************************************************)
(* import_chatgpt_source and delete_chatgpt_source of FeltDbWorkStore       *)
(* (crates/combe-state/src/work_feltdb.rs): two loops of separate writes    *)
(* over the conversation events, the chatgpt-history index and the list of  *)
(* sources.  One action per write.  Both run on the main thread of the      *)
(* window or in a command that owns the database, so nothing runs beside    *)
(* them; the process may die, or a write may fail, between any two writes.  *)
(*                                                                          *)
(* Left out: the text, roles, times and attachments of messages; titles;    *)
(* the counts of the result and of a source; the graph refresh after each   *)
(* event (its error is dropped).  An export names a message once.  Events   *)
(* are read in the order of a wall clock, so which event of a conversation  *)
(* comes first is open here.  FeltDB deletes an absent key without an       *)
(* error.                                                                   *)
(***************************************************************************)
EXTENDS Naturals

CONSTANTS
    Sources,        \* exports; the id of one is the fingerprint of its content
    Conversations,
    Messages,
    Prints,         \* fingerprints of conversations
    Export,         \* what each export holds of each of its conversations
    None,
    MaxImports, MaxDeletes, MaxCrashes    \* bounds on what a user does

Snapshot == [print : Prints, messages : SUBSET Messages]

ASSUME ExportsHoldSnapshots ==
    \A s \in Sources :
        /\ DOMAIN Export[s] \subseteq Conversations
        /\ \A c \in DOMAIN Export[s] : Export[s][c] \in Snapshot

ASSUME PrintIdentifiesMessages ==
    \A s, r \in Sources : \A c \in (DOMAIN Export[s]) \cap (DOMAIN Export[r]) :
        Export[s][c].print = Export[r][c].print =>
            Export[s][c].messages = Export[r][c].messages

ASSUME NoneIsNoName == None \notin Sources \cup Messages \cup Prints

ASSUME BoundsAreNats == {MaxImports, MaxDeletes, MaxCrashes} \subseteq Nat

VARIABLES
    sources,    \* recorded chatgpt-import-source ids
    history,    \* the chatgpt-history index
    log,        \* how many stored events there are of each kind
    call,       \* the import or delete under way
    done        \* imports, deletes and crashes so far

vars == <<sources, history, log, call, done>>

-----------------------------------------------------------------------------
(* Records *)

Begun(c) == [kind |-> "begun", conv |-> c, msg |-> None, import |-> None]
Created(c, m, s) == [kind |-> "created", conv |-> c, msg |-> m, import |-> s]
Completed(c, m) == [kind |-> "completed", conv |-> c, msg |-> m, import |-> None]
Continuity(c, s) == [kind |-> "continuity", conv |-> c, msg |-> None, import |-> s]

Event ==
    {Begun(c) : c \in Conversations}
        \cup {Created(c, m, s) : c \in Conversations, m \in Messages, s \in Sources}
        \cup {Completed(c, m) : c \in Conversations, m \in Messages}
        \cup {Continuity(c, s) : c \in Conversations, s \in Sources}

Stored(e) == log[e] > 0
EventsOf(c) == {e \in Event : e.conv = c /\ Stored(e)}

\* The messages of c that a MessageCreated of some import holds.
Known(c) == {m \in Messages : \E s \in Sources : Stored(Created(c, m, s))}

NoHistory == [source |-> None, print |-> None, messages |-> {}]
Indexed(c) == history[c] # NoHistory

Idle == [pc |-> "idle", s |-> None, all |-> {}, todo |-> {}, at |-> None,
         left |-> {}, msg |-> None, merged |-> {}, doomed |-> {}]

Init ==
    /\ sources = {}
    /\ history = [c \in Conversations |-> NoHistory]
    /\ log = [e \in Event |-> 0]
    /\ call = Idle
    /\ done = [imports |-> 0, deletes |-> 0, crashes |-> 0]

Write(e) == log' = [log EXCEPT ![e] = @ + 1]
Delete(e) == log' = [log EXCEPT ![e] = @ - 1]

-----------------------------------------------------------------------------
(* import_chatgpt_source *)

\* The user selects some conversations of an export.  The source is recorded
\* first, if it is not there yet.
BeginImport(s, selected) ==
    /\ call = Idle /\ done.imports < MaxImports
    /\ selected # {}
    /\ sources' = sources \cup {s}
    /\ call' = [Idle EXCEPT !.pc = "import", !.s = s, !.all = selected,
                            !.todo = selected]
    /\ done' = [done EXCEPT !.imports = @ + 1]
    /\ UNCHANGED <<history, log>>

Duplicate(c) == history[c].print = Export[call.s][c].print

SkipConversation(c) ==
    /\ call.pc = "import" /\ c \in call.todo
    /\ Duplicate(c)
    /\ call' = [call EXCEPT !.todo = @ \ {c}]
    /\ UNCHANGED <<sources, history, log, done>>

\* MUTANT of Unseen: the index, not the events, says what is there.
NotIndexed(c) == Export[call.s][c].messages \ history[c].messages

Unseen(c) == Export[call.s][c].messages \ Known(c)

OpenConversation(c) ==
    /\ call.pc = "import" /\ c \in call.todo
    /\ ~Duplicate(c)
    /\ IF EventsOf(c) = {} THEN Write(Begun(c)) ELSE UNCHANGED log
    /\ call' = [call EXCEPT !.pc = "post", !.at = c, !.left = Unseen(c),
                            !.merged = history[c].messages]
    /\ UNCHANGED <<sources, history, done>>

PostMessage(m) ==
    /\ call.pc = "post" /\ m \in call.left
    /\ Write(Created(call.at, m, call.s))
    /\ call' = [call EXCEPT !.pc = "complete", !.msg = m]
    /\ UNCHANGED <<sources, history, done>>

Merge == call.merged \cup {call.msg}

CompleteMessage ==
    /\ call.pc = "complete"
    /\ Write(Completed(call.at, call.msg))
    /\ call' = [call EXCEPT !.pc = "post", !.left = @ \ {call.msg},
                            !.msg = None, !.merged = Merge]
    /\ UNCHANGED <<sources, history, done>>

RecordContinuity ==
    /\ call.pc = "post" /\ call.left = {}
    /\ Write(Continuity(call.at, call.s))
    /\ call' = [call EXCEPT !.pc = "save"]
    /\ UNCHANGED <<sources, history, done>>

SaveHistory ==
    /\ call.pc = "save"
    /\ history' = [history EXCEPT
            ![call.at] = [source |-> call.s, print |-> Export[call.s][call.at].print,
                          messages |-> call.merged]]
    /\ call' = [call EXCEPT !.pc = "import", !.todo = @ \ {call.at}, !.at = None,
                            !.merged = {}]
    /\ UNCHANGED <<sources, log, done>>

\* The source is written again, with its count of conversations.
FinishImport ==
    /\ call.pc = "import" /\ call.todo = {}
    /\ sources' = sources \cup {call.s}
    /\ call' = Idle
    /\ UNCHANGED <<history, log, done>>

-----------------------------------------------------------------------------
(* delete_chatgpt_source *)

\* The messages an import created, their completions, and the import itself.
Doomed(s) ==
    {e \in Event :
        /\ Stored(e)
        /\ \/ e.kind \in {"created", "completed"} /\ Stored(Created(e.conv, e.msg, s))
           \/ e = Continuity(e.conv, s)}

\* One of the recorded sources.  All its events are looked up at once.
BeginDelete(s) ==
    /\ call = Idle /\ done.deletes < MaxDeletes
    /\ s \in sources
    /\ call' = [Idle EXCEPT !.pc = "delete", !.s = s, !.doomed = Doomed(s)]
    /\ done' = [done EXCEPT !.deletes = @ + 1]
    /\ UNCHANGED <<sources, history, log>>

\* Equal events are deleted one by one.
DeleteEvent(e) ==
    /\ call.pc = "delete" /\ e \in call.doomed
    /\ Delete(e)
    /\ call' = [call EXCEPT !.doomed = IF log[e] = 1 THEN @ \ {e} ELSE @,
                            !.todo = @ \cup {e.conv}]
    /\ UNCHANGED <<sources, history, done>>

\* MUTANT of NewOwner: the record keeps the source that is being deleted.
SameOwner(c, s) == history[c].source

\* The import a conversation goes to when another one leaves it.
NewOwner(c, s) == s

\* A conversation that still has messages: its index record is handed to the
\* source of one of them, and keeps its messages and its fingerprint.
Reassign(c, s) ==
    /\ call.pc = "delete" /\ call.doomed = {} /\ c \in call.todo
    /\ \E m \in Messages : Stored(Created(c, m, s))
    /\ history' = IF Indexed(c) THEN [history EXCEPT ![c].source = NewOwner(c, s)]
                                ELSE history
    /\ call' = [call EXCEPT !.todo = @ \ {c}]
    /\ UNCHANGED <<sources, log, done>>

\* MUTANT of Abandoned: a conversation goes as soon as a message of it does.
AnyConversation(c) == TRUE

\* No import holds a message of the conversation any more.
Abandoned(c) == Known(c) = {}

BeginSweep(c) ==
    /\ call.pc = "delete" /\ call.doomed = {} /\ c \in call.todo
    /\ Abandoned(c)
    /\ call' = [call EXCEPT !.pc = "sweep", !.at = c]
    /\ UNCHANGED <<sources, history, log, done>>

SweepEvent(e) ==
    /\ call.pc = "sweep" /\ e \in EventsOf(call.at)
    /\ Delete(e)
    /\ UNCHANGED <<sources, history, call, done>>

Swept(c) == EventsOf(c) = {}

DropHistory ==
    /\ call.pc = "sweep" /\ Swept(call.at)
    /\ history' = [history EXCEPT ![call.at] = NoHistory]
    /\ call' = [call EXCEPT !.pc = "delete", !.todo = @ \ {call.at}, !.at = None]
    /\ UNCHANGED <<sources, log, done>>

DropSource ==
    /\ call.pc = "delete" /\ call.doomed = {} /\ call.todo = {}
    /\ sources' = sources \ {call.s}
    /\ call' = Idle
    /\ UNCHANGED <<history, log, done>>

-----------------------------------------------------------------------------

\* The process dies, or a write fails and the call returns its error.
Crash ==
    /\ call # Idle /\ done.crashes < MaxCrashes
    /\ call' = Idle
    /\ done' = [done EXCEPT !.crashes = @ + 1]
    /\ UNCHANGED <<sources, history, log>>

Import ==
    \/ \E s \in Sources : \E selected \in SUBSET DOMAIN Export[s] :
           BeginImport(s, selected)
    \/ \E c \in Conversations : SkipConversation(c) \/ OpenConversation(c)
    \/ \E m \in Messages : PostMessage(m)
    \/ CompleteMessage
    \/ RecordContinuity
    \/ SaveHistory
    \/ FinishImport

Remove ==
    \/ \E s \in Sources : BeginDelete(s)
    \/ \E e \in Event : DeleteEvent(e) \/ SweepEvent(e)
    \/ \E c \in Conversations : \E s \in Sources : Reassign(c, s)
    \/ \E c \in Conversations : BeginSweep(c)
    \/ DropHistory
    \/ DropSource

Next == Import \/ Remove \/ Crash

Spec == Init /\ [][Next]_vars

-----------------------------------------------------------------------------
(* Properties *)

History == [source : Sources \cup {None}, print : Prints \cup {None},
            messages : SUBSET Messages]
Call == [pc : {"idle", "import", "post", "complete", "save", "delete", "sweep"},
         s : Sources \cup {None}, all : SUBSET Conversations,
         todo : SUBSET Conversations, at : Conversations \cup {None},
         left : SUBSET Messages, msg : Messages \cup {None},
         merged : SUBSET Messages, doomed : SUBSET Event]

\* Every variable has its type: in particular no count of events goes below
\* zero, a delete never removes an event twice.
TypeOK ==
    /\ sources \subseteq Sources
    /\ history \in [Conversations -> History]
    /\ log \in [Event -> Nat]
    /\ call \in Call
    /\ done \in [imports : Nat, deletes : Nat, crashes : Nat]

\* "Creates no duplicate conversation or message" (docs/CHATGPT_IMPORT.md):
\* whatever is imported, deleted, interrupted and imported again, a message has
\* one MessageCreated, of one import, and a conversation one
\* ConversationCreated.
NoDuplicates ==
    \A c \in Conversations :
        /\ log[Begun(c)] <= 1
        /\ \A m \in Messages : \A s \in Sources :
            Stored(Created(c, m, s)) =>
                /\ log[Created(c, m, s)] = 1
                /\ \A r \in Sources \ {s} : ~Stored(Created(c, m, r))

\* What an import left behind can be found and deleted: its source is recorded
\* before its first event and goes after its last one, also when either
\* operation stops half way.
SourceOutlivesEvents ==
    \A e \in Event : Stored(e) => e.import \in sources \cup {None}

\* A message disappears only when the import that brought it is deleted:
\* deleting another export of the same conversation, sweeping what is left of
\* it, and importing again all leave it alone.
DeletedWithItsImport ==
    [][\A c \in Conversations : \A m \in Messages : \A s \in Sources :
           Stored(Created(c, m, s)) /\ ~Stored(Created(c, m, s))' =>
               call.pc = "delete" /\ call.s = s]_vars

\* "A later export adds unseen messages" (docs/CHATGPT_IMPORT.md): when an
\* import is done with a conversation, the conversation has every message of
\* the export, be they written now or skipped as known.
ImportAddsUnseen ==
    call.pc = "import" =>
        \A c \in call.all \ call.todo : Export[call.s][c].messages \subseteq Known(c)

\* That holds, however often imports stop half way and are repeated, until the
\* first delete.
CompleteUntilDelete == done.deletes = 0 => ImportAddsUnseen

\* As long as no call stopped half way: when an import is done with a
\* conversation, the index record, from which a transcript is attached to Work,
\* has every message of the export.
IndexedUntilCrash ==
    call.pc = "import" /\ done.crashes = 0 =>
        \A c \in call.all \ call.todo :
            Export[call.s][c].messages \subseteq history[c].messages

\* "AI conversation must begin with conversation.created" (append_ai_event):
\* between calls no event of an imported conversation is without it.  A
\* conversation without it is in no list and in no context graph.
Begins ==
    call = Idle => \A c \in Conversations : EventsOf(c) # {} => Stored(Begun(c))

\* As long as no call stopped half way: between calls the index has a record of
\* exactly the conversations that have begun, with all their messages, under
\* the name of a recorded source, and nothing is left of any other.
IndexMatchesLog ==
    call = Idle /\ done.crashes = 0 =>
        /\ Begins
        /\ \A c \in Conversations :
               /\ Indexed(c) <=> Stored(Begun(c))
               /\ Known(c) \subseteq history[c].messages
               /\ Indexed(c) => history[c].source \in sources

\* What was imported can be found again: every event by its source, every message
\* of a finished import in the log and in the index, unless a delete or a call that
\* stopped half way took it.
ImportsAreFound ==
    TypeOK /\ SourceOutlivesEvents /\ CompleteUntilDelete /\ IndexedUntilCrash /\ IndexMatchesLog
=============================================================================
