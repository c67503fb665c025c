-------------------------- MODULE ContinuityProofs --------------------------
(***************************************************************************)
(* Proofs about the two writers of the conversation events, for every set of *)
(* exports, conversations and Works, every number of calls, of calls that    *)
(* stop half way and of steps of the clock.                                  *)
(*                                                                           *)
(* The import (ChatGptHistory) decides what to write from one look at the    *)
(* events; what it remembers of that look must stay true while it writes     *)
(* (IInv).  A delete works off one list of events; the list must hold all of *)
(* them and no other's.  The index is written after the log; while no call   *)
(* stopped half way it is that of the log (IndexInv).                        *)
(*                                                                           *)
(* A call to a provider (Conversations) writes a message, its completion, an *)
(* attempt, the answer, its completion, an exchange and the result, one by   *)
(* one.  TalkInv says what it has written at each of its steps; CountInv     *)
(* that nothing is counted twice and, while no call stopped half way, that   *)
(* only what is under way is missing; AnswerInv that an answer is to the     *)
(* last message before it, which is why no other message crowds it out of    *)
(* the prompt.                                                               *)
(***************************************************************************)
EXTENDS Continuity, FiniteSetTheorems, SequenceTheorems, TLAPS

-----------------------------------------------------------------------------
(* The inductive invariant *)

Importing == call.pc \in {"import", "post", "complete", "save"}

\* An import works on conversations of its export, and what it is still to
\* post is not there.
ImportUnderway ==
    /\ Importing => /\ call.all \subseteq DOMAIN Export[call.s]
                    /\ call.todo \subseteq call.all
    /\ call.pc \in {"post", "complete", "save"} => call.at \in call.todo
    /\ call.pc \in {"post", "complete"} =>
           \A m \in call.left \ {call.msg} : m \notin Known(call.at)
    /\ call.pc # "complete" => call.msg = None
    /\ call.pc = "complete" => call.msg \in call.left

\* A delete has all events of its source on its list, and no message of
\* another; a conversation is swept after its last message.
DeleteUnderway ==
    /\ call.pc = "delete" =>
           /\ \A e \in call.doomed :
                 /\ Stored(e)
                 /\ e.kind # "begun"
                 /\ e.kind = "created" => e.import = call.s
           /\ \A e \in Event : Stored(e) /\ e.import = call.s => e \in call.doomed
    /\ call.pc = "sweep" =>
           /\ call.doomed = {}
           /\ call.at \in Conversations
           /\ Known(call.at) = {}
           /\ \A e \in Event : Stored(e) => e.import # call.s

\* A call belongs to a recorded source.
OfSource == call.pc # "idle" => call.s \in sources

IInv ==
    /\ TypeOK
    /\ NoDuplicates
    /\ SourceOutlivesEvents
    /\ OfSource
    /\ ImportUnderway
    /\ DeleteUnderway

-----------------------------------------------------------------------------
(* Events *)

\* What the four constructors build, and that they build different events.
LEMMA EventFacts ==
    /\ \A c \in Conversations : Begun(c) \in Event
    /\ \A c \in Conversations, m \in Messages : Completed(c, m) \in Event
    /\ \A c \in Conversations, m \in Messages, s \in Sources : Created(c, m, s) \in Event
    /\ \A c \in Conversations, s \in Sources : Continuity(c, s) \in Event
  BY DEF Event

\* What an event is made of, by its kind.
LEMMA EventShape ==
    ASSUME NEW e \in Event
    PROVE  /\ e.conv \in Conversations
           /\ e.import \in Sources \cup {None}
           /\ e.kind \in {"begun", "created", "completed", "continuity"}
           /\ e.kind = "begun" => e = Begun(e.conv)
           /\ e.kind = "created" => /\ e.msg \in Messages
                                    /\ e.import \in Sources
                                    /\ e = Created(e.conv, e.msg, e.import)
           /\ e.kind = "completed" => e.msg \in Messages /\ e.import = None
           /\ e.kind = "continuity" => /\ e.import \in Sources
                                       /\ e = Continuity(e.conv, e.import)
           /\ e.import # None => e.kind \in {"created", "continuity"}
  <1>1. CASE \E c \in Conversations : e = Begun(c)
    BY <1>1 DEF Begun
  <1>2. CASE \E c \in Conversations, m \in Messages, s \in Sources : e = Created(c, m, s)
    BY <1>2 DEF Created
  <1>3. CASE \E c \in Conversations, m \in Messages : e = Completed(c, m)
    BY <1>3 DEF Completed
  <1>4. CASE \E c \in Conversations, s \in Sources : e = Continuity(c, s)
    BY <1>4 DEF Continuity
  <1> QED
    BY <1>1, <1>2, <1>3, <1>4 DEF Event

\* Events of different kinds, and of different messages, are different.
LEMMA Distinct ==
    /\ \A c, d, m, s : Created(c, m, s) # Begun(d)
    /\ \A c, d, m, n, s : Created(c, m, s) # Completed(d, n)
    /\ \A c, d, m, s, r : Created(c, m, s) # Continuity(d, r)
    /\ \A c, d, m : Begun(c) # Completed(d, m)
    /\ \A c, d, s : Begun(c) # Continuity(d, s)
    /\ \A c, d, m, n, s, r :
          Created(c, m, s) = Created(d, n, r) => c = d /\ m = n /\ s = r
    /\ \A c, d : Begun(c) = Begun(d) => c = d
  BY DEF Begun, Created, Completed, Continuity

\* One event more, all others as they were.
LEMMA AppendEvent ==
    ASSUME log \in [Event -> Nat], NEW e \in Event, Write(e)
    PROVE  /\ log' \in [Event -> Nat]
           /\ log'[e] = log[e] + 1
           /\ \A f \in Event : f # e => log'[f] = log[f]
           /\ \A f \in Event : log[f] <= log'[f]
           /\ \A f \in Event : log'[f] > 0 => f = e \/ log[f] > 0
  BY DEF Write

\* Deleting an event takes one of it and of no other.
LEMMA DeleteEventOnce ==
    ASSUME log \in [Event -> Nat], NEW e \in Event, log[e] > 0, Delete(e)
    PROVE  /\ log' \in [Event -> Nat]
           /\ log'[e] = log[e] - 1
           /\ \A f \in Event : f # e => log'[f] = log[f]
           /\ \A f \in Event : log'[f] <= log[f]
           /\ \A f \in Event : log'[f] > 0 => log[f] > 0
  BY DEF Delete

-----------------------------------------------------------------------------
(* Types *)

\* The invariant holds at the start.
LEMMA InitTyped == Init => IInv
  <1> SUFFICES ASSUME Init PROVE IInv
    OBVIOUS
  <1>1. \A e \in Event : ~Stored(e)
    BY DEF Init, Stored
  <1>2. TypeOK
    BY DEF Init, TypeOK, NoHistory, History, Idle, Call
  <1>3. NoDuplicates
    BY <1>1, EventFacts DEF Init, NoDuplicates
  <1>4. SourceOutlivesEvents /\ OfSource /\ ImportUnderway /\ DeleteUnderway
    BY <1>1 DEF Init, Idle, SourceOutlivesEvents, OfSource, ImportUnderway,
                DeleteUnderway, Importing
  <1> QED
    BY <1>2, <1>3, <1>4 DEF IInv

\* What an import has of the conversation it works on.
LEMMA Snapshots ==
    ASSUME TypeOK, OfSource, ImportUnderway, Importing,
           NEW c \in call.todo
    PROVE  /\ call.s \in Sources
           /\ c \in Conversations
           /\ c \in DOMAIN Export[call.s]
           /\ Export[call.s][c] \in Snapshot
  BY ExportsHoldSnapshots DEF TypeOK, OfSource, ImportUnderway, Importing

\* The steps of an import keep the types.
LEMMA ImportTyped ==
    ASSUME IInv, Import
    PROVE  TypeOK'
  <1> USE DEF IInv
  <1>0. /\ call \in Call /\ sources \subseteq Sources /\ log \in [Event -> Nat]
        /\ history \in [Conversations -> History]
        /\ done \in [imports : Nat, deletes : Nat, crashes : Nat]
    BY DEF TypeOK
  <1>1. ASSUME NEW s \in Sources, NEW selected \in SUBSET DOMAIN Export[s],
               BeginImport(s, selected)
        PROVE  TypeOK'
    <2>1. selected \subseteq Conversations
      BY ExportsHoldSnapshots
    <2>2. call' \in Call
      BY <1>1, <2>1 DEF BeginImport, Idle, Call
    <2> QED
      BY <1>0, <1>1, <2>2 DEF BeginImport, TypeOK
  <1>2. ASSUME NEW c \in Conversations, SkipConversation(c)
        PROVE  TypeOK'
    <2>1. call' \in Call
      BY <1>0, <1>2 DEF SkipConversation, Call
    <2> QED
      BY <1>0, <1>2, <2>1 DEF SkipConversation, TypeOK
  <1>3. ASSUME NEW c \in Conversations, OpenConversation(c)
        PROVE  TypeOK'
    <2>1. Export[call.s][c] \in Snapshot
      BY <1>3, Snapshots DEF OpenConversation, Importing
    <2>2. Unseen(c) \subseteq Messages /\ history[c].messages \subseteq Messages
      BY <1>0, <2>1 DEF Unseen, Snapshot, History
    <2>3. call' \in Call
      BY <1>0, <1>3, <2>2 DEF OpenConversation, Call
    <2>4. log' \in [Event -> Nat]
      BY <1>0, <1>3, EventFacts, AppendEvent DEF OpenConversation
    <2> QED
      BY <1>0, <1>3, <2>3, <2>4 DEF OpenConversation, TypeOK
  <1>4. ASSUME NEW m \in Messages, PostMessage(m)
        PROVE  TypeOK'
    <2>1. Created(call.at, m, call.s) \in Event
      BY <1>4, Snapshots, EventFacts DEF PostMessage, ImportUnderway, Importing
    <2>2. log' \in [Event -> Nat]
      BY <1>0, <1>4, <2>1, AppendEvent DEF PostMessage
    <2>3. call' \in Call
      BY <1>0, <1>4 DEF PostMessage, Call
    <2> QED
      BY <1>0, <1>4, <2>2, <2>3 DEF PostMessage, TypeOK
  <1>5. CASE CompleteMessage
    <2>1. call.msg \in Messages
      BY <1>0, <1>5 DEF CompleteMessage, ImportUnderway, Call
    <2>2. Completed(call.at, call.msg) \in Event
      BY <1>5, <2>1, Snapshots, EventFacts DEF CompleteMessage, ImportUnderway, Importing
    <2>3. log' \in [Event -> Nat]
      BY <1>0, <1>5, <2>2, AppendEvent DEF CompleteMessage
    <2>4. call' \in Call
      BY <1>0, <1>5, <2>1 DEF CompleteMessage, Merge, Call
    <2> QED
      BY <1>0, <1>5, <2>3, <2>4 DEF CompleteMessage, TypeOK
  <1>6. CASE RecordContinuity
    <2>1. Continuity(call.at, call.s) \in Event
      BY <1>6, Snapshots, EventFacts DEF RecordContinuity, ImportUnderway, Importing
    <2>2. log' \in [Event -> Nat]
      BY <1>0, <1>6, <2>1, AppendEvent DEF RecordContinuity
    <2>3. call' \in Call
      BY <1>0, <1>6 DEF RecordContinuity, Call
    <2> QED
      BY <1>0, <1>6, <2>2, <2>3 DEF RecordContinuity, TypeOK
  <1>7. CASE SaveHistory
    <2>1. /\ call.at \in Conversations
          /\ call.s \in Sources
          /\ Export[call.s][call.at] \in Snapshot
      BY <1>7, Snapshots DEF SaveHistory, ImportUnderway, Importing
    <2>2. [source |-> call.s, print |-> Export[call.s][call.at].print,
           messages |-> call.merged] \in History
      BY <1>0, <2>1 DEF Call, Snapshot, History
    <2>3. history' \in [Conversations -> History]
      BY <1>0, <1>7, <2>1, <2>2 DEF SaveHistory
    <2>4. call' \in Call
      BY <1>0, <1>7 DEF SaveHistory, Call
    <2> QED
      BY <1>0, <1>7, <2>3, <2>4 DEF SaveHistory, TypeOK
  <1>8. CASE FinishImport
    <2>1. call' \in Call
      BY <1>8 DEF FinishImport, Idle, Call
    <2> QED
      BY <1>0, <1>8, <2>1 DEF FinishImport, TypeOK, OfSource
  <1> QED
    BY <1>1, <1>2, <1>3, <1>4, <1>5, <1>6, <1>7, <1>8 DEF Import

\* So do those of a delete, and a crash.
LEMMA RemoveTyped ==
    ASSUME IInv, Remove \/ Crash
    PROVE  TypeOK'
  <1> USE DEF IInv
  <1>0. /\ call \in Call /\ sources \subseteq Sources /\ log \in [Event -> Nat]
        /\ history \in [Conversations -> History]
        /\ done \in [imports : Nat, deletes : Nat, crashes : Nat]
    BY DEF TypeOK
  <1>1. ASSUME NEW s \in Sources, BeginDelete(s)
        PROVE  TypeOK'
    <2>1. Doomed(s) \subseteq Event
      BY DEF Doomed
    <2>2. call' \in Call
      BY <1>1, <2>1 DEF BeginDelete, Idle, Call
    <2> QED
      BY <1>0, <1>1, <2>2 DEF BeginDelete, TypeOK
  <1>2. ASSUME NEW e \in Event, DeleteEvent(e)
        PROVE  TypeOK'
    <2>1. log' \in [Event -> Nat]
      BY <1>0, <1>2, DeleteEventOnce DEF DeleteEvent, DeleteUnderway, Stored
    <2>2. call' \in Call
      BY <1>0, <1>2, EventShape DEF DeleteEvent, Call
    <2> QED
      BY <1>0, <1>2, <2>1, <2>2 DEF DeleteEvent, TypeOK
  <1>3. ASSUME NEW e \in Event, SweepEvent(e)
        PROVE  TypeOK'
    <2>1. log' \in [Event -> Nat]
      BY <1>0, <1>3, DeleteEventOnce DEF SweepEvent, EventsOf, Stored
    <2> QED
      BY <1>0, <1>3, <2>1 DEF SweepEvent, TypeOK
  <1>4. ASSUME NEW c \in Conversations, NEW s \in Sources, Reassign(c, s)
        PROVE  TypeOK'
    <2>1. [history[c] EXCEPT !.source = s] \in History
      BY <1>0 DEF History
    <2>2. history' \in [Conversations -> History]
      BY <1>0, <1>4, <2>1 DEF Reassign, NewOwner
    <2>3. call' \in Call
      BY <1>0, <1>4 DEF Reassign, Call
    <2> QED
      BY <1>0, <1>4, <2>2, <2>3 DEF Reassign, TypeOK
  <1>5. ASSUME NEW c \in Conversations, BeginSweep(c)
        PROVE  TypeOK'
    <2>1. call' \in Call
      BY <1>0, <1>5 DEF BeginSweep, Call
    <2> QED
      BY <1>0, <1>5, <2>1 DEF BeginSweep, TypeOK
  <1>6. CASE DropHistory
    <2>1. history' \in [Conversations -> History]
      BY <1>0, <1>6 DEF DropHistory, NoHistory, History
    <2>2. call' \in Call
      BY <1>0, <1>6 DEF DropHistory, Call
    <2> QED
      BY <1>0, <1>6, <2>1, <2>2 DEF DropHistory, TypeOK
  <1>7. CASE DropSource
    <2>1. call' \in Call
      BY <1>7 DEF DropSource, Idle, Call
    <2> QED
      BY <1>0, <1>7, <2>1 DEF DropSource, TypeOK
  <1>8. CASE Crash
    <2>1. call' \in Call
      BY <1>8 DEF Crash, Idle, Call
    <2> QED
      BY <1>0, <1>8, <2>1 DEF Crash, TypeOK
  <1> QED
    BY <1>1, <1>2, <1>3, <1>4, <1>5, <1>6, <1>7, <1>8 DEF Remove

-----------------------------------------------------------------------------
(* The invariant is inductive *)

\* Steps that leave the events alone.
LEMMA Quiet ==
    ASSUME IInv, UNCHANGED log, sources \subseteq sources'
    PROVE  /\ NoDuplicates' /\ SourceOutlivesEvents'
           /\ \A c \in Conversations : Known(c)' = Known(c)
           /\ \A e \in Event : Stored(e)' = Stored(e)
  <1>1. \A e \in Event : Stored(e)' = Stored(e)
    BY DEF Stored
  <1>2. \A c \in Conversations : Known(c)' = Known(c)
    BY DEF Known, Stored
  <1>3. NoDuplicates'
    BY DEF IInv, NoDuplicates, Stored
  <1>4. SourceOutlivesEvents'
    BY <1>1 DEF IInv, SourceOutlivesEvents
  <1> QED
    BY <1>1, <1>2, <1>3, <1>4

\* Steps that write an event which is no MessageCreated.
LEMMA NoMessage ==
    ASSUME IInv, UNCHANGED sources, NEW e \in Event, Write(e),
           e.kind # "created", e.import \in sources \cup {None},
           e.kind = "begun" => log[e] = 0
    PROVE  /\ NoDuplicates' /\ SourceOutlivesEvents'
           /\ \A c \in Conversations : Known(c)' = Known(c)
  <1>0. log \in [Event -> Nat]
    BY DEF IInv, TypeOK
  <1>1. \A c, m, s : Created(c, m, s) # e
    BY DEF Created
  <1>2. \A c \in Conversations, m \in Messages, s \in Sources :
            log'[Created(c, m, s)] = log[Created(c, m, s)]
    BY <1>0, <1>1, AppendEvent, EventFacts
  <1>3. \A c \in Conversations : log'[Begun(c)] <= 1
    <2> TAKE c \in Conversations
    <2>1. Begun(c) \in Event /\ log[Begun(c)] <= 1 /\ Begun(c).kind = "begun"
      BY EventFacts DEF IInv, NoDuplicates, Begun
    <2> QED
      BY <1>0, <2>1, AppendEvent
  <1>4. NoDuplicates'
    BY <1>2, <1>3 DEF IInv, NoDuplicates, Stored
  <1>5. SourceOutlivesEvents'
    BY <1>0, AppendEvent DEF IInv, SourceOutlivesEvents, Stored
  <1>6. \A c \in Conversations : Known(c)' = Known(c)
    BY <1>2 DEF Known, Stored
  <1> QED
    BY <1>4, <1>5, <1>6

\* The steps of an import keep the invariant: what it saw missing still is.
LEMMA ImportSafe ==
    ASSUME IInv, Import
    PROVE  IInv'
  <1>0. /\ TypeOK' /\ call \in Call /\ log \in [Event -> Nat] /\ None \notin Messages
        /\ sources \subseteq Sources
    BY ImportTyped, NoneIsNoName DEF IInv, TypeOK
  <1> SUFFICES /\ NoDuplicates' /\ SourceOutlivesEvents' /\ OfSource'
               /\ ImportUnderway' /\ DeleteUnderway'
    BY <1>0 DEF IInv
  <1>1. ASSUME NEW s \in Sources, NEW selected \in SUBSET DOMAIN Export[s],
               BeginImport(s, selected)
        PROVE  NoDuplicates' /\ SourceOutlivesEvents' /\ OfSource'
                   /\ ImportUnderway' /\ DeleteUnderway'
    <2>1. call'.pc = "import" /\ call'.s = s /\ call'.all = selected
              /\ call'.todo = selected /\ call'.msg = None
      BY <1>1 DEF BeginImport, Idle
    <2> QED
      BY <1>1, <2>1, Quiet
      DEF BeginImport, OfSource, ImportUnderway, DeleteUnderway, Importing
  <1>2. ASSUME NEW c \in Conversations, SkipConversation(c)
        PROVE  NoDuplicates' /\ SourceOutlivesEvents' /\ OfSource'
                   /\ ImportUnderway' /\ DeleteUnderway'
    <2>1. call'.pc = "import" /\ call'.s = call.s /\ call'.all = call.all
              /\ call'.todo \subseteq call.todo /\ call'.msg = call.msg
      BY <1>0, <1>2 DEF SkipConversation, Call
    <2> QED
      BY <1>2, <2>1, Quiet
      DEF SkipConversation, IInv, OfSource, ImportUnderway, DeleteUnderway, Importing
  <1>3. ASSUME NEW c \in Conversations, OpenConversation(c)
        PROVE  NoDuplicates' /\ SourceOutlivesEvents' /\ OfSource'
                   /\ ImportUnderway' /\ DeleteUnderway'
    <2>1. /\ call'.pc = "post" /\ call'.s = call.s /\ call'.all = call.all
          /\ call'.todo = call.todo /\ call'.at = c /\ call'.left = Unseen(c)
          /\ call'.msg = call.msg
      BY <1>0, <1>3 DEF OpenConversation, Call
    <2>2. /\ NoDuplicates' /\ SourceOutlivesEvents'
          /\ Known(c)' = Known(c)
      <3>1. CASE EventsOf(c) = {}
        <4>1. Begun(c) \in Event /\ Begun(c).kind = "begun" /\ Begun(c).import = None
          BY EventFacts DEF Begun
        <4>2. log[Begun(c)] = 0
          BY <1>0, <3>1, <4>1 DEF EventsOf, Stored, Begun
        <4> QED
          BY <1>3, <3>1, <4>1, <4>2, NoMessage DEF OpenConversation
      <3>2. CASE EventsOf(c) # {}
        BY <1>3, <3>2, Quiet DEF OpenConversation
      <3> QED
        BY <3>1, <3>2
    <2>3. call.msg = None
      BY <1>3 DEF OpenConversation, IInv, ImportUnderway
    <2>4. \A m \in call'.left : m \notin Known(c)
      BY <2>1 DEF Unseen
    <2> QED
      BY <1>3, <2>1, <2>2, <2>3, <2>4
      DEF OpenConversation, IInv, OfSource, ImportUnderway, DeleteUnderway, Importing
  <1>4. ASSUME NEW m \in Messages, PostMessage(m)
        PROVE  NoDuplicates' /\ SourceOutlivesEvents' /\ OfSource'
                   /\ ImportUnderway' /\ DeleteUnderway'
    <2> DEFINE new == Created(call.at, m, call.s)
    <2>1. /\ call.pc = "post" /\ m \in call.left /\ call.at \in call.todo
          /\ call'.pc = "complete" /\ call'.s = call.s /\ call'.all = call.all
          /\ call'.todo = call.todo /\ call'.at = call.at /\ call'.left = call.left
          /\ call'.msg = m /\ sources' = sources
      BY <1>0, <1>4 DEF PostMessage, Call, IInv, ImportUnderway
    <2>2. call.s \in sources /\ call.s \in Sources /\ call.at \in Conversations
              /\ new \in Event
      BY <2>1, Snapshots, EventFacts DEF IInv, OfSource, Importing
    <2>3. m \notin Known(call.at)
      BY <1>0, <2>1 DEF IInv, ImportUnderway
    <2>4. \A r \in Sources : log[Created(call.at, m, r)] = 0
      BY <1>0, <2>2, <2>3, EventFacts DEF Known, Stored
    <2> HIDE DEF new
    <2>5. /\ log'[new] = log[new] + 1
          /\ \A f \in Event : f # new => log'[f] = log[f]
      BY <1>0, <1>4, <2>2, AppendEvent DEF PostMessage, new
    <2>6. \A c \in Conversations, n \in Messages, r \in Sources :
              Created(c, n, r) = new => c = call.at /\ n = m /\ r = call.s
      BY Distinct DEF new
    <2>7. \A c \in Conversations : log'[Begun(c)] = log[Begun(c)]
      BY <2>5, EventFacts, Distinct DEF new
    <2>8. NoDuplicates'
      <3>1. ASSUME NEW c \in Conversations, NEW n \in Messages, NEW s \in Sources,
                   log'[Created(c, n, s)] > 0
            PROVE  /\ log'[Created(c, n, s)] = 1
                   /\ \A r \in Sources \ {s} : ~(log'[Created(c, n, r)] > 0)
        <4>1. CASE Created(c, n, s) = new
          <5>1. c = call.at /\ n = m /\ s = call.s
            BY <2>6, <4>1
          <5>2. \A r \in Sources \ {s} : Created(c, n, r) # new
            BY <2>6, <5>1
          <5> QED
            BY <2>4, <2>5, <4>1, <5>1, <5>2, EventFacts
        <4>2. CASE Created(c, n, s) # new
          <5>1. log'[Created(c, n, s)] = log[Created(c, n, s)]
            BY <2>5, <4>2, EventFacts
          <5>2. \A r \in Sources : Created(c, n, r) # new
            BY <2>4, <2>6, <3>1, <5>1
          <5>3. \A r \in Sources : log'[Created(c, n, r)] = log[Created(c, n, r)]
            BY <2>5, <5>2, EventFacts
          <5> QED
            BY <3>1, <5>1, <5>3 DEF IInv, NoDuplicates, Stored
        <4> QED
          BY <4>1, <4>2
      <3> QED
        BY <2>7, <3>1 DEF IInv, NoDuplicates, Stored
    <2>9. SourceOutlivesEvents'
      BY <2>1, <2>2, <2>5 DEF IInv, SourceOutlivesEvents, Stored, new, Created
    <2>10. \A n \in call.left \ {m} : n \notin Known(call.at)'
      <3> SUFFICES ASSUME NEW n \in call.left, n # m, NEW r \in Sources,
                          n \in Messages, log'[Created(call.at, n, r)] > 0
                   PROVE  FALSE
        BY <1>0, <2>1 DEF Known, Stored, Call
      <3>1. log'[Created(call.at, n, r)] = log[Created(call.at, n, r)]
        BY <2>2, <2>5, <2>6, EventFacts
      <3>2. n \notin Known(call.at)
        BY <1>0, <2>1 DEF IInv, ImportUnderway
      <3> QED
        BY <3>1, <3>2 DEF Known, Stored
    <2> QED
      BY <2>1, <2>2, <2>8, <2>9, <2>10
      DEF IInv, OfSource, ImportUnderway, DeleteUnderway, Importing
  <1>5. CASE CompleteMessage
    <2>1. /\ call.pc = "complete" /\ call.msg \in call.left /\ call.msg \in Messages
          /\ call.at \in call.todo
          /\ call'.pc = "post" /\ call'.s = call.s /\ call'.all = call.all
          /\ call'.todo = call.todo /\ call'.at = call.at
          /\ call'.left = call.left \ {call.msg} /\ call'.msg = None
      BY <1>0, <1>5 DEF CompleteMessage, Call, IInv, ImportUnderway
    <2>2. /\ Completed(call.at, call.msg) \in Event
          /\ Completed(call.at, call.msg).kind = "completed"
          /\ Completed(call.at, call.msg).import = None
          /\ call.at \in Conversations
      BY <2>1, Snapshots, EventFacts DEF IInv, Importing, Completed
    <2>3. NoDuplicates' /\ SourceOutlivesEvents' /\ Known(call.at)' = Known(call.at)
      BY <1>5, <2>2, NoMessage DEF CompleteMessage
    <2> QED
      BY <1>5, <2>1, <2>3
      DEF CompleteMessage, IInv, OfSource, ImportUnderway, DeleteUnderway, Importing
  <1>6. CASE RecordContinuity
    <2>1. /\ call.pc = "post" /\ call.at \in call.todo
          /\ call'.pc = "save" /\ call'.s = call.s /\ call'.all = call.all
          /\ call'.todo = call.todo /\ call'.at = call.at /\ call'.msg = call.msg
      BY <1>0, <1>6 DEF RecordContinuity, Call, IInv, ImportUnderway
    <2>2. /\ Continuity(call.at, call.s) \in Event
          /\ Continuity(call.at, call.s).kind = "continuity"
          /\ Continuity(call.at, call.s).import \in sources
      BY <2>1, Snapshots, EventFacts DEF IInv, Importing, OfSource, Continuity
    <2>3. NoDuplicates' /\ SourceOutlivesEvents'
      BY <1>6, <2>2, NoMessage DEF RecordContinuity
    <2> QED
      BY <1>6, <2>1, <2>3
      DEF RecordContinuity, IInv, OfSource, ImportUnderway, DeleteUnderway, Importing
  <1>7. CASE SaveHistory
    <2>1. /\ call.pc = "save" /\ call'.pc = "import" /\ call'.s = call.s
          /\ call'.all = call.all /\ call'.todo = call.todo \ {call.at}
          /\ call'.msg = call.msg
      BY <1>0, <1>7 DEF SaveHistory, Call
    <2> QED
      BY <1>7, <2>1, Quiet
      DEF SaveHistory, IInv, OfSource, ImportUnderway, DeleteUnderway, Importing
  <1>8. CASE FinishImport
    <2>1. call'.pc = "idle" /\ call'.msg = None
      BY <1>8 DEF FinishImport, Idle
    <2> QED
      BY <1>8, <2>1, Quiet
      DEF FinishImport, OfSource, ImportUnderway, DeleteUnderway, Importing
  <1> QED
    BY <1>1, <1>2, <1>3, <1>4, <1>5, <1>6, <1>7, <1>8 DEF Import

\* Steps that remove an event.  What is taken off the log is never a message of
\* an import other than the one on its way out.
LEMMA Removal ==
    ASSUME IInv, UNCHANGED sources, NEW e \in Event, Stored(e), Delete(e)
    PROVE  /\ NoDuplicates' /\ SourceOutlivesEvents'
           /\ \A f \in Event : Stored(f)' => Stored(f)
           /\ \A c \in Conversations : Known(c)' \subseteq Known(c)
  <1>0. log \in [Event -> Nat] /\ log[e] > 0
    BY DEF IInv, TypeOK, Stored
  <1>1. \A f \in Event : /\ log'[f] \in Nat /\ log[f] \in Nat
                         /\ log'[f] <= log[f]
                         /\ log'[f] > 0 => log[f] > 0
    BY <1>0, DeleteEventOnce
  <1>2. NoDuplicates'
    <2>1. \A c \in Conversations : log'[Begun(c)] <= 1
      BY <1>1, EventFacts DEF IInv, NoDuplicates
    <2>2. ASSUME NEW c \in Conversations, NEW m \in Messages, NEW s \in Sources,
                 log'[Created(c, m, s)] > 0
          PROVE  /\ log'[Created(c, m, s)] = 1
                 /\ \A r \in Sources \ {s} : ~(log'[Created(c, m, r)] > 0)
      <3>1. log[Created(c, m, s)] = 1
        BY <1>1, <2>2, EventFacts DEF IInv, NoDuplicates, Stored
      <3>2. \A r \in Sources \ {s} : ~(log[Created(c, m, r)] > 0)
        BY <1>1, <2>2, EventFacts DEF IInv, NoDuplicates, Stored
      <3> QED
        BY <1>1, <2>2, <3>1, <3>2, EventFacts
    <2> QED
      BY <2>1, <2>2 DEF NoDuplicates, Stored
  <1>3. SourceOutlivesEvents'
    BY <1>1 DEF IInv, SourceOutlivesEvents, Stored
  <1>4. \A c \in Conversations : Known(c)' \subseteq Known(c)
    BY <1>1, EventFacts DEF Known, Stored
  <1> QED
    BY <1>1, <1>2, <1>3, <1>4 DEF Stored

\* So do those of a delete, and a crash: what it has on its list is all there is.
LEMMA RemoveSafe ==
    ASSUME IInv, Remove \/ Crash
    PROVE  IInv'
  <1>0. /\ TypeOK' /\ call \in Call /\ log \in [Event -> Nat]
        /\ sources \subseteq Sources
        /\ None \notin Sources
    BY RemoveTyped, NoneIsNoName DEF IInv, TypeOK
  <1> DEFINE Rest == NoDuplicates' /\ SourceOutlivesEvents' /\ OfSource'
                         /\ ImportUnderway' /\ DeleteUnderway'
  <1> SUFFICES Rest
    BY <1>0 DEF IInv
  <1>1. ASSUME NEW s \in Sources, BeginDelete(s)
        PROVE  Rest
    <2>1. call'.pc = "delete" /\ call'.s = s /\ call'.doomed = Doomed(s)
              /\ call'.msg = None
      BY <1>1 DEF BeginDelete, Idle
    <2>2. \A e \in Doomed(s) : /\ e \in Event /\ Stored(e) /\ e.kind # "begun"
                               /\ e.kind = "created" => e.import = s
      <3> TAKE e \in Doomed(s)
      <3>1. e \in Event /\ Stored(e) /\ e.kind # "begun"
        BY DEF Doomed, Continuity
      <3>2. ASSUME e.kind = "created"
            PROVE  e.import = s
        <4>1. /\ e = Created(e.conv, e.msg, e.import)
              /\ e.conv \in Conversations /\ e.msg \in Messages
              /\ e.import \in Sources
          BY <3>1, <3>2, EventShape
        <4>2. e # Continuity(e.conv, s)
          BY <4>1, Distinct
        <4>3. Stored(Created(e.conv, e.msg, s))
          BY <4>2 DEF Doomed
        <4> QED
          BY <3>1, <4>1, <4>3 DEF IInv, NoDuplicates
      <3> QED
        BY <3>1, <3>2
    <2>3. \A e \in Event : Stored(e) /\ e.import = s => e \in Doomed(s)
      <3> SUFFICES ASSUME NEW e \in Event, Stored(e), e.import = s
                   PROVE  e \in Doomed(s)
        OBVIOUS
      <3>1. CASE e.kind = "created"
        BY <3>1, EventShape DEF Doomed
      <3>2. CASE e.kind = "continuity"
        BY <3>2, EventShape DEF Doomed
      <3> QED
        BY <1>0, <3>1, <3>2, EventShape
    <2>4. UNCHANGED log /\ sources' = sources /\ s \in sources
      BY <1>1 DEF BeginDelete
    <2>5. /\ NoDuplicates' /\ SourceOutlivesEvents'
          /\ \A e \in Event : Stored(e)' = Stored(e)
      BY <2>4, Quiet
    <2>6. DeleteUnderway'
      BY <2>1, <2>2, <2>3, <2>5 DEF DeleteUnderway
    <2> QED
      BY <2>1, <2>4, <2>5, <2>6 DEF OfSource, ImportUnderway, Importing
  <1>2. ASSUME NEW e \in Event, DeleteEvent(e)
        PROVE  Rest
    <2>1. /\ call.pc = "delete" /\ e \in call.doomed /\ call'.pc = "delete"
          /\ call'.s = call.s /\ call'.msg = call.msg
          /\ call'.doomed = IF log[e] = 1 THEN call.doomed \ {e} ELSE call.doomed
          /\ sources' = sources
      BY <1>0, <1>2 DEF DeleteEvent, Call
    <2>2. Stored(e) /\ Delete(e) /\ log[e] > 0
      BY <1>2, <2>1 DEF DeleteEvent, IInv, DeleteUnderway, Stored
    <2>3. /\ NoDuplicates' /\ SourceOutlivesEvents'
          /\ \A f \in Event : Stored(f)' => Stored(f)
      BY <2>1, <2>2, Removal
    <2>4. /\ log'[e] = log[e] - 1
          /\ \A f \in Event : f # e => log'[f] = log[f]
      BY <1>0, <2>2, DeleteEventOnce
    <2>5. \A f \in call'.doomed : f \in call.doomed /\ Stored(f)'
      BY <1>0, <2>1, <2>2, <2>4 DEF IInv, DeleteUnderway, Stored, Call
    <2>6. \A f \in Event : Stored(f)' /\ f.import = call.s => f \in call'.doomed
      BY <1>0, <2>1, <2>2, <2>3, <2>4 DEF IInv, DeleteUnderway, Stored
    <2>7. DeleteUnderway'
      BY <2>1, <2>5, <2>6 DEF IInv, DeleteUnderway
    <2> QED
      BY <2>1, <2>3, <2>7 DEF IInv, OfSource, ImportUnderway, Importing
  <1>3. ASSUME NEW e \in Event, SweepEvent(e)
        PROVE  Rest
    <2>1. call.pc = "sweep" /\ UNCHANGED <<sources, call>> /\ Stored(e) /\ Delete(e)
      BY <1>3 DEF SweepEvent, EventsOf
    <2>2. /\ NoDuplicates' /\ SourceOutlivesEvents'
          /\ \A f \in Event : Stored(f)' => Stored(f)
          /\ \A c \in Conversations : Known(c)' \subseteq Known(c)
      BY <2>1, Removal
    <2>3. DeleteUnderway'
      BY <2>1, <2>2 DEF IInv, DeleteUnderway
    <2> QED
      BY <2>1, <2>2, <2>3 DEF IInv, OfSource, ImportUnderway, Importing
  <1>4. ASSUME NEW c \in Conversations, NEW s \in Sources, Reassign(c, s)
        PROVE  Rest
    <2>1. /\ call.pc = "delete" /\ call'.pc = "delete" /\ call'.s = call.s
          /\ call'.msg = call.msg /\ call'.doomed = call.doomed
          /\ UNCHANGED <<sources, log>>
      BY <1>0, <1>4 DEF Reassign, Call
    <2>2. /\ NoDuplicates' /\ SourceOutlivesEvents'
          /\ \A e \in Event : Stored(e)' = Stored(e)
      BY <2>1, Quiet
    <2>3. call.doomed \subseteq Event
      BY <1>0 DEF Call
    <2>4. DeleteUnderway'
      BY <2>1, <2>2, <2>3 DEF IInv, DeleteUnderway
    <2> QED
      BY <2>1, <2>2, <2>4 DEF IInv, OfSource, ImportUnderway, Importing
  <1>5. ASSUME NEW c \in Conversations, BeginSweep(c)
        PROVE  Rest
    <2>1. /\ call.pc = "delete" /\ call.doomed = {} /\ Known(c) = {}
          /\ call'.pc = "sweep" /\ call'.s = call.s /\ call'.at = c
          /\ call'.msg = call.msg
          /\ UNCHANGED <<sources, log>>
      BY <1>0, <1>5 DEF BeginSweep, Abandoned, Call
    <2>2. /\ NoDuplicates' /\ SourceOutlivesEvents'
          /\ \A d \in Conversations : Known(d)' = Known(d)
          /\ \A e \in Event : Stored(e)' = Stored(e)
      BY <2>1, Quiet
    <2>3. Known(call.at)' = {}
      BY <2>1 DEF Known, Stored
    <2>4. call'.doomed = {}
      BY <1>0, <1>5 DEF BeginSweep, Call
    <2>5. DeleteUnderway'
      BY <2>1, <2>2, <2>3, <2>4 DEF IInv, DeleteUnderway
    <2> QED
      BY <2>1, <2>2, <2>5 DEF IInv, OfSource, ImportUnderway, Importing
  <1>6. CASE DropHistory
    <2>1. /\ call.pc = "sweep" /\ call'.pc = "delete" /\ call'.s = call.s
          /\ call'.msg = call.msg /\ call'.doomed = call.doomed
          /\ UNCHANGED <<sources, log>>
      BY <1>0, <1>6 DEF DropHistory, Call
    <2>2. call.doomed = {}
      BY <2>1 DEF IInv, DeleteUnderway
    <2> QED
      BY <2>1, <2>2, Quiet DEF IInv, OfSource, ImportUnderway, DeleteUnderway, Importing
  <1>7. CASE DropSource
    <2>1. /\ call.pc = "delete" /\ call.doomed = {} /\ sources' = sources \ {call.s}
          /\ call'.pc = "idle" /\ call'.msg = None /\ UNCHANGED log
      BY <1>7 DEF DropSource, Idle
    <2>2. NoDuplicates' /\ \A e \in Event : Stored(e)' = Stored(e)
      BY <2>1 DEF IInv, NoDuplicates, Stored
    <2>3. SourceOutlivesEvents'
      BY <2>1, <2>2 DEF IInv, SourceOutlivesEvents, DeleteUnderway
    <2> QED
      BY <2>1, <2>2, <2>3 DEF OfSource, ImportUnderway, DeleteUnderway, Importing
  <1>8. CASE Crash
    <2>1. call'.pc = "idle" /\ call'.msg = None /\ UNCHANGED <<log, sources>>
      BY <1>8 DEF Crash, Idle
    <2> QED
      BY <2>1, Quiet DEF OfSource, ImportUnderway, DeleteUnderway, Importing
  <1> QED
    BY <1>1, <1>2, <1>3, <1>4, <1>5, <1>6, <1>7, <1>8 DEF Remove

\* What an import or a delete knows of the events stays true until it is done.
THEOREM Invariance == Spec => []IInv
  <1>1. IInv /\ [Next]_vars => IInv'
    <2> SUFFICES ASSUME IInv, [Next]_vars PROVE IInv'
      OBVIOUS
    <2>1. CASE UNCHANGED vars
      BY <2>1 DEF vars, IInv, TypeOK, NoDuplicates, SourceOutlivesEvents, OfSource,
                  ImportUnderway, DeleteUnderway, Importing, Known, Stored
    <2> QED
      BY <2>1, ImportSafe, RemoveSafe DEF Next
  <1> QED
    BY <1>1, InitTyped, PTL DEF Spec

-----------------------------------------------------------------------------
(* The theorems *)

\* Every variable of ChatGptHistory keeps its type.
THEOREM TypeCorrect == Spec => []TypeOK
  BY Invariance, PTL DEF IInv

\* Importing again, after whatever crashes and deletes, duplicates nothing.
THEOREM NothingTwice == Spec => []NoDuplicates
  BY Invariance, PTL DEF IInv

\* No event is left behind by a source that is no longer listed.
THEOREM SourcesStay == Spec => []SourceOutlivesEvents
  BY Invariance, PTL DEF IInv

\* Deleting one import takes no message of another.
THEOREM OwnMessagesOnly == Spec => DeletedWithItsImport
  <1> DEFINE Kept ==
        \A c \in Conversations : \A m \in Messages : \A s \in Sources :
           Stored(Created(c, m, s)) /\ ~Stored(Created(c, m, s))' =>
               call.pc = "delete" /\ call.s = s
  <1>1. IInv /\ [Next]_vars => [Kept]_vars
    <2> SUFFICES ASSUME IInv, Next,
                        NEW c \in Conversations, NEW m \in Messages, NEW s \in Sources,
                        Stored(Created(c, m, s)), ~Stored(Created(c, m, s))'
                 PROVE  call.pc = "delete" /\ call.s = s
      BY DEF Kept
    <2>0. log \in [Event -> Nat] /\ Created(c, m, s) \in Event
      BY EventFacts DEF IInv, TypeOK
    <2>1. log' # log
      BY DEF Stored
    <2>2. ASSUME NEW e \in Event, Write(e)
          PROVE  FALSE
      BY <2>0, <2>2, AppendEvent DEF Stored
    <2>3. ~ Import
      <3>1. ASSUME NEW d \in Conversations, OpenConversation(d)
            PROVE  FALSE
        BY <2>1, <2>2, <3>1, EventFacts DEF OpenConversation
      <3>2. ASSUME NEW n \in Messages, PostMessage(n)
            PROVE  FALSE
        <4>1. Created(call.at, n, call.s) \in Event
          BY <3>2, Snapshots, EventFacts DEF PostMessage, IInv, ImportUnderway, Importing
        <4> QED
          BY <2>2, <3>2, <4>1 DEF PostMessage
      <3>3. ASSUME CompleteMessage PROVE FALSE
        <4>1. call.msg \in Messages
          BY <3>3 DEF CompleteMessage, IInv, TypeOK, ImportUnderway, Call
        <4>2. Completed(call.at, call.msg) \in Event
          BY <3>3, <4>1, Snapshots, EventFacts
          DEF CompleteMessage, IInv, ImportUnderway, Importing
        <4> QED
          BY <2>2, <3>3, <4>2 DEF CompleteMessage
      <3>4. ASSUME RecordContinuity PROVE FALSE
        <4>1. Continuity(call.at, call.s) \in Event
          BY <3>4, Snapshots, EventFacts
          DEF RecordContinuity, IInv, ImportUnderway, Importing
        <4> QED
          BY <2>2, <3>4, <4>1 DEF RecordContinuity
      <3> QED
        BY <2>1, <3>1, <3>2, <3>3, <3>4
        DEF Import, BeginImport, SkipConversation, SaveHistory, FinishImport
    <2>4. ASSUME NEW e \in Event, DeleteEvent(e)
          PROVE  call.pc = "delete" /\ call.s = s
      <3>1. call.pc = "delete" /\ e \in call.doomed /\ Delete(e) /\ log[e] > 0
        BY <2>4 DEF DeleteEvent, IInv, DeleteUnderway, Stored
      <3>2. e = Created(c, m, s)
        BY <2>0, <3>1, DeleteEventOnce DEF Stored
      <3> QED
        BY <3>1, <3>2 DEF IInv, DeleteUnderway, Created
    <2>5. ASSUME NEW e \in Event, SweepEvent(e)
          PROVE  FALSE
      <3>1. call.pc = "sweep" /\ e.conv = call.at /\ Delete(e) /\ log[e] > 0
        BY <2>5 DEF SweepEvent, EventsOf, Stored
      <3>2. e = Created(c, m, s)
        BY <2>0, <3>1, DeleteEventOnce DEF Stored
      <3>3. m \in Known(call.at)
        BY <3>1, <3>2 DEF Known, Created
      <3> QED
        BY <3>1, <3>3 DEF IInv, DeleteUnderway
    <2> QED
      BY <2>1, <2>3, <2>4, <2>5
      DEF Next, Remove, Crash, BeginDelete, Reassign, BeginSweep, DropHistory, DropSource
  <1> QED
    BY <1>1, Invariance, PTL DEF Spec, DeletedWithItsImport

-----------------------------------------------------------------------------
(* While nothing is deleted, a finished import is complete *)

\* The fingerprint in the index vouches for messages that are there, and what
\* an import has not skipped it has posted or will post.
Vouched ==
    /\ call.pc \notin {"delete", "sweep"}
    /\ \A c \in Conversations : Indexed(c) =>
           \E r \in Sources : /\ c \in DOMAIN Export[r]
                              /\ Export[r][c].print = history[c].print
                              /\ Export[r][c].messages \subseteq Known(c)
    /\ call.pc \in {"post", "complete"} =>
           Export[call.s][call.at].messages \subseteq
               Known(call.at) \cup (call.left \ {call.msg})
    /\ call.pc = "save" =>
           Export[call.s][call.at].messages \subseteq Known(call.at)
    /\ Importing =>
           \A c \in call.all \ call.todo : Export[call.s][c].messages \subseteq Known(c)

\* An import only adds to the events.
LEMMA Grows ==
    ASSUME IInv, Import
    PROVE  \A e \in Event : Stored(e) => Stored(e)'
  <1>0. log \in [Event -> Nat]
    BY DEF IInv, TypeOK
  <1>1. ASSUME NEW e \in Event, Write(e)
        PROVE  \A f \in Event : Stored(f) => Stored(f)'
    BY <1>0, <1>1, AppendEvent DEF Stored
  <1>2. ASSUME UNCHANGED log
        PROVE  \A f \in Event : Stored(f) => Stored(f)'
    BY <1>2 DEF Stored
  <1>3. ASSUME NEW d \in Conversations, OpenConversation(d)
        PROVE  \A f \in Event : Stored(f) => Stored(f)'
    BY <1>1, <1>2, <1>3, EventFacts DEF OpenConversation
  <1>4. ASSUME NEW n \in Messages, PostMessage(n)
        PROVE  \A f \in Event : Stored(f) => Stored(f)'
    <2>1. Created(call.at, n, call.s) \in Event
      BY <1>4, Snapshots, EventFacts DEF PostMessage, IInv, ImportUnderway, Importing
    <2> QED
      BY <1>1, <1>4, <2>1 DEF PostMessage
  <1>5. CASE CompleteMessage
    <2>1. call.msg \in Messages
      BY <1>5 DEF CompleteMessage, IInv, TypeOK, ImportUnderway, Call
    <2>2. Completed(call.at, call.msg) \in Event
      BY <1>5, <2>1, Snapshots, EventFacts
      DEF CompleteMessage, IInv, ImportUnderway, Importing
    <2> QED
      BY <1>1, <1>5, <2>2 DEF CompleteMessage
  <1>6. CASE RecordContinuity
    <2>1. Continuity(call.at, call.s) \in Event
      BY <1>6, Snapshots, EventFacts
      DEF RecordContinuity, IInv, ImportUnderway, Importing
    <2> QED
      BY <1>1, <1>6, <2>1 DEF RecordContinuity
  <1> QED
    BY <1>2, <1>3, <1>4, <1>5, <1>6
    DEF Import, BeginImport, SkipConversation, SaveHistory, FinishImport

\* As long as nothing is deleted, what an import vouches for stays.
LEMMA VouchedStep ==
    ASSUME IInv, Vouched, Next, done'.deletes = 0
    PROVE  Vouched'
  <1>0. /\ call \in Call /\ None \notin Messages
        /\ done \in [imports : Nat, deletes : Nat, crashes : Nat]
        /\ history \in [Conversations -> History]
    BY NoneIsNoName DEF IInv, TypeOK
  <1>1. ASSUME Import PROVE \A c \in Conversations : Known(c) \subseteq Known(c)'
    BY <1>1, Grows, EventFacts DEF Known
  <1> DEFINE Indices == \A c \in Conversations : Indexed(c) =>
           \E r \in Sources : /\ c \in DOMAIN Export[r]
                              /\ Export[r][c].print = history[c].print
                              /\ Export[r][c].messages \subseteq Known(c)
  <1>2. ASSUME Import, UNCHANGED history
        PROVE  Indices'
    BY <1>1, <1>2 DEF Vouched, Indexed
  <1>3. ASSUME NEW s \in Sources, NEW selected \in SUBSET DOMAIN Export[s],
               BeginImport(s, selected)
        PROVE  Vouched'
    <2>1. call'.pc = "import" /\ call'.all = selected /\ call'.todo = selected
      BY <1>3 DEF BeginImport, Idle
    <2>2. Import /\ UNCHANGED history
      BY <1>3 DEF Import, BeginImport
    <2> QED
      BY <1>2, <2>1, <2>2 DEF Vouched, Importing
  <1>4. ASSUME NEW c \in Conversations, SkipConversation(c)
        PROVE  Vouched'
    <2>1. /\ call.pc = "import" /\ c \in call.todo
          /\ call'.pc = "import" /\ call'.s = call.s /\ call'.all = call.all
          /\ call'.todo = call.todo \ {c} /\ UNCHANGED <<history, log>>
      BY <1>0, <1>4 DEF SkipConversation, Call
    <2>2. /\ c \in DOMAIN Export[call.s] /\ Export[call.s][c] \in Snapshot
          /\ call.s \in Sources
      BY <2>1, Snapshots DEF IInv, Importing
    <2>3. Indexed(c)
      BY <1>4, <2>2, NoneIsNoName DEF SkipConversation, Duplicate, Indexed, NoHistory, Snapshot
    <2>4. Export[call.s][c].messages \subseteq Known(c)
      BY <1>4, <2>2, <2>3, PrintIdentifiesMessages DEF SkipConversation, Duplicate, Vouched
    <2>5. \A d \in Conversations : Known(d)' = Known(d)
      BY <2>1 DEF Known, Stored
    <2>6. \A d \in call.all \ (call.todo \ {c}) :
              d \in Conversations /\ Export[call.s][d].messages \subseteq Known(d)
      BY <1>0, <2>1, <2>4 DEF Vouched, Importing, Call
    <2>7. Indices'
      BY <1>2, <1>4, <2>1 DEF Import
    <2> QED
      BY <2>1, <2>5, <2>6, <2>7 DEF Vouched, Importing
  <1>5. ASSUME NEW c \in Conversations, OpenConversation(c)
        PROVE  Vouched'
    <2>1. /\ call.pc = "import" /\ call'.pc = "post" /\ call'.s = call.s
          /\ call'.all = call.all /\ call'.todo = call.todo /\ call'.at = c
          /\ call'.left = Unseen(c) /\ call'.msg = None /\ UNCHANGED history
      BY <1>0, <1>5 DEF OpenConversation, Call, IInv, ImportUnderway
    <2>2. Import
      BY <1>5 DEF Import
    <2>3. Export[call.s][c] \in Snapshot
      BY <1>5, Snapshots DEF OpenConversation, IInv, Importing
    <2>4. Export[call.s][c].messages \subseteq Known(c) \cup (Unseen(c) \ {None})
      BY <1>0, <2>3 DEF Unseen, Snapshot
    <2>5. /\ Export[call.s][c].messages \subseteq Known(c)' \cup (Unseen(c) \ {None})
          /\ Indices'
      BY <1>1, <1>2, <2>1, <2>2, <2>4
    <2>6. \A d \in call.all \ call.todo :
              d \in Conversations /\ Export[call.s][d].messages \subseteq Known(d)'
      BY <1>0, <1>1, <2>1, <2>2 DEF Vouched, Importing, Call
    <2>7. Known(call.at)' = Known(c)'
      BY <2>1 DEF Known, Stored
    <2> QED
      BY <2>1, <2>5, <2>6, <2>7 DEF Vouched, Importing
  <1>6. ASSUME NEW m \in Messages, PostMessage(m)
        PROVE  Vouched'
    <2>1. /\ call.pc = "post" /\ call'.pc = "complete" /\ call'.s = call.s
          /\ call'.all = call.all /\ call'.todo = call.todo /\ call'.at = call.at
          /\ call'.left = call.left /\ call'.msg = m /\ UNCHANGED history
      BY <1>0, <1>6 DEF PostMessage, Call
    <2>2. Import
      BY <1>6 DEF Import
    <2>3. call.at \in Conversations /\ Created(call.at, m, call.s) \in Event
              /\ call.s \in Sources
      BY <2>1, Snapshots, EventFacts DEF IInv, ImportUnderway, Importing
    <2>4. Stored(Created(call.at, m, call.s))'
      <3>1. log'[Created(call.at, m, call.s)] > 0
        BY <1>6, <2>3, AppendEvent DEF PostMessage, IInv, TypeOK
      <3> QED
        BY <2>1, <3>1 DEF Stored
    <2>5. m \in Known(call.at)'
      BY <2>1, <2>3, <2>4 DEF Known
    <2>6. Known(call.at) \subseteq Known(call.at)'
      BY <1>1, <2>1, <2>2, <2>3 DEF Known, Stored
    <2>7. \A d \in call.all \ call.todo :
              d \in Conversations /\ Export[call.s][d].messages \subseteq Known(d)'
      BY <1>0, <1>1, <2>1, <2>2 DEF Vouched, Importing, Call
    <2>8. Indices'
      BY <1>2, <2>1, <2>2
    <2>9. Export[call.s][call.at].messages
              \subseteq Known(call.at)' \cup (call.left \ {m})
      BY <2>1, <2>5, <2>6 DEF Vouched
    <2> QED
      BY <2>1, <2>7, <2>8, <2>9 DEF Vouched, Importing
  <1>7. CASE CompleteMessage
    <2>1. /\ call.pc = "complete" /\ call'.pc = "post" /\ call'.s = call.s
          /\ call'.all = call.all /\ call'.todo = call.todo /\ call'.at = call.at
          /\ call'.left = call.left \ {call.msg} /\ call'.msg = None
          /\ call.left \subseteq Messages
          /\ UNCHANGED history
      BY <1>0, <1>7 DEF CompleteMessage, Call
    <2>2. Import
      BY <1>7 DEF Import
    <2>3. call.at \in Conversations
      BY <2>1, Snapshots DEF IInv, ImportUnderway, Importing
    <2>4. Known(call.at) \subseteq Known(call.at)'
      BY <1>1, <2>1, <2>2, <2>3 DEF Known, Stored
    <2>5. \A d \in call.all \ call.todo :
              d \in Conversations /\ Export[call.s][d].messages \subseteq Known(d)'
      BY <1>0, <1>1, <2>1, <2>2 DEF Vouched, Importing, Call
    <2>6. Indices'
      BY <1>2, <2>1, <2>2
    <2>7. Export[call.s][call.at].messages
              \subseteq Known(call.at)' \cup ((call.left \ {call.msg}) \ {None})
      BY <1>0, <2>1, <2>4 DEF Vouched
    <2> QED
      BY <2>1, <2>5, <2>6, <2>7 DEF Vouched, Importing
  <1>8. CASE RecordContinuity
    <2>1. /\ call.pc = "post" /\ call.left = {} /\ call'.pc = "save"
          /\ call'.s = call.s /\ call'.all = call.all /\ call'.todo = call.todo
          /\ call'.at = call.at /\ UNCHANGED history
      BY <1>0, <1>8 DEF RecordContinuity, Call
    <2>2. Import
      BY <1>8 DEF Import
    <2>3. call.at \in Conversations
      BY <2>1, Snapshots DEF IInv, ImportUnderway, Importing
    <2>4. Known(call.at) \subseteq Known(call.at)'
      BY <1>1, <2>1, <2>2, <2>3 DEF Known, Stored
    <2>5. \A d \in call.all \ call.todo :
              d \in Conversations /\ Export[call.s][d].messages \subseteq Known(d)'
      BY <1>0, <1>1, <2>1, <2>2 DEF Vouched, Importing, Call
    <2>6. Indices'
      BY <1>2, <2>1, <2>2
    <2> QED
      BY <2>1, <2>4, <2>5, <2>6 DEF Vouched, Importing
  <1>9. CASE SaveHistory
    <2>1. /\ call.pc = "save" /\ call'.pc = "import" /\ call'.s = call.s
          /\ call'.all = call.all /\ call'.todo = call.todo \ {call.at}
          /\ UNCHANGED log
      BY <1>0, <1>9 DEF SaveHistory, Call
    <2>2. /\ call.at \in Conversations /\ call.at \in DOMAIN Export[call.s]
          /\ call.s \in Sources
      BY <2>1, Snapshots DEF IInv, ImportUnderway, Importing
    <2>3. \A d \in Conversations : Known(d)' = Known(d)
      BY <2>1 DEF Known, Stored
    <2>4. /\ history'[call.at].print = Export[call.s][call.at].print
          /\ \A d \in Conversations : d # call.at => history'[d] = history[d]
      BY <1>0, <1>9, <2>2 DEF SaveHistory
    <2>5. Export[call.s][call.at].messages \subseteq Known(call.at)
      BY <2>1 DEF Vouched
    <2>6. Indices'
      <3> SUFFICES ASSUME NEW d \in Conversations, Indexed(d)'
                   PROVE  \E r \in Sources :
                            /\ d \in DOMAIN Export[r]
                            /\ Export[r][d].print = history'[d].print
                            /\ Export[r][d].messages \subseteq Known(d)
        BY <2>3
      <3>1. CASE d = call.at
        BY <2>2, <2>4, <2>5, <3>1
      <3>2. CASE d # call.at
        <4>1. history'[d] = history[d] /\ Indexed(d)
          BY <2>4, <3>2 DEF Indexed
        <4> QED
          BY <4>1 DEF Vouched
      <3> QED
        BY <3>1, <3>2
    <2>7. \A d \in call.all \ (call.todo \ {call.at}) :
              d \in Conversations /\ Export[call.s][d].messages \subseteq Known(d)
      BY <1>0, <2>1, <2>2, <2>5 DEF Vouched, Importing, Call
    <2> QED
      BY <2>1, <2>3, <2>6, <2>7 DEF Vouched, Importing
  <1>10. CASE FinishImport
    <2>1. call'.pc = "idle"
      BY <1>10 DEF FinishImport, Idle
    <2>2. Indices'
      BY <1>2, <1>10 DEF Import, FinishImport
    <2> QED
      BY <2>1, <2>2 DEF Vouched, Importing
  <1>11. CASE Crash
    <2>1. call'.pc = "idle" /\ UNCHANGED <<log, history>>
      BY <1>11 DEF Crash, Idle
    <2>2. \A d \in Conversations : Known(d)' = Known(d) /\ Indexed(d)' = Indexed(d)
      BY <2>1 DEF Known, Stored, Indexed
    <2> QED
      BY <2>1, <2>2 DEF Vouched, Importing
  <1>12. ~ Remove
    <2>1. \A s \in Sources : ~BeginDelete(s)
      BY <1>0 DEF BeginDelete
    <2>2. call.pc # "delete" /\ call.pc # "sweep"
      BY DEF Vouched
    <2>3. /\ \A e \in Event : ~DeleteEvent(e) /\ ~SweepEvent(e)
          /\ \A c \in Conversations : \A s \in Sources : ~Reassign(c, s)
          /\ \A c \in Conversations : ~BeginSweep(c)
      BY <2>2 DEF DeleteEvent, SweepEvent, Reassign, BeginSweep
    <2>4. ~DropHistory /\ ~DropSource
      BY <2>2 DEF DropHistory, DropSource
    <2> QED
      BY <2>1, <2>3, <2>4 DEF Remove
  <1> QED
    BY <1>3, <1>4, <1>5, <1>6, <1>7, <1>8, <1>9, <1>10, <1>11, <1>12
    DEF Next, Import

\* However often imports stop half way and are repeated: until a source is
\* deleted, an import that is done with a conversation has added every message
\* of it that was missing.
THEOREM RepeatedImportCompletes == Spec => []CompleteUntilDelete
  <1> DEFINE Promise == done.deletes = 0 => Vouched
  <1>1. Init => Promise
    BY DEF Init, Idle, Vouched, Importing, Indexed
  <1>2. IInv /\ Promise /\ [Next]_vars => Promise'
    <2>1. ASSUME IInv, Promise, UNCHANGED vars
          PROVE  Promise'
      BY <2>1 DEF vars, Vouched, Importing, Indexed, Known, Stored
    <2>2. ASSUME IInv, Next, done'.deletes = 0
          PROVE  done.deletes = 0
      <3>1. done \in [imports : Nat, deletes : Nat, crashes : Nat]
        BY <2>2 DEF IInv, TypeOK
      <3>2. \A s \in Sources : BeginDelete(s) => done'.deletes = done.deletes + 1
        BY <3>1 DEF BeginDelete
      <3>3. \/ done'.deletes = done.deletes
            \/ \E s \in Sources : BeginDelete(s)
        BY <2>2, <3>1
        DEF Next, Import, Remove, BeginImport, SkipConversation, OpenConversation,
            PostMessage, CompleteMessage, RecordContinuity, SaveHistory, FinishImport,
            DeleteEvent, SweepEvent, Reassign, BeginSweep, DropHistory, DropSource,
            Crash
      <3> QED
        BY <2>2, <3>1, <3>2, <3>3
    <2> QED
      BY <2>1, <2>2, VouchedStep
  <1>3. Promise => CompleteUntilDelete
    BY DEF Vouched, CompleteUntilDelete, ImportAddsUnseen, Importing
  <1> QED
    BY <1>1, <1>2, <1>3, Invariance, PTL DEF Spec

-----------------------------------------------------------------------------
(* While no call stopped half way, the index is that of the log *)

\* What the call under way works on.
Apart(c) == call.pc \in {"idle", "import", "delete"} \/ c # call.at

\* The index has a record of a conversation that has begun, with all its messages.
Matches(c) ==
    /\ Indexed(c) <=> Stored(Begun(c))
    /\ EventsOf(c) # {} => Stored(Begun(c))
    /\ Known(c) \subseteq history[c].messages

\* The fingerprint of a record is of an export whose messages it has.
Printed(c) ==
    Indexed(c) => \E r \in Sources : /\ c \in DOMAIN Export[r]
                                     /\ Export[r][c].print = history[c].print
                                     /\ Export[r][c].messages \subseteq history[c].messages

\* The source of a record has an event in the conversation, until it is deleted.
Sourced(c) ==
    Indexed(c) =>
        /\ history[c].source \in Sources
        /\ \/ call.pc \in {"delete", "sweep"} /\ history[c].source = call.s
           \/ \E e \in Event : Stored(e) /\ e.conv = c /\ e.import = history[c].source

\* The record an import makes of a conversation will have the messages that are there.
Merging ==
    /\ call.pc \in {"post", "complete", "save"} =>
           Stored(Begun(call.at)) /\ Known(call.at) \subseteq call.merged \cup {call.msg}
    /\ call.pc \in {"post", "complete"} =>
           Export[call.s][call.at].messages \subseteq call.merged \cup call.left
    /\ call.pc = "save" => /\ Export[call.s][call.at].messages \subseteq call.merged
                           /\ Stored(Continuity(call.at, call.s))
    /\ Importing =>
           \A c \in call.all \ call.todo : Export[call.s][c].messages \subseteq history[c].messages

\* A delete comes to every record of its source.
Reaching ==
    call.pc \in {"delete", "sweep"} =>
        /\ \A e \in call.doomed : e.import \in {call.s, None}
        /\ \A c \in Conversations :
               Indexed(c) /\ history[c].source = call.s =>
                   c \in call.todo \/ \E e \in call.doomed : e.conv = c

IndexInv ==
    /\ \A c \in Conversations : Printed(c) /\ (Apart(c) => Matches(c) /\ Sourced(c))
    /\ Merging /\ Reaching

\* What a step leaves alone in a conversation stays as it was.
LEMMA Untouched ==
    ASSUME NEW c \in Conversations, history'[c] = history[c],
           \A e \in Event : e.conv = c => Stored(e)' = Stored(e)
    PROVE  /\ Indexed(c)' = Indexed(c) /\ Known(c)' = Known(c) /\ EventsOf(c)' = EventsOf(c)
           /\ Stored(Begun(c))' = Stored(Begun(c))
           /\ Printed(c) => Printed(c)'
           /\ Matches(c) => Matches(c)'
           /\ \A s : (\E e \in Event : Stored(e) /\ e.conv = c /\ e.import = s) =>
                     (\E e \in Event : Stored(e) /\ e.conv = c /\ e.import = s)'
  <1>1. Indexed(c)' = Indexed(c)
    BY DEF Indexed
  <1>2. \A m \in Messages : \A s \in Sources : Stored(Created(c, m, s))' = Stored(Created(c, m, s))
    BY EventFacts DEF Created
  <1>3. Known(c)' = Known(c)
    BY <1>2 DEF Known
  <1>4. EventsOf(c)' = EventsOf(c)
    BY DEF EventsOf
  <1>5. Stored(Begun(c))' = Stored(Begun(c))
    BY EventFacts DEF Begun
  <1>6. Printed(c) => Printed(c)'
    BY <1>1 DEF Printed
  <1>7. Matches(c) => Matches(c)'
    BY <1>1, <1>3, <1>4, <1>5 DEF Matches
  <1> QED
    BY <1>1, <1>3, <1>4, <1>5, <1>6, <1>7

\* A step that writes one event, or deletes one, leaves other conversations alone.
LEMMA OneConversation ==
    ASSUME IInv, NEW e \in Event, Write(e) \/ (Delete(e) /\ Stored(e)),
           NEW c \in Conversations, c # e.conv, NEW f \in Event, f.conv = c
    PROVE  Stored(f)' = Stored(f)
  <1>1. log \in [Event -> Nat]
    BY DEF IInv, TypeOK
  <1>2. log'[f] = log[f]
    BY <1>1, AppendEvent, DeleteEventOnce DEF Stored
  <1> QED
    BY <1>2 DEF Stored

\* An import that begins, and a conversation that is skipped.
LEMMA BeginImportKeepsIndex ==
    ASSUME IInv, IndexInv, NEW s \in Sources, NEW selected \in SUBSET DOMAIN Export[s],
           BeginImport(s, selected)
    PROVE  IndexInv'
  <1>1. /\ call = Idle /\ call'.pc = "import" /\ call'.all = selected /\ call'.todo = selected
        /\ UNCHANGED <<history, log>>
    BY DEF BeginImport, Idle
  <1>2. ASSUME NEW c \in Conversations
        PROVE  Printed(c)' /\ Matches(c)' /\ Sourced(c)'
    <2>1. Printed(c) /\ Matches(c) /\ Sourced(c) /\ call.pc = "idle"
      BY <1>1 DEF IndexInv, Apart, Idle
    <2>2. \A e \in Event : e.conv = c => Stored(e)' = Stored(e)
      BY <1>1 DEF Stored
    <2> QED
      BY <1>1, <2>1, <2>2, Untouched DEF Sourced
  <1>3. Merging' /\ Reaching'
    BY <1>1 DEF Merging, Reaching
  <1> QED
    BY <1>2, <1>3 DEF IndexInv

\* A conversation is skipped whose record has the messages of the export.
LEMMA SkipKeepsIndex ==
    ASSUME IInv, IndexInv, NEW c \in Conversations, SkipConversation(c)
    PROVE  IndexInv'
  <1>0. call \in Call
    BY DEF IInv, TypeOK
  <1>1. /\ call.pc = "import" /\ c \in call.todo
        /\ call'.pc = "import" /\ call'.s = call.s /\ call'.all = call.all
        /\ call'.todo = call.todo \ {c} /\ UNCHANGED <<history, log>>
    BY <1>0 DEF SkipConversation, Call
  <1>2. ASSUME NEW d \in Conversations
        PROVE  Printed(d)' /\ Matches(d)' /\ Sourced(d)'
    <2>1. Printed(d) /\ Matches(d) /\ Sourced(d)
      BY <1>1 DEF IndexInv, Apart
    <2>2. \A e \in Event : e.conv = d => Stored(e)' = Stored(e)
      BY <1>1 DEF Stored
    <2> QED
      BY <1>1, <2>1, <2>2, Untouched DEF Sourced
  <1>3. Export[call.s][c].messages \subseteq history[c].messages
    <2>1. c \in DOMAIN Export[call.s] /\ Export[call.s][c] \in Snapshot /\ call.s \in Sources
      BY <1>1, Snapshots DEF IInv, Importing
    <2>2. Indexed(c)
      BY <2>1, NoneIsNoName DEF SkipConversation, Duplicate, Indexed, NoHistory, Snapshot
    <2> QED
      BY <2>1, <2>2, PrintIdentifiesMessages DEF SkipConversation, Duplicate, IndexInv, Printed
  <1>4. Merging'
    BY <1>1, <1>3 DEF IndexInv, Merging, Importing
  <1>5. Reaching'
    BY <1>1 DEF Reaching
  <1> QED
    BY <1>2, <1>4, <1>5 DEF IndexInv

\* A conversation that is opened has begun, and its record is taken over.
LEMMA OpenKeepsIndex ==
    ASSUME IInv, IndexInv, NEW c \in Conversations, OpenConversation(c)
    PROVE  IndexInv'
  <1>0. call \in Call /\ log \in [Event -> Nat]
    BY DEF IInv, TypeOK
  <1>1. /\ call.pc = "import" /\ c \in call.todo /\ ~Duplicate(c)
        /\ call'.pc = "post" /\ call'.s = call.s /\ call'.all = call.all
        /\ call'.todo = call.todo /\ call'.at = c /\ call'.left = Unseen(c)
        /\ call'.merged = history[c].messages /\ call'.msg = None /\ UNCHANGED history
    BY <1>0 DEF OpenConversation, Call, IInv, ImportUnderway
  <1>2. \A d \in Conversations : Printed(d) /\ Matches(d) /\ Sourced(d)
    BY <1>1 DEF IndexInv, Apart
  <1>3. Begun(c) \in Event /\ Begun(c).conv = c
    BY EventFacts DEF Begun
  <1>4. ASSUME NEW d \in Conversations, d # c
        PROVE  Matches(d)' /\ Sourced(d)'
    <2>1. \A e \in Event : e.conv = d => Stored(e)' = Stored(e)
      BY <1>3, <1>4, OneConversation DEF OpenConversation, Stored
    <2> QED
      BY <1>1, <1>2, <1>4, <2>1, Untouched DEF Sourced
  <1>5. ASSUME NEW d \in Conversations
        PROVE  Printed(d)'
    BY <1>1, <1>2 DEF Printed, Indexed
  <1>6. Stored(Begun(c))'
    <2>1. CASE EventsOf(c) = {}
      BY <1>0, <1>3, <2>1, AppendEvent DEF OpenConversation, Stored
    <2>2. CASE EventsOf(c) # {}
      BY <1>2, <2>2 DEF OpenConversation, Matches, Stored
    <2> QED
      BY <2>1, <2>2
  <1>7. Known(c)' = Known(c)
    <2>1. CASE Write(Begun(c))
      <3>1. \A m \in Messages, s \in Sources :
              Stored(Created(c, m, s))' = Stored(Created(c, m, s))
        BY <1>0, <1>3, <2>1, AppendEvent, EventFacts, Distinct DEF Stored
      <3> QED
        BY <3>1 DEF Known
    <2> QED
      BY <2>1 DEF OpenConversation, Known, Stored
  <1>8. Merging'
    <2>1. Export[call.s][c].messages \subseteq history[c].messages \cup Unseen(c)
      BY <1>2 DEF Matches, Unseen
    <2>2. Known(c)' \subseteq history[c].messages
      BY <1>2, <1>7 DEF Matches
    <2>3. \A d \in call.all \ call.todo : Export[call.s][d].messages \subseteq history[d].messages
      BY <1>1 DEF IndexInv, Merging, Importing
    <2>4. Known(call.at)' = Known(c)' /\ Stored(Begun(call.at))' = Stored(Begun(c))'
      BY <1>1 DEF Known, Stored
    <2> QED
      BY <1>1, <1>6, <2>1, <2>2, <2>3, <2>4 DEF Merging
  <1>9. Reaching'
    BY <1>1 DEF Reaching
  <1> QED
    BY <1>1, <1>4, <1>5, <1>8, <1>9 DEF IndexInv, Apart

\* A message that is posted will be in the record.
LEMMA PostKeepsIndex ==
    ASSUME IInv, IndexInv, NEW m \in Messages, PostMessage(m)
    PROVE  IndexInv'
  <1>0. call \in Call /\ log \in [Event -> Nat] /\ None \notin Messages
    BY NoneIsNoName DEF IInv, TypeOK
  <1> DEFINE e == Created(call.at, m, call.s)
  <1>1. /\ call.pc = "post" /\ m \in call.left /\ call.msg = None
        /\ call'.pc = "complete" /\ call'.s = call.s /\ call'.all = call.all
        /\ call'.todo = call.todo /\ call'.at = call.at /\ call'.left = call.left
        /\ call'.merged = call.merged /\ call'.msg = m /\ UNCHANGED history /\ Write(e)
    BY <1>0 DEF PostMessage, Call, IInv, ImportUnderway
  <1>2. /\ call.at \in Conversations /\ call.s \in Sources
        /\ e \in Event /\ e.conv = call.at
    BY <1>1, Snapshots, EventFacts DEF IInv, ImportUnderway, Importing, Created
  <1> HIDE DEF e
  <1>3. \A f \in Event : Stored(f) => Stored(f)'
    BY <1>0, <1>1, <1>2, AppendEvent DEF Stored
  <1>4. ASSUME NEW d \in Conversations, d # call.at
        PROVE  Matches(d)' /\ Sourced(d)'
    <2>1. \A f \in Event : f.conv = d => Stored(f)' = Stored(f)
      BY <1>1, <1>2, <1>4, OneConversation
    <2>2. Matches(d) /\ Sourced(d)
      BY <1>4 DEF IndexInv, Apart
    <2> QED
      BY <1>1, <1>4, <2>1, <2>2, Untouched DEF Sourced
  <1>5. ASSUME NEW d \in Conversations
        PROVE  Printed(d)'
    BY <1>1 DEF IndexInv, Printed, Indexed
  <1>6. Known(call.at)' \subseteq Known(call.at) \cup {m}
    <2>1. ASSUME NEW n \in Messages, NEW r \in Sources, Stored(Created(call.at, n, r))', n # m
          PROVE  Stored(Created(call.at, n, r))
      <3>1. Created(call.at, n, r) \in Event /\ Created(call.at, n, r) # e
        BY <1>2, <2>1, EventFacts, Distinct DEF e
      <3> QED
        BY <1>0, <1>1, <1>2, <2>1, <3>1, AppendEvent DEF Stored
    <2>2. \A n \in Known(call.at)' : n \in Messages /\ \E r \in Sources : Stored(Created(call.at, n, r))'
      BY <1>1 DEF Known
    <2> QED
      BY <2>1, <2>2 DEF Known
  <1>7. Merging'
    <2>1. Stored(Begun(call.at))' /\ Known(call.at)' \subseteq call.merged \cup {m}
      BY <1>0, <1>1, <1>2, <1>3, <1>6, EventFacts DEF IndexInv, Merging, Known
    <2>2. \A d \in call.all \ call.todo : Export[call.s][d].messages \subseteq history[d].messages
      BY <1>1 DEF IndexInv, Merging, Importing
    <2>3. Export[call.s][call.at].messages \subseteq call.merged \cup call.left
      BY <1>1 DEF IndexInv, Merging
    <2> QED
      BY <1>1, <2>1, <2>2, <2>3 DEF Merging
  <1>8. Reaching'
    BY <1>1 DEF Reaching
  <1> QED
    BY <1>1, <1>4, <1>5, <1>7, <1>8 DEF IndexInv, Apart

\* An event that is no MessageCreated changes nothing in the messages.
LEMMA SameMessages ==
    ASSUME IInv, NEW e \in Event, Write(e), e.kind # "created"
    PROVE  /\ \A c \in Conversations : Known(c)' = Known(c)
           /\ \A f \in Event : Stored(f) => Stored(f)'
           /\ Stored(e)'
  <1>0. log \in [Event -> Nat]
    BY DEF IInv, TypeOK
  <1>1. \A f \in Event : Stored(f) => Stored(f)'
    BY <1>0, AppendEvent DEF Stored
  <1>2. \A c \in Conversations, m \in Messages, s \in Sources :
          Stored(Created(c, m, s))' = Stored(Created(c, m, s))
    <2>1. \A c, m, s : Created(c, m, s) # e
      BY DEF Created
    <2> QED
      BY <1>0, <2>1, AppendEvent, EventFacts DEF Stored
  <1>3. \A c \in Conversations : Known(c)' = Known(c)
    BY <1>2 DEF Known
  <1>4. Stored(e)'
    BY <1>0, AppendEvent DEF Stored
  <1> QED
    BY <1>1, <1>3, <1>4

\* A completion changes nothing in the messages.
LEMMA CompleteKeepsIndex ==
    ASSUME IInv, IndexInv, CompleteMessage
    PROVE  IndexInv'
  <1>0. call \in Call /\ log \in [Event -> Nat]
    BY DEF IInv, TypeOK
  <1> DEFINE e == Completed(call.at, call.msg)
  <1>1. /\ call.pc = "complete"
        /\ call'.pc = "post" /\ call'.s = call.s /\ call'.all = call.all
        /\ call'.todo = call.todo /\ call'.at = call.at /\ call'.left = call.left \ {call.msg}
        /\ call'.merged = call.merged \cup {call.msg} /\ call'.msg = None
        /\ UNCHANGED history /\ Write(e)
    BY <1>0 DEF CompleteMessage, Merge, Call
  <1>2. call.at \in Conversations /\ call.msg \in Messages
    BY <1>0, <1>1, Snapshots DEF IInv, ImportUnderway, Importing, Call
  <1>3. e \in Event /\ e.conv = call.at /\ e.kind # "created"
    BY <1>2, EventFacts DEF Completed
  <1> HIDE DEF e
  <1>4. ASSUME NEW d \in Conversations, d # call.at
        PROVE  Matches(d)' /\ Sourced(d)'
    <2>1. \A f \in Event : f.conv = d => Stored(f)' = Stored(f)
      BY <1>1, <1>3, <1>4, OneConversation
    <2>2. Matches(d) /\ Sourced(d)
      BY <1>4 DEF IndexInv, Apart
    <2> QED
      BY <1>1, <1>4, <2>1, <2>2, Untouched DEF Sourced
  <1>5. ASSUME NEW d \in Conversations
        PROVE  Printed(d)'
    BY <1>1 DEF IndexInv, Printed, Indexed
  <1>6. Merging'
    <2>1. Stored(Begun(call.at))' /\ Known(call.at)' = Known(call.at)
      BY <1>1, <1>2, <1>3, SameMessages, EventFacts DEF IndexInv, Merging
    <2>2. Known(call.at) \subseteq call.merged \cup {call.msg}
      BY <1>1 DEF IndexInv, Merging
    <2>3. \A d \in call.all \ call.todo : Export[call.s][d].messages \subseteq history[d].messages
      BY <1>1 DEF IndexInv, Merging, Importing
    <2>4. Export[call.s][call.at].messages
            \subseteq (call.merged \cup {call.msg}) \cup (call.left \ {call.msg})
      BY <1>1 DEF IndexInv, Merging
    <2> QED
      BY <1>1, <2>1, <2>2, <2>3, <2>4 DEF Merging
  <1>7. Reaching'
    BY <1>1 DEF Reaching
  <1> QED
    BY <1>1, <1>4, <1>5, <1>6, <1>7 DEF IndexInv, Apart

\* A ContinuityRecorded gives the source of the record its event.
LEMMA ContinuityKeepsIndex ==
    ASSUME IInv, IndexInv, RecordContinuity
    PROVE  IndexInv'
  <1>0. call \in Call /\ log \in [Event -> Nat]
    BY DEF IInv, TypeOK
  <1> DEFINE e == Continuity(call.at, call.s)
  <1>1. /\ call.pc = "post" /\ call.left = {} /\ call.msg = None
        /\ call'.pc = "save" /\ call'.s = call.s /\ call'.all = call.all
        /\ call'.todo = call.todo /\ call'.at = call.at
        /\ call'.merged = call.merged /\ call'.msg = None
        /\ UNCHANGED history /\ Write(e)
    BY <1>0 DEF RecordContinuity, Call, IInv, ImportUnderway
  <1>2. call.at \in Conversations /\ call.s \in Sources
    BY <1>1, Snapshots DEF IInv, ImportUnderway, Importing
  <1>3. e \in Event /\ e.conv = call.at /\ e.kind # "created"
    BY <1>2, EventFacts DEF Continuity
  <1> HIDE DEF e
  <1>4. ASSUME NEW d \in Conversations, d # call.at
        PROVE  Matches(d)' /\ Sourced(d)'
    <2>1. \A f \in Event : f.conv = d => Stored(f)' = Stored(f)
      BY <1>1, <1>3, <1>4, OneConversation
    <2>2. Matches(d) /\ Sourced(d)
      BY <1>4 DEF IndexInv, Apart
    <2> QED
      BY <1>1, <1>4, <2>1, <2>2, Untouched DEF Sourced
  <1>5. ASSUME NEW d \in Conversations
        PROVE  Printed(d)'
    BY <1>1 DEF IndexInv, Printed, Indexed
  <1>6. Merging'
    <2>1. Stored(Begun(call.at))' /\ Known(call.at)' = Known(call.at)
      BY <1>1, <1>2, <1>3, SameMessages, EventFacts DEF IndexInv, Merging
    <2>2. Known(call.at) \subseteq call.merged \cup {None}
      BY <1>1 DEF IndexInv, Merging
    <2>3. \A d \in call.all \ call.todo : Export[call.s][d].messages \subseteq history[d].messages
      BY <1>1 DEF IndexInv, Merging, Importing
    <2>4. Export[call.s][call.at].messages \subseteq call.merged
      BY <1>1 DEF IndexInv, Merging
    <2>5. log'[e] > 0
      BY <1>0, <1>1, <1>3, AppendEvent
    <2>6. Stored(Continuity(call.at, call.s))'
      BY <1>1, <2>5 DEF Stored, e
    <2> QED
      BY <1>1, <2>1, <2>2, <2>3, <2>4, <2>6 DEF Merging
  <1>7. Reaching'
    BY <1>1 DEF Reaching
  <1> QED
    BY <1>1, <1>4, <1>5, <1>6, <1>7 DEF IndexInv, Apart

\* The record that is saved has the messages that are there, those of the export among them.
LEMMA SaveKeepsIndex ==
    ASSUME IInv, IndexInv, SaveHistory
    PROVE  IndexInv'
  <1>0. call \in Call /\ history \in [Conversations -> History] /\ None \notin Sources \cup Messages \cup Prints
    BY NoneIsNoName DEF IInv, TypeOK
  <1>1. /\ call.pc = "save" /\ call.msg = None
        /\ call'.pc = "import" /\ call'.s = call.s /\ call'.all = call.all
        /\ call'.todo = call.todo \ {call.at} /\ call'.merged = {} /\ UNCHANGED log
    BY <1>0 DEF SaveHistory, Call, IInv, ImportUnderway
  <1>2. /\ call.at \in Conversations /\ call.s \in Sources /\ call.at \in DOMAIN Export[call.s]
        /\ Export[call.s][call.at] \in Snapshot
    BY <1>1, Snapshots DEF IInv, ImportUnderway, Importing
  <1>3. /\ history'[call.at].source = call.s
        /\ history'[call.at].print = Export[call.s][call.at].print
        /\ history'[call.at].messages = call.merged
        /\ \A d \in Conversations : d # call.at => history'[d] = history[d]
    BY <1>0, <1>2 DEF SaveHistory
  <1>4. \A f \in Event : Stored(f)' = Stored(f)
    BY <1>1 DEF Stored
  <1>5. ASSUME NEW d \in Conversations, d # call.at
        PROVE  Printed(d)' /\ Matches(d)' /\ Sourced(d)'
    <2>1. Matches(d) /\ Sourced(d) /\ Printed(d)
      BY <1>5 DEF IndexInv, Apart
    <2> QED
      BY <1>1, <1>3, <1>4, <1>5, <2>1, Untouched DEF Sourced
  <1>6. /\ Stored(Begun(call.at)) /\ Known(call.at) \subseteq call.merged \cup {None}
        /\ Export[call.s][call.at].messages \subseteq call.merged
        /\ Stored(Continuity(call.at, call.s))
    BY <1>1 DEF IndexInv, Merging
  <1>7. ASSUME NEW d \in Conversations, d = call.at
        PROVE  Printed(d)' /\ Matches(d)' /\ Sourced(d)'
    <2>1. Known(d)' = Known(d)
      BY <1>1 DEF Known, Stored
    <2>2. Indexed(d)'
      BY <1>0, <1>2, <1>3, <1>7 DEF Indexed, NoHistory
    <2>3. Stored(Begun(d))'
      BY <1>4, <1>6, <1>7, EventFacts
    <2>4. Matches(d)'
      BY <1>0, <1>3, <1>6, <1>7, <2>1, <2>2, <2>3 DEF Matches, Known
    <2>5. Printed(d)'
      BY <1>2, <1>3, <1>6, <1>7 DEF Printed
    <2>6. PICK e \in Event : log[e] > 0 /\ e.conv = d /\ e.import = call.s
      <3> DEFINE e == Continuity(call.at, call.s)
      <3>1. e \in Event /\ log[e] > 0
        BY <1>2, <1>6, EventFacts DEF Stored
      <3>2. e.conv = call.at /\ e.import = call.s
        BY DEF Continuity
      <3> HIDE DEF e
      <3> QED
        BY <1>7, <3>1, <3>2
    <2>7. Stored(e)'
      BY <1>1, <2>6 DEF Stored
    <2>8. Sourced(d)'
      BY <1>2, <1>3, <1>7, <2>6, <2>7 DEF Sourced
    <2> QED
      BY <2>4, <2>5, <2>8
  <1>8. Merging'
    <2>1. \A d \in call.all \ call.todo : Export[call.s][d].messages \subseteq history[d].messages
      BY <1>1 DEF IndexInv, Merging, Importing
    <2>2. call.all \subseteq Conversations
      BY <1>0 DEF Call
    <2>3. ASSUME NEW d \in call.all \ (call.todo \ {call.at})
          PROVE  Export[call.s][d].messages \subseteq history'[d].messages
      BY <1>2, <1>3, <1>6, <2>1, <2>2
    <2> QED
      BY <1>1, <2>3 DEF Merging
  <1>9. Reaching'
    BY <1>1 DEF Reaching
  <1> QED
    BY <1>5, <1>7, <1>8, <1>9 DEF IndexInv

\* An import that is done leaves log and index as they are.
LEMMA FinishKeepsIndex ==
    ASSUME IInv, IndexInv, FinishImport
    PROVE  IndexInv'
  <1>1. call.pc = "import" /\ call'.pc = "idle" /\ UNCHANGED <<history, log>>
    BY DEF FinishImport, Idle
  <1>2. ASSUME NEW c \in Conversations
        PROVE  Printed(c)' /\ Matches(c)' /\ Sourced(c)'
    <2>1. Printed(c) /\ Matches(c) /\ Sourced(c)
      BY <1>1 DEF IndexInv, Apart
    <2>2. \A e \in Event : e.conv = c => Stored(e)' = Stored(e)
      BY <1>1 DEF Stored
    <2> QED
      BY <1>1, <2>1, <2>2, Untouched DEF Sourced
  <1>3. Merging' /\ Reaching'
    BY <1>1 DEF Merging, Reaching, Importing
  <1> QED
    BY <1>2, <1>3 DEF IndexInv

\* A delete that begins has the events of its source on its list.
LEMMA BeginDeleteKeepsIndex ==
    ASSUME IInv, IndexInv, NEW s \in Sources, BeginDelete(s)
    PROVE  IndexInv'
  <1>1. /\ call.pc = "idle" /\ call'.pc = "delete" /\ call'.s = s /\ call'.doomed = Doomed(s)
        /\ call'.todo = {} /\ UNCHANGED <<history, log>>
    BY DEF BeginDelete, Idle
  <1>2. \A c \in Conversations : Printed(c) /\ Matches(c) /\ Sourced(c)
    BY <1>1 DEF IndexInv, Apart
  <1>3. ASSUME NEW c \in Conversations
        PROVE  Printed(c)' /\ Matches(c)' /\ Sourced(c)'
    <2>1. \A e \in Event : e.conv = c => Stored(e)' = Stored(e)
      BY <1>1 DEF Stored
    <2> QED
      BY <1>1, <1>2, <2>1, Untouched DEF Sourced
  <1>4. Merging'
    BY <1>1 DEF Merging, Importing
  <1>5. ASSUME NEW e \in Doomed(s)
        PROVE  e.import \in {s, None}
    <2>1. e \in Event /\ Stored(e)
      BY DEF Doomed
    <2>2. CASE e.kind = "created"
      <3>1. e = Created(e.conv, e.msg, e.import) /\ Stored(Created(e.conv, e.msg, s))
            /\ e.conv \in Conversations /\ e.msg \in Messages /\ e.import \in Sources
        BY <2>1, <2>2, EventShape DEF Doomed, Continuity
      <3>2. Stored(Created(e.conv, e.msg, e.import))
        BY <2>1, <3>1
      <3> QED
        BY <3>1, <3>2 DEF IInv, NoDuplicates
    <2>3. CASE e.kind = "completed"
      BY <2>1, <2>3, EventShape
    <2>4. CASE e = Continuity(e.conv, s)
      BY <2>4 DEF Continuity
    <2> QED
      BY <2>2, <2>3, <2>4 DEF Doomed
  <1>6. ASSUME NEW c \in Conversations, Indexed(c), history[c].source = s
        PROVE  \E e \in Doomed(s) : e.conv = c
    <2>1. PICK e \in Event : Stored(e) /\ e.conv = c /\ e.import = s
      BY <1>1, <1>2, <1>6 DEF Sourced
    <2>2. e.kind \in {"created", "continuity"} /\ s # None
      BY <2>1, EventShape, NoneIsNoName
    <2>3. e \in Doomed(s)
      BY <2>1, <2>2, EventShape DEF Doomed
    <2> QED
      BY <2>1, <2>3
  <1>7. Reaching'
    BY <1>1, <1>5, <1>6 DEF Reaching, Indexed
  <1> QED
    BY <1>3, <1>4, <1>7 DEF IndexInv

\* An event that is deleted is not the beginning of its conversation, and its
\* conversation is on the list then.
LEMMA DeleteEventKeepsIndex ==
    ASSUME IInv, IndexInv, NEW e \in Event, DeleteEvent(e)
    PROVE  IndexInv'
  <1>0. call \in Call /\ log \in [Event -> Nat]
    BY DEF IInv, TypeOK
  <1>1. /\ call.pc = "delete" /\ e \in call.doomed /\ Delete(e) /\ Stored(e) /\ log[e] > 0
        /\ e.kind # "begun" /\ e.import \in {call.s, None}
        /\ call'.pc = "delete" /\ call'.s = call.s
        /\ call'.doomed = (IF log[e] = 1 THEN call.doomed \ {e} ELSE call.doomed)
        /\ call'.todo = call.todo \cup {e.conv} /\ UNCHANGED history
    BY <1>0 DEF DeleteEvent, Call, IInv, DeleteUnderway, IndexInv, Reaching, Stored
  <1>2. \A c \in Conversations : Printed(c) /\ Matches(c) /\ Sourced(c)
    BY <1>1 DEF IndexInv, Apart
  <1>3. /\ \A f \in Event : Stored(f)' => Stored(f)
        /\ \A f \in Event : f # e /\ Stored(f) => Stored(f)'
    BY <1>0, <1>1, DeleteEventOnce DEF Stored
  <1>4. ASSUME NEW c \in Conversations
        PROVE  Printed(c)' /\ Matches(c)' /\ Sourced(c)'
    <2>1. Indexed(c)' = Indexed(c) /\ Printed(c)'
      BY <1>1, <1>2 DEF Indexed, Printed
    <2>2. Stored(Begun(c))' = Stored(Begun(c))
      <3>1. Begun(c) \in Event /\ Begun(c) # e
        BY <1>1, EventFacts DEF Begun
      <3> QED
        BY <1>3, <3>1 DEF Stored
    <2>3. EventsOf(c)' \subseteq EventsOf(c)
      BY <1>3 DEF EventsOf
    <2>4. Known(c)' \subseteq Known(c)
      <3>1. \A m \in Messages, s \in Sources :
              Stored(Created(c, m, s))' => Stored(Created(c, m, s))
        BY <1>3, EventFacts
      <3> QED
        BY <3>1 DEF Known
    <2>5. Matches(c)'
      BY <1>1, <1>2, <2>1, <2>2, <2>3, <2>4 DEF Matches
    <2>6. Sourced(c)'
      <3>1. CASE history[c].source = call.s
        BY <1>1, <1>2, <2>1, <3>1 DEF Sourced
      <3>2. CASE history[c].source # call.s /\ Indexed(c)
        <4>1. history[c].source \in Sources /\ history[c].source # None
          BY <1>2, <3>2, NoneIsNoName DEF Sourced
        <4>2. PICK f \in Event : Stored(f) /\ f.conv = c /\ f.import = history[c].source
          BY <1>2, <3>2 DEF Sourced
        <4>3. f # e
          BY <1>1, <3>2, <4>1, <4>2
        <4>4. Stored(f)'
          BY <1>3, <4>2, <4>3
        <4> QED
          BY <1>1, <4>1, <4>2, <4>4 DEF Sourced
      <3> QED
        BY <2>1, <3>1, <3>2 DEF Sourced
    <2> QED
      BY <2>1, <2>5, <2>6
  <1>5. Merging'
    BY <1>1 DEF Merging, Importing
  <1>6. Reaching'
    <2>1. \A f \in call'.doomed : f \in call.doomed
      BY <1>1
    <2>2. ASSUME NEW c \in Conversations, Indexed(c), history[c].source = call.s
          PROVE  c \in call'.todo \/ \E f \in call'.doomed : f.conv = c
      <3>1. c \in call.todo \/ \E f \in call.doomed : f.conv = c
        BY <1>1, <2>2 DEF IndexInv, Reaching
      <3> QED
        BY <1>1, <3>1
    <2>3. \A f \in call.doomed : f.import \in {call.s, None}
      BY <1>1 DEF IndexInv, Reaching
    <2> QED
      BY <1>1, <2>1, <2>2, <2>3 DEF Reaching, Indexed
  <1> QED
    BY <1>4, <1>5, <1>6 DEF IndexInv

\* A record that is handed over goes to a source that stays.
LEMMA ReassignKeepsIndex ==
    ASSUME IInv, IndexInv, NEW c \in Conversations, NEW s \in Sources, Reassign(c, s)
    PROVE  IndexInv'
  <1>0. call \in Call /\ history \in [Conversations -> History] /\ None \notin Sources
    BY NoneIsNoName DEF IInv, TypeOK
  <1>1. /\ call.pc = "delete" /\ call.doomed = {} /\ c \in call.todo
        /\ call'.pc = "delete" /\ call'.s = call.s /\ call'.doomed = {}
        /\ call'.todo = call.todo \ {c} /\ UNCHANGED log
        /\ history' = IF Indexed(c) THEN [history EXCEPT ![c].source = s] ELSE history
    BY <1>0 DEF Reassign, NewOwner, Call
  <1>2. PICK m \in Messages : Stored(Created(c, m, s))
    BY DEF Reassign
  <1>3. \A d \in Conversations : Printed(d) /\ Matches(d) /\ Sourced(d)
    BY <1>1 DEF IndexInv, Apart
  <1>4. PICK e \in Event : log[e] > 0 /\ e.conv = c /\ e.import = s
    <2>1. Created(c, m, s) \in Event /\ Created(c, m, s).conv = c /\ Created(c, m, s).import = s
      BY EventFacts DEF Created
    <2> QED
      BY <1>2, <2>1 DEF Stored
  <1>5. s # call.s
    BY <1>1, <1>4 DEF IInv, DeleteUnderway, Stored
  <1>6. \A d \in Conversations : /\ d # c => history'[d] = history[d]
                                 /\ ~Indexed(c) => history'[d] = history[d]
    BY <1>0, <1>1
  <1>7. Indexed(c) => /\ history'[c].source = s /\ history'[c].print = history[c].print
                      /\ history'[c].messages = history[c].messages
    BY <1>0, <1>1 DEF History
  <1>8. Indexed(c)' = Indexed(c)
    <2>1. s # None
      BY <1>0
    <2> QED
      BY <1>6, <1>7, <2>1 DEF Indexed, NoHistory
  <1>9. \A f \in Event : Stored(f)' = Stored(f)
    BY <1>1 DEF Stored
  <1>10. ASSUME NEW d \in Conversations, history'[d] = history[d]
         PROVE  Printed(d)' /\ Matches(d)' /\ Sourced(d)' /\ Indexed(d)' = Indexed(d)
    <2>1. Printed(d) /\ Matches(d) /\ Sourced(d)
      BY <1>3
    <2>2. /\ Indexed(d)' = Indexed(d) /\ Printed(d)' /\ Matches(d)'
          /\ \A r : (\E f \in Event : Stored(f) /\ f.conv = d /\ f.import = r) =>
                    (\E f \in Event : Stored(f) /\ f.conv = d /\ f.import = r)'
      BY <1>9, <1>10, <2>1, Untouched
    <2>3. Sourced(d)'
      BY <1>1, <1>10, <2>1, <2>2 DEF Sourced
    <2> QED
      BY <2>2, <2>3
  <1>11. ASSUME Indexed(c)
         PROVE  Printed(c)' /\ Matches(c)' /\ Sourced(c)'
    <2>1. Printed(c)'
      BY <1>3, <1>7, <1>8, <1>11 DEF Printed
    <2>2. Known(c)' = Known(c) /\ EventsOf(c)' = EventsOf(c) /\ Stored(Begun(c))' = Stored(Begun(c))
      BY <1>1 DEF Known, EventsOf, Stored
    <2>3. Matches(c)'
      BY <1>3, <1>7, <1>8, <1>11, <2>2 DEF Matches
    <2>4. Stored(e)'
      BY <1>1, <1>4 DEF Stored
    <2>5. Sourced(c)'
      BY <1>4, <1>7, <1>11, <2>4 DEF Sourced
    <2> QED
      BY <2>1, <2>3, <2>5
  <1>12. Merging'
    BY <1>1 DEF Merging, Importing
  <1>13. Reaching'
    <2>1. ASSUME NEW d \in Conversations, Indexed(d)', history'[d].source = call.s
          PROVE  d \in call'.todo
      <3>1. d # c \/ ~Indexed(c)
        BY <1>5, <1>7, <2>1
      <3>2. d # c
        BY <1>8, <2>1, <3>1
      <3>3. Indexed(d) /\ history[d].source = call.s
        BY <1>6, <1>10, <2>1, <3>2
      <3> QED
        BY <1>1, <3>2, <3>3 DEF IndexInv, Reaching
    <2> QED
      BY <1>1, <2>1 DEF Reaching
  <1> QED
    BY <1>6, <1>10, <1>11, <1>12, <1>13 DEF IndexInv

\* A conversation without messages is swept, the one the call is at.
LEMMA BeginSweepKeepsIndex ==
    ASSUME IInv, IndexInv, NEW c \in Conversations, BeginSweep(c)
    PROVE  IndexInv'
  <1>0. call \in Call
    BY DEF IInv, TypeOK
  <1>1. /\ call.pc = "delete" /\ call'.pc = "sweep" /\ call'.s = call.s /\ call'.at = c
        /\ call'.doomed = call.doomed /\ call'.todo = call.todo /\ UNCHANGED <<history, log>>
    BY <1>0 DEF BeginSweep, Call
  <1>2. ASSUME NEW d \in Conversations
        PROVE  Printed(d)' /\ Matches(d)' /\ Sourced(d)' /\ Indexed(d)' = Indexed(d)
    <2>1. Printed(d) /\ Matches(d) /\ Sourced(d)
      BY <1>1 DEF IndexInv, Apart
    <2>2. \A e \in Event : e.conv = d => Stored(e)' = Stored(e)
      BY <1>1 DEF Stored
    <2> QED
      BY <1>1, <2>1, <2>2, Untouched DEF Sourced
  <1>3. Merging'
    BY <1>1 DEF Merging, Importing
  <1>4. Reaching'
    BY <1>1, <1>2 DEF IndexInv, Reaching
  <1> QED
    BY <1>2, <1>3, <1>4 DEF IndexInv

\* What is swept is of the conversation the call is at alone.
LEMMA SweepKeepsIndex ==
    ASSUME IInv, IndexInv, NEW e \in Event, SweepEvent(e)
    PROVE  IndexInv'
  <1>1. /\ call.pc = "sweep" /\ call.at \in Conversations
        /\ Delete(e) /\ Stored(e) /\ e.conv = call.at /\ UNCHANGED <<history, call>>
    BY DEF SweepEvent, EventsOf, IInv, DeleteUnderway
  <1>2. ASSUME NEW d \in Conversations, d # call.at
        PROVE  Matches(d)' /\ Sourced(d)'
    <2>1. Matches(d) /\ Sourced(d)
      BY <1>2 DEF IndexInv, Apart
    <2>2. \A f \in Event : f.conv = d => Stored(f)' = Stored(f)
      BY <1>1, <1>2, OneConversation
    <2> QED
      BY <1>1, <2>1, <2>2, Untouched DEF Sourced
  <1>3. \A d \in Conversations : Indexed(d)' = Indexed(d) /\ Printed(d)'
    BY <1>1 DEF IndexInv, Printed, Indexed
  <1>4. Merging'
    BY <1>1 DEF Merging, Importing
  <1>5. Reaching'
    BY <1>1, <1>3 DEF IndexInv, Reaching
  <1> QED
    BY <1>1, <1>2, <1>3, <1>4, <1>5 DEF IndexInv, Apart

\* A conversation that was swept has no record either.
LEMMA DropKeepsIndex ==
    ASSUME IInv, IndexInv, DropHistory
    PROVE  IndexInv'
  <1>0. call \in Call /\ history \in [Conversations -> History]
    BY DEF IInv, TypeOK
  <1>1. /\ call.pc = "sweep" /\ call.at \in Conversations /\ EventsOf(call.at) = {}
        /\ call'.pc = "delete" /\ call'.s = call.s /\ call'.todo = call.todo \ {call.at}
        /\ call'.doomed = call.doomed /\ call.doomed = {} /\ UNCHANGED log
    BY <1>0 DEF DropHistory, Swept, Call, IInv, DeleteUnderway
  <1>2. /\ history'[call.at] = NoHistory
        /\ \A d \in Conversations : d # call.at => history'[d] = history[d]
    BY <1>0, <1>1 DEF DropHistory
  <1>3. \A f \in Event : Stored(f)' = Stored(f)
    BY <1>1 DEF Stored
  <1>4. ASSUME NEW d \in Conversations, d # call.at
        PROVE  Printed(d)' /\ Matches(d)' /\ Sourced(d)' /\ Indexed(d)' = Indexed(d)
    <2>1. Printed(d) /\ Matches(d) /\ Sourced(d)
      BY <1>4 DEF IndexInv, Apart
    <2> QED
      BY <1>1, <1>2, <1>3, <1>4, <2>1, Untouched DEF Sourced
  <1>5. ASSUME NEW d \in Conversations, d = call.at
        PROVE  Printed(d)' /\ Matches(d)' /\ Sourced(d)' /\ ~Indexed(d)'
    <2>1. ~Indexed(d)'
      BY <1>2, <1>5 DEF Indexed
    <2>2. ~Stored(Begun(d))'
      <3>1. Begun(d) \in Event /\ Begun(d).conv = d
        BY EventFacts DEF Begun
      <3> QED
        BY <1>1, <1>3, <1>5, <3>1 DEF EventsOf
    <2>3. EventsOf(d)' = {}
      BY <1>1, <1>3, <1>5 DEF EventsOf
    <2>4. Known(d)' = {}
      <3>1. \A m \in Messages, s \in Sources : Created(d, m, s) \in Event /\ Created(d, m, s).conv = d
        BY EventFacts DEF Created
      <3>2. \A m \in Messages, s \in Sources : ~Stored(Created(d, m, s))'
        BY <1>1, <1>3, <1>5, <3>1 DEF EventsOf
      <3> QED
        BY <3>2 DEF Known
    <2> QED
      BY <2>1, <2>2, <2>3, <2>4 DEF Matches, Printed, Sourced
  <1>6. Merging'
    BY <1>1 DEF Merging, Importing
  <1>7. Reaching'
    BY <1>1, <1>2, <1>4, <1>5 DEF IndexInv, Reaching
  <1> QED
    BY <1>4, <1>5, <1>6, <1>7 DEF IndexInv

\* A delete that is done has no record of its source left.
LEMMA DropSourceKeepsIndex ==
    ASSUME IInv, IndexInv, DropSource
    PROVE  IndexInv'
  <1>1. /\ call.pc = "delete" /\ call.doomed = {} /\ call.todo = {}
        /\ call'.pc = "idle" /\ UNCHANGED <<history, log>>
    BY DEF DropSource, Idle
  <1>2. ASSUME NEW c \in Conversations
        PROVE  Printed(c)' /\ Matches(c)' /\ Sourced(c)'
    <2>1. Printed(c) /\ Matches(c) /\ Sourced(c)
      BY <1>1 DEF IndexInv, Apart
    <2>2. Indexed(c) => history[c].source # call.s
      BY <1>1 DEF IndexInv, Reaching
    <2>3. \A e \in Event : e.conv = c => Stored(e)' = Stored(e)
      BY <1>1 DEF Stored
    <2> QED
      BY <1>1, <2>1, <2>2, <2>3, Untouched DEF Sourced
  <1>3. Merging' /\ Reaching'
    BY <1>1 DEF Merging, Reaching, Importing
  <1> QED
    BY <1>2, <1>3 DEF IndexInv

\* As long as no call stopped half way, the index is that of the log.
THEOREM IndexFollowsLog == Spec => [](done.crashes = 0 => IndexInv)
  <1>1. Init => IndexInv
    <2> SUFFICES ASSUME Init PROVE IndexInv
      OBVIOUS
    <2>1. \A e \in Event : ~Stored(e)
      BY DEF Init, Stored
    <2>2. \A c \in Conversations : ~Indexed(c) /\ Known(c) = {} /\ EventsOf(c) = {}
      BY <2>1, EventFacts DEF Init, Indexed, Known, EventsOf
    <2>3. Merging /\ Reaching
      BY DEF Init, Idle, Merging, Reaching, Importing
    <2> QED
      BY <2>1, <2>2, <2>3, EventFacts DEF IndexInv, Matches, Printed, Sourced
  <1>2. IInv /\ (done.crashes = 0 => IndexInv) /\ [Next]_vars => (done.crashes = 0 => IndexInv)'
    <2>1. ASSUME IInv, IndexInv, UNCHANGED vars
          PROVE  IndexInv'
      <3>1. \A c \in Conversations : Printed(c)' = Printed(c) /\ Matches(c)' = Matches(c)
                                     /\ Sourced(c)' = Sourced(c) /\ Apart(c)' = Apart(c)
        BY <2>1 DEF vars, Printed, Matches, Sourced, Apart, Indexed, Known, EventsOf, Stored
      <3>2. Merging' /\ Reaching'
        BY <2>1 DEF vars, IndexInv, Merging, Reaching, Importing, Indexed, Known, Stored
      <3> QED
        BY <2>1, <3>1, <3>2 DEF IndexInv
    <2>2. ASSUME IInv, Next, done'.crashes = 0
          PROVE  done.crashes = 0 /\ ~Crash
      <3>1. done \in [imports : Nat, deletes : Nat, crashes : Nat]
        BY <2>2 DEF IInv, TypeOK
      <3>2. Crash => done'.crashes = done.crashes + 1
        BY <3>1 DEF Crash
      <3>3. Crash \/ done'.crashes = done.crashes
        BY <2>2, <3>1
        DEF Next, Import, Remove, BeginImport, SkipConversation, OpenConversation,
            PostMessage, CompleteMessage, RecordContinuity, SaveHistory, FinishImport,
            BeginDelete, DeleteEvent, SweepEvent, Reassign, BeginSweep, DropHistory, DropSource
      <3> QED
        BY <2>2, <3>1, <3>2, <3>3
    <2>3. ASSUME IInv, IndexInv, Import
          PROVE  IndexInv'
      BY <2>3, BeginImportKeepsIndex, SkipKeepsIndex, OpenKeepsIndex, PostKeepsIndex,
         CompleteKeepsIndex, ContinuityKeepsIndex, SaveKeepsIndex, FinishKeepsIndex DEF Import
    <2>4. ASSUME IInv, IndexInv, Remove
          PROVE  IndexInv'
      BY <2>4, BeginDeleteKeepsIndex, DeleteEventKeepsIndex, SweepKeepsIndex, ReassignKeepsIndex,
         BeginSweepKeepsIndex, DropKeepsIndex, DropSourceKeepsIndex DEF Remove
    <2> QED
      BY <2>1, <2>2, <2>3, <2>4 DEF Next, vars
  <1> QED
    BY <1>1, <1>2, Invariance, PTL DEF Spec

\* What was imported can be found again: every event by its source, every message of a
\* finished import in the log and in the index, for every set of exports.
THEOREM ImportsStay == Spec => []ImportsAreFound
  <1>1. IInv /\ (done.crashes = 0 => IndexInv) /\ CompleteUntilDelete => ImportsAreFound
    <2> SUFFICES ASSUME IInv, done.crashes = 0 => IndexInv, CompleteUntilDelete
                 PROVE  IndexedUntilCrash /\ IndexMatchesLog
      BY DEF IInv, ImportsAreFound
    <2>1. IndexedUntilCrash
      BY DEF IndexInv, Merging, Importing, IndexedUntilCrash
    <2>2. ASSUME call = Idle, done.crashes = 0
          PROVE  \A c \in Conversations : Matches(c) /\ Sourced(c)
      BY <2>2 DEF IndexInv, Apart, Idle
    <2>3. ASSUME call = Idle, done.crashes = 0, NEW c \in Conversations, Indexed(c)
          PROVE  history[c].source \in sources
      <3>1. history[c].source # None /\ \E e \in Event : Stored(e) /\ e.import = history[c].source
        BY <2>2, <2>3, NoneIsNoName DEF Sourced, Idle
      <3> QED
        BY <3>1 DEF IInv, SourceOutlivesEvents
    <2> QED
      BY <2>1, <2>2, <2>3 DEF IndexMatchesLog, Begins, Matches
  <1> QED
    BY <1>1, Invariance, IndexFollowsLog, RepeatedImportCompletes, PTL

-----------------------------------------------------------------------------
(* Conversations: the invariant *)

Rooms == Talk!Conversation
Statuses == Talk!ResultStatus

\* The positions of the events of some kinds.
Marks(s, K) == {i \in DOMAIN s : s[i].kind \in K}
Messaging == {"user", "assistant"}

\* What a call is in, at each of its writes.
Turn == [op : {"create", "send", "retry", "route"}, c : Rooms,
         pc : {"begin", "beginLinked", "link", "post", "completeInput", "file", "attempt",
               "provider", "completeOutput", "exchange", "close"},
         input : Nat, output : Nat, outcome : Statuses \cup {"none"}, shown : SUBSET Nat]

Staged ==
    turn # Talk!Idle =>
        /\ turn \in Turn
        /\ turn.op = "create" => /\ turn.c \in Chats
                                 /\ turn.pc \in {"begin", "beginLinked", "link"}
        /\ turn.op = "send" => /\ turn.c \in Chats
                               /\ turn.pc \notin {"begin", "beginLinked", "link", "file"}
        /\ turn.op = "retry" =>
              /\ turn.c \in Chats
              /\ turn.pc \in {"attempt", "provider", "completeOutput", "exchange", "close"}
        /\ turn.op = "route" => turn.c \in Works /\ turn.pc \notin {"begin", "attempt"}

\* The call has come as far with conversation c.
Reached(c, pcs) == turn # Talk!Idle /\ turn.c = c /\ turn.pc \in pcs
Routing(c, pcs) == Reached(c, pcs) /\ turn.op = "route"
Talking(c, pcs) == Reached(c, pcs) /\ turn.op \in {"send", "retry"}

\* The messages of a conversation are numbered from one.
Numbered(s) ==
    /\ \A i \in Marks(s, Messaging) : s[i].m \in 1 .. Cardinality(Marks(s, Messaging))
    /\ \A i, j \in Marks(s, Messaging) : s[i].m = s[j].m => i = j

\* The messages a call has written so far are there.
Posted(c) ==
    /\ Reached(c, {"completeInput", "file", "attempt", "provider", "completeOutput",
                   "exchange", "close"}) => Talk!Has(c, Talk!User(turn.input))
    /\ Reached(c, {"completeOutput", "exchange", "close"}) =>
           Talk!Has(c, Talk!Assistant(turn.output)) /\ turn.outcome \in Statuses
    /\ Reached(c, {"exchange", "close"}) => Talk!Has(c, Talk!Completed(turn.output))

\* So are its attempt and the place of its result.
Placed(c) ==
    /\ Talking(c, {"provider", "completeOutput", "exchange", "close"}) =>
           /\ attempts[c] # <<>>
           /\ attempts[c][Len(attempts[c])].status = "Started"
           /\ attempts[c][Len(attempts[c])].input = turn.input
    /\ Routing(c, {"provider", "completeOutput", "exchange", "close"}) =>
           routed[c] # <<>> /\ routed[c][Len(routed[c])] = "none"

\* An exchange is there once it was recorded.
Recorded(c) ==
    /\ Reached(c, {"completeOutput", "exchange"}) =>
           \A k \in DOMAIN exchanges[c] : exchanges[c][k].output # turn.output
    /\ Reached(c, {"close"}) =>
           \E k \in DOMAIN exchanges[c] : /\ exchanges[c][k].input = turn.input
                                          /\ exchanges[c][k].output = turn.output

\* An exchange is of a stored answer, which no other is of.
Exchanged(c) ==
    /\ \A k \in DOMAIN exchanges[c] : Talk!Has(c, Talk!Assistant(exchanges[c][k].output))
    /\ \A k, n \in DOMAIN exchanges[c] : exchanges[c][k].output = exchanges[c][n].output => k = n

\* A completed attempt has its exchange, and its answer is complete.
Backed(c) ==
    \A i \in DOMAIN attempts[c] : attempts[c][i].status = "Completed" =>
        /\ \E k \in DOMAIN exchanges[c] : /\ exchanges[c][k].input = attempts[c][i].input
                                          /\ exchanges[c][k].output = attempts[c][i].output
        /\ Talk!Has(c, Talk!Completed(attempts[c][i].output))

\* The positions of the exchanges or attempts of a status, and of the results.
With(q, s) == {i \in DOMAIN q : q[i].status = s}
Of(q, s) == {i \in DOMAIN q : q[i] = s}

\* A result that is about to be filed has an exchange beside those of the others.
Due(c, s) == IF Routing(c, {"close"}) /\ turn.outcome = s THEN 1 ELSE 0
Filed(c) ==
    \A s \in Statuses :
        Cardinality(Of(routed[c], s)) + Due(c, s) <= Cardinality(With(exchanges[c], s))

\* While no call stopped half way, what is not accounted for is that of the call:
\* an answer without an exchange, an exchange without a completed attempt or a
\* result, a message without a result, a message that is not complete.
Unrecorded(c) == IF Reached(c, {"completeOutput", "exchange"}) THEN 1 ELSE 0
Unreturned(c) == IF Routing(c, {"provider", "completeOutput", "exchange"}) THEN 1 ELSE 0
Unclosed(c) == IF Talking(c, {"close"}) THEN 1 ELSE 0

AnswersCount(c) ==
    Cardinality(Marks(events[c], {"assistant"})) = Len(exchanges[c]) + Unrecorded(c)

ExchangesCount(c) ==
    Len(exchanges[c]) + Unreturned(c) =
        Cardinality(With(attempts[c], "Completed")) + Len(routed[c]) + Unclosed(c)

ResultsFiled(c) ==
    \A i \in DOMAIN routed[c] :
        \/ routed[c][i] # "none"
        \/ Routing(c, {"provider", "completeOutput", "exchange", "close"}) /\ i = Len(routed[c])

MessagesComplete(c) ==
    \A i \in Marks(events[c], Messaging) :
        \/ Talk!Has(c, Talk!Completed(events[c][i].m))
        \/ Reached(c, {"completeInput"}) /\ events[c][i].m = turn.input
        \/ Reached(c, {"completeOutput"}) /\ events[c][i].m = turn.output

Balanced(c) ==
    AnswersCount(c) /\ ExchangesCount(c) /\ ResultsFiled(c) /\ MessagesComplete(c)

\* m is the number of the last message of the user before a position.
Asked(s, end, m) ==
    \E i \in 1..end : /\ s[i] = Talk!User(m)
                      /\ \A j \in i + 1 .. end : s[j].kind # "user"

\* While, besides, the clock did not step back, an answer is to the last message before it.
Answering(c) ==
    /\ Reached(c, {"completeInput", "file", "attempt", "provider", "completeOutput",
                   "exchange"}) => Asked(events[c], Len(events[c]), turn.input)
    /\ \A i \in Marks(events[c], {"assistant"}) :
           \/ \E k \in DOMAIN exchanges[c] : /\ exchanges[c][k].output = events[c][i].m
                                             /\ Asked(events[c], i, exchanges[c][k].input)
           \/ /\ Reached(c, {"completeOutput", "exchange"}) /\ events[c][i].m = turn.output
              /\ Asked(events[c], i, turn.input)

\* A Work is linked before something is posted to it.
Linked(c) ==
    Routing(c, {"post", "completeInput", "file", "provider", "completeOutput", "exchange",
                "close"}) => Talk!Has(c, Talk!Linked)

TalkInv ==
    /\ Talk!TypeOK /\ Staged
    /\ Talk!ReadableInOrder /\ Talk!LinkedBeforeMessages
    /\ \A c \in Rooms : Posted(c) /\ Placed(c) /\ Linked(c)

\* Nothing is counted twice.
CountInv ==
    \A c \in Rooms : /\ Numbered(events[c]) /\ Recorded(c) /\ Exchanged(c) /\ Backed(c) /\ Filed(c)
                     /\ used.stops = 0 => Balanced(c)

\* An answer is to what was asked.
AnswerInv ==
    /\ Talk!PromptHasInput
    /\ \A c \in Rooms : used.stops = 0 /\ used.steps = 0 => Answering(c)

-----------------------------------------------------------------------------
(* Counting and inserting *)

\* Both modules count alike.
LEMMA SameCount == \A S : Talk!Cardinality(S) = Cardinality(S)
  BY Zenon DEF Talk!Cardinality, Cardinality, Talk!IsFiniteSet, IsFiniteSet

\* t is s with e inserted at position i.
Inserted(s, t, i, e) ==
    /\ i \in 1 .. Len(s) + 1 /\ Len(t) = Len(s) + 1
    /\ \A j \in 1 .. i - 1 : t[j] = s[j]
    /\ t[i] = e
    /\ \A j \in i .. Len(s) : t[j + 1] = s[j]

\* What InsertAt builds.
LEMMA InsertIs ==
    ASSUME NEW S, NEW s \in Seq(S), NEW e \in S, NEW i \in 1 .. Len(s) + 1
    PROVE  /\ Talk!InsertAt(s, i, e) \in Seq(S)
           /\ Inserted(s, Talk!InsertAt(s, i, e), i, e)
  <1> DEFINE a == SubSeq(s, 1, i - 1)
             b == SubSeq(s, i, Len(s))
             u == a \o <<e>>
             t == u \o b
  <1>0. Len(s) \in Nat /\ \A j \in 1 .. Len(s) : s[j] \in S
    BY LenProperties, ElementOfSeq
  <1>1. a \in Seq(S) /\ Len(a) = i - 1 /\ \A j \in 1 .. i - 1 : a[j] = s[j]
    <2>1. \A j \in 1 .. i - 1 : s[j] \in S
      BY <1>0
    <2>2. \A j \in 1 .. (i - 1) - 1 + 1 : a[j] = s[1 + j - 1]
      BY <2>1, SubSeqProperties
    <2>3. a \in Seq(S) /\ Len(a) = IF 1 <= i - 1 THEN (i - 1) - 1 + 1 ELSE 0
      BY <2>1, SubSeqProperties
    <2> HIDE DEF a
    <2> QED
      BY <1>0, <2>2, <2>3
  <1>2. b \in Seq(S) /\ Len(b) = Len(s) - i + 1 /\ \A j \in 1 .. Len(s) - i + 1 : b[j] = s[i + j - 1]
    <2>1. \A j \in i .. Len(s) : s[j] \in S
      BY <1>0
    <2>2. \A j \in 1 .. Len(s) - i + 1 : b[j] = s[i + j - 1]
      BY <1>0, <2>1, SubSeqProperties
    <2>3. b \in Seq(S) /\ Len(b) = IF i <= Len(s) THEN Len(s) - i + 1 ELSE 0
      BY <1>0, <2>1, SubSeqProperties
    <2> HIDE DEF b
    <2> QED
      BY <1>0, <2>2, <2>3
  <1>3. <<e>> \in Seq(S) /\ Len(<<e>>) = 1 /\ <<e>>[1] = e
    OBVIOUS
  <1> HIDE DEF a, b
  <1>4. /\ u \in Seq(S) /\ Len(u) = i
        /\ \A j \in 1 .. i : u[j] = IF j <= i - 1 THEN a[j] ELSE <<e>>[j - (i - 1)]
    <2>1. /\ u \in Seq(S) /\ Len(u) = Len(a) + Len(<<e>>)
          /\ \A j \in 1 .. Len(a) + Len(<<e>>) : u[j] = IF j <= Len(a) THEN a[j] ELSE <<e>>[j - Len(a)]
      BY <1>1, <1>3, ConcatProperties
    <2> HIDE DEF u
    <2> QED
      BY <1>1, <1>3, <2>1
  <1> HIDE DEF u
  <1>5. /\ t \in Seq(S) /\ Len(t) = Len(s) + 1
        /\ \A j \in 1 .. Len(s) + 1 : t[j] = IF j <= i THEN u[j] ELSE b[j - i]
    <2>1. /\ t \in Seq(S) /\ Len(t) = Len(u) + Len(b)
          /\ \A j \in 1 .. Len(u) + Len(b) : t[j] = IF j <= Len(u) THEN u[j] ELSE b[j - Len(u)]
      BY <1>2, <1>4, ConcatProperties
    <2>2. Len(u) + Len(b) = Len(s) + 1
      BY <1>0, <1>2, <1>4
    <2> HIDE DEF t
    <2> QED
      BY <1>4, <2>1, <2>2
  <1>6. t = Talk!InsertAt(s, i, e)
    BY DEF t, u, a, b, Talk!InsertAt
  <1> HIDE DEF t
  <1>7. \A j \in 1 .. i - 1 : t[j] = s[j]
    BY <1>0, <1>1, <1>4, <1>5
  <1>8. t[i] = e
    <2>1. i - (i - 1) = 1
      OBVIOUS
    <2>2. u[i] = <<e>>[1]
      BY <1>4, <2>1
    <2> QED
      BY <1>0, <1>3, <1>5, <2>2
  <1>9. \A j \in i .. Len(s) : t[j + 1] = s[j]
    <2> SUFFICES ASSUME NEW j \in i .. Len(s) PROVE t[j + 1] = s[j]
      OBVIOUS
    <2>1. t[j + 1] = b[(j + 1) - i]
      BY <1>0, <1>5
    <2>2. b[(j + 1) - i] = s[i + ((j + 1) - i) - 1]
      BY <1>0, <1>2
    <2>3. i + ((j + 1) - i) - 1 = j
      BY <1>0
    <2> QED
      BY <2>1, <2>2, <2>3
  <1> QED
    BY <1>5, <1>6, <1>7, <1>8, <1>9 DEF Inserted

\* Where the element at a position is after the insertion.
Shift(i, j) == IF j < i THEN j ELSE j + 1

\* Every element but the new one is an old one, and their order is what it was.
LEMMA Shifted ==
    ASSUME NEW S, NEW s \in Seq(S), NEW t \in Seq(S), NEW i, NEW e, Inserted(s, t, i, e)
    PROVE  /\ i \in DOMAIN t
           /\ \A j \in DOMAIN s : /\ Shift(i, j) \in DOMAIN t /\ Shift(i, j) # i
                                  /\ t[Shift(i, j)] = s[j]
           /\ \A j, k \in DOMAIN s : j < k <=> Shift(i, j) < Shift(i, k)
           /\ \A j, k \in DOMAIN s : Shift(i, j) = Shift(i, k) => j = k
           /\ \A k \in DOMAIN t \ {i} : \E j \in DOMAIN s : k = Shift(i, j) /\ t[k] = s[j]
  <1>1. /\ Len(s) \in Nat /\ DOMAIN s = 1 .. Len(s) /\ DOMAIN t = 1 .. Len(s) + 1
        /\ i \in 1 .. Len(s) + 1
    BY LenProperties DEF Inserted
  <1>2. \A j \in DOMAIN s : /\ Shift(i, j) \in DOMAIN t /\ Shift(i, j) # i
                            /\ t[Shift(i, j)] = s[j]
    BY <1>1 DEF Shift, Inserted
  <1>3. /\ \A j, k \in DOMAIN s : j < k <=> Shift(i, j) < Shift(i, k)
        /\ \A j, k \in DOMAIN s : Shift(i, j) = Shift(i, k) => j = k
    BY <1>1 DEF Shift
  <1>4. ASSUME NEW k \in DOMAIN t, k # i
        PROVE  \E j \in DOMAIN s : k = Shift(i, j) /\ t[k] = s[j]
    <2>1. CASE k < i
      BY <1>1, <2>1, <1>2 DEF Shift
    <2>2. CASE k > i
      <3>1. k - 1 \in DOMAIN s /\ k = Shift(i, k - 1)
        BY <1>1, <2>2 DEF Shift
      <3> QED
        BY <3>1, <1>2
    <2> QED
      BY <1>1, <1>4, <2>1, <2>2
  <1> QED
    BY <1>1, <1>2, <1>3, <1>4

\* The elements are the old ones and the new one.
LEMMA SameElements ==
    ASSUME NEW S, NEW s \in Seq(S), NEW t \in Seq(S), NEW i, NEW e, Inserted(s, t, i, e)
    PROVE  /\ i \in DOMAIN t /\ t[i] = e
           /\ \A j \in DOMAIN s : \E k \in DOMAIN t : t[k] = s[j]
           /\ \A k \in DOMAIN t : t[k] = e \/ (\E j \in DOMAIN s : t[k] = s[j])
  <1>1. t[i] = e
    BY DEF Inserted
  <1>2. \A j \in DOMAIN s : Shift(i, j) \in DOMAIN t /\ t[Shift(i, j)] = s[j]
    BY Shifted
  <1>3. i \in DOMAIN t /\ \A k \in DOMAIN t \ {i} : \E j \in DOMAIN s : t[k] = s[j]
    BY Shifted
  <1> QED
    BY <1>1, <1>2, <1>3

\* The events of some kinds are finitely many.
LEMMA MarksCount ==
    ASSUME NEW S, NEW s \in Seq(S), NEW K
    PROVE  IsFiniteSet(Marks(s, K)) /\ Cardinality(Marks(s, K)) \in Nat
  <1>1. Marks(s, K) \subseteq 1 .. Len(s) /\ Len(s) \in Nat
    BY LenProperties DEF Marks
  <1>2. IsFiniteSet(1 .. Len(s))
    BY <1>1, FS_Interval
  <1> QED
    BY <1>1, <1>2, FS_Subset, FS_CardinalityType

\* What is inserted is one more of its kind, and none of another.
LEMMA CountInserted ==
    ASSUME NEW S, NEW s \in Seq(S), NEW t \in Seq(S), NEW i, NEW e, Inserted(s, t, i, e), NEW K
    PROVE  /\ e.kind \in K => Cardinality(Marks(t, K)) = Cardinality(Marks(s, K)) + 1
           /\ e.kind \notin K => Cardinality(Marks(t, K)) = Cardinality(Marks(s, K))
  <1> DEFINE M == Marks(s, K)
             N == Marks(t, K) \ {i}
             f == [j \in M |-> Shift(i, j)]
  <1>1. IsFiniteSet(M) /\ Cardinality(M) \in Nat /\ IsFiniteSet(Marks(t, K))
    BY MarksCount
  <1>2. f \in Bijection(M, N)
    <2>1. \A j \in M : Shift(i, j) \in N
      BY Shifted DEF Marks
    <2>2. \A j, k \in M : Shift(i, j) = Shift(i, k) => j = k
      BY Shifted DEF Marks
    <2>3. \A k \in N : \E j \in M : k = Shift(i, j)
      BY Shifted DEF Marks
    <2> HIDE DEF M, N
    <2>4. f \in [M -> N] /\ \A j \in M : f[j] = Shift(i, j)
      BY <2>1
    <2> HIDE DEF f
    <2>5. f \in Injection(M, N)
      BY <2>2, <2>4 DEF Injection, IsInjective
    <2>6. f \in Surjection(M, N)
      BY <2>3, <2>4 DEF Surjection
    <2> QED
      BY <2>5, <2>6 DEF Bijection
  <1>3. IsFiniteSet(N) /\ Cardinality(N) = Cardinality(M)
    BY <1>1, <1>2, FS_Bijection DEF ExistsBijection
  <1>4. CASE e.kind \in K
    <2>1. i \in Marks(t, K)
      BY <1>4, Shifted DEF Marks, Inserted
    <2>2. Marks(t, K) = N \cup {i} /\ i \notin N
      BY <2>1
    <2> HIDE DEF N, M
    <2>3. Cardinality(Marks(t, K)) = Cardinality(N) + 1
      BY <1>3, <2>2, FS_AddElement
    <2> QED
      BY <1>3, <1>4, <2>3 DEF M
  <1>5. CASE e.kind \notin K
    <2>1. i \notin Marks(t, K)
      BY <1>5 DEF Marks, Inserted
    <2>2. Marks(t, K) = N
      BY <2>1
    <2> HIDE DEF N, M
    <2> QED
      BY <1>3, <1>5, <2>2 DEF M
  <1> QED
    BY <1>4, <1>5

-----------------------------------------------------------------------------
(* Every conversation can be read *)

\* An event more in one conversation: last, unless the clock stepped back.
LEMMA Appended ==
    ASSUME Talk!TypeOK, NEW c \in Rooms, NEW e \in Talk!Event,
           e.kind \in {"begun", "linked"} <=> e.m = 0, Talk!AppendEvent(c, e)
    PROVE  /\ events' \in [Rooms -> Seq(Talk!Event)]
           /\ used' \in [calls : Nat, stops : Nat, steps : Nat]
           /\ used'.stops = used.stops /\ used'.calls = used.calls
           /\ \A d \in Rooms : d # c => events'[d] = events[d]
           /\ \E i \in 1 .. Len(events[c]) + 1 :
                  /\ Inserted(events[c], events'[c], i, e)
                  /\ used'.steps = 0 => used.steps = 0 /\ i = Len(events[c]) + 1
           /\ \A d \in Rooms : \A j \in DOMAIN events'[d] :
                  events'[d][j].kind \in {"begun", "linked"} <=> events'[d][j].m = 0
           /\ \A d \in Rooms : \A x : Talk!Has(d, x)' <=> Talk!Has(d, x) \/ (d = c /\ x = e)
  <1>0. /\ events \in [Rooms -> Seq(Talk!Event)] /\ events[c] \in Seq(Talk!Event)
        /\ used \in [calls : Nat, stops : Nat, steps : Nat]
        /\ Len(events[c]) \in Nat /\ DOMAIN events[c] = 1 .. Len(events[c])
    BY LenProperties DEF Talk!TypeOK, Rooms
  <1>1. PICK back \in BOOLEAN :
            /\ used' = IF back THEN [used EXCEPT !.steps = @ + 1] ELSE used
            /\ \E i \in Talk!Place(c, back) :
                   events' = [events EXCEPT ![c] = Talk!InsertAt(@, i, e)]
    BY DEF Talk!AppendEvent
  <1>2. PICK i \in Talk!Place(c, back) : events' = [events EXCEPT ![c] = Talk!InsertAt(@, i, e)]
    BY <1>1
  <1>3. i \in 1 .. Len(events[c]) + 1 /\ (~back => i = Len(events[c]) + 1)
    BY <1>0, <1>2 DEF Talk!Place
  <1>4. /\ Talk!InsertAt(events[c], i, e) \in Seq(Talk!Event)
        /\ Inserted(events[c], Talk!InsertAt(events[c], i, e), i, e)
    BY <1>0, <1>3, InsertIs
  <1>5. /\ events'[c] = Talk!InsertAt(events[c], i, e)
        /\ \A d \in Rooms : d # c => events'[d] = events[d]
        /\ events' \in [Rooms -> Seq(Talk!Event)]
    BY <1>0, <1>2, <1>4
  <1>6. /\ used' \in [calls : Nat, stops : Nat, steps : Nat]
        /\ used'.stops = used.stops /\ used'.calls = used.calls
        /\ used'.steps = 0 => used.steps = 0 /\ ~back
    BY <1>0, <1>1
  <1>7. Inserted(events[c], events'[c], i, e) /\ events'[c] \in Seq(Talk!Event)
    BY <1>4, <1>5
  <1>8. /\ i \in DOMAIN events'[c] /\ events'[c][i] = e
        /\ \A j \in DOMAIN events[c] : \E k \in DOMAIN events'[c] : events'[c][k] = events[c][j]
        /\ \A k \in DOMAIN events'[c] :
               events'[c][k] = e \/ (\E j \in DOMAIN events[c] : events'[c][k] = events[c][j])
    <2> DEFINE s == events[c]
               t == events'[c]
    <2>1. s \in Seq(Talk!Event) /\ t \in Seq(Talk!Event) /\ Inserted(s, t, i, e)
      BY <1>0, <1>7
    <2> HIDE DEF s, t
    <2>2. /\ i \in DOMAIN t /\ t[i] = e
          /\ \A j \in DOMAIN s : \E k \in DOMAIN t : t[k] = s[j]
          /\ \A k \in DOMAIN t : t[k] = e \/ (\E j \in DOMAIN s : t[k] = s[j])
      BY <2>1, SameElements
    <2> QED
      BY <2>2 DEF s, t
  <1>9. \A d \in Rooms : \A j \in DOMAIN events'[d] :
            events'[d][j].kind \in {"begun", "linked"} <=> events'[d][j].m = 0
    <2>1. \A j \in DOMAIN events'[c] :
              events'[c][j] = e \/ (\E k \in DOMAIN events[c] : events'[c][j] = events[c][k])
      BY <1>8
    <2>2. \A d \in Rooms : \A j \in DOMAIN events[d] :
              events[d][j].kind \in {"begun", "linked"} <=> events[d][j].m = 0
      BY DEF Talk!TypeOK, Rooms
    <2>3. \A j \in DOMAIN events'[c] :
              events'[c][j].kind \in {"begun", "linked"} <=> events'[c][j].m = 0
      BY <2>1, <2>2
    <2> QED
      BY <1>5, <2>2, <2>3
  <1>10. \A d \in Rooms : \A x : Talk!Has(d, x)' <=> Talk!Has(d, x) \/ (d = c /\ x = e)
    <2>1. \A x : Talk!Has(c, x)' <=> Talk!Has(c, x) \/ x = e
      BY <1>8 DEF Talk!Has
    <2> QED
      BY <1>5, <2>1 DEF Talk!Has
  <1> QED
    BY <1>3, <1>5, <1>6, <1>7, <1>9, <1>10

\* The first event is the beginning, a completion comes after its message, and
\* a message to a Work after its link.
LEMMA AppendKeepsOrder ==
    ASSUME Talk!TypeOK, Talk!ReadableInOrder, Talk!LinkedBeforeMessages,
           NEW c \in Rooms, NEW e \in Talk!Event,
           e.kind \in {"begun", "linked"} <=> e.m = 0, Talk!AppendEvent(c, e),
           c \in Works /\ e.kind \in Messaging => Talk!Has(c, Talk!Linked)
    PROVE  Talk!ReadableInOrder' /\ Talk!LinkedBeforeMessages'
  <1>0. /\ events[c] \in Seq(Talk!Event) /\ Len(events[c]) \in Nat
        /\ DOMAIN events[c] = 1 .. Len(events[c])
    BY LenProperties DEF Talk!TypeOK, Rooms
  <1> SUFFICES ASSUME used'.steps = 0
               PROVE  /\ \A d \in Rooms : events'[d] # <<>> =>
                             events'[d][1] = Talk!Begun /\ Talk!Readable(d)'
                      /\ \A d \in Works : \A i \in DOMAIN events'[d] :
                             Talk!IsMessage(events'[d][i]) =>
                                 \E j \in 1 .. i - 1 : events'[d][j] = Talk!Linked
    BY DEF Talk!ReadableInOrder, Talk!LinkedBeforeMessages, Rooms
  <1>1. /\ used.steps = 0 /\ Inserted(events[c], events'[c], Len(events[c]) + 1, e)
        /\ events'[c] \in Seq(Talk!Event)
        /\ \A d \in Rooms : d # c => events'[d] = events[d]
    BY Appended
  <1>2. /\ DOMAIN events'[c] = 1 .. Len(events[c]) + 1 /\ events'[c][Len(events[c]) + 1] = e
        /\ \A j \in 1 .. Len(events[c]) : events'[c][j] = events[c][j]
    BY <1>0, <1>1, LenProperties DEF Inserted
  <1>3. events'[c][1] = Talk!Begun
    <2>1. CASE events[c] = <<>>
      BY <1>2, <2>1 DEF Talk!AppendEvent
    <2>2. CASE events[c] # <<>>
      <3>1. 1 \in 1 .. Len(events[c])
        BY <1>0, <2>2, EmptySeq
      <3> QED
        BY <1>1, <1>2, <2>2, <3>1 DEF Talk!ReadableInOrder, Rooms
    <2> QED
      BY <2>1, <2>2
  <1>4. Talk!Readable(c)'
    <2> SUFFICES ASSUME NEW i \in DOMAIN events'[c], events'[c][i].kind = "completed"
                 PROVE  \E j \in 1 .. i - 1 : /\ Talk!IsMessage(events'[c][j])
                                              /\ events'[c][j].m = events'[c][i].m
      BY DEF Talk!Readable, Talk!IsMessage
    <2>1. CASE i = Len(events[c]) + 1
      <3>1. Talk!Has(c, Talk!User(e.m)) \/ Talk!Has(c, Talk!Assistant(e.m))
        BY <1>2, <2>1 DEF Talk!AppendEvent
      <3>2. PICK j \in DOMAIN events[c] :
                events[c][j] = Talk!User(e.m) \/ events[c][j] = Talk!Assistant(e.m)
        BY <3>1 DEF Talk!Has
      <3>3. j \in 1 .. i - 1 /\ events'[c][j] = events[c][j]
        BY <1>0, <1>2, <2>1
      <3> QED
        BY <1>2, <2>1, <3>2, <3>3 DEF Talk!User, Talk!Assistant, Talk!IsMessage
    <2>2. CASE i \in 1 .. Len(events[c])
      <3>1. Talk!Readable(c)
        <4>1. events[c] # <<>>
          BY <1>0, <2>2, EmptySeq
        <4> QED
          BY <1>1, <4>1 DEF Talk!ReadableInOrder, Rooms
      <3>2. events'[c][i] = events[c][i]
        BY <1>2, <2>2
      <3>3. PICK j \in 1 .. i - 1 : Talk!IsMessage(events[c][j]) /\ events[c][j].m = events[c][i].m
        BY <1>0, <2>2, <3>1, <3>2 DEF Talk!Readable
      <3>4. events'[c][j] = events[c][j]
        BY <1>0, <1>2, <2>2
      <3> QED
        BY <3>2, <3>3, <3>4 DEF Talk!IsMessage
    <2> QED
      BY <1>0, <1>2, <2>1, <2>2
  <1>5. ASSUME c \in Works, NEW i \in DOMAIN events'[c], Talk!IsMessage(events'[c][i])
        PROVE  \E j \in 1 .. i - 1 : events'[c][j] = Talk!Linked
    <2>1. CASE i = Len(events[c]) + 1
      <3>1. PICK j \in DOMAIN events[c] : events[c][j] = Talk!Linked
        BY <1>2, <1>5, <2>1 DEF Talk!IsMessage, Messaging, Talk!Has
      <3> QED
        BY <1>0, <1>2, <2>1, <3>1
    <2>2. CASE i \in 1 .. Len(events[c])
      <3>1. PICK j \in 1 .. i - 1 : events[c][j] = Talk!Linked
        BY <1>0, <1>1, <1>2, <1>5, <2>2 DEF Talk!LinkedBeforeMessages
      <3> QED
        BY <1>0, <1>2, <2>2, <3>1
    <2> QED
      BY <1>0, <1>2, <2>1, <2>2
  <1>6. ASSUME NEW d \in Rooms, d # c, events'[d] # <<>>
        PROVE  events'[d][1] = Talk!Begun /\ Talk!Readable(d)'
    <2>1. Talk!Readable(d)' = Talk!Readable(d)
      BY <1>1, <1>6 DEF Talk!Readable
    <2> QED
      BY <1>1, <1>6, <2>1 DEF Talk!ReadableInOrder, Rooms
  <1>7. ASSUME NEW d \in Works, d # c, NEW i \in DOMAIN events'[d], Talk!IsMessage(events'[d][i])
        PROVE  \E j \in 1 .. i - 1 : events'[d][j] = Talk!Linked
    <2>1. d \in Rooms
      BY DEF Rooms, Talk!Conversation
    <2> QED
      BY <1>1, <1>7, <2>1 DEF Talk!LinkedBeforeMessages
  <1> QED
    BY <1>3, <1>4, <1>5, <1>6, <1>7

\* What a call works on.
LEMMA AtWork ==
    ASSUME Staged, turn.pc # "idle"
    PROVE  /\ turn # Talk!Idle /\ turn \in Turn /\ turn.c \in Rooms /\ turn.c \in Chats \cup Works
           /\ turn.op = "route" <=> turn.c \in Works
           /\ turn.op = "route" <=> turn.c \notin Chats
  <1>1. turn # Talk!Idle
    BY DEF Talk!Idle
  <1> QED
    BY <1>1, KindsDiffer DEF Staged, Turn, Rooms, Talk!Conversation

\* Another conversation is not that of the call.
LEMMA ElsewhereTalk ==
    ASSUME turn' = Talk!Idle \/ (Posted(turn.c)' /\ Placed(turn.c)' /\ Linked(turn.c)')
    PROVE  \A d \in Rooms : Posted(d)' /\ Placed(d)' /\ Linked(d)'
  BY DEF Posted, Placed, Linked, Reached, Talking, Routing

\* One event more keeps what the caller sees to.
LEMMA WriteKeepsTalk ==
    ASSUME TalkInv, turn.pc # "idle", NEW e \in Talk!Event,
           e.kind \in {"begun", "linked"} <=> e.m = 0, Talk!AppendEvent(turn.c, e),
           turn.c \in Works /\ e.kind \in Messaging => Talk!Has(turn.c, Talk!Linked),
           UNCHANGED <<attempts, exchanges, routed>>, Staged',
           turn' = Talk!Idle \/ (turn'.c = turn.c /\ Posted(turn.c)' /\ Placed(turn.c)' /\ Linked(turn.c)')
    PROVE  TalkInv'
  <1>1. turn.c \in Rooms
    BY AtWork DEF TalkInv
  <1>2. Talk!TypeOK'
    <2>1. /\ events' \in [Rooms -> Seq(Talk!Event)]
          /\ used' \in [calls : Nat, stops : Nat, steps : Nat]
          /\ \A d \in Rooms : \A j \in DOMAIN events'[d] :
                  events'[d][j].kind \in {"begun", "linked"} <=> events'[d][j].m = 0
      BY <1>1, Appended DEF TalkInv
    <2> QED
      BY <2>1 DEF Talk!TypeOK, TalkInv, Rooms
  <1>3. Talk!ReadableInOrder' /\ Talk!LinkedBeforeMessages'
    BY <1>1, AppendKeepsOrder DEF TalkInv
  <1>4. \A d \in Rooms : Posted(d)' /\ Placed(d)' /\ Linked(d)'
    <2>1. turn' = Talk!Idle \/ (Posted(turn.c)' /\ Placed(turn.c)' /\ Linked(turn.c)')
      BY DEF Posted, Placed, Linked, Reached, Talking, Routing, Talk!Has
    <2> QED
      BY <2>1, ElsewhereTalk
  <1> QED
    BY <1>2, <1>3, <1>4 DEF TalkInv

\* So does a step that writes no event.
LEMMA QuietKeepsTalk ==
    ASSUME TalkInv, UNCHANGED events, used'.steps = used.steps,
           Talk!TypeOK', Staged',
           turn' = Talk!Idle \/ (Posted(turn.c)' /\ Placed(turn.c)' /\ Linked(turn.c)')
    PROVE  TalkInv'
  <1>1. Talk!ReadableInOrder' /\ Talk!LinkedBeforeMessages'
    BY DEF TalkInv, Talk!ReadableInOrder, Talk!LinkedBeforeMessages, Talk!Readable
  <1> QED
    BY <1>1, ElsewhereTalk DEF TalkInv

\* A new message is numbered after those that are there.
LEMMA FreshIs ==
    ASSUME Talk!TypeOK, NEW c \in Rooms
    PROVE  /\ Cardinality(Marks(events[c], Messaging)) \in Nat
           /\ Talk!Fresh(c) = Cardinality(Marks(events[c], Messaging)) + 1
           /\ Talk!Fresh(c) \in Nat \ {0}
  <1>1. events[c] \in Seq(Talk!Event)
    BY DEF Talk!TypeOK, Rooms
  <1>2. Cardinality(Marks(events[c], Messaging)) \in Nat
    BY <1>1, MarksCount
  <1>3. {i \in DOMAIN events[c] : Talk!IsMessage(events[c][i])} = Marks(events[c], Messaging)
    BY DEF Marks, Messaging, Talk!IsMessage
  <1>4. Talk!Fresh(c) = Cardinality(Marks(events[c], Messaging)) + 1
    BY <1>3, SameCount DEF Talk!Fresh
  <1> QED
    BY <1>2, <1>4

\* What a stored event of a kind is.
LEMMA EventIs ==
    ASSUME Talk!TypeOK, NEW c \in Rooms
    PROVE  \A i \in DOMAIN events[c] :
             /\ events[c][i] \in Talk!Event /\ events[c][i].m \in Nat
             /\ events[c][i].kind = "user" => events[c][i] = Talk!User(events[c][i].m)
             /\ events[c][i].kind = "assistant" => events[c][i] = Talk!Assistant(events[c][i].m)
             /\ events[c][i].kind \in {"begun", "linked"} <=> events[c][i].m = 0
  <1>1. /\ events[c] \in Seq(Talk!Event) /\ DOMAIN events[c] = 1 .. Len(events[c])
        /\ \A i \in DOMAIN events[c] :
               events[c][i].kind \in {"begun", "linked"} <=> events[c][i].m = 0
    BY LenProperties DEF Talk!TypeOK, Rooms
  <1>2. \A i \in DOMAIN events[c] : events[c][i] \in Talk!Event
    BY <1>1, ElementOfSeq
  <1> QED
    BY <1>1, <1>2 DEF Talk!Event, Talk!User, Talk!Assistant

\* A message that is there has a number that is not zero.
LEMMA NumberIs ==
    ASSUME Talk!TypeOK, NEW c \in Rooms, NEW m,
           Talk!Has(c, Talk!User(m)) \/ Talk!Has(c, Talk!Assistant(m))
    PROVE  m \in Nat \ {0}
  <1>1. PICK i \in DOMAIN events[c] : events[c][i] = Talk!User(m) \/ events[c][i] = Talk!Assistant(m)
    BY DEF Talk!Has
  <1> QED
    BY <1>1, EventIs DEF Talk!User, Talk!Assistant

\* A call that begins.
LEMMA BeginKeepsTalk ==
    ASSUME TalkInv, NEW c \in Rooms,
           \/ \E pc \in {"begin", "beginLinked"} : Talk!Create(c, pc)
           \/ Talk!Send(c) \/ Talk!Retry(c) \/ Talk!Route(c)
    PROVE  TalkInv'
  <1>0. used \in [calls : Nat, stops : Nat, steps : Nat]
    BY DEF TalkInv, Talk!TypeOK
  <1>1. /\ UNCHANGED <<events, attempts, exchanges, routed>>
        /\ used' = [used EXCEPT !.calls = @ + 1]
    BY DEF Talk!Create, Talk!Send, Talk!Retry, Talk!Route, Talk!Begin
  <1>2. Talk!TypeOK'
    <2>1. used' \in [calls : Nat, stops : Nat, steps : Nat]
      <3>0. used.calls \in Nat
        BY <1>0
      <3>1. \A n \in Nat : n + 1 \in Nat
        OBVIOUS
      <3>2. used.calls + 1 \in Nat
        BY <3>0, <3>1
      <3> QED
        BY <1>0, <1>1, <3>2
    <2> QED
      BY <1>1, <2>1 DEF TalkInv, Talk!TypeOK
  <1>3. ASSUME NEW pc \in {"begin", "beginLinked"}, Talk!Create(c, pc)
        PROVE  Staged' /\ Posted(turn.c)' /\ Placed(turn.c)' /\ Linked(turn.c)'
    <2>1. turn' = [Talk!Idle EXCEPT !.op = "create", !.c = c, !.pc = pc] /\ c \in Chats
      BY <1>3 DEF Talk!Create, Talk!Begin
    <2>2. turn' = [op |-> "create", c |-> c, pc |-> pc, input |-> 0, output |-> 0,
                   outcome |-> "none", shown |-> {}]
      BY <2>1 DEF Talk!Idle
    <2>3. turn' \in Turn
      BY <2>2 DEF Turn
    <2> QED
      BY <2>1, <2>2, <2>3 DEF Staged, Posted, Placed, Linked, Reached, Talking, Routing
  <1>4. ASSUME Talk!Send(c)
        PROVE  Staged' /\ Posted(turn.c)' /\ Placed(turn.c)' /\ Linked(turn.c)'
    <2>1. turn' = [Talk!Idle EXCEPT !.op = "send", !.c = c, !.pc = "post"] /\ c \in Chats
      BY <1>4 DEF Talk!Send, Talk!Begin
    <2>2. turn' = [op |-> "send", c |-> c, pc |-> "post", input |-> 0, output |-> 0,
                   outcome |-> "none", shown |-> {}]
      BY <2>1 DEF Talk!Idle
    <2>3. turn' \in Turn
      BY <2>2 DEF Turn
    <2> QED
      BY <2>1, <2>2, <2>3 DEF Staged, Posted, Placed, Linked, Reached, Talking, Routing
  <1>5. ASSUME Talk!Retry(c)
        PROVE  Staged' /\ Posted(turn.c)' /\ Placed(turn.c)' /\ Linked(turn.c)'
    <2>1. PICK i \in Talk!Recent(c, Talk!DefaultLimit) :
              /\ events[c][i].kind = "user"
              /\ turn' = [Talk!Idle EXCEPT !.op = "retry", !.c = c, !.pc = "attempt",
                                           !.input = events[c][i].m]
      BY <1>5 DEF Talk!Retry
    <2>2. c \in Chats /\ i \in DOMAIN events[c]
      BY <1>5 DEF Talk!Retry, Talk!Recent
    <2>3. PICK m \in Nat : events[c][i].m = m /\ events[c][i] = Talk!User(m)
      BY <2>1, <2>2, EventIs DEF TalkInv
    <2>4. turn' = [op |-> "retry", c |-> c, pc |-> "attempt", input |-> m,
                   output |-> 0, outcome |-> "none", shown |-> {}]
      BY <2>1, <2>3 DEF Talk!Idle
    <2>5. turn' \in Turn
      BY <2>2, <2>4 DEF Turn
    <2>6. Talk!Has(c, Talk!User(m))'
      BY <1>1, <2>2, <2>3 DEF Talk!Has
    <2>7. Posted(turn.c)'
      BY <2>4, <2>6 DEF Posted, Reached
    <2> QED
      BY <2>2, <2>4, <2>5, <2>7 DEF Staged, Placed, Linked, Reached, Talking, Routing
  <1>6. ASSUME Talk!Route(c)
        PROVE  Staged' /\ Posted(turn.c)' /\ Placed(turn.c)' /\ Linked(turn.c)'
    <2>1. PICK pc \in {"post", "beginLinked", "link"} :
              /\ turn' = [Talk!Idle EXCEPT !.op = "route", !.c = c, !.pc = pc]
              /\ pc = "post" => Talk!Has(c, Talk!Linked)
      BY <1>6 DEF Talk!Route, Talk!Begin, Talk!NeedsLink
    <2>2. turn' = [op |-> "route", c |-> c, pc |-> pc, input |-> 0, output |-> 0,
                   outcome |-> "none", shown |-> {}]
      BY <2>1 DEF Talk!Idle
    <2>3. turn' \in Turn
      BY <2>2 DEF Turn
    <2>4. c \in Works
      BY <1>6 DEF Talk!Route
    <2>5. (Talk!Has(c, Talk!Linked) => Talk!Has(c, Talk!Linked)')
      BY <1>1 DEF Talk!Has
    <2> QED
      BY <2>1, <2>2, <2>3, <2>4, <2>5 DEF Staged, Posted, Placed, Linked, Reached, Talking, Routing
  <1>7. Staged' /\ Posted(turn.c)' /\ Placed(turn.c)' /\ Linked(turn.c)'
    BY <1>3, <1>4, <1>5, <1>6
  <1>8. used'.steps = used.steps
    BY <1>0, <1>1
  <1> QED
    BY <1>1, <1>2, <1>7, <1>8, QuietKeepsTalk

\* A call that opens or links its conversation.
LEMMA OpenKeepsTalk ==
    ASSUME TalkInv, Talk!BeginConversation \/ Talk!LinkWork
    PROVE  TalkInv'
  <1>0. /\ turn.pc \in {"begin", "beginLinked", "link"}
        /\ UNCHANGED <<attempts, exchanges, routed>>
    BY DEF Talk!BeginConversation, Talk!LinkWork, Talk!At
  <1>1. /\ turn \in Turn /\ turn.c \in Rooms /\ turn # Talk!Idle
        /\ turn.op = "route" <=> turn.c \in Works
    BY <1>0, AtWork DEF TalkInv
  <1>2. turn.op \in {"create", "route"} /\ (turn.op = "create" => turn.c \in Chats)
    BY <1>0, <1>1 DEF TalkInv, Staged, Turn
  <1>3. CASE Talk!BeginConversation
    <2>1. Talk!AppendEvent(turn.c, Talk!Begun) /\ Talk!Begun \in Talk!Event
          /\ Talk!Begun.kind = "begun" /\ Talk!Begun.m = 0
      BY <1>3 DEF Talk!BeginConversation, Talk!Begun, Talk!Event
    <2>2. CASE turn.pc = "beginLinked"
      <3>1. turn' = [turn EXCEPT !.pc = "link"]
        BY <1>3, <2>2 DEF Talk!BeginConversation, Talk!At, Talk!Goto
      <3>2. /\ turn' \in Turn /\ turn'.c = turn.c /\ turn'.op = turn.op /\ turn'.pc = "link"
        BY <1>1, <3>1 DEF Turn
      <3>3. Staged' /\ Posted(turn.c)' /\ Placed(turn.c)' /\ Linked(turn.c)'
        BY <1>1, <1>2, <3>2 DEF Staged, Posted, Placed, Linked, Reached, Talking, Routing
      <3> QED
        BY <1>0, <2>1, <3>2, <3>3, WriteKeepsTalk DEF Messaging
    <2>3. CASE turn.pc = "begin"
      <3>1. turn' = Talk!Idle
        BY <1>3, <2>3, <1>1, <1>2
        DEF Talk!BeginConversation, Talk!At, Talk!Opened, Talk!Return, TalkInv, Staged
      <3>2. Staged'
        BY <3>1 DEF Staged, Talk!Idle
      <3> QED
        BY <1>0, <2>1, <3>1, <3>2, WriteKeepsTalk DEF Messaging
    <2> QED
      BY <1>3, <2>2, <2>3 DEF Talk!BeginConversation
  <1>4. CASE Talk!LinkWork
    <2>1. Talk!AppendEvent(turn.c, Talk!Linked) /\ Talk!Linked \in Talk!Event
          /\ Talk!Linked.kind = "linked" /\ Talk!Linked.m = 0
      BY <1>4 DEF Talk!LinkWork, Talk!Linked, Talk!Event
    <2>2. CASE turn.op = "route"
      <3>1. turn' = [turn EXCEPT !.pc = "post"]
        BY <1>4, <2>2 DEF Talk!LinkWork, Talk!Opened, Talk!Goto
      <3>2. /\ turn' \in Turn /\ turn'.c = turn.c /\ turn'.op = turn.op /\ turn'.pc = "post"
        BY <1>1, <3>1 DEF Turn
      <3>3. Talk!Has(turn.c, Talk!Linked)'
        <4>1. \A x : Talk!Has(turn.c, x)' <=> Talk!Has(turn.c, x) \/ x = Talk!Linked
          <5>1. \A d \in Rooms : \A x : d = turn.c => (Talk!Has(d, x)' <=> Talk!Has(d, x) \/ x = Talk!Linked)
            BY <1>1, <2>1, Appended DEF TalkInv
          <5> QED
            BY <1>1, <3>2, <5>1
        <4> QED
          BY <4>1
      <3>4. Staged' /\ Posted(turn.c)' /\ Placed(turn.c)' /\ Linked(turn.c)'
        BY <1>1, <2>2, <3>2, <3>3 DEF Staged, Posted, Placed, Linked, Reached, Talking, Routing
      <3> QED
        BY <1>0, <2>1, <3>2, <3>4, WriteKeepsTalk DEF Messaging
    <2>3. CASE turn.op # "route"
      <3>1. turn' = Talk!Idle
        BY <1>4, <2>3 DEF Talk!LinkWork, Talk!Opened, Talk!Return
      <3>2. Staged'
        BY <3>1 DEF Staged, Talk!Idle
      <3> QED
        BY <1>0, <2>1, <3>1, <3>2, WriteKeepsTalk DEF Messaging
    <2> QED
      BY <2>2, <2>3
  <1> QED
    BY <1>3, <1>4

\* What is there after a write.
LEMMA WriteHas ==
    ASSUME Talk!TypeOK, turn.c \in Rooms, NEW e \in Talk!Event,
           e.kind \in {"begun", "linked"} <=> e.m = 0, Talk!AppendEvent(turn.c, e),
           turn'.c = turn.c
    PROVE  \A x : Talk!Has(turn.c, x)' <=> Talk!Has(turn.c, x) \/ x = e
  <1>1. \A d \in Rooms : \A x : Talk!Has(d, x)' <=> Talk!Has(d, x) \/ (d = turn.c /\ x = e)
    BY Appended
  <1>2. \A d \in Rooms : \A x : d = turn.c => (Talk!Has(d, x)' <=> Talk!Has(d, x) \/ x = e)
    BY <1>1
  <1> QED
    BY <1>2

\* A call that posts its message.
LEMMA PostKeepsTalk ==
    ASSUME TalkInv, Talk!PostInput \/ (\E outcome \in Statuses : Talk!PostOutput(outcome))
    PROVE  TalkInv'
  <1>0. turn.pc \in {"post", "provider"} /\ UNCHANGED <<attempts, exchanges, routed>>
    BY DEF Talk!PostInput, Talk!PostOutput, Talk!At
  <1>1. /\ turn \in Turn /\ turn.c \in Rooms /\ turn # Talk!Idle
        /\ turn.op = "route" <=> turn.c \in Works
        /\ turn.op = "route" <=> turn.c \notin Chats
    BY <1>0, AtWork DEF TalkInv
  <1>2. turn.c \in Works => Talk!Has(turn.c, Talk!Linked)
    BY <1>0, <1>1 DEF TalkInv, Linked, Routing, Reached
  <1>3. PICK n \in Nat \ {0} : n = Talk!Fresh(turn.c)
    BY <1>1, FreshIs DEF TalkInv
  <1>4. /\ Talk!User(n) \in Talk!Event /\ Talk!User(n).kind = "user" /\ Talk!User(n).m = n
        /\ Talk!Assistant(n) \in Talk!Event /\ Talk!Assistant(n).kind = "assistant"
        /\ Talk!Assistant(n).m = n
    BY DEF Talk!User, Talk!Assistant, Talk!Event
  <1>5. CASE Talk!PostInput
    <2>1. /\ turn.pc = "post" /\ Talk!AppendEvent(turn.c, Talk!User(n))
          /\ turn' = [turn EXCEPT !.pc = "completeInput", !.input = n]
      BY <1>3, <1>5 DEF Talk!PostInput, Talk!At
    <2>2. /\ turn' \in Turn /\ turn'.c = turn.c /\ turn'.op = turn.op
          /\ turn'.pc = "completeInput" /\ turn'.input = n
      BY <1>1, <2>1 DEF Turn
    <2>3. \A x : Talk!Has(turn.c, x)' <=> Talk!Has(turn.c, x) \/ x = Talk!User(n)
      BY <1>1, <1>4, <2>1, <2>2, WriteHas DEF TalkInv
    <2>4. Talk!Has(turn.c, Talk!User(turn.input))'
      BY <2>2, <2>3 DEF Talk!User
    <2>5. Staged'
      BY <1>1, <2>1, <2>2 DEF TalkInv, Staged
    <2>6. turn.c \in Works => Talk!Has(turn.c, Talk!Linked)'
      BY <1>2, <2>3
    <2>7. Posted(turn.c)' /\ Placed(turn.c)' /\ Linked(turn.c)'
      BY <1>1, <2>2, <2>4, <2>6 DEF Posted, Placed, Linked, Reached, Talking, Routing
    <2> QED
      BY <1>0, <1>2, <1>4, <2>1, <2>2, <2>5, <2>7, WriteKeepsTalk
  <1>6. ASSUME NEW outcome \in Statuses, Talk!PostOutput(outcome)
        PROVE  TalkInv'
    <2>1. /\ turn.pc = "provider" /\ Talk!AppendEvent(turn.c, Talk!Assistant(n))
          /\ turn' = [turn EXCEPT !.pc = "completeOutput", !.output = n, !.outcome = outcome]
      BY <1>3, <1>6 DEF Talk!PostOutput, Talk!At
    <2>2. /\ turn' \in Turn /\ turn'.c = turn.c /\ turn'.op = turn.op /\ turn'.input = turn.input
          /\ turn'.pc = "completeOutput" /\ turn'.output = n /\ turn'.outcome = outcome
      BY <1>1, <2>1 DEF Turn
    <2>3. \A x : Talk!Has(turn.c, x)' <=> Talk!Has(turn.c, x) \/ x = Talk!Assistant(n)
      BY <1>1, <1>4, <2>1, <2>2, WriteHas DEF TalkInv
    <2>4. Talk!Has(turn.c, Talk!User(turn.input))'
      <3>1. Talk!Has(turn.c, Talk!User(turn.input))
        BY <1>1, <2>1 DEF TalkInv, Posted, Reached
      <3> QED
        BY <2>2, <2>3, <3>1 DEF Talk!User
    <2>5. Talk!Has(turn.c, Talk!Assistant(turn.output))' /\ turn'.outcome \in Statuses
      BY <2>2, <2>3 DEF Talk!Assistant
    <2>6. Staged'
      BY <1>1, <2>1, <2>2 DEF TalkInv, Staged
    <2>7. turn.c \in Works => Talk!Has(turn.c, Talk!Linked)'
      BY <1>2, <2>3
    <2>8. Posted(turn.c)' /\ Linked(turn.c)'
      BY <1>1, <2>2, <2>4, <2>5, <2>7, Zenon DEF Posted, Linked, Reached, Talking, Routing, Statuses, Talk!ResultStatus
    <2>9. Placed(turn.c)'
      BY <1>0, <1>1, <2>1, <2>2 DEF TalkInv, Placed, Reached, Talking, Routing
    <2> QED
      BY <1>0, <1>2, <1>4, <2>1, <2>2, <2>6, <2>8, <2>9, WriteKeepsTalk
  <1> QED
    BY <1>5, <1>6

\* A call that completes its message.
LEMMA CompleteKeepsTalk ==
    ASSUME TalkInv, Talk!CompleteInput \/ Talk!CompleteOutput
    PROVE  TalkInv'
  <1>0. /\ turn.pc \in {"completeInput", "completeOutput"}
        /\ UNCHANGED <<attempts, exchanges, routed>>
    BY DEF Talk!CompleteInput, Talk!CompleteOutput, Talk!At
  <1>1. /\ turn \in Turn /\ turn.c \in Rooms /\ turn # Talk!Idle
        /\ turn.op = "route" <=> turn.c \in Works
        /\ turn.op = "route" <=> turn.c \notin Chats
    BY <1>0, AtWork DEF TalkInv
  <1>2. turn.c \in Works => Talk!Has(turn.c, Talk!Linked)
    BY <1>0, <1>1 DEF TalkInv, Linked, Routing, Reached
  <1>3. /\ Talk!Has(turn.c, Talk!User(turn.input))
        /\ turn.pc = "completeOutput" =>
               Talk!Has(turn.c, Talk!Assistant(turn.output)) /\ turn.outcome \in Statuses
    BY <1>0, <1>1 DEF TalkInv, Posted, Reached
  <1>4. PICK n \in Nat \ {0} : n = IF turn.pc = "completeInput" THEN turn.input ELSE turn.output
    <2>1. turn.input \in Nat \ {0}
      BY <1>1, <1>3, NumberIs DEF TalkInv
    <2>2. turn.pc = "completeOutput" => turn.output \in Nat \ {0}
      BY <1>1, <1>3, NumberIs DEF TalkInv
    <2> QED
      BY <1>0, <2>1, <2>2
  <1>5. /\ Talk!Completed(n) \in Talk!Event /\ Talk!Completed(n).kind = "completed"
        /\ Talk!Completed(n).m = n
    BY DEF Talk!Completed, Talk!Event
  <1>6. Talk!AppendEvent(turn.c, Talk!Completed(n))
    BY <1>0, <1>4 DEF Talk!CompleteInput, Talk!CompleteOutput, Talk!At
  <1>7. PICK pc \in {"file", "attempt", "exchange"} :
            /\ turn' = [turn EXCEPT !.pc = pc]
            /\ turn.pc = "completeInput" => pc = IF turn.op = "route" THEN "file" ELSE "attempt"
            /\ turn.pc = "completeOutput" => pc = "exchange"
    BY <1>0 DEF Talk!CompleteInput, Talk!CompleteOutput, Talk!At, Talk!Goto, Talk!AfterOutput
  <1>8. /\ turn' \in Turn /\ turn'.c = turn.c /\ turn'.op = turn.op /\ turn'.pc = pc
        /\ turn'.input = turn.input /\ turn'.output = turn.output /\ turn'.outcome = turn.outcome
    BY <1>1, <1>7 DEF Turn
  <1>9. \A x : Talk!Has(turn.c, x)' <=> Talk!Has(turn.c, x) \/ x = Talk!Completed(n)
    BY <1>1, <1>5, <1>6, <1>8, WriteHas DEF TalkInv
  <1>10. Staged'
    BY <1>0, <1>1, <1>7, <1>8 DEF TalkInv, Staged
  <1>11. Linked(turn.c)'
    BY <1>1, <1>2, <1>8, <1>9 DEF Linked, Routing, Reached
  <1>12. Talk!Has(turn.c, Talk!User(turn.input))'
    BY <1>3, <1>8, <1>9 DEF Talk!User
  <1>13. turn'.pc = "exchange" => /\ Talk!Has(turn.c, Talk!Assistant(turn.output))'
                                  /\ Talk!Has(turn.c, Talk!Completed(turn.output))'
                                  /\ turn'.outcome \in Statuses
    <2> SUFFICES ASSUME pc = "exchange"
                 PROVE  /\ Talk!Has(turn.c, Talk!Assistant(turn.output))'
                        /\ Talk!Has(turn.c, Talk!Completed(turn.output))'
                        /\ turn'.outcome \in Statuses
      BY <1>8
    <2>1. turn.pc = "completeOutput" /\ n = turn.output
      BY <1>0, <1>4, <1>7
    <2> QED
      BY <1>3, <1>8, <1>9, <2>1 DEF Talk!Assistant, Talk!Completed
  <1>14. Posted(turn.c)'
    BY <1>7, <1>8, <1>12, <1>13 DEF Posted, Reached, Statuses, Talk!ResultStatus
  <1>15. Placed(turn.c)'
    BY <1>0, <1>1, <1>7, <1>8 DEF TalkInv, Placed, Reached, Talking, Routing
  <1> QED
    BY <1>0, <1>2, <1>5, <1>6, <1>8, <1>10, <1>11, <1>14, <1>15, WriteKeepsTalk DEF Messaging

\* t is s with its last element replaced.
Closed(s, t, e) ==
    /\ s # <<>> /\ Len(t) = Len(s) /\ t[Len(s)] = e
    /\ \A i \in DOMAIN s : i # Len(s) => t[i] = s[i]

\* What replacing the last element builds.
LEMMA CloseIs ==
    ASSUME NEW S, NEW s \in Seq(S), s # <<>>, NEW e \in S
    PROVE  [s EXCEPT ![Len(s)] = e] \in Seq(S) /\ Closed(s, [s EXCEPT ![Len(s)] = e], e)
  <1>1. Len(s) \in 1 .. Len(s) /\ DOMAIN s = 1 .. Len(s)
    BY EmptySeq, LenProperties
  <1>2. [s EXCEPT ![Len(s)] = e] \in Seq(S) /\ Len([s EXCEPT ![Len(s)] = e]) = Len(s)
    BY <1>1, ExceptSeq
  <1> QED
    BY <1>1, <1>2 DEF Closed

\* A call that records: a message filed, an attempt, an exchange.
LEMMA RecordKeepsTalk ==
    ASSUME TalkInv, Talk!FileMessage \/ Talk!RecordAttempt \/ Talk!RecordExchange
    PROVE  TalkInv'
  <1>0. turn.pc \in {"file", "attempt", "exchange"} /\ UNCHANGED <<events, used>>
    BY DEF Talk!FileMessage, Talk!RecordAttempt, Talk!RecordExchange, Talk!At
  <1>1. /\ turn \in Turn /\ turn.c \in Rooms /\ turn # Talk!Idle
        /\ turn.op = "route" <=> turn.c \in Works
        /\ turn.op = "route" <=> turn.c \notin Chats
    BY <1>0, AtWork DEF TalkInv
  <1>2. /\ turn'.c = turn.c => \A x : Talk!Has(turn.c, x) => Talk!Has(turn.c, x)'
        /\ used'.steps = used.steps
    BY <1>0 DEF Talk!Has
  <1>3. /\ Talk!Has(turn.c, Talk!User(turn.input))
        /\ turn.c \in Works => Talk!Has(turn.c, Talk!Linked)
        /\ turn.pc = "exchange" => /\ Talk!Has(turn.c, Talk!Assistant(turn.output))
                                   /\ Talk!Has(turn.c, Talk!Completed(turn.output))
                                   /\ turn.outcome \in Statuses
    <2>1. Posted(turn.c) /\ Linked(turn.c)
      BY <1>1 DEF TalkInv
    <2>2. turn.pc = "attempt" => turn.op # "route"
      BY <1>1 DEF TalkInv, Staged
    <2> QED
      BY <1>0, <1>1, <2>1, <2>2 DEF Posted, Linked, Routing, Reached
  <1>4. /\ attempts \in [Rooms -> Seq(Talk!Attempt)]
        /\ exchanges \in [Rooms -> Seq(Talk!Exchange)]
        /\ routed \in [Rooms -> Seq(Statuses \cup {"none"})]
    BY DEF TalkInv, Talk!TypeOK, Rooms, Statuses
  <1>5. CASE Talk!FileMessage
    <2>1. /\ turn.pc = "file" /\ turn' = [turn EXCEPT !.pc = "provider"]
          /\ routed' = [routed EXCEPT ![turn.c] = Append(@, "none")]
          /\ UNCHANGED <<attempts, exchanges>>
      BY <1>5 DEF Talk!FileMessage, Talk!At, Talk!Goto
    <2>2. /\ turn' \in Turn /\ turn'.c = turn.c /\ turn'.op = turn.op /\ turn'.pc = "provider"
          /\ turn'.input = turn.input /\ turn'.output = turn.output /\ turn'.outcome = turn.outcome
      BY <1>1, <2>1 DEF Turn
    <2>3. turn.op = "route"
      BY <1>1, <2>1 DEF TalkInv, Staged, Turn
    <2>4. /\ Append(routed[turn.c], "none") \in Seq(Statuses \cup {"none"})
          /\ Append(routed[turn.c], "none") # <<>>
          /\ Append(routed[turn.c], "none")[Len(routed[turn.c]) + 1] = "none"
          /\ Len(Append(routed[turn.c], "none")) = Len(routed[turn.c]) + 1
      BY <1>1, <1>4, AppendProperties
    <2>5. routed'[turn.c] = Append(routed[turn.c], "none")
          /\ routed' \in [Rooms -> Seq(Statuses \cup {"none"})]
      BY <1>1, <1>4, <2>1, <2>4
    <2>6. Talk!TypeOK'
      BY <1>0, <2>1, <2>5 DEF TalkInv, Talk!TypeOK, Rooms, Statuses
    <2>7. Staged'
      BY <1>1, <2>1, <2>2, <2>3 DEF TalkInv, Staged
    <2>8. Posted(turn.c)' /\ Linked(turn.c)'
      BY <1>1, <1>2, <1>3, <2>2, Zenon DEF Posted, Linked, Reached, Routing, Talk!User
    <2>9. Placed(turn.c)'
      <3>1. routed'[turn'.c] # <<>> /\ routed'[turn'.c][Len(routed'[turn'.c])] = "none"
        BY <2>2, <2>4, <2>5
      <3> QED
        BY <2>2, <2>3, <3>1 DEF Placed, Reached, Routing, Talking
    <2> QED
      BY <1>0, <1>2, <2>6, <2>7, <2>8, <2>9, QuietKeepsTalk
  <1>6. CASE Talk!RecordAttempt
    <2> DEFINE a == [status |-> "Started", input |-> turn.input, output |-> 0]
    <2>1. PICK limit \in Talk!Limits :
              turn' = [turn EXCEPT !.pc = "provider", !.shown =
                          {events[turn.c][i].m : i \in Talk!Recent(turn.c, limit)}]
      BY <1>6 DEF Talk!RecordAttempt
    <2>2. /\ turn.pc = "attempt" /\ UNCHANGED <<routed, exchanges>>
          /\ attempts' = [attempts EXCEPT ![turn.c] = Append(@, a)]
      BY <1>6 DEF Talk!RecordAttempt, Talk!At
    <2>3. {events[turn.c][i].m : i \in Talk!Recent(turn.c, limit)} \in SUBSET Nat
      BY <1>1, EventIs DEF Talk!Recent, TalkInv
    <2>4. /\ turn' \in Turn /\ turn'.c = turn.c /\ turn'.op = turn.op /\ turn'.pc = "provider"
          /\ turn'.input = turn.input /\ turn'.output = turn.output /\ turn'.outcome = turn.outcome
      BY <1>1, <2>1, <2>3 DEF Turn
    <2>5. turn.op \in {"send", "retry"} /\ turn.c \in Chats
      BY <1>1, <2>2 DEF TalkInv, Staged, Turn
    <2>6. a \in Talk!Attempt /\ a.status = "Started" /\ a.input = turn.input
      BY <1>1 DEF Talk!Attempt, Talk!AttemptStatus, Turn
    <2> HIDE DEF a
    <2>7. /\ Append(attempts[turn.c], a) \in Seq(Talk!Attempt)
          /\ Append(attempts[turn.c], a) # <<>>
          /\ Append(attempts[turn.c], a)[Len(attempts[turn.c]) + 1] = a
          /\ Len(Append(attempts[turn.c], a)) = Len(attempts[turn.c]) + 1
      <3>1. attempts[turn.c] \in Seq(Talk!Attempt)
        BY <1>1, <1>4
      <3> QED
        BY <2>6, <3>1, AppendProperties
    <2>8. attempts'[turn.c] = Append(attempts[turn.c], a)
          /\ attempts' \in [Rooms -> Seq(Talk!Attempt)]
      BY <1>1, <1>4, <2>2, <2>7
    <2>9. Talk!TypeOK'
      BY <1>0, <2>2, <2>8 DEF TalkInv, Talk!TypeOK, Rooms
    <2>10. Staged'
      BY <1>1, <2>2, <2>4, <2>5 DEF TalkInv, Staged
    <2>11. Posted(turn.c)' /\ Linked(turn.c)'
      BY <1>1, <1>2, <1>3, <2>4, Zenon DEF Posted, Linked, Reached, Routing, Talk!User
    <2>12. Placed(turn.c)'
      <3>1. /\ attempts'[turn'.c] # <<>>
            /\ attempts'[turn'.c][Len(attempts'[turn'.c])].status = "Started"
            /\ attempts'[turn'.c][Len(attempts'[turn'.c])].input = turn'.input
        BY <2>4, <2>6, <2>7, <2>8
      <3> QED
        BY <2>4, <2>5, <3>1 DEF Placed, Reached, Routing, Talking
    <2> QED
      BY <1>0, <1>2, <2>9, <2>10, <2>11, <2>12, QuietKeepsTalk
  <1>7. CASE Talk!RecordExchange
    <2> DEFINE x == [input |-> turn.input, output |-> turn.output, status |-> turn.outcome]
    <2>1. /\ turn.pc = "exchange" /\ turn' = [turn EXCEPT !.pc = "close"]
          /\ exchanges' = [exchanges EXCEPT ![turn.c] = Append(@, x)]
          /\ UNCHANGED <<attempts, routed>>
      BY <1>7 DEF Talk!RecordExchange, Talk!At, Talk!Goto
    <2>2. /\ turn' \in Turn /\ turn'.c = turn.c /\ turn'.op = turn.op /\ turn'.pc = "close"
          /\ turn'.input = turn.input /\ turn'.output = turn.output /\ turn'.outcome = turn.outcome
      BY <1>1, <2>1 DEF Turn
    <2>3. x \in Talk!Exchange
      BY <1>1, <1>3, <2>1 DEF Talk!Exchange, Turn, Statuses
    <2> HIDE DEF x
    <2>4. exchanges' \in [Rooms -> Seq(Talk!Exchange)]
      BY <1>1, <1>4, <2>1, <2>3, AppendProperties
    <2>5. Talk!TypeOK'
      BY <1>0, <2>1, <2>4 DEF TalkInv, Talk!TypeOK, Rooms
    <2>6. Staged'
      BY <1>1, <2>1, <2>2 DEF TalkInv, Staged
    <2>7. Posted(turn.c)' /\ Linked(turn.c)'
      BY <1>1, <1>2, <1>3, <2>1, <2>2, Zenon
      DEF Posted, Linked, Reached, Routing, Talk!User, Talk!Assistant, Talk!Completed, Statuses,
          Talk!ResultStatus
    <2>8. Placed(turn.c)'
      BY <1>1, <2>1, <2>2 DEF TalkInv, Placed, Reached, Routing, Talking
    <2> QED
      BY <1>0, <1>2, <2>5, <2>6, <2>7, <2>8, QuietKeepsTalk
  <1> QED
    BY <1>5, <1>6, <1>7

\* A call that ends.
LEMMA EndKeepsTalk ==
    ASSUME TalkInv,
           \/ Talk!TurnAway \/ Talk!LeaveUnsent \/ Talk!FailAttempt
           \/ Talk!CloseAttempt \/ Talk!FileResult \/ Talk!Stop
    PROVE  TalkInv'
  <1>0. UNCHANGED <<events, exchanges>> /\ turn' = Talk!Idle
    BY DEF Talk!TurnAway, Talk!LeaveUnsent, Talk!FailAttempt, Talk!CloseAttempt,
           Talk!FileResult, Talk!Stop, Talk!Return
  <1>1. Staged'
    BY <1>0 DEF Staged
  <1>2. /\ attempts \in [Rooms -> Seq(Talk!Attempt)]
        /\ routed \in [Rooms -> Seq(Statuses \cup {"none"})]
        /\ used \in [calls : Nat, stops : Nat, steps : Nat]
    BY DEF TalkInv, Talk!TypeOK, Rooms, Statuses
  <1>3. CASE UNCHANGED <<attempts, routed, used>>
    <2>1. Talk!TypeOK' /\ used'.steps = used.steps
      BY <1>0, <1>3 DEF TalkInv, Talk!TypeOK
    <2> QED
      BY <1>0, <1>1, <2>1, QuietKeepsTalk
  <1>4. CASE Talk!FailAttempt \/ Talk!CloseAttempt
    <2>1. /\ turn.pc \in {"provider", "close"} /\ turn.op \in {"send", "retry"}
          /\ UNCHANGED <<routed, used>>
      BY <1>4 DEF Talk!FailAttempt, Talk!CloseAttempt, Talk!At, Talk!Chatting
    <2>2. turn.c \in Rooms /\ turn \in Turn /\ turn # Talk!Idle
      BY <2>1, AtWork DEF TalkInv
    <2> DEFINE s == attempts[turn.c]
    <2>3. s \in Seq(Talk!Attempt) /\ s # <<>>
      BY <1>2, <2>1, <2>2 DEF TalkInv, Placed, Talking, Reached
    <2>4. s[Len(s)] \in Talk!Attempt
      BY <2>3, EmptySeq, ElementOfSeq
    <2>5. \E a \in Talk!Attempt : attempts' = [attempts EXCEPT ![turn.c] = [s EXCEPT ![Len(s)] = a]]
      <3>1. CASE Talk!FailAttempt
        <4>1. [s[Len(s)] EXCEPT !.status = "Failed"] \in Talk!Attempt
          BY <2>4 DEF Talk!Attempt, Talk!AttemptStatus
        <4>2. attempts' = [attempts EXCEPT ![turn.c] =
                              [s EXCEPT ![Len(s)] = [s[Len(s)] EXCEPT !.status = "Failed"]]]
          BY <3>1 DEF Talk!FailAttempt, Talk!Latest
        <4> QED
          BY <4>1, <4>2
      <3>2. CASE Talk!CloseAttempt
        <4>1. [s[Len(s)] EXCEPT !.status = "Completed", !.output = turn.output] \in Talk!Attempt
          BY <2>2, <2>4 DEF Talk!Attempt, Talk!AttemptStatus, Turn
        <4>2. attempts' = [attempts EXCEPT ![turn.c] =
                              [s EXCEPT ![Len(s)] = [s[Len(s)] EXCEPT !.status = "Completed",
                                                                      !.output = turn.output]]]
          BY <3>2 DEF Talk!CloseAttempt, Talk!Latest
        <4> QED
          BY <4>1, <4>2
      <3> QED
        BY <1>4, <3>1, <3>2
    <2> HIDE DEF s
    <2>6. attempts' \in [Rooms -> Seq(Talk!Attempt)]
      BY <1>2, <2>2, <2>3, <2>5, CloseIs
    <2>7. Talk!TypeOK' /\ used'.steps = used.steps
      BY <1>0, <2>1, <2>6 DEF TalkInv, Talk!TypeOK, Rooms
    <2> QED
      BY <1>0, <1>1, <2>7, QuietKeepsTalk
  <1>5. CASE Talk!FileResult
    <2>1. /\ turn.pc = "close" /\ turn.op = "route" /\ UNCHANGED <<attempts, used>>
          /\ routed' = [routed EXCEPT ![turn.c][Len(routed[turn.c])] = turn.outcome]
      BY <1>5 DEF Talk!FileResult, Talk!At
    <2>2. turn.c \in Rooms /\ turn \in Turn /\ turn # Talk!Idle
      BY <2>1, AtWork DEF TalkInv
    <2> DEFINE s == routed[turn.c]
    <2>3. s \in Seq(Statuses \cup {"none"}) /\ s # <<>>
      BY <1>2, <2>1, <2>2 DEF TalkInv, Placed, Routing, Reached
    <2>4. routed' = [routed EXCEPT ![turn.c] = [s EXCEPT ![Len(s)] = turn.outcome]]
      BY <2>1
    <2>5. turn.outcome \in Statuses \cup {"none"}
      BY <2>2 DEF Turn
    <2> HIDE DEF s
    <2>6. routed' \in [Rooms -> Seq(Statuses \cup {"none"})]
      BY <1>2, <2>2, <2>3, <2>4, <2>5, CloseIs
    <2>7. Talk!TypeOK' /\ used'.steps = used.steps
      BY <1>0, <2>1, <2>6 DEF TalkInv, Talk!TypeOK, Rooms, Statuses
    <2> QED
      BY <1>0, <1>1, <2>7, QuietKeepsTalk
  <1>6. CASE Talk!Stop
    <2>1. used' = [used EXCEPT !.stops = @ + 1] /\ UNCHANGED <<attempts, routed>>
      BY <1>6 DEF Talk!Stop
    <2>2. used' \in [calls : Nat, stops : Nat, steps : Nat] /\ used'.steps = used.steps
      BY <1>2, <2>1
    <2>3. Talk!TypeOK'
      BY <1>0, <2>1, <2>2 DEF TalkInv, Talk!TypeOK
    <2> QED
      BY <1>0, <1>1, <2>2, <2>3, QuietKeepsTalk
  <1> QED
    BY <1>3, <1>4, <1>5, <1>6 DEF Talk!TurnAway, Talk!LeaveUnsent

\* Whatever stops half way, the conversations can be read, and the call under way has
\* written what it has come past.
THEOREM TalkHolds == Talk!Spec => []TalkInv
  <1>1. Talk!Init => TalkInv
    <2> SUFFICES ASSUME Talk!Init PROVE TalkInv
      OBVIOUS
    <2>1. turn = Talk!Idle /\ \A c \in Rooms : events[c] = <<>>
      BY DEF Talk!Init, Rooms
    <2>2. Talk!TypeOK
      BY DEF Talk!Init, Talk!TypeOK
    <2> QED
      BY <2>1, <2>2
      DEF TalkInv, Staged, Talk!ReadableInOrder, Talk!LinkedBeforeMessages, Posted, Placed,
          Linked, Reached, Talking, Routing, Rooms, Talk!Conversation
  <1>2. TalkInv /\ [Talk!Next]_(Talk!vars) => TalkInv'
    <2> SUFFICES ASSUME TalkInv, [Talk!Next]_(Talk!vars) PROVE TalkInv'
      OBVIOUS
    <2>1. CASE UNCHANGED Talk!vars
      <3>1. UNCHANGED <<events, attempts, exchanges, routed, turn, used>>
        BY <2>1 DEF Talk!vars
      <3>2. Talk!TypeOK' /\ Staged'
        BY <3>1 DEF TalkInv, Talk!TypeOK, Staged
      <3>3. turn' = Talk!Idle \/ (Posted(turn.c)' /\ Placed(turn.c)' /\ Linked(turn.c)')
        <4>1. turn # Talk!Idle => turn.c \in Rooms
          BY DEF TalkInv, Staged, Turn
        <4> QED
          BY <3>1, <4>1 DEF TalkInv, Posted, Placed, Linked, Reached, Talking, Routing, Talk!Has
      <3> QED
        BY <3>1, <3>2, <3>3, QuietKeepsTalk
    <2>2. CASE Talk!Next
      BY <2>2, BeginKeepsTalk, OpenKeepsTalk, PostKeepsTalk, CompleteKeepsTalk, RecordKeepsTalk,
         EndKeepsTalk DEF Talk!Next, Rooms, Statuses
    <2> QED
      BY <2>1, <2>2
  <1> QED
    BY <1>1, <1>2, PTL DEF Talk!Spec

-----------------------------------------------------------------------------
(* Nothing is counted twice *)

\* Where the call is after it wrote an event.
Following(e) ==
    /\ e.kind \in {"begun", "linked"} =>
           turn' = Talk!Idle \/ (turn'.c = turn.c /\ turn'.pc \in {"link", "post"})
    /\ e.kind \in {"user", "assistant", "completed"} => turn' # Talk!Idle /\ turn'.c = turn.c
    /\ e.kind = "user" => turn'.pc = "completeInput" /\ turn'.input = e.m
    /\ e.kind = "assistant" =>
           turn'.pc = "completeOutput" /\ turn'.input = turn.input /\ turn'.output = e.m
    /\ e.kind = "completed" => turn'.input = turn.input /\ turn'.output = turn.output
    /\ e.kind = "completed" =>
           \/ turn.pc = "completeInput" /\ turn'.pc \in {"file", "attempt"}
           \/ turn.pc = "completeOutput" /\ turn'.pc = "exchange"

\* What a step writes to the events.
Writing(e) ==
    /\ turn.pc \in {"begin", "beginLinked", "link", "post", "completeInput", "provider",
                    "completeOutput"}
    /\ Talk!AppendEvent(turn.c, e)
    /\ e \in Talk!Event
    /\ e.kind \in {"begun", "linked"} <=> e.m = 0
    /\ e.kind \in Messaging => e.m = Talk!Fresh(turn.c) /\ turn.pc \in {"post", "provider"}
    /\ e.kind = "assistant" => turn.pc = "provider"
    /\ Following(e)
    /\ turn.pc = "completeInput" => e = Talk!Completed(turn.input)
    /\ turn.pc = "completeOutput" => e = Talk!Completed(turn.output)
    /\ UNCHANGED <<attempts, exchanges, routed>>

\* The steps that write an event.
Writer ==
    \/ Talk!BeginConversation \/ Talk!LinkWork \/ Talk!PostInput \/ Talk!CompleteInput
    \/ \E outcome \in Statuses : Talk!PostOutput(outcome)
    \/ Talk!CompleteOutput

\* They write an event of their own kind, and go on behind it.
LEMMA WriterWrites ==
    ASSUME TalkInv, Writer
    PROVE  \E e \in Talk!Event : Writing(e)
  <1>1. CASE Talk!BeginConversation
    <2>0. turn' = Talk!Idle \/ (turn'.c = turn.c /\ turn'.pc \in {"link", "post"})
      <3>1. turn \in Turn
        BY <1>1, AtWork DEF Talk!BeginConversation, TalkInv
      <3> QED
        BY <1>1, <3>1 DEF Talk!BeginConversation, Talk!Opened, Talk!Goto, Talk!Return, Turn
    <2>1. Talk!Begun \in Talk!Event /\ Writing(Talk!Begun)
      BY <1>1, <2>0
      DEF Talk!BeginConversation, Writing, Following, Talk!Begun, Talk!Event, Messaging
    <2> QED
      BY <2>1
  <1>2. CASE Talk!LinkWork
    <2>0. turn' = Talk!Idle \/ (turn'.c = turn.c /\ turn'.pc \in {"link", "post"})
      <3>1. turn \in Turn
        BY <1>2, AtWork DEF Talk!LinkWork, Talk!At, TalkInv
      <3> QED
        BY <1>2, <3>1 DEF Talk!LinkWork, Talk!Opened, Talk!Goto, Talk!Return, Turn
    <2>1. Talk!Linked \in Talk!Event /\ Writing(Talk!Linked)
      BY <1>2, <2>0
      DEF Talk!LinkWork, Talk!At, Writing, Following, Talk!Linked, Talk!Event, Messaging
    <2> QED
      BY <2>1
  <1>3. CASE Talk!PostInput
    <2>1. turn.c \in Rooms /\ Talk!Fresh(turn.c) \in Nat \ {0}
      BY <1>3, AtWork, FreshIs DEF Talk!PostInput, Talk!At, TalkInv
    <2>0. /\ turn' # Talk!Idle /\ turn'.c = turn.c /\ turn'.pc = "completeInput"
          /\ turn'.input = Talk!Fresh(turn.c)
      <3>1. turn \in Turn
        BY <1>3, AtWork DEF Talk!PostInput, Talk!At, TalkInv
      <3> QED
        BY <1>3, <3>1 DEF Talk!PostInput, Turn, Talk!Idle
    <2>2. Talk!User(Talk!Fresh(turn.c)) \in Talk!Event /\ Writing(Talk!User(Talk!Fresh(turn.c)))
      BY <1>3, <2>0, <2>1 DEF Talk!PostInput, Talk!At, Writing, Following, Talk!User, Talk!Event, Messaging
    <2> QED
      BY <2>2
  <1>4. ASSUME NEW outcome \in Statuses, Talk!PostOutput(outcome)
        PROVE  \E e \in Talk!Event : Writing(e)
    <2>1. turn.c \in Rooms /\ Talk!Fresh(turn.c) \in Nat \ {0}
      BY <1>4, AtWork, FreshIs DEF Talk!PostOutput, Talk!At, TalkInv
    <2>0. /\ turn' # Talk!Idle /\ turn'.c = turn.c /\ turn'.pc = "completeOutput"
          /\ turn'.output = Talk!Fresh(turn.c) /\ turn'.input = turn.input
      <3>1. turn \in Turn
        BY <1>4, AtWork DEF Talk!PostOutput, Talk!At, TalkInv
      <3> QED
        BY <1>4, <3>1 DEF Talk!PostOutput, Turn, Talk!Idle
    <2>2. /\ Talk!Assistant(Talk!Fresh(turn.c)) \in Talk!Event
          /\ Writing(Talk!Assistant(Talk!Fresh(turn.c)))
      BY <1>4, <2>0, <2>1
      DEF Talk!PostOutput, Talk!At, Writing, Following, Talk!Assistant, Talk!Event, Messaging
    <2> QED
      BY <2>2
  <1>5. CASE Talk!CompleteInput \/ Talk!CompleteOutput
    <2>0. turn.pc \in {"completeInput", "completeOutput"}
      BY <1>5 DEF Talk!CompleteInput, Talk!CompleteOutput, Talk!At
    <2>1. turn.c \in Rooms /\ turn # Talk!Idle
      BY <2>0, AtWork DEF TalkInv
    <2>2. Posted(turn.c)
      BY <2>1 DEF TalkInv
    <2>3. turn.input \in Nat \ {0}
      <3>1. Talk!Has(turn.c, Talk!User(turn.input))
        BY <2>0, <2>1, <2>2 DEF Posted, Reached
      <3> QED
        BY <2>1, <3>1, NumberIs DEF TalkInv
    <2>4. turn.pc = "completeOutput" => turn.output \in Nat \ {0}
      <3>1. turn.pc = "completeOutput" => Talk!Has(turn.c, Talk!Assistant(turn.output))
        BY <2>0, <2>1, <2>2 DEF Posted, Reached
      <3> QED
        BY <2>1, <3>1, NumberIs DEF TalkInv
    <2>5. PICK n \in Nat \ {0} : /\ Talk!AppendEvent(turn.c, Talk!Completed(n))
                                 /\ UNCHANGED <<attempts, exchanges, routed>>
                                 /\ turn.pc = "completeInput" => n = turn.input
                                 /\ turn.pc = "completeOutput" => n = turn.output
      BY <1>5, <2>3, <2>4 DEF Talk!CompleteInput, Talk!CompleteOutput, Talk!At
    <2>6. /\ turn'.c = turn.c /\ turn'.input = turn.input /\ turn'.output = turn.output
          /\ \/ turn.pc = "completeInput" /\ turn'.pc \in {"file", "attempt"}
             \/ turn.pc = "completeOutput" /\ turn'.pc = "exchange"
      <3>1. turn \in Turn
        BY <2>0, AtWork DEF TalkInv
      <3> QED
        BY <1>5, <3>1 DEF Talk!CompleteInput, Talk!CompleteOutput, Talk!At, Talk!Goto,
                          Talk!AfterOutput, Turn
    <2>7. turn' # Talk!Idle
      BY <2>6 DEF Talk!Idle
    <2>8. Talk!Completed(n) \in Talk!Event /\ Writing(Talk!Completed(n))
      BY <2>0, <2>5, <2>6, <2>7 DEF Writing, Following, Talk!Completed, Talk!Event, Messaging
    <2> QED
      BY <2>8
  <1> QED
    BY <1>1, <1>2, <1>3, <1>4, <1>5 DEF Writer

\* The other steps do not.
LEMMA WriteIs ==
    ASSUME TalkInv, Talk!Next
    PROVE  \/ /\ UNCHANGED <<events>>
              /\ Talk!Stop \/ turn.pc \notin {"completeInput", "completeOutput"}
           \/ \E e \in Talk!Event : Writing(e)
  <1>1. CASE \/ Talk!FileMessage \/ Talk!RecordAttempt \/ Talk!TurnAway \/ Talk!LeaveUnsent
             \/ Talk!FailAttempt \/ Talk!RecordExchange \/ Talk!CloseAttempt \/ Talk!FileResult
             \/ Talk!Stop
    <2>1. UNCHANGED <<events>>
      BY <1>1 DEF Talk!FileMessage, Talk!RecordAttempt, Talk!TurnAway, Talk!LeaveUnsent,
                  Talk!FailAttempt, Talk!RecordExchange, Talk!CloseAttempt, Talk!FileResult,
                  Talk!Stop
    <2>2. Talk!Stop \/ turn.pc \notin {"completeInput", "completeOutput"}
      BY <1>1 DEF Talk!FileMessage, Talk!RecordAttempt, Talk!TurnAway, Talk!LeaveUnsent,
                  Talk!FailAttempt, Talk!RecordExchange, Talk!CloseAttempt, Talk!FileResult,
                  Talk!At
    <2> QED
      BY <2>1, <2>2
  <1>2. ASSUME NEW c \in Rooms,
               \/ \E pc \in {"begin", "beginLinked"} : Talk!Create(c, pc)
               \/ Talk!Send(c) \/ Talk!Retry(c) \/ Talk!Route(c)
        PROVE  UNCHANGED <<events>> /\ turn.pc \notin {"completeInput", "completeOutput"}
    <2>1. UNCHANGED <<events>> /\ turn = Talk!Idle
      BY <1>2 DEF Talk!Create, Talk!Send, Talk!Retry, Talk!Route, Talk!Begin
    <2> QED
      BY <2>1 DEF Talk!Idle
  <1> QED
    BY <1>1, <1>2, WriterWrites DEF Writer, Talk!Next, Rooms, Statuses

\* What is there stays there.
LEMMA HasStays ==
    ASSUME TalkInv, Talk!Next
    PROVE  \A c \in Rooms : \A x : Talk!Has(c, x) => Talk!Has(c, x)'
  <1>1. CASE UNCHANGED <<events>>
    BY <1>1 DEF Talk!Has
  <1>2. ASSUME NEW e \in Talk!Event, Writing(e)
        PROVE  \A c \in Rooms : \A x : Talk!Has(c, x) => Talk!Has(c, x)'
    <2>1. turn.c \in Rooms
      BY <1>2, AtWork DEF Writing, TalkInv
    <2>2. \A d \in Rooms : \A x : Talk!Has(d, x)' <=> Talk!Has(d, x) \/ (d = turn.c /\ x = e)
      BY <1>2, <2>1, Appended DEF Writing, TalkInv
    <2> QED
      BY <2>2
  <1> QED
    BY <1>1, <1>2, WriteIs

\* Messages are numbered without a gap.
LEMMA InsertNumbered ==
    ASSUME NEW S, NEW s \in Seq(S), NEW t \in Seq(S), NEW i, NEW e, Inserted(s, t, i, e),
           Numbered(s), e.kind \in Messaging => e.m = Cardinality(Marks(s, Messaging)) + 1
    PROVE  Numbered(t)
  <1> DEFINE M == Marks(s, Messaging)
             N == Marks(t, Messaging)
             n == Cardinality(M)
  <1>1. n \in Nat /\ Cardinality(N) = IF e.kind \in Messaging THEN n + 1 ELSE n
    BY MarksCount, CountInserted
  <1>2. \A j \in M : s[j].m \in 1 .. n
    BY DEF Numbered
  <1>3. \A j, k \in M : s[j].m = s[k].m => j = k
    BY DEF Numbered
  <1>4. \A k \in DOMAIN t \ {i} : \E j \in DOMAIN s : k = Shift(i, j) /\ t[k] = s[j]
    BY Shifted
  <1>5. t[i] = e
    BY DEF Inserted
  <1>6. \A k \in N : \/ k = i /\ e.kind \in Messaging /\ t[k].m = n + 1
                     \/ \E j \in M : k = Shift(i, j) /\ t[k].m = s[j].m
    BY <1>4, <1>5 DEF Marks
  <1> HIDE DEF M, N, n
  <1>7. \A k \in N : t[k].m \in 1 .. Cardinality(N)
    BY <1>1, <1>2, <1>6
  <1>8. \A j, k \in N : t[j].m = t[k].m => j = k
    <2> SUFFICES ASSUME NEW j \in N, NEW k \in N, t[j].m = t[k].m PROVE j = k
      OBVIOUS
    <2>1. \A l \in M : s[l].m # n + 1
      BY <1>1, <1>2
    <2> QED
      BY <1>3, <1>6, <2>1
  <1> QED
    BY <1>7, <1>8 DEF Numbered, N

\* Every step keeps the messages numbered.
LEMMA NumberedStep ==
    ASSUME TalkInv, \A c \in Rooms : Numbered(events[c]), Talk!Next
    PROVE  \A c \in Rooms : Numbered(events'[c])
  <1>1. CASE UNCHANGED <<events>>
    BY <1>1
  <1>2. ASSUME NEW e \in Talk!Event, Writing(e)
        PROVE  \A c \in Rooms : Numbered(events'[c])
    <2>1. turn.c \in Rooms
      BY <1>2, AtWork DEF Writing, TalkInv
    <2>2. /\ events' \in [Rooms -> Seq(Talk!Event)]
          /\ \A d \in Rooms : d # turn.c => events'[d] = events[d]
          /\ \E i \in 1 .. Len(events[turn.c]) + 1 : Inserted(events[turn.c], events'[turn.c], i, e)
      BY <1>2, <2>1, Appended DEF Writing, TalkInv
    <2> DEFINE s == events[turn.c]
               t == events'[turn.c]
    <2>3. s \in Seq(Talk!Event) /\ t \in Seq(Talk!Event) /\ \E i : Inserted(s, t, i, e)
      BY <2>1, <2>2 DEF TalkInv, Talk!TypeOK, Rooms
    <2>4. Numbered(s) /\ (e.kind \in Messaging => e.m = Cardinality(Marks(s, Messaging)) + 1)
      BY <1>2, <2>1, FreshIs DEF Writing, TalkInv
    <2> HIDE DEF s, t
    <2>5. Numbered(t)
      BY <2>3, <2>4, InsertNumbered
    <2> QED
      BY <2>2, <2>5 DEF t
  <1> QED
    BY <1>1, <1>2, WriteIs

\* No message has the number of the next one.
LEMMA NewAnswer ==
    ASSUME TalkInv, NEW c \in Rooms, Numbered(events[c])
    PROVE  ~Talk!Has(c, Talk!Assistant(Talk!Fresh(c)))
  <1> SUFFICES ASSUME NEW i \in DOMAIN events[c], events[c][i] = Talk!Assistant(Talk!Fresh(c))
               PROVE  FALSE
    BY DEF Talk!Has
  <1>1. i \in Marks(events[c], Messaging) /\ events[c][i].m = Talk!Fresh(c)
    BY DEF Marks, Messaging, Talk!Assistant
  <1>2. events[c][i].m \in 1 .. Cardinality(Marks(events[c], Messaging))
    BY <1>1 DEF Numbered
  <1> QED
    BY <1>1, <1>2, FreshIs DEF TalkInv

\* Exchanges and attempts stay backed by what stays.
LEMMA SameRecords ==
    ASSUME TalkInv, Talk!Next, NEW c \in Rooms, Exchanged(c), Backed(c),
           exchanges'[c] = exchanges[c], attempts'[c] = attempts[c]
    PROVE  Exchanged(c)' /\ Backed(c)'
  <1>1. \A m : /\ Talk!Has(c, Talk!Assistant(m)) => Talk!Has(c, Talk!Assistant(m))'
               /\ Talk!Has(c, Talk!Completed(m)) => Talk!Has(c, Talk!Completed(m))'
    BY HasStays DEF Talk!Assistant, Talk!Completed
  <1>2. Exchanged(c)'
    <2>1. \A k \in DOMAIN exchanges[c] : Talk!Has(c, Talk!Assistant(exchanges[c][k].output))'
      BY <1>1 DEF Exchanged
    <2> QED
      BY <2>1 DEF Exchanged
  <1>3. Backed(c)'
    BY <1>1 DEF Backed
  <1> QED
    BY <1>2, <1>3

\* What an element more is.
LEMMA AppendIs ==
    ASSUME NEW S, NEW s \in Seq(S), NEW e \in S
    PROVE  /\ Append(s, e) \in Seq(S) /\ Len(Append(s, e)) = Len(s) + 1
           /\ DOMAIN Append(s, e) = DOMAIN s \cup {Len(s) + 1} /\ Len(s) + 1 \notin DOMAIN s
           /\ \A k \in DOMAIN s : Append(s, e)[k] = s[k]
           /\ Append(s, e)[Len(s) + 1] = e
  BY AppendProperties, LenProperties

\* An exchange more, of an answer that has none.
LEMMA ExchangeBacked ==
    ASSUME TalkInv, Talk!Next, NEW c \in Rooms, Exchanged(c), Backed(c), NEW x \in Talk!Exchange,
           exchanges'[c] = Append(exchanges[c], x), attempts'[c] = attempts[c],
           Talk!Has(c, Talk!Assistant(x.output)),
           \A k \in DOMAIN exchanges[c] : exchanges[c][k].output # x.output
    PROVE  /\ Exchanged(c)' /\ Backed(c)'
           /\ \E k \in DOMAIN exchanges'[c] : exchanges'[c][k].input = x.input
                                              /\ exchanges'[c][k].output = x.output
  <1>0. exchanges[c] \in Seq(Talk!Exchange)
    BY DEF TalkInv, Talk!TypeOK, Rooms
  <1>1. /\ DOMAIN exchanges'[c] = DOMAIN exchanges[c] \cup {Len(exchanges[c]) + 1}
        /\ \A k \in DOMAIN exchanges[c] : exchanges'[c][k] = exchanges[c][k]
        /\ exchanges'[c][Len(exchanges[c]) + 1] = x
    BY <1>0, AppendIs
  <1>2. \A m : /\ Talk!Has(c, Talk!Assistant(m)) => Talk!Has(c, Talk!Assistant(m))'
               /\ Talk!Has(c, Talk!Completed(m)) => Talk!Has(c, Talk!Completed(m))'
    BY HasStays DEF Talk!Assistant, Talk!Completed
  <1>3. Exchanged(c)'
    <2>1. \A k \in DOMAIN exchanges'[c] : exchanges'[c][k] = x \/ (k \in DOMAIN exchanges[c])
      BY <1>1
    <2>2. \A k \in DOMAIN exchanges'[c] : Talk!Has(c, Talk!Assistant(exchanges'[c][k].output))
      BY <1>1, <2>1 DEF Exchanged
    <2>3. \A m : Talk!Has(c, Talk!Assistant(m)) => Talk!Has(c, Talk!Assistant(m))'
      BY <1>2
    <2>4. (\A k \in DOMAIN exchanges[c] : Talk!Has(c, Talk!Assistant(exchanges[c][k].output)))'
      <3> SUFFICES ASSUME NEW k \in DOMAIN exchanges'[c]
                   PROVE  Talk!Has(c, Talk!Assistant(exchanges[c][k].output))'
        OBVIOUS
      <3>1. PICK m : m = exchanges'[c][k].output
        OBVIOUS
      <3>2. Talk!Has(c, Talk!Assistant(m))'
        BY <2>2, <2>3, <3>1
      <3> QED
        BY <3>1, <3>2
    <2>5. \A k, n \in DOMAIN exchanges'[c] : exchanges'[c][k].output = exchanges'[c][n].output => k = n
      BY <1>1 DEF Exchanged
    <2> QED
      BY <2>4, <2>5 DEF Exchanged
  <1>4. Backed(c)'
    BY <1>1, <1>2 DEF Backed
  <1> QED
    BY <1>1, <1>3, <1>4

\* An attempt more, that is not completed, or the last one closed.
LEMMA AttemptBacked ==
    ASSUME TalkInv, Talk!Next, NEW c \in Rooms, Exchanged(c), Backed(c), NEW a \in Talk!Attempt,
           Closed(attempts[c], attempts'[c], a) \/ attempts'[c] = Append(attempts[c], a),
           attempts'[c] \in Seq(Talk!Attempt), exchanges'[c] = exchanges[c],
           a.status = "Completed" =>
               /\ \E k \in DOMAIN exchanges[c] : /\ exchanges[c][k].input = a.input
                                                 /\ exchanges[c][k].output = a.output
               /\ Talk!Has(c, Talk!Completed(a.output))
    PROVE  Exchanged(c)' /\ Backed(c)'
  <1>0. attempts[c] \in Seq(Talk!Attempt)
    BY DEF TalkInv, Talk!TypeOK, Rooms
  <1>1. \A i \in DOMAIN attempts'[c] :
            attempts'[c][i] = a \/ (i \in DOMAIN attempts[c] /\ attempts'[c][i] = attempts[c][i])
    <2>1. CASE attempts'[c] = Append(attempts[c], a)
      BY <1>0, <2>1, AppendIs
    <2>2. CASE Closed(attempts[c], attempts'[c], a)
      BY <1>0, <2>2, LenProperties DEF Closed
    <2> QED
      BY <2>1, <2>2
  <1>2. \A m : /\ Talk!Has(c, Talk!Assistant(m)) => Talk!Has(c, Talk!Assistant(m))'
               /\ Talk!Has(c, Talk!Completed(m)) => Talk!Has(c, Talk!Completed(m))'
    BY HasStays DEF Talk!Assistant, Talk!Completed
  <1>3. Exchanged(c)'
    BY <1>2 DEF Exchanged
  <1>4. Backed(c)'
    <2> SUFFICES ASSUME NEW i \in DOMAIN attempts'[c], attempts'[c][i].status = "Completed"
                 PROVE  /\ \E k \in DOMAIN exchanges'[c] :
                               /\ exchanges'[c][k].input = attempts'[c][i].input
                               /\ exchanges'[c][k].output = attempts'[c][i].output
                        /\ Talk!Has(c, Talk!Completed(attempts[c][i].output))'
      BY DEF Backed
    <2>1. PICK b : /\ b = attempts'[c][i]
                   /\ \E k \in DOMAIN exchanges[c] : /\ exchanges[c][k].input = b.input
                                                     /\ exchanges[c][k].output = b.output
                   /\ Talk!Has(c, Talk!Completed(b.output))
      BY <1>1 DEF Backed
    <2>2. Talk!Has(c, Talk!Completed(b.output))'
      BY <1>2, <2>1
    <2> QED
      BY <2>1, <2>2
  <1> QED
    BY <1>3, <1>4

\* A step before anything is recorded of an answer, or of a call that leaves off there.
Late == turn # Talk!Idle /\ \/ turn.pc \in {"completeOutput", "exchange", "close"}
                            \/ turn.pc = "provider" /\ turn.op = "route"
Aside ==
    /\ ~Late /\ ~Late'
    /\ UNCHANGED <<attempts, exchanges, routed>> /\ used'.stops = used.stops
    /\ turn.pc # "provider" \/ UNCHANGED <<events>>

\* These are the steps by which a call begins, writes its input, or leaves off.
LEMMA AsideIs ==
    ASSUME TalkInv,
           \/ Talk!BeginConversation \/ Talk!LinkWork \/ Talk!PostInput \/ Talk!CompleteInput
           \/ Talk!TurnAway \/ Talk!LeaveUnsent
           \/ \E c \in Rooms :
                  \/ \E pc \in {"begin", "beginLinked"} : Talk!Create(c, pc)
                  \/ Talk!Send(c) \/ Talk!Retry(c) \/ Talk!Route(c)
    PROVE  Aside
  <1>0. used \in [calls : Nat, stops : Nat, steps : Nat]
    BY DEF TalkInv, Talk!TypeOK
  <1>1. CASE Talk!TurnAway \/ Talk!LeaveUnsent
    <2>1. /\ turn.pc \in {"attempt", "provider"} /\ turn' = Talk!Idle
          /\ turn.pc = "provider" => turn.op \in {"send", "retry"}
          /\ UNCHANGED <<events, attempts, exchanges, routed, used>>
      BY <1>1 DEF Talk!TurnAway, Talk!LeaveUnsent, Talk!At, Talk!Chatting, Talk!Return
    <2> QED
      BY <2>1 DEF Aside, Late
  <1>2. CASE Talk!BeginConversation \/ Talk!LinkWork \/ Talk!PostInput \/ Talk!CompleteInput
    <2>1. turn.pc \in {"begin", "beginLinked", "link", "post", "completeInput"}
      BY <1>2 DEF Talk!BeginConversation, Talk!LinkWork, Talk!PostInput, Talk!CompleteInput, Talk!At
    <2>2. turn \in Turn /\ turn.c \in Rooms
      BY <2>1, AtWork DEF TalkInv
    <2>3. turn' = Talk!Idle \/ turn'.pc \in {"link", "post", "completeInput", "file", "attempt"}
      BY <1>2, <2>2 DEF Talk!BeginConversation, Talk!LinkWork, Talk!PostInput,
           Talk!CompleteInput, Talk!Opened, Talk!Goto, Talk!Return, Turn
    <2>4. used'.stops = used.stops /\ UNCHANGED <<attempts, exchanges, routed>>
      <3>1. TalkInv /\ Talk!Next
        BY <1>2 DEF Talk!Next
      <3>2. \E e : Talk!AppendEvent(turn.c, e) /\ UNCHANGED <<attempts, exchanges, routed>>
        BY <1>2 DEF Talk!BeginConversation, Talk!LinkWork, Talk!PostInput, Talk!CompleteInput
      <3>3. \A e : Talk!AppendEvent(turn.c, e) => used'.stops = used.stops
        BY <1>0 DEF Talk!AppendEvent
      <3> QED
        BY <3>2, <3>3
    <2> QED
      BY <2>1, <2>3, <2>4 DEF Aside, Late
  <1>3. ASSUME NEW c \in Rooms,
               \/ \E pc \in {"begin", "beginLinked"} : Talk!Create(c, pc)
               \/ Talk!Send(c) \/ Talk!Retry(c) \/ Talk!Route(c)
        PROVE  Aside
    <2>1. /\ turn = Talk!Idle /\ UNCHANGED <<attempts, exchanges, routed>>
          /\ used' = [used EXCEPT !.calls = @ + 1]
      BY <1>3 DEF Talk!Create, Talk!Send, Talk!Retry, Talk!Route, Talk!Begin
    <2>2. turn'.pc \in {"begin", "beginLinked", "link", "post", "attempt"}
      BY <1>3 DEF Talk!Create, Talk!Send, Talk!Retry, Talk!Route, Talk!Begin, Talk!Idle
    <2>3. used'.stops = used.stops
      BY <1>0, <2>1
    <2>4. turn.pc # "provider"
      BY <2>1 DEF Talk!Idle
    <2> QED
      BY <2>1, <2>2, <2>3, <2>4 DEF Aside, Late
  <1> QED
    BY <1>1, <1>2, <1>3

\* What the other steps do to the call.
LEMMA Onward ==
    ASSUME TalkInv, NEW pc \in {"provider", "exchange", "close"},
           turn.pc # "idle", turn' = [turn EXCEPT !.pc = pc]
    PROVE  /\ turn'.c = turn.c /\ turn'.op = turn.op /\ turn'.pc = pc /\ turn'.input = turn.input
           /\ turn'.output = turn.output /\ turn'.outcome = turn.outcome /\ turn' # Talk!Idle
  <1>1. turn \in Turn
    BY AtWork DEF TalkInv
  <1> QED
    BY <1>1 DEF Turn, Talk!Idle

\* PostOutput writes the answer under a number of its own.
LEMMA AnswerPosted ==
    ASSUME TalkInv, NEW outcome \in Statuses, Talk!PostOutput(outcome)
    PROVE  /\ turn.pc = "provider" /\ turn \in Turn /\ turn.c \in Rooms /\ turn # Talk!Idle
           /\ UNCHANGED <<attempts, exchanges, routed>> /\ used'.stops = used.stops
           /\ turn'.c = turn.c /\ turn'.op = turn.op /\ turn'.pc = "completeOutput"
           /\ turn'.input = turn.input /\ turn'.output = Talk!Fresh(turn.c)
           /\ turn'.outcome = outcome /\ turn' # Talk!Idle
           /\ Talk!AppendEvent(turn.c, Talk!Assistant(Talk!Fresh(turn.c)))
           /\ Talk!Assistant(Talk!Fresh(turn.c)) \in Talk!Event
  <1>0. used \in [calls : Nat, stops : Nat, steps : Nat]
    BY DEF TalkInv, Talk!TypeOK
  <1>1. /\ UNCHANGED <<attempts, exchanges, routed>> /\ turn.pc = "provider"
        /\ turn' = [turn EXCEPT !.pc = "completeOutput", !.output = Talk!Fresh(turn.c),
                                !.outcome = outcome]
        /\ Talk!AppendEvent(turn.c, Talk!Assistant(Talk!Fresh(turn.c)))
    BY DEF Talk!PostOutput, Talk!At
  <1>2. turn \in Turn /\ turn.c \in Rooms /\ turn # Talk!Idle
    BY <1>1, AtWork DEF TalkInv
  <1>3. /\ turn'.c = turn.c /\ turn'.op = turn.op /\ turn'.pc = "completeOutput"
        /\ turn'.input = turn.input /\ turn'.output = Talk!Fresh(turn.c)
        /\ turn'.outcome = outcome /\ turn' # Talk!Idle
    BY <1>1, <1>2 DEF Turn, Talk!Idle
  <1>4. \A e : Talk!AppendEvent(turn.c, e) => used'.stops = used.stops
    BY <1>0 DEF Talk!AppendEvent
  <1>5. Talk!Assistant(Talk!Fresh(turn.c)) \in Talk!Event
    <2>1. Talk!Fresh(turn.c) \in Nat
      BY <1>2, FreshIs DEF TalkInv
    <2> QED
      BY <2>1 DEF Talk!Assistant, Talk!Event
  <1> QED
    BY <1>1, <1>2, <1>3, <1>4, <1>5

\* RecordExchange adds an exchange of the messages of the call.
LEMMA ExchangeRecorded ==
    ASSUME TalkInv, Talk!RecordExchange
    PROVE  /\ turn.pc = "exchange" /\ turn \in Turn /\ turn.c \in Rooms /\ turn # Talk!Idle
           /\ turn.outcome \in Statuses /\ Talk!Has(turn.c, Talk!Assistant(turn.output))
           /\ UNCHANGED <<events, attempts, routed, used>>
           /\ turn'.c = turn.c /\ turn'.op = turn.op /\ turn'.pc = "close"
           /\ turn'.input = turn.input /\ turn'.output = turn.output
           /\ turn'.outcome = turn.outcome /\ turn' # Talk!Idle
           /\ \E x \in Talk!Exchange :
                  /\ x.input = turn.input /\ x.output = turn.output /\ x.status = turn.outcome
                  /\ exchanges'[turn.c] = Append(exchanges[turn.c], x)
                  /\ \A d \in Rooms : d # turn.c => exchanges'[d] = exchanges[d]
  <1> DEFINE x == [input |-> turn.input, output |-> turn.output, status |-> turn.outcome]
  <1>1. /\ turn.pc = "exchange" /\ turn' = [turn EXCEPT !.pc = "close"]
        /\ exchanges' = [exchanges EXCEPT ![turn.c] = Append(@, x)]
        /\ UNCHANGED <<events, attempts, routed, used>>
    BY DEF Talk!RecordExchange, Talk!At, Talk!Goto
  <1>2. turn \in Turn /\ turn.c \in Rooms /\ turn # Talk!Idle
    BY <1>1, AtWork DEF TalkInv
  <1>3. turn.outcome \in Statuses /\ Talk!Has(turn.c, Talk!Assistant(turn.output))
    <2>1. Posted(turn.c)
      BY <1>2 DEF TalkInv
    <2> QED
      BY <1>1, <1>2, <2>1 DEF Posted, Reached
  <1>4. x \in Talk!Exchange
    BY <1>2, <1>3 DEF Talk!Exchange, Turn, Statuses
  <1>5. /\ exchanges'[turn.c] = Append(exchanges[turn.c], x)
        /\ \A d \in Rooms : d # turn.c => exchanges'[d] = exchanges[d]
    <2>1. exchanges \in [Rooms -> Seq(Talk!Exchange)]
      BY DEF TalkInv, Talk!TypeOK, Rooms
    <2> HIDE DEF x
    <2> QED
      BY <1>1, <1>2, <2>1
  <1>6. /\ turn'.c = turn.c /\ turn'.op = turn.op /\ turn'.pc = "close"
        /\ turn'.input = turn.input /\ turn'.output = turn.output
        /\ turn'.outcome = turn.outcome /\ turn' # Talk!Idle
    BY <1>1, Onward
  <1>7. x.input = turn.input /\ x.output = turn.output /\ x.status = turn.outcome
    OBVIOUS
  <1> HIDE DEF x
  <1> QED
    BY <1>1, <1>2, <1>3, <1>4, <1>5, <1>6, <1>7

\* RecordAttempt adds an attempt to answer what the call is about.
LEMMA AttemptRecorded ==
    ASSUME TalkInv, Talk!RecordAttempt
    PROVE  /\ turn.pc = "attempt" /\ turn \in Turn /\ turn.c \in Rooms /\ turn # Talk!Idle
           /\ turn.op \in {"send", "retry"}
           /\ UNCHANGED <<events, exchanges, routed, used>>
           /\ turn'.c = turn.c /\ turn'.op = turn.op /\ turn'.pc = "provider"
           /\ turn'.input = turn.input /\ turn' # Talk!Idle
           /\ \E a \in Talk!Attempt :
                  /\ a.status = "Started" /\ a.input = turn.input
                  /\ attempts'[turn.c] = Append(attempts[turn.c], a)
                  /\ \A d \in Rooms : d # turn.c => attempts'[d] = attempts[d]
  <1> DEFINE a == [status |-> "Started", input |-> turn.input, output |-> 0]
  <1>1. /\ turn.pc = "attempt" /\ UNCHANGED <<events, exchanges, routed, used>>
        /\ attempts' = [attempts EXCEPT ![turn.c] = Append(@, a)]
    BY DEF Talk!RecordAttempt, Talk!At
  <1>2. turn \in Turn /\ turn.c \in Rooms /\ turn # Talk!Idle
    BY <1>1, AtWork DEF TalkInv
  <1>3. turn.op \in {"send", "retry"}
    BY <1>1, <1>2 DEF TalkInv, Staged, Turn
  <1>4. a \in Talk!Attempt /\ a.status = "Started" /\ a.input = turn.input
    BY <1>2 DEF Talk!Attempt, Talk!AttemptStatus, Turn
  <1>5. /\ attempts'[turn.c] = Append(attempts[turn.c], a)
        /\ \A d \in Rooms : d # turn.c => attempts'[d] = attempts[d]
    <2>1. attempts \in [Rooms -> Seq(Talk!Attempt)]
      BY DEF TalkInv, Talk!TypeOK, Rooms
    <2> HIDE DEF a
    <2> QED
      BY <1>1, <1>2, <2>1
  <1>6. /\ turn'.c = turn.c /\ turn'.op = turn.op /\ turn'.pc = "provider"
        /\ turn'.input = turn.input /\ turn' # Talk!Idle
    <2>1. PICK shown : turn' = [turn EXCEPT !.pc = "provider", !.shown = shown]
      BY DEF Talk!RecordAttempt
    <2> QED
      BY <1>2, <2>1 DEF Turn, Talk!Idle
  <1> HIDE DEF a
  <1> QED
    BY <1>1, <1>2, <1>3, <1>4, <1>5, <1>6

\* FailAttempt and CloseAttempt replace that attempt, which is the last one.
LEMMA AttemptClosed ==
    ASSUME TalkInv, Talk!FailAttempt \/ Talk!CloseAttempt
    PROVE  /\ turn \in Turn /\ turn.c \in Rooms /\ turn # Talk!Idle
           /\ turn.op \in {"send", "retry"} /\ turn' = Talk!Idle
           /\ Talk!FailAttempt => turn.pc = "provider"
           /\ Talk!CloseAttempt => turn.pc = "close"
           /\ UNCHANGED <<events, exchanges, routed, used>>
           /\ attempts[turn.c] # <<>>
           /\ attempts[turn.c][Len(attempts[turn.c])].status = "Started"
           /\ attempts' \in [Rooms -> Seq(Talk!Attempt)]
           /\ \A d \in Rooms : d # turn.c => attempts'[d] = attempts[d]
           /\ \E a \in Talk!Attempt :
                  /\ a.input = turn.input
                  /\ Talk!FailAttempt => a.status = "Failed"
                  /\ Talk!CloseAttempt => a.status = "Completed" /\ a.output = turn.output
                  /\ Closed(attempts[turn.c], attempts'[turn.c], a)
  <1>1. /\ turn.pc \in {"provider", "close"} /\ turn.op \in {"send", "retry"}
        /\ turn' = Talk!Idle /\ UNCHANGED <<events, exchanges, routed, used>>
        /\ Talk!FailAttempt => turn.pc = "provider"
        /\ Talk!CloseAttempt => turn.pc = "close"
    BY DEF Talk!FailAttempt, Talk!CloseAttempt, Talk!At, Talk!Chatting, Talk!Return
  <1>2. turn.c \in Rooms /\ turn \in Turn /\ turn # Talk!Idle
    BY <1>1, AtWork DEF TalkInv
  <1> DEFINE s == attempts[turn.c]
             last == s[Len(s)]
  <1>3. attempts \in [Rooms -> Seq(Talk!Attempt)]
    BY DEF TalkInv, Talk!TypeOK, Rooms
  <1>4. s \in Seq(Talk!Attempt) /\ s # <<>> /\ last.status = "Started" /\ last.input = turn.input
    <2>1. Placed(turn.c)
      BY <1>2 DEF TalkInv
    <2> QED
      BY <1>1, <1>2, <1>3, <2>1 DEF Placed, Talking, Reached
  <1>5. last \in Talk!Attempt
    BY <1>4, EmptySeq, ElementOfSeq
  <1>6. \E a \in Talk!Attempt :
            /\ a.input = turn.input
            /\ Talk!FailAttempt => a.status = "Failed"
            /\ Talk!CloseAttempt => a.status = "Completed" /\ a.output = turn.output
            /\ attempts' = [attempts EXCEPT ![turn.c] = [s EXCEPT ![Len(s)] = a]]
    <2>1. CASE Talk!FailAttempt
      <3> DEFINE a == [last EXCEPT !.status = "Failed"]
      <3>1. a \in Talk!Attempt /\ a.status = "Failed" /\ a.input = turn.input
        BY <1>4, <1>5 DEF Talk!Attempt, Talk!AttemptStatus
      <3>2. attempts' = [attempts EXCEPT ![turn.c] = [s EXCEPT ![Len(s)] = a]]
        BY <2>1 DEF Talk!FailAttempt, Talk!Latest
      <3>3. ~Talk!CloseAttempt
        BY <1>1, <2>1 DEF Talk!CloseAttempt, Talk!At
      <3> QED
        BY <3>1, <3>2, <3>3
    <2>2. CASE Talk!CloseAttempt
      <3> DEFINE a == [last EXCEPT !.status = "Completed", !.output = turn.output]
      <3>1. a \in Talk!Attempt /\ a.status = "Completed" /\ a.input = turn.input
            /\ a.output = turn.output
        BY <1>2, <1>4, <1>5 DEF Talk!Attempt, Talk!AttemptStatus, Turn
      <3>2. attempts' = [attempts EXCEPT ![turn.c] = [s EXCEPT ![Len(s)] = a]]
        BY <2>2 DEF Talk!CloseAttempt, Talk!Latest
      <3>3. ~Talk!FailAttempt
        BY <1>1, <2>2 DEF Talk!FailAttempt, Talk!At
      <3> QED
        BY <3>1, <3>2, <3>3
    <2> QED
      BY <2>1, <2>2
  <1>7. PICK a \in Talk!Attempt :
            /\ a.input = turn.input
            /\ Talk!FailAttempt => a.status = "Failed"
            /\ Talk!CloseAttempt => a.status = "Completed" /\ a.output = turn.output
            /\ attempts' = [attempts EXCEPT ![turn.c] = [s EXCEPT ![Len(s)] = a]]
    BY <1>6
  <1>8. [s EXCEPT ![Len(s)] = a] \in Seq(Talk!Attempt) /\ Closed(s, [s EXCEPT ![Len(s)] = a], a)
    <2> HIDE DEF s
    <2> QED
      BY <1>4, CloseIs
  <1>9. /\ attempts'[turn.c] = [s EXCEPT ![Len(s)] = a]
        /\ attempts' \in [Rooms -> Seq(Talk!Attempt)]
        /\ \A d \in Rooms : d # turn.c => attempts'[d] = attempts[d]
    <2> HIDE DEF s
    <2> QED
      BY <1>2, <1>3, <1>7, <1>8
  <1> QED
    BY <1>1, <1>2, <1>4, <1>7, <1>8, <1>9

\* FileMessage adds a place for the result.
LEMMA MessageFiled ==
    ASSUME TalkInv, Talk!FileMessage
    PROVE  /\ turn.pc = "file" /\ turn \in Turn /\ turn.c \in Rooms /\ turn # Talk!Idle
           /\ turn.op = "route"
           /\ UNCHANGED <<events, attempts, exchanges, used>>
           /\ turn'.c = turn.c /\ turn'.op = turn.op /\ turn'.pc = "provider" /\ turn' # Talk!Idle
           /\ turn'.input = turn.input
           /\ routed'[turn.c] = Append(routed[turn.c], "none")
           /\ \A d \in Rooms : d # turn.c => routed'[d] = routed[d]
  <1>1. /\ turn.pc = "file" /\ turn' = [turn EXCEPT !.pc = "provider"]
        /\ routed' = [routed EXCEPT ![turn.c] = Append(@, "none")]
        /\ UNCHANGED <<events, attempts, exchanges, used>>
    BY DEF Talk!FileMessage, Talk!At, Talk!Goto
  <1>2. turn \in Turn /\ turn.c \in Rooms /\ turn # Talk!Idle
    BY <1>1, AtWork DEF TalkInv
  <1>3. turn.op = "route"
    BY <1>1, <1>2 DEF TalkInv, Staged, Turn
  <1>4. routed'[turn.c] = Append(routed[turn.c], "none")
        /\ \A d \in Rooms : d # turn.c => routed'[d] = routed[d]
    BY <1>1, <1>2 DEF TalkInv, Talk!TypeOK, Rooms
  <1> QED
    BY <1>1, <1>2, <1>3, <1>4, Onward

\* FileResult fills that place, which is the last one.
LEMMA ResultFiled ==
    ASSUME TalkInv, Talk!FileResult
    PROVE  /\ turn.pc = "close" /\ turn \in Turn /\ turn.c \in Rooms /\ turn # Talk!Idle
           /\ turn.op = "route" /\ turn.outcome \in Statuses /\ turn' = Talk!Idle
           /\ UNCHANGED <<events, attempts, exchanges, used>>
           /\ routed[turn.c][Len(routed[turn.c])] = "none"
           /\ routed' \in [Rooms -> Seq(Statuses \cup {"none"})]
           /\ Closed(routed[turn.c], routed'[turn.c], turn.outcome)
           /\ \A d \in Rooms : d # turn.c => routed'[d] = routed[d]
  <1>1. /\ turn.pc = "close" /\ turn.op = "route" /\ UNCHANGED <<events, attempts, exchanges, used>>
        /\ turn' = Talk!Idle
        /\ routed' = [routed EXCEPT ![turn.c][Len(routed[turn.c])] = turn.outcome]
    BY DEF Talk!FileResult, Talk!At, Talk!Return
  <1>2. turn.c \in Rooms /\ turn \in Turn /\ turn # Talk!Idle
    BY <1>1, AtWork DEF TalkInv
  <1> DEFINE s == routed[turn.c]
  <1>3. routed \in [Rooms -> Seq(Statuses \cup {"none"})]
    BY DEF TalkInv, Talk!TypeOK, Rooms, Statuses
  <1>4. s \in Seq(Statuses \cup {"none"}) /\ s # <<>> /\ s[Len(s)] = "none" /\ turn.outcome \in Statuses
    <2>1. Placed(turn.c) /\ Posted(turn.c)
      BY <1>2 DEF TalkInv
    <2> QED
      BY <1>1, <1>2, <1>3, <2>1 DEF Placed, Posted, Routing, Reached
  <1>5. routed' = [routed EXCEPT ![turn.c] = [s EXCEPT ![Len(s)] = turn.outcome]]
    BY <1>1
  <1>6. /\ [s EXCEPT ![Len(s)] = turn.outcome] \in Seq(Statuses \cup {"none"})
        /\ Closed(s, [s EXCEPT ![Len(s)] = turn.outcome], turn.outcome)
    <2> HIDE DEF s
    <2> QED
      BY <1>4, CloseIs
  <1>7. /\ routed'[turn.c] = [s EXCEPT ![Len(s)] = turn.outcome]
        /\ routed' \in [Rooms -> Seq(Statuses \cup {"none"})]
        /\ \A d \in Rooms : d # turn.c => routed'[d] = routed[d]
    <2> HIDE DEF s
    <2> QED
      BY <1>2, <1>3, <1>5, <1>6
  <1> QED
    BY <1>1, <1>2, <1>4, <1>6, <1>7

\* Exchanges and completed attempts stay backed, and the call's exchange is its own.
LEMMA BackedStep ==
    ASSUME TalkInv, Talk!Next,
           \A c \in Rooms : Numbered(events[c]) /\ Recorded(c) /\ Exchanged(c) /\ Backed(c)
    PROVE  \A c \in Rooms : Recorded(c)' /\ Exchanged(c)' /\ Backed(c)'
  <1>1. CASE Aside
    <2>1. \A c \in Rooms : Recorded(c)'
      BY <1>1 DEF Aside, Late, Recorded, Reached
    <2> QED
      BY <1>1, <2>1, SameRecords DEF Aside
  <1>2. CASE Talk!Stop
    <2>1. turn' = Talk!Idle /\ UNCHANGED <<attempts, exchanges>>
      BY <1>2 DEF Talk!Stop, Talk!Return
    <2>2. \A c \in Rooms : Recorded(c)'
      BY <2>1 DEF Recorded, Reached
    <2> QED
      BY <2>1, <2>2, SameRecords
  <1>3. CASE Talk!FileMessage
    <2>1. \A c \in Rooms : Recorded(c)'
      BY <1>3, MessageFiled DEF Recorded, Reached
    <2> QED
      BY <1>3, <2>1, MessageFiled, SameRecords
  <1>4. CASE Talk!FileResult
    <2>1. \A c \in Rooms : Recorded(c)'
      BY <1>4, ResultFiled DEF Recorded, Reached
    <2> QED
      BY <1>4, <2>1, ResultFiled, SameRecords
  <1>5. ASSUME NEW outcome \in Statuses, Talk!PostOutput(outcome)
        PROVE  \A c \in Rooms : Recorded(c)' /\ Exchanged(c)' /\ Backed(c)'
    <2>1. \A k \in DOMAIN exchanges[turn.c] : exchanges[turn.c][k].output # Talk!Fresh(turn.c)
      BY <1>5, AnswerPosted, NewAnswer DEF Exchanged
    <2>2. \A c \in Rooms : Recorded(c)'
      BY <1>5, <2>1, AnswerPosted DEF Recorded, Reached
    <2> QED
      BY <1>5, <2>2, AnswerPosted, SameRecords
  <1>6. CASE Talk!CompleteOutput
    <2>1. /\ UNCHANGED <<attempts, exchanges>> /\ turn.pc = "completeOutput"
          /\ turn' = [turn EXCEPT !.pc = "exchange"]
      BY <1>6 DEF Talk!CompleteOutput, Talk!At, Talk!Goto, Talk!AfterOutput
    <2>2. turn.c \in Rooms /\ turn # Talk!Idle
      BY <2>1, AtWork DEF TalkInv
    <2>3. turn'.c = turn.c /\ turn'.pc = "exchange" /\ turn'.output = turn.output
      BY <2>1, Onward
    <2>4. \A k \in DOMAIN exchanges[turn.c] : exchanges[turn.c][k].output # turn.output
      BY <2>1, <2>2 DEF Recorded, Reached
    <2>5. \A c \in Rooms : Recorded(c)'
      BY <2>1, <2>3, <2>4 DEF Recorded, Reached
    <2> QED
      BY <2>1, <2>5, SameRecords
  <1>7. CASE Talk!RecordExchange
    <2>1. PICK x \in Talk!Exchange :
              /\ x.input = turn.input /\ x.output = turn.output
              /\ exchanges'[turn.c] = Append(exchanges[turn.c], x)
              /\ \A d \in Rooms : d # turn.c => exchanges'[d] = exchanges[d]
      BY <1>7, ExchangeRecorded
    <2>2. PICK c \in Rooms : c = turn.c
      BY <1>7, ExchangeRecorded
    <2>3. /\ turn.pc = "exchange" /\ turn # Talk!Idle /\ UNCHANGED attempts
          /\ Talk!Has(c, Talk!Assistant(x.output))
          /\ turn'.c = c /\ turn'.pc = "close" /\ turn'.input = x.input /\ turn'.output = x.output
      BY <1>7, <2>1, <2>2, ExchangeRecorded
    <2>4. \A k \in DOMAIN exchanges[c] : exchanges[c][k].output # x.output
      BY <2>1, <2>2, <2>3 DEF Recorded, Reached
    <2>5. /\ Exchanged(c)' /\ Backed(c)'
          /\ \E k \in DOMAIN exchanges'[c] : exchanges'[c][k].input = x.input
                                             /\ exchanges'[c][k].output = x.output
      BY <2>1, <2>2, <2>3, <2>4, ExchangeBacked
    <2>6. \A d \in Rooms : Recorded(d)'
      BY <2>3, <2>5 DEF Recorded, Reached
    <2>7. \A d \in Rooms : d # c => Exchanged(d)' /\ Backed(d)'
      BY <2>1, <2>2, <2>3, SameRecords
    <2> QED
      BY <2>5, <2>6, <2>7
  <1>8. CASE Talk!RecordAttempt
    <2>1. PICK a \in Talk!Attempt :
              /\ a.status = "Started" /\ attempts'[turn.c] = Append(attempts[turn.c], a)
              /\ \A d \in Rooms : d # turn.c => attempts'[d] = attempts[d]
      BY <1>8, AttemptRecorded
    <2>2. PICK c \in Rooms : c = turn.c
      BY <1>8, AttemptRecorded
    <2>3. attempts[c] \in Seq(Talk!Attempt) /\ UNCHANGED exchanges /\ turn'.pc = "provider"
      BY <1>8, AttemptRecorded DEF TalkInv, Talk!TypeOK, Rooms
    <2>4. attempts'[c] \in Seq(Talk!Attempt)
      <3>1. attempts'[c] = Append(attempts[c], a)
        BY <2>1, <2>2
      <3>2. Append(attempts[c], a) \in Seq(Talk!Attempt)
        BY <2>3, AppendIs
      <3> QED
        BY <3>1, <3>2
    <2>5. Exchanged(c)' /\ Backed(c)'
      BY <2>1, <2>2, <2>3, <2>4, AttemptBacked
    <2>6. \A d \in Rooms : Recorded(d)'
      BY <2>3 DEF Recorded, Reached
    <2>7. \A d \in Rooms : d # c => Exchanged(d)' /\ Backed(d)'
      BY <2>1, <2>2, <2>3, SameRecords
    <2> QED
      BY <2>5, <2>6, <2>7
  <1>9. CASE Talk!FailAttempt \/ Talk!CloseAttempt
    <2>1. PICK a \in Talk!Attempt :
              /\ a.input = turn.input
              /\ Talk!FailAttempt => a.status = "Failed"
              /\ Talk!CloseAttempt => a.status = "Completed" /\ a.output = turn.output
              /\ Closed(attempts[turn.c], attempts'[turn.c], a)
      BY <1>9, AttemptClosed
    <2>2. PICK c \in Rooms : c = turn.c
      BY <1>9, AttemptClosed
    <2>3. /\ attempts'[c] \in Seq(Talk!Attempt) /\ UNCHANGED exchanges /\ turn' = Talk!Idle
          /\ turn # Talk!Idle
          /\ \A d \in Rooms : d # turn.c => attempts'[d] = attempts[d]
      BY <1>9, AttemptClosed
    <2>4. a.status = "Completed" =>
               /\ \E k \in DOMAIN exchanges[c] : /\ exchanges[c][k].input = a.input
                                                 /\ exchanges[c][k].output = a.output
               /\ Talk!Has(c, Talk!Completed(a.output))
      <3> SUFFICES ASSUME a.status = "Completed"
                   PROVE  /\ \E k \in DOMAIN exchanges[c] : /\ exchanges[c][k].input = a.input
                                                            /\ exchanges[c][k].output = a.output
                          /\ Talk!Has(c, Talk!Completed(a.output))
        OBVIOUS
      <3>1. Talk!CloseAttempt /\ turn.pc = "close" /\ a.output = turn.output
        BY <1>9, <2>1, AttemptClosed
      <3>2. Posted(c) /\ Recorded(c)
        BY DEF TalkInv
      <3> QED
        BY <2>1, <2>2, <2>3, <3>1, <3>2 DEF Posted, Recorded, Reached
    <2>5. Exchanged(c)' /\ Backed(c)'
      BY <2>1, <2>2, <2>3, <2>4, AttemptBacked
    <2>6. \A d \in Rooms : Recorded(d)'
      BY <2>3 DEF Recorded, Reached
    <2>7. \A d \in Rooms : d # c => Exchanged(d)' /\ Backed(d)'
      BY <2>2, <2>3, SameRecords
    <2> QED
      BY <2>5, <2>6, <2>7
  <1> QED
    BY <1>1, <1>2, <1>3, <1>4, <1>5, <1>6, <1>7, <1>8, <1>9, AsideIs DEF Talk!Next, Rooms, Statuses

-----------------------------------------------------------------------------
(* Counting *)

\* The records of a status, and the results, are finitely many.
LEMMA WithCount ==
    ASSUME NEW S, NEW q \in Seq(S), NEW v
    PROVE  /\ IsFiniteSet(With(q, v)) /\ Cardinality(With(q, v)) \in Nat
           /\ IsFiniteSet(Of(q, v)) /\ Cardinality(Of(q, v)) \in Nat
  <1>1. /\ With(q, v) \subseteq 1 .. Len(q) /\ Of(q, v) \subseteq 1 .. Len(q) /\ Len(q) \in Nat
    BY LenProperties DEF With, Of
  <1>2. IsFiniteSet(1 .. Len(q))
    BY <1>1, FS_Interval
  <1> QED
    BY <1>1, <1>2, FS_Subset, FS_CardinalityType

\* A record more is one more of its status, and none of another.
LEMMA WithAppended ==
    ASSUME NEW S, NEW q \in Seq(S), NEW e \in S, NEW v
    PROVE  /\ e.status = v =>
                  Cardinality(With(Append(q, e), v)) = Cardinality(With(q, v)) + 1
           /\ e.status # v => Cardinality(With(Append(q, e), v)) = Cardinality(With(q, v))
  <1>0. Len(q) + 1 \notin DOMAIN q
    BY LenProperties
  <1>1. IsFiniteSet(With(q, v)) /\ Len(q) + 1 \notin With(q, v)
    BY <1>0, WithCount DEF With
  <1>2. e.status = v => With(Append(q, e), v) = With(q, v) \cup {Len(q) + 1}
    BY AppendIs DEF With
  <1>3. e.status # v => With(Append(q, e), v) = With(q, v)
    BY AppendIs DEF With
  <1> QED
    BY <1>1, <1>2, <1>3, FS_AddElement

\* So it is when the last record gets that status.
LEMMA WithClosed ==
    ASSUME NEW S, NEW q \in Seq(S), NEW t \in Seq(S), NEW e, Closed(q, t, e), NEW v,
           q[Len(q)].status # v
    PROVE  /\ e.status = v => Cardinality(With(t, v)) = Cardinality(With(q, v)) + 1
           /\ e.status # v => Cardinality(With(t, v)) = Cardinality(With(q, v))
  <1>1. IsFiniteSet(With(q, v)) /\ Len(q) \notin With(q, v)
    BY WithCount DEF With
  <1>2. Len(q) \in DOMAIN q /\ DOMAIN t = DOMAIN q
    BY EmptySeq, LenProperties DEF Closed
  <1>3. e.status = v => With(t, v) = With(q, v) \cup {Len(q)}
    BY <1>2 DEF With, Closed
  <1>4. e.status # v => With(t, v) = With(q, v)
    BY <1>2 DEF With, Closed
  <1> QED
    BY <1>1, <1>3, <1>4, FS_AddElement

\* A place without a result is none of a result.
LEMMA OfAppended ==
    ASSUME NEW S, NEW q \in Seq(S), NEW e \in S, NEW v, e # v
    PROVE  Of(Append(q, e), v) = Of(q, v)
  BY AppendIs DEF Of

\* A result more is one more of its kind, and none of another.
LEMMA OfClosed ==
    ASSUME NEW S, NEW q \in Seq(S), NEW t \in Seq(S), NEW e, Closed(q, t, e), NEW v,
           q[Len(q)] # v
    PROVE  /\ e = v => Cardinality(Of(t, v)) = Cardinality(Of(q, v)) + 1
           /\ e # v => Cardinality(Of(t, v)) = Cardinality(Of(q, v))
  <1>1. IsFiniteSet(Of(q, v)) /\ Len(q) \notin Of(q, v)
    BY WithCount DEF Of
  <1>2. Len(q) \in DOMAIN q /\ DOMAIN t = DOMAIN q
    BY EmptySeq, LenProperties DEF Closed
  <1>3. e = v => Of(t, v) = Of(q, v) \cup {Len(q)}
    BY <1>2 DEF Of, Closed
  <1>4. e # v => Of(t, v) = Of(q, v)
    BY <1>2 DEF Of, Closed
  <1> QED
    BY <1>1, <1>3, <1>4, FS_AddElement

\* A result is that of an exchange.
LEMMA FiledSame ==
    ASSUME TalkInv, NEW c \in Rooms, Filed(c), routed'[c] = routed[c], exchanges'[c] = exchanges[c],
           ~Routing(c, {"close"})'
    PROVE  Filed(c)'
  <1>1. routed[c] \in Seq(Statuses \cup {"none"}) /\ exchanges[c] \in Seq(Talk!Exchange)
    BY DEF TalkInv, Talk!TypeOK, Rooms, Statuses
  <1> SUFFICES ASSUME NEW s \in Statuses
               PROVE  Cardinality(Of(routed[c], s)) <= Cardinality(With(exchanges[c], s))
    BY <1>1, WithCount DEF Filed, Due
  <1>2. /\ Cardinality(Of(routed[c], s)) \in Nat /\ Cardinality(With(exchanges[c], s)) \in Nat
        /\ Due(c, s) \in {0, 1}
    BY <1>1, WithCount DEF Due
  <1> QED
    BY <1>2 DEF Filed

\* No step files a result without its exchange.
LEMMA FiledStep ==
    ASSUME TalkInv, Talk!Next, \A c \in Rooms : Filed(c)
    PROVE  \A c \in Rooms : Filed(c)'
  <1>0. /\ \A c \in Rooms : exchanges[c] \in Seq(Talk!Exchange)
        /\ \A c \in Rooms : routed[c] \in Seq(Statuses \cup {"none"})
    BY DEF TalkInv, Talk!TypeOK, Rooms, Statuses
  <1>1. CASE Aside
    <2>1. \A c \in Rooms : ~Routing(c, {"close"})'
      BY <1>1 DEF Aside, Late, Routing, Reached
    <2> QED
      BY <1>1, <2>1, FiledSame DEF Aside
  <1>2. CASE Talk!Stop
    <2>1. \A c \in Rooms : ~Routing(c, {"close"})'
      BY <1>2 DEF Talk!Stop, Talk!Return, Routing, Reached
    <2> QED
      BY <1>2, <2>1, FiledSame DEF Talk!Stop
  <1>3. CASE Talk!FileMessage
    <2>1. \A c \in Rooms : ~Routing(c, {"close"})'
      BY <1>3, MessageFiled DEF Routing, Reached
    <2>2. PICK c \in Rooms : c = turn.c
      BY <1>3, MessageFiled
    <2>3. \A d \in Rooms : d # c => Filed(d)'
      BY <1>3, <2>1, <2>2, MessageFiled, FiledSame
    <2>4. routed'[c] = Append(routed[c], "none") /\ UNCHANGED exchanges
      BY <1>3, <2>2, MessageFiled
    <2>5. Filed(c)'
      <3> SUFFICES ASSUME NEW s \in Statuses
                   PROVE  Cardinality(Of(routed'[c], s)) <= Cardinality(With(exchanges[c], s))
        <4>1. Append(routed[c], "none") \in Seq(Statuses \cup {"none"})
          BY <1>0, AppendIs
        <4>2. routed'[c] \in Seq(Statuses \cup {"none"}) /\ exchanges'[c] = exchanges[c]
          BY <2>4, <4>1
        <4> QED
          BY <1>0, <2>1, <4>2, WithCount DEF Filed, Due
      <3>1. s # "none"
        BY DEF Statuses, Talk!ResultStatus
      <3>2. Of(routed'[c], s) = Of(routed[c], s)
        BY <1>0, <2>4, <3>1, OfAppended
      <3>3. /\ Cardinality(Of(routed[c], s)) \in Nat /\ Cardinality(With(exchanges[c], s)) \in Nat
            /\ Due(c, s) \in {0, 1}
        BY <1>0, WithCount DEF Due
      <3> QED
        BY <3>2, <3>3 DEF Filed
    <2> QED
      BY <2>3, <2>5
  <1>4. CASE Talk!FileResult
    <2>1. \A c \in Rooms : ~Routing(c, {"close"})'
      BY <1>4, ResultFiled DEF Routing, Reached
    <2>2. PICK c \in Rooms : c = turn.c
      BY <1>4, ResultFiled
    <2>3. \A d \in Rooms : d # c => Filed(d)'
      BY <1>4, <2>1, <2>2, ResultFiled, FiledSame
    <2>4. /\ Closed(routed[c], routed'[c], turn.outcome) /\ UNCHANGED exchanges
          /\ routed'[c] \in Seq(Statuses \cup {"none"})
          /\ routed[c][Len(routed[c])] = "none"
      BY <1>4, <2>2, ResultFiled
    <2>5. Routing(c, {"close"})
      BY <1>4, <2>2, ResultFiled DEF Routing, Reached
    <2>6. Filed(c)'
      <3> SUFFICES ASSUME NEW s \in Statuses
                   PROVE  Cardinality(Of(routed'[c], s)) <= Cardinality(With(exchanges[c], s))
        BY <1>0, <2>1, <2>4, WithCount DEF Filed, Due
      <3>1. s # "none"
        BY DEF Statuses, Talk!ResultStatus
      <3>2. /\ turn.outcome = s => Cardinality(Of(routed'[c], s)) = Cardinality(Of(routed[c], s)) + 1
            /\ turn.outcome # s => Cardinality(Of(routed'[c], s)) = Cardinality(Of(routed[c], s))
        BY <1>0, <2>4, <3>1, OfClosed
      <3>3. /\ Cardinality(Of(routed[c], s)) \in Nat /\ Cardinality(With(exchanges[c], s)) \in Nat
        BY <1>0, WithCount
      <3>4. Cardinality(Of(routed[c], s)) + Due(c, s) <= Cardinality(With(exchanges[c], s))
        BY DEF Filed
      <3> QED
        BY <2>5, <3>2, <3>3, <3>4 DEF Due
    <2> QED
      BY <2>3, <2>6
  <1>5. ASSUME NEW outcome \in Statuses, Talk!PostOutput(outcome)
        PROVE  \A c \in Rooms : Filed(c)'
    <2>1. \A c \in Rooms : ~Routing(c, {"close"})'
      BY <1>5, AnswerPosted DEF Routing, Reached
    <2> QED
      BY <1>5, <2>1, AnswerPosted, FiledSame
  <1>6. CASE Talk!CompleteOutput
    <2>1. /\ UNCHANGED <<routed, exchanges>> /\ turn.pc = "completeOutput"
          /\ turn' = [turn EXCEPT !.pc = "exchange"]
      BY <1>6 DEF Talk!CompleteOutput, Talk!At, Talk!Goto, Talk!AfterOutput
    <2>2. \A c \in Rooms : ~Routing(c, {"close"})'
      BY <2>1, Onward DEF Routing, Reached
    <2> QED
      BY <2>1, <2>2, FiledSame
  <1>7. CASE Talk!RecordExchange
    <2>1. PICK c \in Rooms : c = turn.c
      BY <1>7, ExchangeRecorded
    <2>2. PICK x \in Talk!Exchange :
              /\ x.status = turn.outcome
              /\ exchanges'[c] = Append(exchanges[c], x)
              /\ \A d \in Rooms : d # c => exchanges'[d] = exchanges[d]
      BY <1>7, <2>1, ExchangeRecorded
    <2>3. /\ UNCHANGED routed /\ turn'.c = c /\ turn'.outcome = x.status
      BY <1>7, <2>1, <2>2, ExchangeRecorded
    <2>4. \A d \in Rooms : d # c => Filed(d)'
      <3>1. \A d \in Rooms : d # c => ~Routing(d, {"close"})'
        BY <2>3 DEF Routing, Reached
      <3> QED
        BY <2>2, <2>3, <3>1, FiledSame
    <2>5. Filed(c)'
      <3> SUFFICES ASSUME NEW s \in Statuses
                   PROVE  (Cardinality(Of(routed[c], s)) + Due(c, s) <=
                              Cardinality(With(exchanges[c], s)))'
        BY DEF Filed
      <3>1. /\ x.status = s => Cardinality(With(exchanges'[c], s)) = Cardinality(With(exchanges[c], s)) + 1
            /\ x.status # s => Cardinality(With(exchanges'[c], s)) = Cardinality(With(exchanges[c], s))
        BY <1>0, <2>2, WithAppended
      <3>2. /\ Cardinality(Of(routed[c], s)) \in Nat /\ Cardinality(With(exchanges[c], s)) \in Nat
            /\ Due(c, s) \in {0, 1}
        BY <1>0, WithCount DEF Due
      <3>3. Cardinality(Of(routed[c], s)) + Due(c, s) <= Cardinality(With(exchanges[c], s))
        BY DEF Filed
      <3>4. Due(c, s)' \in {0, 1} /\ (x.status # s => Due(c, s)' = 0)
        BY <2>3 DEF Due
      <3> QED
        BY <2>3, <3>1, <3>2, <3>3, <3>4
    <2> QED
      BY <2>4, <2>5
  <1>8. CASE Talk!RecordAttempt
    <2>1. \A c \in Rooms : ~Routing(c, {"close"})'
      BY <1>8, AttemptRecorded DEF Routing, Reached
    <2> QED
      BY <1>8, <2>1, AttemptRecorded, FiledSame
  <1>9. CASE Talk!FailAttempt \/ Talk!CloseAttempt
    <2>1. \A c \in Rooms : ~Routing(c, {"close"})'
      BY <1>9, AttemptClosed DEF Routing, Reached
    <2> QED
      BY <1>9, <2>1, AttemptClosed, FiledSame
  <1> QED
    BY <1>1, <1>2, <1>3, <1>4, <1>5, <1>6, <1>7, <1>8, <1>9, AsideIs DEF Talk!Next, Rooms, Statuses

-----------------------------------------------------------------------------
(* While no call stopped half way, everything is accounted for *)

\* A behaviour in which no call stopped half way has no Stop.
LEMMA NoStop ==
    ASSUME TalkInv, Talk!Next, used'.stops = 0
    PROVE  ~Talk!Stop /\ used.stops = 0
  <1>0. used \in [calls : Nat, stops : Nat, steps : Nat]
    BY DEF TalkInv, Talk!TypeOK
  <1>1. ~Talk!Stop
    <2>1. Talk!Stop => used'.stops = used.stops + 1
      BY <1>0 DEF Talk!Stop
    <2>2. used.stops \in Nat
      BY <1>0
    <2> QED
      BY <2>1, <2>2
  <1>2. CASE \E e \in Talk!Event : Writing(e)
    <2>1. \A e : Talk!AppendEvent(turn.c, e) => used'.stops = used.stops
      BY <1>0 DEF Talk!AppendEvent
    <2> QED
      BY <1>1, <1>2, <2>1 DEF Writing
  <1>3. CASE \/ Talk!BeginConversation \/ Talk!LinkWork \/ Talk!PostInput \/ Talk!CompleteInput
             \/ \E outcome \in Statuses : Talk!PostOutput(outcome)
             \/ Talk!CompleteOutput
    <2>1. \E e : Talk!AppendEvent(turn.c, e)
      BY <1>3 DEF Talk!BeginConversation, Talk!LinkWork, Talk!PostInput, Talk!CompleteInput,
           Talk!PostOutput, Talk!CompleteOutput
    <2>2. \A e : Talk!AppendEvent(turn.c, e) => used'.stops = used.stops
      BY <1>0 DEF Talk!AppendEvent
    <2> QED
      BY <1>1, <2>1, <2>2
  <1>4. CASE Aside
    BY <1>1, <1>4 DEF Aside
  <1>5. CASE \/ Talk!FileMessage \/ Talk!RecordAttempt \/ Talk!FailAttempt
             \/ Talk!RecordExchange \/ Talk!CloseAttempt \/ Talk!FileResult
    BY <1>1, <1>5 DEF Talk!FileMessage, Talk!RecordAttempt, Talk!FailAttempt,
         Talk!RecordExchange, Talk!CloseAttempt, Talk!FileResult
  <1> QED
    BY <1>1, <1>3, <1>4, <1>5, AsideIs DEF Talk!Next, Rooms, Statuses

\* The other steps add no answer.
LEMMA AnswersSame ==
    ASSUME TalkInv, Talk!Next, turn.pc # "provider" \/ UNCHANGED <<events>>, NEW c \in Rooms
    PROVE  Cardinality(Marks(events'[c], {"assistant"})) = Cardinality(Marks(events[c], {"assistant"}))
  <1>1. CASE UNCHANGED <<events>>
    BY <1>1
  <1>2. ASSUME turn.pc # "provider", NEW e \in Talk!Event, Writing(e)
        PROVE  Cardinality(Marks(events'[c], {"assistant"})) =
                   Cardinality(Marks(events[c], {"assistant"}))
    <2>1. turn.c \in Rooms /\ e.kind \notin {"assistant"}
      BY <1>2, AtWork DEF Writing, TalkInv
    <2>2. /\ events' \in [Rooms -> Seq(Talk!Event)]
          /\ \A d \in Rooms : d # turn.c => events'[d] = events[d]
          /\ \E i \in 1 .. Len(events[turn.c]) + 1 : Inserted(events[turn.c], events'[turn.c], i, e)
      BY <1>2, <2>1, Appended DEF Writing, TalkInv
    <2>3. CASE c # turn.c
      BY <2>2, <2>3
    <2>4. CASE c = turn.c
      <3> DEFINE s == events[c]
                 t == events'[c]
      <3>1. s \in Seq(Talk!Event) /\ t \in Seq(Talk!Event) /\ \E i : Inserted(s, t, i, e)
        BY <2>2, <2>4 DEF TalkInv, Talk!TypeOK, Rooms
      <3> HIDE DEF s, t
      <3>2. Cardinality(Marks(t, {"assistant"})) = Cardinality(Marks(s, {"assistant"}))
        BY <2>1, <3>1, CountInserted
      <3> QED
        BY <3>2 DEF s, t
    <2> QED
      BY <2>3, <2>4
  <1> QED
    BY <1>1, <1>2, WriteIs

\* An answer is one more.
LEMMA AnswersMore ==
    ASSUME TalkInv, NEW outcome \in Statuses, Talk!PostOutput(outcome), NEW c \in Rooms
    PROVE  Cardinality(Marks(events'[c], {"assistant"})) =
               Cardinality(Marks(events[c], {"assistant"})) + (IF c = turn.c THEN 1 ELSE 0)
  <1>0. Cardinality(Marks(events[c], {"assistant"})) \in Nat
    BY MarksCount DEF TalkInv, Talk!TypeOK, Rooms
  <1>1. PICK e \in Talk!Event : e.kind \in {"assistant"} /\ e.m # 0 /\ Talk!AppendEvent(turn.c, e)
    <2>1. /\ Talk!Assistant(Talk!Fresh(turn.c)) \in Talk!Event
          /\ Talk!AppendEvent(turn.c, Talk!Assistant(Talk!Fresh(turn.c)))
          /\ turn.c \in Rooms
      BY AnswerPosted
    <2>2. Talk!Fresh(turn.c) # 0
      BY <2>1, FreshIs DEF TalkInv
    <2> QED
      BY <2>1, <2>2 DEF Talk!Assistant
  <1>2. turn.c \in Rooms
    BY AnswerPosted
  <1>3. /\ events' \in [Rooms -> Seq(Talk!Event)]
        /\ \A d \in Rooms : d # turn.c => events'[d] = events[d]
        /\ \E i \in 1 .. Len(events[turn.c]) + 1 : Inserted(events[turn.c], events'[turn.c], i, e)
    BY <1>1, <1>2, Appended DEF TalkInv
  <1>4. CASE c # turn.c
    BY <1>0, <1>3, <1>4
  <1>5. CASE c = turn.c
    <2> DEFINE s == events[c]
               t == events'[c]
    <2>1. s \in Seq(Talk!Event) /\ t \in Seq(Talk!Event) /\ \E i : Inserted(s, t, i, e)
      BY <1>3, <1>5 DEF TalkInv, Talk!TypeOK, Rooms
    <2> HIDE DEF s, t
    <2>2. Cardinality(Marks(t, {"assistant"})) = Cardinality(Marks(s, {"assistant"})) + 1
      BY <1>1, <2>1, CountInserted
    <2> QED
      BY <1>5, <2>2 DEF s, t
  <1> QED
    BY <1>4, <1>5

\* Every answer but that of the call has its exchange.
LEMMA AnswersStep ==
    ASSUME TalkInv, Talk!Next, used'.stops = 0, \A c \in Rooms : AnswersCount(c)
    PROVE  \A c \in Rooms : AnswersCount(c)'
  <1>0. \A c \in Rooms : /\ exchanges[c] \in Seq(Talk!Exchange) /\ Len(exchanges[c]) \in Nat
                         /\ events[c] \in Seq(Talk!Event)
                         /\ Cardinality(Marks(events[c], {"assistant"})) \in Nat
    BY MarksCount, LenProperties DEF TalkInv, Talk!TypeOK, Rooms
  <1>1. ASSUME turn.pc # "provider" \/ UNCHANGED <<events>>, UNCHANGED exchanges,
               \A c \in Rooms : Unrecorded(c)' = Unrecorded(c)
        PROVE  \A c \in Rooms : AnswersCount(c)'
    <2> SUFFICES ASSUME NEW c \in Rooms
                 PROVE  Cardinality(Marks(events'[c], {"assistant"})) =
                            Len(exchanges[c]) + Unrecorded(c)
      BY <1>1 DEF AnswersCount
    <2> QED
      BY <1>1, AnswersSame DEF AnswersCount
  <1>2. CASE Aside
    <2>1. \A c \in Rooms : Unrecorded(c)' = Unrecorded(c)
      BY <1>2 DEF Aside, Late, Unrecorded, Reached
    <2> QED
      BY <1>1, <1>2, <2>1 DEF Aside
  <1>3. CASE \/ Talk!FileMessage \/ Talk!FileResult \/ Talk!RecordAttempt
             \/ Talk!FailAttempt \/ Talk!CloseAttempt
    <2>1. UNCHANGED <<events, exchanges>>
      BY <1>3, MessageFiled, ResultFiled, AttemptRecorded, AttemptClosed
    <2>2. \A c \in Rooms : Unrecorded(c)' = Unrecorded(c)
      BY <1>3, MessageFiled, ResultFiled, AttemptRecorded, AttemptClosed DEF Unrecorded, Reached
    <2> QED
      BY <1>1, <2>1, <2>2
  <1>4. CASE Talk!CompleteOutput
    <2>1. /\ UNCHANGED exchanges /\ turn.pc = "completeOutput"
          /\ turn' = [turn EXCEPT !.pc = "exchange"]
      BY <1>4 DEF Talk!CompleteOutput, Talk!At, Talk!Goto, Talk!AfterOutput
    <2>2. turn # Talk!Idle
      BY <2>1, AtWork DEF TalkInv
    <2>3. \A c \in Rooms : Unrecorded(c)' = Unrecorded(c)
      BY <2>1, <2>2, Onward DEF Unrecorded, Reached
    <2> QED
      BY <1>1, <2>1, <2>3
  <1>5. ASSUME NEW outcome \in Statuses, Talk!PostOutput(outcome)
        PROVE  \A c \in Rooms : AnswersCount(c)'
    <2> SUFFICES ASSUME NEW c \in Rooms
                 PROVE  Cardinality(Marks(events'[c], {"assistant"})) =
                            Len(exchanges[c]) + Unrecorded(c)'
      BY <1>5, AnswerPosted DEF AnswersCount
    <2>1. Cardinality(Marks(events'[c], {"assistant"})) =
               Cardinality(Marks(events[c], {"assistant"})) + (IF c = turn.c THEN 1 ELSE 0)
      BY <1>5, AnswersMore
    <2>2. Unrecorded(c) = 0 /\ Unrecorded(c)' = IF c = turn.c THEN 1 ELSE 0
      BY <1>5, AnswerPosted DEF Unrecorded, Reached
    <2>3. /\ Cardinality(Marks(events[c], {"assistant"})) = Len(exchanges[c]) + Unrecorded(c)
          /\ Len(exchanges[c]) \in Nat
      BY <1>0 DEF AnswersCount
    <2>4. CASE c = turn.c
      <3>1. Cardinality(Marks(events[c], {"assistant"})) = Len(exchanges[c])
        BY <2>2, <2>3
      <3> QED
        BY <2>1, <2>2, <2>3, <2>4, <3>1
    <2>5. CASE c # turn.c
      <3>1. Cardinality(Marks(events[c], {"assistant"})) = Len(exchanges[c])
        BY <2>2, <2>3
      <3> QED
        BY <2>1, <2>2, <2>3, <2>5, <3>1
    <2> QED
      BY <2>4, <2>5
  <1>6. CASE Talk!RecordExchange
    <2>1. PICK c \in Rooms : c = turn.c
      BY <1>6, ExchangeRecorded
    <2>2. PICK x \in Talk!Exchange :
              /\ exchanges'[c] = Append(exchanges[c], x)
              /\ \A d \in Rooms : d # c => exchanges'[d] = exchanges[d]
      BY <1>6, <2>1, ExchangeRecorded
    <2>3. \A d \in Rooms : d # c => Unrecorded(d)' = Unrecorded(d)
      BY <1>6, <2>1, ExchangeRecorded DEF Unrecorded, Reached
    <2>4. Unrecorded(c) = 1 /\ Unrecorded(c)' = 0
      BY <1>6, <2>1, ExchangeRecorded DEF Unrecorded, Reached
    <2>5. Len(exchanges'[c]) = Len(exchanges[c]) + 1
      BY <1>0, <2>2, AppendIs
    <2>6. UNCHANGED events
      BY <1>6, ExchangeRecorded
    <2>7. AnswersCount(c)'
      BY <1>0, <2>4, <2>5, <2>6 DEF AnswersCount
    <2>8. \A d \in Rooms : d # c => AnswersCount(d)'
      BY <2>2, <2>3, <2>6 DEF AnswersCount
    <2> QED
      BY <2>7, <2>8
  <1> QED
    BY <1>2, <1>3, <1>4, <1>5, <1>6, AsideIs, NoStop DEF Talk!Next, Rooms, Statuses

\* The other steps keep the exchanges, the completed attempts and the results in balance.
LEMMA ExchangesSame ==
    ASSUME TalkInv, NEW c \in Rooms, ExchangesCount(c), exchanges'[c] = exchanges[c],
           attempts'[c] = attempts[c] \/
               Cardinality(With(attempts'[c], "Completed")) = Cardinality(With(attempts[c], "Completed")),
           Len(routed'[c]) = Len(routed[c]),
           Unreturned(c)' = Unreturned(c), Unclosed(c)' = Unclosed(c)
    PROVE  ExchangesCount(c)'
  BY DEF ExchangesCount

\* Every exchange but that of the call is that of a completed attempt or a routed message.
LEMMA ExchangesStep ==
    ASSUME TalkInv, Talk!Next, used'.stops = 0, \A c \in Rooms : ExchangesCount(c)
    PROVE  \A c \in Rooms : ExchangesCount(c)'
  <1>0. \A c \in Rooms :
            /\ exchanges[c] \in Seq(Talk!Exchange) /\ Len(exchanges[c]) \in Nat
            /\ attempts[c] \in Seq(Talk!Attempt)
            /\ Cardinality(With(attempts[c], "Completed")) \in Nat
            /\ routed[c] \in Seq(Statuses \cup {"none"}) /\ Len(routed[c]) \in Nat
            /\ Len(exchanges[c]) + Unreturned(c) =
                   Cardinality(With(attempts[c], "Completed")) + Len(routed[c]) + Unclosed(c)
    BY WithCount, LenProperties DEF TalkInv, Talk!TypeOK, Rooms, Statuses, ExchangesCount
  <1>1. CASE Aside
    <2>1. \A c \in Rooms : Unreturned(c)' = Unreturned(c) /\ Unclosed(c)' = Unclosed(c)
      BY <1>1 DEF Aside, Late, Unreturned, Unclosed, Routing, Talking, Reached
    <2> QED
      BY <1>1, <2>1, ExchangesSame DEF Aside
  <1>2. CASE Talk!FileMessage
    <2>1. PICK c \in Rooms : c = turn.c
      BY <1>2, MessageFiled
    <2>2. \A d \in Rooms : d # c => Unreturned(d)' = Unreturned(d) /\ Unclosed(d)' = Unclosed(d)
      BY <1>2, <2>1, MessageFiled DEF Unreturned, Unclosed, Routing, Talking, Reached
    <2>3. \A d \in Rooms : d # c => ExchangesCount(d)'
      BY <1>2, <2>1, <2>2, MessageFiled, ExchangesSame
    <2>4. Unreturned(c) = 0 /\ Unreturned(c)' = 1 /\ Unclosed(c) = 0 /\ Unclosed(c)' = 0
      BY <1>2, <2>1, MessageFiled DEF Unreturned, Unclosed, Routing, Talking, Reached
    <2>5. UNCHANGED <<attempts, exchanges>> /\ routed'[c] = Append(routed[c], "none")
      BY <1>2, <2>1, MessageFiled
    <2>6. Len(routed'[c]) = Len(routed[c]) + 1
      BY <1>0, <2>5, AppendIs
    <2>7. Len(exchanges[c]) + 1 =
              Cardinality(With(attempts[c], "Completed")) + (Len(routed[c]) + 1) + 0
      BY <1>0, <2>4
    <2>8. ExchangesCount(c)'
      BY <2>4, <2>5, <2>6, <2>7 DEF ExchangesCount
    <2> QED
      BY <2>3, <2>8
  <1>3. CASE Talk!FileResult
    <2>1. \A c \in Rooms : Unreturned(c)' = Unreturned(c) /\ Unclosed(c)' = Unclosed(c)
      BY <1>3, ResultFiled DEF Unreturned, Unclosed, Routing, Talking, Reached
    <2>2. \A c \in Rooms : Len(routed'[c]) = Len(routed[c])
      BY <1>3, ResultFiled DEF Closed
    <2> QED
      BY <1>3, <2>1, <2>2, ResultFiled, ExchangesSame
  <1>4. ASSUME NEW outcome \in Statuses, Talk!PostOutput(outcome)
        PROVE  \A c \in Rooms : ExchangesCount(c)'
    <2>1. \A c \in Rooms : Unreturned(c)' = Unreturned(c) /\ Unclosed(c)' = Unclosed(c)
      BY <1>4, AnswerPosted DEF Unreturned, Unclosed, Routing, Talking, Reached
    <2> QED
      BY <1>4, <2>1, AnswerPosted, ExchangesSame
  <1>5. CASE Talk!CompleteOutput
    <2>1. /\ UNCHANGED <<attempts, routed, exchanges>> /\ turn.pc = "completeOutput"
          /\ turn' = [turn EXCEPT !.pc = "exchange"]
      BY <1>5 DEF Talk!CompleteOutput, Talk!At, Talk!Goto, Talk!AfterOutput
    <2>2. turn # Talk!Idle
      BY <2>1, AtWork DEF TalkInv
    <2>3. \A c \in Rooms : Unreturned(c)' = Unreturned(c) /\ Unclosed(c)' = Unclosed(c)
      BY <2>1, <2>2, Onward DEF Unreturned, Unclosed, Routing, Talking, Reached
    <2> QED
      BY <2>1, <2>3, ExchangesSame
  <1>6. CASE Talk!RecordExchange
    <2>1. PICK c \in Rooms : c = turn.c
      BY <1>6, ExchangeRecorded
    <2>2. PICK x \in Talk!Exchange :
              /\ exchanges'[c] = Append(exchanges[c], x)
              /\ \A d \in Rooms : d # c => exchanges'[d] = exchanges[d]
      BY <1>6, <2>1, ExchangeRecorded
    <2>3. \A d \in Rooms : d # c => Unreturned(d)' = Unreturned(d) /\ Unclosed(d)' = Unclosed(d)
      BY <1>6, <2>1, ExchangeRecorded DEF Unreturned, Unclosed, Routing, Talking, Reached
    <2>4. UNCHANGED <<attempts, routed>>
      BY <1>6, ExchangeRecorded
    <2>5. \A d \in Rooms : d # c => ExchangesCount(d)'
      BY <2>2, <2>3, <2>4, ExchangesSame
    <2>6. /\ Unreturned(c)' = 0 /\ Unclosed(c) = 0
          /\ \/ Unreturned(c) = 1 /\ Unclosed(c)' = 0
             \/ Unreturned(c) = 0 /\ Unclosed(c)' = 1
      <3>1. turn.op \in {"send", "retry", "route"}
        BY <1>6, ExchangeRecorded DEF TalkInv, Staged, Turn
      <3> QED
        BY <1>6, <2>1, <3>1, ExchangeRecorded DEF Unreturned, Unclosed, Routing, Talking, Reached
    <2>7. Len(exchanges'[c]) = Len(exchanges[c]) + 1
      BY <1>0, <2>2, AppendIs
    <2>8. (Len(exchanges[c]) + 1) + 0 =
              Cardinality(With(attempts[c], "Completed")) + Len(routed[c]) + Unclosed(c)'
      BY <1>0, <2>6
    <2>9. ExchangesCount(c)'
      BY <2>4, <2>6, <2>7, <2>8 DEF ExchangesCount
    <2> QED
      BY <2>5, <2>9
  <1>7. CASE Talk!RecordAttempt
    <2>1. PICK c \in Rooms : c = turn.c
      BY <1>7, AttemptRecorded
    <2>2. PICK a \in Talk!Attempt :
              /\ a.status = "Started"
              /\ attempts'[c] = Append(attempts[c], a)
              /\ \A d \in Rooms : d # c => attempts'[d] = attempts[d]
      BY <1>7, <2>1, AttemptRecorded
    <2>3. Cardinality(With(attempts'[c], "Completed")) = Cardinality(With(attempts[c], "Completed"))
      BY <1>0, <2>2, WithAppended
    <2>4. \A d \in Rooms : Unreturned(d)' = Unreturned(d) /\ Unclosed(d)' = Unclosed(d)
      BY <1>7, AttemptRecorded DEF Unreturned, Unclosed, Routing, Talking, Reached
    <2>5. UNCHANGED <<exchanges, routed>>
      BY <1>7, AttemptRecorded
    <2> QED
      BY <2>2, <2>3, <2>4, <2>5, ExchangesSame
  <1>8. CASE Talk!FailAttempt \/ Talk!CloseAttempt
    <2>1. PICK c \in Rooms : c = turn.c
      BY <1>8, AttemptClosed
    <2>2. PICK a \in Talk!Attempt :
              /\ Talk!FailAttempt => a.status = "Failed"
              /\ Talk!CloseAttempt => a.status = "Completed"
              /\ Closed(attempts[c], attempts'[c], a)
      BY <1>8, <2>1, AttemptClosed
    <2>3. /\ UNCHANGED <<exchanges, routed>> /\ attempts'[c] \in Seq(Talk!Attempt)
          /\ attempts[c][Len(attempts[c])].status # "Completed"
          /\ \A d \in Rooms : d # c => attempts'[d] = attempts[d]
      BY <1>8, <2>1, AttemptClosed
    <2>4. /\ a.status = "Completed" =>
                 Cardinality(With(attempts'[c], "Completed")) =
                     Cardinality(With(attempts[c], "Completed")) + 1
          /\ a.status # "Completed" =>
                 Cardinality(With(attempts'[c], "Completed")) =
                     Cardinality(With(attempts[c], "Completed"))
      BY <1>0, <2>2, <2>3, WithClosed
    <2>5. \A d \in Rooms : d # c => Unreturned(d)' = Unreturned(d) /\ Unclosed(d)' = Unclosed(d)
      BY <1>8, <2>1, AttemptClosed DEF Unreturned, Unclosed, Routing, Talking, Reached
    <2>6. \A d \in Rooms : d # c => ExchangesCount(d)'
      BY <2>3, <2>5, ExchangesSame
    <2>7. /\ Unreturned(c) = 0 /\ Unreturned(c)' = 0 /\ Unclosed(c)' = 0
          /\ Unclosed(c) = IF a.status = "Completed" THEN 1 ELSE 0
      BY <1>8, <2>1, <2>2, AttemptClosed DEF Unreturned, Unclosed, Routing, Talking, Reached
    <2>8. Len(exchanges[c]) = Cardinality(With(attempts'[c], "Completed")) + Len(routed[c])
      <3>0. /\ Len(exchanges[c]) \in Nat /\ Len(routed[c]) \in Nat
            /\ Cardinality(With(attempts[c], "Completed")) \in Nat
        BY <1>0
      <3>1. CASE a.status = "Completed"
        <4>1. Len(exchanges[c]) + 0 =
                  Cardinality(With(attempts[c], "Completed")) + Len(routed[c]) + 1
          BY <1>0, <2>7, <3>1
        <4> QED
          BY <2>4, <3>0, <3>1, <4>1
      <3>2. CASE a.status # "Completed"
        <4>1. Len(exchanges[c]) + 0 =
                  Cardinality(With(attempts[c], "Completed")) + Len(routed[c]) + 0
          BY <1>0, <2>7, <3>2
        <4> QED
          BY <2>4, <3>0, <3>2, <4>1
      <3> QED
        BY <3>1, <3>2
    <2>9. ExchangesCount(c)'
      BY <1>0, <2>3, <2>7, <2>8 DEF ExchangesCount
    <2> QED
      BY <2>6, <2>9
  <1> QED
    BY <1>1, <1>2, <1>3, <1>4, <1>5, <1>6, <1>7, <1>8, AsideIs, NoStop
    DEF Talk!Next, Rooms, Statuses

\* Every routed message but that of the call has its result.
LEMMA ResultsStep ==
    ASSUME TalkInv, Talk!Next, used'.stops = 0, \A c \in Rooms : ResultsFiled(c)
    PROVE  \A c \in Rooms : ResultsFiled(c)'
  <1>0. \A c \in Rooms : /\ routed[c] \in Seq(Statuses \cup {"none"}) /\ Len(routed[c]) \in Nat
                         /\ DOMAIN routed[c] = 1 .. Len(routed[c])
    BY LenProperties DEF TalkInv, Talk!TypeOK, Rooms, Statuses
  <1>1. ASSUME UNCHANGED routed,
               \A c \in Rooms : Routing(c, {"provider", "completeOutput", "exchange", "close"}) =>
                   Routing(c, {"provider", "completeOutput", "exchange", "close"})'
        PROVE  \A c \in Rooms : ResultsFiled(c)'
    BY <1>1 DEF ResultsFiled
  <1>2. CASE Aside
    <2>1. \A c \in Rooms : ~Routing(c, {"provider", "completeOutput", "exchange", "close"})
      BY <1>2 DEF Aside, Late, Routing, Reached
    <2> QED
      BY <1>1, <1>2, <2>1 DEF Aside
  <1>3. CASE Talk!FileMessage
    <2>1. PICK c \in Rooms : c = turn.c
      BY <1>3, MessageFiled
    <2>2. /\ routed'[c] = Append(routed[c], "none")
          /\ \A d \in Rooms : d # c => routed'[d] = routed[d]
          /\ \A d \in Rooms : ~Routing(d, {"provider", "completeOutput", "exchange", "close"})
          /\ Routing(c, {"provider", "completeOutput", "exchange", "close"})'
      BY <1>3, <2>1, MessageFiled DEF Routing, Reached
    <2>3. /\ Len(routed'[c]) = Len(routed[c]) + 1
          /\ DOMAIN routed'[c] = DOMAIN routed[c] \cup {Len(routed[c]) + 1}
          /\ \A i \in DOMAIN routed[c] : routed'[c][i] = routed[c][i]
      BY <1>0, <2>2, AppendIs
    <2>4. ResultsFiled(c)'
      BY <2>2, <2>3 DEF ResultsFiled
    <2> QED
      BY <2>2, <2>4 DEF ResultsFiled
  <1>4. CASE Talk!FileResult
    <2>1. PICK c \in Rooms : c = turn.c
      BY <1>4, ResultFiled
    <2>2. /\ Closed(routed[c], routed'[c], turn.outcome) /\ turn.outcome \in Statuses
          /\ routed'[c] \in Seq(Statuses \cup {"none"})
          /\ \A d \in Rooms : d # c => routed'[d] = routed[d]
      BY <1>4, <2>1, ResultFiled
    <2>3. \A d \in Rooms : d # c => ~Routing(d, {"provider", "completeOutput", "exchange", "close"})
      BY <2>1 DEF Routing, Reached
    <2>4. turn.outcome # "none"
      BY <2>2 DEF Statuses, Talk!ResultStatus
    <2>5. /\ DOMAIN routed'[c] = DOMAIN routed[c]
          /\ \A i \in DOMAIN routed[c] :
                 /\ i # Len(routed[c]) => routed'[c][i] = routed[c][i]
                 /\ i = Len(routed[c]) => routed'[c][i] # "none"
      BY <1>0, <2>2, <2>4, LenProperties DEF Closed
    <2>6. ResultsFiled(c)'
      BY <2>5 DEF ResultsFiled
    <2> QED
      BY <2>2, <2>3, <2>6 DEF ResultsFiled
  <1>5. ASSUME NEW outcome \in Statuses, Talk!PostOutput(outcome)
        PROVE  \A c \in Rooms : ResultsFiled(c)'
    <2>1. \A c \in Rooms : Routing(c, {"provider", "completeOutput", "exchange", "close"}) =>
              Routing(c, {"provider", "completeOutput", "exchange", "close"})'
      BY <1>5, AnswerPosted DEF Routing, Reached
    <2> QED
      BY <1>1, <1>5, <2>1, AnswerPosted
  <1>6. CASE Talk!CompleteOutput
    <2>1. /\ UNCHANGED routed /\ turn.pc = "completeOutput"
          /\ turn' = [turn EXCEPT !.pc = "exchange"]
      BY <1>6 DEF Talk!CompleteOutput, Talk!At, Talk!Goto, Talk!AfterOutput
    <2>2. \A c \in Rooms : Routing(c, {"provider", "completeOutput", "exchange", "close"}) =>
              Routing(c, {"provider", "completeOutput", "exchange", "close"})'
      BY <2>1, Onward DEF Routing, Reached
    <2> QED
      BY <1>1, <2>1, <2>2
  <1>7. CASE Talk!RecordExchange
    <2>1. \A c \in Rooms : Routing(c, {"provider", "completeOutput", "exchange", "close"}) =>
              Routing(c, {"provider", "completeOutput", "exchange", "close"})'
      BY <1>7, ExchangeRecorded DEF Routing, Reached
    <2> QED
      BY <1>1, <1>7, <2>1, ExchangeRecorded
  <1>8. CASE Talk!RecordAttempt \/ Talk!FailAttempt \/ Talk!CloseAttempt
    <2>1. \A c \in Rooms : ~Routing(c, {"provider", "completeOutput", "exchange", "close"})
      BY <1>8, AttemptRecorded, AttemptClosed DEF Routing, Reached
    <2> QED
      BY <1>1, <1>8, <2>1, AttemptRecorded, AttemptClosed
  <1> QED
    BY <1>2, <1>3, <1>4, <1>5, <1>6, <1>7, <1>8, AsideIs, NoStop
    DEF Talk!Next, Rooms, Statuses

\* The events of a conversation are those it had and the one a step writes.
LEMMA ElementsAfter ==
    ASSUME TalkInv, NEW e \in Talk!Event, Writing(e), NEW c \in Rooms, NEW k \in DOMAIN events'[c]
    PROVE  \/ \E j \in DOMAIN events[c] : events'[c][k] = events[c][j]
           \/ c = turn.c /\ events'[c][k] = e
  <1>1. turn.c \in Rooms
    BY AtWork DEF Writing, TalkInv
  <1>2. \A d \in Rooms : \A x : Talk!Has(d, x)' <=> Talk!Has(d, x) \/ (d = turn.c /\ x = e)
    BY <1>1, Appended DEF Writing, TalkInv
  <1>3. PICK x : x = events'[c][k]
    OBVIOUS
  <1>4. Talk!Has(c, x)'
    BY <1>3 DEF Talk!Has
  <1>5. Talk!Has(c, x) \/ (c = turn.c /\ x = e)
    BY <1>2, <1>4
  <1> QED
    BY <1>3, <1>5 DEF Talk!Has

\* Between the writes of a message and of its completion only the call stands.
LEMMA CompleteStep ==
    ASSUME TalkInv, Talk!Next, used'.stops = 0, \A c \in Rooms : MessagesComplete(c)
    PROVE  \A c \in Rooms : MessagesComplete(c)'
  <1>0. \A c \in Rooms : \A m : Talk!Has(c, Talk!Completed(m)) => Talk!Has(c, Talk!Completed(m))'
    BY HasStays DEF Talk!Completed
  <1>1. CASE UNCHANGED <<events>> /\ turn.pc \notin {"completeInput", "completeOutput"}
    <2> SUFFICES ASSUME NEW c \in Rooms, NEW i \in Marks(events[c], Messaging)
                 PROVE  Talk!Has(c, Talk!Completed(events[c][i].m))'
      BY <1>1 DEF MessagesComplete
    <2>1. Talk!Has(c, Talk!Completed(events[c][i].m))
      BY <1>1 DEF MessagesComplete, Reached
    <2> QED
      BY <1>1, <2>1 DEF Talk!Has
  <1>2. ASSUME NEW e \in Talk!Event, Writing(e)
        PROVE  \A c \in Rooms : MessagesComplete(c)'
    <2>1. turn.c \in Rooms /\ turn # Talk!Idle
      BY <1>2, AtWork DEF Writing, TalkInv
    <2>2. PICK r \in Rooms : r = turn.c
      BY <2>1
    <2>3. Talk!Has(r, e)'
      <3>1. \A d \in Rooms : \A x : Talk!Has(d, x)' <=> Talk!Has(d, x) \/ (d = turn.c /\ x = e)
        BY <1>2, <2>1, Appended DEF Writing, TalkInv
      <3> QED
        BY <2>2, <3>1
    <2> SUFFICES ASSUME NEW c \in Rooms, NEW i \in Marks(events'[c], Messaging),
                        NEW x, x = events'[c][i]
                 PROVE  \/ Talk!Has(c, Talk!Completed(x.m))'
                        \/ Reached(c, {"completeInput"})' /\ x.m = turn'.input
                        \/ Reached(c, {"completeOutput"})' /\ x.m = turn'.output
      BY DEF MessagesComplete
    <2>4. x.kind \in Messaging /\ i \in DOMAIN events'[c]
      BY DEF Marks
    <2>5. CASE c = turn.c /\ x = e
      BY <1>2, <2>4, <2>5 DEF Reached, Writing, Following, Messaging
    <2>6. ASSUME NEW j \in DOMAIN events[c], x = events[c][j]
          PROVE  Talk!Has(c, Talk!Completed(x.m))'
      <3>1. j \in Marks(events[c], Messaging)
        BY <2>4, <2>6 DEF Marks
      <3>2. \/ Talk!Has(c, Talk!Completed(x.m))
            \/ c = r /\ e = Talk!Completed(x.m)
        BY <1>2, <2>1, <2>2, <2>6, <3>1 DEF MessagesComplete, Reached, Writing
      <3> QED
        BY <1>0, <2>3, <3>2
    <2> QED
      BY <1>2, <2>4, <2>5, <2>6, ElementsAfter
  <1> QED
    BY <1>1, <1>2, WriteIs, NoStop

-----------------------------------------------------------------------------
(* Together *)

\* Whatever stops half way, an answer is numbered once and has one exchange at most, a
\* completed attempt and a result have theirs; as long as none stopped, all accounts agree.
THEOREM CountHolds == Talk!Spec => []CountInv
  <1>1. Talk!Init => CountInv
    <2> SUFFICES ASSUME Talk!Init PROVE CountInv
      OBVIOUS
    <2>1. /\ turn = Talk!Idle
          /\ \A c \in Rooms : /\ events[c] = <<>> /\ attempts[c] = <<>>
                              /\ exchanges[c] = <<>> /\ routed[c] = <<>>
      BY DEF Talk!Init, Rooms
    <2> SUFFICES ASSUME NEW c \in Rooms
                 PROVE  /\ Numbered(events[c]) /\ Recorded(c) /\ Exchanged(c) /\ Backed(c)
                        /\ Filed(c) /\ Balanced(c)
      BY DEF CountInv
    <2>2. Numbered(events[c]) /\ Recorded(c) /\ Exchanged(c) /\ Backed(c)
      BY <2>1 DEF Numbered, Marks, Recorded, Exchanged, Backed, Reached
    <2>3. /\ \A K : Marks(events[c], K) = {}
          /\ \A s : With(exchanges[c], s) = {} /\ With(attempts[c], s) = {} /\ Of(routed[c], s) = {}
      BY <2>1 DEF Marks, With, Of
    <2>4. Cardinality({}) = 0
      BY FS_EmptySet
    <2>5. Filed(c)
      <3>1. \A s : Due(c, s) = 0
        BY <2>1 DEF Due, Routing, Reached
      <3> QED
        BY <2>3, <2>4, <3>1 DEF Filed
    <2>6. AnswersCount(c)
      <3>1. Unrecorded(c) = 0 /\ Len(exchanges[c]) = 0
        BY <2>1 DEF Unrecorded, Reached
      <3>2. Cardinality(Marks(events[c], {"assistant"})) = 0
        BY <2>3, <2>4
      <3> QED
        BY <3>1, <3>2 DEF AnswersCount
    <2>7. ExchangesCount(c)
      <3>1. Unreturned(c) = 0 /\ Unclosed(c) = 0 /\ Len(exchanges[c]) = 0 /\ Len(routed[c]) = 0
        BY <2>1 DEF Unreturned, Unclosed, Routing, Talking, Reached
      <3>2. Cardinality(With(attempts[c], "Completed")) = 0
        BY <2>3, <2>4
      <3> QED
        BY <3>1, <3>2 DEF ExchangesCount
    <2>8. ResultsFiled(c) /\ MessagesComplete(c)
      BY <2>1, <2>3 DEF ResultsFiled, MessagesComplete
    <2> QED
      BY <2>2, <2>5, <2>6, <2>7, <2>8 DEF Balanced
  <1>2. TalkInv /\ CountInv /\ [Talk!Next]_(Talk!vars) => CountInv'
    <2> SUFFICES ASSUME TalkInv, CountInv, [Talk!Next]_(Talk!vars) PROVE CountInv'
      OBVIOUS
    <2>1. CASE UNCHANGED Talk!vars
      <3>1. UNCHANGED <<events, attempts, exchanges, routed, turn, used>>
        BY <2>1 DEF Talk!vars
      <3>2. \A c \in Rooms : /\ Recorded(c)' /\ Exchanged(c)' /\ Backed(c)' /\ Filed(c)'
                             /\ Numbered(events'[c])
        BY <3>1 DEF CountInv, Recorded, Exchanged, Backed, Filed, Reached, Routing, Due, Talk!Has
      <3>3. used'.stops = 0 => \A c \in Rooms : Balanced(c)
        BY <3>1 DEF CountInv
      <3>4. ASSUME NEW c \in Rooms, Balanced(c) PROVE Balanced(c)'
        <4>1. AnswersCount(c)'
          BY <3>1, <3>4 DEF Balanced, AnswersCount, Unrecorded, Reached
        <4>2. ExchangesCount(c)'
          BY <3>1, <3>4 DEF Balanced, ExchangesCount, Unreturned, Unclosed, Routing, Talking, Reached
        <4>3. ResultsFiled(c)' /\ MessagesComplete(c)'
          BY <3>1, <3>4 DEF Balanced, ResultsFiled, MessagesComplete, Routing, Reached, Talk!Has
        <4> QED
          BY <4>1, <4>2, <4>3 DEF Balanced
      <3> QED
        BY <3>2, <3>3, <3>4 DEF CountInv
    <2>2. CASE Talk!Next
      <3>1. \A c \in Rooms : /\ Recorded(c)' /\ Exchanged(c)' /\ Backed(c)' /\ Filed(c)'
                             /\ Numbered(events'[c])
        BY <2>2, NumberedStep, BackedStep, FiledStep DEF CountInv
      <3>2. ASSUME used'.stops = 0 PROVE \A c \in Rooms : Balanced(c)'
        <4>1. \A c \in Rooms : Balanced(c)
          BY <2>2, <3>2, NoStop DEF CountInv
        <4> QED
          BY <2>2, <3>2, <4>1, AnswersStep, ExchangesStep, ResultsStep, CompleteStep DEF Balanced
      <3> QED
        BY <3>1, <3>2 DEF CountInv
    <2> QED
      BY <2>1, <2>2
  <1> QED
    BY <1>1, <1>2, TalkHolds, PTL DEF Talk!Spec

\* What the invariants say of a conversation is what the properties ask.
LEMMA BackedIsOne ==
    ASSUME TalkInv, CountInv
    PROVE  Talk!CompletedIsBacked
  <1> SUFFICES ASSUME NEW c \in Rooms
               PROVE  /\ \A i \in DOMAIN attempts[c] : attempts[c][i].status = "Completed" =>
                             /\ Talk!Cardinality(Talk!Backing(c, attempts[c][i])) = 1
                             /\ Talk!Has(c, Talk!Assistant(attempts[c][i].output))
                             /\ Talk!Has(c, Talk!Completed(attempts[c][i].output))
                      /\ \A s \in Statuses :
                             Talk!Cardinality({i \in DOMAIN routed[c] : routed[c][i] = s}) <=
                                 Talk!Cardinality({i \in DOMAIN exchanges[c] :
                                                       exchanges[c][i].status = s})
    BY DEF Talk!CompletedIsBacked, Rooms, Statuses
  <1>1. Exchanged(c) /\ Backed(c) /\ Filed(c)
    BY DEF CountInv
  <1>2. ASSUME NEW i \in DOMAIN attempts[c], attempts[c][i].status = "Completed"
        PROVE  /\ Talk!Cardinality(Talk!Backing(c, attempts[c][i])) = 1
               /\ Talk!Has(c, Talk!Assistant(attempts[c][i].output))
               /\ Talk!Has(c, Talk!Completed(attempts[c][i].output))
    <2>1. PICK k \in DOMAIN exchanges[c] : /\ exchanges[c][k].input = attempts[c][i].input
                                           /\ exchanges[c][k].output = attempts[c][i].output
      BY <1>1, <1>2 DEF Backed
    <2>2. Talk!Backing(c, attempts[c][i]) = {k}
      BY <1>1, <2>1 DEF Exchanged, Talk!Backing
    <2>3. Cardinality({k}) = 1
      BY FS_Singleton
    <2>4. Talk!Has(c, Talk!Assistant(attempts[c][i].output))
      BY <1>1, <2>1 DEF Exchanged
    <2>5. Talk!Has(c, Talk!Completed(attempts[c][i].output))
      BY <1>1, <1>2 DEF Backed
    <2> QED
      BY <2>2, <2>3, <2>4, <2>5, SameCount
  <1>3. ASSUME NEW s \in Statuses
        PROVE  Cardinality(Of(routed[c], s)) <= Cardinality(With(exchanges[c], s))
    <2>1. /\ Cardinality(Of(routed[c], s)) \in Nat /\ Cardinality(With(exchanges[c], s)) \in Nat
          /\ Due(c, s) \in {0, 1}
      BY WithCount DEF TalkInv, Talk!TypeOK, Rooms, Statuses, Due
    <2>2. Cardinality(Of(routed[c], s)) + Due(c, s) <= Cardinality(With(exchanges[c], s))
      BY <1>1 DEF Filed
    <2> QED
      BY <2>1, <2>2
  <1> QED
    BY <1>2, <1>3, SameCount DEF Of, With

\* Between calls, nothing is under way that would be missing.
LEMMA BalanceIsAccount ==
    ASSUME TalkInv, CountInv
    PROVE  Talk!Accounted
  <1> SUFFICES ASSUME turn = Talk!Idle, used.stops = 0, NEW c \in Rooms
               PROVE  /\ Talk!Cardinality({i \in DOMAIN events[c] : events[c][i].kind = "assistant"}) =
                             Len(exchanges[c])
                      /\ Len(exchanges[c]) =
                             Talk!Cardinality({i \in DOMAIN attempts[c] :
                                                   attempts[c][i].status = "Completed"})
                             + Len(routed[c])
                      /\ \A i \in DOMAIN routed[c] : routed[c][i] # "none"
                      /\ \A i \in DOMAIN events[c] : Talk!IsMessage(events[c][i]) =>
                             Talk!Has(c, Talk!Completed(events[c][i].m))
    BY DEF Talk!Accounted, Rooms
  <1>1. AnswersCount(c) /\ ExchangesCount(c) /\ ResultsFiled(c) /\ MessagesComplete(c)
    BY DEF CountInv, Balanced
  <1>2. /\ Cardinality(Marks(events[c], {"assistant"})) \in Nat
        /\ Cardinality(With(attempts[c], "Completed")) \in Nat
        /\ Len(exchanges[c]) \in Nat /\ Len(routed[c]) \in Nat
    BY MarksCount, WithCount, LenProperties DEF TalkInv, Talk!TypeOK, Rooms
  <1>3. Unrecorded(c) = 0 /\ Unreturned(c) = 0 /\ Unclosed(c) = 0
    BY DEF Unrecorded, Unreturned, Unclosed, Reached, Routing, Talking
  <1>4. /\ Marks(events[c], {"assistant"}) = {i \in DOMAIN events[c] : events[c][i].kind = "assistant"}
        /\ With(attempts[c], "Completed") =
               {i \in DOMAIN attempts[c] : attempts[c][i].status = "Completed"}
    BY DEF Marks, With
  <1>5. Cardinality(Marks(events[c], {"assistant"})) = Len(exchanges[c])
    BY <1>1, <1>2, <1>3 DEF AnswersCount
  <1>6. Len(exchanges[c]) = Cardinality(With(attempts[c], "Completed")) + Len(routed[c])
    BY <1>1, <1>2, <1>3 DEF ExchangesCount
  <1>7. \A i \in DOMAIN routed[c] : routed[c][i] # "none"
    BY <1>1 DEF ResultsFiled, Routing, Reached
  <1>8. \A i \in DOMAIN events[c] : Talk!IsMessage(events[c][i]) =>
            Talk!Has(c, Talk!Completed(events[c][i].m))
    BY <1>1 DEF MessagesComplete, Marks, Messaging, Talk!IsMessage, Reached
  <1> QED
    BY <1>4, <1>5, <1>6, <1>7, <1>8, SameCount

-----------------------------------------------------------------------------
(* While, besides, the clock did not step back, an answer is to what was asked *)

\* What was asked before a position does not change with what is added at the end.
LEMMA AskedAfter ==
    ASSUME NEW S, NEW s \in Seq(S), NEW t \in Seq(S), NEW e, Inserted(s, t, Len(s) + 1, e)
    PROVE  /\ DOMAIN s = 1 .. Len(s) /\ DOMAIN t = 1 .. Len(s) + 1 /\ t[Len(s) + 1] = e
           /\ \A i \in DOMAIN s : t[i] = s[i]
           /\ \A n \in 1 .. Len(s) : \A m : Asked(s, n, m) => Asked(t, n, m)
           /\ e.kind # "user" => \A m : Asked(s, Len(s), m) => Asked(t, Len(t), m)
           /\ \A m : e = Talk!User(m) => Asked(t, Len(t), m)
  <1>1. /\ Len(s) \in Nat /\ Len(t) = Len(s) + 1 /\ t[Len(s) + 1] = e
        /\ DOMAIN s = 1 .. Len(s) /\ DOMAIN t = 1 .. Len(s) + 1
        /\ \A i \in 1 .. Len(s) : t[i] = s[i]
    BY LenProperties DEF Inserted
  <1>2. \A n \in 1 .. Len(s) : \A m : Asked(s, n, m) => Asked(t, n, m)
    BY <1>1 DEF Asked
  <1>3. ASSUME e.kind # "user", NEW m, Asked(s, Len(s), m) PROVE Asked(t, Len(t), m)
    <2>1. PICK i \in 1 .. Len(s) : /\ s[i] = Talk!User(m)
                                   /\ \A j \in i + 1 .. Len(s) : s[j].kind # "user"
      BY <1>3 DEF Asked
    <2>2. t[i] = Talk!User(m) /\ i \in 1 .. Len(t)
      BY <1>1, <2>1
    <2>3. ASSUME NEW j \in i + 1 .. Len(t) PROVE t[j].kind # "user"
      <3>1. j \in i + 1 .. Len(s) \/ j = Len(s) + 1
        BY <1>1
      <3> QED
        BY <1>1, <1>3, <2>1, <3>1
    <2> QED
      BY <2>2, <2>3 DEF Asked
  <1>4. ASSUME NEW m, e = Talk!User(m) PROVE Asked(t, Len(t), m)
    BY <1>1, <1>4 DEF Asked
  <1> QED
    BY <1>1, <1>2, <1>3, <1>4

\* From the completion of the input to that of the exchange a call is to answer it.
Called == {"completeInput", "file", "attempt", "provider", "completeOutput", "exchange"}

\* The steps that leave a conversation alone, and do not call on it anew, keep its answers.
LEMMA AnsweringKept ==
    ASSUME TalkInv, NEW c \in Rooms, Answering(c),
           events'[c] = events[c], exchanges'[c] = exchanges[c],
           Reached(c, {"completeOutput", "exchange"}) =>
               /\ Reached(c, {"completeOutput", "exchange"})'
               /\ turn'.input = turn.input /\ turn'.output = turn.output,
           Reached(c, Called)' => Reached(c, Called) /\ turn'.input = turn.input
    PROVE  Answering(c)'
  <1> DEFINE s == events[c]
             x == exchanges[c]
  <1>1. Reached(c, Called) => Asked(s, Len(s), turn.input)
    BY DEF Answering, Called
  <1>2. \A i \in Marks(s, {"assistant"}) :
           \/ \E k \in DOMAIN x : x[k].output = s[i].m /\ Asked(s, i, x[k].input)
           \/ /\ Reached(c, {"completeOutput", "exchange"}) /\ s[i].m = turn.output
              /\ Asked(s, i, turn.input)
    BY DEF Answering
  <1> SUFFICES
        /\ Reached(c, Called)' => Asked(s, Len(s), turn'.input)
        /\ \A i \in Marks(s, {"assistant"}) :
               \/ \E k \in DOMAIN x : x[k].output = s[i].m /\ Asked(s, i, x[k].input)
               \/ /\ Reached(c, {"completeOutput", "exchange"})' /\ s[i].m = turn'.output
                  /\ Asked(s, i, turn'.input)
    BY DEF Answering, Called
  <1> HIDE DEF s, x
  <1> QED
    BY <1>1, <1>2

\* Another conversation is not called on.
LEMMA AnsweringElsewhere ==
    ASSUME TalkInv, NEW d \in Rooms, Answering(d), d # turn.c,
           events'[d] = events[d], exchanges'[d] = exchanges[d],
           turn' = Talk!Idle \/ turn'.c = turn.c
    PROVE  Answering(d)'
  <1>1. ~Reached(d, {"completeOutput", "exchange"}) /\ ~Reached(d, Called)'
    BY DEF Reached
  <1> QED
    BY <1>1, AnsweringKept

\* An event written at the end: a message of the user is asked, one of the provider answers.
LEMMA AnsweringWritten ==
    ASSUME TalkInv, NEW e \in Talk!Event, Writing(e), used'.steps = 0,
           \A c \in Rooms : Answering(c)
    PROVE  \A c \in Rooms : Answering(c)'
  <1>1. turn.c \in Rooms /\ turn # Talk!Idle
    BY AtWork DEF Writing, TalkInv
  <1>2. PICK c \in Rooms : c = turn.c
    BY <1>1
  <1>3. /\ events' \in [Rooms -> Seq(Talk!Event)]
        /\ \A d \in Rooms : d # c => events'[d] = events[d]
        /\ Inserted(events[c], events'[c], Len(events[c]) + 1, e)
    BY <1>2, Appended DEF Writing, TalkInv
  <1>4. turn' = Talk!Idle \/ turn'.c = c
    BY <1>2 DEF Writing, Following, Talk!Event
  <1>5. \A d \in Rooms : d # c => Answering(d)'
    BY <1>2, <1>3, <1>4, AnsweringElsewhere DEF Writing
  <1> DEFINE s == events[c]
             t == events'[c]
             x == exchanges[c]
  <1>6. s \in Seq(Talk!Event) /\ t \in Seq(Talk!Event) /\ Inserted(s, t, Len(s) + 1, e)
    BY <1>3 DEF TalkInv, Talk!TypeOK, Rooms
  <1>7. Reached(c, Called) => Asked(s, Len(s), turn.input)
    BY DEF Answering, Called
  <1>8. \A i \in Marks(s, {"assistant"}) :
           \/ \E k \in DOMAIN x : x[k].output = s[i].m /\ Asked(s, i, x[k].input)
           \/ /\ Reached(c, {"completeOutput", "exchange"}) /\ s[i].m = turn.output
              /\ Asked(s, i, turn.input)
    BY DEF Answering
  <1>9. SUFFICES
        /\ Reached(c, Called)' => Asked(t, Len(t), turn'.input)
        /\ \A i \in Marks(t, {"assistant"}) :
               \/ \E k \in DOMAIN x : x[k].output = t[i].m /\ Asked(t, i, x[k].input)
               \/ /\ Reached(c, {"completeOutput", "exchange"})' /\ t[i].m = turn'.output
                  /\ Asked(t, i, turn'.input)
    <2>1. exchanges'[c] = x
      BY DEF Writing
    <2> QED
      BY <1>5, <2>1 DEF Answering, Called
  <1> HIDE DEF s, t, x
  <1>10. /\ DOMAIN s = 1 .. Len(s) /\ DOMAIN t = 1 .. Len(s) + 1 /\ t[Len(s) + 1] = e
         /\ \A i \in DOMAIN s : t[i] = s[i]
         /\ \A n \in 1 .. Len(s) : \A m : Asked(s, n, m) => Asked(t, n, m)
         /\ e.kind # "user" => \A m : Asked(s, Len(s), m) => Asked(t, Len(t), m)
         /\ \A m : e = Talk!User(m) => Asked(t, Len(t), m)
         /\ Len(t) = Len(s) + 1 /\ Len(s) \in Nat
    BY <1>6, AskedAfter, LenProperties DEF Inserted
  <1>11. Reached(c, Called)' => Asked(t, Len(t), turn'.input)
    <2>1. CASE e.kind \in {"begun", "linked"}
      BY <2>1 DEF Writing, Following, Reached, Called
    <2>2. CASE e.kind = "user"
      <3>1. e = Talk!User(e.m)
        BY <2>2 DEF Talk!User, Talk!Event
      <3> QED
        BY <1>10, <2>2, <3>1 DEF Writing, Following
    <2>3. CASE e.kind \in {"assistant", "completed"}
      <3>1. Reached(c, Called)
        BY <1>1, <1>2, <2>3 DEF Writing, Following, Reached, Called
      <3>2. turn'.input = turn.input /\ e.kind # "user"
        BY <2>3 DEF Writing, Following
      <3> QED
        BY <1>7, <1>10, <3>1, <3>2
    <2> QED
      BY <2>1, <2>2, <2>3 DEF Talk!Event
  <1>12. ASSUME NEW i \in Marks(t, {"assistant"})
         PROVE  \/ \E k \in DOMAIN x : x[k].output = t[i].m /\ Asked(t, i, x[k].input)
                \/ /\ Reached(c, {"completeOutput", "exchange"})' /\ t[i].m = turn'.output
                   /\ Asked(t, i, turn'.input)
    <2>1. CASE i = Len(t)
      <3>1. t[i] = e /\ e.kind = "assistant"
        BY <1>10, <2>1 DEF Marks
      <3>2. Reached(c, {"completeOutput", "exchange"})' /\ t[i].m = turn'.output
        BY <1>2, <3>1 DEF Writing, Following, Reached
      <3>3. Reached(c, Called)'
        BY <3>2 DEF Reached, Called
      <3> QED
        BY <1>11, <2>1, <3>2, <3>3
    <2>2. CASE i # Len(t)
      <3>1. i \in 1 .. Len(s) /\ i \in Marks(s, {"assistant"}) /\ t[i] = s[i]
        BY <1>10, <2>2 DEF Marks
      <3>2. CASE \E k \in DOMAIN x : x[k].output = s[i].m /\ Asked(s, i, x[k].input)
        BY <1>10, <3>1, <3>2
      <3>3. CASE /\ Reached(c, {"completeOutput", "exchange"}) /\ s[i].m = turn.output
                 /\ Asked(s, i, turn.input)
        <4>1. turn.pc = "completeOutput"
          BY <3>3 DEF Writing, Reached
        <4>2. e.kind = "completed"
          BY <4>1 DEF Writing, Talk!Completed
        <4>3. Reached(c, {"completeOutput", "exchange"})' /\ turn'.output = turn.output
              /\ turn'.input = turn.input
          BY <1>2, <4>1, <4>2 DEF Writing, Following, Reached
        <4> QED
          BY <1>10, <3>1, <3>3, <4>3
      <3> QED
        BY <1>8, <3>1, <3>2, <3>3
    <2> QED
      BY <2>1, <2>2
  <1> QED
    BY <1>11, <1>12

\* What is retried was asked last.
LEMMA RetryAsked ==
    ASSUME TalkInv, NEW c \in Rooms, Talk!Retry(c)
    PROVE  Asked(events[c], Len(events[c]), turn'.input)
  <1> DEFINE s == events[c]
  <1>1. s \in Seq(Talk!Event) /\ DOMAIN s = 1 .. Len(s) /\ Len(s) \in Nat
    BY LenProperties DEF TalkInv, Talk!TypeOK, Rooms
  <1>2. PICK i \in Talk!Recent(c, Talk!DefaultLimit) :
            /\ s[i].kind = "user"
            /\ \A j \in Talk!Recent(c, Talk!DefaultLimit) : j > i => s[j].kind # "user"
            /\ turn' = [Talk!Idle EXCEPT !.op = "retry", !.c = c, !.pc = "attempt",
                                         !.input = s[i].m]
    BY DEF Talk!Retry
  <1> DEFINE After(j) == {k \in j + 1 .. Len(s) : Talk!IsMessage(s[k])}
  <1>3. i \in DOMAIN s /\ Cardinality(After(i)) < 24
    <2>1. i \in DOMAIN s /\ Talk!Cardinality(After(i)) < 24
      BY DEF Talk!Recent, Talk!DefaultLimit
    <2> QED
      BY <2>1, SameCount
  <1>4. ASSUME NEW j \in i + 1 .. Len(s), s[j].kind = "user" PROVE FALSE
    <2>1. j \in DOMAIN s /\ j > i
      BY <1>1, <1>3
    <2>2. After(j) \subseteq After(i)
      BY <1>1, <1>3, <2>1
    <2>3. IsFiniteSet(After(i))
      <3>1. After(i) \subseteq 1 .. Len(s)
        BY <1>1, <1>3
      <3>2. IsFiniteSet(1 .. Len(s))
        BY <1>1, FS_Interval
      <3> QED
        BY <3>1, <3>2, FS_Subset
    <2>4. Cardinality(After(j)) < 24
      <3> HIDE DEF After
      <3>1. Cardinality(After(j)) <= Cardinality(After(i)) /\ IsFiniteSet(After(j))
        BY <2>2, <2>3, FS_Subset
      <3>2. Cardinality(After(j)) \in Nat /\ Cardinality(After(i)) \in Nat
        BY <2>3, <3>1, FS_CardinalityType
      <3> QED
        BY <1>3, <3>1, <3>2
    <2>5. Talk!Cardinality(After(j)) < 24
      BY <2>4, SameCount
    <2>6. j \in Talk!Recent(c, Talk!DefaultLimit)
      BY <1>4, <2>1, <2>5 DEF Talk!Recent, Talk!DefaultLimit, Talk!IsMessage
    <2> QED
      BY <1>2, <1>4, <2>1, <2>6
  <1>5. s[i] = Talk!User(s[i].m)
    <2>1. s[i] \in Talk!Event
      BY <1>1, <1>3, ElementOfSeq
    <2> HIDE DEF s
    <2> QED
      BY <1>2, <2>1 DEF Talk!Event, Talk!User
  <1>6. turn'.input = s[i].m
    BY <1>2 DEF Talk!Idle
  <1> HIDE DEF s, After
  <1>7. Asked(s, Len(s), s[i].m)
    BY <1>1, <1>3, <1>4, <1>5 DEF Asked
  <1> QED
    BY <1>6, <1>7 DEF s

\* Every answer is to the last message before it, and so will be that of the call.
LEMMA AnsweringStep ==
    ASSUME TalkInv, Talk!Next, used'.stops = 0, used'.steps = 0, \A c \in Rooms : Answering(c)
    PROVE  \A c \in Rooms : Answering(c)'
  <1>1. ASSUME NEW e \in Talk!Event, Writing(e) PROVE \A c \in Rooms : Answering(c)'
    BY <1>1, AnsweringWritten
  <1>2. CASE /\ UNCHANGED <<events, exchanges>> /\ turn' = Talk!Idle
             /\ turn.pc \notin {"completeOutput", "exchange"}
    <2>1. \A c \in Rooms : ~Reached(c, {"completeOutput", "exchange"}) /\ ~Reached(c, Called)'
      BY <1>2 DEF Reached
    <2> QED
      BY <1>2, <2>1, AnsweringKept
  <1>3. CASE Talk!FileMessage \/ Talk!RecordAttempt
    <2>1. /\ UNCHANGED <<events, exchanges>> /\ turn.pc \in {"file", "attempt"} /\ turn # Talk!Idle
          /\ turn'.pc = "provider" /\ turn'.c = turn.c /\ turn'.input = turn.input
      BY <1>3, MessageFiled, AttemptRecorded
    <2>2. \A c \in Rooms : /\ ~Reached(c, {"completeOutput", "exchange"})
                           /\ Reached(c, Called)' => Reached(c, Called)
      BY <2>1 DEF Reached, Called
    <2> QED
      BY <2>1, <2>2, AnsweringKept
  <1>4. CASE Talk!RecordExchange
    <2>1. PICK c \in Rooms : c = turn.c
      BY <1>4, ExchangeRecorded
    <2>2. PICK z \in Talk!Exchange :
              /\ z.input = turn.input /\ z.output = turn.output
              /\ exchanges'[c] = Append(exchanges[c], z)
              /\ \A d \in Rooms : d # c => exchanges'[d] = exchanges[d]
      BY <1>4, <2>1, ExchangeRecorded
    <2>3. UNCHANGED events /\ turn'.c = c /\ turn'.pc = "close"
      BY <1>4, <2>1, ExchangeRecorded
    <2>4. \A d \in Rooms : d # c => Answering(d)'
      BY <2>1, <2>2, <2>3, AnsweringElsewhere
    <2> DEFINE s == events[c]
               x == exchanges[c]
               y == exchanges'[c]
    <2>5. \A i \in Marks(s, {"assistant"}) :
              \/ \E k \in DOMAIN x : x[k].output = s[i].m /\ Asked(s, i, x[k].input)
              \/ s[i].m = z.output /\ Asked(s, i, z.input)
      BY <2>2 DEF Answering
    <2>6. /\ DOMAIN y = DOMAIN x \cup {Len(x) + 1}
          /\ \A k \in DOMAIN x : y[k] = x[k]
          /\ y[Len(x) + 1] = z
      <3>1. x \in Seq(Talk!Exchange) /\ y = Append(x, z)
        BY <2>2 DEF TalkInv, Talk!TypeOK, Rooms
      <3> HIDE DEF x, y
      <3> QED
        BY <3>1, AppendIs
    <2>7. \A i \in Marks(s, {"assistant"}) :
              \E k \in DOMAIN y : y[k].output = s[i].m /\ Asked(s, i, y[k].input)
      <3> HIDE DEF s, x, y
      <3> QED
        BY <2>5, <2>6
    <2>8. Answering(c)'
      BY <2>3, <2>7 DEF Answering, Reached
    <2> QED
      BY <2>4, <2>8
  <1>5. ASSUME NEW c \in Rooms,
               \/ \E pc \in {"begin", "beginLinked"} : Talk!Create(c, pc)
               \/ Talk!Send(c) \/ Talk!Route(c)
        PROVE  \A d \in Rooms : Answering(d)'
    <2>1. /\ turn = Talk!Idle /\ UNCHANGED <<events, exchanges>>
          /\ turn'.pc \in {"begin", "beginLinked", "link", "post"}
      BY <1>5 DEF Talk!Create, Talk!Send, Talk!Route, Talk!Begin, Talk!Idle
    <2>2. \A d \in Rooms : ~Reached(d, {"completeOutput", "exchange"}) /\ ~Reached(d, Called)'
      BY <2>1 DEF Reached, Called
    <2> QED
      BY <2>1, <2>2, AnsweringKept
  <1>6. ASSUME NEW c \in Rooms, Talk!Retry(c)
        PROVE  \A d \in Rooms : Answering(d)'
    <2>1. /\ turn = Talk!Idle /\ UNCHANGED <<events, exchanges>>
          /\ turn'.pc = "attempt" /\ turn'.c = c
      BY <1>6 DEF Talk!Retry, Talk!Idle
    <2>2. \A d \in Rooms : ~Reached(d, {"completeOutput", "exchange"})
      BY <2>1 DEF Reached
    <2>3. \A d \in Rooms : d # c => ~Reached(d, Called)'
      BY <2>1 DEF Reached
    <2>4. \A d \in Rooms : d # c => Answering(d)'
      BY <2>1, <2>2, <2>3, AnsweringKept
    <2>5. Asked(events[c], Len(events[c]), turn'.input)
      BY <1>6, RetryAsked
    <2>6. Answering(c)'
      BY <2>1, <2>2, <2>5 DEF Answering
    <2> QED
      BY <2>4, <2>6
  <1>7. CASE Talk!TurnAway \/ Talk!LeaveUnsent \/ Talk!FailAttempt \/ Talk!CloseAttempt
             \/ Talk!FileResult
    BY <1>2, <1>7 DEF Talk!TurnAway, Talk!LeaveUnsent, Talk!FailAttempt, Talk!CloseAttempt,
         Talk!FileResult, Talk!At, Talk!Return
  <1>8. CASE Writer
    BY <1>1, <1>8, WriterWrites
  <1> QED
    BY <1>3, <1>4, <1>5, <1>6, <1>7, <1>8, NoStop DEF Writer, Talk!Next, Rooms, Statuses

\* The answers behind the last message asked are to it: as many as its exchanges at most.
LEMMA AnswersBehind ==
    ASSUME TalkInv, NEW c \in Rooms, Numbered(events[c]), Answering(c),
           NEW i \in DOMAIN events[c], NEW m, events[c][i] = Talk!User(m),
           \A j \in i + 1 .. Len(events[c]) : events[c][j].kind # "user",
           ~Reached(c, {"completeOutput", "exchange"})
    PROVE  Cardinality({j \in i + 1 .. Len(events[c]) : Talk!IsMessage(events[c][j])}) <=
               Cardinality({k \in DOMAIN exchanges[c] : exchanges[c][k].input = m})
  <1> DEFINE s == events[c]
             x == exchanges[c]
             J == {j \in i + 1 .. Len(s) : Talk!IsMessage(s[j])}
             K == {k \in DOMAIN x : x[k].input = m}
             For(j) == CHOOSE k \in K : x[k].output = s[j].m
             f == [j \in J |-> For(j)]
  <1>1. /\ s \in Seq(Talk!Event) /\ DOMAIN s = 1 .. Len(s) /\ Len(s) \in Nat
        /\ x \in Seq(Talk!Exchange) /\ DOMAIN x = 1 .. Len(x) /\ Len(x) \in Nat
    BY LenProperties DEF TalkInv, Talk!TypeOK, Rooms
  <1>2. /\ i \in DOMAIN s /\ s[i] = Talk!User(m) /\ s[i].kind = "user"
        /\ \A j \in i + 1 .. Len(s) : s[j].kind # "user"
        /\ \A j \in Marks(s, {"assistant"}) :
               \E k \in DOMAIN x : x[k].output = s[j].m /\ Asked(s, j, x[k].input)
        /\ \A j, k \in Marks(s, Messaging) : s[j].m = s[k].m => j = k
    BY DEF Answering, Numbered, Talk!User
  <1>3. IsFiniteSet(K) /\ Cardinality(K) \in Nat
    <2>1. K \subseteq 1 .. Len(x)
      BY <1>1
    <2>2. IsFiniteSet(1 .. Len(x))
      BY <1>1, FS_Interval
    <2> HIDE DEF K
    <2> QED
      BY <2>1, <2>2, FS_Subset, FS_CardinalityType
  <1>4. IsFiniteSet(J)
    <2>1. J \subseteq 1 .. Len(s)
      BY <1>1, <1>2
    <2>2. IsFiniteSet(1 .. Len(s))
      <3>1. \A n \in Nat : IsFiniteSet(1 .. n)
        BY FS_Interval
      <3> QED
        BY <1>1, <3>1
    <2> HIDE DEF J
    <2> QED
      BY <2>1, <2>2, FS_Subset
  <1>5. \A j \in J : j \in DOMAIN s /\ j > i /\ j \in Marks(s, {"assistant"}) /\ j \in Marks(s, Messaging)
    <2> HIDE DEF s
    <2> QED
      BY <1>1, <1>2 DEF Marks, Messaging, Talk!IsMessage
  <1> HIDE DEF s, x
  <1>6. ASSUME NEW j \in J PROVE \E k \in K : x[k].output = s[j].m
    <2>1. PICK k \in DOMAIN x : x[k].output = s[j].m /\ Asked(s, j, x[k].input)
      BY <1>2, <1>5, <1>6
    <2>2. PICK n \in 1 .. j : /\ s[n] = Talk!User(x[k].input)
                              /\ \A l \in n + 1 .. j : s[l].kind # "user"
      BY <2>1 DEF Asked
    <2>3. s[n].kind = "user" /\ s[n].m = x[k].input
      BY <2>2 DEF Talk!User
    <2>4. j \in 1 .. Len(s) /\ j > i /\ i \in 1 .. Len(s) /\ Len(s) \in Nat
      BY <1>1, <1>2, <1>5, <1>6
    <2>5. ~(n > i)
      BY <1>2, <2>3, <2>4
    <2>6. ~(i > n)
      BY <1>2, <2>2, <2>4
    <2>7. n = i
      BY <2>4, <2>5, <2>6
    <2>8. s[i].m = m
      BY <1>2 DEF Talk!User
    <2> QED
      BY <2>1, <2>3, <2>7, <2>8
  <1> HIDE DEF J, K
  <1>7. \A j \in J : For(j) \in K /\ x[For(j)].output = s[j].m
    BY <1>6
  <1>8. f \in [J -> K] /\ \A j \in J : f[j] = For(j)
    <2> HIDE DEF For
    <2> QED
      BY <1>7
  <1>9. \A j, k \in J : f[j] = f[k] => j = k
    <2> HIDE DEF For, f
    <2> QED
      BY <1>2, <1>5, <1>7, <1>8
  <1>10. Cardinality(J) <= Cardinality(K)
    <2>1. f \in Injection(J, K)
      <3> HIDE DEF f
      <3> QED
        BY <1>8, <1>9 DEF Injection, IsInjective
    <2> HIDE DEF f
    <2> QED
      BY <1>3, <1>4, <2>1, FS_Injection DEF ExistsInjection
  <1> QED
    BY <1>10 DEF J, K, s, x

\* The context of an attempt holds what it is to answer.
LEMMA PromptShows ==
    ASSUME TalkInv, Talk!RecordAttempt, \A c \in Rooms : Numbered(events[c]),
           used.stops = 0 /\ used.steps = 0 => \A c \in Rooms : Answering(c)
    PROVE  Talk!PromptHasInput'
  <1>1. /\ turn.pc = "attempt" /\ turn \in Turn /\ turn.c \in Rooms /\ turn # Talk!Idle
        /\ UNCHANGED <<events, exchanges, used>> /\ turn'.c = turn.c /\ turn'.input = turn.input
    BY AttemptRecorded
  <1>2. PICK c \in Rooms : c = turn.c
    BY <1>1
  <1> DEFINE m == turn.input
             K == {k \in DOMAIN exchanges[c] : exchanges[c][k].input = m}
  <1> SUFFICES ASSUME used.steps = 0, used.stops = 0, Cardinality(K) < 3
               PROVE  m \in turn'.shown
    <2>1. Talk!Cardinality(K) = Cardinality(K)
      BY SameCount
    <2> QED
      BY <1>1, <1>2, <2>1 DEF Talk!PromptHasInput
  <1>3. Answering(c) /\ Numbered(events[c])
    OBVIOUS
  <1>4. Asked(events[c], Len(events[c]), m)
    BY <1>1, <1>2, <1>3 DEF Answering, Reached
  <1>5. PICK i \in 1 .. Len(events[c]) :
            /\ events[c][i] = Talk!User(m)
            /\ \A j \in i + 1 .. Len(events[c]) : events[c][j].kind # "user"
    BY <1>4 DEF Asked
  <1> DEFINE J == {j \in i + 1 .. Len(events[c]) : Talk!IsMessage(events[c][j])}
  <1>6. Cardinality(J) <= Cardinality(K)
    <2>1. i \in DOMAIN events[c]
      BY LenProperties DEF TalkInv, Talk!TypeOK, Rooms
    <2>2. ~Reached(c, {"completeOutput", "exchange"})
      BY <1>1 DEF Reached
    <2> QED
      BY <1>3, <1>5, <2>1, <2>2, AnswersBehind
  <1>7. Cardinality(J) \in Nat /\ Cardinality(K) \in Nat
    <2>1. Len(events[c]) \in Nat /\ Len(exchanges[c]) \in Nat /\ DOMAIN exchanges[c] = 1 .. Len(exchanges[c])
      BY LenProperties DEF TalkInv, Talk!TypeOK, Rooms
    <2>2. IsFiniteSet(1 .. Len(events[c])) /\ IsFiniteSet(1 .. Len(exchanges[c]))
      <3>1. \A n \in Nat : IsFiniteSet(1 .. n)
        BY FS_Interval
      <3> QED
        BY <2>1, <3>1
    <2>3. J \subseteq 1 .. Len(events[c]) /\ K \subseteq 1 .. Len(exchanges[c])
      BY <2>1
    <2> HIDE DEF J, K
    <2> QED
      BY <2>2, <2>3, FS_Subset, FS_CardinalityType
  <1>8. PICK limit \in Talk!Limits :
            turn' = [turn EXCEPT !.pc = "provider",
                                 !.shown = {events[turn.c][n].m : n \in Talk!Recent(turn.c, limit)}]
    BY DEF Talk!RecordAttempt
  <1>9. turn'.shown = {events[turn.c][n].m : n \in Talk!Recent(turn.c, limit)}
    BY <1>1, <1>8 DEF Turn
  <1>10. i \in Talk!Recent(c, limit)
    <2>1. Cardinality(J) < limit
      <3>1. limit \in {24, 12, 6, 3}
        BY DEF Talk!Limits
      <3> HIDE DEF J, K
      <3> QED
        BY <1>6, <1>7, <3>1
    <2>2. Talk!Cardinality(J) < limit
      BY <2>1, SameCount
    <2>3. i \in DOMAIN events[c] /\ Talk!IsMessage(events[c][i])
      BY <1>5, LenProperties DEF TalkInv, Talk!TypeOK, Rooms, Talk!IsMessage, Talk!User
    <2> QED
      BY <2>2, <2>3 DEF Talk!Recent
  <1>11. events[c][i].m = m
    BY <1>5 DEF Talk!User
  <1>12. i \in Talk!Recent(turn.c, limit) /\ events[turn.c][i].m = m
    BY <1>2, <1>10, <1>11
  <1> QED
    <2>1. events[turn.c][i].m \in {events[turn.c][n].m : n \in Talk!Recent(turn.c, limit)}
      BY <1>12, Zenon
    <2> HIDE DEF m
    <2>2. m \in {events[turn.c][n].m : n \in Talk!Recent(turn.c, limit)}
      BY <1>12, <2>1, Zenon
    <2> QED
      BY <1>9, <2>2, Zenon

\* The prompt of an attempt shows the message it is to answer, and an answer is to what was
\* asked, as long as nothing stopped half way and the clock did not step back.
THEOREM AnswerHolds == Talk!Spec => []AnswerInv
  <1>1. Talk!Init => AnswerInv
    <2> SUFFICES ASSUME Talk!Init PROVE AnswerInv
      OBVIOUS
    <2>1. turn = Talk!Idle /\ \A c \in Rooms : events[c] = <<>>
      BY DEF Talk!Init, Rooms
    <2>2. Talk!PromptHasInput
      BY <2>1 DEF Talk!PromptHasInput, Talk!At, Talk!Idle
    <2> QED
      BY <2>1, <2>2 DEF AnswerInv, Answering, Reached, Marks
  <1>2. TalkInv /\ CountInv /\ AnswerInv /\ [Talk!Next]_(Talk!vars) => AnswerInv'
    <2> SUFFICES ASSUME TalkInv, CountInv, AnswerInv, [Talk!Next]_(Talk!vars) PROVE AnswerInv'
      OBVIOUS
    <2>1. CASE UNCHANGED Talk!vars
      <3>1. UNCHANGED <<events, attempts, exchanges, routed, turn, used>>
        BY <2>1 DEF Talk!vars
      <3>2. Talk!PromptHasInput'
        BY <3>1 DEF AnswerInv, Talk!PromptHasInput, Talk!At, Talk!Chatting
      <3> QED
        BY <3>1, <3>2 DEF AnswerInv, Answering, Reached
    <2>2. CASE Talk!Next
      <3>1. Talk!PromptHasInput'
        <4>1. CASE Talk!RecordAttempt
          BY <4>1, PromptShows DEF AnswerInv, CountInv
        <4>2. CASE ~Talk!RecordAttempt
          <5>1. ~(turn'.pc = "provider" /\ turn'.op \in {"send", "retry"})
            <6>1. ASSUME NEW e \in Talk!Event, Writing(e) PROVE turn'.pc # "provider"
              BY <6>1 DEF Writing, Following, Talk!Event, Talk!Idle
            <6>2. CASE Talk!FileMessage
              BY <6>2, MessageFiled
            <6>3. CASE Talk!RecordExchange
              BY <6>3, ExchangeRecorded
            <6>4. CASE \/ Talk!TurnAway \/ Talk!LeaveUnsent \/ Talk!FailAttempt
                       \/ Talk!CloseAttempt \/ Talk!FileResult \/ Talk!Stop
              BY <6>4 DEF Talk!TurnAway, Talk!LeaveUnsent, Talk!FailAttempt,
                   Talk!CloseAttempt, Talk!FileResult, Talk!Stop, Talk!Return, Talk!Idle
            <6>5. ASSUME NEW c \in Rooms,
                         \/ \E pc \in {"begin", "beginLinked"} : Talk!Create(c, pc)
                         \/ Talk!Send(c) \/ Talk!Retry(c) \/ Talk!Route(c)
                  PROVE  turn'.pc # "provider"
              BY <6>5 DEF Talk!Create, Talk!Send, Talk!Retry, Talk!Route, Talk!Begin, Talk!Idle
            <6> QED
              BY <2>2, <4>2, <6>1, <6>2, <6>3, <6>4, <6>5, WriterWrites
              DEF Writer, Talk!Next, Rooms, Statuses
          <5> QED
            BY <5>1 DEF Talk!PromptHasInput, Talk!At, Talk!Chatting
        <4> QED
          BY <4>1, <4>2
      <3>2. ASSUME used'.stops = 0, used'.steps = 0 PROVE \A c \in Rooms : Answering(c)'
        <4>1. used.stops = 0
          BY <2>2, <3>2, NoStop
        <4>2. used.steps = 0
          <5>1. used \in [calls : Nat, stops : Nat, steps : Nat]
            BY DEF TalkInv, Talk!TypeOK
          <5>2. ASSUME NEW e \in Talk!Event, Writing(e) PROVE used.steps = 0
            <6>1. turn.c \in Rooms
              BY <5>2, AtWork DEF Writing, TalkInv
            <6> QED
              BY <3>2, <5>2, <6>1, Appended DEF Writing, TalkInv
          <5>3. CASE ~Writer
            BY <2>2, <3>2, <5>1, <5>3
            DEF Writer, Talk!Next, Rooms, Statuses, Talk!FileMessage, Talk!RecordAttempt,
                Talk!TurnAway, Talk!LeaveUnsent, Talk!FailAttempt, Talk!RecordExchange,
                Talk!CloseAttempt, Talk!FileResult, Talk!Stop, Talk!Create, Talk!Send,
                Talk!Retry, Talk!Route, Talk!Begin
          <5> QED
            BY <5>2, <5>3, WriterWrites
        <4> QED
          BY <2>2, <3>2, <4>1, <4>2, AnsweringStep DEF AnswerInv
      <3> QED
        BY <3>1, <3>2 DEF AnswerInv
    <2> QED
      BY <2>1, <2>2
  <1> QED
    BY <1>1, <1>2, TalkHolds, CountHolds, PTL DEF Talk!Spec

-----------------------------------------------------------------------------
(* The part that runs *)

\* The part that runs follows its own specification, and so does the one that rests.
LEMMA PartsRun == ContinuitySpec => Spec /\ Talk!Spec
  <1>1. Start => Init /\ Talk!Init
    BY DEF Start
  <1>2. [Step]_continuity => [Next]_vars
    BY DEF Step, continuity
  <1>3. [Step]_continuity => [Talk!Next]_(Talk!vars)
    <2> SUFFICES ASSUME [Step]_continuity PROVE Talk!Next \/ UNCHANGED Talk!vars
      OBVIOUS
    <2>1. UNCHANGED talkVars => UNCHANGED Talk!vars
      BY DEF talkVars, Talk!vars
    <2> QED
      BY <2>1 DEF Step, continuity
  <1> QED
    BY <1>1, <1>2, <1>3, PTL DEF ContinuitySpec, Spec, Talk!Spec

\* What was imported can be found again, whatever else the store is used for.
THEOREM ImportsHold == ContinuitySpec => []ImportsFound
  <1>1. ImportsAreFound => ImportsFound
    BY DEF ImportsFound
  <1> QED
    BY <1>1, PartsRun, ImportsStay, PTL

\* Whatever stops half way, the conversations with providers can be read, and a routed
\* message is in one that names its Work.
THEOREM ReadableHolds == ContinuitySpec => []ConversationsAreReadable
  <1>1. TalkInv => ConversationsAreReadable
    BY DEF TalkInv, ConversationsAreReadable, Talk!ConversationsAreReadable
  <1> QED
    BY <1>1, PartsRun, TalkHolds, PTL

\* Attempts, exchanges, answers and results account for each other: one by one when a
\* call stopped half way, and in number as long as none did.
THEOREM AccountsHold == ContinuitySpec => []AnswersAreAccounted
  <1>1. TalkInv /\ CountInv => AnswersAreAccounted
    BY BackedIsOne, BalanceIsAccount DEF AnswersAreAccounted, Talk!AnswersAreAccounted
  <1> QED
    BY <1>1, PartsRun, TalkHolds, CountHolds, PTL

\* The prompt of an attempt shows the message it is to answer, from however long a
\* conversation it was cut.
THEOREM PromptHolds == ContinuitySpec => []PromptHasInput
  <1>1. AnswerInv => PromptHasInput
    BY DEF AnswerInv, PromptHasInput
  <1> QED
    BY <1>1, PartsRun, AnswerHolds, PTL
=============================================================================
