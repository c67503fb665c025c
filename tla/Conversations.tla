---------------------------- MODULE Conversations ----------------------------
(***************************************************************************)
(* Conversations with providers: the event log of AiContinuityStore        *)
(* (crates/combe-state/src/work_feltdb.rs), how a context is resolved from *)
(* it (ai_context.rs), and the two callers that talk to a provider between *)
(* two writes: ConversationRuntime (conversation_runtime.rs), which keeps  *)
(* an attempt per request, and RoutingService::send (provider_router.rs),  *)
(* which keeps a work message and its result.                              *)
(*                                                                         *)
(* One call runs at a time: the window makes them on its main thread, the  *)
(* command owns the database.  Each write of a call is a step, and a call  *)
(* may stop after any of them, because the process dies or a write fails.  *)
(* Texts, usage, fingerprints and the context graph are left out.          *)
(***************************************************************************)
EXTENDS Naturals, FiniteSets, SequencesExt

CONSTANTS
    Chats,      \* conversations of ConversationRuntime
    Works,      \* conversations "work:<id>" of RoutingService
    MaxCalls,   \* bound: calls the user makes
    MaxStops,   \* bound: calls that stop half way
    MaxSteps    \* bound: events stamped earlier than an event stored before

Conversation == Chats \cup Works

VARIABLES
    events,     \* per conversation, the events in the order of ai_events()
    attempts,   \* per conversation, its AiResponseAttempts
    exchanges,  \* per conversation, its AiProviderExchanges
    routed,     \* per conversation, the result of each of its WorkMessages
    call,       \* the call in progress
    done        \* counts the bounds above

vars == <<events, attempts, exchanges, routed, call, done>>

-----------------------------------------------------------------------------
(* The records *)

Begun == [kind |-> "begun", m |-> 0]
Linked == [kind |-> "linked", m |-> 0]
User(m) == [kind |-> "user", m |-> m]
Assistant(m) == [kind |-> "assistant", m |-> m]
Completed(m) == [kind |-> "completed", m |-> m]

Event == [kind : {"begun", "linked", "user", "assistant", "completed"}, m : Nat]
AttemptStatus == {"Started", "Completed", "Failed"}
ResultStatus == {"Completed", "ManualTransferRequired", "Failed"}
Attempt == [status : AttemptStatus, input : Nat, output : Nat]
Exchange == [input : Nat, output : Nat, status : ResultStatus]

Idle == [op |-> "none", c |-> "none", pc |-> "idle", input |-> 0, output |-> 0,
         outcome |-> "none", shown |-> {}]

Has(c, e) == \E i \in DOMAIN events[c] : events[c][i] = e
IsMessage(e) == e.kind \in {"user", "assistant"}

\* A message gets an identifier that no other has.
Fresh(c) == Cardinality({i \in DOMAIN events[c] : IsMessage(events[c][i])}) + 1

-----------------------------------------------------------------------------
(* The store *)

\* MUTANT of Place: events are ordered by their random identifiers.
AnyPlace(c, back) == 1 .. Len(events[c]) + 1

\* Where an event comes in the order of (occurred_at, id): last, unless the
\* wall clock stepped back or stood still since an earlier one.
Place(c, back) == IF back THEN 1 .. Len(events[c]) ELSE {Len(events[c]) + 1}

\* append_ai_event
AppendEvent(c, e) ==
    /\ events[c] = <<>> => e = Begun
    /\ e.kind = "completed" => Has(c, User(e.m)) \/ Has(c, Assistant(e.m))
    /\ \E back \in BOOLEAN :
        /\ back => done.steps < MaxSteps
        /\ done' = IF back THEN [done EXCEPT !.steps = @ + 1] ELSE done
        /\ \E i \in Place(c, back) : events' = [events EXCEPT ![c] = InsertAt(@, i, e)]

\* resolve_conversation_context replays the events in their order and fails at
\* a completion that comes before its message.
Readable(c) ==
    \A i \in DOMAIN events[c] : events[c][i].kind = "completed" =>
        \E j \in 1 .. i - 1 : IsMessage(events[c][j]) /\ events[c][j].m = events[c][i].m

\* MUTANT of Recent: one message too few.
OneShort(c, limit) ==
    {i \in DOMAIN events[c] :
        /\ IsMessage(events[c][i])
        /\ Cardinality({j \in i .. Len(events[c]) : IsMessage(events[c][j])}) < limit}

\* The positions of the last messages, as many as the limit allows.
Recent(c, limit) ==
    {i \in DOMAIN events[c] :
        /\ IsMessage(events[c][i])
        /\ Cardinality({j \in i + 1 .. Len(events[c]) : IsMessage(events[c][j])}) < limit}

\* resolve_with_limit halves the number of messages, after everything else,
\* until the context fits.
DefaultLimit == 24
Limits == {24, 12, 6, 3}

-----------------------------------------------------------------------------
(* The callers *)

Begin(op, c, pc) ==
    /\ call = Idle /\ done.calls < MaxCalls
    /\ call' = [Idle EXCEPT !.op = op, !.c = c, !.pc = pc]
    /\ done' = [done EXCEPT !.calls = @ + 1]

Goto(pc) == call' = [call EXCEPT !.pc = pc]
Return == call' = Idle
At(pc) == call.pc = pc
Chatting == call.op \in {"send", "retry"}

\* ConversationRuntime::create, with or without a Work to link.
Create(c, pc) ==
    /\ c \in Chats /\ events[c] = <<>> /\ pc \in {"begin", "beginLinked"}
    /\ Begin("create", c, pc)
    /\ UNCHANGED <<events, attempts, exchanges, routed>>

\* ConversationRuntime::send, from a window that could show the conversation.
Send(c) ==
    /\ c \in Chats /\ Has(c, Begun) /\ Readable(c)
    /\ Begin("send", c, "post")
    /\ UNCHANGED <<events, attempts, exchanges, routed>>

\* "Retry Last": the last user message among those shown.
Retry(c) ==
    /\ c \in Chats /\ Has(c, Begun) /\ Readable(c)
    /\ call = Idle /\ done.calls < MaxCalls
    /\ \E i \in Recent(c, DefaultLimit) :
        /\ events[c][i].kind = "user"
        /\ \A j \in Recent(c, DefaultLimit) : j > i => events[c][j].kind # "user"
        /\ call' = [Idle EXCEPT !.op = "retry", !.c = c, !.pc = "attempt",
                                !.input = events[c][i].m]
    /\ done' = [done EXCEPT !.calls = @ + 1]
    /\ UNCHANGED <<events, attempts, exchanges, routed>>

\* RoutingService::send opens the conversation of the Work if it is empty, and
\* links it if it is not linked yet.
NeedsLink(c) == ~Has(c, Linked)

Route(c) ==
    /\ c \in Works
    /\ Begin("route", c, IF ~NeedsLink(c) THEN "post"
                         ELSE IF events[c] = <<>> THEN "beginLinked" ELSE "link")
    /\ UNCHANGED <<events, attempts, exchanges, routed>>

Opened == IF call.op = "route" THEN Goto("post") ELSE Return

BeginConversation ==
    /\ call.pc \in {"begin", "beginLinked"}
    /\ AppendEvent(call.c, Begun)
    /\ IF At("beginLinked") THEN Goto("link") ELSE Opened
    /\ UNCHANGED <<attempts, exchanges, routed>>

LinkWork ==
    /\ At("link")
    /\ AppendEvent(call.c, Linked)
    /\ Opened
    /\ UNCHANGED <<attempts, exchanges, routed>>

PostInput ==
    /\ At("post")
    /\ AppendEvent(call.c, User(Fresh(call.c)))
    /\ call' = [call EXCEPT !.pc = "completeInput", !.input = Fresh(call.c)]
    /\ UNCHANGED <<attempts, exchanges, routed>>

CompleteInput ==
    /\ At("completeInput")
    /\ AppendEvent(call.c, Completed(call.input))
    /\ Goto(IF call.op = "route" THEN "file" ELSE "attempt")
    /\ UNCHANGED <<attempts, exchanges, routed>>

\* add_message
FileMessage ==
    /\ At("file")
    /\ routed' = [routed EXCEPT ![call.c] = Append(@, "none")]
    /\ Goto("provider")
    /\ UNCHANGED <<events, attempts, exchanges, done>>

\* attempt(): the context is resolved and the attempt recorded as Started.
RecordAttempt ==
    /\ At("attempt") /\ Readable(call.c)
    /\ attempts' = [attempts EXCEPT ![call.c] =
            Append(@, [status |-> "Started", input |-> call.input, output |-> 0])]
    /\ \E limit \in Limits :
        call' = [call EXCEPT !.pc = "provider", !.shown =
                    {events[call.c][i].m : i \in Recent(call.c, limit)}]
    /\ UNCHANGED <<events, exchanges, routed, done>>

\* The recipient or its profile cannot be used, the context cannot be resolved
\* or is too large: nothing is recorded.
TurnAway ==
    /\ At("attempt")
    /\ Return
    /\ UNCHANGED <<events, attempts, exchanges, routed, done>>

\* The credential or the adapter is missing: attempt() returns at once, and the
\* attempt stays as it is.
LeaveUnsent ==
    /\ At("provider") /\ Chatting
    /\ Return
    /\ UNCHANGED <<events, attempts, exchanges, routed, done>>

Latest(c) == Len(attempts[c])

FailAttempt ==
    /\ At("provider") /\ Chatting
    /\ attempts' = [attempts EXCEPT ![call.c][Latest(call.c)].status = "Failed"]
    /\ Return
    /\ UNCHANGED <<events, exchanges, routed, done>>

\* What the provider returned is stored as a message of the assistant; when a
\* message is routed, so is an error, that of a missing credential included.
Outcomes == IF Chatting THEN {"Completed"} ELSE ResultStatus

PostOutput(outcome) ==
    /\ At("provider") /\ outcome \in Outcomes
    /\ AppendEvent(call.c, Assistant(Fresh(call.c)))
    /\ call' = [call EXCEPT !.pc = "completeOutput", !.output = Fresh(call.c),
                            !.outcome = outcome]
    /\ UNCHANGED <<attempts, exchanges, routed>>

\* MUTANT of AfterOutput: the call is closed before the exchange is stored.
CloseFirst(o) == "close"

AfterOutput(o) == "exchange"

CompleteOutput ==
    /\ At("completeOutput")
    /\ AppendEvent(call.c, Completed(call.output))
    /\ Goto(AfterOutput(call))
    /\ UNCHANGED <<attempts, exchanges, routed>>

\* record_ai_exchange, which knows both messages.
Recordable(o) ==
    /\ Has(o.c, User(o.input)) \/ Has(o.c, Assistant(o.input))
    /\ Has(o.c, User(o.output)) \/ Has(o.c, Assistant(o.output))

RecordExchange ==
    /\ At("exchange") /\ Recordable(call)
    /\ exchanges' = [exchanges EXCEPT ![call.c] = Append(@,
            [input |-> call.input, output |-> call.output, status |-> call.outcome])]
    /\ Goto("close")
    /\ UNCHANGED <<events, attempts, routed, done>>

CloseAttempt ==
    /\ At("close") /\ Chatting
    /\ attempts' = [attempts EXCEPT ![call.c][Latest(call.c)] =
            [@ EXCEPT !.status = "Completed", !.output = call.output]]
    /\ Return
    /\ UNCHANGED <<events, exchanges, routed, done>>

\* add_provider_result
FileResult ==
    /\ At("close") /\ call.op = "route"
    /\ routed' = [routed EXCEPT ![call.c][Len(routed[call.c])] = call.outcome]
    /\ Return
    /\ UNCHANGED <<events, attempts, exchanges, done>>

Stop ==
    /\ call # Idle /\ done.stops < MaxStops
    /\ Return
    /\ done' = [done EXCEPT !.stops = @ + 1]
    /\ UNCHANGED <<events, attempts, exchanges, routed>>

-----------------------------------------------------------------------------
Init ==
    /\ events = [c \in Conversation |-> <<>>]
    /\ attempts = [c \in Conversation |-> <<>>]
    /\ exchanges = [c \in Conversation |-> <<>>]
    /\ routed = [c \in Conversation |-> <<>>]
    /\ call = Idle
    /\ done = [calls |-> 0, stops |-> 0, steps |-> 0]

Next ==
    \/ \E c \in Conversation :
        \/ \E pc \in {"begin", "beginLinked"} : Create(c, pc)
        \/ Send(c)
        \/ Retry(c)
        \/ Route(c)
    \/ BeginConversation
    \/ LinkWork
    \/ PostInput
    \/ CompleteInput
    \/ FileMessage
    \/ RecordAttempt
    \/ TurnAway
    \/ LeaveUnsent
    \/ FailAttempt
    \/ \E outcome \in ResultStatus : PostOutput(outcome)
    \/ CompleteOutput
    \/ RecordExchange
    \/ CloseAttempt
    \/ FileResult
    \/ Stop

Spec == Init /\ [][Next]_vars

-----------------------------------------------------------------------------
(* Properties *)

\* Every variable has its type; messages are numbered from one.
TypeOK ==
    /\ events \in [Conversation -> Seq(Event)]
    /\ attempts \in [Conversation -> Seq(Attempt)]
    /\ exchanges \in [Conversation -> Seq(Exchange)]
    /\ routed \in [Conversation -> Seq(ResultStatus \cup {"none"})]
    /\ done \in [calls : Nat, stops : Nat, steps : Nat]
    /\ \A c \in Conversation : \A i \in DOMAIN events[c] :
        events[c][i].kind \in {"begun", "linked"} <=> events[c][i].m = 0

\* As long as the clock never stepped back, a conversation can be read
\* whatever stopped half way: it starts with its ConversationCreated and
\* resolve_conversation_context finds every completed message.  (One completion
\* stamped before its message makes the conversation unreadable for good.)
ReadableInOrder ==
    done.steps = 0 =>
        \A c \in Conversation : events[c] # <<>> => events[c][1] = Begun /\ Readable(c)

\* The prompt of an attempt shows the message it is to answer, sent just now or
\* retried, even if the context was cut down to its smallest: as long as the
\* message was answered fewer than three times.  (Every retry after a success
\* adds an answer behind it, and three of them push it out of that context.)
PromptHasInput ==
    At("provider") /\ Chatting /\ done.steps = 0 /\ done.stops = 0
    /\ Cardinality({i \in DOMAIN exchanges[call.c] :
                       exchanges[call.c][i].input = call.input}) < 3
        => call.input \in call.shown

\* A routed message belongs to a conversation that names its Work, also when an
\* earlier call stopped between opening the conversation and linking it.
LinkedBeforeMessages ==
    done.steps = 0 =>
        \A c \in Works : \A i \in DOMAIN events[c] :
            IsMessage(events[c][i]) => \E j \in 1 .. i - 1 : events[c][j] = Linked

\* "Records the actual ... input, output" (docs/AI_CONTINUITY.md): a completed
\* attempt has one exchange of its own, and the answer that exchange names is
\* stored and complete; a result of a routed message has an exchange likewise.
Backing(c, a) == {i \in DOMAIN exchanges[c] :
                    exchanges[c][i].input = a.input /\ exchanges[c][i].output = a.output}

CompletedIsBacked ==
    \A c \in Conversation :
        /\ \A i \in DOMAIN attempts[c] : attempts[c][i].status = "Completed" =>
            /\ Cardinality(Backing(c, attempts[c][i])) = 1
            /\ Has(c, Assistant(attempts[c][i].output))
            /\ Has(c, Completed(attempts[c][i].output))
        /\ \A s \in ResultStatus :
            Cardinality({i \in DOMAIN routed[c] : routed[c][i] = s}) <=
                Cardinality({i \in DOMAIN exchanges[c] : exchanges[c][i].status = s})

\* As long as no call stopped half way: between calls every message is
\* complete, every answer is that of one completed attempt or routed message,
\* every exchange one of the answers, and every routed message has its result.
\* (An attempt may be left Started: the credential or the adapter was missing.)
Accounted ==
    call = Idle /\ done.stops = 0 =>
        \A c \in Conversation :
            LET answers == {i \in DOMAIN events[c] : events[c][i].kind = "assistant"}
                completed == {i \in DOMAIN attempts[c] : attempts[c][i].status = "Completed"}
            IN  /\ Cardinality(answers) = Len(exchanges[c])
                /\ Len(exchanges[c]) = Cardinality(completed) + Len(routed[c])
                /\ \A i \in DOMAIN routed[c] : routed[c][i] # "none"
                /\ \A i \in DOMAIN events[c] : IsMessage(events[c][i]) =>
                    Has(c, Completed(events[c][i].m))

\* Whatever stopped half way, a conversation can be read and a routed one names its
\* Work.
ConversationsAreReadable == TypeOK /\ ReadableInOrder /\ LinkedBeforeMessages

\* Attempts, exchanges, answers and results account for each other.
AnswersAreAccounted == CompletedIsBacked /\ Accounted
=============================================================================
