----------------------------- MODULE Continuity -----------------------------
(***************************************************************************)
(* The two writers of the conversation events: the import of exports        *)
(* (ChatGptHistory) and the conversations with providers (Conversations).   *)
(* The store keeps their conversations apart by their identifiers, and both *)
(* run on one thread, so that a behaviour here is one of a single part,     *)
(* chosen at the start, and the other rests.                                *)
(***************************************************************************)
EXTENDS MCChatGptHistory

CONSTANTS Chats, Works, MaxCalls, MaxStops, MaxSteps     \* Conversations

VARIABLES
    part,                                               \* the part that runs
    events, attempts, exchanges, routed, turn, used     \* Conversations

talkVars   == <<events, attempts, exchanges, routed, turn, used>>
continuity == <<part, vars, talkVars>>

ASSUME KindsDiffer == Chats \cap Works = {}

Talk == INSTANCE Conversations WITH call <- turn, done <- used

Start == part \in {"history", "talk"} /\ Init /\ Talk!Init

Step ==
    /\ UNCHANGED part
    /\ \/ part = "history" /\ Next /\ UNCHANGED talkVars
       \/ part = "talk" /\ Talk!Next /\ UNCHANGED vars

ContinuitySpec == Start /\ [][Step]_continuity

-----------------------------------------------------------------------------
(* The properties of the part that runs. *)

\* ChatGptHistory: what was imported can be found again.
ImportsFound == part = "history" => ImportsAreFound

\* A conversation can be read whatever stopped half way, and a routed one names its Work.
ConversationsAreReadable == part = "talk" => Talk!ConversationsAreReadable

\* The prompt of an attempt shows the message it is to answer.
PromptHasInput == part = "talk" => Talk!PromptHasInput

\* Attempts, exchanges, answers and results account for each other.
AnswersAreAccounted == part = "talk" => Talk!AnswersAreAccounted
=============================================================================
