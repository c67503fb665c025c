------------------------------- MODULE Library -------------------------------
(***************************************************************************)
(* What combe-state makes from the records of the Works: the context graph  *)
(* (ContextGraph), the package of a send (ContextAssembly), what asks for   *)
(* attention (Attention); and whom a send can go to (ProviderRegistry).     *)
(*                                                                          *)
(* Each module takes of the other records what it needs of them, freely     *)
(* chosen; so a behaviour here is one of a single part, chosen at the       *)
(* start, and the others rest.                                              *)
(***************************************************************************)
EXTENDS ContextAssembly

CONSTANTS
    Works, Conversations, Writers, MaxRecords, MaxWatched,              \* ContextGraph
    Asked, Limit, MaxLog,                                               \* Attention
    Profiles, Recipients, Window, Commands                              \* ProviderRegistry

VARIABLES
    part,    \* the part that runs
    order, records, present, stored, writer, raced, silent,             \* ContextGraph
    log, status, open, healthy,                                         \* Attention
    profiles, recipients, keys, job, gone, crossed, torn                \* ProviderRegistry

graphVars    == <<order, records, present, stored, writer, raced, silent>>
askVars      == <<log, status, open, healthy>>
registryVars == <<profiles, recipients, keys, job, gone, crossed, torn>>
library == <<part, graphVars, vars, askVars, registryVars>>

Graph    == INSTANCE ContextGraph
Ask      == INSTANCE Attention
Registry == INSTANCE ProviderRegistry WITH raced <- crossed

\* Bounds are numbers.
ASSUME AttentionAssumption == Limit \in Nat /\ MaxLog \in Nat

\* There are as many Works as conversations, or more, and no Work is None.
ASSUME GraphAssumption ==
    /\ IsFiniteSet(Works) /\ Works # {} /\ None \notin Works
    /\ \E k \in [Conversations -> Works] : Graph!IsInjective(k)

\* Identifiers are given out once, the window is no process of the command line, and
\* nothing that is stored or under way is None.
ASSUME RegistryAssumption ==
    /\ Profiles \cap Recipients = {} /\ Window \notin Commands
    /\ None \notin Profiles \cup Recipients
    /\ None \notin Registry!ProfileRecord \cup Registry!RecipientRecord \cup Registry!Jobs

\* A part that rests is in one of its initial states.
Start ==
    /\ part \in {"graph", "assembly", "attention", "registry"}
    /\ Graph!Init /\ (part # "graph" => order[1] = (CHOOSE w \in Works : TRUE) /\ records = {})
    /\ Init /\ (part # "assembly" =>
                   /\ \A p \in Paths : disk[p] = "small" /\ score[p] = 0
                   /\ attached = {} /\ objective = 1)
    /\ Ask!Init
    /\ Registry!Init

Step ==
    /\ UNCHANGED part
    /\ \/ part = "graph" /\ Graph!Next /\ UNCHANGED <<vars, askVars, registryVars>>
       \/ part = "assembly" /\ Next /\ UNCHANGED <<graphVars, askVars, registryVars>>
       \/ part = "attention" /\ Ask!Next /\ UNCHANGED <<graphVars, vars, registryVars>>
       \/ part = "registry" /\ Registry!Next /\ UNCHANGED <<graphVars, vars, askVars>>

LibrarySpec == Start /\ [][Step]_library

-----------------------------------------------------------------------------
(* The properties of the parts that ContextAssembly does not have. *)

\* The bounds of a traversal: those of docs/CONTEXT_GRAPH.md, out of reach here, and
\* two that cut this small graph off.
Default == [depth |-> 3, nodes |-> 100, edges |-> 100, bytes |-> 200, messages |-> 50, scope |-> None]
Options == {Default, [Default EXCEPT !.depth = 2, !.bytes = 8],
            [Default EXCEPT !.edges = 5, !.messages = 0]}

\* ContextGraph: the graph that is stored is the one of the records, unless a race.
GraphFollowsRecords == part = "graph" => Graph!TypeOK /\ Graph!HealthyUnlessRaced

\* ContextGraph: a traversal has what is near, joined to its root, or says it was cut; a
\* Work's context has its own files and nothing of another Work.
ContextIsOwn ==
    part = "graph" =>
        /\ Graph!TraversalIsExact(Options)
        /\ Graph!UnrelatedStaysOut(Default)
        /\ Graph!OwnFilesAreFound(Default)

\* Attention: a Work is called done only when all of it is done and reviewed, and a
\* failure that was answered is not shown.
AttentionIsTrue ==
    part = "attention" => Ask!TypeOK /\ Ask!CompletionIsTrue /\ Ask!RetriesResolve

\* Attention: what was answered is not asked again.
AnsweredStaysAnswered == Ask!AnsweredStaysAnswered

\* ProviderRegistry: the profile of a recipient is stored, no late update brings a
\* deleted record back, and the Keychain has the keys of the profiles that say so,
\* each unless one of the races and failures named there.
RegistryAgrees ==
    part = "registry" =>
        /\ Registry!TypeOK
        /\ Registry!ProfilesGoUnusedUnlessRaced
        /\ Registry!DeletedStaysDeleted
        /\ Registry!KeysFollowProfiles
=============================================================================
