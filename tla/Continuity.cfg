\* Imports and deletes of three overlapping exports, and one conversation of the window
\* and one of a Work; one call stops half way, the clock steps back once.
CONSTANTS
    first = first
    later = later
    renamed = renamed
    c1 = c1
    c2 = c2
    m1 = m1
    m2 = m2
    m3 = m3
    Sources = {first, later, renamed}
    Conversations = {c1, c2}
    Messages = {m1, m2, m3}
    Prints = {"short", "long", "titled", "other"}
    Export <- Exports
    None = None
    MaxImports = 3
    MaxDeletes = 2
    MaxCrashes = 1
    Chats = {chat}
    Works = {work}
    MaxCalls = 4
    MaxStops = 1
    MaxSteps = 1
SPECIFICATION ContinuitySpec
INVARIANTS NoDuplicates ImportsFound ConversationsAreReadable PromptHasInput AnswersAreAccounted
PROPERTIES DeletedWithItsImport
CHECK_DEADLOCK FALSE
