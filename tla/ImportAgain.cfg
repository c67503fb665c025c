\* An import after a delete.
CONSTANTS
    first = first
    later = later
    renamed = renamed
    c1 = c1
    c2 = c2
    m1 = m1
    m2 = m2
    m3 = m3
    Sources = {first, later, renamed}
    Conversations = {c1, c2}
    Messages = {m1, m2, m3}
    Prints = {"short", "long", "titled", "other"}
    Export <- Exports
    None = None
    MaxImports = 3
    MaxDeletes = 1
    MaxCrashes = 0
SPECIFICATION Spec
INVARIANTS
    ImportAddsUnseen
CHECK_DEADLOCK FALSE
