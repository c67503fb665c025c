\* Two Works and two conversations, three paths, one provider and its recipient.
CONSTANTS
    Works = {A, B}
    Conversations = {c1, c2}
    Writers = {p1, p2}
    MaxRecords = 2
    MaxWatched = 1
    Paths = {1, 2, 3}
    Sensitive = {3}
    MaxItems = 4
    MaxBytes = 7
    MaxReferences = 4
    MaxContent = 1
    MaxFile = 1
    Asked = {r1}
    Limit = 2
    MaxLog = 5
    Profiles = {f1}
    Recipients = {r1}
    Window = Window
    Commands = {c1}
    None = None
SPECIFICATION LibrarySpec
     
PROPERTIES AnsweredStaysAnswered
CHECK_DEADLOCK FALSE
