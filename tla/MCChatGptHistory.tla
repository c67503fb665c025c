-------------------------- MODULE MCChatGptHistory --------------------------
EXTENDS ChatGptHistory, TLC

CONSTANTS first, later, renamed, c1, c2, m1, m2, m3

\* Three exports of one account.  The later one has a new message in c1 and a
\* new conversation; the last one only another title for c1.
Exports ==
    [s \in {first, later, renamed} |->
        IF s = first THEN c1 :> [print |-> "short", messages |-> {m1}]
        ELSE IF s = later THEN c1 :> [print |-> "long", messages |-> {m1, m2}]
                               @@ c2 :> [print |-> "other", messages |-> {m3}]
        ELSE c1 :> [print |-> "titled", messages |-> {m1, m2}]]
=============================================================================
