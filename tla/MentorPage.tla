------------------------------- MODULE MentorPage -------------------------------
(* The AI mentor: conversations kept in the browser's storage, one question     *)
(* under way at a time, whose answer goes to the conversation that asked it     *)
(* whatever is open by then.                                                    *)
EXTENDS Naturals, Sequences, FiniteSets

CONSTANTS
    Chats,          \* ids of conversations
    MaxMessages     \* messages of a conversation

VARIABLE ui

NoChat == "none"
Messages == UNION {[1..n -> {"user", "ai", "error"}] : n \in 0..MaxMessages}

\* A conversation that is not there has no messages; asking is the conversation
\* of the question under way, and kept whether it has been cleared since.
TypeOK ==
    ui \in [there : SUBSET Chats, msgs : [Chats -> Messages], active : Chats \cup {NoChat},
            stored : SUBSET Chats, asking : Chats \cup {NoChat}, sending : BOOLEAN,
            renaming : Chats \cup {NoChat}, cleared : SUBSET Chats]

--------------------------------------------------------------------------------
\* The effect of the conversations: a list that is not empty is stored.
stored(u) == [u EXCEPT !.stored = IF u.there # {} THEN u.there ELSE @]

\* With the welcome message only, which is not counted here.
makeFreshConversation(u, c) ==
    stored([u EXCEPT !.there = @ \cup {c}, !.msgs[c] = <<>>, !.active = c, !.cleared = @ \ {c}])

\* Ids are never used again: here, not while a question of theirs is under way.
NewChats(u) == (Chats \ u.there) \ {u.asking}

\* The stored conversations are opened, with a fresh one in front.
Init ==
    \E s \in SUBSET Chats, c \in Chats \ {NoChat} :
        /\ c \notin s
        /\ ui = makeFreshConversation(
                    [there |-> s, msgs |-> [x \in Chats |-> IF x \in s THEN <<"user">> ELSE <<>>],
                     active |-> NoChat, stored |-> s, asking |-> NoChat, sending |-> FALSE,
                     renaming |-> NoChat, cleared |-> {}], c)

createNewConversation ==
    /\ ~ui.sending
    /\ \E c \in NewChats(ui) : ui' = makeFreshConversation([ui EXCEPT !.renaming = NoChat], c)

updateConversation(u, c, msgs) == IF c \in u.there THEN stored([u EXCEPT !.msgs[c] = msgs]) ELSE u

\* A question of the composer, or the last one again.
askMentor(appendUser) ==
    /\ ~ui.sending /\ Len(ui.msgs[ui.active]) + 1 < MaxMessages
    /\ LET u == IF appendUser
                THEN updateConversation(ui, ui.active, Append(ui.msgs[ui.active], "user")) ELSE ui
       IN  ui' = [u EXCEPT !.sending = TRUE, !.asking = ui.active]

retryLastPrompt ==
    /\ \E i \in DOMAIN ui.msgs[ui.active] : ui.msgs[ui.active][i] = "user"
    /\ askMentor(FALSE)

\* Not disabled while a question is under way.
clearConversation ==
    ui' = [updateConversation(ui, ui.active, <<>>) EXCEPT !.cleared = @ \cup {ui.active}]

\* The last one is replaced by a fresh one; else another one is opened if need be.
deleteConversation(c) ==
    /\ ~ui.sending /\ c \in ui.there
    /\ LET u == stored([ui EXCEPT !.there = @ \ {c}, !.msgs[c] = <<>>, !.cleared = @ \ {c},
                                  !.renaming = IF @ = c THEN NoChat ELSE @])
       IN  IF u.there = {} THEN \E n \in NewChats(ui) : ui' = makeFreshConversation(u, n)
           ELSE \E n \in u.there : ui' = [u EXCEPT !.active = IF @ = c THEN n ELSE @]

openConversation(c) == c \in ui.there /\ ui' = [ui EXCEPT !.active = c]

startRenameConversation(c) == ~ui.sending /\ c \in ui.there /\ ui' = [ui EXCEPT !.renaming = c]
endRename == ui.renaming # NoChat /\ ui' = [ui EXCEPT !.renaming = NoChat]

\* The reply or an error is put at the end of the conversation that asked.
MentorAnswers ==
    /\ ui.sending
    /\ \E m \in {"ai", "error"} :
         ui' = [updateConversation(ui, ui.asking, Append(ui.msgs[ui.asking], m))
                EXCEPT !.sending = FALSE, !.asking = NoChat]

Answers == MentorAnswers

Next ==
    \/ Answers \/ createNewConversation \/ askMentor(TRUE) \/ retryLastPrompt
    \/ clearConversation \/ endRename
    \/ \E c \in Chats : deleteConversation(c) \/ openConversation(c) \/ startRenameConversation(c)

--------------------------------------------------------------------------------
NothingLocked == ui.sending => ui.asking # NoChat

\* The open conversation exists and everything that exists is stored; no reply is
\* found in a conversation that did not ask for it, unless it was cleared while
\* the question was under way.
ShownIsTrue ==
    /\ ui.active \in ui.there /\ ui.stored = ui.there
    /\ \A c \in ui.there \ ui.cleared : ui.msgs[c] # <<>> => Head(ui.msgs[c]) = "user"
================================================================================
