----------------------------- MODULE MCChatView -----------------------------
(* Small instances of ChatView for TLC: one for each part of the channel's *)
(* life, in one run.                                                       *)
EXTENDS ChatView

CONSTANTS f1, f2

Nothing == [own |-> 0, foreign |-> 0, changes |-> 0, files |-> {}, posts |-> 0,
            loads |-> 0, lives |-> 1, drops |-> 0, syncs |-> 0, chatty |-> FALSE]

\* A message, its retry and the crossing of both with echo, edit and deletion.
Sending == [Nothing EXCEPT !.own = 1, !.changes = 1, !.posts = 2, !.loads = 1]
\* Loads of the history that cross with messages and a new token.
Loading == [Nothing EXCEPT !.own = 1, !.foreign = 1, !.posts = 1, !.loads = 2,
                           !.lives = 2, !.drops = 1]
\* The count of unread messages, and the start-up's answers.
Reading == [Nothing EXCEPT !.foreign = 3, !.loads = 1, !.lives = 2, !.syncs = 2]
\* The composer, its files and its await.
Composing == [Nothing EXCEPT !.own = 2, !.files = {f1, f2}, !.posts = 2]
\* Typing indicators.
Typing == [Nothing EXCEPT !.foreign = 2, !.lives = 2, !.drops = 1, !.chatty = TRUE]

MCBounds == {Sending, Loading, Reading, Composing, Typing}
=============================================================================
