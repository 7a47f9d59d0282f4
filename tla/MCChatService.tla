--------------------------- MODULE MCChatService ---------------------------
(* A small instance of ChatService for TLC. *)
EXTENDS ChatService

MCSizeOf == [e \in 1..MaxPublish |-> 1]
MCPartners == [r \in Direct |-> Users]
=============================================================================
