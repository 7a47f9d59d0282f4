--------------------------- MODULE MCChatGateway ---------------------------
(* Small instances of ChatGateway for TLC. *)
EXTENDS ChatGateway, TLC

\* The third event is as large as the whole buffer may be: it evicts two.
MCSizeOf == [e \in 1..MaxPublish |-> IF e = 3 THEN 2 ELSE 1]

ConnSymmetry == Permutations(Conn)
=============================================================================
