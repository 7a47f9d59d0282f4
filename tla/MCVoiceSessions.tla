--------------------------- MODULE MCVoiceSessions ---------------------------
(* Small instances of VoiceSessions for TLC. *)
EXTENDS VoiceSessions, TLC

CONSTANTS c3, u1, u2, talker

\* Every connection is the first user's but the third, if there is one.
MCUserOf == [c \in Conn |-> IF c = c3 THEN u2 ELSE u1]

\* One connection, if it is there, turns its microphone on and off again.
MCToggles == [c \in Conn |-> IF c = talker THEN 2 ELSE 0]

VoiceSymmetry == Permutations(Conn \ {c3}) \cup Permutations(Channel)
=============================================================================
