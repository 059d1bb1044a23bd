--------------------------- MODULE MCSessionRouting ---------------------------
(* Instances of SessionRouting for TLC.                                       *)
EXTENDS SessionRouting, MessageGroups, MessageScroll

CONSTANTS o, n  \* a session the server has, and a key for a new one

(* States that no invariant can tell apart, now or later, are one for TLC:   *)
(* the phase of a muddled session is read nowhere, and once exposed is TRUE  *)
(* it stays so and what is foreign does not matter.                          *)
View ==
    <<server, creating, hydrate, ready, list, active, sticky, typing, working \ muddled, reveal,
      turn, events, used, muddled, exposed,
      IF exposed THEN <<>> ELSE <<exchanged, foreign, created>>>>
=============================================================================
