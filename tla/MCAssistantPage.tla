--------------------------- MODULE MCAssistantPage ---------------------------
(* Instances of AssistantPage for TLC.                                        *)
EXTENDS AssistantPage, AssistantLists, TLC

CONSTANTS other, j, k, d, i, s, t  \* a second dashboard, item sessions, a deliverable, an item, timers

\* The chats are alike, and so are the timers.
Alike == Permutations({j, k}) \cup Permutations({s, t})
=============================================================================
