--------------------------- MODULE MessageIntake ---------------------------
(***************************************************************************)
(* What sending a message promises, without tabs, sockets or retries:      *)
(* a message the user submits is stored at most once between two           *)
(* deletions of the history, the agent is prompted at most once each time  *)
(* the message is stored, and the user sees it confirmed only once it has  *)
(* been stored.  MessageDelivery implements this specification.            *)
(***************************************************************************)
EXTENDS Naturals

CONSTANT Msgs

VARIABLES
    submitted,  \* messages the user has sent off
    stored,     \* messages the server's table holds
    deletions,  \* deletions[m]: how often m's row was deleted
    prompts,    \* prompts[m]: how often the agent was prompted with m
    confirmed   \* messages shown to the user as delivered

vars == <<submitted, stored, deletions, prompts, confirmed>>

Init ==
    /\ submitted = {}
    /\ stored = {}
    /\ deletions = [m \in Msgs |-> 0]
    /\ prompts = [m \in Msgs |-> 0]
    /\ confirmed = {}

Submit(m) ==
    /\ m \notin submitted
    /\ submitted' = submitted \cup {m}
    /\ UNCHANGED <<stored, deletions, prompts, confirmed>>

\* The server takes a message that it does not hold; the agent may be
\* unreachable, and then the message is stored without prompting it.
Take(m) ==
    /\ m \in submitted \ stored
    /\ stored' = stored \cup {m}
    /\ \E n \in {0, 1} : prompts' = [prompts EXCEPT ![m] = @ + n]
    /\ UNCHANGED <<submitted, deletions, confirmed>>

Confirm(m) ==
    /\ m \in stored \/ deletions[m] > 0
    /\ confirmed' = confirmed \cup {m}
    /\ UNCHANGED <<submitted, stored, deletions, prompts>>

\* The history is cleared.
Forget ==
    /\ stored # {}
    /\ stored' = {}
    /\ deletions' = [m \in Msgs |-> deletions[m] + (IF m \in stored THEN 1 ELSE 0)]
    /\ UNCHANGED <<submitted, prompts, confirmed>>

Next ==
    \/ Forget
    \/ \E m \in Msgs : Submit(m) \/ Take(m) \/ Confirm(m)

Spec == Init /\ [][Next]_vars
=============================================================================
