--------------------------- MODULE ReplyCollector ---------------------------
(***************************************************************************)
(* Voice requests: POST /api/siri/send (api/siri.ts), the ReplyCollector   *)
(* that waits for the agent's answer (siri/reply-collector.ts), the bridge *)
(* events that feed it (index.ts) and its two timers, with the agent as    *)
(* the environment.                                                        *)
(*                                                                         *)
(* A request is named by its msgId, numbered in the order of creation.     *)
(* Answers carry no msgId: the collector finds the request by the session. *)
(* The agent works off the prompts of a session in order, those of the     *)
(* dashboard among them, and ends each turn with a reply.                  *)
(***************************************************************************)
EXTENDS Naturals, Sequences, FiniteSets

CONSTANTS
    Sessions,     \* the sessions voice requests are sent to
    MaxActive,    \* MAX_ACTIVE_COLLECTORS
    MaxRequests,  \* bound on the accepted requests of a behaviour
    MaxPrompts    \* bound on the prompts the agent has yet to answer in a session

ASSUME CollectorBoundsAssumption ==
    MaxActive \in Nat /\ MaxRequests \in Nat /\ MaxPrompts \in Nat
ASSUME SessionsAssumption == Sessions # {}

Msgs == 1 .. MaxRequests
Dashboard == 0              \* a prompt that the dashboard sent to the session

VARIABLES
    accepted,    \* the number of requests accepted
    entry,      \* entry[m]: the CollectorEntry of m
    byMsgId,
    bySession,  \* bySession[s]: the request the session is mapped to, 0 if none
    agent       \* agent[s]: the prompts the agent has not answered, oldest first

collectorVars == <<accepted, entry, byMsgId, bySession, agent>>

Status == {"waiting", "streaming", "done", "error"}
Active(e) == e.status \in {"waiting", "streaming"}

\* answer is the prompt that the text of the entry answers.
EntryType == [status  : Status \cup {"unborn"},
              session : Sessions,
              timeout : BOOLEAN,   \* the 120 s timer is armed
              cleanup : BOOLEAN,   \* the 60 s timer is armed
              answer  : {Dashboard} \cup Msgs]

Unborn == [status |-> "unborn", session |-> CHOOSE s \in Sessions : TRUE,
           timeout |-> FALSE, cleanup |-> FALSE, answer |-> 0]

-----------------------------------------------------------------------------
(* The collector                                                            *)

\* The active entry that session s is mapped to, if any: an event of the session
\* is for it, and while there is one create() throws.
Addressee(s) == {m \in Msgs : m = bySession[s] /\ Active(entry[m])}

\* Mutant of ScheduleCleanup: the timer is forgotten.
ForgetCleanup(e) == e

ScheduleCleanup(e) == [e EXCEPT !.cleanup = TRUE]

Finalize(e, turn) ==
    ScheduleCleanup([e EXCEPT !.status = "done", !.answer = turn, !.timeout = FALSE])

-----------------------------------------------------------------------------
(* The server                                                               *)

\* activeCount < MAX_ACTIVE_COLLECTORS
Admits == Cardinality(byMsgId) < MaxActive

\* POST /api/siri/send.  Without a bridge client the send throws, after the
\* collector has been created.
Send(s, bridge) ==
    /\ Admits
    /\ Addressee(s) = {}
    /\ accepted < MaxRequests
    /\ Len(agent[s]) < MaxPrompts
    /\ accepted' = accepted + 1
    /\ entry' = [entry EXCEPT ![accepted + 1] =
                    [Unborn EXCEPT !.status = "waiting", !.session = s, !.timeout = TRUE]]
    /\ byMsgId' = byMsgId \cup {accepted + 1}
    /\ bySession' = [bySession EXCEPT ![s] = accepted + 1]
    /\ agent' = IF bridge THEN [agent EXCEPT ![s] = Append(@, accepted + 1)] ELSE agent

\* A message of the dashboard to the same session.
DashboardPrompt(s) ==
    /\ Len(agent[s]) < MaxPrompts
    /\ agent' = [agent EXCEPT ![s] = Append(@, Dashboard)]
    /\ UNCHANGED <<accepted, entry, byMsgId, bySession>>

\* The agent streams a chunk of its answer to its oldest prompt: onDelta.
Delta(s) ==
    /\ agent[s] # <<>>
    /\ entry' = [m \in Msgs |->
                    IF m \in Addressee(s) THEN [entry[m] EXCEPT !.status = "streaming"]
                                          ELSE entry[m]]
    /\ UNCHANGED <<accepted, byMsgId, bySession, agent>>

\* Mutant of Answer: every active entry of the session gets it.
AnswerToAll(s) ==
    /\ agent[s] # <<>>
    /\ agent' = [agent EXCEPT ![s] = Tail(@)]
    /\ entry' = [m \in Msgs |-> IF m \in byMsgId /\ Active(entry[m]) /\ entry[m].session = s
                               THEN Finalize(entry[m], Head(agent[s]))
                               ELSE entry[m]]
    /\ UNCHANGED <<accepted, byMsgId, bySession>>

\* The answer ends: onDone, or onReply for one that is not streamed.
Answer(s) ==
    /\ agent[s] # <<>>
    /\ agent' = [agent EXCEPT ![s] = Tail(@)]
    /\ entry' = [m \in Msgs |-> IF m \in Addressee(s) THEN Finalize(entry[m], Head(agent[s]))
                                                      ELSE entry[m]]
    /\ UNCHANGED <<accepted, byMsgId, bySession>>

\* 120 seconds after create(): markError.
TimeoutFires(m) ==
    /\ entry[m].timeout
    /\ entry' = [entry EXCEPT ![m] =
                    IF m \in byMsgId /\ Active(@)
                    THEN ScheduleCleanup([@ EXCEPT !.status = "error", !.timeout = FALSE])
                    ELSE [@ EXCEPT !.timeout = FALSE]]
    /\ UNCHANGED <<accepted, byMsgId, bySession, agent>>

\* Mutant of CollectorCleanupFires: only byMsgId is cleaned.
CleanupFiresHalf(m) ==
    /\ entry[m].cleanup
    /\ entry' = [entry EXCEPT ![m].cleanup = FALSE]
    /\ byMsgId' = byMsgId \ {m}
    /\ UNCHANGED <<accepted, bySession, agent>>

\* 60 seconds after the entry was settled; whatever the session is mapped to
\* by then is removed.
CollectorCleanupFires(m) ==
    /\ entry[m].cleanup
    /\ entry' = [entry EXCEPT ![m].cleanup = FALSE]
    /\ byMsgId' = byMsgId \ {m}
    /\ bySession' = [bySession EXCEPT ![entry[m].session] = 0]
    /\ UNCHANGED <<accepted, agent>>

-----------------------------------------------------------------------------
CollectorInit ==
    /\ accepted = 0
    /\ entry = [m \in Msgs |-> Unborn]
    /\ byMsgId = {}
    /\ bySession = [s \in Sessions |-> 0]
    /\ agent = [s \in Sessions |-> <<>>]

CollectorNext ==
    \/ \E s \in Sessions : \/ \E bridge \in BOOLEAN : Send(s, bridge)
                           \/ DashboardPrompt(s)
                           \/ Delta(s)
                           \/ Answer(s)
    \/ \E m \in Msgs : TimeoutFires(m) \/ CollectorCleanupFires(m)

CollectorSpec == CollectorInit /\ [][CollectorNext]_collectorVars

\* Timers fire.
CollectorFairness == \A m \in Msgs : WF_collectorVars(TimeoutFires(m)) /\ WF_collectorVars(CollectorCleanupFires(m))

CollectorFairSpec == CollectorSpec /\ CollectorFairness

-----------------------------------------------------------------------------
(* Properties                                                               *)

\* The type of every variable, as the two maps and CollectorEntry declare it.
CollectorTypeOK ==
    /\ accepted \in 0 .. MaxRequests
    /\ entry \in [Msgs -> EntryType]
    /\ byMsgId \subseteq Msgs
    /\ bySession \in [Sessions -> {0} \cup Msgs]
    /\ agent \in [Sessions -> Seq({Dashboard} \cup Msgs)]

\* The two indexes agree: a session is mapped only to a request of its own that
\* can still be polled, so an answer never goes to an entry nobody can read.
IndexesAgree ==
    \A s \in Sessions :
        bySession[s] # 0 => bySession[s] \in byMsgId /\ entry[bySession[s]].session = s

\* Every entry has exactly the timer that will take it further: an active one
\* its timeout, a settled one its cleanup.  Without it an entry would use up
\* one of the MAX_ACTIVE_COLLECTORS for good.
OneTimerEach ==
    \A m \in byMsgId :
        /\ entry[m].timeout <=> Active(entry[m])
        /\ entry[m].cleanup <=> ~ Active(entry[m])

\* At most MAX_ACTIVE_COLLECTORS entries exist, settled ones included.
WithinLimit == Cardinality(byMsgId) <= MaxActive

\* An answer is the answer to a prompt of the same session that is not younger
\* than the request: later prompts are answered later.
NoAnswerFromTheFuture ==
    \A m \in Msgs : entry[m].status = "done" => entry[m].answer <= m

\* Once settled, an entry keeps its status and its text, so that two polls
\* never contradict each other.
SettledIsFinal ==
    [][ \A m \in Msgs :
          entry[m].status \in {"done", "error"}
            => /\ entry'[m].status = entry[m].status
               /\ entry'[m].answer = entry[m].answer ]_collectorVars

\* Every request is settled and then forgotten, also when the bridge was not
\* there or the agent never answers.
EveryRequestEnds == \A m \in Msgs : m \in byMsgId ~> m \notin byMsgId

=============================================================================
