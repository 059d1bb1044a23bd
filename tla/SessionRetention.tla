-------------------------- MODULE SessionRetention --------------------------
(* How long sessions and their messages are kept: the sessions table with    *)
(* its activity times and resident flags, the bootstrap of the residents a   *)
(* configuration names, and the daily cleanup.  Time is counted in days; a   *)
(* cleanup may run at any moment the server is up.  Left out: titles, unread *)
(* counts (ResidentUnread) and who may call what.                            *)
EXTENDS Naturals, Sequences, FiniteSets
LOCAL INSTANCE SequencesExt

CONSTANTS
    ChatKeys,      \* (connection, session key) pairs
    Configs,    \* the sets of resident chats a server may be started with
    Days,       \* inactive sessions are deleted after so many days
    Cap,        \* messages kept of a resident session
    MaxTime,    \* bound on the clock
    MaxId       \* bound on the number of message ids

VARIABLES
    now,        \* the clock
    up,         \* the server runs
    residents,  \* the registry of the running server
    stored,     \* chats that have a row in the sessions table
    active,     \* chat -> last_active_at of its row
    flagged,    \* chats whose row has is_resident = 1
    messages    \* rows of the messages table
retentionVars == <<now, up, residents, stored, active, flagged, messages>>

Ids == 1..MaxId
Message == [chat : ChatKeys, ts : 0..MaxTime, id : Ids]

-----------------------------------------------------------------------------
(* A key is a sequence of the segments its colons separate, and a segment a  *)
(* sequence of the words its underscores separate.                           *)

\* residentSessionKey.
ResidentSessionKey(bridge, k) ==
    IF Len(k) = 3 /\ k[1] = bridge THEN k
    ELSE LET safe == IF Len(k) = 1 THEN k[1] ELSE FlattenSeq(k)
         IN  <<bridge, safe, safe>>

-----------------------------------------------------------------------------
\* The newest first: by time, then by id.
Newer(n, m) == n.ts > m.ts \/ (n.ts = m.ts /\ n.id > m.id)
NewerInChat(m) == {n \in messages : n.chat = m.chat /\ Newer(n, m)}

\* stmtUpsertSessionActivity, for a message of the present moment.
Bumped(c) == [active EXCEPT ![c] = IF c \in stored THEN now ELSE active[c]]

Fresh(c, id) ==
    /\ \A m \in messages : m.id # id
    /\ messages' = messages \cup {[chat |-> c, ts |-> now, id |-> id]}

\* POST /api/sessions: an existing row keeps its flag.
Create(c) ==
    /\ up
    /\ stored' = stored \cup {c}
    /\ active' = [active EXCEPT ![c] = now]
    /\ UNCHANGED <<now, up, residents, flagged, messages>>

\* saveWithStatus: a message of the user or of the assistant.
Save(c, id) ==
    /\ up
    /\ Fresh(c, id)
    /\ active' = Bumped(c)
    /\ UNCHANGED <<now, up, residents, stored, flagged>>

\* saveWithStatus of an id it has already: the row keeps its time.
SaveAgain(m) ==
    /\ up
    /\ active' = Bumped(m.chat)
    /\ UNCHANGED <<now, up, residents, stored, flagged, messages>>

\* POST /internal/assistant/send: createIfMissing and saveWithStatus.
AssistantSend(c, id) ==
    /\ up
    /\ stored' = stored \cup {c}
    /\ Fresh(c, id)
    /\ active' = [active EXCEPT ![c] = now]
    /\ UNCHANGED <<now, up, residents, flagged>>

\* DELETE /api/sessions: refused for a resident session.
Delete(c) ==
    /\ up /\ c \notin flagged
    /\ stored' = stored \ {c}
    /\ messages' = {m \in messages : m.chat # c}
    /\ UNCHANGED <<now, up, residents, active, flagged>>

\* DELETE /api/history.
ClearHistory(c) ==
    /\ up
    /\ messages' = {m \in messages : m.chat # c}
    /\ UNCHANGED <<now, up, residents, stored, active, flagged>>

\* cleanupInactiveSessions: messages stay behind.
Idle == {c \in stored \ flagged : active[c] + Days < now}

\* trimResidentMessages.
Trimmed == {m \in messages : m.chat \in flagged => Cardinality(NewerInChat(m)) < Cap}

\* What startCleanupSchedule runs, at once and every day.
Cleanup ==
    /\ up
    /\ stored' = stored \ Idle
    /\ messages' = Trimmed
    /\ UNCHANGED <<now, up, residents, active, flagged>>

\* bootstrap as the server starts: markResident, then demoteResidentExcept.
Start(config) ==
    /\ ~up /\ up' = TRUE
    /\ residents' = config
    /\ stored' = stored \cup config
    /\ active' = [c \in ChatKeys |-> IF c \in config \ stored THEN now ELSE active[c]]
    /\ flagged' = config
    /\ UNCHANGED <<now, messages>>

Stop == up /\ up' = FALSE /\ UNCHANGED <<now, residents, stored, active, flagged, messages>>

Tick ==
    /\ now < MaxTime /\ now' = now + 1
    /\ UNCHANGED <<up, residents, stored, active, flagged, messages>>

RetentionInit ==
    /\ now = 0 /\ up = FALSE /\ residents = {}
    /\ stored = {} /\ active = [c \in ChatKeys |-> 0] /\ flagged = {}
    /\ messages = {}

RetentionNext ==
    \/ \E c \in ChatKeys : Create(c) \/ Delete(c) \/ ClearHistory(c)
    \/ \E c \in ChatKeys, id \in Ids : Save(c, id) \/ AssistantSend(c, id)
    \/ \E m \in messages : SaveAgain(m)
    \/ \E config \in Configs : Start(config)
    \/ Cleanup \/ Stop \/ Tick

RetentionSpec == RetentionInit /\ [][RetentionNext]_retentionVars
-----------------------------------------------------------------------------
RetentionTypeOK ==
    /\ now \in 0..MaxTime /\ up \in BOOLEAN
    /\ residents \subseteq ChatKeys
    /\ stored \subseteq ChatKeys
    /\ active \in [ChatKeys -> 0..MaxTime]
    /\ flagged \subseteq stored
    /\ messages \subseteq Message

(* While the server runs, every session its registry calls resident has a    *)
(* row marked resident, and no other has: neither a deletion, a cleanup nor  *)
(* a change of configuration leaves one behind (sessions-cleanup.ts:17-24,   *)
(* registry.ts:74-81, api/sessions.ts:22-31).                                *)
RegistryInTable == up => flagged = residents

(* A session is never taken away while it has a message younger than the     *)
(* threshold: its time follows its messages (messages.ts:53-56), and a       *)
(* deletion takes the messages with it.                                      *)
RecentSessionsStay ==
    [][\A c \in stored \ stored' :
         \A m \in messages' : m.chat = c => m.ts + Days < now]_retentionVars

(* What is taken from a chat is its oldest part: no message goes while an    *)
(* older one of its chat stays (sessions-cleanup.ts:51-59).                  *)
OldestGoFirst ==
    [][\A m \in messages \ messages', n \in messages' : n.chat = m.chat => Newer(n, m)]_retentionVars
=============================================================================
