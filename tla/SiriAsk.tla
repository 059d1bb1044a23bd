------------------------------- MODULE SiriAsk -------------------------------
(***************************************************************************)
(* The short voice requests: POST /api/siri/ask and its poll               *)
(* (api/siri-ask.ts), the table of background tasks (siri/ask-tasks.ts)    *)
(* and the claude process of a task with its two timers                    *)
(* (siri/claude-runner.ts).                                                *)
(*                                                                         *)
(* A task is numbered in the order of creation.  The promise of runClaude  *)
(* settles in one step with the handlers chained to it: nothing runs in    *)
(* between but other microtasks.  The fast path answers before any of this *)
(* and is left out, and so is what a process prints.                       *)
(***************************************************************************)
EXTENDS Naturals, FiniteSets

CONSTANTS
    MaxInflight,  \* MAX_INFLIGHT
    MaxTasks,     \* bound on the tasks of a behaviour
    Stubborn,     \* the processes that ignore SIGTERM
    Resident      \* a resident session that can take over exists

ASSUME AskBoundsAssumption == MaxInflight \in Nat /\ MaxTasks \in Nat
ASSUME StubbornAssumption == Stubborn \subseteq 1 .. MaxTasks
ASSUME ResidentAssumption == Resident \in BOOLEAN

Tasks == 1 .. MaxTasks

VARIABLES
    created,   \* the number of tasks created
    inflight,
    task,      \* task[i]: AskTaskStore's status of i, "unknown" when it has no entry
    expires,   \* the tasks whose cleanupTimer is armed
    old,       \* the tasks that are older than MAX_AGE_MS
    process,   \* process[i]: "none", "running", "dying" (SIGKILL was sent) or "exited"
    timer,     \* timer[i]: "off", "limit" (options.timeoutMs) or "kill" (2 s later)
    killed,    \* killed[i]: child.killed, some signal has been sent
    timedOut,  \* timedOut[i]: the time limit passed before the process exited
    settled,   \* the tasks whose runClaude has settled
    reply,     \* reply[i]: the answer to the ask, "none" while it is held open
    handed     \* handed[i]: how often i was handed to the resident session

procVars == <<process, timer, killed, timedOut, settled>>
askVars == <<created, inflight, task, expires, old, procVars, reply, handed>>

Outcomes == {"done", "delegated", "error"}

-----------------------------------------------------------------------------
(* AskTaskStore                                                             *)

\* finish(): only a task that is running.
Finish(i, outcome) ==
    IF task[i] = "running"
    THEN /\ task' = [task EXCEPT ![i] = outcome]
         /\ expires' = expires \cup {i}
    ELSE UNCHANGED <<task, expires>>

-----------------------------------------------------------------------------
(* POST /api/siri/ask                                                       *)

\* Mutant of Start: the cleanup timer is armed at once.
StartWithCleanup(i, limit) ==
    /\ created' = i
    /\ inflight' = inflight + 1
    /\ task' = [[t \in Tasks |-> IF t \in old THEN "unknown" ELSE task[t]]
                   EXCEPT ![i] = "running"]
    /\ expires' = (expires \ old) \cup {i}
    /\ process' = [process EXCEPT ![i] = "running"]
    /\ timer' = [timer EXCEPT ![i] = limit]
    /\ UNCHANGED <<old, killed, timedOut, settled, reply, handed>>

\* create() sweeps the old entries first; then the process is spawned.
Start(i, limit) ==
    /\ created' = i
    /\ inflight' = inflight + 1
    /\ task' = [[t \in Tasks |-> IF t \in old THEN "unknown" ELSE task[t]]
                   EXCEPT ![i] = "running"]
    /\ expires' = expires \ old
    /\ process' = [process EXCEPT ![i] = "running"]
    /\ timer' = [timer EXCEPT ![i] = limit]
    /\ UNCHANGED <<old, killed, timedOut, settled, reply, handed>>

\* Mutant of Ask: the limit is off by one.
AskOneMore ==
    /\ inflight <= MaxInflight
    /\ created < MaxTasks
    /\ Start(created + 1, "limit")
Ask ==
    /\ inflight < MaxInflight
    /\ created < MaxTasks
    /\ Start(created + 1, "limit")

\* runClaude settles with `outcome`; the answer to the ask is sent if it has
\* been held open until now.
Settle(i, outcome) ==
    /\ settled' = settled \cup {i}
    /\ inflight' = inflight - 1
    /\ Finish(i, outcome)
    /\ reply' = [reply EXCEPT ![i] = IF @ = "none" THEN task'[i] ELSE @]

\* Mutant of HandOver: the result of delegateToResident is not looked at.
HandOverBlindly(i) ==
    \E n \in {0, 1} : /\ Settle(i, "delegated")
                      /\ handed' = [handed EXCEPT ![i] = @ + n]

\* After the time limit the task is handed to a resident session: it is
\* "delegated" if there is one and its bridge accepts the message.
HandOver(i) ==
    \/ /\ Resident
       /\ Settle(i, "delegated")
       /\ handed' = [handed EXCEPT ![i] = @ + 1]
    \/ /\ Settle(i, "error")
       /\ UNCHANGED handed

\* The process ends, by itself or by a signal; its exit code decides, whatever
\* was cut off its output.
ProcessExits(i) ==
    /\ process[i] \in {"running", "dying"}
    /\ process' = [process EXCEPT ![i] = "exited"]
    /\ timer' = [timer EXCEPT ![i] = IF @ = "limit" THEN "off" ELSE @]
    /\ IF timedOut[i]
       THEN HandOver(i)
       ELSE /\ \E outcome \in {"done", "error"} : Settle(i, outcome)
            /\ UNCHANGED handed
    /\ UNCHANGED <<created, old, killed, timedOut>>

\* It prints more than maxOutputBytes: SIGTERM.
Overflows(i) ==
    /\ process[i] = "running"
    /\ ~ killed[i]
    /\ killed' = [killed EXCEPT ![i] = TRUE]
    /\ UNCHANGED <<created, inflight, task, expires, old, process, timer, timedOut, settled,
                   reply, handed>>

\* options.timeoutMs after the start: SIGTERM.
LimitPasses(i) ==
    /\ timer[i] = "limit"
    /\ timer' = [timer EXCEPT ![i] = "kill"]
    /\ killed' = [killed EXCEPT ![i] = TRUE]
    /\ timedOut' = [timedOut EXCEPT ![i] = TRUE]
    /\ UNCHANGED <<created, inflight, task, expires, old, process, settled, reply, handed>>

\* 2 seconds later: SIGKILL, unless child.killed.
KillTimerFires(i) ==
    /\ timer[i] = "kill"
    /\ timer' = [timer EXCEPT ![i] = "off"]
    /\ process' = [process EXCEPT ![i] = IF @ = "running" /\ ~ killed[i] THEN "dying" ELSE @]
    /\ UNCHANGED <<created, inflight, task, expires, old, killed, timedOut, settled, reply,
                   handed>>

\* Mutant of Handoff: both are awaited.
HandoffWhenSettled(i) ==
    /\ i \in settled
    /\ reply[i] = "none"
    /\ reply' = [reply EXCEPT ![i] = "pending"]
    /\ UNCHANGED <<created, inflight, task, expires, old, procVars, handed>>

\* handoffMs after the ask: the client is told to poll.
Handoff(i) ==
    /\ i <= created
    /\ reply[i] = "none"
    /\ reply' = [reply EXCEPT ![i] = "pending"]
    /\ UNCHANGED <<created, inflight, task, expires, old, procVars, handed>>

\* 60 seconds after finish()
TaskCleanupFires(i) ==
    /\ i \in expires
    /\ expires' = expires \ {i}
    /\ task' = [task EXCEPT ![i] = "unknown"]
    /\ UNCHANGED <<created, inflight, old, procVars, reply, handed>>

\* 10 minutes after create(), by when the timers of the process and of the
\* handoff have fired.
GrowsOld(i) ==
    /\ i \in (1 .. created) \ old
    /\ timer[i] = "off"
    /\ reply[i] # "none"
    /\ old' = old \cup {i}
    /\ UNCHANGED <<created, inflight, task, expires, procVars, reply, handed>>

-----------------------------------------------------------------------------
AskInit ==
    /\ created = 0
    /\ inflight = 0
    /\ task = [i \in Tasks |-> "unknown"]
    /\ expires = {}
    /\ old = {}
    /\ process = [i \in Tasks |-> "none"]
    /\ timer = [i \in Tasks |-> "off"]
    /\ killed = [i \in Tasks |-> FALSE]
    /\ timedOut = [i \in Tasks |-> FALSE]
    /\ settled = {}
    /\ reply = [i \in Tasks |-> "none"]
    /\ handed = [i \in Tasks |-> 0]

AskNext ==
    \/ Ask
    \/ \E i \in Tasks : \/ ProcessExits(i)
                        \/ Overflows(i)
                        \/ LimitPasses(i)
                        \/ KillTimerFires(i)
                        \/ Handoff(i)
                        \/ TaskCleanupFires(i)
                        \/ GrowsOld(i)

AskSpec == AskInit /\ [][AskNext]_askVars

\* A process that must end: SIGKILL was sent, or SIGTERM to one that obeys.
MustExit(i) ==
    /\ process[i] = "dying" \/ (killed[i] /\ i \notin Stubborn)
    /\ ProcessExits(i)

\* Timers fire, and a process that must end does.
AskFairness ==
    \A i \in Tasks : /\ WF_askVars(LimitPasses(i))
                     /\ WF_askVars(KillTimerFires(i))
                     /\ WF_askVars(Handoff(i))
                     /\ WF_askVars(MustExit(i))

AskFairSpec == AskSpec /\ AskFairness

-----------------------------------------------------------------------------
(* Properties                                                               *)

\* The type of every variable, as AskTaskStore and runClaude declare them.
AskTypeOK ==
    /\ created \in 0 .. MaxTasks
    /\ inflight \in Nat
    /\ task \in [Tasks -> {"unknown", "running"} \cup Outcomes]
    /\ expires \subseteq Tasks /\ old \subseteq Tasks /\ settled \subseteq Tasks
    /\ process \in [Tasks -> {"none", "running", "dying", "exited"}]
    /\ timer \in [Tasks -> {"off", "limit", "kill"}]
    /\ killed \in [Tasks -> BOOLEAN] /\ timedOut \in [Tasks -> BOOLEAN]
    /\ reply \in [Tasks -> {"none", "pending"} \cup Outcomes]
    /\ handed \in [Tasks -> 0 .. 1]

Alive(i) == process[i] \in {"running", "dying"}

\* "Repeated taps do not bring the machine down" (siri-ask.ts:13): at most
\* MAX_INFLIGHT processes are alive, those whose task has timed out or was swept
\* from the table included.
FewProcesses == Cardinality({i \in Tasks : Alive(i)}) <= MaxInflight

\* A client that was told to poll finds its task until it has settled, however
\* long the process takes, unless ten minutes have passed.
PromiseIsKept ==
    \A i \in Tasks \ (settled \cup old) : reply[i] = "pending" => task[i] = "running"

\* The user is told that the resident session took over exactly when it did,
\* and no task is both answered and handed over.
DelegatedMeansHanded ==
    \A i \in Tasks :
        /\ task[i] = "delegated" \/ reply[i] = "delegated" => handed[i] = 1
        /\ handed[i] = 1 => timedOut[i] /\ task[i] \notin {"done", "error", "running"}

\* An outcome that was polled once is polled again, or the task is forgotten:
\* neither a late exit nor the sweep brings back or changes a task.
OutcomeIsFinal ==
    [][ \A i \in Tasks :
          i <= created /\ task[i] # "running" => task'[i] \in {task[i], "unknown"} ]_askVars

\* Every ask is answered, at the latest by the handoff.
EveryAskIsAnswered == \A i \in Tasks : process[i] = "running" ~> reply[i] # "none"

=============================================================================
