# A verification development for cc-pet-web

cc-pet-web puts a web dashboard (and a Harmony client) in front of chat agents
that are reached through cc-connect *bridges*.  This directory holds TLA+
models of the program, the TLC configurations that check them and
machine-checked proofs of their invariants.  Paths below are relative to
`src/`, and those without a package to `packages/`; `PROJECT.json` maps each
definition to the lines it models.

## 1. Inventory

```
 dashboard page(s)                     server (one Node process)            outside
 ┌──────────────────────────┐  WebSocket   ┌───────────────────────┐  WebSocket  ┌────────┐
 │ outbox ─ web-adapter ────┼──SEND_…────▶ │ hub ─ index.ts ─ bridge├────────────▶│ bridge │
 │ message store ◀─ App.tsx ◀┼─ACK, push── │   │            client  ◀─replies─────┤ agent  │
 │ sessions, routing        │              │ messages, sessions     │             └───┬────┘
 │ hydrate, backfill ───────┼──HTTP──────▶ │   (SQLite), retention  │                 │ files
 │ workspace panel ─────────┼──HTTP──────▶ │ file and git services ─┼─ workspace ◀────┘
 │ attachment upload ───────┼──HTTP──────▶ │ staging directory ─────┼─ workspace
 │ assistant page ──────────┼──HTTP──────▶ │ planner's database ────┼─ assistant's backend
 │ service worker ◀─────────┼──Web Push─── │ subscriptions, detector│
 └──────────────────────────┘              │ fast path, collector, ─┼─ HTTP ── iOS shortcut
   localStorage (shared by tabs)           │ asks                   ├─ spawn ── claude -p
                                           └────────────────────────┘─ HTTP ── Home Assistant
```

| component | state | operations | hard behaviour | what makes it correct |
|---|---|---|---|---|
| outbox (`web/src/lib/store/outbox.ts`) | entries with status, age and time of the last write; copy in localStorage | enqueue, mark sent, resend, take sendable, mark transmitted, expire, revive, persist, load | reloads, lost acks, several tabs, oversized payloads, the two timeouts | nothing is lost; manual answers are not replayed late; entries settle |
| web-adapter (`web/src/lib/web-adapter.ts`) | socket, `hasOpenedOnce`, timers, `connectGeneration` | connect, close, message, flush, backfill | three things open connections; events of a replaced socket; several backfills at a time | one socket, events in order, it comes back; every stored message is shown, once |
| message store, typewriter, hydrate (`web/src/lib/store/message.ts`, `typewriter.ts`, `hydrateFromServer.ts`, `App.tsx`) | list, watermark and loaded flag of each chat; a reply being revealed | add, merge, clear, purge, activate a chat | pushes, pages, histories and deletions overlap | as above; a backfill ends |
| sessions, routing, task phases (`web/src/lib/store/session.ts`, `sessionRouting.ts`, `App.tsx`) | list, active and sticky session, typing marks, phases | route a frame, create, switch, delete, reload, hydrate | frames without a session key; a hydration that races all of it | a new session stays empty, "working" has a reason, the active session exists |
| hub and handlers (`server/src/ws/hub.ts`, `index.ts`) | open dashboards | SEND_MESSAGE, SEND_FILE, bridge events, REST | crash or exception between save, ack and hand-over | at most one prompt for each stored message |
| message table (`server/src/storage/messages.ts`) | rows, `nextSeq` | save, page, delete | resends; seqs after a restart | one row for each id, seqs grow |
| bridge client, manager, protocol (`server/src/bridge/`) | socket, queue of 100, reconnect timer, heartbeat, probe | send, connect, disconnect, socket events, timers; parsing of frames | sends during a handshake, aborted handshakes, full queue, stale timers; fields under many names | comes back, FIFO, bounded probes, true status |
| reply collector (`server/src/siri/reply-collector.ts`, `api/siri.ts`) | requests by id and by session, two timers each | send, delta, reply, timeout, cleanup | late answers, answers to other prompts, cleanups of old requests | each request ends, keeps its answer, within the limit |
| asks (`server/src/api/siri-ask.ts`, `siri/ask-tasks.ts`, `siri/claude-runner.ts`) | task table, in-flight count, process and timers of each task | ask, exit, limits, kill, handoff, cleanup, sweep | limit racing the exit, swept tasks, stubborn processes | bounded processes, an answer to every ask, one outcome |
| voice fast path (`server/src/siri/fast-path*.ts`, `fast-path-learn.ts`) | names learned and written by others, their cache | match, carry out, report, learn | files written while they are read; calls that time out | what is reported was done, nothing twice, the cache is not stale |
| session table, retention (`server/src/storage/sessions.ts`, `resident/`) | rows, activity, resident flags, registry | save, start with a configuration, clean up | residents come and go with the configuration | residents and recent sessions are kept, the oldest messages go first |
| resident sessions, push (`server/src/resident/`, `push/`, `web/src/sw.ts`) | unread counter, time of the last user message, subscriptions | reply, read, subscribe, push, click | counter against reads by several dashboards; lost requests; the 120 s window | every dashboard learns the count; on means subscribed, off means silent |
| workspace files (`server/src/workspace/file-service.ts`, `web/src/lib/store/workspace.ts`) | files with versions; the open file of a tab | open, save, create, upload, rename, delete | the agent writes the same files; answers out of order | nobody overwrites what he has not seen but in the named races |
| workspace panel, git (`workspace/git-service.ts`, `resolver.ts`, the same store) | listings, statuses, scopes, diff | list, status, select scope, diff, scan | overlapping requests; nested and enclosing repositories | badges of the active scope; a diff is of a listed file; paths stay inside |
| attachments (`server/src/api/attachments.ts`, `web/src/lib/attachment-upload.ts`) | staging directory, runs of the upload, files retained | upload, retry, tell the agent, sweep | equal names, cut off and refused uploads, retries of what succeeded | the agent is told once, of whole files |
| assistant page (`web/src/components/assistant/`, `lib/assistantEvents.ts`, `server/src/api/assistant*`) | board, hidden cards, item sessions, events to be pulled | poll, set a status, discuss an item, flush events | stale polls, refreshes beside loading chats | dismissed cards stay away, one opening prompt, writes are pulled |
| configuration, authentication (`server/src/storage/config.ts`, `auth/`, `middleware/auth.ts`) | tokens, bridges, counters and locks by address | load, save, guard, look up | normalisation of what users write; bursts of attempts | what is saved is loaded; a burst is stopped and a lock ends |
| message list, composer (`web/src/components/MessageList.tsx`, `ChatWindow.tsx`, `MessageInput.tsx`) | window, place, pending jump; input, waiting files, menu | draw, scroll, jump; type, choose, send, drag | replies while the reader is elsewhere; files read after they were taken | nothing arrives unnoticed, a jump ends, what is written is sent or kept |
| grouping, questions, lists (`web/src/lib/`, `components/`) | none: functions of the messages and of the board | group tool steps, parse questions, sort and group cards | increments against the whole; duplicates | nothing is lost or shown twice |
| quota, search, pet images | none that interacts | one query for each request | - | not modelled |
| Harmony client (`harmony/`) | a second outbox, backfill and session store | as the dashboard | as the dashboard | not modelled |

`PROJECT.json` lists every component with what is left out of it, and under
`hazards` each place in the code where a test would hardly reach a failure,
with the properties that watch it.

*Not modelled.*  Quota, full-text search and pet images read a table, a file or
another service once for each request and keep nothing that another operation
could find in between.  The shared package consists of type declarations.  The
Harmony client is written in ArkTS and is a second implementation of the
protocol that `MessageDelivery` and `DownstreamSync` model for the web client;
it is the first item of the plan.

## 2. Modules

| module | models | checked or proved by |
|---|---|---|
| `OutboxStore` | the functions of the outbox on a map of entries | extended by `MessageDelivery` |
| `MessageIntake` | abstract: what sending a message promises | `MessageDelivery` (`IntakeSpec`) |
| `MessageDelivery` | pages, localStorage, frames, handler, table and hand-over | `MCMessageDelivery`, `MessageDeliveryProofs` |
| `BridgeClient` | one bridge connection with manager, REST and status | itself, `ConnectionsProofs` |
| `DownstreamSync` | replies from the table to the page: push, history, backfill | `MCDownstreamSync`, `DownstreamSyncProofs` |
| `DashboardConnection` | the socket of a page: its generations, timers and listeners | `ConnectionsProofs` |
| `SessionRouting` | the sessions of one connection on one page | `MCSessionRouting`, `SessionRoutingProofs` |
| `ReplyCollector` | voice requests waiting for the agent | itself, `VoiceProofs` |
| `SiriAsk` | asks answered by a `claude` process | itself, `VoiceProofs` |
| `VoiceFastPath` | commands carried out without the model, and the rules learned | `VoiceProofs` |
| `SessionRetention` | how long sessions and messages are kept | `ResidentProofs` |
| `ResidentPush` | subscriptions, pushes, notifications, clicks | `ResidentProofs` |
| `ResidentUnread`, `AssistantBoard` | unread counts of the resident; the board with its polls | extended by `AssistantPage` |
| `AssistantPage` | both, composed with item sessions, events and refreshes | `MCAssistantPage`, `ResidentProofs` |
| `WorkspaceFiles` | files of a workspace, edited by dashboards and the agent | `MCWorkspaceFiles`, `WorkspaceProofs` |
| `WorkspaceTree` | listings, badges and scopes of a workspace panel | itself, `WorkspaceProofs` |
| `WorkspaceGit` | repositories, scopes, statuses and diffs | `MCWorkspaceGit`, `WorkspaceProofs` |
| `Attachments` | staged uploads, from the bubble to the notice for the agent | `MCAttachments`, `AttachmentsProofs` |
| `MessageGroups`, `MessageScroll` | grouping of tool steps; what the message list draws and where it scrolls | evaluated with `MCSessionRouting` |
| `Composer` | the slash menu, sending, waiting files and the drag overlay | evaluated with `MCWorkspaceGit` |
| `BridgeFrames`, `AskQuestion` | parsing of bridge frames; questions and their answers | evaluated with `MCDownstreamSync` |
| `AssistantLists` | the lists the assistant page draws | evaluated with `MCAssistantPage` |
| `PathResolver` | paths of requests resolved over a disk with links | evaluated with `MCWorkspaceFiles` |
| `ServerConfig`, `AuthGuard` | what a configuration keeps; the guard of the login | evaluated with `MCAttachments` |

Every handler of the code is one action, with its guards, early returns and
everything it changes; a JavaScript handler runs to completion, so actions are
as atomic as the code.  What is awaited (a fetch, a timer, a socket, a call of
the file system that another writer can come between) is a step of its own.
Trouble - a lost socket, a crash, a failed write, a user who closes a page -
happens in actions that are counted: `Faults` names the kinds a run lets
happen and `MaxFaults` (in other modules `MaxEvents`) how many of them.

*History variables.*  Many properties one would like to state do not hold of
this code, for a reason that can be named.  There a history variable records
that the reason has occurred (`raced`, `overtaken`, `muddled`, `exposed`,
`unaware`, `missed`, `lost`, ...), and the property says that nothing else breaks
it.  No guard reads such a variable.

*Pure algorithms.*  The last six rows of the table are functions without
VARIABLES; `MessageScroll` and `Composer` apply theirs to every sequence of up
to five or six events and check what they reach.  Each of the others is written as the code computes it, beside a reference definition
that says what it is for, and named `ASSUME`s compare both over small inputs,
which TLC evaluates at the start of each run of the module that extends them.
They are bounded checks, and no theorem cites them.

### Sending: `OutboxStore`, `MessageDelivery`, `MessageIntake`

A message stands for its `clientMsgId`, a fresh UUID.  The code compares its
two timestamps with two constants only, so an entry has `aged` (the 2 minute
window has passed) and `sent` (never, within the 15 s budget, overdue).  Frames
in flight are a set: a frame that travels twice finds its own row on the second
arrival.  `Save` is the `persist()` with which every store function ends; where
localStorage may refuse a write, any version the handler persisted may be what
remains.  `HandleFrame` is the whole handler: save, ack to every open
dashboard, and the hand-over for a new row.  `Crash` includes the crash after
the save and before the rest.  Left out: user messages of policy `never`, which
are not queued, and authorisation (an unauthorised frame changes nothing).

`MessageIntake` says the same without tabs, sockets and retries: a message is
taken at most once between two deletions, the agent is prompted at most once
each time, and nothing is confirmed that was never stored.  It does *not*
promise that a confirmed message reaches the agent - the code acknowledges
before it hands over.

### Connecting: `DashboardConnection`

`connectWs` is one operator, called by the page, by the reconnect timer and by
the browser's `online` event.  A socket is numbered by the generation it was
opened with, keeps what the browser has still to deliver for it (`pending`),
and has handlers only while it is in `attached`: `detachWebSocket` removes
them.  What an open socket sets off is left to the two modules beside it.

### Receiving: `DownstreamSync`

The server stores a reply under the next seq and pushes it; the page appends
pushes (`AddMessage`), merges fetched rows by id (`MergeMessages`) and moves a
watermark with both.  A text reply is added only when its reveal ends.  After a
reconnect a run of the backfill pages through every chat that has state, one
after the other, with the watermark as its cursor.  Two history variables say
what a user is entitled to: `owed` holds the chats whose backfill has not
completed since the last drop, and `disturbed` the chats a push, an error body
or a deletion has interfered with.  Only assistant rows are modelled (user rows
use up seqs but are merged by the same code); the order of the rendered list,
streaming previews and the parallel fetch of a second hydrate are left out.

### Sessions: `SessionRouting`

A frame without a session key goes to a session that is typing, else to the
sticky one, else to the active one, else to `default`, by `resolveSessionKey`.
Cards and audio are not among the routed types and go to the active session, and
an error has no key at all; `foreign` records what is shown in a fresh session
that belongs to the turn of another, with the kind of the frame.
A turn of the agent is quiet or announces itself by typing frames; the
typewriter ends a reveal later, and only then marks a task completed.
Hydration reads the list of sessions in one step and applies it in a later one,
with `createSession`, deletions and switches between them.  Phases, the active
and the sticky session are persisted by every function that changes them, so
the copy in localStorage is the value.  Left out is the entry that stands in for
an empty list of the server when the page has messages under `default`
(`hydrateFromServer.ts:149-174`).  `exposed` becomes true when no session
can be named that a keyless frame belongs to (or a new one types), `muddled`
collects the sessions whose frames were lost, misplaced or ignored.

### The bridge: `BridgeClient`, `BridgeFrames`

The fields of the class are one record and its methods operators on it, so that
an event composes them as the code does.  Frames are numbered in the order of
the calls of `send()`.  The `ws` library is modelled from its use: a failed
handshake emits `error` and `close`, an open socket passes through CLOSING, and
`close()` during a handshake emits an `error` afterwards - for which
`disconnect()` has removed every listener, so it ends the process (`aborted`,
then `Restart`).  Delays are left out: an armed timer may fire at any time.
`BridgeFrames` finds session key, content and previews under the names bridges
use for them, and commands in probe replies.

### Voice: `ReplyCollector`, `SiriAsk`, `VoiceFastPath`

`ReplyCollector` models both maps, both timers, the route that admits a request
and the agent, which answers the prompts of a session in order, the
dashboard's among them.  Tool progress that arrives as a reply is an answer
like any other for the collector and is not told apart.  `SiriAsk` models the
task table, the in-flight count, the process of each task with its signals and
timers, the handoff and the delegation to a resident session.  The fast path
answers before any of this.  `VoiceFastPath` has its three files of names, the
cache under the modification times that were read *before* the files, the
clauses of a command with the calls they make in order, and learning from the
model's turns.  A call may be late: it takes effect after its time limit.

### Residents: `SessionRetention`, `ResidentPush`, `ResidentUnread`

`SessionRetention` counts time in days.  `Start` is the whole of the server's
start (registry, reset of the flags, rows of the residents, pruning), `CleanUp`
the daily job.  `ResidentPush` has the browser's subscription, the POSTs of the
settings on their way, the table of subscriptions, the detector's window and the
service worker with its click handler.  `ResidentUnread` has the counter of the
row, a badge in each dashboard, and the events and read requests between them.

### The workspace: `WorkspaceFiles`, `WorkspaceTree`, `WorkspaceGit`, `PathResolver`

A version of a file stands for its content and for its etag.  A save compares
the etag, reads, writes and reads the etag again, in steps another writer can
come between; what it reads may be gone or binary by then, and the save is
refused.  `overwritten` records the versions that were replaced by someone
who had not seen them.  Each function of the store is an action where it sends
its request and another where the answer arrives, guarded as the code is (the
open path, the active connection).  `WorkspaceTree` has the panel: directories
and statuses are requested, answered in any order or not at all, and stored by
scope.  `WorkspaceGit` has what those answers are made of: every placement of
repositories in a tree, the conversion of paths between workspace, scope and
repository in both directions, and a `git` that succeeds, fails, is not there,
takes too long or prints too much.  `PathResolver` is the resolution of paths
itself, over disks with links.

### Attachments: `Attachments`

A try of `runUpload` uploads one file after the other and collects the paths;
the request of a file is a process of its own on the server (`asked`,
`reserved`, `writing`, then `stored` or `failed`), which may go on when the
client has given up.  A name is made free by a number.  The sweep first picks a
path by its age and unlinks it later.  `raced` records the paths that two
writers had reserved at a time, `abandoned` those a limit or a crash has left
half written.

### The assistant: `AssistantPage`, `AssistantBoard`, `AssistantLists`

`AssistantPage` EXTENDS `ResidentUnread` and `AssistantBoard` and composes them:
each action of a part leaves the other alone, and a reload, a reconnect and the
hydration act on both and on the item sessions.  The backend writes into an item
session, hands the message to the agent and tells the page, which batches the
events, reloads the board, reads the list of sessions and pulls, one after the
other, each chat it has loaded by then.  The agent answers in the same session,
and its answers are pushed: each moves the watermark that the next pull starts
from.  `unseen` holds the backend's messages that a chat of the page lacks, and
`passed` those a push moved the watermark past before anything had asked for
them.  Runs of refreshes are sets: any number of them overlap, each pulls its
chats in some order, and a list or a pull that fails ends only its own request.
When the hand-over to the agent throws, the message is stored and nobody is told.
Discussing an item creates its session and sends the opening prompt if the page
does not know it; a session created here is kept for a minute when a list lacks
it, and no request is assumed to take longer.  The pages of one pull, up to ten, are one answer; the user's
own messages and the backfill after a reconnect (`DownstreamSync`) are left out.
A poll, a flush and the reload after a status request ask for the board beside
each other: `Timers` bounds how many polls and flushes do at a time.  The count of
the resident that a dashboard hears may be one behind its badge, as the page
counts the reply itself.

## 3. Runs

All runs hold.

| run | question | bounds |
|---|---|---|
| `delivery_page` | what does one outbox keep, fail and send again; is an auto message acknowledged in the end? | an auto, a manual and an oversized message, 1 page, 1 fault |
| `delivery_server` | do two tabs with the same entries, crashes, failing saves, a missing bridge and deletions implement `MessageIntake`? | 1 message, 2 tabs (symmetric), 3 faults of 7 kinds |
| `bridge` | queue, timers, probe, status; does it reconnect? | queue of 2, 2 retries, 6 sends, 3 faults |
| `sync` | what can paging and concurrent runs miss or repeat, does each backfill end, is the chat caught up? | 1 chat, pages of 1, 3 replies, 2 runs, 2 faults of 5 kinds |
| `collector` | maps and answers; does every request end? | 3 requests, limit 2, 2 sessions, 2 prompts waiting |
| `ask` | processes, promises, delegation; is every ask answered? | 3 tasks, 2 at a time, one stubborn process |
| `workspace_files` | who may overwrite what, and does the viewer's etag belong to its content? | 1 tab, 2 files in a directory, 2 requests at a time, of which one opens or saves, 3 versions |
| `workspace_tree` | which scope do the badges show, is a panel at rest complete? | 2 directories, 2 scopes, 2 requests at a time |
| `workspace_git` | do status, diff, scopes and scan agree on paths? | depth 2, a scan of 2 directories, 2 changed files, an ignored directory |
| `sessions` | where are frames shown, which phase is left, what is focused? | 1 existing and 1 new session, 2 counted events |
| `assistant` | unread counts, dismissed cards, discussions and events together | 2 dashboards, 1 item, 1 deliverable, 2 item sessions, 4 counted events |
| `attachments` | what is the agent told of, what stays in the directory, does each upload end? | 2 bubbles, 2 files of one name and one of the agent's own program, 2 suffixes, 3 tries, 1 fault |

*Why the bounds are enough.*  The protocols treat messages, tabs, chats,
sessions and tasks alike, and their hazards are races of two of them or of one
with a fault: two (three where a limit of two has to be reached) show each.  A
frame of one message never changes what another's does - the handler looks up
its own row and each tab's outbox is a map - so `delivery_server` has one
message and spends its states on tabs and faults.  Every page of a backfill
holds one row, so that a history of three already takes three pages and a reply
can arrive between any two of them; chats share nothing but the order in which
a run visits them, and the same properties held in a larger instance with two
chats (1.1 million states).  The queue of 2 overflows at the third send; 6
sends refill it after a flush.  A save is a race of a reader with one writer,
so that two requests and the agent show every overlap; three versions let a
file be changed twice behind a viewer.  The trees of `WorkspaceGit` have
siblings and a level below them: a repository beside, inside and around the
scope.  Three uploads of one name need two suffixes.  Counters that grow
without bound in the code (`MaxReplies`, `MaxSends`, `MaxRequests`, `MaxTasks`,
`MaxPrompts`, `MaxRuns`, `MaxVersion`, `MaxCalls`, `MaxTries`, `MaxSuffix`,
`MaxEvents`, `MaxFaults`) are the only guards the code does not have.

`delivery_page` has one fault: a drop, a close or a crash at every point, but no
two of them.  `assistant` counts four events, which are enough for a write of the
backend, an opening of its chat, an answer and a failure; the two item sessions
are symmetric, and so are the two timers.

*View.*  `sessions` leaves out of the state what no property can tell apart any
more: the phase of a session that is muddled, which nothing reads, and the
histories once the page is exposed, which stays so.

*Deadlock* is checked in the models of delivery, bridge, collector and the
workspace panel; the others come to rest when their bounded work is done.

*Fairness.*  Timers fire and events are handled, as Node and the browser do:
`WF` on opening and connecting a page, the expiry interval, frames and acks on
an open socket, the passing of the ack budget (`MessageDelivery`); on the end
of a handshake, a closing socket, the reconnect timer and the restart of a dead
process by its supervisor (`BridgeClient`); on the reconnect and the answers to
the pages of a backfill (`DownstreamSync`); on both timers (`ReplyCollector`);
on all timers, and on the exit of a process that was killed or obeys SIGTERM
(`SiriAsk`); on each request of a try of an upload, which is answered or broken
off by the network (`Attachments`).  Weak fairness suffices because these steps,
once possible, stay so until a fault - and faults are finite - undoes them.
Nothing is assumed of the user except that a closed page is opened again, and
nothing of the agent.  The other modules state safety only and have no fairness.

*Modules in no run.*  `DashboardConnection`, `VoiceFastPath`,
`SessionRetention` and `ResidentPush` have proofs instead of a run.  Before
they were proved, their invariants held in TLC on small instances: five
generations of sockets; two chats, three configurations, a day, a cap of one and
three times and messages; two tokens and two endpoints, complete (11,388
states) without pushes in flight and to a depth of 20 (10 million states) with
them.

## 4. Disagreements that no run states

The models contain these behaviours, and the properties are worded so that they
allow them.  Where a document, comment or test of the repository says otherwise,
it is named.  For some of them TLC was asked for the behaviour itself, by a
property without the exception on a small instance, and showed it: two tabs, the
gap before a backfill, the unmapped voice request, the process that is not
killed, the save that replaces an unseen version, cards in a fresh session, a
write of the assistant's backend that is passed, the name of a file taken twice.

*Delivery*

* Tabs overwrite each other's persisted outbox (`lib/store/outbox.ts:68`,
  against `docs/superpowers/specs/2026-08-20-message-reliability-design.md:60`):
  `NothingLost` holds with one tab only.
* A push on the new socket moves the watermark past the gap before the backfill
  reads it (`lib/web-adapter.ts:179`, against line 61 of the same document).
* A stub whose payload was dropped comes back from localStorage as a failed
  entry, but has no bubble after a reload, as only messages of the list get one
  (`components/MessageList.tsx:789`, against lines 133-134 of the same
  document).
* Seqs are given out again after `/clear` and a restart, and rows below the
  watermark of a page are then never fetched (`storage/messages.ts:46-47`,
  `lib/store/message.ts:134-135`).
* A reply that is fetched while it is being revealed is rendered twice
  (`lib/store/message.ts:63-68`, `App.tsx:324-325`); `AtMostTwice` bounds it.
* The watermark of a purged chat is created again by a page or push that was
  under way (`lib/store/message.ts:215`).

*Bridge and voice*

* A bridge removed through the REST API stays shown as connected:
  `disconnect()` emits nothing and the manager forgets the client
  (`bridge/client.ts:162`, `bridge/manager.ts:32-38`).
* The cleanup of an old voice request unmaps a younger one, and a third is
  admitted beside it (`siri/reply-collector.ts:121`, against
  `siri/reply-collector.test.ts:59`).
* A voice request is settled by the answer to whatever prompt its session was
  working on (`siri/reply-collector.ts:86`); `NoAnswerFromTheFuture` says what
  is left.
* SIGKILL is never sent, as `child.killed` is true after SIGTERM
  (`siri/claude-runner.ts:76`, against the comment at 73-74).
* A command of one step whose call to Home Assistant exceeds its time limit but
  takes effect is carried out again by the model; a report on several steps may
  call such a step failed.  A learned rule ignores the intent of the turn it was
  learned from, and a name as long as another can change what other sentences
  match.

*Sessions*

* A `BRIDGE_ERROR` never has a session key: the active session is told of the
  failure and marked failed, while the one that failed stays "working"
  (`App.tsx:604-621`, server `index.ts:600`).
* Cards and audio are not among the routed types (`lib/web-adapter.ts:40-52`):
  without a key they are shown in the active session, also in one that was
  created while another turn is under way (`App.tsx:197`, `484-535`, against the
  comment at 207-209).  `RoutedFramesStayHome` is what is left.
* A deleted session keeps its typing mark; a late frame with its key makes it
  sticky and unread again.  A reload during typing makes the later TYPING_STOP
  ignored, and the phase stays "working".
* The list that hydration read before a session was created or deleted drops it
  or brings it back; `ActiveIsListed` is what is left.
* A text that arrives while an earlier one is revealed is "completed" when the
  earlier one ends.
* The unread count of a resident session is reset on one dashboard only, as the
  read request is not broadcast, and switching to the session, or returning to a
  hidden tab, makes no request at all; a read request under way clears replies
  that came later.  Audio does not count.

*Retention and push*

* The cleanup deletes rows of sessions but not their messages, against
  `docs/session-cleanup.md`.  A resident that is no longer configured is deleted
  by the first cleanup if its row is old, although its history is meant to stay
  (`storage/sessions.ts`).  `touchActive` has no caller.
* Two names, such as `a:b` and `a_b`, can stand for one resident session, and if
  two tokens name the same one only the last gets its pushes.
* A subscription whose POST fails is shown as on while the server has none; an
  unsubscription that fails twice is shown as off while pushes go on;
  `ConfirmedOnIsKnown` and `ConfirmedOffIsSilent` speak of confirmed requests.
* A restart empties the detector's window, and the reply to a message sent
  before is pushed.  Notifications of residents share a tag, so that a later one
  replaces that of another chat.  A click is lost while the page is loading.

*Workspace and attachments*

* A writer between the comparison of the etag and the write is overwritten
  (`workspace/file-service.ts:456`, against
  `specs/add-file-git-features/contracts/workspace-api.md:88`), and the etag
  that is returned is read after the write.
* A late answer shows the file of another connection (against
  `specs/add-file-git-features/phase-notes.md:12`), or of another request; text
  typed during a save is reset by its answer; renaming a directory does not move
  the open file below it.
* Statuses are relative to the top level of the repository, which may enclose
  the workspace: their paths then name nothing.  A `git` that ignores SIGTERM
  keeps its request open.  A child of the root whose name begins with two dots
  is refused (`workspace/resolver.ts:51`).
* Two uploads can reserve one name, against "Never clobber an existing file"
  (`api/attachments.ts:65-69`), and the one that fails unlinks the other's file;
  a 413 leaves the partial file, against "A half-written file is worse than
  none" (158-159).
* Files that were stored before a failure are stored again by the retry.
  `forgetRetainedUploads` has no caller: after `/clear` an upload goes on and is
  sent without a bubble.  The request has no time limit.

*Assistant*

* A poll answered after the reload, or a reload that fails, shows a dismissed
  deliverable again.  An event that arrives while the history of its chat is
  being loaded is skipped (`lib/assistantEvents.ts:113`), and its message is
  missing.
* An answer of the agent that is pushed before the pull has asked moves the
  watermark of a loaded chat past what the backend wrote, which is then never
  shown (`lib/assistantEvents.ts:115-120`, `lib/store/message.ts:63-72`, against
  `components/assistant/AssistantPage.tsx:70-72`).
* If the bridge has no client, the backend's message is stored but no dashboard
  is told of it (`server/src/api/assistant-internal.ts:125-134`).
* Discussing an item whose session another client has created, or hydration has
  dropped, sends the opening prompt again.
* Undated and past events are in no group of the board
  (`lib/assistantBoard.ts:84-90`); a thread given without its first segments can
  be claimed by two residents (260-263).

*Configuration, parsing, questions*

* A token configured with spaces around it is kept so and matches nothing, as
  the lookup trims what the client sends (`storage/config.ts:88`,
  `auth/token-auth.ts:20-22`).  Changed tokens take effect after a restart only
  (`index.ts:162`).
* An empty session key at the top level of a frame hides one further in
  (`bridge/incoming-fields.ts:52-58`).  A card can repeat a command in other
  capitals (`bridge/parse-skills-probe.ts:72`); the merged menu cannot.
* A card of questions stays locked when its answer could not be sent
  (`components/AskQuestionCard.tsx:172-174`).

*Message list and composer*

* A jump to a message inside a block of tool steps never ends: it has no bubble,
  and the list is not scrolled until the session is switched or another jump
  ends (`components/MessageList.tsx:571-572`, `594`).
* A jump does not count as the first landing in a session, so the next message
  takes the reader to the latest (`components/MessageList.tsx:599-603`); and
  while a reply is streamed below a message of the user, every frame does, even
  after the user has scrolled up (606-610).
* A session left for an empty one and opened again is not landed in at once,
  against the comment at 391-399.
* `/settings` is let through without a connection (`components/ChatWindow.tsx:158`),
  but the button and Enter are disabled (476).  What is typed while a local
  command is awaited is dropped by its end (205).  Text and files are lost when
  one of the files cannot be read (233, 259).
* After Escape the slash menu opens at the line it was left at, as the query is
  the same (144-146).  A command of the agent with the name of a local one, such
  as `clear`, is in the menu and cannot be sent.  The menu is drawn by
  categories and chosen from the flat list; both agree because the agent's
  commands are in a category of their own.

## 5. Proofs

TLAPS proves every safety property that a run checks, and those of the modules
that are in no run, for every value of the constants under the named assumptions
of the modules (finite budgets are naturals, capacities positive, policies
typed, a session exists, the sessions that exist at the start are finitely
many, the timers of the board are no cards, the directories of a workspace are
finitely many and closed under parents, a path has a segment).  In the modules
that are in no run the assumption is an operator (`ConstantsOK`, `ClausesOK`,
`RetentionConstantsOK`, `PushConstantsOK`), which the theorems take as their
hypothesis.  A proof module covers a group of components; where it extends more
than one of them their `Init`, `Next`, `Spec` and types carry a prefix.

*Delivery* (`MessageDeliveryProofs`): `TypeCorrect`, `AtMostOncePrompt`,
`ConfirmedMeansStored`, `EntriesAreSound`, `ManualStaysInWindow`,
`ImplementsIntake`, `MessagesAreKept`.

* `PromptedOncePerRow` and `ConfirmedWasStored` are not inductive alone: an ack
  could be for a message that was never stored, or a frame for one that was
  never submitted.  `NothingOutOfThinAir` excludes both; with it each of the
  actions preserves the invariant, and maps to a step of `MessageIntake` or to a
  stutter.  `ManualStaysInWindow` follows from what `FailAgedManual` leaves
  sendable.
* `MessagesAreKept` has two hypotheses, which are those of the run: one tab
  (`OneTab`), as tabs overwrite each other's outbox, and a localStorage that
  accepts writes (`WritesSucceed`), as a refused write leaves an older outbox
  there; in both cases a message is in the memory of the loaded page only.  All
  other faults are allowed.  The invariant (`KeptInv`) is stronger than the
  property: what is not acknowledged is in localStorage *and* in the outbox of
  the page, if one is loaded.

*Connections* (`ConnectionsProofs`).

* Of the bridge: `BridgeTypeCorrect`, `NeverLeftStranded`, `TimersAreOwned`,
  `ProbesAreBounded`, `UpIsShown`, `FirstInFirstOut`.  The state of the timers
  (`TimersMatchConnection`) is what makes the others inductive: the probe budget
  needs to know that a retry is due only while `retries` is below the limit, and
  order needs that the queue of an open connection is empty.
* Of a dashboard: `DashboardTypeCorrect`, `ConnectionComesBack` (while the page
  should be connected, a timer, a living socket or an event still to come brings
  it back), `OneSocket`, `TimersAreInOrder`, `EventsInOrder` (no event of a
  replaced socket has an effect after one of its successor).  The invariant adds
  that the present socket is the newest (`PresentIsNewest`) and that only dead
  sockets have events left (`EventsOfTheDead`).

*Replies* (`DownstreamSyncProofs`): `SyncTypeCorrect`, `RenderedAtMostTwice`,
`NothingIsSkipped`.

* A row is appended by its push or by the end of its reveal, and only once
  (`OnceEach`); what is merged is compared with the list before.  So a row that
  is still to be appended is in the list at most once, and any other at most
  twice (`Counted`).
* That a chat lacks nothing rests on two facts (`NoGap`): the watermark passes no
  row that is due unless the page has it, and a row that is due and not there is
  on its way in a push, or the chat is owed a backfill.  For both the frames
  must come in the order of their seqs (`Ordered`), a history must be an initial
  part of the rows (`HistoryFits`), and a page under way must skip no row
  between its start, which the watermark has reached, and its end (`RunFits`).
  The run that pays what is owed is one that began on the present connection
  (`fresh`): whatever is newer than its last page is pushed.

*Sessions* (`SessionRoutingProofs`): `RoutingTypeCorrect`, `ActiveStaysListed`,
`WorkingMeansWork`, `RoutedFramesStay`.

* `WorkingMeansWork` needs that a session whose agent types is shown as typing
  (`Reasons`).  `RoutedFramesStay` needs that a new session neither
  types nor is sticky, and that there is a sticky session that keyless frames go
  to (`Attributed`).
* The proof of the latter failed first, and was right to: a session that a frame
  with its key has made sticky before it was created takes keyless frames though
  it is new.  TLC's instance had no such history.  `exposed` names this
  exception too.
* Deleting an entry of a list is a recursive function of its sequence; what it
  returns is proved by well-founded induction on the finite sets `1..n`, as the
  induction theorems of the library cannot be instantiated here.

*Voice* (`VoiceProofs`).

* Of the collector: `CollectorTypeCorrect`, `MapsAgree`, `NoEntryIsStuck`,
  `AnswersAreNotLater`, `CollectorIsBounded`, `SettledStaysSettled`.  The
  inductive invariant adds that an entry which is not in `byMsgId` has no timer
  left (`Removed`: no timeout can revive it), that requests are numbered
  (`Born`), and that the prompts waiting in a session are not younger than the
  request it is mapped to (`PromptsAreOlder`), which is what keeps an answer to
  a later prompt from an earlier request.
* Of asks: `AskTypeCorrect`, `ProcessesAreFew`, `PollFindsTheTask`,
  `DelegationIsTrue`, `OutcomeStays`.  `inflight` is shown to count the living
  processes (`CountsProcesses`); that the answer to an ask is a status a client
  knows needs that a task whose ask is still open was neither settled nor swept
  (`HeldOpen`), and `PromiseIsKept` that before its end only the sweep removes
  a task (`OpenTasks`).
* Of the fast path: `FastPathTypeCorrect`, `ReportsTrue` (each step a report
  calls done was carried out), `NeverDoneTwice` (only a plan of one step whose
  call failed is handed on to the model), `CacheNeverStale`,
  `LearningIsHarmless`.  The cache stands for the files under the times that
  were read before them, so that a write in between leaves it under an old time
  (`CacheOK`); that learning shadows no name needs that nobody else learned the
  name while the tables were being loaded (`ReadingOK`).

*Residents and the assistant* (`ResidentProofs`).

* Of retention: `ResidentKeyIsCompliant`, `RetentionTypeCorrect`,
  `ResidentsAreKept`, `RecentSessionsAreKept`, `OldestMessagesGoFirst`.  The
  invariant adds that the time of a session is that of its youngest message or
  later (`ActivityFollowsMessages`), which is what a cleanup goes by, and that
  message ids are unique (`UniqueIds`), without which its order is none.
* Of pushes: `PushTypeCorrect`, `SubscriptionIsKept`, `SwitchedOffIsSilent`,
  `ProactiveRepliesArePushed`.  A request of an earlier toggle may still be on
  its way when the next one is made; the invariant says which of them can be
  (`OwnRequest`, `NoOtherRequest`), that an answered one is in the table
  (`HandledIsInTable`), and that endpoints are not given out twice
  (`EndpointsInOrder`).
* Of the assistant page: `PageTypeCorrect`, `UnreadIsNoticed`,
  `DismissedIsGone`, `PromptsAreSentOnce`, `WritesAreShown`, each from an
  invariant over its own variables, which the steps of the other parts leave
  alone.  A dashboard without a badge has news on its way (`WillHear`); the
  state of a card follows the state of its request (`Dismissal`); an item that
  was prompted is listed, and stays so through any refresh already answered
  (`Prompted`).  For `WritesAreShown` (`ChatInv`) each message of the backend that
  a loaded chat lacks will be asked for - its session is in an event, a batch or a
  run that has yet to come to it (`WillBePulled`), or a pull that brings it is
  under way (`Brought`) - or the chat is one of the exceptions, or a push has
  moved the watermark past it while nothing was asking for it (`passed`).

*The workspace* (`WorkspaceProofs`).

* Of the panel: `PanelTypeCorrect`, `BadgesFollow`, `SpinnersEnd`,
  `SettledPanels`.  The last needs that whatever a configured panel lacks is in
  flight (`PanelFills`): the status of the selected scope also as what the
  listing of the root will ask for.
* Of files: `FilesTypeCorrect`, `OnlyRacesOverwrite`, `ViewersKnowTheirContent`.
  The invariant says what each stage of a request nothing came between knows of
  the disk (`InTouch`): a save that has been compared still finds the version
  its author saw, a renaming that has been checked still finds its target free,
  an answer holds the etag of its own version.  Every step that writes marks the
  requests it comes between, and keeps the others in touch.
* Of git: `DiffsAreOfListedFiles`, `ScopesShowTheirRepository`,
  `ScansFindRepositories`, over every tree and placement of repositories.  The
  repository of a path is the longest one that is a prefix of it (`TopOf`), by
  well-founded induction; the conversion of a path to its repository and back is
  then the identity on what a status lists.  In a scan that is under way, every
  repository it should find has been found or has an ancestor in the queue
  (`ScanInv`).

*Only model-checked.*  The liveness properties (`AutoDelivered`, `Reconnects`,
`BackfillEnds`, `CatchesUp`, `EveryRequestEnds`, `EveryAskIsAnswered`,
`EveryUploadEnds`): the installed provers have no rule for fairness and no
`ENABLED`.  The functions of `MessageGroups`, `MessageScroll`, `Composer`,
`BridgeFrames`, `AskQuestion`, `AssistantLists`, `PathResolver`, `ServerConfig`
and `AuthGuard` are recursive or folds over data and are compared with their
references over bounded inputs only.

## 6. Plan

1. The Harmony client's outbox and backfill, the former against
   `MessageIntake` as well.
2. `MessageDelivery` composed with `BridgeClient`, to state what becomes of a
   confirmed message between the table and the bridge.
3. Streaming and preview content in `DownstreamSync`; control messages of
   policy `never`; notifications of the page itself.
4. Proofs: what the recursive functions of `MessageGroups` and `AssistantLists`
   keep, by the same well-founded induction; an abstract specification of the
   voice requests that the collector and the asks both implement; the safety
   part of the liveness arguments (a measure that every step towards an answer
   lowers).

## 7. Running

`tlc -config <cfg> <module>` for a run, `tlapm <module>.tla` for a proof
module.  Definitions commented as mutants are faulty variants of the one that
follows them; no specification uses them.  They record a plausible bug for each
property that the property detects.
