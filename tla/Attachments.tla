----------------------------- MODULE Attachments -----------------------------
(* Staged attachments.  The dashboard uploads the files of a message one     *)
(* after the other, then sends their paths through the outbox; the server    *)
(* streams each file into the staging directory of the workspace, which it   *)
(* shares with the agent's own program (cc-connect), and prunes it by age.   *)
(* A path stands for the file on both sides of toAgentPath; a name is one    *)
(* that sanitizeAttachmentName has cleaned.  The way of the notice from the  *)
(* outbox to the agent is the subject of MessageDelivery.                    *)
EXTENDS Naturals, Sequences, FiniteSets

CONSTANTS
    Files,      \* the files users pick
    NameOf,     \* their names: several files may have the same
    Bubbles,    \* messages with attachments
    Picked,     \* the files of each
    External,   \* files cc-connect stages in the same directory
    MaxSuffix,  \* bound on the numbers tried to make a name free
    MaxTries,   \* bound on the runs of runUpload for a bubble
    MaxFaults   \* bound on failures and sweeps

ASSUME AttachmentsAssumption ==
    /\ External \cap Files = {}
    /\ Picked \in [Bubbles -> Seq(Files) \ {<<>>}]
    /\ DOMAIN NameOf = Files \cup External
    /\ MaxSuffix \in Nat /\ MaxTries \in Nat /\ MaxFaults \in Nat

VARIABLES
    disk,       \* the staging directory: who wrote the file at a path, and is it whole?
    requests,   \* POST /api/attachments under way on the server
    runs,       \* runs of runUpload: the file that is uploaded, and the paths so far
    retained,   \* bubbles whose files the page still holds
    shown,      \* what a bubble shows: "none", "uploading", "error" or "sent"
    button,     \* bubbles rendered with the button that uploads again
    tries,      \* runs started for a bubble
    doomed,     \* the path the sweep has found to be too old and will unlink
    faults,     \* faults so far
    notices,    \* history: notices sent for a bubble
    handed,     \* history: files the agent was told to read, and their paths
    raced,      \* history: paths two writers have reserved at the same time
    abandoned   \* history: paths left half written by a limit or a crash

client == <<runs, retained, shown, button, tries>>
history == <<notices, handed, raced, abandoned>>
vars == <<disk, requests, client, doomed, faults, history>>

Names == {NameOf[f] : f \in Files \cup External}
Paths == Names \X (0..MaxSuffix)
NoPath == <<>>
Absent == [by |-> {}, whole |-> FALSE, old |-> FALSE]
Fault == faults < MaxFaults /\ faults' = faults + 1

TypeOK ==
    /\ disk \in [Paths -> [by : SUBSET (Files \cup External), whole : BOOLEAN, old : BOOLEAN]]
    /\ requests \subseteq [bubble : Bubbles, try : 1..MaxTries, file : Files,
                           stage : {"asked", "reserved", "writing", "stored", "failed"},
                           path : Paths \cup {NoPath}, heard : BOOLEAN]
    /\ \A b \in Bubbles : runs[b] \subseteq [try : 1..MaxTries, staged : Seq(Paths)]
    /\ retained \subseteq Bubbles /\ button \subseteq Bubbles
    /\ shown \in [Bubbles -> {"none", "uploading", "error", "sent"}]
    /\ tries \in [Bubbles -> 0..MaxTries] /\ notices \in [Bubbles -> Nat]
    /\ doomed \in Paths \cup {NoPath} /\ faults \in 0..MaxFaults
    /\ handed \subseteq (Files \cup External) \X Paths
    /\ raced \subseteq Paths /\ abandoned \subseteq Paths

-----------------------------------------------------------------------------
(* The server                                                                *)

\* stat finds no file at the path: free for a file of its name.
IsFree(p) == disk[p] = Absent
\* reserveAttachmentPath: name, name-1, name-2 ..., the first that stat does not find.
FirstFree(f) == {p \in Paths :
    /\ p[1] = NameOf[f] /\ IsFree(p)
    /\ \A k \in 0..MaxSuffix : k < p[2] => ~IsFree(<<NameOf[f], k>>)}

ReserveOneOf(r, paths) ==
    /\ r.stage = "asked"
    /\ \E p \in paths :
        /\ requests' = (requests \ {r}) \cup {[r EXCEPT !.stage = "reserved", !.path = p]}
        /\ raced' = raced \cup {q \in {p} : \E s \in requests : s.stage = "reserved" /\ s.path = p}
    /\ UNCHANGED <<disk, client, doomed, faults, notices, handed, abandoned>>
ReserveUnchecked(r) == ReserveOneOf(r, {<<NameOf[r.file], 0>>})
Reserve(r) == ReserveOneOf(r, FirstFree(r.file))

\* createWriteStream opens the path, which empties a file that is there.
OpenFile(r) ==
    /\ r.stage = "reserved"
    /\ disk' = [disk EXCEPT ![r.path] = [by |-> {r.file}, whole |-> FALSE, old |-> FALSE]]
    /\ requests' = (requests \ {r}) \cup {[r EXCEPT !.stage = "writing"]}
    /\ UNCHANGED <<client, doomed, faults, history>>

Answer(r, stage) ==
    requests' = (requests \ {r}) \cup
        (IF r.heard THEN {[r EXCEPT !.stage = stage]} ELSE {})

\* The pipeline has ended and stat finds a file: the answer names its path.
Store(r) ==
    /\ r.stage = "writing" /\ ~IsFree(r.path)
    /\ disk' = [disk EXCEPT ![r.path].by = @ \cup {r.file}, ![r.path].whole = TRUE]
    /\ Answer(r, "stored")
    /\ UNCHANGED <<client, doomed, faults, history>>

\* The catch: what was written is removed.  It also follows when the client has gone
\* away and the request breaks off, stat does not find the file, or no name is free.
Breaks(r) ==
    /\ r.stage # "stored" /\ r.stage # "failed"
    /\ \/ r.heard /\ Fault
       \/ ~r.heard /\ UNCHANGED faults
       \/ r.stage = "writing" /\ IsFree(r.path) /\ UNCHANGED faults
       \/ r.stage = "asked" /\ FirstFree(r.file) = {} /\ UNCHANGED faults
FailKeepingFile(r) ==
    /\ Breaks(r)
    /\ Answer(r, "failed")
    /\ UNCHANGED <<disk, client, doomed, history>>
Fail(r) ==
    /\ Breaks(r)
    /\ disk' = IF r.path = NoPath THEN disk ELSE [disk EXCEPT ![r.path] = Absent]
    /\ Answer(r, "failed")
    /\ UNCHANGED <<client, doomed, history>>

\* The file is larger than the limit: the 413 is returned, and what was written stays.
Truncate(r) ==
    /\ Fault
    /\ r.stage = "writing"
    /\ Answer(r, "failed")
    /\ abandoned' = abandoned \cup {r.path}
    /\ UNCHANGED <<disk, client, doomed, notices, handed, raced>>

\* The server stops: its requests break off, and half-written files stay.
Crash ==
    /\ Fault
    /\ requests # {}
    /\ abandoned' = abandoned \cup {r.path : r \in {s \in requests : s.stage = "writing"}}
    /\ requests' = {[r EXCEPT !.stage = "failed"] : r \in {s \in requests : s.heard}}
    /\ UNCHANGED <<disk, client, doomed, notices, handed, raced>>

\* cc-connect stages a file it received from elsewhere at a path that is free.
Receive(x) ==
    /\ \A h \in handed : h[1] # x
    /\ \E p \in Paths :
        /\ p[1] = NameOf[x] /\ IsFree(p)
        /\ disk' = [disk EXCEPT ![p] = [by |-> {x}, whole |-> TRUE, old |-> FALSE]]
        /\ handed' = handed \cup {<<x, p>>}
        /\ raced' = raced \cup {q \in {p} : \E s \in requests : s.stage = "reserved" /\ s.path = p}
    /\ UNCHANGED <<requests, client, doomed, faults, notices, abandoned>>

\* Thirty days pass; no upload lasts that long, and nobody reads the files any more.
Age ==
    /\ Fault
    /\ requests = {}
    /\ disk' = [p \in Paths |-> IF IsFree(p) THEN Absent ELSE [disk[p] EXCEPT !.old = TRUE]]
    /\ handed' = {}
    /\ UNCHANGED <<requests, client, doomed, notices, raced, abandoned>>

\* pruneStagingDirectory: lstat, and then unlink.
SweepFinds(p) ==
    /\ doomed = NoPath /\ disk[p].old
    /\ doomed' = p
    /\ UNCHANGED <<disk, requests, client, faults, history>>
SweepUnlinks ==
    /\ doomed # NoPath
    /\ disk' = [disk EXCEPT ![doomed] = Absent]
    /\ doomed' = NoPath
    /\ UNCHANGED <<requests, client, faults, history>>

-----------------------------------------------------------------------------
(* The dashboard                                                             *)

\* uploadAttachment: one request of a run.
Ask(b, n, f) ==
    [bubble |-> b, try |-> n, file |-> f, stage |-> "asked", path |-> NoPath, heard |-> TRUE]

\* runUpload starts with the first file, also when it is run again.
StartRun(b) ==
    /\ tries[b] < MaxTries
    /\ tries' = [tries EXCEPT ![b] = @ + 1]
    /\ runs' = [runs EXCEPT ![b] = @ \cup {[try |-> tries'[b], staged |-> <<>>]}]
    /\ requests' = requests \cup {Ask(b, tries'[b], Picked[b][1])}
    /\ shown' = [shown EXCEPT ![b] = "uploading"]

\* sendStagedAttachments: a bubble of its own, and its files are kept.
SendStaged(b) ==
    /\ shown[b] = "none"
    /\ StartRun(b)
    /\ retained' = retained \cup {b}
    /\ UNCHANGED <<disk, button, doomed, faults, history>>

\* The button, which the page renders after the bubble has changed.
Render(b) ==
    /\ (b \in button) # (shown[b] = "error")
    /\ button' = IF shown[b] = "error" THEN button \cup {b} ELSE button \ {b}
    /\ UNCHANGED <<disk, requests, runs, retained, shown, tries, doomed, faults, history>>

\* retryStagedUpload: a second tap finds the bubble in flight.
RetryInFlight(b) ==
    /\ b \in button /\ b \in retained
    /\ StartRun(b)
    /\ UNCHANGED <<disk, retained, button, doomed, faults, history>>
Retry(b) ==
    /\ b \in button /\ b \in retained /\ runs[b] = {}
    /\ StartRun(b)
    /\ UNCHANGED <<disk, retained, button, doomed, faults, history>>

OfRun(r, u) == r.try = u.try

\* A file is stored: the next one is uploaded.
NextFile(r) ==
    /\ r.stage = "stored"
    /\ \E u \in runs[r.bubble] :
        /\ OfRun(r, u) /\ Len(u.staged) + 1 < Len(Picked[r.bubble])
        /\ runs' = [runs EXCEPT ![r.bubble] =
                (@ \ {u}) \cup {[u EXCEPT !.staged = Append(@, r.path)]}]
        /\ requests' = (requests \ {r}) \cup
                {Ask(r.bubble, u.try, Picked[r.bubble][Len(u.staged) + 2])}
    /\ UNCHANGED <<disk, retained, shown, button, tries, doomed, faults, history>>

\* The last one is stored: the paths are sent, and the files are let go.
SendNotice(r) ==
    /\ r.stage = "stored"
    /\ \E u \in runs[r.bubble] :
        /\ OfRun(r, u) /\ Len(u.staged) + 1 = Len(Picked[r.bubble])
        /\ runs' = [runs EXCEPT ![r.bubble] = @ \ {u}]
        /\ handed' = handed \cup {<<Picked[r.bubble][i], Append(u.staged, r.path)[i]>> :
                                    i \in 1..Len(Picked[r.bubble])}
    /\ notices' = [notices EXCEPT ![r.bubble] = @ + 1]
    /\ shown' = [shown EXCEPT ![r.bubble] = "sent"]
    /\ retained' = retained \ {r.bubble}
    /\ requests' = requests \ {r}
    /\ UNCHANGED <<disk, button, tries, doomed, faults, raced, abandoned>>

\* The answer is a failure, or the connection breaks: the bubble shows it.
ShowError(b, n) ==
    /\ runs' = [runs EXCEPT ![b] = {s \in runs[b] : s.try # n}]
    /\ shown' = [shown EXCEPT ![b] = "error"]
Refused(r) ==
    /\ r.stage = "failed" /\ r.heard
    /\ ShowError(r.bubble, r.try)
    /\ requests' = requests \ {r}
    /\ UNCHANGED <<disk, retained, button, tries, doomed, faults, history>>

\* The server goes on with what it has; it may even have the whole file.
CutIgnored(r) ==
    /\ Fault
    /\ r.heard
    /\ requests' = (requests \ {r}) \cup
        (IF r.stage \in {"stored", "failed"} THEN {} ELSE {[r EXCEPT !.heard = FALSE]})
    /\ UNCHANGED <<disk, client, doomed, history>>
Cut(r) ==
    /\ Fault
    /\ r.heard
    /\ ShowError(r.bubble, r.try)
    /\ requests' = (requests \ {r}) \cup
        (IF r.stage \in {"stored", "failed"} THEN {} ELSE {[r EXCEPT !.heard = FALSE]})
    /\ UNCHANGED <<disk, retained, button, tries, doomed, history>>

-----------------------------------------------------------------------------
Init ==
    /\ disk = [p \in Paths |-> Absent]
    /\ requests = {} /\ doomed = NoPath /\ faults = 0
    /\ runs = [b \in Bubbles |-> {}]
    /\ retained = {} /\ button = {}
    /\ shown = [b \in Bubbles |-> "none"] /\ tries = [b \in Bubbles |-> 0]
    /\ notices = [b \in Bubbles |-> 0]
    /\ handed = {} /\ raced = {} /\ abandoned = {}

Served(r) == Reserve(r) \/ OpenFile(r) \/ Store(r) \/ Fail(r) \/ Truncate(r)
Heard(r) == NextFile(r) \/ SendNotice(r) \/ Refused(r)

Next ==
    \/ \E r \in requests : Served(r) \/ Heard(r) \/ Cut(r)
    \/ \E b \in Bubbles :
        SendStaged(b) \/ Render(b) \/ Retry(b)
    \/ \E x \in External : Receive(x)
    \/ Crash \/ Age \/ SweepUnlinks
    \/ \E p \in Paths : SweepFinds(p)

Spec == Init /\ [][Next]_vars
\* The server works on the requests it has, and the browser handles the answers.
FairSpec ==
    /\ Spec
    /\ \A b \in Bubbles, n \in 1..MaxTries :
        WF_vars(\E r \in requests : r.bubble = b /\ r.try = n /\ (Served(r) \/ Heard(r)))
-----------------------------------------------------------------------------
(* A file the agent was told to read within the last thirty days, or one     *)
(* that cc-connect staged, is at its path, whole and not another: uploads    *)
(* never clobber a file, whatever others fail, are cut off or tried again    *)
(* meanwhile (attachments.ts:63-83).  The exception is a path that two       *)
(* writers reserved before either created it.                                *)
HandedFilesAreWhole ==
    \A h \in handed :
        h[2] \in raced \/ (disk[h[2]].by = {h[1]} /\ disk[h[2]].whole)

(* A half-written file is worse than none (attachments.ts:155-157): one lies *)
(* in the directory only while it is written, after the server stopped, or   *)
(* after the size limit.                                                     *)
NoHalfFileStays ==
    \A p \in Paths :
        ~IsFree(p) /\ ~disk[p].whole =>
            \/ p \in raced \cup abandoned
            \/ \E r \in requests : r.stage = "writing" /\ r.path = p

(* The agent is told of an attachment once, exactly when its bubble shows it *)
(* as sent, whatever is tried again and tapped twice                         *)
(* (attachment-upload.ts:33-34, 98-100).                                     *)
ToldOnceWhenSent ==
    \A b \in Bubbles : notices[b] = IF shown[b] = "sent" THEN 1 ELSE 0

(* A bubble that shows an upload does not do so for ever: the notice is sent *)
(* or an error is shown (attachment-upload.ts:70-79, web-adapter.ts:389-426).*)
EveryUploadEnds ==
    \A b \in Bubbles : shown[b] = "uploading" ~> shown[b] # "uploading"
=============================================================================
