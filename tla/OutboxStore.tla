---------------------------- MODULE OutboxStore ----------------------------
(***************************************************************************)
(* The dashboard's outbox, packages/web/src/lib/store/outbox.ts: the       *)
(* functions of the zustand store as operators on the map of entries.      *)
(*                                                                         *)
(* An entry is keyed by its clientMsgId, which is fresh for every message  *)
(* (crypto.randomUUID), so a message stands for its id.  The two           *)
(* timestamps of an entry are abstracted to what the code compares them    *)
(* with:                                                                   *)
(*   aged = TRUE      now - createdAt     > MANUAL_WINDOW_MS (2 minutes)   *)
(*   sent = "unset"   transmittedAt is undefined                           *)
(*   sent = "fresh"   now - transmittedAt <= ACK_TIMEOUT_MS  (15 seconds)  *)
(*   sent = "overdue" now - transmittedAt >  ACK_TIMEOUT_MS                *)
(* Messages of policy "never" are not queued (outbox.ts:78) and are not    *)
(* part of Msgs.                                                           *)
(***************************************************************************)

CONSTANTS
    Msgs,    \* the messages the user writes
    Policy,  \* Policy[m]: the retry policy of m, "auto" or "manual"
    Big      \* the messages whose payload exceeds PERSIST_MAX_BYTES

ASSUME PolicyAssumption == Policy \in [Msgs -> {"auto", "manual"}]
ASSUME BigAssumption == Big \subseteq Msgs

Entry == [status  : {"none", "pending", "failed"},
          aged    : BOOLEAN,
          sent    : {"unset", "fresh", "overdue"},
          dropped : BOOLEAN]

\* The map has no entry for a message: never queued, or acknowledged.
NoEntry == [status |-> "none", aged |-> FALSE, sent |-> "unset", dropped |-> FALSE]

\* A fresh expression of the user's intent: createdAt = now, never transmitted.
Pending == [NoEntry EXCEPT !.status = "pending"]

Entries == [Msgs -> Entry]
EmptyOutbox == [m \in Msgs |-> NoEntry]

Queued(es) == {m \in Msgs : es[m].status # "none"}

-----------------------------------------------------------------------------
(* The store's functions, without the persist() each of them ends with.     *)

Enqueue(es, m) == [es EXCEPT ![m] = Pending]

MarkSent(es, m) == [es EXCEPT ![m] = NoEntry]

\* The user taps "resend": a new intent, unless the payload is gone.
Resend(es, m) ==
    IF m \in Queued(es) /\ ~ es[m].dropped
    THEN [es EXCEPT ![m] = Pending]
    ELSE es

\* Mutant of FailAgedManual: the window is not checked.
FailNoManual(es) == es

\* First half of takeSendable: manual entries past their window are failed...
FailAgedManual(es) ==
    [m \in Msgs |->
        IF Policy[m] = "manual" /\ es[m].status = "pending" /\ es[m].aged
        THEN [es[m] EXCEPT !.status = "failed"]
        ELSE es[m]]

\* ... second half: and what is still pending may be written to the socket.
Sendable(es) == {m \in Msgs : es[m].status = "pending"}

MarkTransmitted(es, ids) ==
    [m \in Msgs |->
        IF m \in ids /\ es[m].status = "pending"
        THEN [es[m] EXCEPT !.sent = "fresh"]
        ELSE es[m]]

ExpireStale(es) ==
    [m \in Msgs |->
        IF es[m].status = "pending" /\ es[m].sent = "overdue"
        THEN [es[m] EXCEPT !.status = "failed"]
        ELSE es[m]]

\* Mutants of ReviveAuto: stubs without payload are revived; nothing is.
ReviveStubs(es) ==
    [m \in Msgs |->
        IF Policy[m] = "auto" /\ es[m].status = "failed"
        THEN [es[m] EXCEPT !.status = "pending"]
        ELSE es[m]]
ReviveNothing(es) == es

ReviveAuto(es) ==
    [m \in Msgs |->
        IF Policy[m] = "auto" /\ es[m].status = "failed" /\ ~ es[m].dropped
        THEN Pending
        ELSE es[m]]

-----------------------------------------------------------------------------
(* localStorage                                                             *)

\* Mutant of Persistable: oversized entries are left out.
PersistableWithoutStubs(es) ==
    [m \in Msgs |-> IF m \in Big THEN NoEntry ELSE es[m]]

\* What persist() writes: an oversized payload is replaced by a failed stub.
Persistable(es) ==
    [m \in Msgs |->
        IF m \in Queued(es) /\ m \in Big
        THEN [es[m] EXCEPT !.status = "failed", !.dropped = TRUE]
        ELSE es[m]]

\* What loadPersisted() makes of it: everything with a payload is pending again.
LoadPersisted(stored) ==
    [m \in Msgs |->
        IF m \in Queued(stored) /\ ~ stored[m].dropped
        THEN [stored[m] EXCEPT !.status = "pending"]
        ELSE stored[m]]

-----------------------------------------------------------------------------
(* Time, seen through the two timeouts                                      *)

PassWindow(es, m) ==
    IF m \in Queued(es) THEN [es EXCEPT ![m].aged = TRUE] ELSE es

PassAckBudget(es, m) ==
    IF es[m].sent = "fresh" THEN [es EXCEPT ![m].sent = "overdue"] ELSE es
=============================================================================
