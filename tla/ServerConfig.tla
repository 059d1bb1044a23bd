----------------------------- MODULE ServerConfig -----------------------------
(* The server's configuration: storage/config.ts reads it from a file or the *)
(* database, keeps what it can use and writes it back; auth/token-auth.ts     *)
(* looks a token up in it.                                                    *)
(*                                                                            *)
(* A field's raw value is "absent", "odd" (of another type), or a text: "",   *)
(* " " (blank), "a", "b", or "a " and "b " with spaces around.                *)
EXTENDS Naturals, Sequences
LOCAL INSTANCE SequencesExt

IsText(v) == v \notin {"absent", "odd"}
Trim(v) == CASE v = "a " -> "a" [] v = "b " -> "b" [] v = " " -> "" [] OTHER -> v
IsFilled(v) == IsText(v) /\ Trim(v) # ""
TrimmedOr(v, default) == IF IsFilled(v) THEN Trim(v) ELSE default

\* A number, or a text that begins with one.
PortOf(v) == CASE v \in {"80", "80x"} -> <<"80">> [] OTHER -> <<>>

\* <<>> for an entry that cannot be used.
NormalizeBridge(x) ==
    IF ~IsText(x.id) \/ ~IsText(x.host) \/ PortOf(x.port) = <<>> THEN <<>>
    ELSE <<[id |-> x.id, host |-> x.host, port |-> PortOf(x.port)[1],
            name |-> IF IsText(x.name) THEN x.name ELSE x.id,
            token |-> IF IsText(x.token) THEN x.token ELSE "",
            enabled |-> IF x.enabled \in {"true", "false"} THEN x.enabled ELSE "true",
            workspacePath |-> TrimmedOr(x.workspacePath, "absent"),
            workspaceAgentPath |-> TrimmedOr(x.workspaceAgentPath, "absent")]>>

NormalizeResidentSession(x) ==
    IF x = <<>> \/ ~IsFilled(x[1].bridgeId) \/ ~IsFilled(x[1].key) THEN <<>>
    ELSE <<[bridgeId |-> Trim(x[1].bridgeId), key |-> Trim(x[1].key),
            label |-> TrimmedOr(x[1].label, "absent")]>>

NormalizeWebPush(x) ==
    IF x = <<>> \/ \E field \in DOMAIN x[1] : ~IsFilled(x[1][field]) THEN <<>>
    ELSE <<[field \in DOMAIN x[1] |-> Trim(x[1][field])]>>

\* The token itself and the bridges' names are kept with their spaces.
NormalizeToken(x) ==
    IF ~IsFilled(x.token) THEN <<>>
    ELSE <<[token |-> x.token,
            name |-> IF IsFilled(x.name) THEN x.name ELSE "token",
            bridgeIds |-> SelectSeq(x.bridgeIds, IsFilled),
            petImages |-> IF x.petImages = <<>> \/ ~IsFilled(x.petImages[1].idle) THEN <<>>
                          ELSE <<[p \in DOMAIN x.petImages[1] |->
                                    TrimmedOr(x.petImages[1][p], "absent")]>>,
            residentSession |-> NormalizeResidentSession(x.residentSession),
            ui |-> IF x.ui = "assistant" THEN "assistant" ELSE "absent"]>>

\* bridges and tokens that are no lists count as empty ones.
NormalizeAppConfig(raw) ==
    [bridges |-> FlattenSeq([i \in DOMAIN raw.bridges |-> NormalizeBridge(raw.bridges[i])]),
     tokens |-> FlattenSeq([i \in DOMAIN raw.tokens |-> NormalizeToken(raw.tokens[i])]),
     webPush |-> NormalizeWebPush(raw.webPush)]

DEFAULT_CONFIG == [bridges |-> <<>>, tokens |-> <<>>, webPush |-> <<>>]

(***************************************************************************)
(* A store: the file's content (<<>> if there is none), whether it is       *)
(* broken, the database's row, whether the caller named the file, and where *)
(* save() writes.  "none" is a store without a place for a file.  Loading   *)
(* a broken file throws: config is <<>>.                                    *)
(***************************************************************************)
Load(store) ==
    IF store.place # "none" /\ store.file # <<>>
    THEN IF store.broken THEN [store |-> store, config |-> <<>>]
         ELSE [store |-> [store EXCEPT !.persist = "file"],
               config |-> <<NormalizeAppConfig(store.file[1])>>]
    ELSE [store |-> [store EXCEPT !.persist = IF store.place = "explicit" THEN "file" ELSE "row"],
          config |-> <<IF store.row = <<>> THEN DEFAULT_CONFIG
                       ELSE NormalizeAppConfig(store.row[1])>>]

Save(store, config) ==
    IF store.persist = "file" THEN [store EXCEPT !.file = <<config>>, !.broken = FALSE]
    ELSE [store EXCEPT !.row = <<config>>]

\* A client's token without its spaces, against the tokens as they are kept.
FindTokenIdentity(tokens, rawToken) ==
    LET matched == SelectInSeq(tokens, LAMBDA t: t.token = Trim(rawToken))
    IN  IF ~IsFilled(rawToken) \/ matched = 0 THEN <<>>
        ELSE <<[tokenName |-> tokens[matched].name, bridgeIds |-> ToSet(tokens[matched].bridgeIds),
                petImages |-> tokens[matched].petImages, ui |-> tokens[matched].ui]>>

\* "Bearer" in any capitals, then the token.
GetBearerToken(header) ==
    IF header.scheme = "bearer" /\ header.token # "" THEN <<header.token>> ELSE <<>>

(***************************************************************************)
(* Checks over small configurations.                                        *)
(***************************************************************************)
RawBridges ==
    {[id |-> id, host |-> "h", port |-> port, name |-> name, token |-> token, enabled |-> "odd",
      workspacePath |-> path, workspaceAgentPath |-> "absent"] :
        id \in {"absent", "a"}, port \in {"80", "80x", "odd"}, name \in {"absent", "", "b "},
        token \in {"odd", "b "}, path \in {"absent", " ", "a "}}

RawTokens ==
    {[token |-> token, name |-> name, bridgeIds |-> <<"a", " ", "b ">>, petImages |-> pets,
      residentSession |-> resident, ui |-> ui] :
        token \in {"odd", " ", "a", "b "}, name \in {"", "b "},
        pets \in {<<>>, <<[idle |-> "a ", happy |-> " "]>>, <<[idle |-> " ", happy |-> "a"]>>},
        resident \in {<<>>, <<[bridgeId |-> "a ", key |-> "b", label |-> " "]>>,
                      <<[bridgeId |-> "a", key |-> "odd", label |-> "a"]>>},
        ui \in {"odd", "assistant"}}

Pushes == {<<>>, <<[public |-> "a ", private |-> "b", subject |-> "a"]>>,
           <<[public |-> "a", private |-> " ", subject |-> "a"]>>}

\* A configuration read, saved and read again is the same: what the settings
\* page gets and sends back changes nothing.
ASSUME NormalIsFinal ==
    \A b \in RawBridges, t \in RawTokens, push \in Pushes :
        LET c == NormalizeAppConfig([bridges |-> <<b>>, tokens |-> <<t>>, webPush |-> push])
        IN  NormalizeAppConfig(c) = c

\* One unusable entry takes no other with it, and the order stays.
ASSUME EntriesAreIndependent ==
    \A t1, t2 \in RawTokens :
        NormalizeAppConfig([bridges |-> <<>>, tokens |-> <<t1, t2>>, webPush |-> <<>>]).tokens
          = NormalizeToken(t1) \o NormalizeToken(t2)

\* After a load, what is saved is what the next load returns, wherever it is
\* kept, and a file that cannot be read is not replaced by the defaults.
ASSUME SavedIsLoaded ==
    LET Config(name) == [bridges |-> <<>>, webPush |-> <<>>, tokens |-> <<
            [token |-> "a", name |-> name, bridgeIds |-> <<>>, petImages |-> <<>>,
             residentSession |-> <<>>, ui |-> "absent"]>>]
        Kept == {<<>>, <<Config("old")>>}
    IN  \A file, row \in Kept, broken \in BOOLEAN, place \in {"none", "default", "explicit"} :
            LET first == Load([file |-> file, broken |-> broken, row |-> row,
                               place |-> place, persist |-> "row"])
                saved == Save(first.store, Config("new"))
            IN  IF first.config = <<>> THEN broken /\ first.store.file = file
                ELSE Load(saved).config = <<Config("new")>>

\* Who has a token kept without spaces can log in with it, with spaces around
\* or not, and gets the bridges of the first entry that has it.
ASSUME KeptTokensWork ==
    \A t1, t2 \in RawTokens : \A sent \in {"a", "a "} :
        LET tokens == NormalizeAppConfig([bridges |-> <<>>, tokens |-> <<t1, t2>>, webPush |-> <<>>]).tokens
            found == FindTokenIdentity(tokens, sent)
        IN  /\ (found # <<>>) <=> "a" \in {t1.token, t2.token}
            /\ t1.token = "a" => found[1].tokenName = NormalizeToken(t1)[1].name
=============================================================================
