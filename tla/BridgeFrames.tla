---------------------------- MODULE BridgeFrames ----------------------------
(* How the server reads the frames of a bridge: bridge/incoming-fields.ts,   *)
(* bridge/protocol.ts, bridge/parse-skills-probe.ts and the command lists of *)
(* index.ts.  Bridges differ in how they name a field and whether they nest  *)
(* it under "data".                                                          *)
(*                                                                           *)
(* A frame is [top, data, dataText]: the string fields at the top and those  *)
(* of the object under "data", as functions of their names, and <<text>> if  *)
(* "data" is a string.  A value that is no string is like an absent field.   *)
(* An operator that may find nothing returns <<>> or <<text>>.               *)
EXTENDS Naturals, Sequences
LOCAL INSTANCE SequencesExt

Str(fields, name) == IF name \in DOMAIN fields THEN <<fields[name]>> ELSE <<>>

\* The first field that is there, empty or not.
FirstOf(fields, names) ==
    LET n == SelectInSeq(names, LAMBDA name: name \in DOMAIN fields)
    IN  IF n = 0 THEN <<>> ELSE Str(fields, names[n])

\* The first field that has a text in it.
FirstFilled(fields, names) ==
    LET n == SelectInSeq(names, LAMBDA name: Str(fields, name) \notin {<<>>, <<"">>})
    IN  IF n = 0 THEN <<>> ELSE Str(fields, names[n])

Else(found, other) == IF found # <<>> THEN found ELSE other

RegisterAckOk(ok, dataOk) == ok = "true" \/ dataOk = "true"

\* An empty key at the top hides a nested one, and counts as none.
BridgeSessionKey(f) ==
    LET s == Else(FirstOf(f.top, <<"session_key", "sessionKey">>),
                  FirstOf(f.data, <<"session_key", "sessionKey">>))
    IN  IF s = <<"">> THEN <<>> ELSE s

RegisterAckSessionKey(f) == Else(BridgeSessionKey(f), <<"default">>)

BridgeReplyCtx(f) ==
    Else(Else(FirstOf(f.top, <<"reply_ctx", "replyCtx">>),
              FirstOf(f.data, <<"reply_ctx", "replyCtx">>)), <<"">>)

FileNames == <<"name", "file_name", "fileName", "filename">>
BridgeFileName(f) == Else(FirstOf(f.top, FileNames), FirstOf(f.data, FileNames))

BridgeFileData(f) ==
    Else(f.dataText, Else(FirstOf(f.data, <<"data", "content", "bytes">>),
                          FirstOf(f.top, <<"content", "bytes">>)))

BridgeReplyTextContent(f) ==
    LET names == <<"content", "text", "message">>
    IN  Else(Else(FirstOf(f.top, names), FirstOf(f.data, names)), <<"">>)

\* What the top says decides, where it says anything.
BridgeReplyStreamDone(done, dataDone) ==
    IF done \in {"true", "false"} THEN done = "true" ELSE dataDone = "true"

FullTexts == <<"full_text", "fullText", "full", "text", "content">>
ExtractReplyStreamFullText(f) == Else(FirstFilled(f.top, FullTexts), FirstFilled(f.data, FullTexts))

\* Only the delta at the top and the last resort may be an empty text.
\* "delta.content" is the field of an object under "delta".
ExtractReplyStreamChunk(f) ==
    LET delta == Else(Str(f.top, "delta"), FirstFilled(f.top, <<"delta.content", "chunk">>))
        nested == FirstFilled(f.data, <<"delta", "content", "text", "delta.content">>)
    IN  Else(delta, Else(nested, FirstOf(f.top, <<"text", "content">>)))

\* What is no frame is handled as a bridge's error.
ParseBridgeMessage(raw) == IF raw \in {"invalid", "untyped"} THEN "error" ELSE raw

(***************************************************************************)
(* Command probes.  A command's name is [key, caps]: its lower-case form    *)
(* and whether it was spelled otherwise.  A line of text is [name,          *)
(* described]: the name after the slash, <<>> if it has none or one in      *)
(* brackets, and whether words follow it.                                   *)
(***************************************************************************)
AddUnlessKnown(list, name) ==
    IF \E n \in ToSet(list) : n.key = name.key THEN list ELSE Append(list, name)

NamesOf(lines) ==
    LET named == SelectSeq(lines, LAMBDA l: l.name # <<>> /\ l.described)
    IN  [i \in DOMAIN named |-> named[i].name[1]]

ParseSlashCommandsFromProbeText(lines) == FoldLeft(AddUnlessKnown, <<>>, NamesOf(lines))

\* A card's element is [type, values, lines]: the commands of its buttons or
\* options, and its text.  The keys seen are kept as the code keeps them: a
\* list item's name as it is spelled, every other one in lower case.
AddCommand(p, name, asSpelled) ==
    LET key == IF asSpelled THEN name ELSE [name EXCEPT !.caps = FALSE]
    IN  IF key \in p.seen THEN p
        ELSE [seen |-> p.seen \cup {key}, out |-> Append(p.out, name)]

ReadElement(p, el) ==
    FoldLeft(LAMBDA q, name: AddCommand(q, name, el.type = "list_item"), p,
             IF el.type \in {"list_item", "actions", "select"} THEN el.values ELSE <<>>)

ParseSlashCommandsFromProbeCard(elements) ==
    LET buttons == FoldLeft(ReadElement, [seen |-> {}, out |-> <<>>], elements)
        texts == FlattenSeq([i \in DOMAIN elements |->
                    IF elements[i].type \in {"markdown", "list_item", "note"}
                    THEN elements[i].lines ELSE <<>>])
    IN  FoldLeft(LAMBDA p, name: AddCommand(p, name, FALSE), buttons,
                 ParseSlashCommandsFromProbeText(texts)).out

MergeSlashCommands(skills, commands) == FoldLeft(AddUnlessKnown, <<>>, skills \o commands)

\* One probe's answer replaces what that probe said before.
SetLatestProbeCommands(prev, source, commands) ==
    LET next == [prev EXCEPT ![source] = commands]
    IN  [next |-> next, merged |-> MergeSlashCommands(next.skills, next.commands)]

(***************************************************************************)
(* Checks over small frames and cards.                                      *)
(***************************************************************************)
\* Every spelling a bridge may use reaches the chat: a key given in any one of
\* the places is the frame's, and nothing but a given key ever is.
ASSUME KeyIsFoundWhereverItIs ==
    LET Fields == UNION {[names -> {"", "k1", "k2"}] : names \in SUBSET {"session_key", "sessionKey"}}
    IN  \A top, data \in Fields :
            LET f == [top |-> top, data |-> data, dataText |-> <<>>]
                filled == {top[n] : n \in DOMAIN top} \cup {data[n] : n \in DOMAIN data}
            IN  /\ \A k \in {"k1", "k2"} : BridgeSessionKey(f) = <<k>> => k \in filled
                /\ \A k \in {"k1", "k2"} : filled = {k} => BridgeSessionKey(f) = <<k>>

\* The final text of a stream is lost to no empty field beside it.
ASSUME FullTextIsFound ==
    LET Fields == UNION {[names -> {"", "t"}] : names \in SUBSET {"full_text", "text", "content"}}
    IN  \A top, data \in Fields :
            (ExtractReplyStreamFullText([top |-> top, data |-> data, dataText |-> <<>>]) = <<"t">>)
                <=> (\E n \in DOMAIN top : top[n] = "t") \/ (\E n \in DOMAIN data : data[n] = "t")

\* A stream's frame that carries a piece of text never yields an empty one,
\* unless its own delta is empty: no piece is skipped for the field it came in.
ASSUME ChunkIsFound ==
    LET Top == UNION {[names -> {"", "t"}] : names \in SUBSET {"delta", "chunk", "text"}}
        Data == UNION {[names -> {"", "t"}] : names \in SUBSET {"delta", "content", "delta.content"}}
    IN  \A top \in Top, data \in Data :
            /\ Str(top, "delta") # <<"">>
            /\ (\E n \in DOMAIN top : top[n] = "t") \/ (\E n \in DOMAIN data : data[n] = "t")
            => ExtractReplyStreamChunk([top |-> top, data |-> data, dataText |-> <<>>]) = <<"t">>

\* The dashboards' menu has every command of either probe once, whatever its
\* capitals and although a card's own list may repeat it, and a later answer
\* of one probe takes away nothing the other one found.
ASSUME MenuHasEachCommandOnce ==
    LET Name == [key : {"a", "b"}, caps : BOOLEAN]
        Values == {<<>>} \cup {<<n>> : n \in Name}
        Cards == {<<[type |-> "list_item", values |-> v, lines |-> <<[name |-> w, described |-> TRUE]>>],
                    [type |-> "actions", values |-> x, lines |-> <<>>]>> : v, w, x \in Values}
        Keys(list) == {list[i].key : i \in DOMAIN list}
    IN  \A card \in Cards, commands \in Values \cup {<<m, n>> : m, n \in Name} :
            LET skills == ParseSlashCommandsFromProbeCard(card)
                menu == SetLatestProbeCommands([skills |-> skills, commands |-> <<>>],
                                               "commands", commands).merged
            IN  /\ Keys(menu) = Keys(skills) \cup Keys(commands)
                /\ \A i, j \in DOMAIN menu : menu[i].key = menu[j].key => i = j

\* The card's list itself repeats a command only where a list item spells it
\* with capitals: for names in lower case each command is there once.
ASSUME CardRepeatsOnlyCapitals ==
    LET Name == [key : {"a", "b"}, caps : {FALSE}]
        Values == {<<>>} \cup {<<n>> : n \in Name}
    IN  \A v, w, x \in Values :
            IsInjective(ParseSlashCommandsFromProbeCard(
                <<[type |-> "list_item", values |-> v, lines |-> <<[name |-> w, described |-> TRUE]>>],
                  [type |-> "select", values |-> x, lines |-> <<>>]>>))
=============================================================================
