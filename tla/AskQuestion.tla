----------------------------- MODULE AskQuestion -----------------------------
(* Questions the agent asks with a card: web/components/AskQuestionCard.tsx  *)
(* and web/lib/ask-answers.ts.  What has been answered is kept nowhere: it is *)
(* worked out of the chat's messages, so that a reload shows it again.       *)
(*                                                                           *)
(* A card is [items, multi, lines]: its buttons' values <<question, option>>, *)
(* whether its text says that several may be chosen, and the numbers of the  *)
(* options its text lists (0 for any other line).  An answer is [form,       *)
(* nums]: "button" <<question, option>>, "numbers" or "text".                *)
EXTENDS Naturals, Sequences
LOCAL INSTANCE SequencesExt
LOCAL INSTANCE FiniteSetsExt

\* The options of a list numbered 1 to n with other lines between or after
\* them; no other list is one.
ParseMarkdownOptions(lines) ==
    LET numbers == SelectSeq(lines, LAMBDA n: n # 0)
    IN  IF numbers # <<>> /\ \A i \in DOMAIN numbers : numbers[i] = i THEN numbers ELSE <<>>

\* <<>> if the card asks nothing, else <<[multiSelect, options]>>; an option
\* is [index, value], its value <<>> where the answer is typed.
DetectAskQuestion(card) ==
    LET listed == ParseMarkdownOptions(card.lines)
    IN  CASE card.items # <<>> ->
               <<[multiSelect |-> card.multi,
                  options |-> [i \in DOMAIN card.items |->
                                 [index |-> i, value |-> card.items[i]]]]>>
          [] card.items = <<>> /\ card.multi /\ listed # <<>> ->
               <<[multiSelect |-> TRUE,
                  options |-> [i \in DOMAIN listed |-> [index |-> i, value |-> <<>>]]]>>
          [] OTHER -> <<>>

\* Which options an answer chose; none if it is a free text.
ParseAnswerIndices(answer, optionCount) ==
    LET chosen == CASE answer.form = "button" -> {answer.nums[2]}
                    [] answer.form = "numbers" -> ToSet(answer.nums)
                    [] OTHER -> {}
    IN  chosen \cap 1..optionCount

\* A card answered before the page was loaded, or on this page just now.
Locked(card) == card.submitted \/ card.answeredWith # <<>>
SelectedIndices(card, optionCount) ==
    IF card.answeredWith # <<>> /\ ~card.submitted
    THEN ParseAnswerIndices(card.answeredWith[1], optionCount) ELSE card.chosen

\* The clicks on a card: what the card becomes, and what is sent, if anything.
HandleSingleSelect(card, opt) ==
    IF Locked(card) THEN [card |-> card, sent |-> <<>>]
    ELSE [card |-> [card EXCEPT !.submitted = TRUE, !.chosen = {opt.index}],
          sent |-> <<[form |-> "button", nums |-> opt.value]>>]

HandleToggle(card, opt) ==
    IF Locked(card) THEN card
    ELSE [card EXCEPT !.chosen = IF opt.index \in @ THEN @ \ {opt.index} ELSE @ \cup {opt.index}]

HandleSubmit(card) ==
    IF Locked(card) \/ card.chosen = {} THEN [card |-> card, sent |-> <<>>]
    ELSE [card |-> [card EXCEPT !.submitted = TRUE],
          sent |-> <<[form |-> "numbers", nums |-> SetToSortSeq(card.chosen, <)]>>]

\* The first reply of the user after a question answers the latest question.
\* A message is [id, kind, content], kind "question", "card", "user" or "text".
ReadAnswer(read, msg) ==
    CASE msg.kind = "question" -> [read EXCEPT !.pending = {msg.id}]
      [] msg.kind = "user" /\ read.pending # {} ->
            [answers |-> read.answers \cup {<<card, msg.id>> : card \in read.pending},
             pending |-> {}]
      [] OTHER -> read

BuildAskAnswerMap(messages) ==
    FoldLeft(ReadAnswer, [answers |-> {}, pending |-> {}], messages).answers

(***************************************************************************)
(* Checks over cards of three options and chats of five messages.           *)
(***************************************************************************)
\* What was chosen is shown again after a reload: the answer that a card sends
\* reads back as the options chosen on it, whether clicked or submitted.
ASSUME AnswerReadsBack ==
    \A multi \in BOOLEAN, toggles \in UNION {[1..n -> 1..3] : n \in 0..3} :
        LET items == [i \in 1..3 |-> <<0, i>>]
            q == DetectAskQuestion([items |-> items, multi |-> multi, lines |-> <<>>])[1]
            fresh == [submitted |-> FALSE, chosen |-> {}, answeredWith |-> <<>>]
            toggled == FoldLeft(LAMBDA c, i: HandleToggle(c, q.options[i]), fresh, toggles)
            ends == IF multi THEN {HandleSubmit(toggled)}
                    ELSE {HandleSingleSelect(fresh, q.options[i]) : i \in 1..3}
        IN  \A end \in ends : end.sent # <<>> =>
                SelectedIndices([fresh EXCEPT !.answeredWith = end.sent], 3)
                    = SelectedIndices(end.card, 3)

\* A card is answered once: however it is clicked after its first answer, or
\* after one known from the chat, nothing is sent again.
ASSUME AnsweredOnce ==
    \A known \in {<<>>, <<[form |-> "text", nums |-> <<>>]>>}, i, j \in 1..3 :
        LET Opt(n) == [index |-> n, value |-> <<0, n>>]
            first == HandleSingleSelect(
                [submitted |-> FALSE, chosen |-> {}, answeredWith |-> known], Opt(i))
            again == HandleSingleSelect(first.card, Opt(j))
        IN  /\ Len(first.sent \o again.sent) = (IF known = <<>> THEN 1 ELSE 0)
            /\ HandleSubmit(HandleToggle(again.card, Opt(j))).sent = <<>>

\* Every reply answers at most one card and every card has at most one answer,
\* which comes after it with no other reply or question between them.
ASSUME AnswersBelongTogether ==
    \A kinds \in [1..5 -> {"question", "card", "user", "text"}] :
        LET map == BuildAskAnswerMap([i \in 1..5 |-> [id |-> i, kind |-> kinds[i]]])
        IN  map = {<<q, a>> \in (1..5) \X (1..5) :
                      /\ q < a /\ kinds[q] = "question" /\ kinds[a] = "user"
                      /\ \A k \in q + 1..a - 1 : kinds[k] \notin {"question", "user"}}

\* A later message changes no answer a card already shows.
ASSUME AnswersStay ==
    \A kinds \in [1..4 -> {"question", "card", "user", "text"}] :
        LET messages == [i \in 1..4 |-> [id |-> i, kind |-> kinds[i]]]
        IN  BuildAskAnswerMap(Front(messages)) \subseteq BuildAskAnswerMap(messages)
=============================================================================
