------------------------------ MODULE SessionText ------------------------------
(***************************************************************************)
(* How a transcript is read: what the scan takes for the operator's words  *)
(* (sources.py, operator_text), who is said to speak in the rendered text  *)
(* (render.py, prompt and said), and how a record too long for a window is *)
(* cut (render.py, fit).  Each record is read for itself: what one renders *)
(* depends on the others only in the name of a result's tool, left out.    *)
(*                                                                         *)
(* A text is a sequence of words; the tags the code looks for are words.   *)
(* A record is its type, where its text came from (origin), the one flag   *)
(* that matters, and its blocks; a string content is one text block.       *)
(***************************************************************************)
EXTENDS Naturals, Sequences, FiniteSets, SequencesExt, Words

CONSTANTS MaxRecord,          \* max_record, in bytes
          MaxChars,           \* the longest text a record may have
          Heads               \* bytes of a rendered record's anchor, time, speaker

ASSUME TextAssumption ==
  MaxRecord \in Nat /\ MaxChars \in Nat /\ Heads \subseteq Nat

VARIABLES
  record,     \* the record that was read
  heard,      \* what it renders: a sequence of [speaker, note, text]
  fitted      \* a record cut to fit: [chars, width, head, bytes, kept]

textVars == <<record, heard, fitted>>

Reminder == "<system-reminder>"
Task == "<task-notification>"
SystemTags == {"<bash-stdout>", Reminder}
Long == "<more than 2500 characters>"
TextsRead == {<<>>, <<Reminder>>, <<"<bash-stdout>">>, <<Long>>, <<"w">>,
              <<Task>>, <<Task, "<result>">>, <<"w", "<pasted_content>">>}
Blocks == [kind : {"text"}, text : TextsRead]
          \cup [kind : {"tool_result"}, text : {<<>>, <<"w">>}]
          \cup [kind : {"image"}, text : {<<"[image]">>}]
          \cup [kind : {"tool_use"}, text : {<<"input">>}]
Origins == {"none", "human", "peer", "handback", "task-notification", "other"}
Flags == {"none", "meta", "compact", "internal", "sidechain", "pasted"}
NoRecord == [type |-> "system", origin |-> "none", flag |-> "none", blocks |-> <<>>]
NoFit == [chars |-> 0, width |-> 1, head |-> 0, bytes |-> 0, kept |-> 0]

TextInit ==
  record = NoRecord /\ heard = <<>> /\ fitted = NoFit

-----------------------------------------------------------------------------
(* sources.py.                                                              *)

Starts(text, tags) == text # <<>> /\ text[1] \in tags
Has(text, word) == word \in ToSet(text)

\* Mutant: a reminder is taken for the operator's words.
AnyTextBlock(b) == b.kind = "text" /\ b.text # <<>>

\* What the scan takes a session for.
OperatorBlock(b) == b.kind = "text" /\ b.text # <<>> /\ ~Starts(b.text, {Reminder})

OperatorText(r) == r.type = "user" /\ \E i \in DOMAIN r.blocks : OperatorBlock(r.blocks[i])

-----------------------------------------------------------------------------
(* render.py.                                                               *)

\* flat: the text of all blocks, an image by its mark; a call has none.
Flat(blocks) ==
  FlattenSeq([i \in DOMAIN blocks |-> IF blocks[i].kind = "tool_use" THEN <<>> ELSE blocks[i].text])

Entry(speaker, note, text) == [speaker |-> speaker, note |-> note, text |-> text]

\* Mutant: only the origins known to be machines are told apart.
PromptByType(text, origin, flag) ==
  CASE flag \in {"internal", "sidechain"} -> Entry("SYSTEM", "", text)
    [] origin \in {"none", "human", "other"} -> Entry("OPERATOR", "", text)
    [] OTHER -> Entry("SYSTEM", "", text)

\* prompt: who speaks in a user message or a queued command.
Prompt(text, origin, flag) ==
  CASE origin = "handback" -> Entry("HANDBACK", "", text)
    [] origin = "peer" -> Entry("SYSTEM", "peer", text)
    [] origin \notin {"handback", "peer"} /\ (origin = "task-notification" \/ Starts(text, {Task})) ->
         Entry(IF Has(text, "<result>") THEN "HANDBACK" ELSE "SYSTEM", "", text)
    [] OTHER ->
         IF Starts(text, SystemTags) \/ origin = "other" \/ flag \in {"internal", "sidechain"}
           THEN Entry("SYSTEM", "", text)
           ELSE Entry("OPERATOR", IF Has(text, "<pasted_content>") \/ flag = "pasted" THEN "pasted"
                                  ELSE IF Has(text, Long) THEN "relayed" ELSE "", text)

Results(r) == \E i \in DOMAIN r.blocks : r.blocks[i].kind = "tool_result"

\* What a block renders that is read for itself.
Part(r, b) ==
  CASE r.type = "assistant" /\ b.kind = "text" -> <<Entry("ASSISTANT", "", b.text)>>
    [] r.type = "assistant" /\ b.kind = "tool_use" -> <<Entry("CALL", "", b.text)>>
    [] r.type = "user" /\ b.kind = "tool_result" -> <<Entry("RESULT", "", b.text)>>
    [] r.type = "user" /\ b.kind = "text" /\ ~Starts(b.text, {Reminder}) -> <<Prompt(b.text, r.origin, r.flag)>>
    [] OTHER -> <<>>

\* said: the parts of a record that render.
Said(r) ==
  LET each == FlattenSeq([i \in DOMAIN r.blocks |-> Part(r, r.blocks[i])])
      whole == Flat(r.blocks)
  IN CASE r.type = "assistant" -> each
       [] r.type = "attachment" -> IF r.blocks = <<>> THEN <<>> ELSE <<Prompt(whole, r.origin, r.flag)>>
       [] r.type = "user" ->
            IF r.flag = "compact" THEN <<Entry("SYSTEM", "summary", whole)>>
            ELSE IF r.flag = "meta" /\ r.origin \notin {"peer", "handback"} THEN <<>>
            ELSE IF Results(r) THEN each ELSE <<Prompt(whole, r.origin, r.flag)>>
       [] OTHER -> <<>>

\* render: parts without a text are left out.
Rendered(r) == LET said == Said(r) IN Only(said, {e \in ToSet(said) : e.text # <<>>})

-----------------------------------------------------------------------------
(* render.py, fit: sizes in bytes, a character taking 1 or 3.               *)

Digits[n \in 0..MaxChars] == IF n < 10 THEN 1 ELSE 1 + Digits[n \div 10]
Mark(n) == 19 + Digits[n]                \* " [...N chars cut...]"

\* A window has room for a record's head and the mark of any text.
ASSUME RoomAssumption == \A h \in Heads : h + Mark(MaxChars) <= MaxRecord

\* Mutant: the room is counted without the mark.
FitNoMark(chars, width, head) ==
  LET kept == (MaxRecord - head) \div width
  IN IF head + chars * width <= MaxRecord THEN [bytes |-> head + chars * width, kept |-> chars]
     ELSE [bytes |-> head + kept * width + Mark(chars - kept), kept |-> kept]

Fit(chars, width, head) ==
  LET room == MaxRecord - head - Mark(chars)
      kept == room \div width            \* a character cut in two is dropped
  IN IF head + chars * width <= MaxRecord THEN [bytes |-> head + chars * width, kept |-> chars]
     ELSE [bytes |-> head + kept * width + Mark(chars - kept), kept |-> kept]

-----------------------------------------------------------------------------
Read(r) ==
  /\ record' = r /\ heard' = Rendered(r)
  /\ UNCHANGED fitted

Cut(chars, width, head) ==
  /\ LET f == Fit(chars, width, head)
     IN fitted' = [chars |-> chars, width |-> width, head |-> head, bytes |-> f.bytes, kept |-> f.kept]
  /\ UNCHANGED <<record, heard>>

Records ==
  [type : {"user"}, origin : Origins, flag : Flags, blocks : BoundedSeq(Blocks, 2)]
  \cup [type : {"attachment"}, origin : Origins, flag : Flags, blocks : BoundedSeq(Blocks, 1)]
  \cup [type : {"assistant"}, origin : {"none"}, flag : {"none"}, blocks : BoundedSeq(Blocks, 1)]

\* One record, or one cut.
TextNext ==
  /\ record = NoRecord /\ fitted = NoFit
  /\ \/ \E r \in Records : Read(r)
     \/ \E chars \in 1..MaxChars, width \in {1, 3}, head \in Heads : Cut(chars, width, head)

TextSpec == TextInit /\ [][TextNext]_textVars

-----------------------------------------------------------------------------
(* What the reading promises.                                               *)

\* The operator is named as the speaker only of a record that came from a person,
\* into this session, and only of a text no tag disowns at its beginning; beside
\* tool results each block is judged for itself, and none of what the tools
\* returned or the client appended there is in it (prompt, said).  Where a record
\* has no results its blocks render as one text: a reminder behind the operator's
\* words in it renders with them.
FromAPerson(r) == r.origin \in {"none", "human"} /\ r.flag \notin {"internal", "sidechain"}
OperatorWordsAreTheOperators ==
  \A i \in DOMAIN heard :
    heard[i].speaker = "OPERATOR" =>
      /\ record.type \in {"user", "attachment"} /\ FromAPerson(record)
      /\ ~Starts(heard[i].text, SystemTags \cup {Task})
      /\ record.type = "user" =>
           /\ record.flag \notin {"meta", "compact"}
           /\ Results(record) =>
                \E k \in DOMAIN record.blocks : record.blocks[k].kind = "text" /\ record.blocks[k].text = heard[i].text

\* Every text for which the scan takes a session is in the rendered text, word
\* for word, as long as the record is not one the client marked as meta: those
\* the scan counts (operator_text) and the rendering drops (said).
TakenWordsRender ==
  OperatorText(record) /\ (record.flag # "meta" \/ record.origin \in {"peer", "handback"}) =>
    \A i \in DOMAIN record.blocks :
      OperatorBlock(record.blocks[i]) => \E k \in DOMAIN heard : record.blocks[i].text \in SubSeqs(heard[k].text)

\* A record that is cut is no longer than a window may be, and loses no more
\* than that takes.
CutRecordsFit ==
  /\ fitted.bytes <= MaxRecord
  /\ fitted.kept < fitted.chars =>
       MaxRecord < fitted.head + (fitted.kept + 1) * fitted.width + Mark(fitted.chars)
=============================================================================
