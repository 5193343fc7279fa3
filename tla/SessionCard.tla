------------------------------ MODULE SessionCard ------------------------------
(***************************************************************************)
(* The card of one session, from run to run: the citation check (cite.py)  *)
(* and the card's text and its atomic write (cards.py).  Each run brings a *)
(* summary and a transcript of its own; the card in the library is         *)
(* replaced when its content changed, and not when only the date did.      *)
(*                                                                         *)
(* A text is a sequence of words, the line break among them; a card is a   *)
(* sequence of lines without the blank ones.  The six list sections are    *)
(* built alike: one of them, with one item, stands for all.                *)
(***************************************************************************)
EXTENDS Naturals, Sequences, FiniteSets, SequencesExt, Words

CONSTANTS Whats, Quotes,     \* the model's texts, as sequences of words
          Lines,             \* what an anchor may name: "@L1", ...
          Dates              \* the days of the runs

ASSUME CardAssumption == Whats \subseteq Seq(STRING) /\ Quotes \subseteq Seq(STRING)

VARIABLES
  card,       \* the lines of the card in the library, <<>> when there is none
  draft,      \* what the run under way rendered
  written,    \* how many of its lines are in the temp file: none, some, all
  cardStep    \* "idle", "compare", "write", "kept"

cardVars == <<card, draft, written, cardStep>>

Break == "\n"
Marker == "##"
Headings == {"#", Marker}
PointerLine == <<Marker, "Pointer">>
DateWord == "Extracted:"
NoneLine == <<"None.">>
Unverified == "(unverified)"

CardInit ==
  card = <<>> /\ draft = <<>> /\ written = 0 /\ cardStep = "idle"

-----------------------------------------------------------------------------
(* cite.py.  `heard' is a set of pairs: the record of that line has the     *)
(* quote, exactly or closely enough (plain, close).                         *)

OneLine(text) == Only(text, ToSet(text) \ {Break})

\* A blank quote is found nowhere.
Found(quote, named, heard) ==
  /\ OneLine(quote) # <<>>
  /\ \E l \in named : <<l, quote>> \in heard

\* cited: the anchors that name a record, once each in their order.
Cited(anchors, quotes, lines, heard) ==
  LET once == Only([i \in DOMAIN anchors |-> <<anchors[i], \A j \in 1..(i - 1) : anchors[j] # anchors[i]>>],
                   lines \X {TRUE})
      kept == [i \in DOMAIN once |-> once[i][1]]
  IN [anchors |-> kept, quotes |-> quotes,
      verified |-> kept # <<>> /\ \A i \in DOMAIN quotes : Found(quotes[i], ToSet(kept), heard)]

-----------------------------------------------------------------------------
(* cards.py: the text.                                                      *)

\* inline: a leading block marker is escaped.
Inline(text) ==
  LET line == OneLine(text)
  IN IF line # <<>> /\ line[1] \in Headings THEN <<"\\#">> \o Tail(line) ELSE line

\* A quote's own line breaks are kept; every line of it is indented.
QuoteLines(quote) ==
  LET at[i \in 0..Len(quote)] ==
        IF i = 0 THEN << <<>> >>
        ELSE IF quote[i] = Break THEN Append(at[i - 1], <<>>)
        ELSE [at[i - 1] EXCEPT ![Len(at[i - 1])] = Append(@, quote[i])]
  IN at[Len(quote)]

Bullet(item, text) ==
  << <<"-">> \o Inline(text) \o (IF item.verified THEN << >> ELSE <<Unverified>>) \o item.anchors >>
  \o FlattenSeq([i \in DOMAIN item.quotes |->
        LET lines == QuoteLines(item.quotes[i]) IN [j \in DOMAIN lines |-> <<"  >">> \o lines[j]]])

\* The pointer block: what names copy and recipe, then the day.
Pointer(date) == << PointerLine, <<"Archive:">>, <<DateWord, date>> >>

RenderCard(what, item, text, date) ==
  << <<"#", "Session">>, <<Marker, "What">>, IF Inline(what) = <<>> THEN NoneLine ELSE Inline(what),
     <<Marker, "Why">> >> \o Bullet(item, text) \o Pointer(date)

\* The lines that begin like the date.
DateLines(lines) == {l \in ToSet(lines) : l # <<>> /\ l[1] = DateWord}

\* Mutant: lines that begin like the date are left out everywhere.
HashAnywhere(lines) == Only(lines, ToSet(lines) \ DateLines(lines))

\* content_hash: of everything but the date in the pointer block, the last one.
ContentHash(lines) ==
  LET marks == {i \in DOMAIN lines : lines[i] = PointerLine}
      mark == IF marks = {} THEN 0 ELSE CHOOSE i \in marks : \A j \in marks : j <= i
      rest == SubSeq(lines, mark + 1, Len(lines))
  IN SubSeq(lines, 1, mark) \o Only(rest, ToSet(rest) \ DateLines(rest))

-----------------------------------------------------------------------------
(* cards.py: the write.                                                     *)

\* A run has a summary of the session and the records it was made from.
RunHas(what, text, anchors, quotes, lines, heard, date) ==
  /\ cardStep' = "compare"
  /\ draft' = RenderCard(what, Cited(anchors, quotes, lines, heard), text, date)
  /\ UNCHANGED <<card, written>>

Compare ==
  /\ cardStep = "compare"
  /\ cardStep' = IF card # <<>> /\ ContentHash(card) = ContentHash(draft) THEN "kept" ELSE "write"
  /\ UNCHANGED <<card, draft, written>>

\* Mutant: the card itself is written.
FillInPlace ==
  /\ cardStep = "write" /\ written < Len(draft)
  /\ written' \in {1, Len(draft)} \ {written} /\ card' = SubSeq(draft, 1, written')
  /\ UNCHANGED <<draft, cardStep>>

\* The temp file fills; it is synced before it is renamed.
Fill ==
  /\ cardStep = "write" /\ written < Len(draft)
  /\ written' \in {1, Len(draft)} \ {written}
  /\ UNCHANGED <<card, draft, cardStep>>

Forget == cardStep' = "idle" /\ draft' = <<>> /\ written' = 0

Replace ==
  /\ cardStep = "write" /\ written = Len(draft)
  /\ card' = draft /\ cardStep' = "kept"
  /\ UNCHANGED <<draft, written>>

\* The write fails, or the run is killed: a temp file stays or not, nobody
\* reads it.
CutOff == cardStep # "idle" /\ Forget /\ UNCHANGED card

CardNext ==
  \/ cardStep = "idle" /\ \E what \in Whats, text \in Quotes, anchors \in BoundedSeq(Lines, 2), quotes \in BoundedSeq(Quotes, 1),
        lines \in SUBSET Lines, date \in Dates :
       \E heard \in SUBSET (lines \X ToSet(quotes)) : RunHas(what, text, anchors, quotes, lines, heard, date)
  \/ Compare \/ Fill \/ Replace \/ CutOff

CardSpec == CardInit /\ [][CardNext]_cardVars

-----------------------------------------------------------------------------
(* What a card promises.                                                    *)

Headed(lines) == {l \in ToSet(lines) : l # <<>> /\ l[1] \in Headings}

\* Whatever words the model used and wherever a run was cut off, the card in
\* the library has every section, once and in order, and ends with its day.
CardIsWhole ==
  card # <<>> =>
    /\ Only(card, Headed(card))
         = << <<"#", "Session">>, <<Marker, "What">>, <<Marker, "Why">>, PointerLine >>
    /\ card[Len(card)][1] = DateWord

\* A card stays as it was only when the run's has nothing new but its day, and
\* is written again only when it has.
OnlyTheDateIsIgnored ==
  /\ cardStep = "kept" => Front(card) = Front(draft)
  /\ cardStep = "write" /\ card # <<>> => Front(card) # Front(draft)
=============================================================================
