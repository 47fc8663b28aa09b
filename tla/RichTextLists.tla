---------------------------- MODULE RichTextLists ----------------------------
(***************************************************************************)
(* The lists of the rich text editor.  A list paragraph begins with a head *)
(* that is part of the text: tab, bullet or number, tab.  Keys go through  *)
(* shouldChangeTextIn, the toolbar through insetOrDeleteTabStyle; both     *)
(* rebuild the heads with resetTabOrderNumber, and the toolbar moves the   *)
(* selection with newRangeFor.                                             *)
(*                                                                         *)
(* A location counts the characters before it, a range is a pair of two    *)
(* locations.  UITextView is external: it carries out the edits that the   *)
(* helper allows and gives a paragraph the style of its first character    *)
(* (NSTextStorage).  The user may select what textViewDidChangeSelection   *)
(* leaves selected, so the actions choose any such selection.  A number    *)
(* with its dot is one character.                                          *)
(***************************************************************************)
EXTENDS Integers, SequencesExt

CONSTANTS
    MaxLength,      \* bound: the characters of the document
    MaxLetters,     \* bound: the letters in it
    MaxBreaks       \* bound: its line breaks

ASSUME ListsAssumption == MaxLength \in Nat /\ MaxLetters \in Nat /\ MaxBreaks \in Nat

VARIABLES
    text,           \* textView.attributedText
    typing,         \* the list style in the typing attributes of an empty text
    crashed,        \* an exception was raised, or the stack overflowed
    renumbered      \* history: the last change went through resetTabOrderNumber

vars == <<text, typing, crashed, renumbered>>

Style == {"none", "ul", "ol"}
Mark == {"bullet", "number"}

\* A character: its kind, the list style of its paragraph and, of a number, its value.
Char == [c : {"letter", "newline", "tab"} \cup Mark, s : Style, n : Nat]

Letter(s) == [c |-> "letter", s |-> s, n |-> 0]

\* Fault: a line separator, which ends no paragraph.
LineSeparator(s) == [c |-> "separator", s |-> s, n |-> 0]

Newline(s) == [c |-> "newline", s |-> s, n |-> 0]

Tab(s) == [c |-> "tab", s |-> s, n |-> 0]

\* The bullet of an unordered list, the number of the i-th item of an ordered one.
MarkOf(s, i) ==
    IF s = "ul" THEN [c |-> "bullet", s |-> s, n |-> 0] ELSE [c |-> "number", s |-> s, n |-> i]

\* The elements of a sequence at the indices in a set, in their order (filter).
Pick(q, I) ==
    LET kept[n \in 0..Len(q)] ==
          IF n = 0 THEN <<>>
          ELSE IF n \in I THEN Append(kept[n - 1], q[n]) ELSE kept[n - 1]
    IN  kept[Len(q)]

Init ==
    /\ text = <<>> /\ typing = "none"
    /\ crashed = FALSE /\ renumbered = FALSE
-----------------------------------------------------------------------------
(* NSAttributedStringRZRichText: paragraphs and heads.                     *)

Cut(d, from, to) == SubSeq(d, from + 1, to)

\* parapraghRange: from the last line break before the range to the first one at
\* its end.
ParapraghRange(d, a, b) ==
    LET last == IF b > a THEN b - 1 ELSE a
        Break(p) == d[p].c = "newline"
    IN  <<Max({0} \cup {p \in 1..a : Break(p)}),
          Min({Len(d)} \cup {p \in (last + 1)..Len(d) : Break(p)})>>

\* allParapraghRange: nothing stands for the line behind a last line break.
AllParapraghRange(d) ==
    LET from[a \in 0..Len(d)] ==
          IF a = Len(d) THEN <<>>
          ELSE LET r == ParapraghRange(d, a, a) IN <<r>> \o from[r[2]]
    IN  from[0]

\* paragraphRanges: the paragraphs that the range touches.
ParagraphRanges(d, a, b) ==
    LET ps == AllParapraghRange(d)
    IN  Pick(ps, {i \in DOMAIN ps : b >= ps[i][1] /\ (ps[i][2] > a \/ ps[i][2] = Len(d))})

\* headTabRange, with RZTextTabStyleFormat.tabPattern.
HeadLength(p) ==
    IF Len(p) >= 3 /\ p[1].c = "tab" /\ p[2].c \in Mark /\ p[3].c = "tab" THEN 3 ELSE 0

RemoveHeadTabString(p) == SubSeq(p, HeadLength(p) + 1, Len(p))

TabStyleLengthFor(d, a, b) ==
    LET r == ParapraghRange(d, a, b) IN HeadLength(Cut(d, r[1], r[2]))

TabStyleFor(d, a) == IF d = <<>> THEN "none" ELSE d[Min({a + 1, Len(d)})].s

Styled(p, s) == [i \in DOMAIN p |-> [p[i] EXCEPT !.s = s]]

\* The text view gives each paragraph the style of its first character.
Fixed(d) ==
    LET ps == AllParapraghRange(d)
    IN  FlattenSeq([i \in DOMAIN ps |->
                       Styled(Cut(d, ps[i][1], ps[i][2]), d[ps[i][1] + 1].s)])

\* The paragraphs in groups of consecutive ones with the same style.
Groups(d) ==
    LET Put(gs, r) ==
          IF gs # <<>> /\ TabStyleFor(d, Head(Last(gs))[1]) = TabStyleFor(d, r[1])
          THEN Append(Front(gs), Append(Last(gs), r))
          ELSE Append(gs, <<r>>)
        ps == AllParapraghRange(d)
        groups[n \in 0..Len(ps)] == IF n = 0 THEN <<>> ELSE Put(groups[n - 1], ps[n])
    IN  groups[Len(ps)]

\* Fault: the old head stays.
WithHeadTwice(p, i) ==
    LET s == p[1].s
    IN  IF s = "none" THEN p ELSE <<Tab(s), MarkOf(s, i), Tab(s)>> \o p

\* The i-th paragraph of a group with its head.
WithHead(p, i) ==
    LET s == p[1].s
    IN  IF s = "none" THEN p
        ELSE <<Tab(s), MarkOf(s, i), Tab(s)>> \o RemoveHeadTabString(p)

\* Fault: the numbers run on through the whole text.
ResetTabOrderNumberThrough(d) ==
    LET ps == AllParapraghRange(d)
    IN  FlattenSeq([i \in DOMAIN ps |-> WithHead(Cut(d, ps[i][1], ps[i][2]), i)])

\* resetTabOrderNumber.
ResetTabOrderNumber(d) ==
    LET Rebuilt(g) == FlattenSeq([i \in DOMAIN g |-> WithHead(Cut(d, g[i][1], g[i][2]), i)])
        gs == Groups(d)
    IN  FlattenSeq([n \in DOMAIN gs |-> Rebuilt(gs[n])])
-----------------------------------------------------------------------------
(* insetOrDeleteTabStyle and newRangeFor.                                  *)

\* The text whose paragraphs are restyled.
ToRestyle(style) == IF text = <<>> /\ style # "none" THEN <<Newline(typing)>> ELSE text

\* mutableTransParagraphTo calls itself for ever on a paragraph without a
\* character.
Overflows(a, b, style) ==
    LET d == ToRestyle(style)
    IN  \E r \in Range(ParagraphRanges(d, a, b)) :
            RemoveHeadTabString(Cut(d, r[1], r[2])) = <<>>

\* Each selected paragraph loses its head and gets the style.
Restyled(a, b, style) ==
    LET d == ToRestyle(style)
        ps == AllParapraghRange(d)
        chosen == Range(ParagraphRanges(d, a, b))
        New(r) == LET p == Cut(d, r[1], r[2])
                  IN  IF r \in chosen THEN Styled(RemoveHeadTabString(p), style) ELSE p
    IN  ResetTabOrderNumber(FlattenSeq([i \in DOMAIN ps |-> New(ps[i])]))

\* Fault: the selection keeps its distance to the start of the paragraph.
NewLocationFromStart(old, new, a) == Min({new[2], new[1] + (a - old[1])})

\* One end of the new range: as far from the end of its paragraph as before, and
\* not in front of the paragraph.
NewLocation(old, new, a) == Max({new[2] - (old[2] - a), new[1]})

\* newRangeFor.
NewRangeFor(d, a, b, d1) ==
    LET ps == AllParapraghRange(d)
        qs == AllParapraghRange(d1)
        chosen == ParagraphRanges(d, a, b)
        Line(r) == CHOOSE i \in DOMAIN ps : ps[i] = r
        first == Line(Head(chosen))
        last == Line(Last(chosen))
    IN  IF ps = <<>> THEN <<a, b>>
        ELSE <<NewLocation(ParapraghRange(d, a, a), qs[first], a),
               NewLocation(ParapraghRange(d, b, b), qs[last], b)>>
-----------------------------------------------------------------------------
(* The actions.                                                            *)

\* What textViewDidChangeSelection leaves selected: in a list the selection does
\* not end behind a last line break, nor begin in a head; the second is not
\* looked at when the selection reaches the end of the text.
Selectable(a, b) ==
    /\ 0 <= a /\ a <= b /\ b <= Len(text)
    /\ TabStyleFor(text, a) # "none" =>
         IF b = Len(text)
         THEN Last(text).c # "newline"
         ELSE a - ParapraghRange(text, a, b)[1] >= TabStyleLengthFor(text, a, b)

InBody(a) ==
    LET r == ParapraghRange(text, a, a)
    IN  a >= r[1] + HeadLength(Cut(text, r[1], r[2]))

Selection == {r \in (0..Len(text)) \X (0..Len(text)) : Selectable(r[1], r[2])}

\* The range that the delete key removes: the selection, or the character
\* before the caret.
Deletable == {r \in Selection : r[1] < r[2]}
             \cup {<<r[1] - 1, r[1]>> : r \in {r \in Selection : r[1] = r[2] /\ r[1] > 0}}

TypingStyle(a) == IF text = <<>> THEN typing ELSE TabStyleFor(text, a)

Replaced(d, a, b, new) == SubSeq(d, 1, a) \o new \o SubSeq(d, b + 1, Len(d))

Count(d, C) == Cardinality({i \in DOMAIN d : d[i].c \in C})

\* What a change leads to: the text d, in which the text view fixes the styles,
\* and the style s in the typing attributes.
Outcome(d, s, again) ==
    [text |-> Fixed(d), typing |-> IF d = <<>> THEN s ELSE "none",
     crashed |-> FALSE, renumbered |-> again]

Crash == [text |-> text, typing |-> typing, crashed |-> TRUE, renumbered |-> FALSE]

\* The text view carries the edit out itself.
Default(a, b, new) == Outcome(Replaced(text, a, b, new), TypingStyle(a), FALSE)

\* insert with a text or an image.
Insert(a, b, new) ==
    Outcome(ResetTabOrderNumber(Replaced(text, a, b, new)), TypingStyle(a), TRUE)

\* Fault: the whole length of the head is taken off the location.
DeleteTabFromHead(a, b) == a - TabStyleLengthFor(text, a, b)

\* Where deleteTab begins: the range is taken to start at the head's last
\* character.
DeleteTabFrom(a, b) == a - (TabStyleLengthFor(text, a, b) - 1)

\* deleteTab: insert without text, which changes the paragraph to no list.  A
\* range that begins before the text raises an exception.
DeleteTab(a, b) ==
    IF a < 0 \/ DeleteTabFrom(a, b) < 0 THEN Crash
    ELSE LET from == DeleteTabFrom(a, b)
             d == Replaced(text, from, b, <<>>)
             p == ParapraghRange(d, from, from)
         IN  Outcome(ResetTabOrderNumber(
                 Replaced(d, p[1], p[2], Styled(Cut(d, p[1], p[2]), "none"))), "none", TRUE)

\* shouldChangeTextIn for a letter.
TypeLetter(a, b) == Default(a, b, <<Letter(TypingStyle(a))>>)

\* shouldChangeTextIn for the delete key.
DeleteKey(a, b) ==
    LET tab == TabStyleFor(text, a)
        first == text[a + 1].c
        inHead == a < ParapraghRange(text, a, b)[1] + TabStyleLengthFor(text, a, b)
    IN  CASE tab # "none" /\ first = "tab" /\ inHead -> DeleteTab(a, b)
          [] tab = "ol" /\ first = "newline"         -> Insert(a, b, <<>>)
          [] OTHER                                   -> Default(a, b, <<>>)

\* shouldChangeTextIn for the return key: in an item without text it ends the
\* list.
ReturnKey(a, b) ==
    LET tab == TabStyleFor(text, a)
        r == ParapraghRange(text, a, a)
        item == RemoveHeadTabString(Cut(text, r[1], r[2]))
        new == <<Newline(TypingStyle(a))>>
    IN  IF tab = "none" \/ a < b THEN Default(a, b, new)
        ELSE IF Len(item) = 1 /\ item[1].c = "newline" THEN DeleteTab(a - 1, a)
        ELSE Insert(a, b, new)

\* The image button.
InsertImage(a, b) == Insert(a, b, <<Letter(TypingStyle(a))>>)

\* The font and paragraph buttons: insert without text gives the selection the
\* typing attributes, and its paragraphs too when the paragraph is changed.
ChangeAttributes(a, b, changeParagraph) ==
    LET s == TypingStyle(a)
        d == Replaced(text, a, b, Styled(Cut(text, a, b), s))
        r == IF changeParagraph THEN ParapraghRange(d, a, b) ELSE <<a, a>>
    IN  Outcome(ResetTabOrderNumber(
            Replaced(d, r[1], r[2], Styled(Cut(d, r[1], r[2]), s))), s, TRUE)

\* The list button.
InsetOrDeleteTabStyle(a, b, style) ==
    IF Overflows(a, b, style) THEN Crash ELSE Outcome(Restyled(a, b, style), typing, TRUE)

\* Bound: the text stays short, heads out of place counting twice; a change
\* that leaves a piece of a head as text, as a selection that begins or ends in
\* one may, is not taken.
WithinBounds(d) ==
    LET heads == {i \in DOMAIN d : HeadLength(SubSeq(d, i, Len(d))) = 3}
        stray == {i \in heads : \/ i > 1 /\ d[i - 1].c # "newline"
                               \/ d[i].s = "none"}
    IN  /\ Len(d) + 3 * Cardinality(stray) <= MaxLength
        /\ Count(d, {"letter"}) <= MaxLetters /\ Count(d, {"newline"}) <= MaxBreaks
        /\ Count(d, {"tab"} \cup Mark) = 3 * Cardinality(heads)

Do(o) ==
    /\ WithinBounds(o.text)
    /\ text' = o.text /\ typing' = o.typing
    /\ crashed' = o.crashed /\ renumbered' = o.renumbered

Next ==
    /\ ~crashed
    /\ \/ \E o \in {TypeLetter(r[1], r[2]) : r \in Selection} : Do(o)
       \/ \E o \in {DeleteKey(r[1], r[2]) : r \in Deletable} : Do(o)
       \/ \E o \in {ReturnKey(r[1], r[2]) : r \in Selection} : Do(o)
       \/ \E o \in {InsertImage(r[1], r[2]) : r \in Selection} : Do(o)
       \/ \E o \in {ChangeAttributes(r[1], r[2], c) : r \in Selection, c \in BOOLEAN} : Do(o)
       \/ \E o \in {InsetOrDeleteTabStyle(r[1], r[2], s) : r \in Selection, s \in Style} : Do(o)

Spec == Init /\ [][Next]_vars
-----------------------------------------------------------------------------
\* The variables have their types.
TypeOK ==
    /\ text \in Seq(Char)
    /\ typing \in Style /\ crashed \in BOOLEAN /\ renumbered \in BOOLEAN

\* Number of the i-th paragraph counted the plain way: back to the nearest
\* paragraph that is not in an ordered list.
NumberOf(d, i) ==
    LET ps == AllParapraghRange(d)
    IN  i - Max({0} \cup {j \in 1..(i - 1) : TabStyleFor(d, ps[j][1]) # "ol"})

\* Each list paragraph has its head, and the numbers of an ordered list count
\* from 1 without a gap.
Numbered(d) ==
    LET ps == AllParapraghRange(d)
    IN  \A i \in DOMAIN ps :
            LET p == Cut(d, ps[i][1], ps[i][2])
            IN  /\ p[1].s # "none" => HeadLength(p) = 3
                /\ p[1].s = "ul" => p[2].c = "bullet"
                /\ p[1].s = "ol" => p[2].c = "number" /\ p[2].n = NumberOf(d, i)

\* After every change that goes through resetTabOrderNumber the heads are there
\* and the numbers right, whatever edits that do not renumber came before.
NumbersRight == renumbered => Numbered(text)

Bodies(d) ==
    LET ps == AllParapraghRange(d)
    IN  [i \in DOMAIN ps |->
            LET p == RemoveHeadTabString(Cut(d, ps[i][1], ps[i][2]))
            IN  [j \in DOMAIN p |-> <<p[j].c, p[j].n>>]]

\* resetTabOrderNumber changes heads only: it loses and moves no text, and doing
\* it again changes nothing, for every text the editor can hold.
ResetIsStable ==
    LET d == Fixed(ResetTabOrderNumber(text))
    IN  Bodies(d) = Bodies(text) /\ ResetTabOrderNumber(d) = d

\* No paragraph begins with two heads, as joining two items can leave it.
SingleHeads ==
    \A r \in Range(AllParapraghRange(text)) :
        HeadLength(RemoveHeadTabString(Cut(text, r[1], r[2]))) = 0

\* The text ends with a head.
BareEnd ==
    LET r == ParapraghRange(text, Len(text), Len(text))
        p == Cut(text, r[1], r[2])
    IN  p # <<>> /\ HeadLength(p) = Len(p)

\* The list button keeps the selection: an end that is not in a head stays in
\* front of the same text of the same paragraph and does not come to lie in a
\* head, although heads appear, go and change in all selected paragraphs.  Not
\* so when a paragraph begins with two heads, for it loses both, and when the text
\* ends with a head: without it mutableTransParagraphTo gets an empty paragraph
\* and calls itself until the stack is full.
SelectionKept ==
    \A r \in Selection, style \in Style :
        text # <<>> /\ SingleHeads /\ ~BareEnd =>
            LET d == Restyled(r[1], r[2], style)
                n == NewRangeFor(text, r[1], r[2], d)
                Rest(e, x) == Bodies(Cut(e, x, Len(e)))
            IN  ~Overflows(r[1], r[2], style) /\ \A k \in 1..2 :
                    InBody(r[k]) =>
                        LET q == ParapraghRange(d, n[k], n[k])
                        IN  /\ n[k] \in 0..Len(d)
                            /\ n[k] >= q[1] + HeadLength(Cut(d, q[1], q[2]))
                            /\ Rest(d, n[k]) = Rest(text, r[k])

\* The letters and line breaks of a text.
Plain(d) == Pick([i \in DOMAIN d |-> d[i].c], {i \in DOMAIN d : d[i].c \in {"letter", "newline"}})

\* Every list paragraph begins with a head.
Headed ==
    \A r \in Range(AllParapraghRange(text)) :
        text[r[1] + 1].s # "none" => HeadLength(Cut(text, r[1], r[2])) = 3

\* The keys change what is selected and no other text, and raise nothing: the
\* delete key removes the selected letters and line breaks, the return key puts
\* one line break there or ends the list.  The arithmetic of deleteTab needs two
\* things for it, that the selection does not begin in a head before its last
\* character and, for the return key, that list paragraphs have heads.
KeysKeepText ==
    /\ \A r \in Deletable :
          LET a == r[1] b == r[2] o == DeleteKey(a, b)
          IN  InBody(a) \/ InBody(a + 1) =>
                 ~o.crashed /\ Plain(o.text) = Plain(Replaced(text, a, b, <<>>))
    /\ \A r \in Selection :
          LET a == r[1] b == r[2] o == ReturnKey(a, b)
          IN  Headed =>
                 /\ ~o.crashed
                 /\ \/ Plain(o.text) = Plain(Replaced(text, a, b, <<Newline("none")>>))
                    \/ a = b /\ Plain(o.text) = Plain(text) /\ TabStyleFor(o.text, a - 3) = "none"
=============================================================================
