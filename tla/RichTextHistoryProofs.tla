------------------------ MODULE RichTextHistoryProofs ------------------------
(***************************************************************************)
(* What RichTextHistory promises, for any texts, any attachments and any   *)
(* bound on notesCount.                                                    *)
(***************************************************************************)
EXTENDS RichTextHistory, SequenceTheorems, TLAPS

\* The first n entries of a stack.
LEMMA Prefix ==
    ASSUME NEW S, NEW s \in Seq(S), NEW n \in Nat, n <= Len(s)
    PROVE  /\ SubSeq(s, 1, n) \in Seq(S)
           /\ Len(SubSeq(s, 1, n)) = n
           /\ \A i \in 1..n : SubSeq(s, 1, n)[i] = s[i]
<1>1. \A i \in 1..n : s[i] \in S
  BY ElementOfSeq, LenProperties
<1>2. /\ SubSeq(s, 1, n) \in Seq(S)
      /\ Len(SubSeq(s, 1, n)) = IF 1 <= n THEN n - 1 + 1 ELSE 0
      /\ \A i \in 1..(n - 1 + 1) : SubSeq(s, 1, n)[i] = s[1 + i - 1]
  BY <1>1, SubSeqProperties
<1> QED
  BY <1>2

\* Dropping or reading the last entry of a stack that is not empty.
LEMMA StackTop ==
    ASSUME NEW S, NEW s \in Seq(S), Len(s) > 0
    PROVE  /\ Last(s) \in S
           /\ Front(s) \in Seq(S)
           /\ Len(Front(s)) = Len(s) - 1
           /\ \A i \in 1..(Len(s) - 1) : Front(s)[i] = s[i]
<1>1. \A i \in 1..Len(s) : s[i] \in S
  BY ElementOfSeq
<1>2. /\ SubSeq(s, 1, Len(s) - 1) \in Seq(S)
      /\ Len(SubSeq(s, 1, Len(s) - 1)) = Len(s) - 1
      /\ \A i \in 1..(Len(s) - 1) : SubSeq(s, 1, Len(s) - 1)[i] = s[i]
  <2>1. Len(s) - 1 \in Nat /\ Len(s) - 1 <= Len(s)
    BY LenProperties
  <2> QED
    BY <2>1, Prefix, Zenon
<1> QED
  BY <1>1, <1>2, LenProperties DEF Last, Front

\* Pushing an entry, with or without giving up the oldest.
LEMMA StackPush ==
    ASSUME NEW S, NEW s \in Seq(S), NEW e \in S
    PROVE  /\ Append(s, e) \in Seq(S)
           /\ Len(Append(s, e)) = Len(s) + 1
           /\ Last(Append(s, e)) = e
           /\ Tail(Append(s, e)) \in Seq(S)
           /\ Len(Tail(Append(s, e))) = Len(s)
           /\ Len(s) > 0 => Last(Tail(Append(s, e))) = e
<1>1. /\ Append(s, e) \in Seq(S) /\ Append(s, e) # <<>>
      /\ Len(Append(s, e)) = Len(s) + 1
      /\ Append(s, e)[Len(s) + 1] = e
  BY AppendProperties
<1>2. /\ Tail(Append(s, e)) \in Seq(S)
      /\ Len(Tail(Append(s, e))) = Len(Append(s, e)) - 1
      /\ \A i \in 1..Len(Tail(Append(s, e))) : Tail(Append(s, e))[i] = Append(s, e)[i + 1]
  BY <1>1, HeadTailProperties
<1>3. Len(s) \in Nat
  BY LenProperties
<1> QED
  BY <1>1, <1>2, <1>3 DEF Last

\* addToHistory keeps the types of what it assigns.
LEMMA AddToHistoryTypes ==
    ASSUME TypeOK, NEW d \in Document, AddToHistory(d)
    PROVE  /\ history' \in Seq(Document) /\ stores' \in Seq(Document)
           /\ leftOn' \in BOOLEAN /\ rightOn' \in BOOLEAN /\ unrecorded' \in BOOLEAN
<1>1. history' \in Seq(Document)
  BY StackPush DEF AddToHistory, TypeOK
<1>2. stores' \in Seq(Document)
  BY EmptySeq DEF AddToHistory
<1>3. leftOn' \in BOOLEAN /\ rightOn' \in BOOLEAN /\ unrecorded' \in BOOLEAN
  <2>1. leftOn' = (Len(history') > 1)
    BY Zenon DEF AddToHistory
  <2>2. leftOn' \in BOOLEAN
    BY <2>1
  <2>3. rightOn' \in BOOLEAN /\ unrecorded' \in BOOLEAN
    BY Zenon DEF AddToHistory
  <2> QED
    BY <2>2, <2>3
<1> QED
  BY <1>1, <1>2, <1>3

\* So does reviseImageMaskViewFrame.
LEMMA ReviseTypes ==
    ASSUME TypeOK, NEW d \in Document, NEW V \in SUBSET Attachment, NEW E,
           ReviseImageMaskViewFrame(d, V, E)
    PROVE  /\ attachments' \subseteq Attachment /\ masks' \subseteq Attachment
           /\ told' \in [Attachment -> Int] /\ laidOut' \in BOOLEAN
<1>1. d.atts \subseteq Attachment
  BY DEF Document
<1>2. \A a \in Attachment : told[a] \in Int
  BY DEF TypeOK
<1> QED
  BY <1>1, <1>2 DEF ReviseImageMaskViewFrame

\* And textViewDidChange, whether or not the change is recorded.
LEMMA DidChangeTypes ==
    ASSUME TypeOK, NEW d \in Document, NEW c \in BOOLEAN, NEW V \in SUBSET Attachment, NEW E,
           TextViewDidChange(d, c, V, E)
    PROVE  /\ doc' \in Document /\ marked' \in BOOLEAN
           /\ attachments' \subseteq Attachment /\ masks' \subseteq Attachment
           /\ told' \in [Attachment -> Int] /\ laidOut' \in BOOLEAN
           /\ history' \in Seq(Document) /\ stores' \in Seq(Document)
           /\ leftOn' \in BOOLEAN /\ rightOn' \in BOOLEAN /\ unrecorded' \in BOOLEAN
<1>1. ReviseImageMaskViewFrame(d, V, E) /\ doc' = d /\ marked' = c
  BY DEF TextViewDidChange
<1>2. /\ attachments' \subseteq Attachment /\ masks' \subseteq Attachment
      /\ told' \in [Attachment -> Int] /\ laidOut' \in BOOLEAN
  BY <1>1, ReviseTypes
<1>3. CASE c
  BY <1>1, <1>2, <1>3 DEF TextViewDidChange, TypeOK
<1>4. CASE ~c
  <2>1. AddToHistory(d)
    BY <1>4 DEF TextViewDidChange
  <2> QED
    BY <1>1, <1>2, <2>1, AddToHistoryTypes
<1> QED
  BY <1>3, <1>4
-----------------------------------------------------------------------------
\* Undo and redo keep the types.
LEMMA RevokeTypes ==
    ASSUME TypeOK, RevokeAction \/ RestoreAction
    PROVE  TypeOK'
<1> USE DEF TypeOK
<1>1. /\ doc' \in Document /\ history' \in Seq(Document) /\ stores' \in Seq(Document)
      /\ marked' \in BOOLEAN /\ unrecorded' \in BOOLEAN
  <2>1. CASE RevokeAction /\ Len(history) <= 1
    BY <2>1 DEF RevokeAction, RevokeStay
  <2>2. CASE RevokeAction /\ Len(history) > 1
    <3>1. ShowEntry(history[Len(history) - 1], Front(history), Append(stores, Last(history)))
      BY <2>2 DEF RevokeAction
    <3>2. history[Len(history) - 1] \in Document
      BY <2>2
    <3>3. Front(history) \in Seq(Document) /\ Append(stores, Last(history)) \in Seq(Document)
      <4>1. history \in Seq(Document) /\ stores \in Seq(Document) /\ Len(history) > 0
        BY <2>2
      <4>2. Front(history) \in Seq(Document) /\ Last(history) \in Document
        BY <4>1, StackTop, Zenon
      <4>3. Append(stores, Last(history)) \in Seq(Document)
        BY <4>1, <4>2, StackPush, Zenon
      <4> QED
        BY <4>2, <4>3
    <3> QED
      BY <3>1, <3>2, <3>3 DEF ShowEntry
  <2>3. CASE RestoreAction /\ Len(stores) = 0
    BY <2>3 DEF RestoreAction, RevokeStay
  <2>4. CASE RestoreAction /\ Len(stores) # 0
    <3>1. ShowEntry(Last(stores), Append(history, Last(stores)), Front(stores))
      BY <2>4 DEF RestoreAction
    <3>2. Last(stores) \in Document /\ Front(stores) \in Seq(Document)
      <4>1. stores \in Seq(Document) /\ Len(stores) > 0
        BY <2>4
      <4> QED
        BY <4>1, StackTop, Zenon
    <3> QED
      BY <3>1, <3>2, StackPush DEF ShowEntry
  <2> QED
    BY <2>1, <2>2, <2>3, <2>4
<1>2. Deferred
  BY DEF RevokeAction, RestoreAction
<1>3. ReviseImageMaskViewFrame(doc', masks, {})
  BY <1>2 DEF Deferred
<1>4. /\ attachments' \subseteq Attachment /\ masks' \subseteq Attachment
      /\ told' \in [Attachment -> Int] /\ laidOut' \in BOOLEAN
  BY <1>1, <1>3, ReviseTypes
<1>5. leftOn' \in BOOLEAN /\ rightOn' \in BOOLEAN
  BY <1>2 DEF Deferred
<1>6. UNCHANGED <<notesCount, firstUse, used, maxNotes>>
  BY <1>2 DEF Deferred
<1> QED
  BY <1>1, <1>4, <1>5, <1>6

\* A new helper is well typed.
LEMMA TypeInit == Init => TypeOK
<1> SUFFICES ASSUME Init PROVE TypeOK
  OBVIOUS
<1>1. used \subseteq Attachment
  BY DEF Init, Document
<1>2. history \in Seq(Document) /\ stores \in Seq(Document)
  BY EmptySeq DEF Init
<1>3. told \in [Attachment -> Int]
  BY DEF Init
<1> QED
  BY <1>1, <1>2, <1>3 DEF Init, TypeOK

\* Every callback of the helper keeps the types.
LEMMA TypeStep == TypeOK /\ [Next]_vars => TypeOK'
<1> SUFFICES ASSUME TypeOK, [Next]_vars PROVE TypeOK'
  OBVIOUS
<1>1. CASE TextViewDidBeginEditing
  <2>1. AddToHistory(doc) /\ doc \in Document
    BY <1>1 DEF TextViewDidBeginEditing, TypeOK
  <2>2. /\ history' \in Seq(Document) /\ stores' \in Seq(Document)
        /\ leftOn' \in BOOLEAN /\ rightOn' \in BOOLEAN /\ unrecorded' \in BOOLEAN
    BY <2>1, AddToHistoryTypes
  <2> QED
    BY <1>1, <2>2 DEF TextViewDidBeginEditing, TypeOK
<1>2. ASSUME NEW d \in Document, NEW c \in BOOLEAN, TypeText(d, c)
      PROVE  TypeOK'
  <2>1. TextViewDidChange(d, c, masks, {}) /\ masks \in SUBSET Attachment
    BY <1>2 DEF TypeText, TypeOK
  <2> QED
    BY <1>2, <2>1, DidChangeTypes DEF TypeText, TypeOK
<1>3. ASSUME NEW a \in Attachment, NEW d \in Document, InsertImage(a, d)
      PROVE  TypeOK'
  <2>1. TextViewDidChange(d, FALSE, masks \cup {a}, {a}) /\ masks \cup {a} \in SUBSET Attachment
    BY <1>3 DEF InsertImage, TypeOK
  <2> QED
    BY <1>3, <2>1, DidChangeTypes DEF InsertImage, TypeOK
<1>4. ASSUME NEW d \in Document, InsetOrDeleteTabStyle(d)
      PROVE  TypeOK'
  BY <1>4 DEF InsetOrDeleteTabStyle, TypeOK
<1>5. CASE RevokeAction \/ RestoreAction
  BY <1>5, RevokeTypes
<1>6. ASSUME NEW n \in 0..MaxNotes, SetNotesCount(n)
      PROVE  TypeOK'
  BY <1>6 DEF SetNotesCount, TypeOK
<1>7. CASE UNCHANGED vars
  BY <1>7 DEF vars, TypeOK
<1> QED
  BY <1>1, <1>2, <1>3, <1>4, <1>5, <1>6, <1>7 DEF Next

\* Every reachable state of the editor is well typed: what revokeText puts on
\* the screen is always a document that was there before.
THEOREM TypeCorrect == Spec => []TypeOK
BY TypeInit, TypeStep, PTL DEF Spec
-----------------------------------------------------------------------------
(* The stacks.  HistoryBounded is inductive only together with the bound    *)
(* on notesCount; ScreenIsRecorded needs that the stacks are empty before   *)
(* editing begins.                                                          *)

StackInv ==
    /\ notesCount <= maxNotes
    /\ HistoryBounded
    /\ ScreenIsRecorded
    /\ ButtonsFollow
    /\ firstUse => stores = <<>>

\* What addToHistory leaves behind, from any state within the bound.
LEMMA AddToHistoryEffect ==
    ASSUME TypeOK, NEW d \in Document, notesCount <= maxNotes, HistoryBounded,
           AddToHistory(d)
    PROVE  /\ Len(history') >= 1
           /\ Last(history') = d
           /\ Len(history') + Len(stores') <= maxNotes + 1
           /\ stores' = <<>>
           /\ leftOn' <=> Len(history') > 1
           /\ rightOn' <=> Len(stores') > 0
<1> DEFINE longer == Append(history, d)
<1>1. /\ history \in Seq(Document) /\ Len(history) \in Nat /\ Len(stores) \in Nat
      /\ notesCount \in Nat /\ maxNotes \in Nat
  BY LenProperties DEF TypeOK
<1>2. /\ Len(longer) = Len(history) + 1 /\ Last(longer) = d
      /\ Len(Tail(longer)) = Len(history)
      /\ Len(history) > 0 => Last(Tail(longer)) = d
  BY <1>1, StackPush
<1>3. history' = IF Len(longer) > notesCount + 1 THEN Tail(longer) ELSE longer
  BY DEF AddToHistory
<1> HIDE DEF longer
<1>4. stores' = <<>> /\ Len(stores') = 0
  BY EmptySeq DEF AddToHistory
<1>5. Len(history') >= 1 /\ Last(history') = d
  <2>1. CASE Len(longer) > notesCount + 1
    BY <1>1, <1>2, <1>3, <2>1
  <2>2. CASE ~(Len(longer) > notesCount + 1)
    BY <1>1, <1>2, <1>3, <2>2
  <2> QED
    BY <2>1, <2>2
<1>6. Len(history') + Len(stores') <= maxNotes + 1
  <2>1. CASE Len(longer) > notesCount + 1
    BY <1>1, <1>2, <1>3, <1>4, <2>1 DEF HistoryBounded
  <2>2. CASE ~(Len(longer) > notesCount + 1)
    BY <1>1, <1>2, <1>3, <1>4, <2>2
  <2> QED
    BY <2>1, <2>2
<1>7. leftOn' <=> Len(history') > 1
  BY Zenon DEF AddToHistory
<1>8. rightOn' <=> Len(stores') > 0
  BY <1>4 DEF AddToHistory
<1> QED
  BY <1>4, <1>5, <1>6, <1>7, <1>8

\* A recorded edit that is made within the bound restores the whole invariant.
LEMMA RecordedStep ==
    ASSUME TypeOK, StackInv, NEW d \in Document, AddToHistory(d), doc' = d,
           ~firstUse', UNCHANGED <<notesCount, maxNotes>>
    PROVE  StackInv'
BY AddToHistoryEffect DEF StackInv, HistoryBounded, ScreenIsRecorded, ButtonsFollow

\* An edit that nobody records leaves the stacks alone.
LEMMA UnrecordedStep ==
    ASSUME StackInv, unrecorded', ~firstUse, ~firstUse',
           UNCHANGED <<history, stores, leftOn, rightOn, notesCount, maxNotes>>
    PROVE  StackInv'
BY DEF StackInv, HistoryBounded, ScreenIsRecorded, ButtonsFollow

\* textViewDidChange keeps the invariant of the two stacks.
LEMMA DidChangeStack ==
    ASSUME TypeOK, StackInv, NEW d \in Document, NEW c \in BOOLEAN, NEW V, NEW E,
           TextViewDidChange(d, c, V, E), ~firstUse, ~firstUse',
           UNCHANGED <<notesCount, maxNotes>>
    PROVE  StackInv'
<1>1. CASE c
  BY <1>1, UnrecordedStep DEF TextViewDidChange
<1>2. CASE ~c
  BY <1>2, RecordedStep DEF TextViewDidChange
<1> QED
  BY <1>1, <1>2

\* The stacks of a new helper satisfy their invariant.
LEMMA StackInit == Init => StackInv
BY EmptySeq, NotesAssumption
DEF Init, StackInv, HistoryBounded, ScreenIsRecorded, ButtonsFollow

\* Undo moves the last entry over and shows the one before it.
LEMMA RevokeStack ==
    ASSUME TypeOK, StackInv, RevokeAction
    PROVE  StackInv'
<1>1. /\ ~firstUse /\ ~firstUse' /\ UNCHANGED <<notesCount, maxNotes>>
      /\ leftOn' <=> Len(history') > 1
      /\ rightOn' <=> Len(stores') > 0
  BY DEF RevokeAction, Deferred
<1>2. CASE Len(history) <= 1
  BY <1>1, <1>2
  DEF RevokeAction, RevokeStay, StackInv, HistoryBounded, ScreenIsRecorded, ButtonsFollow
<1>3. CASE Len(history) > 1
  <2>1. /\ history' = Front(history) /\ stores' = Append(stores, Last(history))
        /\ doc' = history[Len(history) - 1]
    BY <1>3 DEF RevokeAction, ShowEntry
  <2>2. history \in Seq(Document) /\ stores \in Seq(Document) /\ Len(history) \in Nat
    BY LenProperties DEF TypeOK
  <2>3. /\ Last(history) \in Document /\ Len(history') = Len(history) - 1
        /\ history'[Len(history) - 1] = history[Len(history) - 1]
    <3>1. /\ Last(history) \in Document /\ Len(Front(history)) = Len(history) - 1
          /\ \A i \in 1..(Len(history) - 1) : Front(history)[i] = history[i]
      BY <1>3, <2>2, StackTop
    <3>2. Len(history) - 1 \in 1..(Len(history) - 1)
      BY <1>3, <2>2
    <3> QED
      BY <2>1, <3>1, <3>2
  <2>4. Len(stores') = Len(stores) + 1
    BY <2>1, <2>2, <2>3, StackPush
  <2>5. Len(history') >= 1 /\ Last(history') = doc'
    BY <1>3, <2>1, <2>2, <2>3 DEF Last
  <2>6. HistoryBounded'
    BY <1>1, <2>2, <2>3, <2>4, LenProperties DEF StackInv, HistoryBounded
  <2> QED
    BY <1>1, <2>5, <2>6 DEF StackInv, ScreenIsRecorded, ButtonsFollow
<1> QED
  BY <1>2, <1>3, LenProperties DEF TypeOK

\* Redo moves the entry back and shows it.
LEMMA RestoreStack ==
    ASSUME TypeOK, StackInv, RestoreAction
    PROVE  StackInv'
<1>1. /\ ~firstUse /\ ~firstUse' /\ UNCHANGED <<notesCount, maxNotes>>
      /\ leftOn' <=> Len(history') > 1
      /\ rightOn' <=> Len(stores') > 0
  BY DEF RestoreAction, Deferred
<1>2. CASE Len(stores) = 0
  BY <1>1, <1>2
  DEF RestoreAction, RevokeStay, StackInv, HistoryBounded, ScreenIsRecorded, ButtonsFollow
<1>3. CASE Len(stores) # 0
  <2>1. /\ history' = Append(history, Last(stores)) /\ stores' = Front(stores)
        /\ doc' = Last(stores)
    BY <1>3 DEF RestoreAction, ShowEntry
  <2>2. /\ history \in Seq(Document) /\ stores \in Seq(Document)
        /\ Len(history) \in Nat /\ Len(stores) \in Nat
    BY LenProperties DEF TypeOK
  <2>3. Last(stores) \in Document /\ Len(stores') = Len(stores) - 1
    BY <1>3, <2>1, <2>2, StackTop
  <2>4. Len(history') = Len(history) + 1 /\ Last(history') = doc'
    BY <2>1, <2>2, <2>3, StackPush
  <2>5. HistoryBounded'
    BY <1>1, <2>2, <2>3, <2>4 DEF StackInv, HistoryBounded
  <2>6. Len(history') >= 1
    BY <2>2, <2>4
  <2> QED
    BY <1>1, <2>4, <2>5, <2>6 DEF StackInv, ScreenIsRecorded, ButtonsFollow
<1> QED
  BY <1>2, <1>3

\* Every callback of the helper keeps the invariant of the stacks.
LEMMA StackStep == TypeOK /\ StackInv /\ [Next]_vars => StackInv'
<1> SUFFICES ASSUME TypeOK, StackInv, [Next]_vars PROVE StackInv'
  OBVIOUS
<1>1. CASE TextViewDidBeginEditing
  <2>1. /\ AddToHistory(doc) /\ doc \in Document /\ doc' = doc
        /\ ~firstUse' /\ UNCHANGED <<notesCount, maxNotes>>
    BY <1>1 DEF TextViewDidBeginEditing, TypeOK
  <2> QED
    BY <2>1, RecordedStep
<1>2. ASSUME NEW d \in Document, NEW c \in BOOLEAN, TypeText(d, c)
      PROVE  StackInv'
  BY <1>2, DidChangeStack DEF TypeText
<1>3. ASSUME NEW a \in Attachment, NEW d \in Document, InsertImage(a, d)
      PROVE  StackInv'
  BY <1>3, DidChangeStack DEF InsertImage
<1>4. ASSUME NEW d \in Document, InsetOrDeleteTabStyle(d)
      PROVE  StackInv'
  BY <1>4, UnrecordedStep DEF InsetOrDeleteTabStyle
<1>5. CASE RevokeAction
  BY <1>5, RevokeStack
<1>6. CASE RestoreAction
  BY <1>6, RestoreStack
<1>7. ASSUME NEW n \in 0..MaxNotes, SetNotesCount(n)
      PROVE  StackInv'
  <2>1. UNCHANGED <<doc, history, stores, firstUse, leftOn, rightOn, unrecorded>>
    BY <1>7 DEF SetNotesCount
  <2>2. notesCount' <= maxNotes' /\ maxNotes <= maxNotes'
    BY <1>7, NotesAssumption DEF SetNotesCount, TypeOK, StackInv
  <2>3. HistoryBounded'
    BY <2>1, <2>2, <1>7, LenProperties, NotesAssumption
    DEF SetNotesCount, TypeOK, StackInv, HistoryBounded
  <2> QED
    BY <2>1, <2>2, <2>3 DEF StackInv, ScreenIsRecorded, ButtonsFollow
<1>8. CASE UNCHANGED vars
  BY <1>8 DEF vars, StackInv, HistoryBounded, ScreenIsRecorded, ButtonsFollow
<1> QED
  BY <1>1, <1>2, <1>3, <1>4, <1>5, <1>6, <1>7, <1>8 DEF Next

\* The invariant of the stacks holds at all times.
LEMMA StackAlways == Spec => []StackInv
<1>1. Init => TypeOK /\ StackInv
  BY TypeInit, StackInit
<1>2. TypeOK /\ StackInv /\ [Next]_vars => (TypeOK /\ StackInv)'
  BY TypeStep, StackStep
<1> QED
  BY <1>1, <1>2, PTL DEF Spec

\* The undo and redo stacks together hold at most the largest notesCount plus
\* one entries, for every sequence of edits, undo, redo and new notesCounts.
THEOREM HistoryNeverTooLong == Spec => []HistoryBounded
<1>1. StackInv => HistoryBounded
  BY DEF StackInv
<1> QED
  BY <1>1, StackAlways, PTL

\* Once editing has begun, the last entry of the undo stack is the text on the
\* screen, unless a change was not recorded.
THEOREM ScreenAlwaysRecorded == Spec => []ScreenIsRecorded
<1>1. StackInv => ScreenIsRecorded
  BY DEF StackInv
<1> QED
  BY <1>1, StackAlways, PTL

\* The two buttons always tell whether there is something to undo or redo.
THEOREM ButtonsAlwaysFollow == Spec => []ButtonsFollow
<1>1. StackInv => ButtonsFollow
  BY DEF StackInv
<1> QED
  BY <1>1, StackAlways, PTL
-----------------------------------------------------------------------------
(* The attachments.  A new attachment must not have a mask yet, so every    *)
(* attachment that undo or redo could bring back must be known to exist.    *)

HostInv ==
    /\ HostKnowsAttachments
    /\ masks \subseteq used
    /\ doc.atts \subseteq used
    /\ \A i \in 1..Len(history) : history[i].atts \subseteq used
    /\ \A i \in 1..Len(stores) : stores[i].atts \subseteq used

\* reviseImageMaskViewFrame brings masks and host up to date with the text d;
\* the new attachments N got their mask before and their call after it.
LEMMA ReviseEffect ==
    ASSUME TypeOK, HostInv, NEW d \in Document, NEW N \in SUBSET Attachment,
           N \subseteq d.atts, N \cap masks = {},
           ReviseImageMaskViewFrame(d, masks \cup N, N)
    PROVE  /\ attachments' = d.atts /\ masks' = d.atts
           /\ \A a \in Attachment : told'[a] = IF a \in masks' THEN 1 ELSE 0
<1>1. attachments' = d.atts
  BY DEF ReviseImageMaskViewFrame
<1>2. attachments = masks
  BY DEF HostInv, HostKnowsAttachments
<1>3. masks' = ((masks \cup N) \cup (d.atts \ (masks \cup N))) \ (masks \ d.atts)
  BY <1>2 DEF ReviseImageMaskViewFrame
<1>4. masks' = d.atts
  BY <1>3
<1>5. ASSUME NEW a \in Attachment
      PROVE  told'[a] = IF a \in d.atts THEN 1 ELSE 0
  <2>1. told[a] = IF a \in masks THEN 1 ELSE 0
    BY DEF HostInv, HostKnowsAttachments
  <2>2. told'[a] = told[a] + (IF a \in d.atts \ (masks \cup N) THEN 1 ELSE 0)
                           - (IF a \in masks \ d.atts THEN 1 ELSE 0)
                           + (IF a \in N THEN 1 ELSE 0)
    BY <1>2 DEF ReviseImageMaskViewFrame
  <2> QED
    BY <2>1, <2>2
<1> QED
  BY <1>1, <1>4, <1>5

\* The same without a new attachment.
LEMMA ReviseEffectPlain ==
    ASSUME TypeOK, HostInv, NEW d \in Document,
           ReviseImageMaskViewFrame(d, masks, {})
    PROVE  /\ attachments' = d.atts /\ masks' = d.atts
           /\ \A a \in Attachment : told'[a] = IF a \in masks' THEN 1 ELSE 0
<1>1. masks \cup {} = masks
  OBVIOUS
<1>2. ReviseImageMaskViewFrame(d, masks \cup {}, {})
  BY <1>1
<1> QED
  BY <1>2, ReviseEffect

\* Pushing a document whose attachments are known.
LEMMA PushKnown ==
    ASSUME NEW s \in Seq(Document), NEW d \in Document, NEW U, d.atts \subseteq U,
           \A i \in 1..Len(s) : s[i].atts \subseteq U
    PROVE  \A i \in 1..Len(Append(s, d)) : Append(s, d)[i].atts \subseteq U
<1> SUFFICES ASSUME NEW i \in 1..Len(Append(s, d))
             PROVE  Append(s, d)[i].atts \subseteq U
  OBVIOUS
<1>1. /\ Len(Append(s, d)) = Len(s) + 1 /\ Len(s) \in Nat
      /\ \A j \in 1..Len(s) : Append(s, d)[j] = s[j]
      /\ Append(s, d)[Len(s) + 1] = d
  BY AppendProperties, LenProperties
<1>2. CASE i = Len(s) + 1
  BY <1>1, <1>2
<1>3. CASE i # Len(s) + 1
  <2>1. i \in 1..Len(s)
    BY <1>1, <1>3
  <2> QED
    BY <1>1, <2>1
<1> QED
  BY <1>2, <1>3

\* Dropping the last document.
LEMMA PopKnown ==
    ASSUME NEW s \in Seq(Document), Len(s) > 0, NEW U,
           \A i \in 1..Len(s) : s[i].atts \subseteq U
    PROVE  \A i \in 1..Len(Front(s)) : Front(s)[i].atts \subseteq U
<1> SUFFICES ASSUME NEW i \in 1..Len(Front(s)) PROVE Front(s)[i].atts \subseteq U
  OBVIOUS
<1>1. Len(Front(s)) = Len(s) - 1 /\ \A j \in 1..(Len(s) - 1) : Front(s)[j] = s[j]
  BY StackTop
<1>2. i \in 1..Len(s) /\ i \in 1..(Len(s) - 1)
  BY <1>1, LenProperties
<1> QED
  BY <1>1, <1>2

\* addToHistory adds no attachment but those of d.
LEMMA AddToHistoryKnown ==
    ASSUME TypeOK, NEW d \in Document, AddToHistory(d), NEW U,
           d.atts \subseteq U, \A i \in 1..Len(history) : history[i].atts \subseteq U
    PROVE  /\ \A i \in 1..Len(history') : history'[i].atts \subseteq U
           /\ \A i \in 1..Len(stores') : stores'[i].atts \subseteq U
<1> DEFINE longer == Append(history, d)
<1>1. history \in Seq(Document) /\ Len(history) \in Nat
  BY LenProperties DEF TypeOK
<1>2. /\ longer \in Seq(Document) /\ longer # <<>> /\ Len(longer) = Len(history) + 1
      /\ \A i \in 1..Len(history) : longer[i] = history[i]
      /\ longer[Len(history) + 1] = d
  BY <1>1, AppendProperties
<1>3. /\ Len(Tail(longer)) = Len(longer) - 1
      /\ \A i \in 1..Len(Tail(longer)) : Tail(longer)[i] = longer[i + 1]
  BY <1>2, HeadTailProperties
<1>4. history' = Tail(longer) \/ history' = longer
  BY DEF AddToHistory
<1> HIDE DEF longer
<1>5. \A i \in 1..Len(longer) : longer[i].atts \subseteq U
  BY <1>1, PushKnown DEF longer
<1>6. \A i \in 1..Len(history') : history'[i].atts \subseteq U
  <2>1. CASE history' = longer
    BY <1>5, <2>1
  <2>2. CASE history' = Tail(longer)
    <3> SUFFICES ASSUME NEW i \in 1..Len(Tail(longer))
                 PROVE  Tail(longer)[i].atts \subseteq U
      BY <2>2
    <3>1. i + 1 \in 1..Len(longer)
      BY <1>1, <1>2, <1>3
    <3> QED
      BY <1>3, <1>5, <3>1
  <2> QED
    BY <1>4, <2>1, <2>2
<1>7. Len(stores') = 0
  BY EmptySeq DEF AddToHistory
<1> QED
  BY <1>6, <1>7

\* A new helper has told the host of no attachment.
LEMMA HostInit == Init => HostInv
<1> SUFFICES ASSUME Init PROVE HostInv
  OBVIOUS
<1>1. Len(history) = 0 /\ Len(stores) = 0
  BY EmptySeq DEF Init
<1> QED
  BY <1>1 DEF Init, HostInv, HostKnowsAttachments

\* textViewDidChange with the new attachments N.
LEMMA DidChangeHost ==
    ASSUME TypeOK, HostInv, NEW d \in Document, NEW c \in BOOLEAN,
           NEW N \in SUBSET Attachment, N \cap used = {}, N \subseteq d.atts,
           d.atts \subseteq doc.atts \cup N, used' = used \cup N,
           TextViewDidChange(d, c, masks \cup N, N)
    PROVE  HostInv'
<1>1. N \cap masks = {}
  BY DEF HostInv
<1>2. doc' = d /\ ReviseImageMaskViewFrame(d, masks \cup N, N)
  BY DEF TextViewDidChange
<1>3. /\ attachments' = d.atts /\ masks' = d.atts
      /\ \A a \in Attachment : told'[a] = IF a \in masks' THEN 1 ELSE 0
  BY <1>1, <1>2, ReviseEffect
<1>4. HostKnowsAttachments'
  BY <1>2, <1>3 DEF HostKnowsAttachments
<1>5. doc'.atts \subseteq used' /\ masks' \subseteq used'
  BY <1>2, <1>3 DEF HostInv
<1>6. /\ \A i \in 1..Len(history) : history[i].atts \subseteq used'
      /\ \A i \in 1..Len(stores) : stores[i].atts \subseteq used'
  BY DEF HostInv
<1>7. /\ \A i \in 1..Len(history') : history'[i].atts \subseteq used'
      /\ \A i \in 1..Len(stores') : stores'[i].atts \subseteq used'
  <2>1. CASE c
    BY <1>6, <2>1 DEF TextViewDidChange
  <2>2. CASE ~c
    <3>1. AddToHistory(d) /\ d.atts \subseteq used'
      BY <1>2, <1>5, <2>2 DEF TextViewDidChange
    <3> QED
      BY <1>6, <3>1, AddToHistoryKnown
  <2> QED
    BY <2>1, <2>2
<1> QED
  BY <1>4, <1>5, <1>7 DEF HostInv

\* Undo and redo only move entries, and show one of them.
LEMMA RevokeHost ==
    ASSUME TypeOK, HostInv, RevokeAction \/ RestoreAction
    PROVE  HostInv'
<1>1. /\ used' = used /\ ReviseImageMaskViewFrame(doc', masks, {})
  BY DEF RevokeAction, RestoreAction, Deferred
<1>2. doc' \in Document
  BY RevokeTypes DEF TypeOK
<1>3. /\ attachments' = doc'.atts /\ masks' = doc'.atts
      /\ \A a \in Attachment : told'[a] = IF a \in masks' THEN 1 ELSE 0
  BY <1>1, <1>2, ReviseEffectPlain
<1>4. HostKnowsAttachments'
  BY <1>3 DEF HostKnowsAttachments
<1>5. /\ history \in Seq(Document) /\ stores \in Seq(Document)
      /\ Len(history) \in Nat /\ Len(stores) \in Nat
  BY LenProperties DEF TypeOK
<1>6. /\ \A i \in 1..Len(history) : history[i].atts \subseteq used
      /\ \A i \in 1..Len(stores) : stores[i].atts \subseteq used
      /\ doc.atts \subseteq used
  BY DEF HostInv
<1>7. /\ doc'.atts \subseteq used
      /\ \A i \in 1..Len(history') : history'[i].atts \subseteq used
      /\ \A i \in 1..Len(stores') : stores'[i].atts \subseteq used
  <2>1. CASE RevokeAction /\ Len(history) <= 1
    BY <1>6, <2>1 DEF RevokeAction, RevokeStay
  <2>2. CASE RevokeAction /\ Len(history) > 1
    <3>1. /\ history' = Front(history) /\ stores' = Append(stores, Last(history))
          /\ doc' = history[Len(history) - 1]
      BY <2>2 DEF RevokeAction, ShowEntry
    <3>2. /\ Last(history) \in Document /\ Len(Front(history)) = Len(history) - 1
          /\ \A i \in 1..(Len(history) - 1) : Front(history)[i] = history[i]
      <4>1. history \in Seq(Document) /\ Len(history) > 0
        BY <1>5, <2>2
      <4> QED
        BY <4>1, StackTop, Zenon
    <3>3. Last(history).atts \subseteq used
      BY <1>5, <1>6, <2>2 DEF Last
    <3>4. \A i \in 1..Len(history') : history'[i].atts \subseteq used
      <4>1. Len(history) > 0
        BY <1>5, <2>2
      <4>2. \A i \in 1..Len(Front(history)) : Front(history)[i].atts \subseteq used
        BY <1>5, <1>6, <4>1, PopKnown, Zenon
      <4> QED
        BY <3>1, <4>2, Zenon
    <3>5. \A i \in 1..Len(stores') : stores'[i].atts \subseteq used
      BY <1>5, <1>6, <3>1, <3>2, <3>3, PushKnown
    <3>6. doc'.atts \subseteq used
      BY <1>5, <1>6, <2>2, <3>1
    <3> QED
      BY <3>4, <3>5, <3>6
  <2>3. CASE RestoreAction /\ Len(stores) = 0
    BY <1>6, <2>3 DEF RestoreAction, RevokeStay
  <2>4. CASE RestoreAction /\ Len(stores) # 0
    <3>1. /\ history' = Append(history, Last(stores)) /\ stores' = Front(stores)
          /\ doc' = Last(stores)
      BY <2>4 DEF RestoreAction, ShowEntry
    <3>2. /\ Last(stores) \in Document /\ Len(Front(stores)) = Len(stores) - 1
          /\ \A i \in 1..(Len(stores) - 1) : Front(stores)[i] = stores[i]
      BY <1>5, <2>4, StackTop
    <3>3. Last(stores).atts \subseteq used
      BY <1>5, <1>6, <2>4 DEF Last
    <3>4. \A i \in 1..Len(stores') : stores'[i].atts \subseteq used
      <4>1. Len(stores) > 0
        BY <1>5, <2>4
      <4>2. \A i \in 1..Len(Front(stores)) : Front(stores)[i].atts \subseteq used
        BY <1>5, <1>6, <4>1, PopKnown, Zenon
      <4> QED
        BY <3>1, <4>2, Zenon
    <3>5. \A i \in 1..Len(history') : history'[i].atts \subseteq used
      BY <1>5, <1>6, <3>1, <3>2, <3>3, PushKnown
    <3> QED
      BY <3>1, <3>3, <3>4, <3>5
  <2> QED
    BY <1>5, <2>1, <2>2, <2>3, <2>4
<1> QED
  BY <1>1, <1>3, <1>4, <1>7 DEF HostInv

\* Every callback keeps the host's account of the attachments.
LEMMA HostStep == TypeOK /\ HostInv /\ [Next]_vars => HostInv'
<1> SUFFICES ASSUME TypeOK, HostInv, [Next]_vars PROVE HostInv'
  OBVIOUS
<1>1. CASE TextViewDidBeginEditing
  <2>1. /\ AddToHistory(doc) /\ doc \in Document
        /\ UNCHANGED <<doc, attachments, masks, told, used, laidOut>>
    BY <1>1 DEF TextViewDidBeginEditing, TypeOK
  <2>2. /\ doc.atts \subseteq used
        /\ \A i \in 1..Len(history) : history[i].atts \subseteq used
    BY DEF HostInv
  <2>3. /\ \A i \in 1..Len(history') : history'[i].atts \subseteq used
        /\ \A i \in 1..Len(stores') : stores'[i].atts \subseteq used
    BY <2>1, <2>2, AddToHistoryKnown
  <2> QED
    BY <2>1, <2>3 DEF HostInv, HostKnowsAttachments
<1>2. ASSUME NEW d \in Document, NEW c \in BOOLEAN, TypeText(d, c)
      PROVE  HostInv'
  <2>1. /\ masks \cup {} = masks /\ {} \in SUBSET Attachment
        /\ d.atts \subseteq doc.atts \cup {} /\ used' = used \cup {}
    BY <1>2 DEF TypeText
  <2>2. TextViewDidChange(d, c, masks \cup {}, {})
    BY <1>2, <2>1 DEF TypeText
  <2> QED
    BY <2>1, <2>2, DidChangeHost
<1>3. ASSUME NEW a \in Attachment, NEW d \in Document, InsertImage(a, d)
      PROVE  HostInv'
  <2>1. /\ {a} \in SUBSET Attachment /\ {a} \cap used = {} /\ {a} \subseteq d.atts
        /\ d.atts \subseteq doc.atts \cup {a} /\ used' = used \cup {a}
    BY <1>3 DEF InsertImage
  <2>2. FALSE \in BOOLEAN /\ TextViewDidChange(d, FALSE, masks \cup {a}, {a})
    BY <1>3, Zenon DEF InsertImage
  <2> QED
    BY <2>1, <2>2, DidChangeHost, Zenon
<1>4. ASSUME NEW d \in Document, InsetOrDeleteTabStyle(d)
      PROVE  HostInv'
  BY <1>4 DEF InsetOrDeleteTabStyle, HostInv, HostKnowsAttachments
<1>5. CASE RevokeAction \/ RestoreAction
  BY <1>5, RevokeHost
<1>6. ASSUME NEW n \in 0..MaxNotes, SetNotesCount(n)
      PROVE  HostInv'
  BY <1>6 DEF SetNotesCount, HostInv, HostKnowsAttachments
<1>7. CASE UNCHANGED vars
  BY <1>7 DEF vars, HostInv, HostKnowsAttachments
<1> QED
  BY <1>1, <1>2, <1>3, <1>4, <1>5, <1>6, <1>7 DEF Next

\* The host hears of every attachment exactly once when it enters the text and
\* exactly once when it leaves it, and the mask views match the text, for any
\* number of attachments and any sequence of edits, undo and redo.
THEOREM HostAlwaysKnows == Spec => []HostKnowsAttachments
<1>1. Init => TypeOK /\ HostInv
  BY TypeInit, HostInit
<1>2. TypeOK /\ HostInv /\ [Next]_vars => (TypeOK /\ HostInv)'
  BY TypeStep, HostStep
<1>3. HostInv => HostKnowsAttachments
  BY DEF HostInv
<1> QED
  BY <1>1, <1>2, <1>3, PTL DEF Spec
-----------------------------------------------------------------------------
(* RichTextHistory implements UndoTimeline: the undo and the redo stack    *)
(* behave as one line of documents with a cursor.                          *)

\* A function on 1..n is a sequence of length n.
LEMMA FunctionIsSeq ==
    ASSUME NEW S, NEW n \in Nat, NEW f \in [1..n -> S]
    PROVE  f \in Seq(S) /\ Len(f) = n
<1>1. f \in Seq(S)
  BY SeqDef
<1>2. DOMAIN f = 1..n /\ DOMAIN f = 1..Len(f) /\ Len(f) \in Nat
  BY <1>1, LenProperties
<1> QED
  BY <1>1, <1>2

\* The line made of the two stacks: its length, its entries, its type.
LEMMA JoinedFacts ==
    ASSUME NEW S, NEW h \in Seq(S), NEW s \in Seq(S)
    PROVE  /\ Joined(h, s) \in Seq(S)
           /\ Len(Joined(h, s)) = Len(h) + Len(s)
           /\ \A i \in 1..(Len(h) + Len(s)) :
                 Joined(h, s)[i] = IF i <= Len(h) THEN h[i] ELSE s[Len(h) + Len(s) + 1 - i]
<1> DEFINE n == Len(h) + Len(s)
<1>1. Len(h) \in Nat /\ Len(s) \in Nat /\ n \in Nat
  BY LenProperties
<1>2. Joined(h, s) = [i \in 1..n |-> IF i <= Len(h) THEN h[i] ELSE s[n + 1 - i]]
  BY DEF Joined
<1>3. \A i \in 1..n : (IF i <= Len(h) THEN h[i] ELSE s[n + 1 - i]) \in S
  <2> SUFFICES ASSUME NEW i \in 1..n
               PROVE  (IF i <= Len(h) THEN h[i] ELSE s[n + 1 - i]) \in S
    OBVIOUS
  <2>1. CASE i <= Len(h)
    <3>1. i \in 1..Len(h)
      BY <1>1, <2>1
    <3> QED
      BY <2>1, <3>1, ElementOfSeq
  <2>2. CASE ~(i <= Len(h))
    <3>1. n + 1 - i \in 1..Len(s)
      BY <1>1, <2>2
    <3> QED
      BY <2>2, <3>1, ElementOfSeq
  <2> QED
    BY <2>1, <2>2
<1>4. Joined(h, s) \in [1..n -> S]
  BY <1>2, <1>3
<1> QED
  BY <1>1, <1>2, <1>4, FunctionIsSeq

\* Without a redo stack the line is the undo stack.
LEMMA JoinedEmpty ==
    ASSUME NEW S, NEW h \in Seq(S)
    PROVE  Joined(h, <<>>) = h
<1> DEFINE e == <<>>
<1>1. e \in Seq(S)
  BY EmptySeq
<1>2. Len(e) = 0 /\ Len(h) \in Nat
  BY EmptySeq, LenProperties
<1> HIDE DEF e
<1>3. /\ Joined(h, e) \in Seq(S)
      /\ Len(Joined(h, e)) = Len(h) + Len(e)
      /\ \A i \in 1..(Len(h) + Len(e)) :
            Joined(h, e)[i] = IF i <= Len(h) THEN h[i] ELSE e[Len(h) + Len(e) + 1 - i]
  BY <1>1, JoinedFacts, Zenon
<1>4. Len(Joined(h, e)) = Len(h) /\ \A i \in 1..Len(h) : Joined(h, e)[i] = h[i]
  BY <1>2, <1>3
<1>5. Joined(h, e) = h
  BY <1>3, <1>4, SeqEqual
<1> QED
  BY <1>5 DEF e

\* The part of the line up to the cursor is the undo stack.
LEMMA JoinedPrefix ==
    ASSUME NEW S, NEW h \in Seq(S), NEW s \in Seq(S)
    PROVE  SubSeq(Joined(h, s), 1, Len(h)) = h
<1>1. Len(h) \in Nat /\ Len(s) \in Nat
  BY LenProperties
<1>2. /\ Joined(h, s) \in Seq(S) /\ Len(Joined(h, s)) = Len(h) + Len(s)
      /\ \A i \in 1..Len(h) : Joined(h, s)[i] = h[i]
  <2>1. /\ Joined(h, s) \in Seq(S)
        /\ Len(Joined(h, s)) = Len(h) + Len(s)
        /\ \A i \in 1..(Len(h) + Len(s)) :
              Joined(h, s)[i] = IF i <= Len(h) THEN h[i] ELSE s[Len(h) + Len(s) + 1 - i]
    BY <1>1, JoinedFacts, Zenon
  <2> QED
    BY <1>1, <2>1
<1>3. /\ SubSeq(Joined(h, s), 1, Len(h)) \in Seq(S)
      /\ Len(SubSeq(Joined(h, s), 1, Len(h))) = Len(h)
      /\ \A i \in 1..Len(h) : SubSeq(Joined(h, s), 1, Len(h))[i] = Joined(h, s)[i]
  BY <1>1, <1>2, Prefix
<1> QED
  BY <1>2, <1>3, SeqEqual

\* Moving the last entry of the undo stack over does not change the line.
LEMMA JoinedMove ==
    ASSUME NEW S, NEW h \in Seq(S), NEW s \in Seq(S), Len(h) > 0
    PROVE  Joined(Front(h), Append(s, Last(h))) = Joined(h, s)
<1> DEFINE f == Front(h)
           a == Append(s, Last(h))
<1>1. Len(h) \in Nat /\ Len(s) \in Nat
  BY LenProperties
<1>2. /\ Last(h) \in S /\ f \in Seq(S) /\ Len(f) = Len(h) - 1
      /\ \A i \in 1..(Len(h) - 1) : f[i] = h[i]
  BY StackTop
<1>3. /\ a \in Seq(S) /\ Len(a) = Len(s) + 1
      /\ \A i \in 1..Len(s) : a[i] = s[i]
      /\ a[Len(s) + 1] = h[Len(h)]
  BY <1>2, AppendProperties DEF Last
<1> HIDE DEF f, a
<1>4. /\ Joined(f, a) \in Seq(S) /\ Len(Joined(f, a)) = Len(h) + Len(s)
      /\ \A i \in 1..(Len(f) + Len(a)) :
            Joined(f, a)[i] = IF i <= Len(f) THEN f[i] ELSE a[Len(f) + Len(a) + 1 - i]
  <2>1. /\ Joined(f, a) \in Seq(S)
        /\ Len(Joined(f, a)) = Len(f) + Len(a)
        /\ \A i \in 1..(Len(f) + Len(a)) :
              Joined(f, a)[i] = IF i <= Len(f) THEN f[i] ELSE a[Len(f) + Len(a) + 1 - i]
    <3>1. f \in Seq(S) /\ a \in Seq(S)
      BY <1>2, <1>3
    <3> QED
      BY <3>1, JoinedFacts, Zenon
  <2> QED
    BY <1>1, <1>2, <1>3, <2>1
<1>5. /\ Joined(h, s) \in Seq(S) /\ Len(Joined(h, s)) = Len(h) + Len(s)
      /\ \A i \in 1..(Len(h) + Len(s)) :
            Joined(h, s)[i] = IF i <= Len(h) THEN h[i] ELSE s[Len(h) + Len(s) + 1 - i]
  BY JoinedFacts
<1>6. ASSUME NEW i \in 1..(Len(h) + Len(s))
      PROVE  Joined(f, a)[i] = Joined(h, s)[i]
  <2>1. i \in 1..(Len(f) + Len(a)) /\ Len(f) + Len(a) = Len(h) + Len(s)
    BY <1>1, <1>2, <1>3
  <2>2. CASE i < Len(h)
    <3>1. i <= Len(f) /\ i <= Len(h) /\ i \in 1..(Len(h) - 1)
      BY <1>1, <1>2, <2>2
    <3> QED
      BY <1>2, <1>4, <1>5, <2>1, <3>1
  <2>3. CASE i = Len(h)
    <3>1. ~(i <= Len(f)) /\ i <= Len(h) /\ Len(f) + Len(a) + 1 - i = Len(s) + 1
      BY <1>1, <1>2, <1>3, <2>3
    <3> QED
      BY <1>3, <1>4, <1>5, <2>1, <2>3, <3>1
  <2>4. CASE i > Len(h)
    <3>1. /\ ~(i <= Len(f)) /\ ~(i <= Len(h))
          /\ Len(f) + Len(a) + 1 - i = Len(h) + Len(s) + 1 - i
          /\ Len(h) + Len(s) + 1 - i \in 1..Len(s)
      BY <1>1, <1>2, <1>3, <2>4
    <3> QED
      BY <1>3, <1>4, <1>5, <2>1, <3>1
  <2> QED
    BY <1>1, <2>2, <2>3, <2>4
<1>7. Joined(f, a) = Joined(h, s)
  BY <1>4, <1>5, <1>6, SeqEqual
<1> QED
  BY <1>7 DEF f, a
-----------------------------------------------------------------------------
\* The texts and stacks are what the lemmas need.
LEMMA StackTypes ==
    ASSUME TypeOK
    PROVE  /\ history \in Seq(Document) /\ stores \in Seq(Document)
           /\ Len(history) \in Nat /\ Len(stores) \in Nat /\ doc \in Document
BY LenProperties DEF TypeOK

\* A new helper is a new timeline.
LEMMA TimelineInit == Init => Abstract!TInit
<1> SUFFICES ASSUME Init PROVE Abstract!TInit
  OBVIOUS
<1>1. history = <<>> /\ stores = <<>> /\ <<>> \in Seq(Document) /\ Len(<<>>) = 0
  BY EmptySeq DEF Init
<1>2. Timeline = <<>> /\ Len(history) = 0
  BY <1>1, JoinedEmpty DEF Timeline
<1> QED
  BY <1>2 DEF Init, Abstract!TInit

\* A recorded edit.
LEMMA RecordRefines ==
    ASSUME TypeOK, NEW d \in Document, AddToHistory(d), doc' = d, notesCount' = notesCount
    PROVE  Abstract!Record(d)
<1> DEFINE new == Append(SubSeq(Timeline, 1, Len(history)), d)
<1>1. new = Append(history, d)
  BY StackTypes, JoinedPrefix DEF Timeline
<1>2. history' \in Seq(Document) /\ stores' = <<>>
  BY AddToHistoryTypes DEF AddToHistory
<1>3. Timeline' = history'
  BY <1>2, JoinedEmpty DEF Timeline
<1>4. history' = IF Len(new) > notesCount + 1 THEN Tail(new) ELSE new
  BY <1>1 DEF AddToHistory
<1> QED
  BY <1>3, <1>4 DEF Abstract!Record

\* Undo moves the cursor back.
LEMMA UndoRefines ==
    ASSUME TypeOK, RevokeAction, Len(history) > 1
    PROVE  Abstract!MoveBack
<1>1. /\ history' = Front(history) /\ stores' = Append(stores, Last(history))
      /\ doc' = history[Len(history) - 1] /\ notesCount' = notesCount
  BY DEF RevokeAction, ShowEntry, Deferred
<1>2. Timeline' = Timeline
  BY <1>1, StackTypes, JoinedMove DEF Timeline
<1>3. Len(history') = Len(history) - 1
  <2>1. history \in Seq(Document) /\ Len(history) > 0
    BY StackTypes
  <2>2. Len(Front(history)) = Len(history) - 1
    BY <2>1, StackTop, Zenon
  <2> QED
    BY <1>1, <2>2
<1>4. Timeline[Len(history) - 1] = history[Len(history) - 1]
  <2>1. \A i \in 1..(Len(history) + Len(stores)) :
           Timeline[i] = IF i <= Len(history) THEN history[i]
                         ELSE stores[Len(history) + Len(stores) + 1 - i]
    BY StackTypes, JoinedFacts, Zenon DEF Timeline
  <2>2. Len(history) - 1 \in 1..(Len(history) + Len(stores)) /\ Len(history) - 1 <= Len(history)
    BY StackTypes
  <2> QED
    BY <2>1, <2>2
<1> QED
  BY <1>1, <1>2, <1>3, <1>4 DEF Abstract!MoveBack

\* Redo moves it forward.
LEMMA RedoRefines ==
    ASSUME TypeOK, RestoreAction, Len(stores) # 0
    PROVE  Abstract!MoveForward
<1>1. /\ history' = Append(history, Last(stores)) /\ stores' = Front(stores)
      /\ doc' = Last(stores) /\ notesCount' = notesCount
  BY DEF RestoreAction, ShowEntry, Deferred
<1>2. /\ history \in Seq(Document) /\ stores \in Seq(Document)
      /\ Len(history) \in Nat /\ Len(stores) \in Nat
  BY StackTypes
<1>3. /\ Last(stores) \in Document /\ stores' \in Seq(Document)
      /\ Len(stores') = Len(stores) - 1
      /\ \A i \in 1..(Len(stores) - 1) : stores'[i] = stores[i]
  BY <1>1, <1>2, StackTop
<1>4. /\ history' \in Seq(Document) /\ Len(history') = Len(history) + 1
      /\ \A i \in 1..Len(history) : history'[i] = history[i]
      /\ history'[Len(history) + 1] = Last(stores)
  BY <1>1, <1>2, <1>3, AppendProperties
<1>5. Front(history') = history /\ Last(history') = Last(stores) /\ Len(history') > 0
  <2>1. /\ Front(history') \in Seq(Document) /\ Len(Front(history')) = Len(history') - 1
        /\ \A i \in 1..(Len(history') - 1) : Front(history')[i] = history'[i]
    <3>1. history' \in Seq(Document) /\ Len(history') > 0
      BY <1>2, <1>4
    <3> QED
      BY <3>1, StackTop, Zenon
  <2>2. Len(Front(history')) = Len(history) /\ \A i \in 1..Len(history) : Front(history')[i] = history[i]
    BY <1>2, <1>4, <2>1
  <2>3. Front(history') = history
    BY <1>2, <2>1, <2>2, SeqEqual
  <2> QED
    BY <1>2, <1>4, <2>3 DEF Last
<1>6. Append(stores', Last(stores)) = stores
  <2>1. /\ Append(stores', Last(stores)) \in Seq(Document)
        /\ Len(Append(stores', Last(stores))) = Len(stores') + 1
        /\ \A i \in 1..Len(stores') : Append(stores', Last(stores))[i] = stores'[i]
        /\ Append(stores', Last(stores))[Len(stores') + 1] = Last(stores)
    BY <1>3, AppendProperties
  <2>2. \A i \in 1..Len(stores) : Append(stores', Last(stores))[i] = stores[i]
    <3> SUFFICES ASSUME NEW i \in 1..Len(stores)
                 PROVE  Append(stores', Last(stores))[i] = stores[i]
      OBVIOUS
    <3>1. CASE i = Len(stores)
      BY <1>2, <1>3, <2>1, <3>1 DEF Last
    <3>2. CASE i # Len(stores)
      BY <1>2, <1>3, <2>1, <3>2
    <3> QED
      BY <3>1, <3>2
  <2>3. Len(Append(stores', Last(stores))) = Len(stores)
    BY <1>2, <1>3, <2>1
  <2> QED
    BY <1>2, <2>1, <2>2, <2>3, SeqEqual
<1>7. Joined(Front(history'), Append(stores', Last(history'))) = Joined(history', stores')
  BY <1>3, <1>4, <1>5, JoinedMove, Zenon
<1>8. Timeline' = Timeline
  BY <1>5, <1>6, <1>7 DEF Timeline
<1>9. /\ Len(Timeline) = Len(history) + Len(stores)
      /\ \A i \in 1..(Len(history) + Len(stores)) :
            Timeline[i] = IF i <= Len(history) THEN history[i]
                          ELSE stores[Len(history) + Len(stores) + 1 - i]
  BY <1>2, JoinedFacts, Zenon DEF Timeline
<1>10. Len(history) < Len(Timeline) /\ Timeline[Len(history) + 1] = Last(stores)
  <2>1. /\ Len(history) + 1 \in 1..(Len(history) + Len(stores))
        /\ ~(Len(history) + 1 <= Len(history))
        /\ Len(history) + Len(stores) + 1 - (Len(history) + 1) = Len(stores)
        /\ Len(history) < Len(history) + Len(stores)
    BY <1>2
  <2> QED
    BY <1>9, <2>1 DEF Last
<1> QED
  BY <1>1, <1>4, <1>8, <1>10 DEF Abstract!MoveForward

\* Every callback of the helper is a step of the timeline or leaves it alone.
LEMMA TimelineStep ==
    TypeOK /\ [Next]_vars => [Abstract!TNext]_Abstract!tvars
<1> SUFFICES ASSUME TypeOK, [Next]_vars PROVE [Abstract!TNext]_Abstract!tvars
  OBVIOUS
<1> USE DEF Abstract!TNext
<1>1. CASE TextViewDidBeginEditing
  <2>1. /\ AddToHistory(doc) /\ doc \in Document /\ doc' = doc
        /\ notesCount' = notesCount
    BY <1>1 DEF TextViewDidBeginEditing, TypeOK
  <2> QED
    BY <2>1, RecordRefines
<1>2. ASSUME NEW d \in Document, NEW c \in BOOLEAN, NEW V, NEW E,
             TextViewDidChange(d, c, V, E), notesCount' = notesCount
      PROVE  Abstract!TNext
  <2>1. CASE c
    <3>1. doc' = d /\ UNCHANGED <<history, stores, notesCount>>
      BY <1>2, <2>1 DEF TextViewDidChange
    <3>2. Abstract!Scribble(d)
      BY <3>1 DEF Abstract!Scribble, Timeline
    <3> QED
      BY <3>2
  <2>2. CASE ~c
    <3>1. AddToHistory(d) /\ doc' = d
      BY <1>2, <2>2 DEF TextViewDidChange
    <3>2. Abstract!Record(d)
      BY <1>2, <3>1, RecordRefines
    <3> QED
      BY <3>2
  <2> QED
    BY <2>1, <2>2
<1>3. ASSUME NEW d \in Document, NEW c \in BOOLEAN, TypeText(d, c)
      PROVE  Abstract!TNext
  BY <1>2, <1>3 DEF TypeText
<1>4. ASSUME NEW a \in Attachment, NEW d \in Document, InsertImage(a, d)
      PROVE  Abstract!TNext
  BY <1>2, <1>4 DEF InsertImage
<1>5. ASSUME NEW d \in Document, InsetOrDeleteTabStyle(d)
      PROVE  Abstract!TNext
  <2>1. Abstract!Scribble(d)
    BY <1>5 DEF InsetOrDeleteTabStyle, Abstract!Scribble, Timeline
  <2> QED
    BY <2>1
<1>6. CASE RevokeAction
  <2>1. CASE Len(history) <= 1
    BY <1>6, <2>1 DEF RevokeAction, RevokeStay, Deferred, Abstract!tvars, Timeline
  <2>2. CASE Len(history) > 1
    BY <1>6, <2>2, UndoRefines
  <2> QED
    BY <2>1, <2>2, StackTypes
<1>7. CASE RestoreAction
  <2>1. CASE Len(stores) = 0
    BY <1>7, <2>1 DEF RestoreAction, RevokeStay, Deferred, Abstract!tvars, Timeline
  <2>2. CASE Len(stores) # 0
    BY <1>7, <2>2, RedoRefines
  <2> QED
    BY <2>1, <2>2
<1>8. ASSUME NEW n \in 0..MaxNotes, SetNotesCount(n)
      PROVE  Abstract!TNext
  <2>1. Abstract!SetLimit
    BY <1>8 DEF SetNotesCount, Abstract!SetLimit, Timeline
  <2> QED
    BY <2>1
<1>9. CASE UNCHANGED vars
  BY <1>9 DEF vars, Abstract!tvars, Timeline
<1> QED
  BY <1>1, <1>3, <1>4, <1>5, <1>6, <1>7, <1>8, <1>9 DEF Next

\* Undo and redo of the editor are moves on one line of documents: every
\* behaviour of the two stacks is one of UndoTimeline.
THEOREM StacksImplementTimeline == Spec => ImplementsTimeline
<1>1. Init => TypeOK
  BY TypeInit
<1>2. TypeOK /\ [Next]_vars => TypeOK'
  BY TypeStep
<1> QED
  BY <1>1, <1>2, TimelineInit, TimelineStep, PTL
  DEF Spec, ImplementsTimeline, Abstract!TSpec
=============================================================================
