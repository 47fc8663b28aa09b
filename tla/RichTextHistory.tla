--------------------------- MODULE RichTextHistory ---------------------------
(***************************************************************************)
(* RZRichTextViewHelper: the undo and redo stacks of RZRichTextView, and   *)
(* the views that it lays over the attachments of the text.                *)
(*                                                                         *)
(* A document is a body and the set of its attachments.  A history entry   *)
(* also holds the selection and the typing attributes, which are restored  *)
(* with the text and are part of the body here.  An attachment is an       *)
(* object: inserting an image creates a new one, undo brings back the old. *)
(*                                                                         *)
(* Everything runs on the main thread; an action is one callback.          *)
(***************************************************************************)
EXTENDS Integers, SequencesExt

CONSTANTS
    Body,       \* the texts
    Attachment, \* the attachment objects that may be created
    MaxNotes    \* bound: the largest notesCount a host sets

ASSUME NotesAssumption == MaxNotes \in Nat

Document == [body : Body, atts : SUBSET Attachment]

VARIABLES
    doc,        \* textView.attributedText
    history,    \* undo stack: the documents, the present one last
    stores,     \* redo stack: the next one last
    notesCount, \* how many steps can be undone
    firstUse,   \* isFirstUse: editing has not begun
    marked,     \* textView.markedTextRange # nil: text is being composed
    attachments,\* the attachments as reviseImageMaskViewFrame saw them last
    masks,      \* the attachments whose mask view is a subview of the text view
    told,       \* didInsetAttachment minus didRemovedAttachment calls, for each
    leftOn,     \* leftBtn.isSelected
    rightOn,    \* rightBtn.isSelected
    used,       \* history: the attachment objects that exist
    maxNotes,   \* history: the largest notesCount so far
    unrecorded, \* history: doc changed after the last entry was recorded
    laidOut     \* history: reviseImageMaskViewFrame has run

vars == <<doc, history, stores, notesCount, firstUse, marked, attachments, masks,
          told, leftOn, rightOn, used, maxNotes, unrecorded, laidOut>>

\* A host may put a text with attachments in place before editing begins.
Init ==
    /\ doc \in Document
    /\ history = <<>> /\ stores = <<>>
    /\ notesCount \in 0..MaxNotes /\ maxNotes = notesCount
    /\ firstUse = TRUE /\ marked = FALSE
    /\ attachments = {} /\ masks = {} /\ told = [a \in Attachment |-> 0]
    /\ leftOn = FALSE /\ rightOn = FALSE
    /\ used = doc.atts
    /\ unrecorded = FALSE /\ laidOut = FALSE
-----------------------------------------------------------------------------
\* Fault: the plain text is stored.
AddToHistoryPlain(d) ==
    /\ history' = Append(history, d.body)
    /\ UNCHANGED <<stores, leftOn, rightOn, unrecorded>>

\* Fault: the oldest entry is never dropped.
AddToHistoryUncapped(d) ==
    /\ history' = Append(history, d)
    /\ stores' = <<>>
    /\ leftOn' = (Len(history') > 1)
    /\ rightOn' = FALSE
    /\ unrecorded' = FALSE

\* Fault: the redo button is not put out.
AddToHistoryLit(d) ==
    LET longer == Append(history, d)
    IN  /\ history' = IF Len(longer) > notesCount + 1 THEN Tail(longer) ELSE longer
        /\ stores' = <<>>
        /\ leftOn' = (Len(history') > 1)
        /\ unrecorded' = FALSE
        /\ UNCHANGED rightOn

\* Fault: the redo stack is kept.
AddToHistoryKeep(d) ==
    LET longer == Append(history, d)
    IN  /\ history' = IF Len(longer) > notesCount + 1 THEN Tail(longer) ELSE longer
        /\ leftOn' = (Len(history') > 1)
        /\ rightOn' = FALSE
        /\ unrecorded' = FALSE
        /\ UNCHANGED stores

\* addToHistory, with d on the screen.
AddToHistory(d) ==
    LET longer == Append(history, d)
    IN  /\ history' = IF Len(longer) > notesCount + 1 THEN Tail(longer) ELSE longer
        /\ stores' = <<>>
        /\ leftOn' = (Len(history') > 1)
        /\ rightOn' = FALSE
        /\ unrecorded' = FALSE

\* Fault: the superview of the mask is not looked at.
ReviseImageMaskViewFrameAlways(d, views, extra) ==
    LET removed == attachments \ d.atts
    IN  /\ masks' = (views \cup d.atts) \ removed
        /\ attachments' = d.atts
        /\ told' = [a \in Attachment |->
                      told[a] + (IF a \in d.atts THEN 1 ELSE 0)
                              - (IF a \in removed THEN 1 ELSE 0)
                              + (IF a \in extra THEN 1 ELSE 0)]
        /\ laidOut' = TRUE

\* reviseImageMaskViewFrame: attachments of the text that have no mask get one
\* and the host is told; the known ones that are gone lose it and the host is
\* told.  views are the masks so far, extra one more call of didInsetAttachment.
ReviseImageMaskViewFrame(d, views, extra) ==
    LET inserted == d.atts \ views
        removed  == attachments \ d.atts
    IN  /\ masks' = (views \cup inserted) \ removed
        /\ attachments' = d.atts
        /\ told' = [a \in Attachment |->
                      told[a] + (IF a \in inserted THEN 1 ELSE 0)
                              - (IF a \in removed THEN 1 ELSE 0)
                              + (IF a \in extra THEN 1 ELSE 0)]
        /\ laidOut' = TRUE

\* textViewDidChange after the text became d: nothing is recorded while text
\* is being composed.
TextViewDidChange(d, composing, views, extra) ==
    /\ doc' = d
    /\ marked' = composing
    /\ ReviseImageMaskViewFrame(d, views, extra)
    /\ IF composing
       THEN /\ unrecorded' = TRUE
            /\ UNCHANGED <<history, stores, leftOn, rightOn>>
       ELSE AddToHistory(d)
-----------------------------------------------------------------------------
\* textViewDidBeginEditing: the first time, the text becomes the first entry.
TextViewDidBeginEditing ==
    /\ firstUse
    /\ firstUse' = FALSE
    /\ AddToHistory(doc)
    /\ UNCHANGED <<doc, notesCount, marked, attachments, masks, told, used, maxNotes, laidOut>>

\* The user types, deletes or composes, or insert puts a text in place: the
\* body changes and attachments may go.
TypeText(d, composing) ==
    /\ ~firstUse
    /\ d.atts \subseteq doc.atts
    /\ TextViewDidChange(d, composing, masks, {})
    /\ UNCHANGED <<notesCount, firstUse, used, maxNotes>>

\* insert(image:): a new attachment, whose mask is added before the text is
\* replaced and of which the host is told last; composing ends.
InsertImage(a, d) ==
    /\ ~firstUse
    /\ a \notin used
    /\ a \in d.atts /\ d.atts \subseteq doc.atts \cup {a}
    /\ used' = used \cup {a}
    /\ TextViewDidChange(d, FALSE, masks \cup {a}, {a})
    /\ UNCHANGED <<notesCount, firstUse, maxNotes>>

\* insetOrDeleteTabStyle replaces the text and calls nobody.
InsetOrDeleteTabStyle(d) ==
    /\ ~firstUse
    /\ d.atts = doc.atts /\ d # doc
    /\ doc' = d
    /\ marked' = FALSE
    /\ unrecorded' = TRUE
    /\ UNCHANGED <<history, stores, notesCount, firstUse, attachments, masks, told,
                   leftOn, rightOn, used, maxNotes, laidOut>>

\* revokeText shows d after the stacks became h and s; the deferred block runs
\* on every path.
ShowEntry(d, h, s) ==
    /\ doc' = d
    /\ history' = h
    /\ stores' = s
    /\ marked' = FALSE
    /\ unrecorded' = FALSE

RevokeStay == UNCHANGED <<doc, history, stores, marked, unrecorded>>

Deferred ==
    /\ leftOn' = (Len(history') > 1)
    /\ rightOn' = (Len(stores') > 0)
    /\ ReviseImageMaskViewFrame(doc', masks, {})
    /\ UNCHANGED <<notesCount, firstUse, used, maxNotes>>

\* Fault: the entry shown is the last one, not the one before it.
RevokeActionLast ==
    /\ ~firstUse /\ Len(history) > 1
    /\ ShowEntry(Last(history), Front(history), Append(stores, Last(history)))
    /\ Deferred

\* The undo button: revokeText(revoke: true).
RevokeAction ==
    /\ ~firstUse
    /\ IF Len(history) <= 1
       THEN RevokeStay
       ELSE ShowEntry(history[Len(history) - 1], Front(history),
                      Append(stores, Last(history)))
    /\ Deferred

\* The redo button: revokeText(revoke: false).
RestoreAction ==
    /\ ~firstUse
    /\ IF Len(stores) = 0
       THEN RevokeStay
       ELSE ShowEntry(Last(stores), Append(history, Last(stores)), Front(stores))
    /\ Deferred

\* The host sets notesCount; no entry is dropped now.
SetNotesCount(n) ==
    /\ n # notesCount
    /\ notesCount' = n
    /\ maxNotes' = IF n > maxNotes THEN n ELSE maxNotes
    /\ UNCHANGED <<doc, history, stores, firstUse, marked, attachments, masks, told,
                   leftOn, rightOn, used, unrecorded, laidOut>>

Next ==
    \/ TextViewDidBeginEditing
    \/ \E d \in Document, composing \in BOOLEAN : TypeText(d, composing)
    \/ \E a \in Attachment, d \in Document : InsertImage(a, d)
    \/ \E d \in Document : InsetOrDeleteTabStyle(d)
    \/ RevokeAction
    \/ RestoreAction
    \/ \E n \in 0..MaxNotes : SetNotesCount(n)

Spec == Init /\ [][Next]_vars
-----------------------------------------------------------------------------
\* The variables have their types.
TypeOK ==
    /\ doc \in Document /\ history \in Seq(Document) /\ stores \in Seq(Document)
    /\ notesCount \in 0..MaxNotes /\ maxNotes \in 0..MaxNotes
    /\ firstUse \in BOOLEAN /\ marked \in BOOLEAN
    /\ attachments \subseteq Attachment /\ masks \subseteq Attachment
    /\ told \in [Attachment -> Int]
    /\ leftOn \in BOOLEAN /\ rightOn \in BOOLEAN
    /\ used \subseteq Attachment
    /\ unrecorded \in BOOLEAN /\ laidOut \in BOOLEAN

\* The two stacks together never hold more than the largest notesCount plus one
\* entries, however edits, undo, redo and changes of notesCount follow on each
\* other: addToHistory drops at most one entry, and undo and redo only move
\* entries between the stacks.
HistoryBounded == Len(history) + Len(stores) <= maxNotes + 1

\* Once editing has begun the undo stack is never empty and its last entry is
\* the text on the screen, unless the text changed without being recorded: so
\* what undo pushes on the redo stack is what the user saw.
ScreenIsRecorded ==
    ~firstUse => /\ Len(history) >= 1
                 /\ ~unrecorded => Last(history) = doc

\* The undo button is lit iff there is something to undo, the redo button iff
\* there is something to redo.
ButtonsFollow ==
    /\ leftOn <=> Len(history) > 1
    /\ rightOn <=> Len(stores) > 0

\* The host is told of every attachment exactly once when it enters the text
\* and exactly once when it leaves it, by typing, insertion, undo or redo; the
\* mask views on the screen are those of the attachments in the text.
HostKnowsAttachments ==
    /\ attachments = masks
    /\ \A a \in Attachment : told[a] = IF a \in masks THEN 1 ELSE 0
    /\ laidOut => masks = doc.atts

\* A stack h followed by a stack s turned round.
Joined(h, s) ==
    LET n == Len(h) + Len(s)
    IN  [i \in 1..n |-> IF i <= Len(h) THEN h[i] ELSE s[n + 1 - i]]

\* The line of documents on which undo and redo move.
Timeline == Joined(history, stores)

Abstract == INSTANCE UndoTimeline
    WITH line <- Timeline, cursor <- Len(history), limit <- notesCount, shown <- doc

\* The two stacks implement one line of documents with a cursor.
ImplementsTimeline == Abstract!TSpec
=============================================================================
