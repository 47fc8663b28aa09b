---------------------------- MODULE UndoTimeline ----------------------------
(***************************************************************************)
(* What undo and redo of RZRichTextView promise: one line of documents and *)
(* a cursor on it.  A recorded edit cuts the line behind the cursor and    *)
(* adds its document, giving up the oldest one when the line is too long;  *)
(* undo and redo move the cursor by one and show the document it reaches.  *)
(***************************************************************************)
EXTENDS Integers, Sequences

CONSTANTS Document, MaxNotes

VARIABLES line, cursor, limit, shown

tvars == <<line, cursor, limit, shown>>

TInit ==
    /\ line = <<>> /\ cursor = 0
    /\ limit \in 0..MaxNotes
    /\ shown \in Document

\* An edit that is recorded.
Record(d) ==
    LET new == Append(SubSeq(line, 1, cursor), d)
    IN  /\ line' = IF Len(new) > limit + 1 THEN Tail(new) ELSE new
        /\ cursor' = Len(line')
        /\ shown' = d
        /\ UNCHANGED limit

\* An edit that is not: text being composed, a change of the list style.
Scribble(d) == shown' = d /\ UNCHANGED <<line, cursor, limit>>

MoveBack ==
    /\ cursor > 1
    /\ cursor' = cursor - 1
    /\ shown' = line[cursor - 1]
    /\ UNCHANGED <<line, limit>>

MoveForward ==
    /\ cursor < Len(line)
    /\ cursor' = cursor + 1
    /\ shown' = line[cursor + 1]
    /\ UNCHANGED <<line, limit>>

SetLimit == limit' \in 0..MaxNotes /\ UNCHANGED <<line, cursor, shown>>

TNext ==
    \/ \E d \in Document : Record(d) \/ Scribble(d)
    \/ MoveBack
    \/ MoveForward
    \/ SetLimit

TSpec == TInit /\ [][TNext]_tvars
=============================================================================
