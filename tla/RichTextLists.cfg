\* Up to three paragraphs with one letter: room for the heads of three items, or
\* of two items and one out of place.
CONSTANTS
    MaxLength = 12
    MaxLetters = 1
    MaxBreaks = 2
SPECIFICATION Spec
INVARIANTS TypeOK NumbersRight ResetIsStable SelectionKept KeysKeepText
CHECK_DEADLOCK FALSE
