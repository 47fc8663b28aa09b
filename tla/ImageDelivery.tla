---------------------------- MODULE ImageDelivery ----------------------------
(***************************************************************************)
(* nextBtnClick and getImages of HEPhotoPickerViewController and of        *)
(* HEPhotoBrowserViewController (the two copies differ only in the single- *)
(* pick mode of the browser): turning the picks into images and handing    *)
(* both to the delegate.                                                   *)
(*                                                                         *)
(* heRequestImage is synchronous; its handler posts a block to the main    *)
(* queue that moves the chain one pick further.  Touches that arrived      *)
(* meanwhile are handled between two blocks, so the picks may change and   *)
(* the next button may be tapped again while a chain is running.           *)
(***************************************************************************)
EXTENDS Selections

CONSTANTS
    Asset,      \* the assets that can be picked
    MaxPicks,   \* bound: the cap on picks
    MaxTaps,    \* bound: taps on the next button
    Blank       \* UIImage(), used when the library has no image for an asset

ASSUME DeliveryAssumption ==
    Blank \notin Asset /\ MaxPicks \in Nat /\ MaxTaps \in Nat

VARIABLES
    single,     \* the browser with single-pick options, where no page has a
                \* check button; otherwise the picker
    picks,      \* selectedModels
    todo,       \* todoArray
    images,     \* selectedImages
    queue,      \* the blocks on the main queue, each with the image it carries
    delivered,  \* the didFinishPicking calls
    cancelled,  \* pickerControllerDidCancel was called
    onScreen,   \* dismiss has not been called: touches arrive
    alive,      \* the controller has not been deallocated
    crashed,    \* removeFirst was called on an empty array
    order,      \* history: the picks when next was last tapped
    overlap,    \* history: next was tapped while a chain was running
    moved,      \* history: the picks changed while a chain was running
    taps        \* history: taps on next so far

vars == <<single, picks, todo, images, queue, delivered, cancelled, onScreen,
          alive, crashed, order, overlap, moved, taps>>

Running == queue # <<>>

Init ==
    /\ single \in BOOLEAN
    /\ picks = <<>> /\ todo = <<>> /\ images = <<>> /\ queue = <<>>
    /\ delivered = <<>> /\ order = <<>> /\ taps = 0
    /\ onScreen = TRUE /\ alive = TRUE /\ cancelled = FALSE
    /\ crashed = FALSE /\ overlap = FALSE /\ moved = FALSE
-----------------------------------------------------------------------------
\* Fault: image ?? UIImage() lost its default.
GetImagesNil(p, t, im, q) ==
    /\ todo' = t
    /\ images' = im
    /\ IF t = <<>>
       THEN /\ delivered' = Append(delivered, [images |-> im, models |-> p])
            /\ onScreen' = FALSE
            /\ queue' = q
       ELSE /\ \E image \in {t[1], "nil"} : queue' = Append(q, image)
            /\ UNCHANGED <<delivered, onScreen>>

\* Fault: the screen is not dismissed.
GetImagesStay(p, t, im, q) ==
    /\ todo' = t
    /\ images' = im
    /\ UNCHANGED onScreen
    /\ IF t = <<>>
       THEN /\ delivered' = Append(delivered, [images |-> im, models |-> p])
            /\ queue' = q
       ELSE /\ \E image \in {t[1], Blank} : queue' = Append(q, image)
            /\ UNCHANGED delivered

\* Fault: the handler returns when there is no image.
GetImagesIfAny(p, t, im, q) ==
    /\ todo' = t
    /\ images' = im
    /\ IF t = <<>>
       THEN /\ delivered' = Append(delivered, [images |-> im, models |-> p])
            /\ onScreen' = FALSE
            /\ queue' = q
       ELSE /\ queue' \in {q, Append(q, t[1])}
            /\ UNCHANGED <<delivered, onScreen>>

\* getImages with the picks p, the array t still to do and the images im: at
\* the end of the array the delegate gets the result and the screen goes,
\* otherwise the first asset is requested and a block posted with its image.
GetImages(p, t, im, q) ==
    /\ todo' = t
    /\ images' = im
    /\ IF t = <<>>
       THEN /\ delivered' = Append(delivered, [images |-> im, models |-> p])
            /\ onScreen' = FALSE
            /\ queue' = q
       ELSE /\ \E image \in {t[1], Blank} : queue' = Append(q, image)
            /\ UNCHANGED <<delivered, onScreen>>

\* A tap on a check button: pick one more, or unpick.
Pick(a) ==
    /\ ~crashed /\ onScreen /\ ~single /\ Len(picks) < MaxPicks
    /\ ~Contains(picks, {a})
    /\ picks' = Append(picks, a)
    /\ moved' = (moved \/ Running)
    /\ UNCHANGED <<single, todo, images, queue, delivered, cancelled,
                   onScreen, alive, crashed, order, overlap, taps>>

Unpick(a) ==
    /\ ~crashed /\ onScreen /\ ~single
    /\ Contains(picks, {a})
    /\ picks' = RemoveAll(picks, {a})
    /\ moved' = (moved \/ Running)
    /\ UNCHANGED <<single, todo, images, queue, delivered, cancelled,
                   onScreen, alive, crashed, order, overlap, taps>>

\* nextBtnClick: enabled with at least one pick, and always in single-pick
\* mode, where it first adds the asset a of the page to the picks.
NextBtnClick(a) ==
    LET p == IF single THEN Append(picks, a) ELSE picks
    IN  /\ ~crashed /\ onScreen /\ taps < MaxTaps
        /\ p # <<>>
        /\ taps' = taps + 1
        /\ picks' = p
        /\ order' = p
        /\ overlap' = (overlap \/ Running)
        /\ GetImages(p, p, images, queue)
        /\ UNCHANGED <<single, cancelled, alive, crashed, moved>>

\* Fault: removeFirst is missing.
RunBlockKeep ==
    /\ ~crashed /\ Running /\ alive
    /\ GetImages(picks, todo, Append(images, Head(queue)), Tail(queue))
    /\ UNCHANGED <<single, picks, cancelled, alive, crashed, order, overlap, moved, taps>>

\* Fault: the image is inserted in front.
RunBlockFront ==
    /\ ~crashed /\ Running /\ alive /\ todo # <<>>
    /\ GetImages(picks, Tail(todo), <<Head(queue)>> \o images, Tail(queue))
    /\ UNCHANGED <<single, picks, cancelled, alive, crashed, order, overlap, moved, taps>>

\* The block of the result handler; self is weak.
RunBlock ==
    /\ ~crashed /\ Running
    /\ IF ~alive
       THEN /\ queue' = Tail(queue)
            /\ UNCHANGED <<todo, images, delivered, onScreen, crashed>>
       ELSE IF todo = <<>>
       THEN /\ crashed' = TRUE
            /\ UNCHANGED <<queue, todo, images, delivered, onScreen>>
       ELSE /\ GetImages(picks, Tail(todo), Append(images, Head(queue)), Tail(queue))
            /\ UNCHANGED crashed
    /\ UNCHANGED <<single, picks, cancelled, alive, order, overlap, moved, taps>>

\* goBack: cancel dismisses the picker and tells the delegate; the browser's
\* back button only pops it.  Either way the controller is released later.
GoBack ==
    /\ ~crashed /\ onScreen
    /\ onScreen' = FALSE
    /\ cancelled' = ~single
    /\ UNCHANGED <<single, picks, todo, images, queue, delivered, alive, crashed,
                   order, overlap, moved, taps>>

Dealloc ==
    /\ ~crashed /\ ~onScreen /\ alive
    /\ alive' = FALSE
    /\ UNCHANGED <<single, picks, todo, images, queue, delivered, cancelled,
                   onScreen, crashed, order, overlap, moved, taps>>

Next ==
    \/ \E a \in Asset : Pick(a)
    \/ \E a \in Asset : Unpick(a)
    \/ \E a \in Asset : NextBtnClick(a)
    \/ RunBlock
    \/ GoBack
    \/ Dealloc

\* The main queue runs every block posted to it; nothing else is promised.
Spec == Init /\ [][Next]_vars /\ WF_vars(RunBlock)
-----------------------------------------------------------------------------
\* The variables have their types.
TypeOK ==
    /\ single \in BOOLEAN /\ onScreen \in BOOLEAN /\ alive \in BOOLEAN
    /\ cancelled \in BOOLEAN /\ crashed \in BOOLEAN /\ overlap \in BOOLEAN /\ moved \in BOOLEAN
    /\ picks \in Seq(Asset) /\ todo \in Seq(Asset) /\ order \in Seq(Asset)
    /\ images \in Seq(Asset \cup {Blank}) /\ queue \in Seq(Asset \cup {Blank})
    /\ delivered \in Seq([images : Seq(Asset \cup {Blank}), models : Seq(Asset)])
    /\ taps \in Nat

\* With one tap on next at a time the chain keeps its arrays in step: one block
\* is posted for what is still to do, and removeFirst never meets an empty
\* array.
ChainInStep ==
    ~overlap => /\ ~crashed
                /\ Len(queue) <= 1
                /\ alive /\ onScreen => (Running <=> todo # <<>>)
                /\ Running /\ alive => Len(images) + Len(todo) = Len(order)

\* When neither the button is tapped again nor the picks change under way, the
\* delegate gets one image per model, in the order of the picks.
DeliveryMatchesPicks ==
    ~overlap /\ ~moved =>
        \A k \in DOMAIN delivered :
            LET d == delivered[k]
            IN  /\ d.models = order
                /\ Len(d.images) = Len(d.models)
                /\ \A i \in DOMAIN d.images : d.images[i] \in {d.models[i], Blank}

\* The delegate is told at most once, whatever is tapped.
DeliveredOnce == Len(delivered) <= 1

\* A tap on next is answered: getImages ends in didFinishPicking, unless the
\* user cancels or leaves the browser first, or a second tap crashes the chain.
NextIsAnswered ==
    \A n \in 1..MaxTaps :
        taps = n ~> \/ delivered # <<>> \/ cancelled \/ crashed
                    \/ single /\ ~onScreen

\* In single-pick mode one picture is delivered, as the documentation of
\* singlePicture says ("only one picture may be selected").
SingleDeliversOne ==
    single => \A k \in DOMAIN delivered : Len(delivered[k].models) <= 1
=============================================================================
