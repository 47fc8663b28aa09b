# TLA+ models of swiftProject-Kit

The repository is an iOS application with the libraries it is built around: a
photo picker (`Source/`), a rich text editor (`RZRichTextView/`) and the
application itself (`text/text/`), which records, edits and publishes videos.
This directory models the parts whose correctness depends on the order of events.
Paths below are relative to the repository.

## 1. Inventory

| Component | State | Operations | What is hard | What makes it correct |
|---|---|---|---|---|
| Photo picker grid (`Source/Scene/Picker`, `Source/Data`) | `models`, `selectedModels`, `isSelected`/`isEnable` of each object, options, albums, the next button | tap a check button, change the album, open and close the album list, access granted or refused, the library changes | every fetch makes new objects for the same assets, and the marks live in the objects | the caps hold; one type in imageOrVideo mode; cells show the picks; a pick can be taken back |
| Photo browser (`Source/Scene/Browser`) | copies of the picker's arrays, the page, the check button | open, swipe, scroll end, tap a thumbnail, tap the check button, back | two lists of picks, kept equal by callbacks that carry an index into a copy; the button lags behind the page | both lists agree, no index out of range, the tapped page is the one picked |
| Delivery of images (`nextBtnClick`, `getImages`) | `todoArray`, `selectedImages`, blocks on the main queue | next, a block runs, cancel, deallocation | touches are handled between two blocks of one chain | one image for each pick, in order, told once, always answered |
| Rich text history (`RZRichTextViewHelper`) | `history`, `stores`, `notesCount`, mask views, attachments | typing, composing, inserting an image, list style, undo, redo, `notesCount` | four routes change the text, not all record it; part of the state is in views | undo and redo move along one line of documents; the host is told once of each attachment |
| Video camera (`WMVideo/WMCamera*`) | `isStar`, timer, `recordTime`, `isRecording`, the asset writer, `currentUrl` | tap, timer, capture callbacks on two queues, completion handler, delayed block, retake, take, exit | four threads and no lock | the file shown is the file of the take; a take has a greatest length; no exception |
| Video export (`WMVideoTools`, `WMCameraFileTools`; `WMVideoExporter`, `WMVideoEditor`) | files, the export sessions under way | begin, end, completion handler | names have a resolution of one second, and an export removes a file of its name | a finished file stays until it is uploaded |
| Publishing screens (`SPublicVC`, `SVideoEditVc`, `sVideoRecordingVc`) | `dataArray` with its add cell, `isVideo`, `pathPHAssest`, the presented screen, the page of the recorder, title and tip | pick and clear photos, pick, play and delete a video, record, hand over, edit, post | the add cell comes and goes; a video passes through three controllers and a block one second later | at most nine photos, the add cell exactly below nine; photos or one video; a video handed over reaches the editor |
| HTTP client (`HttpRequestUntil`) | one set of headers shared by all requests | request, response, failure | the signature of one request stays for the next; one path settles no promise | a request never carries the signature of others' parameters; each promise is settled (neither holds throughout, see section 3) |
| Rich text lists (`NSAttributedStringRZRichText`, `RZRichTextViewUtils`, `RZRichTextViewHelper`) | the text: the heads of list items are characters in it | keys, list button, image, attributes; renumbering, the range after an edit | heads are told from text by pattern and position, and not every edit renumbers | numbers count from 1; keys change only what is selected; the selection stays at its text |
| Others | views | layout, colours, location, map, base controllers, extensions, demo screens | little state of their own | - |

The picker opens the browser and gives it closures to report picks; both use the
delivery code, and both report to a host (`sVideoRecordingVc` in this application).
The camera is a child of the same host, which hides its bar while a take is
running and gets the finished file; the host passes a take or a picked video to `SPublicVC`, which
presents `SVideoEditVc`, which compresses and posts it. The rich text editor and the HTTP client
stand alone. `text/Pods` is third-party code. All code of the repository itself is Swift; the C
family occurs only in `text/Pods`, and nothing there is modelled.

`PROJECT.json` lists all parts with their status, the hazards at their lines,
and for every definition the lines of code that it models.

## 2. The modules

**Selections** holds the operations on the list of picks: `Count`, `Contains`,
`RemoveAll`, and `Rank`/`Nth`, which relate an element of an ordered collection to
its index. They are not recursive, so facts about lists of any length can be proved.

**PhotoPicker** (`HEPhotoPickerViewController`, its cell, the album list, the
options). Assets are naturals in the order of the library, so a list of models is a set and a row
is a rank. An object (`HEPhotoAsset`) is an asset with the number of
the fetch that made it: this keeps apart what the code compares by object and
what it compares by `localIdentifier`. `flagged` and `disabled` are the objects with
`isSelected = true` and `isEnable = false`. An action is one callback on the main thread, with
the refreshes it makes (`UpdateUI`, `UpdateSelectedCell`). `photoLibraryDidChange` replaces the
models without calling `updateUI`, as in the code. `Returned` is an assumption on the host: the default selections it passes
are within the caps, of one type where that is asked, and without repetition; the picker does not check it.

**PhotoBrowser** extends PhotoPicker with the browser: `bModels`, `bGen` and `bSelected`
are its copies, `page` is `models[currentIndex]`. `SelectedBtnClick` includes the call of
the picker's closer, with the index in the browser's copy applied to the picker's models; `BottomCellTap` includes
the scrolling of the picker's grid to such an index. `crashed`
means an index out of range. Neither closer calls `pickerIsSelectVideo`, so the host's button stays as it was (`inBrowser`
remembers that). While the browser is open the grid gets no touches, but library
changes arrive.

**ImageDelivery** models `nextBtnClick`, `getImages` and `goBack` of both controllers. The queue
holds the blocks on the main queue with the image each carries; picks, a second tap on next,
cancelling and deallocation happen between two blocks.

**UndoTimeline** is the abstract specification of undo and redo: one line of
documents and a cursor.

**RichTextHistory** (`RZRichTextViewHelper`). A document is a body and the set of its
attachment objects. Each action is a callback with everything it calls: `TextViewDidChange` revises
the mask views, then records, unless text is being composed; undo and redo end in the
deferred block. `insetOrDeleteTabStyle` replaces the text and records nothing.

**CameraRecorder** (`WMCameraControl`, `WMCameraViewController`, `WMCameraManger`). The
main thread's callbacks are single actions; `captureOutput` is split wherever it reads shared state,
separately for the video and the audio queue; the completion handler and the block 0.3 seconds
later are actions. `AVAssetWriter` is external; the head of the module states when it raises an
exception and when its inputs accept samples. It may fail at any time while it writes or finishes (`WriterFails`), and as
`WMCameraManger` never asks why it is not writing, a failed writer is started or finished again, or its file shown; the host's
thumbnail of such a file (`try!`) may raise. Files are numbered: the names of two takes are
taken to be different, although they have only a resolution of one second (Publishing looks at that for exports). `unlucky` is a history
variable that collects the circumstances, of the last take only, in which a missing lock or a failed writer can do harm.

**Publishing** extends CameraRecorder with the screens around it. `top` is the screen the user sees;
`SPublicVC` presents all others, and UIKit refuses a second presentation. `dataArray` is the grid's
data and `cells` what was laid out last, as a clear button's tag is the row of the last layout.
`ChangePage`, `HandOverTake`, `DidFinishPicking`, `Exit` and `DismissVc` are the recorder's ways
between camera, picker and `SPublicVC`; `due` is the video whose block of `after(seconds: 1)`
is waiting, and `PresentEditor` is that block. The picker's delegate is called before the recorder is
dismissed, the camera's block after it: only the first needs the second of waiting. The
editor's title, tip, alert, player and Post are actions, and an export is begun, ends and
is told in three steps. `files` says whose video a name holds. Assumed: a dismissal ends within the second and no
second video is made in it; a thumbnail of a completely written file can be made; capture callbacks are over when the
camera goes.

**HttpClient** (`HttpRequestUntil`). `headers` is the one header set; a request copies it and adds
itself to `requests` with its parameters. `Query`, `Body` and `Upload` are the two `request`
functions and `upload`; `Respond` is the handler of the response, which settles the promise or, for the
code "-5", leaves it pending. A signature is the set of signed pairs. Requests are made on the main
thread, as in the app. A server that used the codes "300" or "301" itself could not be told
from the client's own errors.

**RichTextLists** (`NSAttributedStringRZRichText`, `RZRichTextViewUtils.newRangeFor`, `shouldChangeTextIn`,
`insetOrDeleteTabStyle`, `textViewDidChangeSelection`). The text is a sequence of characters with the list style of
each; a head is three characters in it, a number with its dot being one. The algorithms are operators
with the names of the code. An action gives the outcome of a key or button for any
selection that `textViewDidChangeSelection` leaves standing. `UITextView` is external: it carries
out the edits it is allowed, gives a paragraph the style of its first character, and puts the
caret where a range of negative length (`RZRichTextViewHelper.swift:365`, `:381`) was meant to. Lists are enabled
(`enableTabStyle`). Exceptions and the recursion without end of `mutableTransParagraphTo` are `crashed`.

**MCPhotoPicker**, **MCPhotoBrowser** give the constants of these modules values for TLC.

**SelectionsProofs**, **PhotoPickerProofs**, **PhotoBrowserProofs**, **ImageDeliveryProofs**,
**RichTextHistoryProofs**, **RichTextListsProofs**, **PublishingProofs** (with the camera) and **HttpClientProofs**
contain the theorems. SelectionsProofs holds the facts about lists that the picker and the browser share;
PhotoBrowserProofs builds on PhotoPickerProofs as the browser's module builds on the picker's.

An operator commented "Fault" is a wrong variant of the definition after it. It is used only to
confirm that a property notices such a mistake.

## 3. What is checked

| Run | Checks | Bounds |
|---|---|---|
| `picker` | `CapRespected`, `SoundUntilChange`, `CellsInSync`, `PickedCellsEnabled` | two images, two videos, an album, six kinds of options, three fetches, two library changes |
| `browser` | `ListsAgree`, `SoundUntilDrift`, `ButtonTruthful`, `NoCrashUntilChange`, `ButtonsAgree` | two videos, one image, an album, three picks, three fetches, one library change |
| `delivery` | `ChainInStep`, `DeliveryMatchesPicks`, `DeliveredOnce`, `NextIsAnswered` | three assets, two picks, two taps on next |
| `history` | `HistoryBounded`, `ScreenIsRecorded`, `ButtonsFollow`, `HostKnowsAttachments`, `ImplementsTimeline` | two bodies, two attachments, `notesCount` up to 2 |
| `camera` | `TakesBounded`, `FileOfTheTake`, `ScreensTakeTurns`, `CrashNeedsBadLuck`, `TakeIsShown`, `GridRule`, `PhotosOrVideo`, `VideoReachesEditor`, `ExportsKept` (module Publishing) | two takes of at most two ticks, a short take is less than one; a grid of two; one library video, two visits of the recorder, two exports in two seconds, takes and exports two together (`MaxJobs`), titles of 0 and 1 characters |
| `http` | `OwnSignature`, `PromiseSettles` | three requests, one parameter name with a value or the empty string, one more header, codes 200, -5 and another |
| `lists` | `NumbersRight`, `ResetIsStable`, `SelectionKept`, `KeysKeepText` | twelve characters, one letter, two line breaks |

Each of them also checks the type invariant. Why the bounds are enough:

- *picker*: two assets of each type are needed to reach a cap above one and to mix types; options with caps
  1 and 2, single-pick flags and all four media types occur. The third fetch
  makes an object that is two generations old; the second library change comes after
  a recovery by an album change.
- *browser*: three pages give a middle page with two neighbours; the album and the library of two
  make the copies differ in length, which the index needs to go wrong. `LiveView` ignores the
  flags of objects no controller shows any more, which no action reads. The options include video mode with one video, which
  is how `sVideoRecordingVc` uses the picker; two videos are what a rejected tap needs.
- *delivery*: two picks give a chain with a block in the middle, two taps an overlap.
- *history*: with `notesCount` up to 2 the stacks hold up to three entries, so an entry is dropped
  after undo, and the limit can be lowered below the present length. Two attachments
  separate "another one" from "the same again".
- *camera*: the second take is what stale `isStar`, `recordTime` and `currentUrl` need; it may
  happen in the second visit of the recorder. The limit of two ticks leaves room for takes that are short and
  long enough and for the timer that ends one. A grid of two has a full, a middle and an empty state. Two exports
  may share a second or not. The recorder is not opened again after an export, and an export begins only while takes and
  exports are fewer than two, as they share nothing.
- *http*: a query with parameters, a body and a query without them, in every order with all three under way, is
  what a wrong signature needs; a second parameter name would add nothing to it.
- *lists*: three paragraphs give a middle one, two groups and numbers up to 3; the letter tells the
  paragraphs apart. There is room for the heads of three items or of two and one out of place. An edit that
  leaves a piece of a head as text (by a selection that begins or ends in one) is not taken.

Deadlock is checked for `http`. Elsewhere a user may stop, the picker may be dismissed, a crash ends everything,
and the bounds end behaviours.

**Fairness.** Users are never fair. In ImageDelivery the main queue runs each
block posted to it (`WF(RunBlock)`), which is what `DispatchQueue.main.async` promises.
In CameraRecorder the repeating timer fires, the asset writer finishes, or fails at, what it was
told to finish, and its handler and the delayed block run. Nothing is assumed of capture callbacks.
In Publishing moreover a dismissal ends and the block of `after(seconds: 1)` runs. In HttpClient each request is answered
or fails, which Alamofire promises with `timeoutIntervalForRequest = 15`.

What holds, in words. The picker alone respects its caps whatever happens, since
`updateSelectedCell` counts the list that it appends to. The rule of one type and the rule
that an asset is picked once rest on marks and disabled cells, and hold until the library changes.
Picker and browser hold the same list as long as they share their
objects. The picker's next button follows the picks always. The button of the host does not: it is driven by
`pickerIsSelectVideo`, which taps on pages do not call, so after a pick in the browser it may be hidden and after an unpick it
may be shown without a video. `ButtonsAgree` states where it is right: until a page is picked, and after each tap on
a cell until a library change or a drift. The delivery is right for one tap on next and unchanged picks, and is made at most
once in any case. Undo and redo are a cursor on a line of documents; their
stacks are bounded by the largest `notesCount` so far, as a limit lowered at run time removes one entry per change only. The
camera shows the
file of the last take, completely written unless its own writer failed, and an exception needs one of these
circumstances in the take under way: no writer, a failed writer, a callback under way at the start or the stop, a stop before
the first frame, sound before the session. In all of them the code does raise, or may; what the property adds is that
nothing else does, and that what happened in an earlier take does no harm. In the screens around the camera one more is two clear
buttons released in one event. A take is as long as `videoMaxLength` allows, which `sVideoRecordingVc.swift:80` sets to one minute
under a comment that says five.
The grid keeps its rule otherwise; a video handed over reaches the editor unless the user touches `SPublicVC`
in the second of waiting; an exported file stays unless another export began in the same second.
A request signed for its own parameters is guaranteed for queries with parameters only. An upload and a query without
parameters may carry the signature of the last query: a defect, against the comment "get and delete requests must be signed"
(`HttpRequestUntil.swift:108`), which `OwnSignature` allows and does not ask for. It says that such a signature never
outlives a body or the next query with parameters. A promise is settled unless the answer is "-5".
Renumbering never loses text, is idempotent and gives right numbers for every text without pieces of heads. The list properties carry the conditions the code needs and does not ensure:

- `deleteTab` is right when the selection does not begin in a head before its last character. Selecting a whole list
  without a last line break and deleting it makes a negative range, or eats the end of the paragraph before.
- The return key is right when list paragraphs have heads. Select all and return leave one without;
  in it the next return asks for location -1.
- The list button is right unless the text ends with a head: without it the last paragraph is empty, and
  `mutableTransParagraphTo` calls itself until the stack is full. Where two items were joined and a
  paragraph begins with two heads, it loses both.

### Disagreements with what the code says of itself

| Run | Property | What happens |
|---|---|---|
| `picker_one_type` | `OneMediaType` | imageOrVideo promises that only one type is selected; after a library change the cells are enabled again and a video joins an image |
| `browser_cap` | `CapRespected` | the browser's unpick of a preselected asset is removed from its own list only, as the picker compares objects; one asset too many is picked |
| `browser_index` | `PicksTheTappedPage` | "never match by index" says `updateSelectedCell`; `selectedCloser` does, and after a library change it picks another asset |
| `delivery_single` | `SingleDeliversOne` | two taps on next before the block runs deliver two models in single-pick mode |
| `camera_tap` | `TapStartsTake` | the timer ends a take and leaves `isStar` set; the next tap on the camera button records nothing |

## 4. What is proved

Every invariant of section 3 and the refinement of UndoTimeline, for all values of the constants, under the named assumptions in the modules: assets are naturals, albums and libraries are sets of
assets, options are option records, default selections are lists of generation 0; for the browser every library is
finite, since its rows are indices; bounds are naturals, and the grid has room for a photo. Each inductive
invariant below was model-checked before it was proved.

- **SelectionsProofs**: `Rank` and `Nth` are inverse to each other; an append raises the count of one type by
  one; `RemoveAll` never raises a count, keeps exactly what is outside the set it removes and, from two lists of
  one length, takes away the same places when the same places match.
- **PhotoPickerProofs**
  - `TypeCorrect`. `CapsAlwaysRespected`: `CapRespected` is inductive as it stands, because
    `updateSelectedCell` counts the list that it appends to.
  - `PickedCellsAlwaysEnabled` from `EnabledInv`, which adds that a disabled object is never of a generation
    still to come: otherwise a fetch could hand out an object that is disabled already and `updateUI` would mark it.
  - `CellsAlwaysInSync` and `AlwaysSoundUntilChange` from `SyncInv`. The cells in sync (`SyncedCells`) and the rules for
    the picks need each other: a cell that is neither marked nor disabled is an asset not yet picked and of
    the right type only when it is in sync, and it stays in sync only when the marks are right. `MarksInv` says of the
    marks what remains true when a library change takes the cells out of sync: no mark is newer than the
    models, and a marked cell's asset is picked.
  - For the buttons of the composition: `VideoModeInv`, in video mode no image may be picked. So with one
    video allowed the list has at most one element, a rejected tap finds it occupied and an unpick empties it (`HostByTap`),
    and the host's button is right though it does not know whether the tap was accepted.
- **PhotoBrowserProofs**, all from `BrowserInv`:
  - `AlwaysNoCrashUntilChange` and `BrowserTypes` need `FetchInv` (until a library change the grid and the
    albums are parts of `phAssets`, so a row of an album is a row of `phAssets` too), `CopyInv` (the
    browser's copy is the picker's models while no fetch came between) and that all of them are finite.
  - `ListsAlwaysAgree`: an unpick removes by object in one list and by identifier in the other; with all
    picks of the present generation both remove the same places, and an unpick cannot make the premise true,
    because the picker removes only objects of its own generation.
  - `AlwaysSoundUntilDrift` and `ButtonAlwaysTruthful` from `DriftInv`: as long as neither the library changed nor
    a drift happened, the picker's `SyncInv` holds, the lists have the same assets (`SameAssets`), and a page at
    rest with a visible button has the type of the picks (`PageMayBePicked`, which survives the jump of
    a thumbnail although that does not refresh `isHidden`). A pick that passes the browser's cap check on its
    own list then is a pick of an enabled cell in the picker (`AllowedIsEnabled`).
  - `ButtonsAlwaysAgree` from `HostInv`: until a page is picked the picker's `SyncInv` holds through all library changes, as
    the browser's steps leave its state alone; later `DriftInv` gives it. Either way the next tap on a cell sets the
    host's button right.
- **ImageDeliveryProofs**, all from `IInv`: `TypeCorrect`; `AlwaysDeliveredOnce` from `ScreenInv` (after a delivery the
  controller is off the screen and nothing is to do, so a block that is left over ends without a second one);
  `ChainAlwaysInStep` from `ChainInv`, which drops the condition that the controller is on the screen, as the
  chain goes on when it is not; `DeliveryAlwaysMatches` from `MatchInv` (the images so far are those of
  the first picks, the block carries the next one, the rest is to do).
- **RichTextHistoryProofs**: `TypeCorrect`; `HistoryNeverTooLong`, `ScreenAlwaysRecorded`,
  `ButtonsAlwaysFollow` from `StackInv`, which adds that `notesCount` is at most its
  maximum and that the redo stack is empty before editing; `HostAlwaysKnows` from `HostInv`, which adds
  that masks, text and every entry of both stacks only hold attachments that exist, so that a new one has no mask.
  `StacksImplementTimeline`: the line is the undo stack
  followed by the redo stack turned round, the cursor is the length of the undo stack. The steps need
  the type invariant and `StackInv`.
- **RichTextListsProofs**, for texts of any length:
  - The foundation. The loops of the code are recursive functions in the model and `FlattenSeq`, a fold, joins the
    pieces, so what they compute needs induction. The library's induction theorems have the property as an
    operator parameter, which the provers cannot instantiate; `Induction` has a set in its place and is proved from
    the pigeonhole theorem for finite sets (`LeastNatural`). `RecursionUp` and `RecursionDown` prove with it that
    the functions exist that the model defines by recursion.
  - The representation. `Paras(d)` are the paragraphs of a text, laid out one behind the other at rising
    offsets (`Laid`, `Parted`). `allParapraghRange` returns exactly these ranges, joining them gives the text back,
    `resetTabOrderNumber` gives the k-th paragraph the head with its number within its run of equal
    styles (`RenewedIs`, with the groups followed one paragraph at a time), and the text view gives it its style.
  - `TypeCorrect` and `NumbersAlwaysRight` from `ListsInv`, the type invariant and `NumbersRight` together, which is inductive:
    each key and button ends in `Outcome`, and the numbers are right in every outcome that was renumbered (`Good`).
    `ResetAlwaysStable` follows from the type invariant: a paragraph that has got its head and one style keeps both
    and its text (`WithHeadStable`).
  - `KeysAlwaysKeepText`. `Plain`, the letters and line breaks of a text, does not see heads and styles. So
    renumbering and restyling do not change it, and what remains is which characters `deleteTab` cuts out: it
    is called for a range that begins with the last character of a head, and cuts out the range and the two characters of
    the head in front of it.
  - `SelectionAlwaysKept`. The list button leaves the number of the paragraphs and the text of each
    (`RestyledIs`, which needs single heads and no bare head at the end). The paragraphs that a selection touches are
    the ones from that of its first to that of its last end (`TouchedIs`), so `newRangeFor` finds the same paragraphs in
    the new text (`NewRangeIs`), and a place as far from the end of its paragraph as before is behind the head and in
    front of the same rest (`RestIs`, `EndKept`).
- **PublishingProofs**, all from `PInv`, one part per screen:
  - `CameraInv` for the camera within its host. `TimeInv`: a take begins at zero because the camera button never
    comes back with an old `recordTime` (`TakesAlwaysBounded`). `ScreenInv`: besides the three parts of the
    screen, where an alert may stand and when the picker's page is reached (`ScreensAlwaysTakeTurns`). `FileInv`:
    a writer that was told to finish, failed or not, belongs to a handler that is due, no file is both written and failed, and the name given out last is larger
    than those handed over until the review ends (`AlwaysFileOfTheTake`). `LuckInv`: in a take with luck the queues
    are busy only while it runs and its writer has begun and not failed; the next take starts with idle queues or is
    unlucky itself (`CrashAlwaysBadLuck`).
  - `GridInv`: the add cell is there while the image picker is open, so `insert` has a place
    (`GridAlwaysRuled`, `AlwaysPhotosOrVideo`).
  - `ExportsInv`: a file is named after the second of its export (`ExportsAlwaysKept`).
- **HttpClientProofs**: `TypeCorrect`; `SignatureCorrect` from `IInv`, whose `HeadersLeft` says of the shared headers what
  `OwnSignature` says of the requests sent: a signature in them is that of the last query with parameters, and no body came
  after it. It is needed because an upload sends them as they are. Assumed: the empty string is no other value, and
  "sign" is not a header the app sets itself.

Only model-checked are the liveness properties `NextIsAnswered`, `TakeIsShown`, `VideoReachesEditor` and
`PromiseSettles`, which are out of the reach of the proof system.

## 5. What is not modelled

- Two effects of UIKit in the picker. A fetch that finds nothing does not call `reloadData`
  (`HEPhotoPickerViewController.swift:459` is inside the enumeration), so the grid keeps the cells of the models before.
  `selectRow` (`:414`) selects the row chosen last in the album list, which may be gone when the list shrank.
- Layout, drawing and animation; the browser's page cell and the transition animator, whose state belongs
  to UIKit and AVFoundation.
- Focus, zoom, camera switching, orientation and the still photo of the camera (its gesture is commented out);
  `WMVideoPlayer`, which loops a finished file and has no say in what happens to it.
- `WMVideoExporter` and `WMVideoEditor`: nobody in the app calls them.
- `hasNetWorking` of the HTTP client, which is written and never read; the parsing of answers into models; the
  environment, which never changes.
- Attributes of the text other than the list style; links; the forms of the rich text editor, which act through
  modelled operations. Undo and lists are two models of one helper: RichTextHistory takes the text as
  a value, RichTextLists looks into it and keeps no history.
- Location, map, QR scanner, base controllers, demo screens and extensions: one callback each, or no state.
- Third-party pods: `text/Pods` is by far the largest part of the repository's lines and not code of this system.

## 6. Plan

1. Undo of list edits: RichTextHistory over the texts of RichTextLists.
2. The camera's photo and focus, if their gestures come back; the exporter, if it gets a caller.
