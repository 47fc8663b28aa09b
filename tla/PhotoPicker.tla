----------------------------- MODULE PhotoPicker -----------------------------
(***************************************************************************)
(* HEPhotoPickerViewController: the grid of photos and videos from which   *)
(* the user picks.                                                         *)
(*                                                                         *)
(* Assets are naturals; their order is the order of the library's fetch    *)
(* results (sort by creation date), so a list of models is the SET of its  *)
(* assets and the row of an asset is its rank in that set.                 *)
(*                                                                         *)
(* HEPhotoAsset is a class: every fetch creates new objects for the same   *)
(* assets, and isSelected and isEnable live in the object.  An object is   *)
(* therefore an asset together with the generation of the fetch that made  *)
(* it; generation 0 is the host's defaultSelections.                       *)
(*                                                                         *)
(* Everything here runs on the main thread: an action is one main-thread   *)
(* callback.  A cell shows the state of its model after every callback     *)
(* (reloadData and reloadItems take effect before the next touch).         *)
(***************************************************************************)
EXTENDS Selections

CONSTANTS
    Asset,      \* the assets the library may hold
    Video,      \* those of mediaType .video; the others are .image
    Library,    \* the contents the photo library may have
    Album,      \* the smart albums, each the set of assets it would hold
    Options,    \* the option records a host may pass
    Defaults,   \* the defaultSelections a host may pass
    MaxFetch,   \* bound: how many fetches of models a behaviour has
    MaxChange   \* bound: how many library changes a behaviour has

MediaTypes == {"image", "video", "imageAndVideo", "imageOrVideo"}

OptionRecord ==
    [mediaType : MediaTypes, maxImage : Nat, maxVideo : Nat,
     singlePicture : BOOLEAN, singleVideo : BOOLEAN]

Object == [id : Asset, gen : Nat]

ASSUME AssetAssumption ==
    /\ Asset \subseteq Nat /\ Video \subseteq Asset
    /\ Album \subseteq SUBSET Asset /\ Library \subseteq SUBSET Asset
ASSUME OptionsAssumption == Options \subseteq OptionRecord
ASSUME DefaultsAssumption ==
    Defaults \subseteq Seq({o \in Object : o.gen = 0})
ASSUME BoundAssumption == MaxFetch \in Nat /\ MaxChange \in Nat

VARIABLES
    phase,      \* "asking" for access, "denied", or "ready" after getAllPhotos
    opts,       \* pickerOptions as configPickerOption leaves them
    phAssets,   \* the fetch result of the whole library
    albumLib,   \* the library as it was when albumModels was fetched
    listed,     \* albumModels of the open album list, {} while it is closed
    models,     \* the assets of the models that the grid shows
    gen,        \* the generation of these models
    flagged,    \* the objects with isSelected = true
    disabled,   \* the objects with isEnable = false
    selected,   \* selectedModels
    nextOn,     \* rightBtn.isEnabled
    hostShown,  \* the host's "next" button, set through pickerIsSelectVideo
    changes,    \* history: library changes so far
    unsynced    \* history: models were refetched and updateUI has not run since

vars == <<phase, opts, phAssets, albumLib, listed, models, gen, flagged,
          disabled, selected, nextOn, hostShown, changes, unsynced>>
-----------------------------------------------------------------------------
ImageObjects == {o \in Object : o.id \notin Video}
VideoObjects == {o \in Object : o.id \in Video}

\* The objects of asset a: what a comparison of localIdentifier matches.
SameId(a) == {o \in Object : o.id = a}

\* The objects of the grid.
Items == {[id |-> a, gen |-> gen] : a \in models}

IsVideo(o) == o.id \in Video

\* The assets that photosOptions.predicate lets through.
Shown(S) ==
    {a \in S : /\ opts.mediaType = "image" => a \notin Video
               /\ opts.mediaType = "video" => a \in Video}

\* configPickerOption: which of the host's options survive the media type.
ConfigPickerOption(o) ==
    LET picture == o.singlePicture /\ o.mediaType \notin {"imageAndVideo", "imageOrVideo"}
        video   == o.singleVideo /\ o.mediaType # "imageAndVideo"
    IN  [o EXCEPT !.singlePicture = picture,
                  !.singleVideo   = video,
                  !.maxImage      = IF o.mediaType = "video" \/ picture THEN 0 ELSE @,
                  !.maxVideo      = IF o.mediaType = "image" \/ video THEN 0 ELSE @]

\* checkIsSingle: a single-pick model has no check button (isEnableSelected).
CheckIsSingle(a) ==
    \/ a \notin Video /\ opts.singlePicture
    \/ a \in Video /\ opts.singleVideo

\* The cap that the type of asset a is under, and what it counts.
CapOf(a) == IF a \in Video THEN opts.maxVideo ELSE opts.maxImage
KindOf(a) == IF a \in Video THEN VideoObjects ELSE ImageObjects
-----------------------------------------------------------------------------
(* setCellState.  items are the grid's objects, sel the picks, marks and   *)
(* off the objects whose isSelected is true and whose isEnable is false.   *)

\* Fault: picks are compared by object, not by localIdentifier.
SetCellSelectedByObject(items, sel, marks) ==
    (marks \ items) \cup {o \in items : Contains(sel, {o})}

\* With isUpdateSelecetd every item's isSelected is set from the picks.
SetCellSelected(items, sel, marks) ==
    (marks \ items) \cup {o \in items : Contains(sel, SameId(o.id))}

\* Fault: the item.isSelected == false guard is missing.
SetCellEnableAll(items, sel, marks, off) ==
    LET full == Len(sel) >= opts.maxImage + opts.maxVideo
    IN  IF opts.mediaType # "imageOrVideo" THEN off
        ELSE IF sel = <<>> THEN off \ items
        ELSE (off \ items) \cup {o \in items : full \/ IsVideo(o) # IsVideo(sel[1])}

\* In imageOrVideo mode an item that is not picked is disabled when the picks
\* reach the total cap or the first pick has the other type; with no pick left
\* every item is enabled.
SetCellEnable(items, sel, marks, off) ==
    LET free   == items \ marks
        full   == Len(sel) >= opts.maxImage + opts.maxVideo
        closed == {o \in free : full \/ IsVideo(o) # IsVideo(sel[1])}
    IN  IF opts.mediaType # "imageOrVideo" THEN off
        ELSE IF sel = <<>> THEN off \ items
        ELSE (off \ free) \cup closed

\* updateUI: the next button, then every cell's isSelected and isEnable.
UpdateUI(items, sel, marks, off) ==
    /\ nextOn' = (sel # <<>>)
    /\ flagged' = SetCellSelected(items, sel, marks)
    /\ disabled' = SetCellEnable(items, sel, SetCellSelected(items, sel, marks), off)
    /\ unsynced' = FALSE

\* fetchPhotoModels: new objects, neither selected nor disabled.
FetchPhotoModels(photos) ==
    /\ gen < MaxFetch
    /\ models' = photos
    /\ gen' = gen + 1
-----------------------------------------------------------------------------
\* A host passes defaultSelections that an earlier use of the picker returned:
\* within the caps, without repetition and, for imageOrVideo, of one type.
Returned(o, s) ==
    /\ Count(s, ImageObjects) <= o.maxImage
    /\ Count(s, VideoObjects) <= o.maxVideo
    /\ \A i, j \in DOMAIN s : i # j => s[i].id # s[j].id
    /\ o.mediaType = "imageOrVideo" =>
          \A i, j \in DOMAIN s : IsVideo(s[i]) = IsVideo(s[j])

\* viewDidLoad without access to the library: configPickerOption has run and
\* requestAuthorization is pending.  With access getAllPhotos runs at once,
\* which is the same as an immediate answer.
Init ==
    /\ \E o \in Options, s \in Defaults :
          /\ Returned(ConfigPickerOption(o), s)
          /\ opts = ConfigPickerOption(o)
          /\ selected = s
    /\ phase = "asking"
    /\ phAssets = {} /\ albumLib = {} /\ listed = {}
    /\ models = {} /\ gen = 0 /\ flagged = {} /\ disabled = {}
    /\ nextOn = FALSE /\ hostShown = FALSE
    /\ changes = 0 /\ unsynced = FALSE

\* getAllPhotos: fetch, build the models and the albums, then configUI and, if
\* there are default selections, updateUI.
GetAllPhotos(L) ==
    /\ phase = "asking"
    /\ phase' = "ready"
    /\ phAssets' = Shown(L)
    /\ albumLib' = L
    /\ FetchPhotoModels(Shown(L))
    /\ IF selected # <<>>
       THEN UpdateUI({[id |-> a, gen |-> gen + 1] : a \in Shown(L)}, selected, flagged, disabled)
       ELSE nextOn' = FALSE /\ UNCHANGED <<flagged, disabled, unsynced>>
    /\ UNCHANGED <<opts, listed, selected, hostShown, changes>>

\* The user refuses: the Settings app opens and the picker stays empty.
AccessRejected ==
    /\ phase = "asking"
    /\ phase' = "denied"
    /\ UNCHANGED <<opts, phAssets, albumLib, listed, models, gen, flagged,
                   disabled, selected, nextOn, hostShown, changes, unsynced>>

\* The check button of the cell of asset a: the cell toggles the button, tells
\* the host, and updateSelectedCell accepts or rejects.  A disabled cell is
\* covered by topView, which swallows the touch.
CanTap(a) ==
    /\ phase = "ready" /\ listed = {}
    /\ a \in models
    /\ [id |-> a, gen |-> gen] \notin disabled
    /\ ~CheckIsSingle(a)

\* updateSelectedCell, the accepting part: the new picks and their cells.
UpdateSelectedCell(a, sel, marks) ==
    /\ selected' = sel
    /\ flagged' = marks
    /\ nextOn' = (sel # <<>>)
    /\ disabled' = SetCellEnable(Items, sel, marks, disabled)

\* Fault: the cap is compared with <= instead of <.
CellSelectOneMore(a) ==
    LET o == [id |-> a, gen |-> gen]
    IN  /\ CanTap(a)
        /\ o \notin flagged
        /\ hostShown' = TRUE
        /\ IF Count(selected, KindOf(a)) <= CapOf(a)
           THEN UpdateSelectedCell(a, Append(selected, o), flagged \cup {o})
           ELSE UNCHANGED <<selected, flagged, nextOn, disabled>>
        /\ UNCHANGED <<phase, opts, phAssets, albumLib, listed, models, gen,
                       changes, unsynced>>

\* An unchecked cell: pickerIsSelectVideo(true), and a pick if the cap allows.
CellSelect(a) ==
    LET o == [id |-> a, gen |-> gen]
    IN  /\ CanTap(a)
        /\ o \notin flagged
        /\ hostShown' = TRUE
        /\ IF Count(selected, KindOf(a)) < CapOf(a)
           THEN UpdateSelectedCell(a, Append(selected, o), flagged \cup {o})
           ELSE UNCHANGED <<selected, flagged, nextOn, disabled>>
        /\ UNCHANGED <<phase, opts, phAssets, albumLib, listed, models, gen,
                       changes, unsynced>>

\* Fault: the host is told the state of the button before it is toggled.
CellUnselectEarly(a) ==
    LET o == [id |-> a, gen |-> gen]
    IN  /\ CanTap(a)
        /\ o \in flagged
        /\ hostShown' = TRUE
        /\ UpdateSelectedCell(a, RemoveAll(selected, SameId(a)), flagged \ {o})
        /\ UNCHANGED <<phase, opts, phAssets, albumLib, listed, models, gen,
                       changes, unsynced>>

\* A checked cell: pickerIsSelectVideo(false), and every pick of the asset goes.
CellUnselect(a) ==
    LET o == [id |-> a, gen |-> gen]
    IN  /\ CanTap(a)
        /\ o \in flagged
        /\ hostShown' = FALSE
        /\ UpdateSelectedCell(a, RemoveAll(selected, SameId(a)), flagged \ {o})
        /\ UNCHANGED <<phase, opts, phAssets, albumLib, listed, models, gen,
                       changes, unsynced>>

\* Fault: the albums are fetched without the predicate of the media type.
TitleViewClickAll ==
    /\ phase = "ready" /\ listed = {}
    /\ listed' = {albumLib \cap A : A \in Album} \ {{}}
    /\ UNCHANGED <<phase, opts, phAssets, albumLib, models, gen, flagged,
                   disabled, selected, nextOn, hostShown, changes, unsynced>>

\* titleViewClick: the album list opens over the screen with the albums fetched
\* last; an empty album was left out of albumModels.
TitleViewClick ==
    /\ phase = "ready" /\ listed = {}
    /\ listed' = {Shown(albumLib \cap A) : A \in Album} \ {{}}
    /\ UNCHANGED <<phase, opts, phAssets, albumLib, models, gen, flagged,
                   disabled, selected, nextOn, hostShown, changes, unsynced>>

\* Fault: updateUI is not called after the album changed.
AlbumClickNoUpdate(photos) ==
    /\ photos \in listed
    /\ listed' = {}
    /\ FetchPhotoModels(photos)
    /\ UNCHANGED <<phase, opts, phAssets, albumLib, flagged, disabled, selected,
                   nextOn, hostShown, changes, unsynced>>

\* An album of the list: its photos become the models, updateUI marks them.
AlbumClick(photos) ==
    /\ photos \in listed
    /\ listed' = {}
    /\ FetchPhotoModels(photos)
    /\ UpdateUI({[id |-> a, gen |-> gen + 1] : a \in photos}, selected, flagged, disabled)
    /\ UNCHANGED <<phase, opts, phAssets, albumLib, selected, hostShown, changes>>

\* backViewTap: the list closes.
AlbumListDismiss ==
    /\ listed # {}
    /\ listed' = {}
    /\ UNCHANGED <<phase, opts, phAssets, albumLib, models, gen, flagged,
                   disabled, selected, nextOn, hostShown, changes, unsynced>>

\* photoLibraryDidChange: the library becomes L.  The whole library replaces
\* the grid when its fetch result changed (photos), the album list is fetched
\* anew when the collections changed (albums); updateUI is not called.
PhotoLibraryDidChange(L, photos, albums) ==
    /\ phase = "ready"
    /\ changes < MaxChange
    /\ photos \/ albums
    /\ changes' = changes + 1
    /\ IF photos
       THEN /\ phAssets' = Shown(L)
            /\ FetchPhotoModels(Shown(L))
            /\ unsynced' = TRUE
       ELSE UNCHANGED <<phAssets, models, gen, unsynced>>
    /\ albumLib' = IF albums THEN L ELSE albumLib
    /\ UNCHANGED <<phase, opts, listed, flagged, disabled, selected, nextOn, hostShown>>

Next ==
    \/ \E L \in Library : GetAllPhotos(L)
    \/ AccessRejected
    \/ \E a \in Asset : CellSelect(a)
    \/ \E a \in Asset : CellUnselect(a)
    \/ TitleViewClick
    \/ \E photos \in SUBSET Asset : AlbumClick(photos)
    \/ AlbumListDismiss
    \/ \E L \in Library, photos, albums \in BOOLEAN :
          PhotoLibraryDidChange(L, photos, albums)

Spec == Init /\ [][Next]_vars
-----------------------------------------------------------------------------
\* The variables have their types (the declarations of the view controller),
\* and what the library, the grid and the album list show passes the predicate
\* of the media type, on whatever way it was fetched.
TypeOK ==
    /\ phase \in {"asking", "denied", "ready"}
    /\ opts \in OptionRecord
    /\ phAssets \subseteq Asset /\ albumLib \subseteq Asset /\ models \subseteq Asset
    /\ listed \subseteq SUBSET Asset
    /\ gen \in Nat /\ changes \in Nat
    /\ flagged \subseteq Object /\ disabled \subseteq Object
    /\ selected \in Seq(Object)
    /\ nextOn \in BOOLEAN /\ hostShown \in BOOLEAN /\ unsynced \in BOOLEAN
    /\ phAssets \cup models \cup UNION listed \subseteq Shown(Asset)

\* The picks never exceed maxCountOfImage images and maxCountOfVideo videos,
\* whatever taps, album changes and library changes happen: updateSelectedCell
\* counts selectedModels itself, so models that forgot they are picked do no harm.
CapRespected ==
    /\ Count(selected, ImageObjects) <= opts.maxImage
    /\ Count(selected, VideoObjects) <= opts.maxVideo

\* In imageOrVideo mode all picks have one type, as HEMediaType.imageOrVideo
\* says ("only one type may be selected").
OneMediaType ==
    opts.mediaType = "imageOrVideo" =>
        \A i, j \in DOMAIN selected : IsVideo(selected[i]) = IsVideo(selected[j])

\* No asset is picked twice.
PickedOnce ==
    \A i, j \in DOMAIN selected : i # j => selected[i].id # selected[j].id

\* As long as the library has not changed under the picker, the disabled cells
\* keep the picks to one type in imageOrVideo mode and the marks keep an asset
\* from being picked twice, through any number of album changes.
SoundUntilChange == changes = 0 => OneMediaType /\ PickedOnce

\* Whenever updateUI has run since the models were last fetched, the cells show
\* the picks: a cell is checked iff its asset is picked and, in imageOrVideo
\* mode, disabled iff picking it would exceed the total cap or mix the types.
CellsInSync ==
    ~unsynced =>
        \A o \in Items :
            /\ o \in flagged <=> Contains(selected, SameId(o.id))
            /\ o \in disabled <=>
                  /\ opts.mediaType = "imageOrVideo"
                  /\ selected # <<>>
                  /\ o \notin flagged
                  /\ \/ Len(selected) >= opts.maxImage + opts.maxVideo
                     \/ IsVideo(o) # IsVideo(selected[1])

\* A checked cell is never disabled, so what the user picked he can always
\* unpick: setCellState skips the items that are selected.
PickedCellsEnabled == flagged \cap disabled = {}

\* rightBtn is enabled exactly while something is picked.
NextFollows == phase = "ready" => (nextOn <=> selected # <<>>)

\* In video mode with one video, as sVideoRecordingVc uses the picker, the
\* host's own next button is shown exactly while a video is picked in the picker.
HostFollows ==
    phase = "ready" /\ opts.mediaType = "video" /\ opts.maxVideo = 1 =>
        /\ hostShown => selected # <<>>
        /\ selected # <<>> /\ selected[1].gen > 0 => hostShown
=============================================================================
