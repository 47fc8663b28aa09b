-------------------------- MODULE PhotoPickerProofs --------------------------
(***************************************************************************)
(* What the picker promises for every library, every option record and any *)
(* number of fetches and library changes.                                  *)
(***************************************************************************)
EXTENDS PhotoPicker, SelectionsProofs

\* What photosOptions lets through is part of what was fetched.
LEMMA ShownSubset ==
    ASSUME NEW T \in SUBSET Asset
    PROVE  Shown(T) \subseteq Asset
BY DEF Shown

\* The predicate of the fetches stays, and lets through more of a larger fetch.
LEMMA ShownFacts ==
    /\ \A S, T : S \subseteq T => Shown(S) \subseteq Shown(T)
    /\ opts' = opts => \A T : Shown(T)' = Shown(T)
BY DEF Shown

\* The objects made by a fetch.
LEMMA FetchedObjects ==
    ASSUME NEW T \in SUBSET Asset, NEW g \in Nat
    PROVE  {[id |-> a, gen |-> g] : a \in T} \subseteq Object
BY DEF Object

\* setCellState only touches the objects it is given.
LEMMA CellStateTypes ==
    ASSUME NEW items \in SUBSET Object, NEW sel, NEW marks \in SUBSET Object,
           NEW off \in SUBSET Object
    PROVE  /\ SetCellSelected(items, sel, marks) \subseteq Object
           /\ SetCellEnable(items, sel, marks, off) \subseteq Object
<1>1. SetCellSelected(items, sel, marks) \subseteq Object
  BY DEF SetCellSelected
<1>2. SetCellEnable(items, sel, marks, off) \subseteq Object
  <2>1. SetCellEnable(items, sel, marks, off) \subseteq off \cup items
    BY DEF SetCellEnable
  <2> QED
    BY <2>1
<1> QED
  BY <1>1, <1>2

\* updateUI leaves sets of objects behind.
LEMMA UpdateUITypes ==
    ASSUME TypeOK, NEW items \in SUBSET Object, NEW sel,
           UpdateUI(items, sel, flagged, disabled)
    PROVE  /\ flagged' \subseteq Object /\ disabled' \subseteq Object
           /\ nextOn' \in BOOLEAN /\ unsynced' \in BOOLEAN
<1>1. flagged \in SUBSET Object /\ disabled \in SUBSET Object
  BY DEF TypeOK
<1>2. SetCellSelected(items, sel, flagged) \in SUBSET Object
  BY <1>1, CellStateTypes
<1>3. flagged' \subseteq Object /\ disabled' \subseteq Object
  BY <1>1, <1>2, CellStateTypes DEF UpdateUI
<1>4. nextOn' \in BOOLEAN /\ unsynced' \in BOOLEAN
  BY Zenon DEF UpdateUI
<1> QED
  BY <1>3, <1>4

\* configPickerOption leaves an option record, with caps that are naturals.
LEMMA ConfigTypes ==
    ASSUME NEW o \in OptionRecord
    PROVE  ConfigPickerOption(o) \in OptionRecord
BY DEF ConfigPickerOption, OptionRecord, MediaTypes

\* viewDidLoad leaves well-typed state.
LEMMA TypeInit == Init => TypeOK
<1> SUFFICES ASSUME Init PROVE TypeOK
  OBVIOUS
<1>1. PICK o \in Options, s \in Defaults : opts = ConfigPickerOption(o) /\ selected = s
  BY DEF Init
<1>2. opts \in OptionRecord
  BY <1>1, OptionsAssumption, ConfigTypes
<1>3. selected \in Seq(Object)
  <2>1. selected \in Seq({d \in Object : d.gen = 0})
    BY <1>1, DefaultsAssumption
  <2>2. {d \in Object : d.gen = 0} \subseteq Object
    OBVIOUS
  <2> QED
    BY <2>1, <2>2, SeqMonotonic, Zenon
<1> QED
  BY <1>2, <1>3 DEF Init, TypeOK
-----------------------------------------------------------------------------
\* A tap on a check button.
LEMMA TapTypes ==
    ASSUME TypeOK, NEW a \in Asset, CellSelect(a) \/ CellUnselect(a)
    PROVE  TypeOK'
<1> DEFINE o == [id |-> a, gen |-> gen]
<1>1. /\ o \in Object /\ Items \in SUBSET Object
      /\ flagged \in SUBSET Object /\ disabled \in SUBSET Object
  <2>1. gen \in Nat /\ models \in SUBSET Asset
    BY DEF TypeOK
  <2>2. o \in Object
    BY <2>1 DEF Object
  <2>3. Items \in SUBSET Object
    BY <2>1, FetchedObjects DEF Items
  <2> QED
    BY <2>2, <2>3 DEF TypeOK
<1>2. /\ UNCHANGED <<phase, opts, phAssets, albumLib, listed, models, gen, changes, unsynced>>
      /\ Shown(Asset)' = Shown(Asset)
  BY ShownFacts DEF CellSelect, CellUnselect
<1>3. hostShown' \in BOOLEAN
  BY Zenon DEF CellSelect, CellUnselect
<1>4. ASSUME NEW sel \in Seq(Object), NEW marks \in SUBSET Object,
             UpdateSelectedCell(a, sel, marks)
      PROVE  /\ selected' \in Seq(Object) /\ flagged' \subseteq Object
             /\ disabled' \subseteq Object /\ nextOn' \in BOOLEAN
  <2>1. nextOn' \in BOOLEAN
    BY <1>4, Zenon DEF UpdateSelectedCell
  <2>2. selected' = sel /\ flagged' = marks
    BY <1>4 DEF UpdateSelectedCell
  <2>3. disabled' \subseteq Object
    BY <1>1, <1>4, CellStateTypes DEF UpdateSelectedCell
  <2> QED
    BY <2>1, <2>2, <2>3
<1>5. /\ selected' \in Seq(Object) /\ flagged' \subseteq Object
      /\ disabled' \subseteq Object /\ nextOn' \in BOOLEAN
  <2>1. selected \in Seq(Object)
    BY DEF TypeOK
  <2>2. CASE CellSelect(a) /\ Count(selected, KindOf(a)) < CapOf(a)
    <3>1. Append(selected, o) \in Seq(Object) /\ flagged \cup {o} \in SUBSET Object
      BY <1>1, <2>1, AppendProperties
    <3>2. UpdateSelectedCell(a, Append(selected, o), flagged \cup {o})
      BY <2>2 DEF CellSelect
    <3> QED
      BY <1>4, <3>1, <3>2
  <2>3. CASE CellSelect(a) /\ ~(Count(selected, KindOf(a)) < CapOf(a))
    BY <2>3 DEF CellSelect, TypeOK
  <2>4. CASE CellUnselect(a)
    <3>1. RemoveAll(selected, SameId(a)) \in Seq(Object) /\ flagged \ {o} \in SUBSET Object
      BY <1>1, <2>1, RemoveAllFacts
    <3>2. UpdateSelectedCell(a, RemoveAll(selected, SameId(a)), flagged \ {o})
      BY <2>4 DEF CellUnselect
    <3> QED
      BY <1>4, <3>1, <3>2
  <2> QED
    BY <2>2, <2>3, <2>4
<1> QED
  BY <1>2, <1>3, <1>5 DEF TypeOK

\* Every callback of the picker keeps the types.
LEMMA TypeStep == TypeOK /\ [Next]_vars => TypeOK'
<1> SUFFICES ASSUME TypeOK, [Next]_vars PROVE TypeOK'
  OBVIOUS
<1>0. gen \in Nat /\ gen + 1 \in Nat
  BY DEF TypeOK
<1>9. Shown(Asset)' = Shown(Asset)
  <2>1. opts' = opts
    BY DEF Next, GetAllPhotos, AccessRejected, CellSelect, CellUnselect, TitleViewClick,
           AlbumClick, AlbumListDismiss, PhotoLibraryDidChange, vars
  <2> QED
    BY <2>1, ShownFacts
<1>1. ASSUME NEW L \in Library, GetAllPhotos(L)
      PROVE  TypeOK'
  <2>1. L \in SUBSET Asset /\ Shown(L) \in SUBSET Asset /\ Shown(L) \subseteq Shown(Asset)
    BY AssetAssumption, ShownSubset, ShownFacts
  <2>2. {[id |-> a, gen |-> gen + 1] : a \in Shown(L)} \in SUBSET Object
    BY <1>0, <2>1, FetchedObjects
  <2>3. /\ flagged' \subseteq Object /\ disabled' \subseteq Object
        /\ nextOn' \in BOOLEAN /\ unsynced' \in BOOLEAN
    <3>1. CASE selected # <<>>
      BY <1>1, <2>2, <3>1, UpdateUITypes DEF GetAllPhotos
    <3>2. CASE selected = <<>>
      <4>1. nextOn' \in BOOLEAN
        BY <1>1, <3>2, Zenon DEF GetAllPhotos
      <4> QED
        BY <1>1, <3>2, <4>1 DEF GetAllPhotos, TypeOK
    <3> QED
      BY <3>1, <3>2
  <2>4. /\ phase' = "ready" /\ phAssets' = Shown(L) /\ albumLib' = L
        /\ models' = Shown(L) /\ gen' = gen + 1
        /\ UNCHANGED <<opts, listed, selected, hostShown, changes>>
    BY <1>1 DEF GetAllPhotos, FetchPhotoModels
  <2> QED
    BY <1>0, <1>9, <2>1, <2>3, <2>4 DEF TypeOK
<1>2. CASE AccessRejected
  BY <1>2, <1>9 DEF AccessRejected, TypeOK
<1>3. ASSUME NEW a \in Asset, CellSelect(a) \/ CellUnselect(a)
      PROVE  TypeOK'
  BY <1>3, TapTypes
<1>4. CASE TitleViewClick
  <2>1. \A p \in listed' : p \subseteq Asset /\ p \subseteq Shown(Asset)
    BY <1>4 DEF TitleViewClick, TypeOK, Shown
  <2>2. listed' \subseteq SUBSET Asset /\ UNION listed' \subseteq Shown(Asset)
    BY <2>1
  <2>3. UNCHANGED <<phase, opts, phAssets, albumLib, models, gen, flagged,
                    disabled, selected, nextOn, hostShown, changes, unsynced>>
    BY <1>4 DEF TitleViewClick
  <2>4. phAssets' \cup models' \cup UNION listed' \subseteq Shown(Asset)
    BY <2>2, <2>3 DEF TypeOK
  <2> QED
    BY <1>9, <2>2, <2>3, <2>4 DEF TypeOK
<1>5. ASSUME NEW photos \in SUBSET Asset, AlbumClick(photos)
      PROVE  TypeOK'
  <2>1. {[id |-> a, gen |-> gen + 1] : a \in photos} \in SUBSET Object
    BY <1>0, FetchedObjects
  <2>2. /\ flagged' \subseteq Object /\ disabled' \subseteq Object
        /\ nextOn' \in BOOLEAN /\ unsynced' \in BOOLEAN
    BY <1>5, <2>1, UpdateUITypes DEF AlbumClick
  <2> QED
    BY <1>0, <1>5, <1>9, <2>2 DEF AlbumClick, FetchPhotoModels, TypeOK
<1>6. CASE AlbumListDismiss
  BY <1>6, <1>9 DEF AlbumListDismiss, TypeOK
<1>7. ASSUME NEW L \in Library, NEW p \in BOOLEAN, NEW b \in BOOLEAN,
             PhotoLibraryDidChange(L, p, b)
      PROVE  TypeOK'
  <2>1. L \in SUBSET Asset /\ Shown(L) \in SUBSET Asset /\ Shown(L) \subseteq Shown(Asset)
    BY AssetAssumption, ShownSubset, ShownFacts
  <2>2. /\ phAssets' \subseteq Asset /\ models' \subseteq Asset /\ gen' \in Nat
        /\ phAssets' \cup models' \subseteq Shown(Asset)
    BY <1>0, <1>7, <2>1 DEF PhotoLibraryDidChange, FetchPhotoModels, TypeOK
  <2>3. unsynced' \in BOOLEAN
    BY <1>7, Zenon DEF PhotoLibraryDidChange, TypeOK
  <2>4. albumLib' \subseteq Asset /\ changes' \in Nat
    BY <1>7, <2>1 DEF PhotoLibraryDidChange, TypeOK
  <2>5. UNCHANGED <<phase, opts, listed, flagged, disabled, selected, nextOn, hostShown>>
    BY <1>7 DEF PhotoLibraryDidChange
  <2> QED
    BY <1>9, <2>2, <2>3, <2>4, <2>5 DEF TypeOK
<1>8. CASE UNCHANGED vars
  BY <1>8, <1>9 DEF vars, TypeOK
<1> QED
  BY <1>1, <1>2, <1>3, <1>4, <1>5, <1>6, <1>7, <1>8 DEF Next

\* Every reachable state of the picker is well typed, for any library.
THEOREM TypeCorrect == Spec => []TypeOK
BY TypeInit, TypeStep, PTL DEF Spec
-----------------------------------------------------------------------------
(* The caps.  CapRespected is inductive as it stands, because the guard of  *)
(* updateSelectedCell counts the list it appends to.                        *)

\* The host's default selections are within the caps.
LEMMA CapInit == Init => CapRespected
BY DEF Init, Returned, CapRespected

\* An accepted pick of asset a raises the count of its own type only.
LEMMA PickWithinCap ==
    ASSUME TypeOK, CapRespected, NEW a \in Asset, NEW o \in Object, o.id = a,
           Count(selected, KindOf(a)) < CapOf(a),
           selected' = Append(selected, o), opts' = opts
    PROVE  CapRespected'
<1>1. selected \in Seq(Object)
  BY DEF TypeOK
<1>2. /\ Count(selected, ImageObjects) \in Nat /\ Count(selected, VideoObjects) \in Nat
      /\ opts.maxImage \in Nat /\ opts.maxVideo \in Nat
  BY <1>1, PlacesFinite DEF TypeOK, OptionRecord
<1>3. /\ Count(selected', ImageObjects)
            = Count(selected, ImageObjects) + (IF o \in ImageObjects THEN 1 ELSE 0)
      /\ Count(selected', VideoObjects)
            = Count(selected, VideoObjects) + (IF o \in VideoObjects THEN 1 ELSE 0)
  BY <1>1, CountAppend
<1>4. CASE a \in Video
  <2>1. o \in VideoObjects /\ o \notin ImageObjects
    BY <1>4 DEF VideoObjects, ImageObjects
  <2>2. Count(selected, VideoObjects) < opts.maxVideo
    BY <1>4 DEF KindOf, CapOf
  <2>3. /\ Count(selected', ImageObjects) = Count(selected, ImageObjects)
        /\ Count(selected', VideoObjects) = Count(selected, VideoObjects) + 1
    BY <1>2, <1>3, <2>1
  <2> QED
    BY <1>2, <2>2, <2>3 DEF CapRespected
<1>5. CASE a \notin Video
  <2>1. o \in ImageObjects /\ o \notin VideoObjects
    BY <1>5 DEF VideoObjects, ImageObjects
  <2>2. Count(selected, ImageObjects) < opts.maxImage
    BY <1>5 DEF KindOf, CapOf
  <2>3. /\ Count(selected', VideoObjects) = Count(selected, VideoObjects)
        /\ Count(selected', ImageObjects) = Count(selected, ImageObjects) + 1
    BY <1>2, <1>3, <2>1
  <2> QED
    BY <1>2, <2>2, <2>3 DEF CapRespected
<1> QED
  BY <1>4, <1>5

\* removeAll on the picks cannot break a cap.
LEMMA UnpickWithinCap ==
    ASSUME TypeOK, CapRespected, NEW V,
           selected' = RemoveAll(selected, V), opts' = opts
    PROVE  CapRespected'
<1>1. selected \in Seq(Object)
  BY DEF TypeOK
<1>2. /\ Count(selected, ImageObjects) \in Nat /\ Count(selected, VideoObjects) \in Nat
      /\ opts.maxImage \in Nat /\ opts.maxVideo \in Nat
  BY <1>1, PlacesFinite DEF TypeOK, OptionRecord
<1>3. selected' \in Seq(Object)
  BY <1>1, RemoveAllFacts
<1>4. Count(selected', ImageObjects) \in Nat /\ Count(selected', VideoObjects) \in Nat
  BY <1>3, PlacesFinite
<1>5. /\ Count(selected', ImageObjects) <= Count(selected, ImageObjects)
      /\ Count(selected', VideoObjects) <= Count(selected, VideoObjects)
  BY <1>1, CountRemoveAll
<1> QED
  BY <1>2, <1>4, <1>5 DEF CapRespected

\* No callback of the picker lets the picks exceed a cap.
LEMMA CapStep == TypeOK /\ CapRespected /\ [Next]_vars => CapRespected'
<1> SUFFICES ASSUME TypeOK, CapRespected, [Next]_vars PROVE CapRespected'
  OBVIOUS
<1>1. ASSUME NEW a \in Asset, CellSelect(a)
      PROVE  CapRespected'
  <2> DEFINE o == [id |-> a, gen |-> gen]
  <2>1. o \in Object /\ o.id = a
    BY DEF TypeOK, Object
  <2>2. CASE Count(selected, KindOf(a)) < CapOf(a)
    <3>1. selected' = Append(selected, o) /\ opts' = opts
      BY <1>1, <2>2 DEF CellSelect, UpdateSelectedCell
    <3> QED
      BY <2>1, <2>2, <3>1, PickWithinCap
  <2>3. CASE ~(Count(selected, KindOf(a)) < CapOf(a))
    <3>1. selected' = selected /\ opts' = opts
      BY <1>1, <2>3 DEF CellSelect
    <3> QED
      BY <3>1 DEF CapRespected, ImageObjects, VideoObjects
  <2> QED
    BY <2>2, <2>3
<1>2. ASSUME NEW a \in Asset, CellUnselect(a)
      PROVE  CapRespected'
  <2>1. selected' = RemoveAll(selected, SameId(a)) /\ opts' = opts
    BY <1>2 DEF CellUnselect, UpdateSelectedCell
  <2> QED
    BY <2>1, UnpickWithinCap
<1>3. ASSUME UNCHANGED <<selected, opts>>
      PROVE  CapRespected'
  BY <1>3 DEF CapRespected, ImageObjects, VideoObjects
<1>4. ASSUME NEW L \in Library, GetAllPhotos(L)
      PROVE  CapRespected'
  BY <1>3, <1>4 DEF GetAllPhotos
<1>5. CASE AccessRejected \/ TitleViewClick \/ AlbumListDismiss \/ UNCHANGED vars
  BY <1>3, <1>5 DEF AccessRejected, TitleViewClick, AlbumListDismiss, vars
<1>6. ASSUME NEW photos \in SUBSET Asset, AlbumClick(photos)
      PROVE  CapRespected'
  BY <1>3, <1>6 DEF AlbumClick
<1>7. ASSUME NEW L \in Library, NEW p \in BOOLEAN, NEW b \in BOOLEAN,
             PhotoLibraryDidChange(L, p, b)
      PROVE  CapRespected'
  BY <1>3, <1>7 DEF PhotoLibraryDidChange
<1> QED
  BY <1>1, <1>2, <1>4, <1>5, <1>6, <1>7 DEF Next

\* The picker alone never holds more images or videos than its options allow,
\* for any caps, any library and any number of library changes.
THEOREM CapsAlwaysRespected == Spec => []CapRespected
<1>1. Init => TypeOK /\ CapRespected
  BY TypeInit, CapInit
<1>2. TypeOK /\ CapRespected /\ [Next]_vars => (TypeOK /\ CapRespected)'
  BY TypeStep, CapStep
<1> QED
  BY <1>1, <1>2, PTL DEF Spec
-----------------------------------------------------------------------------
(* Checked cells stay enabled.  A fetch must not hand out an object that is *)
(* already disabled, so the generations have to be bounded by gen.          *)

EnabledInv ==
    /\ PickedCellsEnabled
    /\ \A o \in disabled : o.gen <= gen

\* setCellState disables no object that is marked afterwards, provided none of
\* the marked ones was disabled before.
LEMMA EnableSparesMarks ==
    ASSUME NEW items, NEW sel, NEW marks, NEW off, marks \cap off = {}
    PROVE  /\ marks \cap SetCellEnable(items, sel, marks, off) = {}
           /\ SetCellEnable(items, sel, marks, off) \subseteq off \cup items
<1> DEFINE free   == items \ marks
           closed == {o \in free : \/ Len(sel) >= opts.maxImage + opts.maxVideo
                                   \/ IsVideo(o) # IsVideo(sel[1])}
<1>1. SetCellEnable(items, sel, marks, off) \in {off, off \ items, (off \ free) \cup closed}
  BY DEF SetCellEnable
<1>2. closed \subseteq free
  OBVIOUS
<1> HIDE DEF closed
<1> QED
  BY <1>1, <1>2

\* updateUI on the objects of a new fetch.
LEMMA UpdateUIEnabled ==
    ASSUME TypeOK, EnabledInv, NEW T \in SUBSET Asset, NEW sel,
           UpdateUI({[id |-> a, gen |-> gen + 1] : a \in T}, sel, flagged, disabled),
           gen' = gen + 1
    PROVE  EnabledInv'
<1> DEFINE items == {[id |-> a, gen |-> gen + 1] : a \in T}
           marks == SetCellSelected(items, sel, flagged)
<1>1. gen \in Nat /\ \A o \in disabled : o.gen <= gen /\ o.gen \in Nat
  BY DEF TypeOK, EnabledInv, Object
<1>2. \A o \in items : o.gen = gen + 1
  OBVIOUS
<1>3. items \cap disabled = {}
  BY <1>1, <1>2
<1>4. marks \subseteq flagged \cup items
  BY DEF SetCellSelected
<1>5. marks \cap disabled = {}
  BY <1>3, <1>4 DEF EnabledInv, PickedCellsEnabled
<1>6. flagged' = marks /\ disabled' = SetCellEnable(items, sel, marks, disabled)
  BY DEF UpdateUI
<1> HIDE DEF items, marks
<1>7. flagged' \cap disabled' = {} /\ disabled' \subseteq disabled \cup items
  BY <1>5, <1>6, EnableSparesMarks
<1>8. \A o \in disabled' : o.gen <= gen'
  BY <1>1, <1>2, <1>7
<1> QED
  BY <1>7, <1>8 DEF EnabledInv, PickedCellsEnabled

\* No callback of the picker disables a checked cell.
LEMMA EnabledStep == TypeOK /\ EnabledInv /\ [Next]_vars => EnabledInv'
<1> SUFFICES ASSUME TypeOK, EnabledInv, [Next]_vars PROVE EnabledInv'
  OBVIOUS
<1>1. gen \in Nat /\ \A o \in disabled : o.gen <= gen /\ o.gen \in Nat
  BY DEF TypeOK, EnabledInv, Object
<1>2. ASSUME UNCHANGED <<flagged, disabled>>, gen' \in {gen, gen + 1}
      PROVE  EnabledInv'
  <2>1. \A o \in disabled' : o.gen <= gen'
    BY <1>1, <1>2
  <2> QED
    BY <1>2, <2>1 DEF EnabledInv, PickedCellsEnabled
<1>3. ASSUME NEW a, NEW sel, NEW marks, UpdateSelectedCell(a, sel, marks),
             marks \cap disabled = {}, gen' = gen
      PROVE  EnabledInv'
  <2>1. flagged' = marks /\ disabled' = SetCellEnable(Items, sel, marks, disabled)
    BY <1>3 DEF UpdateSelectedCell
  <2>2. flagged' \cap disabled' = {} /\ disabled' \subseteq disabled \cup Items
    BY <1>3, <2>1, EnableSparesMarks
  <2>3. \A o \in Items : o.gen = gen
    BY DEF Items
  <2>4. \A o \in disabled' : o.gen <= gen'
    BY <1>1, <1>3, <2>2, <2>3
  <2> QED
    BY <2>2, <2>4 DEF EnabledInv, PickedCellsEnabled
<1>4. ASSUME NEW a \in Asset, CellSelect(a)
      PROVE  EnabledInv'
  <2> DEFINE o == [id |-> a, gen |-> gen]
  <2>1. o \notin disabled /\ gen' = gen
    BY <1>4 DEF CellSelect, CanTap
  <2>2. (flagged \cup {o}) \cap disabled = {}
    BY <2>1 DEF EnabledInv, PickedCellsEnabled
  <2>3. CASE Count(selected, KindOf(a)) < CapOf(a)
    <3>1. UpdateSelectedCell(a, Append(selected, o), flagged \cup {o})
      BY <1>4, <2>3 DEF CellSelect
    <3> QED
      BY <1>3, <2>1, <2>2, <3>1
  <2>4. CASE ~(Count(selected, KindOf(a)) < CapOf(a))
    BY <1>2, <1>4, <2>1, <2>4 DEF CellSelect
  <2> QED
    BY <2>3, <2>4
<1>5. ASSUME NEW a \in Asset, CellUnselect(a)
      PROVE  EnabledInv'
  <2> DEFINE o == [id |-> a, gen |-> gen]
  <2>1. (flagged \ {o}) \cap disabled = {} /\ gen' = gen
    BY <1>5 DEF EnabledInv, PickedCellsEnabled, CellUnselect
  <2>2. UpdateSelectedCell(a, RemoveAll(selected, SameId(a)), flagged \ {o})
    BY <1>5 DEF CellUnselect
  <2> QED
    BY <1>3, <2>1, <2>2
<1>6. ASSUME NEW L \in Library, GetAllPhotos(L)
      PROVE  EnabledInv'
  <2>1. Shown(L) \in SUBSET Asset /\ gen' = gen + 1
    BY <1>6, AssetAssumption, ShownSubset DEF GetAllPhotos, FetchPhotoModels
  <2>2. CASE selected # <<>>
    BY <1>6, <2>1, <2>2, UpdateUIEnabled DEF GetAllPhotos
  <2>3. CASE selected = <<>>
    BY <1>2, <1>6, <2>1, <2>3 DEF GetAllPhotos
  <2> QED
    BY <2>2, <2>3
<1>7. ASSUME NEW photos \in SUBSET Asset, AlbumClick(photos)
      PROVE  EnabledInv'
  BY <1>7, UpdateUIEnabled DEF AlbumClick, FetchPhotoModels
<1>8. CASE AccessRejected \/ TitleViewClick \/ AlbumListDismiss \/ UNCHANGED vars
  BY <1>2, <1>8 DEF AccessRejected, TitleViewClick, AlbumListDismiss, vars
<1>9. ASSUME NEW L \in Library, NEW p \in BOOLEAN, NEW b \in BOOLEAN,
             PhotoLibraryDidChange(L, p, b)
      PROVE  EnabledInv'
  BY <1>2, <1>9 DEF PhotoLibraryDidChange, FetchPhotoModels
<1> QED
  BY <1>4, <1>5, <1>6, <1>7, <1>8, <1>9 DEF Next

\* A checked cell is never disabled: whatever the user picked in a cell he can
\* unpick there.
THEOREM PickedCellsAlwaysEnabled == Spec => []PickedCellsEnabled
<1>1. Init => TypeOK /\ EnabledInv
  BY TypeInit DEF Init, EnabledInv, PickedCellsEnabled
<1>2. TypeOK /\ EnabledInv /\ [Next]_vars => (TypeOK /\ EnabledInv)'
  BY TypeStep, EnabledStep
<1>3. EnabledInv => PickedCellsEnabled
  BY DEF EnabledInv
<1> QED
  BY <1>1, <1>2, <1>3, PTL DEF Spec
-----------------------------------------------------------------------------
(* Cells, picks and buttons.  The marks have to be known beyond the cells   *)
(* that are in sync: a mark is never newer than the models, and a marked    *)
(* cell's asset is picked even after a library change.                      *)

SyncedCells ==
    \A o \in Items :
        /\ o \in flagged <=> Contains(selected, SameId(o.id))
        /\ o \in disabled <=>
              /\ opts.mediaType = "imageOrVideo"
              /\ selected # <<>>
              /\ o \notin flagged
              /\ \/ Len(selected) >= opts.maxImage + opts.maxVideo
                 \/ IsVideo(o) # IsVideo(selected[1])

MarksInv ==
    /\ \A o \in flagged : o.gen <= gen
    /\ \A o \in Items : o \in flagged => Contains(selected, SameId(o.id))

\* setCellState puts the items in sync with the picks, provided that the marks
\* are right and none of the marked ones was disabled.
LEMMA EnableIsRight ==
    ASSUME NEW items, NEW sel, NEW marks, NEW off, marks \cap off = {},
           opts.mediaType # "imageOrVideo" => items \cap off = {}
    PROVE  \A o \in items :
              o \in SetCellEnable(items, sel, marks, off) <=>
                 /\ opts.mediaType = "imageOrVideo"
                 /\ sel # <<>>
                 /\ o \notin marks
                 /\ \/ Len(sel) >= opts.maxImage + opts.maxVideo
                    \/ IsVideo(o) # IsVideo(sel[1])
<1> DEFINE free   == items \ marks
           closed == {o \in free : \/ Len(sel) >= opts.maxImage + opts.maxVideo
                                   \/ IsVideo(o) # IsVideo(sel[1])}
<1>1. SetCellEnable(items, sel, marks, off) =
         IF opts.mediaType # "imageOrVideo" THEN off
         ELSE IF sel = <<>> THEN off \ items
         ELSE (off \ free) \cup closed
  BY DEF SetCellEnable
<1>2. CASE opts.mediaType # "imageOrVideo"
  BY <1>1, <1>2
<1>3. CASE opts.mediaType = "imageOrVideo" /\ sel = <<>>
  BY <1>1, <1>3
<1>4. CASE opts.mediaType = "imageOrVideo" /\ sel # <<>>
  <2>1. SetCellEnable(items, sel, marks, off) = (off \ free) \cup closed
    BY <1>1, <1>4
  <2>2. \A o \in items : o \in free <=> o \notin marks
    OBVIOUS
  <2>3. \A o \in items : o \in marks => o \notin off
    OBVIOUS
  <2> QED
    BY <1>4, <2>1, <2>2, <2>3
<1> QED
  BY <1>2, <1>3, <1>4

\* The objects of a fetch are new: neither marked nor disabled.
LEMMA FreshObjects ==
    ASSUME TypeOK, EnabledInv, MarksInv, NEW T
    PROVE  \A o \in {[id |-> a, gen |-> gen + 1] : a \in T} : o \notin flagged /\ o \notin disabled
<1>1. /\ gen \in Nat /\ \A o \in disabled : o.gen <= gen /\ o.gen \in Nat
      /\ \A o \in flagged : o.gen <= gen /\ o.gen \in Nat
  BY DEF TypeOK, EnabledInv, MarksInv, Object
<1>2. \A o \in {[id |-> a, gen |-> gen + 1] : a \in T} : o.gen = gen + 1
  OBVIOUS
<1> QED
  BY <1>1, <1>2

\* updateUI after a fetch puts the cells in sync, whatever they were before.
LEMMA SyncedByUpdateUI ==
    ASSUME TypeOK, EnabledInv, MarksInv, NEW T \in SUBSET Asset,
           UpdateUI({[id |-> a, gen |-> gen + 1] : a \in T}, selected, flagged, disabled),
           models' = T, gen' = gen + 1, selected' = selected, opts' = opts
    PROVE  SyncedCells' /\ MarksInv' /\ ~unsynced' /\ (nextOn' <=> selected' # <<>>)
<1> DEFINE items == {[id |-> a, gen |-> gen + 1] : a \in T}
           marks == SetCellSelected(items, selected, flagged)
<1>1. \A o \in items : o \notin flagged /\ o \notin disabled /\ o.gen = gen + 1
  BY FreshObjects
<1>2. /\ flagged' = marks /\ disabled' = SetCellEnable(items, selected, marks, disabled)
      /\ ~unsynced' /\ (nextOn' <=> selected # <<>>)
  BY DEF UpdateUI
<1>3. Items' = items
  BY DEF Items
<1>4. /\ \A o \in items : o \in marks <=> Contains(selected, SameId(o.id))
      /\ marks \subseteq flagged \cup items
  BY <1>1 DEF SetCellSelected
<1> HIDE DEF items, marks
<1>5. marks \cap disabled = {} /\ items \cap disabled = {}
  BY <1>1, <1>4 DEF EnabledInv, PickedCellsEnabled
<1>6. \A o \in items :
         o \in disabled' <=>
            /\ opts.mediaType = "imageOrVideo"
            /\ selected # <<>>
            /\ o \notin marks
            /\ \/ Len(selected) >= opts.maxImage + opts.maxVideo
               \/ IsVideo(o) # IsVideo(selected[1])
  BY <1>2, <1>5, EnableIsRight
<1>7. SyncedCells'
  BY <1>2, <1>3, <1>4, <1>6 DEF SyncedCells, SameId, IsVideo
<1>8. MarksInv'
  <2>1. gen \in Nat /\ \A o \in flagged : o.gen <= gen /\ o.gen \in Nat
    BY DEF TypeOK, MarksInv, Object
  <2>2. \A o \in marks : o.gen <= gen + 1
    BY <1>1, <1>4, <2>1
  <2> QED
    BY <1>2, <1>3, <1>4, <2>2 DEF MarksInv, SameId
<1> QED
  BY <1>2, <1>7, <1>8

\* The object of a cell, and what a comparison of identifiers matches.
LEMMA CellFacts ==
    ASSUME TypeOK, NEW a \in models
    PROVE  /\ [id |-> a, gen |-> gen] \in Items /\ [id |-> a, gen |-> gen] \in Object
           /\ [id |-> a, gen |-> gen] \in SameId(a) /\ a \in Asset
           /\ \A o \in Items : o \in Object /\ o.gen = gen /\ (o.id = a <=> o = [id |-> a, gen |-> gen])
BY DEF TypeOK, Items, Object, SameId

\* An accepted pick or an unpick keeps cells that are in sync in sync, and the
\* marks right in any case.
LEMMA SyncedByTap ==
    ASSUME TypeOK, EnabledInv, MarksInv, NEW a \in models, NEW sel \in Seq(Object), NEW marks,
           UpdateSelectedCell(a, sel, marks), UNCHANGED <<opts, models, gen>>,
           LET o == [id |-> a, gen |-> gen]
           IN  \/ sel = Append(selected, o) /\ marks = flagged \cup {o} /\ o \notin disabled
               \/ sel = RemoveAll(selected, SameId(a)) /\ marks = flagged \ {o}
    PROVE  /\ SyncedCells => SyncedCells'
           /\ MarksInv'
           /\ nextOn' <=> selected' # <<>>
<1> DEFINE o == [id |-> a, gen |-> gen]
<1>0. selected \in Seq(Object) /\ gen \in Nat
  BY DEF TypeOK
<1>1. /\ selected' = sel /\ flagged' = marks /\ (nextOn' <=> sel # <<>>)
      /\ disabled' = SetCellEnable(Items, sel, marks, disabled)
  BY DEF UpdateSelectedCell
<1>2. Items' = Items
  BY DEF Items
<1>3. /\ o \in Items /\ o \in Object /\ a \in Asset
      /\ \A x \in Items : x \in Object /\ x.gen = gen /\ (x.id = a <=> x = o)
  BY CellFacts
<1>4. \A x \in Object : o \in SameId(x.id) <=> x.id = a
  BY <1>3 DEF SameId
<1>5. \A x \in Object : x.id # a => SameId(x.id) \cap SameId(a) = {}
  BY DEF SameId
<1>6. marks \cap disabled = {} /\ \A x \in marks : x.gen <= gen
  BY <1>0 DEF EnabledInv, PickedCellsEnabled, MarksInv
<1>7. \/ /\ \A x \in Items : x \in marks <=> x \in flagged \/ x = o
         /\ \A x \in Items : Contains(sel, SameId(x.id)) <=> Contains(selected, SameId(x.id)) \/ x = o
      \/ /\ \A x \in Items : x \in marks <=> x \in flagged /\ x # o
         /\ \A x \in Items : Contains(sel, SameId(x.id)) <=> Contains(selected, SameId(x.id)) /\ x # o
  <2>1. CASE sel = Append(selected, o) /\ marks = flagged \cup {o}
    <3>1. \A x \in Items : Contains(sel, SameId(x.id)) <=> Contains(selected, SameId(x.id)) \/ o \in SameId(x.id)
      BY <1>0, <1>3, <2>1, ContainsAppend
    <3> QED
      BY <1>3, <1>4, <2>1, <3>1
  <2>2. CASE sel = RemoveAll(selected, SameId(a)) /\ marks = flagged \ {o}
    <3>1. ~Contains(sel, SameId(a))
      BY <1>0, <2>2, RemoveAllElements
    <3>2. \A x \in Items : x # o => (Contains(sel, SameId(x.id)) <=> Contains(selected, SameId(x.id)))
      BY <1>0, <1>3, <1>5, <2>2, RemoveAllElements
    <3>3. \A x \in Items : x = o => ~Contains(sel, SameId(x.id))
      BY <1>3, <3>1
    <3> QED
      BY <2>2, <3>2, <3>3
  <2> QED
    BY <2>1, <2>2
<1>8. MarksInv'
  BY <1>1, <1>2, <1>6, <1>7 DEF MarksInv, SameId
<1>9. ASSUME SyncedCells PROVE SyncedCells'
  <2>1. opts.mediaType # "imageOrVideo" => Items \cap disabled = {}
    BY <1>9 DEF SyncedCells
  <2>2. \A x \in Items :
           x \in disabled' <=>
              /\ opts.mediaType = "imageOrVideo"
              /\ sel # <<>>
              /\ x \notin marks
              /\ \/ Len(sel) >= opts.maxImage + opts.maxVideo
                 \/ IsVideo(x) # IsVideo(sel[1])
    BY <1>1, <1>6, <2>1, EnableIsRight
  <2>3. \A x \in Items : x \in marks <=> Contains(sel, SameId(x.id))
    BY <1>7, <1>9 DEF SyncedCells
  <2> QED
    BY <1>1, <1>2, <2>2, <2>3 DEF SyncedCells, SameId, IsVideo
<1> QED
  BY <1>1, <1>8, <1>9

\* A fetch without updateUI: the new objects are not marked, so the marks stay
\* right; with no pick at all the cells are in sync as they are.
LEMMA SyncedByFetch ==
    ASSUME TypeOK, EnabledInv, MarksInv, NEW T \in SUBSET Asset,
           models' = T, gen' = gen + 1, UNCHANGED <<flagged, disabled, selected, opts>>
    PROVE  MarksInv' /\ (selected = <<>> => SyncedCells')
<1>1. Items' = {[id |-> a, gen |-> gen + 1] : a \in T}
  BY DEF Items
<1>2. \A o \in Items' : o \notin flagged' /\ o \notin disabled'
  BY <1>1, FreshObjects
<1>3. MarksInv'
  <2>1. gen \in Nat /\ \A o \in flagged : o.gen <= gen /\ o.gen \in Nat
    BY DEF TypeOK, MarksInv, Object
  <2>2. \A o \in flagged' : o.gen <= gen'
    BY <2>1
  <2> QED
    BY <1>2, <2>2 DEF MarksInv
<1>4. ASSUME selected = <<>> PROVE SyncedCells'
  <2>1. \A W : ~Contains(selected, W)
    BY <1>4 DEF Contains, Places
  <2> QED
    BY <1>2, <1>4, <2>1 DEF SyncedCells
<1> QED
  BY <1>3, <1>4

\* A pick of an asset that is not picked yet, and of the type of the others.
LEMMA SoundByPick ==
    ASSUME selected \in Seq(Object), OneMediaType, PickedOnce, NEW o \in Object,
           ~Contains(selected, SameId(o.id)),
           opts.mediaType = "imageOrVideo" /\ selected # <<>> => IsVideo(o) = IsVideo(selected[1]),
           selected' = Append(selected, o), opts' = opts
    PROVE  OneMediaType' /\ PickedOnce'
<1>1. /\ Len(selected) \in Nat /\ DOMAIN selected = 1..Len(selected)
      /\ \A i \in DOMAIN selected : selected[i] \in Object
  BY LenProperties, ElementOfSeq
<1>2. /\ DOMAIN selected' = 1..(Len(selected) + 1)
      /\ \A i \in 1..Len(selected) : selected'[i] = selected[i]
      /\ selected'[Len(selected) + 1] = o
  BY AppendProperties, LenProperties
<1>3. \A i \in DOMAIN selected' : i \in DOMAIN selected \/ i = Len(selected) + 1
  BY <1>1, <1>2
<1>4. \A i \in DOMAIN selected : selected[i].id # o.id
  BY <1>1 DEF Contains, Places, SameId
<1>5. PickedOnce'
  BY <1>1, <1>2, <1>3, <1>4 DEF PickedOnce
<1>6. ASSUME opts.mediaType = "imageOrVideo", NEW i \in DOMAIN selected'
      PROVE  IsVideo(selected'[i]) = IsVideo(o)
  <2>1. CASE i \in DOMAIN selected
    <3>1. selected # <<>> /\ 1 \in DOMAIN selected
      BY <1>1, <2>1
    <3> QED
      BY <1>1, <1>2, <1>6, <2>1, <3>1 DEF OneMediaType
  <2>2. CASE i = Len(selected) + 1
    BY <1>2, <2>2
  <2> QED
    BY <1>3, <2>1, <2>2
<1>7. OneMediaType'
  BY <1>6 DEF OneMediaType, IsVideo
<1> QED
  BY <1>5, <1>7

\* removeAll takes nothing away from either rule.
LEMMA SoundByUnpick ==
    ASSUME selected \in Seq(Object), OneMediaType, PickedOnce, NEW V,
           selected' = RemoveAll(selected, V), opts' = opts
    PROVE  OneMediaType' /\ PickedOnce'
<1>1. /\ \A j \in DOMAIN selected' : \E p \in DOMAIN selected : selected'[j] = selected[p]
      /\ \A j, k \in DOMAIN selected' : j # k =>
            \E p, q \in DOMAIN selected : p # q /\ selected'[j] = selected[p] /\ selected'[k] = selected[q]
  BY RemoveAllElements
<1>2. PickedOnce'
  BY <1>1 DEF PickedOnce
<1>3. OneMediaType'
  BY <1>1 DEF OneMediaType, IsVideo
<1> QED
  BY <1>2, <1>3

\* What the cells and the picks need of each other.
SyncInv ==
    /\ TypeOK /\ CapRespected /\ EnabledInv /\ MarksInv
    /\ (~unsynced => SyncedCells)
    /\ (changes = 0 => ~unsynced) /\ SoundUntilChange

\* A tap on a check button.
LEMMA SyncByTap ==
    ASSUME SyncInv, NEW a \in Asset, CellSelect(a) \/ CellUnselect(a)
    PROVE  /\ MarksInv' /\ (~unsynced' => SyncedCells')
           /\ (changes' = 0 => ~unsynced') /\ SoundUntilChange'
<1> DEFINE o == [id |-> a, gen |-> gen]
<1>0. TypeOK /\ selected \in Seq(Object) /\ EnabledInv /\ MarksInv
  BY DEF SyncInv, TypeOK
<1>1. /\ a \in models /\ o \notin disabled
      /\ UNCHANGED <<opts, models, gen, changes, unsynced>>
  BY DEF CellSelect, CellUnselect, CanTap
<1>2. o \in Items /\ o \in Object
  BY <1>0, <1>1, CellFacts
<1>3. changes' = 0 => ~unsynced'
  BY <1>1 DEF SyncInv
<1>4. CASE CellSelect(a) /\ Count(selected, KindOf(a)) < CapOf(a)
  <2>1. UpdateSelectedCell(a, Append(selected, o), flagged \cup {o}) /\ o \notin flagged
    BY <1>4 DEF CellSelect
  <2>2. Append(selected, o) \in Seq(Object)
    BY <1>0, <1>2, AppendProperties
  <2>3. (SyncedCells => SyncedCells') /\ MarksInv'
    BY <1>0, <1>1, <2>1, <2>2, SyncedByTap
  <2>4. ASSUME changes' = 0 PROVE OneMediaType' /\ PickedOnce'
    <3>1. SyncedCells /\ OneMediaType /\ PickedOnce
      BY <1>1, <2>4 DEF SyncInv, SoundUntilChange
    <3>2. ~Contains(selected, SameId(o.id))
      BY <1>2, <2>1, <3>1 DEF SyncedCells
    <3>3. opts.mediaType = "imageOrVideo" /\ selected # <<>> => IsVideo(o) = IsVideo(selected[1])
      BY <1>1, <1>2, <2>1, <3>1 DEF SyncedCells
    <3>4. selected' = Append(selected, o)
      BY <2>1 DEF UpdateSelectedCell
    <3> HIDE DEF o
    <3> QED
      BY <1>0, <1>1, <1>2, <3>1, <3>2, <3>3, <3>4, SoundByPick
  <2> QED
    BY <1>1, <1>3, <2>3, <2>4 DEF SyncInv, SoundUntilChange
<1>5. CASE CellSelect(a) /\ ~(Count(selected, KindOf(a)) < CapOf(a))
  <2>1. UNCHANGED <<selected, flagged, disabled>>
    BY <1>5 DEF CellSelect
  <2>2. MarksInv' /\ (SyncedCells => SyncedCells')
    BY <1>0, <1>1, <2>1 DEF MarksInv, SyncedCells, Items, SameId, IsVideo
  <2>3. SoundUntilChange'
    BY <1>1, <2>1 DEF SyncInv, SoundUntilChange, OneMediaType, PickedOnce, IsVideo
  <2> QED
    BY <1>1, <1>3, <2>2, <2>3 DEF SyncInv
<1>6. CASE CellUnselect(a)
  <2>1. UpdateSelectedCell(a, RemoveAll(selected, SameId(a)), flagged \ {o})
    BY <1>6 DEF CellUnselect
  <2>2. RemoveAll(selected, SameId(a)) \in Seq(Object)
    BY <1>0, RemoveAllFacts
  <2>3. (SyncedCells => SyncedCells') /\ MarksInv'
    BY <1>0, <1>1, <2>1, <2>2, SyncedByTap
  <2>4. ASSUME changes' = 0 PROVE OneMediaType' /\ PickedOnce'
    <3>1. OneMediaType /\ PickedOnce
      BY <1>1, <2>4 DEF SyncInv, SoundUntilChange
    <3>2. selected' = RemoveAll(selected, SameId(a))
      BY <2>1 DEF UpdateSelectedCell
    <3> QED
      BY <1>0, <1>1, <3>1, <3>2, SoundByUnpick
  <2> QED
    BY <1>1, <1>3, <2>3, <2>4 DEF SyncInv, SoundUntilChange
<1> QED
  BY <1>4, <1>5, <1>6

\* Every callback keeps the cells and the picks in step.
LEMMA SyncStep == SyncInv /\ [Next]_vars => SyncInv'
<1> SUFFICES ASSUME SyncInv, [Next]_vars PROVE SyncInv'
  OBVIOUS
<1>0. TypeOK /\ CapRespected /\ EnabledInv /\ MarksInv /\ changes \in Nat
  BY DEF SyncInv, TypeOK
<1>1. TypeOK' /\ CapRespected' /\ EnabledInv'
  BY <1>0, TypeStep, CapStep, EnabledStep
<1> SUFFICES /\ MarksInv' /\ (~unsynced' => SyncedCells')
             /\ (changes' = 0 => ~unsynced') /\ SoundUntilChange'
  BY <1>1 DEF SyncInv
<1>2. ASSUME UNCHANGED <<selected, opts, changes>>
      PROVE  SoundUntilChange'
  BY <1>2 DEF SyncInv, SoundUntilChange, OneMediaType, PickedOnce, IsVideo
<1>3. ASSUME UNCHANGED <<models, gen, flagged, disabled, selected, opts>>
      PROVE  MarksInv' /\ (SyncedCells => SyncedCells')
  BY <1>0, <1>3 DEF MarksInv, SyncedCells, Items, SameId, IsVideo
<1>4. ASSUME NEW L \in Library, GetAllPhotos(L)
      PROVE  /\ MarksInv' /\ (~unsynced' => SyncedCells')
             /\ (changes' = 0 => ~unsynced') /\ SoundUntilChange'
  <2>1. /\ Shown(L) \in SUBSET Asset /\ models' = Shown(L) /\ gen' = gen + 1
        /\ UNCHANGED <<opts, selected, changes>>
    BY <1>4, AssetAssumption, ShownSubset DEF GetAllPhotos, FetchPhotoModels
  <2>2. CASE selected # <<>>
    <3>1. UpdateUI({[id |-> a, gen |-> gen + 1] : a \in Shown(L)}, selected, flagged, disabled)
      BY <1>4, <2>2 DEF GetAllPhotos
    <3>2. SyncedCells' /\ MarksInv' /\ ~unsynced'
      BY <1>0, <2>1, <3>1, SyncedByUpdateUI
    <3> QED
      BY <1>2, <2>1, <3>2
  <2>3. CASE selected = <<>>
    <3>1. UNCHANGED <<flagged, disabled, unsynced>>
      BY <1>4, <2>3 DEF GetAllPhotos
    <3>2. MarksInv' /\ SyncedCells'
      BY <1>0, <2>1, <2>3, <3>1, SyncedByFetch
    <3> QED
      BY <1>2, <2>1, <3>1, <3>2 DEF SyncInv
  <2> QED
    BY <2>2, <2>3
<1>5. CASE AccessRejected \/ TitleViewClick \/ AlbumListDismiss \/ UNCHANGED vars
  <2>1. UNCHANGED <<models, gen, flagged, disabled, selected, opts, changes, unsynced>>
    BY <1>5 DEF AccessRejected, TitleViewClick, AlbumListDismiss, vars
  <2> QED
    BY <1>2, <1>3, <2>1 DEF SyncInv
<1>6. ASSUME NEW a \in Asset, CellSelect(a) \/ CellUnselect(a)
      PROVE  /\ MarksInv' /\ (~unsynced' => SyncedCells')
             /\ (changes' = 0 => ~unsynced') /\ SoundUntilChange'
  BY <1>6, SyncByTap
<1>7. ASSUME NEW photos \in SUBSET Asset, AlbumClick(photos)
      PROVE  /\ MarksInv' /\ (~unsynced' => SyncedCells')
             /\ (changes' = 0 => ~unsynced') /\ SoundUntilChange'
  <2>1. /\ models' = photos /\ gen' = gen + 1 /\ UNCHANGED <<opts, selected, changes>>
        /\ UpdateUI({[id |-> a, gen |-> gen + 1] : a \in photos}, selected, flagged, disabled)
    BY <1>7 DEF AlbumClick, FetchPhotoModels
  <2>2. SyncedCells' /\ MarksInv' /\ ~unsynced'
    BY <1>0, <2>1, SyncedByUpdateUI
  <2> QED
    BY <1>2, <2>1, <2>2
<1>8. ASSUME NEW L \in Library, NEW p \in BOOLEAN, NEW b \in BOOLEAN,
             PhotoLibraryDidChange(L, p, b)
      PROVE  /\ MarksInv' /\ (~unsynced' => SyncedCells')
             /\ (changes' = 0 => ~unsynced') /\ SoundUntilChange'
  <2>1. UNCHANGED <<flagged, disabled, selected, opts>> /\ changes' # 0
    BY <1>0, <1>8 DEF PhotoLibraryDidChange
  <2>2. CASE p
    <3>1. Shown(L) \in SUBSET Asset /\ models' = Shown(L) /\ gen' = gen + 1 /\ unsynced'
      BY <1>8, <2>2, AssetAssumption, ShownSubset DEF PhotoLibraryDidChange, FetchPhotoModels
    <3>2. MarksInv'
      BY <1>0, <2>1, <3>1, SyncedByFetch
    <3> QED
      BY <2>1, <3>1, <3>2 DEF SoundUntilChange
  <2>3. CASE ~p
    <3>1. UNCHANGED <<models, gen, unsynced>>
      BY <1>8, <2>3 DEF PhotoLibraryDidChange
    <3> QED
      BY <1>3, <2>1, <3>1 DEF SyncInv, SoundUntilChange
  <2> QED
    BY <2>2, <2>3
<1> QED
  BY <1>4, <1>5, <1>6, <1>7, <1>8 DEF Next

\* viewDidLoad starts with an empty grid and with picks an earlier use returned.
LEMMA SyncInit == Init => SyncInv
<1> SUFFICES ASSUME Init PROVE SyncInv
  OBVIOUS
<1>1. TypeOK /\ CapRespected
  BY TypeInit, CapInit
<1>2. Items = {} /\ flagged = {} /\ disabled = {} /\ ~unsynced
  BY DEF Init, Items
<1>3. EnabledInv /\ MarksInv /\ SyncedCells
  BY <1>2 DEF EnabledInv, PickedCellsEnabled, MarksInv, SyncedCells
<1>4. OneMediaType /\ PickedOnce
  BY DEF Init, Returned, OneMediaType, PickedOnce
<1> QED
  BY <1>1, <1>2, <1>3, <1>4 DEF SyncInv, SoundUntilChange

\* Whenever updateUI has run since the last fetch, every cell shows exactly
\* whether its asset is picked and whether it may be: for any library, any
\* caps and any sequence of taps, album changes and library changes.
THEOREM CellsAlwaysInSync == Spec => []CellsInSync
<1>1. SyncInv => CellsInSync
  BY DEF SyncInv, CellsInSync, SyncedCells
<1> QED
  BY <1>1, SyncInit, SyncStep, PTL DEF Spec

\* Until the library changes under the picker, its cells alone keep the picks
\* to one type in imageOrVideo mode and keep an asset from being picked twice.
THEOREM AlwaysSoundUntilChange == Spec => []SoundUntilChange
<1>1. SyncInv => SoundUntilChange
  BY DEF SyncInv
<1> QED
  BY <1>1, SyncInit, SyncStep, PTL DEF Spec
-----------------------------------------------------------------------------
(* The next buttons, for the composition with the browser.  The host's     *)
(* button follows the taps, not the picks, so with one video allowed the    *)
(* picks must be known to be at most one.                                   *)

\* In video mode no image can be picked; before the answer to
\* requestAuthorization nothing has happened.
VideoModeInv ==
    /\ opts.mediaType = "video" => opts.maxImage = 0
    /\ phase = "asking" => ~hostShown /\ \A i \in DOMAIN selected : selected[i].gen = 0

\* Without images and with one video allowed there is at most one pick.
LEMMA AtMostOneVideo ==
    ASSUME TypeOK, CapRespected, opts.maxImage = 0, opts.maxVideo = 1
    PROVE  Len(selected) <= 1
<1>1. /\ selected \in Seq(Object) /\ Len(selected) \in Nat /\ DOMAIN selected = 1..Len(selected)
      /\ \A i \in DOMAIN selected : selected[i] \in Object
  BY LenProperties, ElementOfSeq DEF TypeOK
<1>2. /\ IsFiniteSet(Places(selected, ImageObjects)) /\ Count(selected, ImageObjects) \in Nat
      /\ Count(selected, VideoObjects) \in Nat
  BY <1>1, PlacesFinite
<1>3. Count(selected, ImageObjects) = 0
  BY <1>2 DEF CapRespected
<1>4. Places(selected, ImageObjects) = {}
  BY <1>2, <1>3, FS_EmptySet DEF Count
<1>5. Places(selected, VideoObjects) = 1..Len(selected)
  BY <1>1, <1>4 DEF Places, ImageObjects, VideoObjects
<1>6. Count(selected, VideoObjects) = Len(selected)
  BY <1>1, <1>5, FS_Interval DEF Count
<1> QED
  BY <1>1, <1>6 DEF CapRespected

\* Unpicking the only pick leaves none.
LEMMA LastUnpick ==
    ASSUME selected \in Seq(Object), Len(selected) <= 1, NEW V, Contains(selected, V)
    PROVE  RemoveAll(selected, V) = <<>>
<1> DEFINE r == RemoveAll(selected, V)
<1>1. Len(selected) \in Nat /\ DOMAIN selected = 1..Len(selected)
  BY LenProperties
<1>2. /\ ~Contains(r, V) /\ r \in Seq(Object)
      /\ \A j \in DOMAIN r : \E p \in DOMAIN selected : r[j] = selected[p]
  <2>1. r \in Seq(Object)
    BY RemoveAllFacts
  <2>2. /\ ~Contains(r, V)
        /\ \A j \in DOMAIN r : \E p \in DOMAIN selected : r[j] = selected[p]
    BY RemoveAllElements
  <2> QED
    BY <2>1, <2>2
<1>3. \A p \in DOMAIN selected : selected[p] \in V
  <2>1. \A p, q \in DOMAIN selected : p = q
    BY <1>1
  <2> QED
    BY <2>1 DEF Contains, Places
<1> HIDE DEF r
<1>4. DOMAIN r = {}
  BY <1>2, <1>3 DEF Contains, Places
<1>5. r = <<>>
  <2>1. Len(r) \in Nat /\ DOMAIN r = 1..Len(r)
    BY <1>2, LenProperties
  <2>2. Len(r) = 0
    BY <1>4, <2>1
  <2> QED
    BY <1>2, <2>2, EmptySeq
<1> QED
  BY <1>5 DEF r

\* configPickerOption allows no image in video mode.
LEMMA VideoModeInit == Init => VideoModeInv
<1> SUFFICES ASSUME Init PROVE VideoModeInv
  OBVIOUS
<1>1. PICK o \in Options, s \in Defaults : opts = ConfigPickerOption(o) /\ selected = s
  BY DEF Init
<1>2. o \in OptionRecord /\ s \in Seq({d \in Object : d.gen = 0})
  BY OptionsAssumption, DefaultsAssumption
<1>3. opts.mediaType = "video" => opts.maxImage = 0
  BY <1>1, <1>2 DEF ConfigPickerOption, OptionRecord
<1>4. \A i \in DOMAIN selected : selected[i].gen = 0
  <2>1. \A i \in 1..Len(selected) : selected[i] \in {d \in Object : d.gen = 0}
    BY <1>1, <1>2, ElementOfSeq
  <2> QED
    BY <1>1, <1>2, <2>1, LenProperties
<1> QED
  BY <1>3, <1>4 DEF Init, VideoModeInv

\* No callback changes the options, and the first one ends the asking.
LEMMA VideoModeStep == VideoModeInv /\ [Next]_vars => VideoModeInv'
<1> SUFFICES ASSUME VideoModeInv, [Next]_vars PROVE VideoModeInv'
  OBVIOUS
<1>1. opts' = opts /\ (phase' = "asking" => phase = "asking" /\ UNCHANGED <<hostShown, selected>>)
  BY DEF Next, GetAllPhotos, AccessRejected, CellSelect, CellUnselect, CanTap, TitleViewClick,
         AlbumClick, AlbumListDismiss, PhotoLibraryDidChange, vars
<1> QED
  BY <1>1 DEF VideoModeInv

\* A tap on a cell sets the host's button right: a rejected pick finds a pick
\* already there, and an unpick takes the only one.
LEMMA HostByTap ==
    ASSUME SyncInv, VideoModeInv, NEW a \in Asset, CellSelect(a) \/ CellUnselect(a)
    PROVE  HostFollows'
<1> DEFINE o == [id |-> a, gen |-> gen]
<1>0. /\ TypeOK /\ CapRespected /\ MarksInv /\ selected \in Seq(Object)
      /\ a \in models /\ opts' = opts
  BY DEF SyncInv, TypeOK, CellSelect, CellUnselect, CanTap
<1> SUFFICES ASSUME opts.mediaType = "video", opts.maxVideo = 1
             PROVE  /\ hostShown' => selected' # <<>>
                    /\ selected' # <<>> => hostShown'
  BY <1>0 DEF HostFollows
<1>1. a \in Video /\ Len(selected) <= 1
  <2>1. opts.maxImage = 0 /\ a \in Video
    BY <1>0 DEF VideoModeInv, TypeOK, Shown
  <2> QED
    BY <1>0, <2>1, AtMostOneVideo
<1>2. o \in Items /\ o \in Object
  BY <1>0, CellFacts
<1>3. CASE CellSelect(a) /\ Count(selected, KindOf(a)) < CapOf(a)
  <2>1. hostShown' /\ selected' = Append(selected, o)
    BY <1>3 DEF CellSelect, UpdateSelectedCell
  <2>2. Append(selected, o) # <<>>
    BY <1>0, <1>2, AppendProperties
  <2> QED
    BY <2>1, <2>2
<1>4. CASE CellSelect(a) /\ ~(Count(selected, KindOf(a)) < CapOf(a))
  <2>1. hostShown' /\ selected' = selected
    BY <1>4 DEF CellSelect
  <2>2. selected # <<>>
    <3> SUFFICES ASSUME selected = <<>> PROVE FALSE
      OBVIOUS
    <3>1. KindOf(a) = VideoObjects /\ CapOf(a) = 1
      BY <1>1 DEF KindOf, CapOf
    <3>2. Places(selected, VideoObjects) = {}
      BY DEF Places
    <3>3. Count(selected, VideoObjects) = 0
      BY <3>2, FS_EmptySet DEF Count
    <3> QED
      BY <1>4, <3>1, <3>3
  <2> QED
    BY <2>1, <2>2
<1>5. CASE CellUnselect(a)
  <2>1. ~hostShown' /\ selected' = RemoveAll(selected, SameId(a)) /\ o \in flagged
    BY <1>5 DEF CellUnselect, UpdateSelectedCell
  <2>2. Contains(selected, SameId(o.id)) /\ o.id = a
    BY <1>0, <1>2, <2>1 DEF MarksInv
  <2>3. RemoveAll(selected, SameId(a)) = <<>>
    BY <1>0, <1>1, <2>2, LastUnpick
  <2> QED
    BY <2>1, <2>3
<1> QED
  BY <1>3, <1>4, <1>5

\* Every callback of the picker other than a tap on a cell leaves the host's
\* button and the picks as they are.
LEMMA HostByOther ==
    ASSUME TypeOK, VideoModeInv, HostFollows, [Next]_vars,
           ~ \E a \in Asset : CellSelect(a) \/ CellUnselect(a)
    PROVE  HostFollows'
<1>1. ASSUME NEW L \in Library, GetAllPhotos(L) PROVE HostFollows'
  <2>1. ~hostShown /\ \A i \in DOMAIN selected : selected[i].gen = 0
    BY <1>1 DEF GetAllPhotos, VideoModeInv
  <2>2. selected # <<>> => selected[1].gen = 0
    <3>1. selected \in Seq(Object)
      BY DEF TypeOK
    <3>2. selected # <<>> => 1 \in DOMAIN selected
      BY <3>1
    <3> QED
      BY <2>1, <3>2
  <2>3. UNCHANGED <<selected, hostShown>>
    BY <1>1 DEF GetAllPhotos
  <2> QED
    BY <2>1, <2>2, <2>3 DEF HostFollows
<1>2. CASE AccessRejected
  BY <1>2 DEF AccessRejected, HostFollows
<1>3. ASSUME UNCHANGED <<phase, opts, selected, hostShown>> PROVE HostFollows'
  BY <1>3 DEF HostFollows
<1>4. CASE TitleViewClick \/ AlbumListDismiss \/ UNCHANGED vars
  BY <1>3, <1>4 DEF TitleViewClick, AlbumListDismiss, vars
<1>5. ASSUME NEW photos \in SUBSET Asset, AlbumClick(photos) PROVE HostFollows'
  BY <1>3, <1>5 DEF AlbumClick
<1>6. ASSUME NEW L \in Library, NEW p \in BOOLEAN, NEW b \in BOOLEAN,
             PhotoLibraryDidChange(L, p, b)
      PROVE  HostFollows'
  BY <1>3, <1>6 DEF PhotoLibraryDidChange
<1> QED
  BY <1>1, <1>2, <1>4, <1>5, <1>6 DEF Next

\* Every callback of the picker leaves rightBtn in agreement with the picks.
LEMMA NextByPicker == NextFollows /\ [Next]_vars => NextFollows'
<1> SUFFICES ASSUME NextFollows, [Next]_vars PROVE NextFollows'
  OBVIOUS
<1>1. ASSUME phase' = phase, UNCHANGED selected, nextOn' = nextOn \/ (nextOn' <=> selected # <<>>)
      PROVE  NextFollows'
  BY <1>1 DEF NextFollows
<1>2. ASSUME NEW L \in Library, GetAllPhotos(L) PROVE NextFollows'
  BY <1>2 DEF GetAllPhotos, UpdateUI, NextFollows
<1>3. CASE AccessRejected
  BY <1>3 DEF AccessRejected, NextFollows
<1>4. CASE TitleViewClick \/ AlbumListDismiss \/ UNCHANGED vars
  BY <1>1, <1>4 DEF TitleViewClick, AlbumListDismiss, vars
<1>5. ASSUME NEW a \in Asset, CellSelect(a) \/ CellUnselect(a) PROVE NextFollows'
  BY <1>5 DEF CellSelect, CellUnselect, CanTap, UpdateSelectedCell, NextFollows
<1>6. ASSUME NEW photos \in SUBSET Asset, AlbumClick(photos) PROVE NextFollows'
  BY <1>1, <1>6 DEF AlbumClick, UpdateUI
<1>7. ASSUME NEW L \in Library, NEW p \in BOOLEAN, NEW b \in BOOLEAN,
             PhotoLibraryDidChange(L, p, b)
      PROVE  NextFollows'
  BY <1>1, <1>7 DEF PhotoLibraryDidChange
<1> QED
  BY <1>2, <1>3, <1>4, <1>5, <1>6, <1>7 DEF Next
=============================================================================
