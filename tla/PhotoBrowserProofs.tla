------------------------- MODULE PhotoBrowserProofs -------------------------
(***************************************************************************)
(* What the browser and the picker promise together, for every library,    *)
(* every option record and any number of pages, taps and library changes.  *)
(*                                                                         *)
(* The picker's own invariant, SyncInv, is kept by the picker's touches    *)
(* (SyncStep); here it is shown to survive the taps in the browser as long *)
(* as neither the library changed nor the two controllers drifted apart.   *)
(***************************************************************************)
EXTENDS PhotoBrowser, PhotoPickerProofs

\* What was fetched is finite.
FiniteInv ==
    /\ IsFiniteSet(phAssets) /\ IsFiniteSet(albumLib)
    /\ IsFiniteSet(models) /\ IsFiniteSet(bModels)
    /\ \A p \in listed : IsFiniteSet(p)

\* Until the library changes, the grid and the albums show parts of phAssets;
\* no album list is open before getAllPhotos.
FetchInv ==
    /\ changes = 0 => /\ phAssets = Shown(albumLib)
                      /\ models \subseteq phAssets
                      /\ \A p \in listed : p \subseteq phAssets
    /\ phase = "asking" => listed = {}

\* The browser's copy is never newer than the picker's models, and the same
\* while it is as new.
CopyInv ==
    browsing => /\ bGen <= gen
                /\ bGen = gen => bModels = models
                /\ changes = 0 => bGen = gen

\* The two lists hold the same assets in the same order.
SameAssets ==
    /\ Len(selected) = Len(bSelected)
    /\ \A i \in DOMAIN selected : selected[i].id = bSelected[i].id

\* A page at rest whose button can be tapped has the type of the picks.
PageMayBePicked ==
    settled /\ ~btnHidden /\ opts.mediaType = "imageOrVideo" /\ selected # <<>>
        => (page \in Video <=> IsVideo(selected[1]))

DriftInv ==
    changes = 0 /\ ~drifted =>
        /\ SyncInv
        /\ browsing => /\ SameAssets /\ PageMayBePicked
                       /\ settled => (btnOn <=> Contains(bSelected, SameId(page)))

\* The next buttons: rightBtn always, the host's as long as a tap on a cell sets
\* it right.  Until a page is picked the picker is as sound as it is alone.
HostInv ==
    /\ VideoModeInv /\ ButtonsAgree
    /\ browsing => phase = "ready"
    /\ inBrowser = "never" => SyncInv

BrowserInv ==
    /\ BTypeOK /\ FiniteInv /\ FetchInv /\ CopyInv
    /\ NoCrashUntilChange /\ ListsAgree /\ DriftInv /\ HostInv
-----------------------------------------------------------------------------
\* The steps of the picker inside the composition are steps of the picker.
LEMMA PickerSteps ==
    ASSUME \/ PickerTouch
           \/ /\ \E L \in Library, photos, albums \in BOOLEAN : PhotoLibraryDidChange(L, photos, albums)
              /\ UNCHANGED inBrowser
    PROVE  /\ Next
           /\ inBrowser' \in {inBrowser, "never", "before"}
           /\ inBrowser' = "never" \/ inBrowser = "never" => inBrowser' = inBrowser
<1>1. Next
  BY Zenon DEF PickerTouch, CellTap, Next
<1>2. inBrowser' = inBrowser \/ inBrowser' = IF inBrowser = "never" THEN "never" ELSE "before"
  BY Zenon DEF PickerTouch
<1> QED
  BY <1>1, <1>2

\* The index that the browser hands to a closer names an object of the picker,
\* and the page's own object while the two share their objects.
LEMMA TapObject ==
    ASSUME BTypeOK, FiniteInv, CopyInv, browsing, Rank(bModels, page) <= Cardinality(models)
    PROVE  /\ Rank(bModels, page) \in 1..Cardinality(models)
           /\ Nth(models, Rank(bModels, page)) \in models
           /\ page \in bModels /\ page \in Asset
           /\ bGen = gen => Nth(models, Rank(bModels, page)) = page
<1>1. /\ page \in bModels /\ page \in Asset /\ bModels \in SUBSET Int /\ models \in SUBSET Int
      /\ IsFiniteSet(bModels) /\ IsFiniteSet(models)
  BY AssetAssumption DEF BTypeOK, TypeOK, FiniteInv
<1>2. Rank(bModels, page) \in 1..Cardinality(bModels)
  BY <1>1, RankRange
<1>3. Cardinality(models) \in Nat /\ Cardinality(bModels) \in Nat
  BY <1>1, FS_CardinalityType
<1>4. Rank(bModels, page) \in 1..Cardinality(models)
  BY <1>2, <1>3
<1>5. Nth(models, Rank(bModels, page)) \in models
  BY <1>1, <1>4, NthFacts
<1>6. ASSUME bGen = gen PROVE Nth(models, Rank(bModels, page)) = page
  <2>1. bModels = models
    BY <1>6 DEF CopyInv
  <2> QED
    BY <1>1, <2>1, NthOfRank
<1> QED
  BY <1>1, <1>4, <1>5, <1>6

\* A tap on the check button of a page.
LEMMA BTypesByTap ==
    ASSUME BTypeOK, FiniteInv, CopyInv, SelectedBtnClick
    PROVE  BTypeOK'
<1> DEFINE i == Rank(bModels, page)
           b == BObject(page)
           o == [id |-> Nth(models, i), gen |-> gen]
<1>0. /\ TypeOK /\ gen \in Nat /\ bGen \in Nat /\ models \in SUBSET Asset
      /\ flagged \in SUBSET Object /\ disabled \in SUBSET Object
      /\ selected \in Seq(Object) /\ bSelected \in Seq(Object)
  BY DEF BTypeOK, TypeOK
<1>1. UNCHANGED <<browsing, bModels, bGen, page, btnHidden, settled>>
  BY DEF SelectedBtnClick
<1>2. drifted' \in BOOLEAN /\ inBrowser' = "last"
  BY Zenon DEF SelectedBtnClick
<1>3. CASE i > Cardinality(models)
  <2>1. crashed' = TRUE /\ UNCHANGED <<vars, bSelected, btnOn>>
    BY <1>3 DEF SelectedBtnClick
  <2>2. TypeOK'
    BY <1>0, <2>1, TypeStep
  <2> QED
    BY <1>1, <1>2, <2>1, <2>2 DEF BTypeOK
<1>4. CASE ~(i > Cardinality(models))
  <2>1. browsing /\ i <= Cardinality(models)
    <3>1. page \in bModels /\ bModels \in SUBSET Int /\ IsFiniteSet(bModels) /\ IsFiniteSet(models)
      BY AssetAssumption DEF SelectedBtnClick, BTypeOK, FiniteInv
    <3>2. i \in 1..Cardinality(bModels) /\ Cardinality(models) \in Nat /\ Cardinality(bModels) \in Nat
      BY <3>1, RankRange, FS_CardinalityType
    <3> QED
      BY <1>4, <3>2 DEF SelectedBtnClick
  <2>2. o \in Object /\ b \in Object /\ Items \in SUBSET Object
    <3>1. Nth(models, i) \in models /\ page \in Asset
      BY <2>1, TapObject
    <3>2. o \in Object /\ b \in Object
      BY <1>0, <3>1 DEF Object, BObject
    <3>3. Items \in SUBSET Object
      BY <1>0, FetchedObjects DEF Items
    <3> QED
      BY <3>2, <3>3
  <2>3. /\ btnOn' = ~btnOn
        /\ UNCHANGED <<phase, opts, phAssets, albumLib, listed, models, gen, hostShown, changes, crashed>>
        /\ \/ UnSelectedCloser(i, flagged \ {b}) /\ bSelected' = RemoveAll(bSelected, SameId(page))
           \/ SelectedCloser(i, flagged \cup {b}) /\ bSelected' = Append(bSelected, b)
    BY <1>4 DEF SelectedBtnClick
  <2> HIDE DEF i, o, b
  <2>4. ASSUME NEW sel \in Seq(Object), NEW marks \in SUBSET Object,
               selected' = sel, UpdateUI(Items, sel, marks, disabled)
        PROVE  TypeOK'
    <3>1. SetCellSelected(Items, sel, marks) \in SUBSET Object
      BY <2>2, <2>4, CellStateTypes
    <3>2. flagged' \subseteq Object /\ disabled' \subseteq Object
      BY <1>0, <2>2, <2>4, <3>1, CellStateTypes DEF UpdateUI
    <3>3. nextOn' \in BOOLEAN /\ unsynced' \in BOOLEAN
      BY <2>4, Zenon DEF UpdateUI
    <3>4. Shown(Asset)' = Shown(Asset)
      BY <2>3, ShownFacts
    <3> QED
      BY <1>0, <2>3, <2>4, <3>2, <3>3, <3>4 DEF TypeOK
  <2>5. TypeOK' /\ bSelected' \in Seq(Object)
    <3>1. CASE UnSelectedCloser(i, flagged \ {b}) /\ bSelected' = RemoveAll(bSelected, SameId(page))
      <4>1. RemoveAll(selected, {o}) \in Seq(Object) /\ RemoveAll(bSelected, SameId(page)) \in Seq(Object)
        BY <1>0, RemoveAllFacts
      <4>2. selected' = RemoveAll(selected, {o})
            /\ UpdateUI(Items, RemoveAll(selected, {o}), (flagged \ {b}) \ {o}, disabled)
        BY <3>1 DEF UnSelectedCloser, o
      <4> QED
        BY <1>0, <2>4, <3>1, <4>1, <4>2
    <3>2. CASE SelectedCloser(i, flagged \cup {b}) /\ bSelected' = Append(bSelected, b)
      <4>1. Append(selected, o) \in Seq(Object) /\ Append(bSelected, b) \in Seq(Object)
        BY <1>0, <2>2, AppendProperties
      <4>2. selected' = Append(selected, o)
            /\ UpdateUI(Items, Append(selected, o), (flagged \cup {b}) \cup {o}, disabled)
        BY <3>2 DEF SelectedCloser, o
      <4>3. (flagged \cup {b}) \cup {o} \in SUBSET Object
        BY <1>0, <2>2
      <4> QED
        BY <2>4, <3>2, <4>1, <4>2, <4>3
    <3> QED
      BY <2>3, <3>1, <3>2
  <2> QED
    BY <1>1, <1>2, <2>3, <2>5 DEF BTypeOK
<1> QED
  BY <1>3, <1>4

\* Every step of the two controllers keeps the types.
LEMMA BTypeStep == BTypeOK /\ FiniteInv /\ CopyInv /\ [BNext]_allvars => BTypeOK'
<1> SUFFICES ASSUME BTypeOK, FiniteInv, CopyInv, [BNext]_allvars PROVE BTypeOK'
  OBVIOUS
<1>0. TypeOK
  BY DEF BTypeOK
<1>1. ASSUME Next, UNCHANGED <<bvars, crashed, drifted>>,
             inBrowser' \in {inBrowser, "never", "before"}
      PROVE  BTypeOK'
  <2>1. TypeOK'
    BY <1>0, <1>1, TypeStep
  <2> QED
    BY <1>1, <2>1 DEF bvars, BTypeOK
<1>2. ASSUME UNCHANGED vars PROVE TypeOK'
  BY <1>0, <1>2, TypeStep
<1>3. ASSUME NEW a \in Asset, OpenBrowser(a) PROVE BTypeOK'
  <2>1. TypeOK' /\ UNCHANGED <<drifted, inBrowser>> /\ a \in models
    BY <1>2, <1>3 DEF OpenBrowser
  <2>2. CASE Rank(models, a) <= Cardinality(phAssets)
    <3>1. btnOn' \in BOOLEAN /\ btnHidden' \in BOOLEAN
      <4>1. HidesButton(a, selected) \in BOOLEAN
        BY DEF HidesButton, CheckIsSingle
      <4>2. btnHidden' = HidesButton(a, selected) /\ btnOn' = ([id |-> a, gen |-> gen] \in flagged)
        BY <1>3, <2>2 DEF OpenBrowser
      <4>3. btnOn' \in BOOLEAN
        <5>1. ([id |-> a, gen |-> gen] \in flagged) \in BOOLEAN
          OBVIOUS
        <5> QED
          BY <4>2, <5>1, Zenon
      <4>4. btnHidden' \in BOOLEAN
        BY <4>1, <4>2, Zenon
      <4> QED
        BY <4>3, <4>4
    <3>2. /\ browsing' = TRUE /\ bModels' = models /\ bGen' = gen /\ bSelected' = selected
          /\ page' = a /\ settled' = TRUE /\ crashed' = crashed
      BY <1>3, <2>2 DEF OpenBrowser
    <3> QED
      BY <2>1, <3>1, <3>2 DEF BTypeOK, TypeOK
  <2>3. CASE ~(Rank(models, a) <= Cardinality(phAssets))
    BY <1>3, <2>1, <2>3 DEF OpenBrowser, bvars, BTypeOK
  <2> QED
    BY <2>2, <2>3
<1>4. ASSUME NEW a \in Asset, Swipe(a) PROVE BTypeOK'
  BY <1>2, <1>4 DEF Swipe, BTypeOK
<1>5. CASE ScrollViewDidEndDecelerating
  <2>1. btnOn' \in BOOLEAN /\ btnHidden' \in BOOLEAN
    <3>1. HidesButton(page, bSelected) \in BOOLEAN
      BY DEF HidesButton, CheckIsSingle
    <3>2. btnHidden' = HidesButton(page, bSelected) /\ btnOn' = (BObject(page) \in flagged)
      BY <1>5 DEF ScrollViewDidEndDecelerating
    <3>3. btnOn' \in BOOLEAN
      <4>1. (BObject(page) \in flagged) \in BOOLEAN
        OBVIOUS
      <4> QED
        BY <3>2, <4>1, Zenon
    <3>4. btnHidden' \in BOOLEAN
      BY <3>1, <3>2, Zenon
    <3> QED
      BY <3>3, <3>4
  <2> QED
    BY <1>2, <1>5, <2>1 DEF ScrollViewDidEndDecelerating, BTypeOK
<1>6. ASSUME NEW a \in Asset, BottomCellTap(a) PROVE BTypeOK'
  <2>1. crashed' \in BOOLEAN
    <3>1. crashed' \in ScrollToItem(Rank(bModels, a))
      BY <1>6 DEF BottomCellTap
    <3>2. ScrollToItem(Rank(bModels, a)) \subseteq BOOLEAN
      BY DEF ScrollToItem
    <3> QED
      BY <3>1, <3>2, Zenon
  <2> QED
    BY <1>2, <1>6, <2>1 DEF BottomCellTap, BTypeOK
<1>7. CASE SelectedBtnClick
  BY <1>7, BTypesByTap
<1>8. CASE PopBrowser
  BY <1>2, <1>8, EmptySeq DEF PopBrowser, BTypeOK
<1>9. CASE UNCHANGED allvars
  BY <1>2, <1>9 DEF allvars, bvars, BTypeOK
<1> QED
  BY <1>1, <1>3, <1>4, <1>5, <1>6, <1>7, <1>8, <1>9, PickerSteps DEF BNext
-----------------------------------------------------------------------------
\* What photosOptions lets through of a finite fetch is finite.
LEMMA ShownFinite ==
    ASSUME NEW T, IsFiniteSet(T)
    PROVE  Shown(T) \subseteq T /\ IsFiniteSet(Shown(T))
<1>1. Shown(T) \subseteq T
  BY DEF Shown
<1> QED
  BY <1>1, FS_Subset

\* Taps on check buttons, in the grid and on the pages, fetch nothing.
LEMMA TapsFetchNothing ==
    ASSUME SelectedBtnClick \/ (\E a \in Asset : CellSelect(a) \/ CellUnselect(a))
    PROVE  UNCHANGED <<phase, opts, phAssets, albumLib, listed, models, gen, changes>>
<1>1. CASE SelectedBtnClick
  BY <1>1 DEF SelectedBtnClick, vars
<1>2. CASE \E a \in Asset : CellSelect(a) \/ CellUnselect(a)
  BY <1>2 DEF CellSelect, CellUnselect
<1> QED
  BY <1>1, <1>2

\* Every step leaves what was fetched finite and, until the library changes,
\* within phAssets.
LEMMA FetchStep == BTypeOK /\ FiniteInv /\ FetchInv /\ [BNext]_allvars => FiniteInv' /\ FetchInv'
<1> SUFFICES ASSUME BTypeOK, FiniteInv, FetchInv, [BNext]_allvars PROVE FiniteInv' /\ FetchInv'
  OBVIOUS
<1>0. changes \in Nat
  BY DEF BTypeOK, TypeOK
<1>1. ASSUME UNCHANGED <<phAssets, albumLib, models, changes, opts>>, phase' \in {phase, "denied"},
             listed' \in {listed, {}}, bModels' \in {bModels, models, {}}
      PROVE  FiniteInv' /\ FetchInv'
  <2>1. IsFiniteSet(bModels')
    BY <1>1, FS_EmptySet DEF FiniteInv
  <2>2. Shown(albumLib)' = Shown(albumLib)
    BY <1>1 DEF Shown
  <2> QED
    BY <1>1, <2>1, <2>2 DEF FiniteInv, FetchInv
<1>2. ASSUME NEW L \in Library, GetAllPhotos(L), bModels' = bModels PROVE FiniteInv' /\ FetchInv'
  <2>1. IsFiniteSet(L) /\ IsFiniteSet(Shown(L)) /\ Shown(L)' = Shown(L)
    BY <1>2, LibraryAssumption, ShownFinite DEF Shown, GetAllPhotos
  <2>2. /\ phAssets' = Shown(L) /\ albumLib' = L /\ models' = Shown(L) /\ phase' = "ready"
        /\ UNCHANGED <<listed, changes, bModels>>
    BY <1>2 DEF GetAllPhotos, FetchPhotoModels
  <2>3. listed = {}
    BY <1>2 DEF FetchInv, GetAllPhotos
  <2>4. Shown(albumLib)' = Shown(L)
    BY <2>1, <2>2
  <2> QED
    BY <2>1, <2>2, <2>3, <2>4 DEF FiniteInv, FetchInv
<1>3. ASSUME TitleViewClick, bModels' = bModels PROVE FiniteInv' /\ FetchInv'
  <2>1. /\ listed' = {Shown(albumLib \cap A) : A \in Album} \ {{}} /\ phase' = "ready"
        /\ UNCHANGED <<opts, phAssets, albumLib, models, changes>>
    BY <1>3 DEF TitleViewClick
  <2>2. \A A : Shown(albumLib \cap A) \subseteq Shown(albumLib)
    BY DEF Shown
  <2>3. IsFiniteSet(albumLib) /\ Shown(albumLib) \subseteq albumLib
    BY ShownFinite DEF FiniteInv
  <2>4. \A A : IsFiniteSet(Shown(albumLib \cap A))
    <3> TAKE A
    <3>1. Shown(albumLib \cap A) \subseteq albumLib
      BY <2>2, <2>3
    <3> QED
      BY <2>3, <3>1, FS_Subset
  <2>5. Shown(albumLib)' = Shown(albumLib)
    BY <2>1 DEF Shown
  <2>6. \A p \in listed' : IsFiniteSet(p) /\ p \subseteq Shown(albumLib)
    BY <2>1, <2>2, <2>4
  <2> QED
    BY <1>3, <2>1, <2>5, <2>6 DEF FiniteInv, FetchInv
<1>4. ASSUME NEW photos \in SUBSET Asset, AlbumClick(photos), bModels' = bModels
      PROVE  FiniteInv' /\ FetchInv'
  <2>1. /\ photos \in listed /\ listed' = {} /\ models' = photos
        /\ UNCHANGED <<phase, opts, phAssets, albumLib, changes>>
    BY <1>4 DEF AlbumClick, FetchPhotoModels
  <2>2. Shown(albumLib)' = Shown(albumLib)
    BY <2>1 DEF Shown
  <2> QED
    BY <1>4, <2>1, <2>2 DEF FiniteInv, FetchInv
<1>5. ASSUME NEW L \in Library, NEW p \in BOOLEAN, NEW b \in BOOLEAN,
             PhotoLibraryDidChange(L, p, b), bModels' = bModels
      PROVE  FiniteInv' /\ FetchInv'
  <2>1. IsFiniteSet(L) /\ IsFiniteSet(Shown(L))
    BY LibraryAssumption, ShownFinite
  <2>2. changes' # 0 /\ phase' = "ready" /\ listed' = listed
    BY <1>0, <1>5 DEF PhotoLibraryDidChange
  <2>3. /\ IsFiniteSet(phAssets') /\ IsFiniteSet(models') /\ IsFiniteSet(albumLib')
    BY <1>5, <2>1 DEF PhotoLibraryDidChange, FetchPhotoModels, FiniteInv
  <2> QED
    BY <1>5, <2>2, <2>3 DEF FiniteInv, FetchInv
<1>6. CASE PickerTouch /\ UNCHANGED <<bvars, crashed, drifted>>
  <2>1. bModels' = bModels
    BY <1>6 DEF bvars
  <2>2. CASE AccessRejected \/ AlbumListDismiss
    BY <1>1, <2>1, <2>2 DEF AccessRejected, AlbumListDismiss
  <2>3. CASE CellTap
    BY <1>1, <2>1, <2>3, TapsFetchNothing DEF CellTap
  <2> QED
    BY <1>2, <1>3, <1>4, <1>6, <2>1, <2>2, <2>3 DEF PickerTouch
<1>7. ASSUME NEW a \in Asset, OpenBrowser(a) \/ Swipe(a) \/ BottomCellTap(a)
      PROVE  FiniteInv' /\ FetchInv'
  <2>1. UNCHANGED vars /\ bModels' \in {bModels, models}
    BY <1>7 DEF OpenBrowser, Swipe, BottomCellTap, bvars
  <2> QED
    BY <1>1, <2>1 DEF vars
<1>8. CASE ScrollViewDidEndDecelerating \/ PopBrowser \/ UNCHANGED allvars
  <2>1. UNCHANGED vars /\ bModels' \in {bModels, {}}
    BY <1>8 DEF ScrollViewDidEndDecelerating, PopBrowser, allvars, bvars
  <2> QED
    BY <1>1, <2>1 DEF vars
<1>9. CASE SelectedBtnClick
  <2>1. bModels' = bModels
    BY <1>9 DEF SelectedBtnClick
  <2> QED
    BY <1>1, <1>9, <2>1, TapsFetchNothing
<1>10. CASE /\ \E L \in Library, photos, albums \in BOOLEAN :
                  PhotoLibraryDidChange(L, photos, albums)
            /\ UNCHANGED <<bvars, crashed, drifted>>
  BY <1>5, <1>10 DEF bvars
<1> QED
  BY <1>6, <1>7, <1>8, <1>9, <1>10 DEF BNext

\* The browser's copy: only a library change refetches under it.
LEMMA CopyStep == BTypeOK /\ CopyInv /\ [BNext]_allvars => CopyInv'
<1> SUFFICES ASSUME BTypeOK, CopyInv, [BNext]_allvars PROVE CopyInv'
  OBVIOUS
<1>0. changes \in Nat /\ gen \in Nat /\ bGen \in Nat
  BY DEF BTypeOK, TypeOK
<1>1. ASSUME UNCHANGED <<browsing, bGen, bModels, gen, models, changes>> PROVE CopyInv'
  BY <1>1 DEF CopyInv
<1>2. CASE ~browsing /\ PickerTouch /\ UNCHANGED <<bvars, crashed, drifted>>
  BY <1>2 DEF bvars, CopyInv
<1>3. ASSUME NEW L \in Library, NEW p \in BOOLEAN, NEW b \in BOOLEAN,
             PhotoLibraryDidChange(L, p, b), UNCHANGED <<bvars, crashed, drifted>>
      PROVE  CopyInv'
  <2>1. changes' # 0 /\ UNCHANGED <<browsing, bGen, bModels>>
    BY <1>0, <1>3 DEF PhotoLibraryDidChange, bvars
  <2>2. gen' = gen + 1 \/ UNCHANGED <<gen, models>>
    BY <1>3 DEF PhotoLibraryDidChange, FetchPhotoModels
  <2> QED
    BY <1>0, <2>1, <2>2 DEF CopyInv
<1>4. ASSUME NEW a \in Asset, OpenBrowser(a) PROVE CopyInv'
  <2>1. UNCHANGED <<gen, models, changes>> /\ ~browsing
    BY <1>4 DEF OpenBrowser, vars
  <2>2. CASE bModels' = models /\ bGen' = gen
    <3>1. bModels' = models' /\ bGen' = gen' /\ bGen' <= gen'
      BY <1>0, <2>1, <2>2
    <3> QED
      BY <3>1 DEF CopyInv
  <2>3. CASE browsing' = browsing
    BY <2>1, <2>3 DEF CopyInv
  <2> QED
    BY <1>4, <2>2, <2>3 DEF OpenBrowser, bvars
<1>5. ASSUME NEW a \in Asset, Swipe(a) \/ BottomCellTap(a) PROVE CopyInv'
  BY <1>1, <1>5 DEF Swipe, BottomCellTap, vars
<1>6. CASE ScrollViewDidEndDecelerating \/ UNCHANGED allvars
  BY <1>1, <1>6 DEF ScrollViewDidEndDecelerating, allvars, vars, bvars
<1>7. CASE SelectedBtnClick
  <2>1. UNCHANGED <<browsing, bGen, bModels>>
    BY <1>7 DEF SelectedBtnClick
  <2> QED
    BY <1>1, <1>7, <2>1, TapsFetchNothing
<1>8. CASE PopBrowser
  BY <1>8 DEF PopBrowser, CopyInv
<1> QED
  BY <1>2, <1>3, <1>4, <1>5, <1>6, <1>7, <1>8 DEF BNext

\* No index leaves its array before the library changes.
LEMMA NoCrashStep ==
    BTypeOK /\ FiniteInv /\ FetchInv /\ CopyInv /\ NoCrashUntilChange /\ [BNext]_allvars
        => NoCrashUntilChange'
<1> SUFFICES ASSUME BTypeOK, FiniteInv, FetchInv, CopyInv, NoCrashUntilChange, [BNext]_allvars
             PROVE  NoCrashUntilChange'
  OBVIOUS
<1>0. changes \in Nat /\ models \in SUBSET Int /\ IsFiniteSet(models) /\ Cardinality(models) \in Nat
  BY AssetAssumption, FS_CardinalityType DEF BTypeOK, TypeOK, FiniteInv
<1>1. ASSUME Next, UNCHANGED crashed PROVE NoCrashUntilChange'
  <2>1. changes' = 0 => changes = 0
    <3>1. changes' \in {changes, changes + 1}
      BY <1>1 DEF Next, GetAllPhotos, AccessRejected, CellSelect, CellUnselect,
                  TitleViewClick, AlbumClick, AlbumListDismiss, PhotoLibraryDidChange
    <3> QED
      BY <1>0, <3>1
  <2> QED
    BY <1>1, <2>1 DEF NoCrashUntilChange
<1>2. ASSUME NEW a \in Asset, OpenBrowser(a) PROVE NoCrashUntilChange'
  <2>1. ASSUME changes = 0 PROVE Rank(models, a) <= Cardinality(phAssets)
    <3>1. a \in models /\ models \subseteq phAssets /\ IsFiniteSet(phAssets)
      BY <1>2, <2>1 DEF OpenBrowser, FetchInv, FiniteInv
    <3>2. Cardinality(models) <= Cardinality(phAssets) /\ Cardinality(phAssets) \in Nat
      BY <3>1, FS_Subset, FS_CardinalityType
    <3>3. Rank(models, a) \in 1..Cardinality(models)
      BY <1>0, <3>1, RankRange
    <3> QED
      BY <1>0, <3>2, <3>3
  <2> QED
    BY <1>2, <2>1 DEF OpenBrowser, NoCrashUntilChange, vars
<1>3. CASE SelectedBtnClick
  <2>1. ASSUME changes = 0 PROVE ~(Rank(bModels, page) > Cardinality(models))
    <3>1. page \in models /\ bModels = models
      BY <1>3, <2>1 DEF SelectedBtnClick, BTypeOK, CopyInv
    <3>2. Rank(models, page) \in 1..Cardinality(models)
      BY <1>0, <3>1, RankRange
    <3> QED
      BY <1>0, <3>1, <3>2
  <2> QED
    BY <1>3, <2>1, TapsFetchNothing DEF SelectedBtnClick, NoCrashUntilChange
<1>4. ASSUME NEW a \in Asset, Swipe(a) PROVE NoCrashUntilChange'
  BY <1>4 DEF Swipe, vars, NoCrashUntilChange
<1>6. ASSUME NEW a \in Asset, BottomCellTap(a) PROVE NoCrashUntilChange'
  <2>1. ASSUME changes = 0 PROVE ~(Rank(bModels, a) > Cardinality(models))
    <3>1. a \in models /\ bModels = models
      BY <1>6, <2>1 DEF BottomCellTap, CopyInv
    <3>2. Rank(models, a) \in 1..Cardinality(models)
      BY <1>0, <3>1, RankRange
    <3> QED
      BY <1>0, <3>1, <3>2
  <2>2. changes' = changes /\ (changes = 0 => ~crashed')
    BY <1>6, <2>1 DEF BottomCellTap, ScrollToItem, vars
  <2> QED
    BY <2>2 DEF NoCrashUntilChange
<1>5. CASE ScrollViewDidEndDecelerating \/ PopBrowser \/ UNCHANGED allvars
  BY <1>5 DEF ScrollViewDidEndDecelerating, PopBrowser, allvars, vars, NoCrashUntilChange
<1> QED
  BY <1>1, <1>2, <1>3, <1>4, <1>5, <1>6, PickerSteps DEF BNext
-----------------------------------------------------------------------------
(* The two lists.                                                           *)

\* A tap on a page while the two controllers share their objects: both work on
\* the same object, and no index is out of range.
LEMMA TapEffect ==
    ASSUME BTypeOK, FiniteInv, CopyInv, SelectedBtnClick, bGen = gen
    PROVE  LET o == [id |-> page, gen |-> gen]
           IN  /\ browsing /\ page \in models /\ o \in Items /\ o \in Object /\ o \in SameId(page)
               /\ btnOn' = ~btnOn
               /\ UNCHANGED <<opts, models, gen, changes, browsing, bGen, bModels, page, btnHidden, settled>>
               /\ btnOn => /\ selected' = RemoveAll(selected, {o})
                           /\ bSelected' = RemoveAll(bSelected, SameId(page))
                           /\ UpdateUI(Items, RemoveAll(selected, {o}), flagged \ {o}, disabled)
               /\ ~btnOn => /\ selected' = Append(selected, o)
                            /\ bSelected' = Append(bSelected, o)
                            /\ Count(bSelected, KindOf(page)) < CapOf(page)
                            /\ UpdateUI(Items, Append(selected, o), flagged \cup {o}, disabled)
<1> DEFINE o == [id |-> page, gen |-> gen]
           i == Rank(bModels, page)
<1>1. /\ browsing /\ page \in bModels /\ bModels = models
      /\ models \in SUBSET Int /\ IsFiniteSet(models) /\ Cardinality(models) \in Nat
  BY AssetAssumption, FS_CardinalityType DEF SelectedBtnClick, BTypeOK, TypeOK, FiniteInv, CopyInv
<1>2. i \in 1..Cardinality(models)
  BY <1>1, RankRange
<1>3. i <= Cardinality(models) /\ ~(i > Cardinality(models))
  BY <1>1, <1>2
<1>4. Nth(models, i) = page
  BY <1>1, <1>3, TapObject
<1>5. o \in Items /\ o \in Object /\ o \in SameId(page)
  <2>1. TypeOK /\ page \in models
    BY <1>1 DEF BTypeOK
  <2> QED
    BY <2>1, CellFacts
<1>6. BObject(page) = o
  BY DEF BObject
<1>7. UNCHANGED <<opts, models, gen, changes, browsing, bGen, bModels, page, btnHidden, settled>>
  BY TapsFetchNothing DEF SelectedBtnClick
<1>8. /\ btnOn' = ~btnOn
      /\ btnOn => UnSelectedCloser(i, flagged \ {o}) /\ bSelected' = RemoveAll(bSelected, SameId(page))
      /\ ~btnOn => /\ SelectedCloser(i, flagged \cup {o}) /\ bSelected' = Append(bSelected, o)
                   /\ Count(bSelected, KindOf(page)) < CapOf(page)
  BY <1>3, <1>6 DEF SelectedBtnClick
<1>9. btnOn => /\ selected' = RemoveAll(selected, {o})
               /\ UpdateUI(Items, RemoveAll(selected, {o}), (flagged \ {o}) \ {o}, disabled)
  BY <1>4, <1>8 DEF UnSelectedCloser
<1>10. ~btnOn => /\ selected' = Append(selected, o)
                 /\ UpdateUI(Items, Append(selected, o), (flagged \cup {o}) \cup {o}, disabled)
  BY <1>4, <1>8 DEF SelectedCloser
<1>11. (flagged \ {o}) \ {o} = flagged \ {o} /\ (flagged \cup {o}) \cup {o} = flagged \cup {o}
  OBVIOUS
<1> QED
  BY <1>1, <1>5, <1>7, <1>8, <1>9, <1>10, <1>11

\* removeAll depends on the places only.
LEMMA SamePlacesSameRest ==
    ASSUME NEW s, NEW V, NEW W, Places(s, V) = Places(s, W)
    PROVE  RemoveAll(s, V) = RemoveAll(s, W)
BY DEF RemoveAll

\* A tap on a page changes both lists alike while the objects are shared, and
\* cannot make them shared: it removes none but the picker's own objects.
LEMMA ListsByTap ==
    ASSUME BTypeOK, FiniteInv, CopyInv, ListsAgree, SelectedBtnClick
    PROVE  ListsAgree'
<1> DEFINE o == [id |-> page, gen |-> gen]
<1>0. selected \in Seq(Object) /\ gen \in Nat /\ DOMAIN selected = 1..Len(selected) /\ Len(selected) \in Nat
  BY LenProperties DEF BTypeOK, TypeOK
<1> SUFFICES ASSUME Aligned' PROVE selected' = bSelected'
  BY DEF ListsAgree
<1>1. bGen' = bGen /\ gen' = gen
  BY TapsFetchNothing DEF SelectedBtnClick
<1>2. bGen = gen /\ \A j \in DOMAIN selected' : selected'[j].gen = gen
  BY <1>1 DEF Aligned
<1>3. /\ browsing /\ o \in Object /\ o \in SameId(page)
      /\ btnOn => selected' = RemoveAll(selected, {o}) /\ bSelected' = RemoveAll(bSelected, SameId(page))
      /\ ~btnOn => selected' = Append(selected, o) /\ bSelected' = Append(bSelected, o)
  BY <1>2, TapEffect
<1>4. CASE btnOn
  <2>1. ASSUME NEW i \in DOMAIN selected PROVE selected[i].gen = gen
    <3>1. CASE selected[i] = o
      BY <3>1
    <3>2. CASE selected[i] # o
      <4>1. Contains(selected, {selected[i]}) /\ {selected[i]} \cap {o} = {}
        BY <3>2 DEF Contains, Places
      <4>2. Contains(RemoveAll(selected, {o}), {selected[i]})
        <5>1. \A W : W \cap {o} = {} => (Contains(RemoveAll(selected, {o}), W) <=> Contains(selected, W))
          BY <1>0, RemoveAllElements
        <5> QED
          BY <4>1, <5>1
      <4>3. PICK j \in DOMAIN selected' : selected'[j] = selected[i]
        BY <1>3, <1>4, <4>2 DEF Contains, Places
      <4> QED
        BY <1>2, <4>3
    <3> QED
      BY <3>1, <3>2
  <2>2. selected = bSelected
    BY <1>2, <1>3, <2>1 DEF ListsAgree, Aligned
  <2>3. \A i \in DOMAIN selected : selected[i] \in Object /\ selected[i].gen = gen
    BY <1>0, <2>1, ElementOfSeq
  <2>4. \A i \in DOMAIN selected : selected[i] \in SameId(page) <=> selected[i] = o
    BY <2>3 DEF SameId, Object
  <2>5. Places(selected, {o}) = Places(selected, SameId(page))
    BY <2>4 DEF Places
  <2> QED
    BY <1>3, <1>4, <2>2, <2>5, SamePlacesSameRest
<1>5. CASE ~btnOn
  <2>1. \A i \in DOMAIN selected : i \in DOMAIN selected' /\ selected'[i] = selected[i]
    BY <1>0, <1>3, <1>5, AppendProperties, LenProperties
  <2>2. selected = bSelected
    BY <1>2, <1>3, <2>1 DEF ListsAgree, Aligned
  <2> QED
    BY <1>3, <1>5, <2>2
<1> QED
  BY <1>4, <1>5

\* Every other step leaves the lists alone, or ends the sharing of objects.
LEMMA ListsStep ==
    BTypeOK /\ FiniteInv /\ CopyInv /\ ListsAgree /\ [BNext]_allvars => ListsAgree'
<1> SUFFICES ASSUME BTypeOK, FiniteInv, CopyInv, ListsAgree, [BNext]_allvars PROVE ListsAgree'
  OBVIOUS
<1>0. gen \in Nat /\ bGen \in Nat
  BY DEF BTypeOK, TypeOK
<1>1. ASSUME UNCHANGED <<browsing, bGen, gen, selected, bSelected>> PROVE ListsAgree'
  BY <1>1 DEF ListsAgree, Aligned
<1>2. ASSUME ~browsing' PROVE ListsAgree'
  BY <1>2 DEF ListsAgree, Aligned
<1>3. CASE ~browsing /\ PickerTouch /\ UNCHANGED <<bvars, crashed, drifted>>
  BY <1>2, <1>3 DEF bvars
<1>4. ASSUME NEW L \in Library, NEW p \in BOOLEAN, NEW b \in BOOLEAN,
             PhotoLibraryDidChange(L, p, b), UNCHANGED <<bvars, crashed, drifted>>
      PROVE  ListsAgree'
  <2>1. UNCHANGED <<browsing, bGen, selected, bSelected>>
    BY <1>4 DEF PhotoLibraryDidChange, bvars
  <2>2. CASE gen' = gen
    BY <1>1, <2>1, <2>2
  <2>3. CASE gen' = gen + 1
    <3>1. browsing => bGen # gen'
      BY <1>0, <2>3 DEF CopyInv
    <3> QED
      BY <2>1, <3>1 DEF ListsAgree, Aligned
  <2> QED
    BY <1>4, <2>2, <2>3 DEF PhotoLibraryDidChange, FetchPhotoModels
<1>5. ASSUME NEW a \in Asset, OpenBrowser(a) PROVE ListsAgree'
  <2>1. selected' = selected /\ ~browsing
    BY <1>5 DEF OpenBrowser, vars
  <2>2. bSelected' = selected \/ browsing' = browsing
    BY <1>5 DEF OpenBrowser, bvars
  <2> QED
    BY <2>1, <2>2 DEF ListsAgree, Aligned
<1>6. ASSUME NEW a \in Asset, Swipe(a) \/ BottomCellTap(a) PROVE ListsAgree'
  BY <1>1, <1>6 DEF Swipe, BottomCellTap, vars
<1>7. CASE ScrollViewDidEndDecelerating \/ UNCHANGED allvars
  BY <1>1, <1>7 DEF ScrollViewDidEndDecelerating, allvars, vars, bvars
<1>8. CASE SelectedBtnClick
  BY <1>8, ListsByTap
<1>9. CASE PopBrowser
  BY <1>2, <1>9 DEF PopBrowser
<1> QED
  BY <1>3, <1>4, <1>5, <1>6, <1>7, <1>8, <1>9 DEF BNext
-----------------------------------------------------------------------------
(* The browser and the picker until they drift apart.                       *)

\* Lists of the same assets agree on everything that looks at assets only.
LEMMA PlacesAlike ==
    ASSUME selected \in Seq(Object), bSelected \in Seq(Object), SameAssets
    PROVE  /\ DOMAIN selected = 1..Len(selected) /\ DOMAIN bSelected = DOMAIN selected
           /\ \A a : Places(bSelected, SameId(a)) = Places(selected, SameId(a))
           /\ \A a : Count(bSelected, KindOf(a)) = Count(selected, KindOf(a))
           /\ \A a : Contains(bSelected, SameId(a)) <=> Contains(selected, SameId(a))
<1>1. /\ DOMAIN selected = 1..Len(selected) /\ DOMAIN bSelected = 1..Len(bSelected)
      /\ \A i \in DOMAIN selected : selected[i] \in Object
      /\ \A i \in DOMAIN bSelected : bSelected[i] \in Object
  BY LenProperties, ElementOfSeq
<1>2. DOMAIN bSelected = DOMAIN selected /\ \A i \in DOMAIN selected : selected[i].id = bSelected[i].id
  BY <1>1 DEF SameAssets
<1>3. \A a : Places(bSelected, SameId(a)) = Places(selected, SameId(a))
  BY <1>1, <1>2 DEF Places, SameId
<1>4. \A a : Places(bSelected, KindOf(a)) = Places(selected, KindOf(a))
  BY <1>1, <1>2 DEF Places, KindOf, ImageObjects, VideoObjects
<1> QED
  BY <1>1, <1>2, <1>3, <1>4 DEF Count, Contains

\* updateUI on the grid as it is, after a pick or an unpick elsewhere: the
\* cells come out in sync, provided that no picked cell was disabled.
LEMMA SyncedByRefresh ==
    ASSUME TypeOK, EnabledInv, MarksInv, SyncedCells, NEW sel \in Seq(Object), NEW marks,
           marks \subseteq flagged \cup Items,
           \A x \in Items : Contains(sel, SameId(x.id)) => x \notin disabled,
           UpdateUI(Items, sel, marks, disabled), selected' = sel, UNCHANGED <<opts, models, gen>>
    PROVE  EnabledInv' /\ MarksInv' /\ SyncedCells' /\ ~unsynced'
<1> DEFINE all == SetCellSelected(Items, sel, marks)
<1>1. /\ flagged' = all /\ disabled' = SetCellEnable(Items, sel, all, disabled) /\ ~unsynced'
  BY DEF UpdateUI
<1>2. Items' = Items
  BY DEF Items
<1>3. \A x \in Items : x.gen = gen
  BY DEF Items
<1>4. gen \in Nat /\ (\A x \in flagged : x.gen <= gen) /\ (\A x \in disabled : x.gen <= gen)
  BY DEF TypeOK, MarksInv, EnabledInv
<1>5. /\ \A x \in Items : x \in all <=> Contains(sel, SameId(x.id))
      /\ \A x \in all : x \in Items \/ x \in flagged
  BY DEF SetCellSelected
<1> HIDE DEF all
<1>6. all \cap disabled = {}
  BY <1>5 DEF EnabledInv, PickedCellsEnabled
<1>7. \A x \in all : x.gen <= gen
  <2>1. gen <= gen
    BY <1>4
  <2> QED
    BY <1>3, <1>4, <1>5, <2>1
<1>8. all \cap disabled' = {} /\ disabled' \subseteq disabled \cup Items
  BY <1>1, <1>6, EnableSparesMarks
<1>9. EnabledInv'
  <2>1. gen <= gen
    BY <1>4
  <2>2. \A x \in disabled' : x.gen <= gen
    BY <1>3, <1>4, <1>8, <2>1
  <2> QED
    BY <1>1, <1>8, <2>2 DEF EnabledInv, PickedCellsEnabled
<1>10. MarksInv'
  BY <1>1, <1>2, <1>5, <1>7 DEF MarksInv, SameId
<1>11. SyncedCells'
  <2>1. opts.mediaType # "imageOrVideo" => Items \cap disabled = {}
    BY DEF SyncedCells
  <2>2. \A x \in Items :
           x \in disabled' <=>
              /\ opts.mediaType = "imageOrVideo"
              /\ sel # <<>>
              /\ x \notin all
              /\ \/ Len(sel) >= opts.maxImage + opts.maxVideo
                 \/ IsVideo(x) # IsVideo(sel[1])
    BY <1>1, <1>6, <2>1, EnableIsRight
  <2> QED
    BY <1>1, <1>2, <1>5, <2>2 DEF SyncedCells, SameId, IsVideo
<1> QED
  BY <1>1, <1>9, <1>10, <1>11

\* A pick that the cap of its type and the type of the picks allow is a pick of
\* a cell that is not disabled.
LEMMA AllowedIsEnabled ==
    ASSUME TypeOK, SyncedCells, OneMediaType, NEW a \in models,
           Count(selected, KindOf(a)) < CapOf(a),
           opts.mediaType = "imageOrVideo" /\ selected # <<>> => (a \in Video <=> IsVideo(selected[1]))
    PROVE  [id |-> a, gen |-> gen] \notin disabled
<1> DEFINE o == [id |-> a, gen |-> gen]
<1>1. o \in Items /\ o.id = a
  BY CellFacts
<1>2. /\ selected \in Seq(Object) /\ Len(selected) \in Nat /\ DOMAIN selected = 1..Len(selected)
      /\ \A i \in DOMAIN selected : selected[i] \in Object
      /\ opts.maxImage \in Nat /\ opts.maxVideo \in Nat
  BY LenProperties, ElementOfSeq DEF TypeOK, OptionRecord
<1> SUFFICES ASSUME o \in disabled PROVE FALSE
  OBVIOUS
<1>3. /\ opts.mediaType = "imageOrVideo" /\ selected # <<>>
      /\ \/ Len(selected) >= opts.maxImage + opts.maxVideo
         \/ IsVideo(o) # IsVideo(selected[1])
  BY <1>1 DEF SyncedCells
<1>4. a \in Video <=> IsVideo(selected[1])
  BY <1>3
<1>5. Len(selected) >= opts.maxImage + opts.maxVideo
  BY <1>1, <1>3, <1>4 DEF IsVideo
<1>6. 1 \in DOMAIN selected
  BY <1>2, <1>3
<1>7. \A i \in DOMAIN selected : selected[i].id \in Video <=> a \in Video
  <2>1. \A i \in DOMAIN selected : IsVideo(selected[i]) = IsVideo(selected[1])
    BY <1>3, <1>6 DEF OneMediaType
  <2> QED
    BY <1>4, <2>1 DEF IsVideo
<1>8. Places(selected, KindOf(a)) = 1..Len(selected)
  <2>1. \A i \in DOMAIN selected : selected[i] \in KindOf(a)
    BY <1>2, <1>7 DEF KindOf, ImageObjects, VideoObjects
  <2> QED
    BY <1>2, <2>1 DEF Places
<1>9. Count(selected, KindOf(a)) = Len(selected)
  <2>1. Cardinality(1..Len(selected)) = Len(selected)
    BY <1>2, SizeUpTo
  <2> QED
    BY <1>8, <2>1 DEF Count
<1>10. CapOf(a) <= opts.maxImage + opts.maxVideo /\ CapOf(a) \in Nat
  BY <1>2 DEF CapOf
<1> QED
  BY <1>2, <1>5, <1>9, <1>10

\* What DriftInv says of the state before a tap that does not end it.
LEMMA BeforeTap ==
    ASSUME BrowserInv, SelectedBtnClick, changes = 0, ~drifted'
    PROVE  /\ BTypeOK /\ FiniteInv /\ CopyInv /\ TypeOK /\ bGen = gen
           /\ selected \in Seq(Object) /\ bSelected \in Seq(Object)
           /\ SyncInv /\ SyncedCells /\ OneMediaType /\ PickedOnce
           /\ CapRespected /\ EnabledInv /\ MarksInv
           /\ SameAssets /\ PageMayBePicked /\ settled
           /\ btnOn <=> Contains(bSelected, SameId(page))
           /\ btnOn => ~Foreign(page)
<1>1. BTypeOK /\ FiniteInv /\ CopyInv /\ DriftInv /\ browsing /\ TypeOK
  BY DEF BrowserInv, SelectedBtnClick, BTypeOK
<1>2. ~drifted /\ settled /\ ~(btnOn /\ Foreign(page))
  BY DEF SelectedBtnClick
<1>3. /\ SyncInv /\ SameAssets /\ PageMayBePicked
      /\ btnOn <=> Contains(bSelected, SameId(page))
  BY <1>1, <1>2 DEF DriftInv
<1>4. bGen = gen
  BY <1>1 DEF CopyInv
<1>5. SyncedCells /\ OneMediaType /\ PickedOnce /\ CapRespected /\ EnabledInv /\ MarksInv
  BY <1>3 DEF SyncInv, SoundUntilChange
<1>6. selected \in Seq(Object) /\ bSelected \in Seq(Object)
  BY <1>1 DEF BTypeOK, TypeOK
<1> QED
  BY <1>1, <1>2, <1>3, <1>4, <1>5, <1>6

\* A pick on a page keeps the caps, the type, the single pick of an asset and
\* the cells, because the button and the cap check speak of the same picks.
LEMMA DriftByPick ==
    ASSUME BrowserInv, SelectedBtnClick, ~btnOn, changes = 0, ~drifted'
    PROVE  /\ CapRespected' /\ OneMediaType' /\ PickedOnce' /\ EnabledInv' /\ MarksInv'
           /\ SyncedCells' /\ ~unsynced' /\ SameAssets' /\ PageMayBePicked'
           /\ btnOn' /\ Contains(bSelected', SameId(page))
<1> DEFINE o == [id |-> page, gen |-> gen]
<1>1. /\ BTypeOK /\ FiniteInv /\ CopyInv /\ TypeOK /\ bGen = gen
      /\ selected \in Seq(Object) /\ bSelected \in Seq(Object)
      /\ SyncedCells /\ OneMediaType /\ PickedOnce /\ CapRespected /\ EnabledInv /\ MarksInv
      /\ SameAssets /\ PageMayBePicked /\ settled /\ ~Contains(bSelected, SameId(page))
  BY BeforeTap
<1>2. /\ page \in models /\ o \in Items /\ o \in Object /\ o \in SameId(page) /\ btnOn'
      /\ UNCHANGED <<opts, models, gen, page, btnHidden, settled>>
      /\ selected' = Append(selected, o) /\ bSelected' = Append(bSelected, o)
      /\ Count(bSelected, KindOf(page)) < CapOf(page)
      /\ UpdateUI(Items, Append(selected, o), flagged \cup {o}, disabled)
  BY <1>1, TapEffect
<1>3. ~btnHidden
  BY DEF SelectedBtnClick
<1>4. o.id = page /\ page \in Asset
  BY <1>1, <1>2 DEF TypeOK
<1>5. /\ DOMAIN selected = 1..Len(selected) /\ DOMAIN bSelected = DOMAIN selected
      /\ ~Contains(selected, SameId(page)) /\ Count(selected, KindOf(page)) < CapOf(page)
  BY <1>1, <1>2, PlacesAlike
<1>6. opts.mediaType = "imageOrVideo" /\ selected # <<>> => (page \in Video <=> IsVideo(selected[1]))
  BY <1>1, <1>3 DEF PageMayBePicked
<1>7. o \notin disabled
  BY <1>1, <1>2, <1>5, <1>6, AllowedIsEnabled
<1> HIDE DEF o
<1>8. CapRespected'
  BY <1>1, <1>2, <1>4, <1>5, PickWithinCap
<1>9. OneMediaType' /\ PickedOnce'
  <2>1. opts.mediaType = "imageOrVideo" /\ selected # <<>> => IsVideo(o) = IsVideo(selected[1])
    BY <1>4, <1>6 DEF IsVideo
  <2> QED
    BY <1>1, <1>2, <1>4, <1>5, <2>1, SoundByPick
<1>10. EnabledInv' /\ MarksInv' /\ SyncedCells' /\ ~unsynced'
  <2>1. Append(selected, o) \in Seq(Object)
    BY <1>1, <1>2, AppendProperties
  <2>2. flagged \cup {o} \subseteq flagged \cup Items
    BY <1>2
  <2>3. \A x \in Items : Contains(Append(selected, o), SameId(x.id)) => x \notin disabled
    <3> SUFFICES ASSUME NEW x \in Items, Contains(Append(selected, o), SameId(x.id))
                 PROVE  x \notin disabled
      OBVIOUS
    <3>1. Contains(selected, SameId(x.id)) \/ o \in SameId(x.id)
      BY <1>1, <1>2, ContainsAppend
    <3>2. CASE Contains(selected, SameId(x.id))
      BY <1>1, <3>2 DEF SyncedCells
    <3>3. CASE o \in SameId(x.id)
      <4>1. x = o
        BY <1>2, <1>4, <3>3 DEF SameId, Items, o
      <4> QED
        BY <1>7, <4>1
    <3> QED
      BY <3>1, <3>2, <3>3
  <2> QED
    BY <1>1, <1>2, <2>1, <2>2, <2>3, SyncedByRefresh
<1>11. /\ Len(selected) \in Nat /\ Len(bSelected) = Len(selected)
       /\ Len(selected') = Len(selected) + 1 /\ Len(bSelected') = Len(selected) + 1
       /\ DOMAIN selected' = 1..(Len(selected) + 1)
       /\ \A i \in 1..Len(selected) : selected'[i] = selected[i] /\ bSelected'[i] = bSelected[i]
       /\ selected'[Len(selected) + 1] = o /\ bSelected'[Len(selected) + 1] = o
  <2>1. Len(bSelected) = Len(selected) /\ Len(selected) \in Nat
    BY <1>1, LenProperties DEF SameAssets
  <2>2. /\ selected' \in Seq(Object) /\ Len(selected') = Len(selected) + 1
        /\ \A i \in 1..Len(selected) : selected'[i] = selected[i]
        /\ selected'[Len(selected) + 1] = o
    BY <1>1, <1>2, AppendProperties
  <2>3. /\ Len(bSelected') = Len(bSelected) + 1
        /\ \A i \in 1..Len(bSelected) : bSelected'[i] = bSelected[i]
        /\ bSelected'[Len(bSelected) + 1] = o
    BY <1>1, <1>2, AppendProperties
  <2> QED
    BY <2>1, <2>2, <2>3, LenProperties
<1>12. SameAssets'
  <2>1. \A i \in DOMAIN selected' : i \in 1..Len(selected) \/ i = Len(selected) + 1
    BY <1>11
  <2>2. \A i \in 1..Len(selected) : selected[i].id = bSelected[i].id
    BY <1>1, <1>5 DEF SameAssets
  <2> QED
    BY <1>11, <2>1, <2>2 DEF SameAssets
<1>13. PageMayBePicked'
  <2>1. CASE selected = <<>>
    <3>1. Len(selected) = 0
      BY <2>1
    <3>2. selected'[1] = o
      BY <1>11, <3>1
    <3> QED
      BY <1>2, <1>4, <3>2 DEF PageMayBePicked, IsVideo
  <2>2. CASE selected # <<>>
    <3>1. 1 \in 1..Len(selected)
      BY <1>1, <1>11, <2>2
    <3>2. selected'[1] = selected[1]
      BY <1>11, <3>1
    <3> QED
      BY <1>2, <1>6, <2>2, <3>2 DEF PageMayBePicked, IsVideo
  <2> QED
    BY <2>1, <2>2
<1>14. Contains(bSelected', SameId(page))
  BY <1>1, <1>2, ContainsAppend
<1> QED
  BY <1>2, <1>8, <1>9, <1>10, <1>12, <1>13, <1>14

\* An unpick on a page takes the same places from both lists, unless the pick
\* is an object that is not the picker's.
LEMMA DriftByUnpick ==
    ASSUME BrowserInv, SelectedBtnClick, btnOn, changes = 0, ~drifted'
    PROVE  /\ CapRespected' /\ OneMediaType' /\ PickedOnce' /\ EnabledInv' /\ MarksInv'
           /\ SyncedCells' /\ ~unsynced' /\ SameAssets' /\ PageMayBePicked'
           /\ ~btnOn' /\ ~Contains(bSelected', SameId(page))
<1> DEFINE o == [id |-> page, gen |-> gen]
<1>1. /\ BTypeOK /\ FiniteInv /\ CopyInv /\ TypeOK /\ bGen = gen
      /\ selected \in Seq(Object) /\ bSelected \in Seq(Object)
      /\ SyncedCells /\ OneMediaType /\ PickedOnce /\ CapRespected /\ EnabledInv /\ MarksInv
      /\ SameAssets /\ PageMayBePicked /\ settled /\ ~Foreign(page)
  BY BeforeTap
<1>2. /\ page \in models /\ o \in Items /\ o \in Object /\ o \in SameId(page) /\ ~btnOn'
      /\ UNCHANGED <<opts, models, gen, page, btnHidden, settled>>
      /\ selected' = RemoveAll(selected, {o}) /\ bSelected' = RemoveAll(bSelected, SameId(page))
      /\ UpdateUI(Items, RemoveAll(selected, {o}), flagged \ {o}, disabled)
  BY <1>1, TapEffect
<1>3. /\ DOMAIN selected = 1..Len(selected) /\ DOMAIN bSelected = DOMAIN selected
      /\ Places(bSelected, SameId(page)) = Places(selected, SameId(page))
      /\ \A i \in DOMAIN selected : selected[i] \in Object
  BY <1>1, PlacesAlike, ElementOfSeq
<1>4. Places(selected, {o}) = Places(selected, SameId(page))
  <2>1. \A i \in DOMAIN selected : selected[i] \in SameId(page) <=> selected[i] = o
    BY <1>1, <1>2, <1>3 DEF Foreign, SameId, Object
  <2> QED
    BY <2>1 DEF Places
<1> HIDE DEF o
<1>5. CapRespected'
  BY <1>1, <1>2, UnpickWithinCap
<1>6. OneMediaType' /\ PickedOnce'
  BY <1>1, <1>2, SoundByUnpick
<1>7. RemoveAll(selected, {o}) \in Seq(Object)
  BY <1>1, RemoveAllFacts
<1>8. \A j \in DOMAIN selected' : \E p \in DOMAIN selected : selected'[j] = selected[p]
  BY <1>1, <1>2, RemoveAllElements
<1>9. EnabledInv' /\ MarksInv' /\ SyncedCells' /\ ~unsynced'
  <2>1. flagged \ {o} \subseteq flagged \cup Items
    OBVIOUS
  <2>2. \A W : Contains(selected', W) => Contains(selected, W)
    BY <1>8 DEF Contains, Places
  <2>3. \A x \in Items : Contains(RemoveAll(selected, {o}), SameId(x.id)) => x \notin disabled
    BY <1>1, <1>2, <2>2 DEF SyncedCells
  <2> QED
    BY <1>1, <1>2, <1>7, <2>1, <2>3, SyncedByRefresh
<1>10. SameAssets'
  <2>1. Len(selected) = Len(bSelected) /\ Places(selected, {o}) = Places(bSelected, SameId(page))
    BY <1>1, <1>3, <1>4 DEF SameAssets
  <2>2. PICK V : V = SameId(page)
    OBVIOUS
  <2>3. selected \in Seq(Object) /\ bSelected \in Seq(Object) /\ Places(selected, {o}) = Places(bSelected, V)
    BY <1>1, <2>1, <2>2
  <2>4. Len(RemoveAll(selected, {o})) = Len(RemoveAll(bSelected, V))
    BY <2>1, <2>3, RemoveAllAlike
  <2>5. \A j \in DOMAIN RemoveAll(selected, {o}) :
           \E p \in DOMAIN selected : /\ RemoveAll(selected, {o})[j] = selected[p]
                                     /\ RemoveAll(bSelected, V)[j] = bSelected[p]
    BY <2>1, <2>3, RemoveAllAlike
  <2>6. \A j \in DOMAIN selected' :
           \E p \in DOMAIN selected : selected'[j] = selected[p] /\ bSelected'[j] = bSelected[p]
    BY <1>2, <2>2, <2>5
  <2> QED
    BY <1>1, <1>2, <2>2, <2>4, <2>6 DEF SameAssets
<1>11. PageMayBePicked'
  <2> SUFFICES ASSUME settled', ~btnHidden', opts.mediaType = "imageOrVideo", selected' # <<>>
               PROVE  page \in Video <=> IsVideo(selected'[1])
    BY <1>2 DEF PageMayBePicked, IsVideo
  <2>1. 1 \in DOMAIN selected'
    BY <1>2, <1>7
  <2>2. PICK p \in DOMAIN selected : selected'[1] = selected[p]
    BY <1>8, <2>1
  <2>3. selected # <<>> /\ 1 \in DOMAIN selected
    BY <1>1, <1>3, <2>2
  <2>4. IsVideo(selected[p]) = IsVideo(selected[1])
    BY <1>1, <2>2, <2>3 DEF OneMediaType
  <2>5. page \in Video <=> IsVideo(selected[1])
    BY <1>1, <1>2, <2>3 DEF PageMayBePicked
  <2> QED
    BY <2>2, <2>4, <2>5
<1>12. ~Contains(bSelected', SameId(page))
  BY <1>1, <1>2, RemoveAllElements
<1> QED
  BY <1>2, <1>5, <1>6, <1>9, <1>10, <1>11, <1>12

\* A tap on a page keeps the two controllers together or is a drift.
LEMMA DriftByTap ==
    ASSUME BrowserInv, SelectedBtnClick
    PROVE  DriftInv'
<1>1. TypeOK' /\ UNCHANGED <<changes, page>>
  <2>1. BTypeOK'
    BY BTypesByTap DEF BrowserInv
  <2> QED
    BY <2>1, TapsFetchNothing DEF BTypeOK, SelectedBtnClick
<1> SUFFICES ASSUME changes' = 0, ~drifted'
             PROVE  /\ SyncInv' /\ SameAssets' /\ PageMayBePicked'
                    /\ btnOn' <=> Contains(bSelected', SameId(page)')
  BY DEF DriftInv
<1>2. SameId(page)' = SameId(page)
  BY <1>1 DEF SameId
<1>3. /\ CapRespected' /\ OneMediaType' /\ PickedOnce' /\ EnabledInv' /\ MarksInv'
      /\ SyncedCells' /\ ~unsynced' /\ SameAssets' /\ PageMayBePicked'
      /\ btnOn' <=> Contains(bSelected', SameId(page))
  <2>1. CASE btnOn
    BY <1>1, <2>1, DriftByUnpick
  <2>2. CASE ~btnOn
    BY <1>1, <2>2, DriftByPick
  <2> QED
    BY <2>1, <2>2
<1>4. SyncInv'
  BY <1>1, <1>3 DEF SyncInv, SoundUntilChange
<1> QED
  BY <1>2, <1>3, <1>4

\* Every step keeps the two controllers together, changes the library or is a
\* drift.
LEMMA DriftStep == BrowserInv /\ [BNext]_allvars => DriftInv'
<1> SUFFICES ASSUME BrowserInv, [BNext]_allvars PROVE DriftInv'
  OBVIOUS
<1>0. /\ DriftInv /\ BTypeOK /\ CopyInv /\ changes \in Nat
      /\ selected \in Seq(Object) /\ bSelected \in Seq(Object)
  BY DEF BrowserInv, BTypeOK, TypeOK
<1>1. ASSUME UNCHANGED vars PROVE changes' = changes /\ (SyncInv => SyncInv')
  <2>1. [Next]_vars /\ changes' = changes
    BY <1>1 DEF vars
  <2> QED
    BY <2>1, SyncStep
<1>2. CASE ~browsing /\ PickerTouch /\ UNCHANGED <<bvars, crashed, drifted>>
  <2>1. Next /\ ~browsing' /\ drifted' = drifted
    BY <1>2, PickerSteps DEF bvars
  <2>2. changes' = changes
    BY <1>2 DEF PickerTouch, CellTap, GetAllPhotos, AccessRejected, CellSelect, CellUnselect,
                TitleViewClick, AlbumClick, AlbumListDismiss
  <2>3. SyncInv => SyncInv'
    BY <2>1, SyncStep
  <2> QED
    BY <1>0, <2>1, <2>2, <2>3 DEF DriftInv
<1>3. ASSUME NEW L \in Library, NEW p \in BOOLEAN, NEW b \in BOOLEAN,
             PhotoLibraryDidChange(L, p, b)
      PROVE  DriftInv'
  <2>1. changes' # 0
    BY <1>0, <1>3 DEF PhotoLibraryDidChange
  <2> QED
    BY <2>1 DEF DriftInv
<1>4. ASSUME NEW a \in Asset, OpenBrowser(a) PROVE DriftInv'
  <2>1. UNCHANGED vars /\ drifted' = drifted /\ ~browsing /\ a \in models
    BY <1>4 DEF OpenBrowser
  <2>2. changes' = changes /\ (SyncInv => SyncInv')
    BY <1>1, <2>1
  <2>3. UNCHANGED <<selected, opts>>
    BY <2>1 DEF vars
  <2>4. CASE ~(Rank(models, a) <= Cardinality(phAssets))
    <3>1. ~browsing'
      BY <1>4, <2>1, <2>4 DEF OpenBrowser, bvars
    <3> QED
      BY <1>0, <2>1, <2>2, <3>1 DEF DriftInv
  <2>5. CASE Rank(models, a) <= Cardinality(phAssets)
    <3>1. /\ bSelected' = selected /\ page' = a /\ settled'
          /\ btnOn' = ([id |-> a, gen |-> gen] \in flagged)
          /\ btnHidden' = HidesButton(a, selected)
      BY <1>4, <2>5 DEF OpenBrowser
    <3>2. SameAssets'
      BY <2>3, <3>1 DEF SameAssets
    <3>3. PageMayBePicked'
      <4> SUFFICES ASSUME ~btnHidden', opts.mediaType = "imageOrVideo", selected # <<>>
                   PROVE  a \in Video <=> IsVideo(selected[1])
        BY <2>3, <3>1 DEF PageMayBePicked, IsVideo
      <4> QED
        BY <3>1 DEF HidesButton
    <3>4. ASSUME changes = 0, ~drifted
          PROVE  btnOn' <=> Contains(bSelected', SameId(a))
      <4>1. SyncedCells /\ TypeOK
        BY <1>0, <3>4 DEF DriftInv, SyncInv, BTypeOK
      <4>2. [id |-> a, gen |-> gen] \in Items
        BY <2>1, <4>1, CellFacts
      <4>3. [id |-> a, gen |-> gen] \in flagged <=> Contains(selected, SameId(a))
        BY <4>1, <4>2 DEF SyncedCells
      <4> QED
        BY <3>1, <4>3
    <3>5. SameId(page)' = SameId(a)
      BY <3>1 DEF SameId
    <3> QED
      BY <1>0, <2>1, <2>2, <3>2, <3>3, <3>4, <3>5 DEF DriftInv
  <2> QED
    BY <2>4, <2>5
<1>5. ASSUME NEW a \in Asset, Swipe(a) PROVE DriftInv'
  <2>1. UNCHANGED <<vars, browsing, bSelected, drifted>> /\ browsing /\ ~settled'
    BY <1>5 DEF Swipe
  <2>2. changes' = changes /\ (SyncInv => SyncInv') /\ selected' = selected
    BY <1>1, <2>1 DEF vars
  <2>3. SameAssets => SameAssets'
    BY <2>1, <2>2 DEF SameAssets
  <2>4. PageMayBePicked'
    BY <2>1 DEF PageMayBePicked
  <2> QED
    BY <1>0, <2>1, <2>2, <2>3, <2>4 DEF DriftInv
<1>6. CASE ScrollViewDidEndDecelerating
  <2>1. /\ UNCHANGED <<vars, browsing, bSelected, page, drifted>> /\ browsing
        /\ btnOn' = (BObject(page) \in flagged) /\ btnHidden' = HidesButton(page, bSelected)
    BY <1>6 DEF ScrollViewDidEndDecelerating
  <2>2. changes' = changes /\ (SyncInv => SyncInv') /\ UNCHANGED <<selected, opts>>
    BY <1>1, <2>1 DEF vars
  <2> SUFFICES ASSUME changes = 0, ~drifted
               PROVE  SyncInv' /\ SameAssets' /\ PageMayBePicked' /\ (btnOn' <=> Contains(bSelected, SameId(page)))
    <3>1. SameId(page)' = SameId(page)
      BY <2>1 DEF SameId
    <3> QED
      BY <2>1, <2>2, <3>1 DEF DriftInv
  <2>3. SyncInv /\ SyncedCells /\ SameAssets /\ bGen = gen /\ page \in models /\ TypeOK
    BY <1>0, <2>1 DEF DriftInv, SyncInv, CopyInv, BTypeOK
  <2>4. SameAssets'
    BY <2>1, <2>2, <2>3 DEF SameAssets
  <2>5. PageMayBePicked'
    <3> SUFFICES ASSUME ~btnHidden', opts.mediaType = "imageOrVideo", selected # <<>>
                 PROVE  page \in Video <=> IsVideo(selected[1])
      BY <2>1, <2>2 DEF PageMayBePicked, IsVideo
    <3>1. 1 \in DOMAIN selected
      BY <1>0
    <3>2. bSelected # <<>>
      BY <1>0, <2>3, <3>1, PlacesAlike
    <3>3. selected[1].id = bSelected[1].id
      BY <2>3, <3>1 DEF SameAssets
    <3> QED
      BY <2>1, <3>2, <3>3 DEF HidesButton, IsVideo
  <2>6. btnOn' <=> Contains(bSelected, SameId(page))
    <3>1. [id |-> page, gen |-> gen] \in Items
      BY <2>3, CellFacts
    <3>2. [id |-> page, gen |-> gen] \in flagged <=> Contains(selected, SameId(page))
      BY <2>3, <3>1 DEF SyncedCells
    <3>3. Contains(bSelected, SameId(page)) <=> Contains(selected, SameId(page))
      BY <1>0, <2>3, PlacesAlike
    <3> QED
      BY <2>1, <2>3, <3>2, <3>3 DEF BObject
  <2> QED
    BY <2>2, <2>3, <2>4, <2>5, <2>6
<1>7. ASSUME NEW a \in Asset, BottomCellTap(a) PROVE DriftInv'
  <2>1. /\ UNCHANGED <<vars, browsing, bSelected, settled, drifted>> /\ browsing
        /\ Contains(bSelected, SameId(a)) /\ page' = a /\ btnOn'
    BY <1>7 DEF BottomCellTap
  <2>2. changes' = changes /\ (SyncInv => SyncInv') /\ UNCHANGED <<selected, opts>>
    BY <1>1, <2>1 DEF vars
  <2> SUFFICES ASSUME changes = 0, ~drifted
               PROVE  SyncInv' /\ SameAssets' /\ PageMayBePicked'
    <3>1. SameId(page)' = SameId(a)
      BY <2>1 DEF SameId
    <3> QED
      BY <2>1, <2>2, <3>1 DEF DriftInv
  <2>3. SyncInv /\ OneMediaType /\ SameAssets
    BY <1>0, <2>1 DEF DriftInv, SyncInv, SoundUntilChange
  <2>4. SameAssets'
    BY <2>1, <2>2, <2>3 DEF SameAssets
  <2>5. PageMayBePicked'
    <3> SUFFICES ASSUME opts.mediaType = "imageOrVideo", selected # <<>>
                 PROVE  a \in Video <=> IsVideo(selected[1])
      BY <2>1, <2>2 DEF PageMayBePicked, IsVideo
    <3>1. Contains(selected, SameId(a))
      BY <1>0, <2>1, <2>3, PlacesAlike
    <3>2. PICK i \in DOMAIN selected : selected[i] \in SameId(a)
      BY <3>1 DEF Contains, Places
    <3>3. 1 \in DOMAIN selected
      BY <1>0
    <3>4. IsVideo(selected[i]) = IsVideo(selected[1])
      BY <2>3, <3>2, <3>3 DEF OneMediaType
    <3> QED
      BY <3>2, <3>4 DEF SameId, IsVideo
  <2> QED
    BY <2>2, <2>3, <2>4, <2>5
<1>8. CASE SelectedBtnClick
  BY <1>8, DriftByTap
<1>9. CASE PopBrowser
  <2>1. UNCHANGED <<vars, drifted>> /\ ~browsing'
    BY <1>9 DEF PopBrowser
  <2> QED
    BY <1>0, <1>1, <2>1 DEF DriftInv
<1>10. CASE UNCHANGED allvars
  <2>1. UNCHANGED <<vars, browsing, bSelected, page, btnOn, btnHidden, settled, drifted>>
    BY <1>10 DEF allvars, bvars
  <2>2. changes' = changes /\ (SyncInv => SyncInv') /\ UNCHANGED <<selected, opts>>
    BY <1>1, <2>1 DEF vars
  <2> QED
    BY <1>0, <2>1, <2>2 DEF DriftInv, SameAssets, PageMayBePicked, SameId, IsVideo
<1> QED
  BY <1>2, <1>3, <1>4, <1>5, <1>6, <1>7, <1>8, <1>9, <1>10 DEF BNext
-----------------------------------------------------------------------------
(* The next buttons.                                                        *)

\* A step is one of the picker or leaves its state alone, unless a page is picked,
\* and it takes back neither a library change nor a drift nor a pick of a page.
LEMMA StepKinds ==
    ASSUME BTypeOK, [BNext]_allvars
    PROVE  /\ \/ SelectedBtnClick /\ inBrowser' = "last"
              \/ [Next]_vars /\ (CellTap \/ inBrowser' = inBrowser)
           /\ inBrowser' = "never" => inBrowser = "never"
           /\ changes' = 0 => changes = 0
           /\ ~drifted' => ~drifted
<1>0. changes \in Nat
  BY DEF BTypeOK, TypeOK
<1>1. CASE SelectedBtnClick
  BY <1>1, TapsFetchNothing DEF SelectedBtnClick
<1>2. CASE PickerTouch /\ drifted' = drifted
  <2>1. changes' = changes
    BY <1>2 DEF PickerTouch, CellTap, GetAllPhotos, AccessRejected, CellSelect, CellUnselect,
                TitleViewClick, AlbumClick, AlbumListDismiss
  <2>2. CellTap \/ inBrowser' = inBrowser
    BY <1>2 DEF PickerTouch
  <2> QED
    BY <1>2, <2>1, <2>2, PickerSteps
<1>3. CASE /\ \E L \in Library, photos, albums \in BOOLEAN : PhotoLibraryDidChange(L, photos, albums)
           /\ UNCHANGED <<drifted, inBrowser>>
  <2>1. changes' # 0
    BY <1>0, <1>3 DEF PhotoLibraryDidChange
  <2> QED
    BY <1>3, <2>1, PickerSteps
<1>4. CASE UNCHANGED <<vars, drifted, inBrowser>>
  BY <1>4 DEF vars
<1> QED
  BY <1>1, <1>2, <1>3, <1>4 DEF BNext, OpenBrowser, Swipe, ScrollViewDidEndDecelerating,
                                BottomCellTap, PopBrowser, allvars

\* The browser is open only after getAllPhotos.
LEMMA ReadyStep ==
    ASSUME [BNext]_allvars, browsing => phase = "ready"
    PROVE  browsing' => phase' = "ready"
<1>1. CASE ~browsing /\ PickerTouch /\ UNCHANGED <<bvars, crashed, drifted>>
  BY <1>1 DEF bvars
<1>2. CASE /\ \E L \in Library, photos, albums \in BOOLEAN : PhotoLibraryDidChange(L, photos, albums)
  BY <1>2 DEF PhotoLibraryDidChange
<1>3. CASE SelectedBtnClick
  BY <1>3, TapsFetchNothing DEF SelectedBtnClick
<1>4. ASSUME NEW a \in Asset, OpenBrowser(a) PROVE phase' = "ready"
  BY <1>4 DEF OpenBrowser, vars
<1>5. ASSUME NEW a \in Asset, Swipe(a) \/ BottomCellTap(a) PROVE phase' = "ready"
  BY <1>5 DEF Swipe, BottomCellTap, vars
<1>6. CASE ScrollViewDidEndDecelerating \/ PopBrowser \/ UNCHANGED allvars
  BY <1>6 DEF ScrollViewDidEndDecelerating, PopBrowser, allvars, vars, bvars
<1> QED
  BY <1>1, <1>2, <1>3, <1>4, <1>5, <1>6 DEF BNext

\* A tap on a page leaves rightBtn in agreement with the picks, as both closers
\* end in updateUI, and the options alone.
LEMMA PageTap ==
    ASSUME NextFollows, VideoModeInv, browsing => phase = "ready", SelectedBtnClick
    PROVE  NextFollows' /\ VideoModeInv'
<1>1. phase = "ready" /\ UNCHANGED <<phase, opts>>
  BY TapsFetchNothing DEF SelectedBtnClick
<1>2. UNCHANGED <<selected, nextOn>> \/ (nextOn' <=> selected' # <<>>)
  <2> DEFINE i == Rank(bModels, page)
  <2>1. \/ UNCHANGED vars
        \/ \E marks : SelectedCloser(i, marks) \/ UnSelectedCloser(i, marks)
    BY Zenon DEF SelectedBtnClick
  <2>2. \A marks : SelectedCloser(i, marks) \/ UnSelectedCloser(i, marks) => (nextOn' <=> selected' # <<>>)
    BY DEF SelectedCloser, UnSelectedCloser, UpdateUI
  <2> QED
    BY <2>1, <2>2 DEF vars
<1> QED
  BY <1>1, <1>2 DEF NextFollows, VideoModeInv

\* Every step leaves the buttons in agreement with the picks as far as
\* ButtonsAgree says.
LEMMA HostStep == BrowserInv /\ [BNext]_allvars => HostInv'
<1> SUFFICES ASSUME BrowserInv, [BNext]_allvars PROVE HostInv'
  OBVIOUS
<1> DEFINE P == inBrowser = "never" \/ (inBrowser = "before" /\ changes = 0 /\ ~drifted)
<1>0. /\ BTypeOK /\ TypeOK /\ DriftInv /\ VideoModeInv /\ NextFollows /\ (P => HostFollows)
      /\ (browsing => phase = "ready") /\ (inBrowser = "never" => SyncInv)
  BY DEF BrowserInv, HostInv, ButtonsAgree, BTypeOK
<1>1. /\ \/ SelectedBtnClick /\ inBrowser' = "last"
         \/ [Next]_vars /\ (CellTap \/ inBrowser' = inBrowser)
      /\ inBrowser' = "never" => inBrowser = "never"
      /\ changes' = 0 => changes = 0
      /\ ~drifted' => ~drifted
  BY <1>0, StepKinds
<1>2. browsing' => phase' = "ready"
  BY <1>0, ReadyStep
<1>3. CASE SelectedBtnClick /\ inBrowser' = "last"
  <2>1. NextFollows' /\ VideoModeInv'
    BY <1>0, <1>3, PageTap
  <2> QED
    BY <1>2, <1>3, <2>1 DEF HostInv, ButtonsAgree
<1>4. CASE [Next]_vars /\ (CellTap \/ inBrowser' = inBrowser)
  <2>1. NextFollows' /\ VideoModeInv'
    BY <1>0, <1>4, NextByPicker, VideoModeStep
  <2>2. inBrowser' = "never" => SyncInv'
    BY <1>0, <1>1, <1>4, SyncStep
  <2>3. ASSUME P' PROVE HostFollows'
    <3>1. SyncInv
      BY <1>0, <1>1, <2>3 DEF DriftInv
    <3>2. CASE CellTap
      BY <1>0, <3>1, <3>2, HostByTap DEF CellTap
    <3>3. CASE ~CellTap
      <4>1. HostFollows
        BY <1>0, <1>1, <1>4, <2>3, <3>3
      <4> QED
        BY <1>0, <1>4, <3>3, <4>1, HostByOther DEF CellTap
    <3> QED
      BY <3>2, <3>3
  <2>4. ButtonsAgree'
    BY <2>1, <2>3 DEF ButtonsAgree
  <2> QED
    BY <1>2, <2>1, <2>2, <2>4 DEF HostInv
<1> QED
  BY <1>1, <1>3, <1>4

\* The picker starts without a browser.
LEMMA BrowserInit == BInit => BrowserInv
<1> SUFFICES ASSUME BInit PROVE BrowserInv
  OBVIOUS
<1>1. Init /\ NoBrowser /\ crashed = FALSE /\ drifted = FALSE /\ inBrowser = "never"
  BY DEF BInit
<1>2. SyncInv /\ TypeOK
  BY <1>1, SyncInit, TypeInit
<1>3. BTypeOK
  BY <1>1, <1>2, EmptySeq DEF NoBrowser, BTypeOK
<1>4. FiniteInv /\ FetchInv
  BY <1>1, FS_EmptySet DEF Init, NoBrowser, FiniteInv, FetchInv, Shown
<1>5. CopyInv /\ NoCrashUntilChange /\ ListsAgree /\ DriftInv
  BY <1>1, <1>2 DEF NoBrowser, CopyInv, NoCrashUntilChange, ListsAgree, Aligned, DriftInv
<1>6. HostInv
  <2>1. VideoModeInv /\ phase = "asking"
    BY <1>1, VideoModeInit DEF Init
  <2>2. NextFollows /\ HostFollows
    BY <2>1 DEF NextFollows, HostFollows
  <2> QED
    BY <1>1, <1>2, <2>1, <2>2 DEF HostInv, ButtonsAgree, NoBrowser
<1> QED
  BY <1>3, <1>4, <1>5, <1>6 DEF BrowserInv

\* BrowserInv is inductive.
LEMMA BrowserStep == BrowserInv /\ [BNext]_allvars => BrowserInv'
BY BTypeStep, FetchStep, CopyStep, NoCrashStep, ListsStep, DriftStep, HostStep, Zenon DEF BrowserInv

\* Every reachable state of the two controllers is well typed: whatever index
\* the browser hands over, the picker stores objects of its models.
THEOREM BrowserTypes == BSpec => []BTypeOK
<1>1. BrowserInv => BTypeOK
  BY DEF BrowserInv
<1> QED
  BY <1>1, BrowserInit, BrowserStep, PTL DEF BSpec

\* Without a library change neither the row that opens the browser nor the
\* index handed to a closer is out of range, for albums and libraries of any size.
THEOREM AlwaysNoCrashUntilChange == BSpec => []NoCrashUntilChange
<1>1. BrowserInv => NoCrashUntilChange
  BY DEF BrowserInv
<1> QED
  BY <1>1, BrowserInit, BrowserStep, PTL DEF BSpec

\* While browser and picker share their objects their lists are the same, even
\* after library changes and taps on pages in motion.
THEOREM ListsAlwaysAgree == BSpec => []ListsAgree
<1>1. BrowserInv => ListsAgree
  BY DEF BrowserInv
<1> QED
  BY <1>1, BrowserInit, BrowserStep, PTL DEF BSpec

\* Until a library change or a drift the two controllers together keep the
\* caps, one type in imageOrVideo mode and every asset picked once, and hold
\* the same assets, although each checks and updates its own list.
THEOREM AlwaysSoundUntilDrift == BSpec => []SoundUntilDrift
<1>1. BrowserInv => SoundUntilDrift
  BY DEF BrowserInv, DriftInv, SyncInv, SoundUntilChange, SameAssets, SoundUntilDrift
<1> QED
  BY <1>1, BrowserInit, BrowserStep, PTL DEF BSpec

\* Until then the check button of a page at rest tells the truth about it.
THEOREM ButtonAlwaysTruthful == BSpec => []ButtonTruthful
<1>1. BrowserInv => ButtonTruthful
  BY DEF BrowserInv, DriftInv, ButtonTruthful
<1> QED
  BY <1>1, BrowserInit, BrowserStep, PTL DEF BSpec

\* rightBtn always follows the picks.  The host's button, which the tap on a cell
\* drives whether or not it is accepted, is right until a page is picked and, as
\* long as the two controllers did not drift apart, after each tap on a cell;
\* nothing is said of it between a tap on a page and the next one on a cell.
THEOREM ButtonsAlwaysAgree == BSpec => []ButtonsAgree
<1>1. BrowserInv => ButtonsAgree
  BY DEF BrowserInv, HostInv
<1> QED
  BY <1>1, BrowserInit, BrowserStep, PTL DEF BSpec
=============================================================================
