---------------------------- MODULE PhotoBrowser ----------------------------
(***************************************************************************)
(* HEPhotoBrowserViewController on top of the picker: the full-screen      *)
(* pages that a tap on a cell opens.  The browser works on copies of the   *)
(* picker's arrays (the objects are shared) and reports every pick to the  *)
(* picker through selectedCloser and unSelectedCloser, as an index into    *)
(* its own copy of models.  photoLibraryDidChange may replace the picker's *)
(* models while the browser is open.                                       *)
(*                                                                         *)
(* A swipe moves contentOffset, and with it currentIndex, at once, but the *)
(* check button is only refreshed by scrollViewDidEndDecelerating.         *)
(***************************************************************************)
EXTENDS PhotoPicker

CONSTANT MaxPicks   \* bound: how long the list of picks may grow

ASSUME MaxPicksAssumption == MaxPicks \in Nat
\* A fetch result has a count, and its objects have indices below it.
ASSUME LibraryAssumption == \A L \in Library : IsFiniteSet(L)

VARIABLES
    browsing,   \* the browser is on top of the navigation stack
    bModels,    \* its copy of models, and the generation of these objects
    bGen,
    bSelected,  \* its copy of selectedModels
    page,       \* models[currentIndex]
    btnOn,      \* checkBtn.isSelected
    btnHidden,  \* checkBtn.isHidden
    settled,    \* no scrollViewDidEndDecelerating is outstanding
    crashed,    \* an array was indexed out of range: the process is gone
    drifted,    \* history: a tap on a page in motion, or an unpick of an object
                \* that is not the picker's, has happened
    inBrowser   \* history: "never" was a button of a page tapped, it was the
                \* "last" tap, or one "before" the last tap on a cell

bvars == <<browsing, bModels, bGen, bSelected, page, btnOn, btnHidden, settled>>
allvars == <<vars, bvars, crashed, drifted, inBrowser>>

NoBrowser ==
    /\ browsing = FALSE /\ bModels = {} /\ bGen = 0 /\ bSelected = <<>>
    /\ page = 0 /\ btnOn = FALSE /\ btnHidden = FALSE /\ settled = TRUE

BInit ==
    Init /\ NoBrowser /\ crashed = FALSE /\ drifted = FALSE /\ inBrowser = "never"
-----------------------------------------------------------------------------
\* The object behind the page of asset a.
BObject(a) == [id |-> a, gen |-> bGen]

\* Fault: the type of the picks is ignored (checkFlag is not asked).
HidesButtonSingleOnly(a, sel) == CheckIsSingle(a)

\* checkBtn.isHidden for the page of asset a when the picks are sel: with
\* imageOrVideo and at least one pick, the page has the other type; otherwise
\* the model is a single pick.
HidesButton(a, sel) ==
    IF opts.mediaType = "imageOrVideo" /\ sel # <<>>
    THEN (a \in Video) # IsVideo(sel[1])
    ELSE CheckIsSingle(a)

\* Fault: the row is counted from one.
OpenBrowserNextRow(a) ==
    /\ phase = "ready" /\ listed = {} /\ ~browsing
    /\ a \in models
    /\ [id |-> a, gen |-> gen] \notin disabled
    /\ Rank(models, a) >= Cardinality(phAssets)
    /\ crashed' = TRUE
    /\ UNCHANGED <<vars, bvars, drifted, inBrowser>>

\* didSelectItemAt of the grid: the row indexes phAssets, then the browser gets
\* copies of the arrays; viewDidAppear refreshes its check button before the
\* first touch.
OpenBrowser(a) ==
    /\ phase = "ready" /\ listed = {} /\ ~browsing
    /\ a \in models
    /\ [id |-> a, gen |-> gen] \notin disabled
    /\ IF Rank(models, a) <= Cardinality(phAssets)
       THEN /\ browsing' = TRUE
            /\ bModels' = models /\ bGen' = gen /\ bSelected' = selected
            /\ page' = a
            /\ btnOn' = ([id |-> a, gen |-> gen] \in flagged)
            /\ btnHidden' = HidesButton(a, selected)
            /\ settled' = TRUE
            /\ UNCHANGED crashed
       ELSE crashed' = TRUE /\ UNCHANGED bvars
    /\ UNCHANGED <<vars, drifted, inBrowser>>

\* Fault: the pages are the picker's present models, not the copy.
SwipePicker(a) ==
    /\ browsing
    /\ a \in models \ {page}
    /\ page' = a
    /\ settled' = FALSE
    /\ UNCHANGED <<vars, browsing, bModels, bGen, bSelected, btnOn, btnHidden,
                   crashed, drifted, inBrowser>>

\* The user swipes to the page of a neighbour.
Swipe(a) ==
    /\ browsing
    /\ a \in bModels
    /\ Rank(bModels, a) - Rank(bModels, page) \in {-1, 1}
    /\ page' = a
    /\ settled' = FALSE
    /\ UNCHANGED <<vars, browsing, bModels, bGen, bSelected, btnOn, btnHidden,
                   crashed, drifted, inBrowser>>

\* Fault: only the visibility of the button is refreshed.
ScrollViewDidEndDeceleratingHalf ==
    /\ browsing /\ ~settled
    /\ settled' = TRUE
    /\ btnHidden' = HidesButton(page, bSelected)
    /\ UNCHANGED <<vars, browsing, bModels, bGen, bSelected, page, btnOn,
                   crashed, drifted, inBrowser>>

\* scrollViewDidEndDecelerating refreshes the check button.
ScrollViewDidEndDecelerating ==
    /\ browsing /\ ~settled
    /\ settled' = TRUE
    /\ btnOn' = (BObject(page) \in flagged)
    /\ btnHidden' = HidesButton(page, bSelected)
    /\ UNCHANGED <<vars, browsing, bModels, bGen, bSelected, page,
                   crashed, drifted, inBrowser>>

\* Whether scrolling the picker's grid to index i raises: it does when i is out of
\* range.  A fetch that finds nothing does not reload the grid, which keeps cells.
ScrollToItem(i) == {(i > Cardinality(models)), (models # {} /\ i > Cardinality(models))}

\* A thumbnail of the bottom bar: when its asset is in the pages they jump to
\* it and the button is set, but isHidden is not refreshed.  Then
\* clickBottomCellCloser scrolls the picker's grid to the index of the page.
BottomCellTap(a) ==
    /\ browsing
    /\ Contains(bSelected, SameId(a))
    /\ a \in bModels
    /\ page' = a
    /\ btnOn' = TRUE
    /\ crashed' \in ScrollToItem(Rank(bModels, a))
    /\ UNCHANGED <<vars, browsing, bModels, bGen, bSelected, btnHidden, settled,
                   drifted, inBrowser>>

\* Fault: the pick is inserted in front.
SelectedCloserFront(i, marks) ==
    LET o == [id |-> Nth(models, i), gen |-> gen]
    IN  /\ selected' = <<o>> \o selected
        /\ UpdateUI(Items, <<o>> \o selected, marks \cup {o}, disabled)

\* selectedCloser(i) and unSelectedCloser(i) of the picker: i indexes the
\* picker's present models; the second removes by object identity.
SelectedCloser(i, marks) ==
    LET o == [id |-> Nth(models, i), gen |-> gen]
    IN  /\ selected' = Append(selected, o)
        /\ UpdateUI(Items, Append(selected, o), marks \cup {o}, disabled)

UnSelectedCloser(i, marks) ==
    LET o == [id |-> Nth(models, i), gen |-> gen]
    IN  /\ selected' = RemoveAll(selected, {o})
        /\ UpdateUI(Items, RemoveAll(selected, {o}), marks \ {o}, disabled)

\* The picker picked asset a as an object of an earlier fetch or of the host.
Foreign(a) ==
    \E i \in DOMAIN selected : selected[i].id = a /\ selected[i].gen # gen

\* selectedBtnClick past its cap check: toggle the button and the model, call
\* the closer with the page's index in bModels, then change bSelected.
SelectedBtnClick ==
    LET i == Rank(bModels, page)
        o == BObject(page)
    IN  /\ browsing /\ ~btnHidden
        /\ ~btnOn => Count(bSelected, KindOf(page)) < CapOf(page)
        /\ ~btnOn => Len(selected) < MaxPicks
        /\ IF i > Cardinality(models)
           THEN crashed' = TRUE /\ UNCHANGED <<vars, bSelected, btnOn>>
           ELSE /\ btnOn' = ~btnOn
                /\ IF btnOn
                   THEN /\ UnSelectedCloser(i, flagged \ {o})
                        /\ bSelected' = RemoveAll(bSelected, SameId(page))
                   ELSE /\ SelectedCloser(i, flagged \cup {o})
                        /\ bSelected' = Append(bSelected, o)
                /\ UNCHANGED <<phase, opts, phAssets, albumLib, listed, models,
                               gen, hostShown, changes, crashed>>
        /\ drifted' = (drifted \/ ~settled \/ (btnOn /\ Foreign(page)))
        /\ inBrowser' = "last"
        /\ UNCHANGED <<browsing, bModels, bGen, page, btnHidden, settled>>

\* The back button pops the browser; its copies are gone.
PopBrowser ==
    /\ browsing
    /\ browsing' = FALSE /\ bModels' = {} /\ bGen' = 0 /\ bSelected' = <<>>
    /\ page' = 0 /\ btnOn' = FALSE /\ btnHidden' = FALSE /\ settled' = TRUE
    /\ UNCHANGED <<vars, crashed, drifted, inBrowser>>
-----------------------------------------------------------------------------
\* The grid receives touches only while the browser is closed.
CellTap == \E a \in Asset : CellSelect(a) \/ CellUnselect(a)

PickerTouch ==
    \/ /\ CellTap
       /\ inBrowser' = IF inBrowser = "never" THEN "never" ELSE "before"
    \/ /\ \/ \E L \in Library : GetAllPhotos(L)
          \/ AccessRejected
          \/ TitleViewClick
          \/ \E photos \in SUBSET Asset : AlbumClick(photos)
          \/ AlbumListDismiss
       /\ UNCHANGED inBrowser

BNext ==
    /\ ~crashed
    /\ \/ ~browsing /\ PickerTouch /\ UNCHANGED <<bvars, crashed, drifted>>
       \/ /\ \E L \in Library, photos, albums \in BOOLEAN :
                PhotoLibraryDidChange(L, photos, albums)
          /\ UNCHANGED <<bvars, crashed, drifted, inBrowser>>
       \/ \E a \in Asset : OpenBrowser(a)
       \/ \E a \in Asset : Swipe(a)
       \/ ScrollViewDidEndDecelerating
       \/ \E a \in Asset : BottomCellTap(a)
       \/ SelectedBtnClick
       \/ PopBrowser

BSpec == BInit /\ [][BNext]_allvars
-----------------------------------------------------------------------------
\* The variables of both controllers have their types.
BTypeOK ==
    /\ TypeOK
    /\ browsing \in BOOLEAN /\ btnOn \in BOOLEAN /\ btnHidden \in BOOLEAN
    /\ settled \in BOOLEAN /\ crashed \in BOOLEAN /\ drifted \in BOOLEAN
    /\ inBrowser \in {"never", "last", "before"}
    /\ bModels \subseteq Asset /\ bGen \in Nat /\ bSelected \in Seq(Object)
    /\ page \in Asset \cup {0}
    /\ browsing => page \in bModels

\* The browser and the picker share their objects: the models were not fetched
\* again since the browser opened, and every pick was made in these models.
Aligned ==
    /\ browsing /\ bGen = gen
    /\ \A i \in DOMAIN selected : selected[i].gen = gen

\* While the two controllers share their objects they hold the same picks in
\* the same order, although each updates its own array and they remove by
\* different comparisons.
ListsAgree == Aligned => selected = bSelected

\* Until a library change, a tap on a page in motion or an unpick of a foreign
\* object, the two controllers together keep the caps, one type in imageOrVideo
\* mode, every asset picked once, and the same assets in both lists.
SoundUntilDrift ==
    changes = 0 /\ ~drifted =>
        /\ CapRespected /\ OneMediaType /\ PickedOnce
        /\ browsing => /\ Len(selected) = Len(bSelected)
                       /\ \A i \in DOMAIN selected : selected[i].id = bSelected[i].id

\* Until then the check button of a page at rest tells whether its asset is
\* picked.
ButtonTruthful ==
    changes = 0 /\ ~drifted /\ browsing /\ settled =>
        (btnOn <=> Contains(bSelected, SameId(page)))

\* The picker adds to its picks the asset of the page whose button was tapped,
\* as "never match by index" in updateSelectedCell demands.
PicksTheTappedPage ==
    [][ browsing /\ Len(selected') > Len(selected)
            => selected'[Len(selected')].id = page ]_allvars

\* Without a library change no index is out of range: neither the row that
\* opens the browser nor an index that the browser hands to the closers.
NoCrashUntilChange == changes = 0 => ~crashed

\* rightBtn follows the picks of both controllers, whatever the library does.
\* The host's button is driven by pickerIsSelectVideo, which a tap on a cell
\* calls before it is accepted or rejected and a tap on a page never calls.  It
\* is right as long as no page was picked, through all library changes, and
\* right again after a tap on a cell when the two controllers did not drift
\* apart.  After a tap on a page it may be wrong.
ButtonsAgree ==
    /\ NextFollows
    /\ inBrowser = "never" \/ (inBrowser = "before" /\ changes = 0 /\ ~drifted)
          => HostFollows
=============================================================================
