--------------------------- MODULE MCPhotoBrowser ---------------------------
(* PhotoBrowser for TLC: two videos and an image, and an album of two.       *)
EXTENDS PhotoBrowser

MCAsset == 1..3
MCVideo == {1, 3}
MCLibrary == {{1, 2, 3}, {1, 3}}
MCAlbum == {{2, 3}}

Opt(type, image, video, sp, sv) ==
    [mediaType |-> type, maxImage |-> image, maxVideo |-> video,
     singlePicture |-> sp, singleVideo |-> sv]

MCOptions ==
    { Opt("imageOrVideo", 1, 2, FALSE, FALSE), Opt("imageAndVideo", 1, 1, TRUE, TRUE),
      Opt("video", 0, 1, FALSE, FALSE) }

MCDefaults == {<<>>} \cup {<<[id |-> a, gen |-> 0]>> : a \in {1}}

\* Objects that neither controller shows any more are garbage: their flags are
\* never read, and states that differ only in them are the same state.
Live == Items \cup {[id |-> a, gen |-> bGen] : a \in bModels}

LiveView ==
    <<phase, opts, phAssets, albumLib, listed, models, gen, flagged \cap Live,
      disabled \cap Live, selected, nextOn, hostShown, changes, unsynced, bvars, crashed, drifted,
      inBrowser>>
=============================================================================
