---------------------------- MODULE MCPhotoPicker ----------------------------
(* PhotoPicker for TLC: two images and two videos, an album of one of each,  *)
(* and the kinds of options that the picker tells apart.                     *)
EXTENDS PhotoPicker

MCAsset == 1..4
MCVideo == {2, 3}
MCLibrary == {{1, 2, 3, 4}, {1, 3}}
MCAlbum == {{1, 2}}

Opt(type, image, video, sp, sv) ==
    [mediaType |-> type, maxImage |-> image, maxVideo |-> video,
     singlePicture |-> sp, singleVideo |-> sv]

MCOptions ==
    { Opt("imageOrVideo", 1, 1, FALSE, FALSE), Opt("imageOrVideo", 2, 1, TRUE, TRUE),
      Opt("imageAndVideo", 2, 1, TRUE, TRUE), Opt("video", 1, 1, FALSE, FALSE),
      Opt("image", 2, 2, FALSE, FALSE), Opt("image", 2, 1, TRUE, FALSE) }

MCDefaults == {<<>>} \cup {<<[id |-> a, gen |-> 0]>> : a \in {1, 2}}
=============================================================================
