------------------------------ MODULE Publishing ------------------------------
(***************************************************************************)
(* The publishing screens, composed with the camera: SPublicVC (a grid of  *)
(* photos or one video), sVideoRecordingVc (the host of the camera and of  *)
(* the video picker), SVideoEditVc (title and Post) and the compression of *)
(* a video in WMVideoTools.                                                *)
(*                                                                         *)
(* SPublicVC presents the other screens; UIKit refuses to present a second *)
(* one.  A video comes back through a block that waits one second before   *)
(* it presents the editor.  The timing assumed: within that second a       *)
(* dismissal has ended, and no second video has been made.                 *)
(*                                                                         *)
(* The image picker (TZImagePickerController), requestAVAsset and          *)
(* AVAssetExportSession are external.                                      *)
(***************************************************************************)
EXTENDS CameraRecorder, SequencesExt

CONSTANTS
    GridLimit,      \* nine photos
    MinTitle,       \* a title has five characters
    MaxTitle,       \* and at most two hundred
    Library,        \* the videos of the photo library
    MaxVisits,      \* bound: how often the recorder is opened
    MaxExports,     \* bound: how many exports are begun
    MaxJobs,        \* bound: how many takes and exports are begun together
    Seconds         \* bound: the seconds in which they begin

ASSUME PublishingAssumption ==
    /\ GridLimit \in Nat \ {0} /\ MinTitle \in Nat \ {0} /\ MaxTitle \in Nat
    /\ Library \subseteq Nat \ {0} /\ MaxVisits \in Nat /\ MaxExports \in Nat
    /\ MaxJobs \in Nat /\ Seconds \in Nat

VARIABLES
    top,            \* the screen the user sees: "public", "photos", "recorder",
                    \* "closing" (the recorder is being dismissed), "editor",
                    \* "player" (over SPublicVC) or "gone"
    dataArray,      \* photos, and the image of the add cell
    cells,          \* the cells as laid out last: a cell's tag is its row
    isVideo,        \* videoView is shown and the grid is hidden
    pathPHAssest,   \* the video that playVideo plays, 0 for nil
    clip,           \* the video whose playback was requested, 0 for none
    page,           \* the page of the recorder: "camera" or "picker"
    visits,         \* how often the recorder was opened
    due,            \* the video whose second is running, or NoVideo
    edited,         \* the video of SVideoEditVc, or NoVideo
    title,          \* titleTextF.text.count
    tip,            \* tipView is shown
    over,           \* over the editor: "none", "alert" or "player"
    posts,          \* the requestAVAsset calls of Post under way
    plays,          \* the one of the editor's play button is under way
    second,         \* the second of Date() when the last export began
    exports,        \* the exports: when they began, file name, state
    files,          \* for each file name the export whose video it holds, 0
                    \* for no file
    picked,         \* history: the video in videoView
    twoTouches,     \* history: two clear buttons were pressed in one event
    disturbed       \* history: while the second ran SPublicVC was touched, or
                    \* presented a video asked for earlier

grid == <<dataArray, cells, isVideo, pathPHAssest, clip, picked, twoTouches>>
editor == <<edited, title, tip, over, posts, plays, second, exports, files>>
host == <<top, grid, page, visits, due, disturbed, editor>>
camera == vars
pvars == <<camera, host>>

Video == [from : {"take"}, id : 1..MaxTakes] \cup [from : {"library"}, id : Library]
NoVideo == [from |-> "none", id |-> 0]

PInit ==
    /\ InitCamera /\ open = FALSE
    /\ top = "public" /\ dataArray = <<"add">> /\ cells = <<"add">>
    /\ isVideo = FALSE /\ pathPHAssest = 0 /\ clip = 0 /\ picked = 0
    /\ twoTouches = FALSE /\ disturbed = FALSE
    /\ page = "camera" /\ visits = 0 /\ due = NoVideo
    /\ edited = NoVideo /\ title = 0 /\ tip = FALSE /\ over = "none"
    /\ posts = 0 /\ plays = FALSE
    /\ second = 0 /\ exports = <<>> /\ files = [n \in 0..Seconds |-> 0]
-----------------------------------------------------------------------------
(* SPublicVC: the grid and the video.                                      *)

\* A touch on SPublicVC, which the run loop delivers after the last layout.
Touch ==
    /\ top = "public" /\ ~crashed /\ cells = dataArray
    /\ disturbed' = (disturbed \/ due # NoVideo)

Photos(n) == [i \in 1..n |-> "photo"]

\* didSelectItemAt: only the add cell does anything, below ten entries.
DidSelectItemAt ==
    /\ Touch /\ ~isVideo
    /\ Len(dataArray) < GridLimit + 1
    /\ Contains(dataArray, "add")
    /\ top' = "photos"
    /\ UNCHANGED <<camera, grid, page, visits, due, editor>>

\* The photos go in front; of ten entries the last one is the add cell.
WithPhotos(n) ==
    LET d == Photos(n) \o dataArray
    IN  IF Len(d) = GridLimit + 1 THEN Front(d) ELSE d

\* didFinishPickingPhotosHandle, called when the image picker has gone; it was
\* opened for as many photos as are missing.
DidFinishPickingPhotos ==
    /\ top = "photos" /\ ~crashed
    /\ \E n \in 1..(GridLimit + 1 - Len(dataArray)) : dataArray' = WithPhotos(n)
    /\ cells' = dataArray'
    /\ isVideo' = FALSE
    /\ top' = "public"
    /\ UNCHANGED <<camera, pathPHAssest, clip, picked, twoTouches, page, visits, due,
                   disturbed, editor>>

\* Fault: videos can be picked at any time.
AllowPickingVideoAlways == TRUE

\* With photos in the grid only photos can be picked.
AllowPickingVideo == Len(dataArray) = 1

\* didFinishPickingVideoHandle.  The picker's done button waits for the cover
\* image, so the handler gets one.
DidFinishPickingVideo(v) ==
    /\ top = "photos" /\ ~crashed
    /\ AllowPickingVideo
    /\ isVideo' = TRUE /\ pathPHAssest' = v /\ picked' = v
    /\ top' = "public"
    /\ UNCHANGED <<camera, dataArray, cells, clip, twoTouches, page, visits, due,
                   disturbed, editor>>

ImagePickerCancel ==
    /\ top = "photos" /\ ~crashed
    /\ top' = "public"
    /\ UNCHANGED <<camera, grid, page, visits, due, disturbed, editor>>

\* playVideo asks for the video; it is presented when it arrives.
PlayVideo ==
    /\ Touch /\ isVideo /\ clip = 0
    /\ clip' = pathPHAssest
    /\ crashed' = (pathPHAssest = 0)
    /\ UNCHANGED <<open, control, manager, video, audio, url, handed, written, failed, unlucky,
                   top, dataArray, cells, isVideo, pathPHAssest, picked, twoTouches,
                   page, visits, due, editor>>

ClipArrives ==
    /\ clip # 0 /\ ~crashed
    /\ clip' = 0
    /\ \E playable \in BOOLEAN :
          top' = IF playable /\ top = "public" THEN "player" ELSE top
    /\ disturbed' = (disturbed \/ (due # NoVideo /\ top' = "player"))
    /\ UNCHANGED <<camera, dataArray, cells, isVideo, pathPHAssest, picked, twoTouches,
                   page, visits, due, editor>>

PlayerClosed ==
    /\ top = "player" /\ ~crashed
    /\ top' = "public"
    /\ UNCHANGED <<camera, grid, page, visits, due, disturbed, editor>>

\* deleateAction: the video goes and the grid comes back.
DeleateAction ==
    /\ Touch /\ isVideo
    /\ isVideo' = FALSE /\ pathPHAssest' = 0 /\ picked' = 0
    /\ UNCHANGED <<camera, top, dataArray, cells, clip, twoTouches, page, visits, due,
                   editor>>

\* Fault: the add cell does not come back.
WithoutRowBare(row) == RemoveAt(dataArray, row)

\* A photo of a full grid makes room for the add cell.
WithoutRow(row) ==
    LET full == Len(dataArray) = GridLimit /\ ~Contains(dataArray, "add")
    IN  RemoveAt(IF full THEN Append(dataArray, "add") ELSE dataArray, row)

\* didClearBtnAction: the row is the tag of the cell, which is one layout
\* behind when a second clear button is released in the same event.
DidClearBtnAction(row) ==
    /\ top = "public" /\ ~crashed /\ ~isVideo
    /\ cells[row] = "photo"
    /\ IF row <= Len(dataArray)
       THEN dataArray' = WithoutRow(row) /\ UNCHANGED crashed
       ELSE crashed' = TRUE /\ UNCHANGED dataArray
    /\ twoTouches' = (twoTouches \/ cells # dataArray)
    /\ unlucky' = (unlucky \/ cells # dataArray)
    /\ disturbed' = (disturbed \/ due # NoVideo)
    /\ UNCHANGED <<open, control, manager, video, audio, url, handed, written, failed, top,
                   cells, isVideo, pathPHAssest, clip, picked, page, visits, due, editor>>

\* reloadData takes effect when the run loop lays the cells out.
Layout ==
    /\ cells # dataArray /\ ~crashed
    /\ cells' = dataArray
    /\ UNCHANGED <<camera, top, dataArray, isVideo, pathPHAssest, clip, picked,
                   twoTouches, page, visits, due, disturbed, editor>>

\* The back button.
Dismis ==
    /\ Touch
    /\ top' = "gone"
    /\ UNCHANGED <<camera, grid, page, visits, due, editor>>
-----------------------------------------------------------------------------
(* sVideoRecordingVc: the camera on one page, the video picker on the      *)
(* other.                                                                  *)

\* publickAction: a new recorder with a new camera is presented, whose takes
\* are numbered on.  Bound: not after an export was begun, since exports and
\* recorder share nothing.
PublickAction ==
    /\ Touch /\ visits < MaxVisits /\ posts + Len(exports) = 0
    /\ top' = "recorder" /\ visits' = visits + 1
    /\ open' = TRUE
    /\ UNCHANGED <<control, manager, video, audio, url, handed, crashed, written, failed, unlucky,
                   grid, page, due, editor>>

\* The camera's own steps; its buttons are on its page.
CameraStep(step) == step /\ UNCHANGED host
CameraTouch(step) == page = "camera" /\ step /\ UNCHANGED host

\* Fault: the page can be changed while the camera is busy.
ChangePageFreely ==
    /\ Touchable
    /\ page' = IF page = "camera" THEN "picker" ELSE "camera"
    /\ UNCHANGED <<camera, top, grid, visits, due, disturbed, editor>>

\* takeAction, sendVideoAction or a swipe: the bar is hidden and the content
\* does not scroll (benginPlay, successVideoPaly) while the camera is busy.
ChangePage ==
    /\ Touchable /\ barsShown
    /\ page' = IF page = "camera" THEN "picker" ELSE "camera"
    /\ UNCHANGED <<camera, top, grid, visits, due, disturbed, editor>>

\* The screens after the recorder was dismissed.
LeaveRecorder(next) ==
    /\ top' = next /\ page' = "camera"
    /\ UNCHANGED <<grid, visits, editor>>

\* A video goes back to SPublicVC, whose second begins.
HandOver(v) ==
    /\ due = NoVideo
    /\ due' = v /\ disturbed' = FALSE

\* The host gets the camera's take (completeBlock) when the dismissal has ended.
HandOverTake ==
    /\ page = "camera" /\ TakeButtonClick
    /\ HandOver([from |-> "take", id |-> url])
    /\ LeaveRecorder("public")

\* didFinishPicking: the picker calls it and then dismisses the recorder.
DidFinishPicking(v) ==
    /\ page = "picker" /\ Touchable /\ Leave /\ UNCHANGED <<handed, crashed>>
    /\ HandOver([from |-> "library", id |-> v])
    /\ LeaveRecorder("closing")

\* The camera's exit button, and dismissVc on the picker's page.
Exit ==
    /\ page = "camera" /\ CameraControlDidExit
    /\ LeaveRecorder("closing")
    /\ UNCHANGED <<due, disturbed>>

DismissVc ==
    /\ page = "picker" /\ Touchable /\ Leave /\ UNCHANGED <<handed, crashed>>
    /\ LeaveRecorder("closing")
    /\ UNCHANGED <<due, disturbed>>

\* The dismissal has ended.
Closed ==
    /\ top = "closing" /\ ~crashed
    /\ top' = "public"
    /\ UNCHANGED <<camera, grid, page, visits, due, disturbed, editor>>

\* Fault: the block does not wait.
PresentEditorAtOnce ==
    /\ due # NoVideo /\ ~crashed
    /\ due' = NoVideo
    /\ IF top = "public"
       THEN top' = "editor" /\ edited' = due
       ELSE UNCHANGED <<top, edited>>
    /\ disturbed' = FALSE
    /\ UNCHANGED <<camera, grid, page, visits, title, tip, over, posts, plays,
                   second, exports, files>>

\* The second is over: the editor is presented, unless SPublicVC presents
\* something already or has gone.
PresentEditor ==
    /\ due # NoVideo /\ ~crashed /\ top # "closing"
    /\ due' = NoVideo
    /\ IF top = "public"
       THEN top' = "editor" /\ edited' = due
       ELSE UNCHANGED <<top, edited>>
    /\ disturbed' = FALSE
    /\ UNCHANGED <<camera, grid, page, visits, title, tip, over, posts, plays,
                   second, exports, files>>
-----------------------------------------------------------------------------
(* SVideoEditVc and WMVideoTools.                                          *)

InEditor == top = "editor" /\ over = "none" /\ ~crashed

\* What a step of the editor leaves alone.
OnlyEditor == UNCHANGED <<camera, top, grid, page, visits, due, disturbed, edited>>

\* shouldChangeCharactersIn for the title: a longer text is refused.
TitleChanges ==
    /\ InEditor
    /\ \E n \in 0..(MaxTitle + 1) : title' = IF n <= MaxTitle THEN n ELSE title
    /\ tip' = FALSE
    /\ OnlyEditor /\ UNCHANGED <<over, posts, plays, second, exports, files>>

\* textFieldDidBeginEditing: the title hides the tip, the description shows it
\* while the title is short.
TextFieldDidBeginEditing ==
    /\ InEditor
    /\ tip' \in {FALSE, tip \/ title < MinTitle}
    /\ OnlyEditor /\ UNCHANGED <<title, over, posts, plays, second, exports, files>>

LeaveEditor ==
    /\ top' = "public" /\ edited' = NoVideo /\ title' = 0 /\ tip' = FALSE
    /\ over' = "none" /\ plays' = FALSE
    /\ UNCHANGED <<camera, grid, page, visits, due, disturbed, posts, second, exports,
                   files>>

\* cancleButtonAction asks before a title is lost.
CancleButtonAction ==
    /\ InEditor
    /\ \/ title = 0 /\ LeaveEditor
       \/ /\ title # 0 /\ over' = "alert"
          /\ OnlyEditor /\ UNCHANGED <<title, tip, posts, plays, second, exports, files>>

AlertAnswered ==
    /\ top = "editor" /\ over = "alert" /\ ~crashed
    /\ \/ LeaveEditor
       \/ /\ over' = "none"
          /\ OnlyEditor /\ UNCHANGED <<title, tip, posts, plays, second, exports, files>>

\* playAction: a take is played at once, a library video when it arrives.
PlayAction ==
    /\ InEditor
    /\ IF edited.from = "take"
       THEN over' = "player" /\ UNCHANGED plays
       ELSE plays' = TRUE /\ UNCHANGED over
    /\ OnlyEditor /\ UNCHANGED <<title, tip, posts, second, exports, files>>

EditorClipArrives ==
    /\ plays /\ ~crashed
    /\ plays' = FALSE
    /\ \E playable \in BOOLEAN :
          over' = IF playable /\ over = "none" THEN "player" ELSE over
    /\ OnlyEditor /\ UNCHANGED <<title, tip, posts, second, exports, files>>

EditorPlayerClosed ==
    /\ top = "editor" /\ over = "player" /\ ~crashed
    /\ over' = "none"
    /\ OnlyEditor /\ UNCHANGED <<title, tip, posts, plays, second, exports, files>>

\* publicBUttonAction: a short title shows the tip; a take needs no export,
\* a library video is requested to be compressed.
PublicBUttonAction ==
    /\ InEditor
    /\ \/ title < MinTitle /\ tip' = TRUE /\ UNCHANGED posts
       \/ title >= MinTitle /\ edited.from = "take" /\ UNCHANGED <<tip, posts>>
       \/ /\ title >= MinTitle /\ edited.from = "library"
          /\ posts + Len(exports) < MaxExports
          /\ currentUrl + posts + Len(exports) < MaxJobs
          /\ posts' = posts + 1 /\ UNCHANGED tip
    /\ OnlyEditor /\ UNCHANGED <<title, over, plays, second, exports, files>>

\* Fault: every video has the same name, as in the line commented out.
CreateFileUrlFixed(s) == 0

\* wm_createFileUrl: a name for each second.
CreateFileUrl(s) == s

\* The video arrives, or something that is not an AVURLAsset; the export is
\* begun, which first removes a file of its name.
CompressVideo ==
    /\ posts > 0 /\ ~crashed
    /\ posts' = posts - 1
    /\ \/ UNCHANGED <<second, exports, files>>
       \/ /\ second' \in second..Seconds
          /\ exports' = Append(exports, [at |-> second', name |-> CreateFileUrl(second'),
                                         state |-> "running"])
          /\ files' = [files EXCEPT ![CreateFileUrl(second')] = 0]
    /\ OnlyEditor /\ UNCHANGED <<title, tip, over, plays>>

\* The session writes its file, or fails, and the completion handler gets nil: a
\* session does not overwrite a file.
ExportEnds(i) ==
    /\ exports[i].state = "running" /\ ~crashed
    /\ \/ /\ files[exports[i].name] = 0
          /\ exports' = [exports EXCEPT ![i].state = "completed"]
          /\ files' = [files EXCEPT ![exports[i].name] = i]
       \/ /\ exports' = [exports EXCEPT ![i].state = "failed"]
          /\ UNCHANGED files
    /\ OnlyEditor /\ UNCHANGED <<title, tip, over, posts, plays, second>>

\* The completion handler on the main queue gets the file to upload.
ExportTold(i) ==
    /\ exports[i].state = "completed" /\ ~crashed
    /\ exports' = [exports EXCEPT ![i].state = "uploads"]
    /\ OnlyEditor /\ UNCHANGED <<title, tip, over, posts, plays, second, files>>
-----------------------------------------------------------------------------
CameraNext ==
    \/ CameraTouch(DidStarGesture)
    \/ CameraTouch(RetakeButtonClick)
    \/ CameraTouch(RetakeCancel)
    \/ CameraTouch(BackToCamera)
    \/ CameraStep(TimeRecord)
    \/ CameraStep(WriterCompletes)
    \/ CameraStep(WriterFails)
    \/ CameraStep(CompletionHandler)
    \/ CameraStep(TakeCompletes)
    \/ CameraStep(VideoArrives) \/ CameraStep(VideoStatus) \/ CameraStep(VideoSession)
    \/ CameraStep(VideoInput) \/ CameraStep(VideoAppend)
    \/ CameraStep(AudioArrives) \/ CameraStep(AudioInput) \/ CameraStep(AudioAppend)

GridNext ==
    \/ DidSelectItemAt \/ DidFinishPickingPhotos \/ ImagePickerCancel
    \/ \E v \in Library : DidFinishPickingVideo(v)
    \/ PlayVideo \/ ClipArrives \/ PlayerClosed \/ DeleateAction
    \/ \E row \in DOMAIN cells : DidClearBtnAction(row)
    \/ Layout \/ Dismis

RecorderNext ==
    \/ PublickAction \/ ChangePage
    \/ HandOverTake
    \/ \E v \in Library : DidFinishPicking(v)
    \/ Exit \/ DismissVc \/ Closed
    \/ PresentEditor

EditorNext ==
    \/ TitleChanges \/ TextFieldDidBeginEditing
    \/ CancleButtonAction \/ AlertAnswered
    \/ PlayAction \/ EditorClipArrives \/ EditorPlayerClosed
    \/ PublicBUttonAction \/ CompressVideo
    \/ \E i \in DOMAIN exports : ExportEnds(i) \/ ExportTold(i)

PNext == CameraNext \/ GridNext \/ RecorderNext \/ EditorNext

\* The camera's fairness; a dismissal ends and the block of after(seconds: 1)
\* runs.
PFairness ==
    /\ WF_pvars(CameraStep(TimeRecord)) /\ WF_pvars(CameraStep(WriterCompletes))
    /\ WF_pvars(CameraStep(CompletionHandler)) /\ WF_pvars(CameraStep(TakeCompletes))
    /\ WF_pvars(Closed) /\ WF_pvars(PresentEditor)

PSpec == PInit /\ [][PNext]_pvars /\ PFairness
-----------------------------------------------------------------------------
\* The variables have their types.
PTypeOK ==
    /\ TypeOK
    /\ top \in {"public", "photos", "recorder", "closing", "editor", "player", "gone"}
    /\ dataArray \in Seq({"photo", "add"}) /\ cells \in Seq({"photo", "add"})
    /\ isVideo \in BOOLEAN /\ {pathPHAssest, clip, picked} \subseteq Library \cup {0}
    /\ twoTouches \in BOOLEAN /\ disturbed \in BOOLEAN
    /\ page \in {"camera", "picker"} /\ visits \in 0..MaxVisits
    /\ due \in Video \cup {NoVideo} /\ edited \in Video \cup {NoVideo}
    /\ title \in 0..MaxTitle /\ tip \in BOOLEAN /\ over \in {"none", "alert", "player"}
    /\ posts \in 0..MaxExports /\ plays \in BOOLEAN /\ second \in 0..Seconds
    /\ exports \in Seq([at : 0..Seconds, name : 0..Seconds,
                        state : {"running", "completed", "failed", "uploads"}])
    /\ files \in [0..Seconds -> 0..MaxExports]

\* The grid of SPublicVC holds at most nine photos and, exactly below nine, the
\* add cell behind them, however photos are added and cleared: the add cell
\* dropped by the ninth photo comes back with the first one cleared.  Two
\* clear buttons released in one event can break this: the second tag is stale.
GridRule ==
    ~twoTouches => \E n \in 0..GridLimit :
        dataArray = IF n < GridLimit THEN Append(Photos(n), "add") ELSE Photos(n)

\* A post is photos or one video: with a video the grid behind it is empty, and
\* playVideo plays the video that is shown, never nil or an earlier one,
\* although the picking handlers set isVideo and pathPHAssest separately.
PhotosOrVideo == isVideo => dataArray = <<"add">> /\ pathPHAssest = picked /\ picked # 0

\* A video that the recorder hands over reaches the editor after the second of
\* after(seconds: 1), unless meanwhile the user touches SPublicVC or a video
\* arrives whose playback was asked for before; then UIKit may refuse the editor
\* and the video is lost.
VideoReachesEditor == due # NoVideo ~> top = "editor" \/ disturbed \/ crashed

\* The file of a finished export stays until it is uploaded, whatever other
\* exports do, as long as none of them began in the same second: names have a
\* resolution of one second and an export removes a file of its name.
ExportsKept ==
    \A i \in DOMAIN exports :
        /\ exports[i].state \in {"completed", "uploads"}
        /\ \A j \in DOMAIN exports \ {i} : exports[j].at # exports[i].at
        => files[exports[i].name] = i
=============================================================================
