--------------------------- MODULE CameraRecorder ---------------------------
(***************************************************************************)
(* The video camera: WMCameraControl (buttons and timer),                  *)
(* WMCameraViewController (the screen) and WMCameraManger (the writer).    *)
(*                                                                         *)
(* Four threads share the manager without a lock: the main thread starts   *)
(* and stops a take, the capture session calls captureOutput on videoQueue *)
(* and on voiceQueue, and AVAssetWriter runs the completion handler of     *)
(* finishWriting on a queue of its own.  An action is one main-thread      *)
(* callback, or what a queue does between two reads of shared state.       *)
(*                                                                         *)
(* AVAssetWriter is external.  It may fail while it starts, writes or      *)
(* finishes (a full disk, an interruption).  It raises an exception, which *)
(* ends the process, when it is finished before it was started or after it *)
(* failed, started twice or after it failed, or given a sample outside its *)
(* session; a failed writer ignores samples.  Its inputs are ready for     *)
(* samples only between startWriting and finishWriting.                    *)
(***************************************************************************)
EXTENDS Integers, Sequences

CONSTANTS
    VideoLength,    \* videoLength, in ticks of the timer
    MinLength,      \* two seconds, in ticks
    MaxTakes        \* bound: how many takes are started

ASSUME CameraAssumption ==
    /\ VideoLength \in Nat /\ MinLength \in Nat /\ MaxTakes \in Nat

VARIABLES
    open,           \* the camera screen has not been dismissed
    isStar,         \* WMCameraControl.isStar
    timer,          \* timer # nil: the timer is running
    recordTime,     \* in ticks
    cameraShown,    \* ~cameraButton.isHidden
    reviewShown,    \* retakeButton and takeButton are shown, the player plays
    alert,          \* "none", "short" (less than two seconds) or "retake"
    barsShown,      \* navBar and the host's bottomBar are shown
    isRecording,    \* WMCameraManger.isRecording
    currentUrl,     \* the number of the file name given out last, 0 for none
    writer,         \* assetWriter and its inputs: "nil", "unknown", "writing",
                    \* "finishing" (finishWriting was called), "completed" or
                    \* "failed"
    session,        \* startSession was called on the writer
    handler,        \* finishWriting's completion: "none", "due", or "delayed"
                    \* for the 0.3 seconds before complete is called
    video,          \* where captureOutput is on videoQueue
    audio,          \* where captureOutput is on voiceQueue
    url,            \* WMCameraViewController.url, 0 for nil
    handed,         \* the urls given to completeBlock
    crashed,        \* an exception, or nil where an object is expected
    written,        \* history: the files that finishWriting completed
    failed,         \* history: the files whose writer failed
    unlucky         \* history: the writer of the last take could not be created
                    \* or failed, was started or stopped while a callback was
                    \* under way, was stopped before its first frame, or was
                    \* given sound before its session began

control == <<isStar, timer, recordTime, cameraShown, reviewShown, alert, barsShown>>
manager == <<isRecording, currentUrl, writer, session, handler>>
vars == <<open, control, manager, video, audio, url, handed, crashed, written, failed, unlucky>>

\* A camera that has just been made.
InitCamera ==
    /\ isStar = FALSE /\ timer = FALSE /\ recordTime = 0
    /\ cameraShown = TRUE /\ reviewShown = FALSE /\ alert = "none" /\ barsShown = TRUE
    /\ isRecording = FALSE /\ currentUrl = 0 /\ writer = "nil" /\ session = FALSE
    /\ handler = "none" /\ video = "idle" /\ audio = "idle"
    /\ url = 0 /\ handed = <<>> /\ crashed = FALSE
    /\ written = {} /\ failed = {} /\ unlucky = FALSE

Init == open = TRUE /\ InitCamera
-----------------------------------------------------------------------------
\* startRecordingVideo with initializeVideoWriter: when AVAssetWriter cannot be
\* made (made = FALSE) the error closure is called, the old writer stays, and
\* recording is switched on all the same.
StartRecordingVideo(made) ==
    /\ currentUrl' = currentUrl + 1
    /\ writer' = IF made THEN "unknown" ELSE writer
    /\ session' = IF made THEN FALSE ELSE session
    /\ isRecording' = TRUE
    /\ unlucky' = (~made \/ video # "idle" \/ audio # "idle")

\* cameraControlBeginTakeVideo: the writer is made and the bars go away.
CameraControlBeginTakeVideo ==
    /\ \E made \in BOOLEAN : StartRecordingVideo(made)
    /\ barsShown' = FALSE

LongPressBegin ==
    /\ CameraControlBeginTakeVideo
    /\ timer' = TRUE
    /\ UNCHANGED <<cameraShown, handler, crashed>>

\* endRecordingVideo: the writer is told to finish, which it can only while it
\* is writing; whether it has failed is not asked.
EndRecordingVideo ==
    /\ isRecording' = FALSE
    /\ IF writer = "writing"
       THEN writer' = "finishing" /\ handler' = "due" /\ UNCHANGED crashed
       ELSE crashed' = TRUE /\ UNCHANGED <<writer, handler>>
    /\ unlucky' = (unlucky \/ ~session \/ video # "idle" \/ audio # "idle")
    /\ UNCHANGED <<currentUrl, session>>

\* Fault: the camera button stays on the screen.
LongPressEndShown ==
    IF timer
    THEN timer' = FALSE /\ EndRecordingVideo /\ UNCHANGED <<cameraShown, barsShown>>
    ELSE UNCHANGED <<timer, cameraShown, manager, barsShown, crashed, unlucky>>

\* longPressEnd: without a timer nothing happens.
LongPressEnd ==
    IF timer
    THEN /\ timer' = FALSE
         /\ cameraShown' = FALSE
         /\ EndRecordingVideo
         /\ UNCHANGED barsShown
    ELSE UNCHANGED <<timer, cameraShown, manager, barsShown, crashed, unlucky>>

\* The user can touch the camera's buttons.
Touchable == open /\ ~crashed /\ alert = "none"

\* A tap on the camera button.
DidStarGesture ==
    /\ Touchable /\ cameraShown
    /\ ~isStar => currentUrl < MaxTakes
    /\ isStar' = ~isStar
    /\ IF isStar' THEN LongPressBegin ELSE LongPressEnd
    /\ UNCHANGED <<open, recordTime, reviewShown, alert, video, audio, url, handed, written, failed>>

\* Fault: the progress is not compared with 1.
TimeRecordEndless ==
    /\ timer /\ ~crashed /\ recordTime < 2 * VideoLength
    /\ recordTime' = recordTime + 1
    /\ UNCHANGED <<open, isStar, timer, cameraShown, reviewShown, alert, barsShown,
                   manager, video, audio, url, handed, crashed, written, failed, unlucky>>

\* Fault: the timer counts down.
TimeRecordDown ==
    /\ timer /\ ~crashed
    /\ recordTime' = recordTime - 1
    /\ UNCHANGED <<open, isStar, timer, cameraShown, reviewShown, alert, barsShown,
                   manager, video, audio, url, handed, crashed, written, failed, unlucky>>

\* A tick of the timer; behind videoLength it ends the take.
TimeRecord ==
    /\ timer /\ ~crashed
    /\ recordTime' = recordTime + 1
    /\ IF recordTime' > VideoLength
       THEN LongPressEnd
       ELSE UNCHANGED <<timer, cameraShown, manager, barsShown, crashed, unlucky>>
    /\ UNCHANGED <<open, isStar, reviewShown, alert, video, audio, url, handed, written, failed>>

\* AVAssetWriter has written the file.
WriterCompletes ==
    /\ ~crashed /\ writer = "finishing"
    /\ writer' = "completed"
    /\ written' = written \cup {currentUrl}
    /\ UNCHANGED <<open, control, isRecording, currentUrl, session, handler, video,
                   audio, url, handed, crashed, failed, unlucky>>

\* AVAssetWriter fails, possibly at once in startWriting.
WriterFails ==
    /\ ~crashed /\ writer \in {"writing", "finishing"}
    /\ writer' = "failed"
    /\ failed' = failed \cup {currentUrl}
    /\ unlucky' = TRUE
    /\ UNCHANGED <<open, control, isRecording, currentUrl, session, handler, video,
                   audio, url, handed, crashed, written>>

\* Its completion handler, which a failure while finishing reaches too, forgets
\* the writer and its inputs without a look at the status.
CompletionHandler ==
    /\ ~crashed /\ writer \in {"completed", "failed"} /\ handler = "due"
    /\ writer' = "nil"
    /\ handler' = "delayed"
    /\ UNCHANGED <<open, control, isRecording, currentUrl, session, video, audio, url,
                   handed, crashed, written, failed, unlucky>>

\* showCompleteAnimation: the review buttons, and an alert for a short take.
ShowCompleteAnimation ==
    /\ reviewShown' = TRUE
    /\ alert' = IF recordTime < MinLength THEN "short" ELSE "none"

\* Fault: complete is called without waiting for the writer.
TakeCompletesEarly ==
    /\ ~crashed /\ open /\ handler # "none"
    /\ handler' = "none"
    /\ url' = currentUrl
    /\ ShowCompleteAnimation
    /\ UNCHANGED <<open, isStar, timer, recordTime, cameraShown, barsShown, isRecording,
                   currentUrl, writer, session, video, audio, handed, crashed, written, failed,
                   unlucky>>

\* complete, 0.3 seconds later on the main thread: it reads currentUrl then
\* and plays that video.
TakeCompletes ==
    /\ ~crashed /\ open /\ handler = "delayed"
    /\ handler' = "none"
    /\ url' = currentUrl
    /\ ShowCompleteAnimation
    /\ UNCHANGED <<open, isStar, timer, recordTime, cameraShown, barsShown, isRecording,
                   currentUrl, writer, session, video, audio, handed, crashed, written, failed,
                   unlucky>>
-----------------------------------------------------------------------------
\* cameraControlDidClickBack: the player stops and the bars come back.
CameraControlDidClickBack == barsShown' = TRUE

\* Fault: the record time is not reset.
BackToCameraLate ==
    /\ alert # "none" /\ open /\ ~crashed
    /\ alert' = "none"
    /\ cameraShown' = TRUE /\ reviewShown' = FALSE
    /\ CameraControlDidClickBack
    /\ UNCHANGED <<open, isStar, timer, recordTime, manager, video, audio, url, handed,
                   crashed, written, failed, unlucky>>

\* sss, from either alert.
BackToCamera ==
    /\ alert # "none" /\ open /\ ~crashed
    /\ alert' = "none"
    /\ cameraShown' = TRUE /\ reviewShown' = FALSE
    /\ recordTime' = 0
    /\ CameraControlDidClickBack
    /\ UNCHANGED <<open, isStar, timer, manager, video, audio, url, handed, crashed,
                   written, failed, unlucky>>

\* The retake button asks first; the alert can be cancelled.
RetakeButtonClick ==
    /\ Touchable /\ reviewShown
    /\ alert' = "retake"
    /\ UNCHANGED <<open, isStar, timer, recordTime, cameraShown, reviewShown, barsShown,
                   manager, video, audio, url, handed, crashed, written, failed, unlucky>>

RetakeCancel ==
    /\ alert = "retake" /\ ~crashed
    /\ alert' = "none"
    /\ UNCHANGED <<open, isStar, timer, recordTime, cameraShown, reviewShown, barsShown,
                   manager, video, audio, url, handed, crashed, written, failed, unlucky>>

\* The screen goes, with its control and its manager; the last callbacks of the
\* queues are over by then.
Leave ==
    /\ video = "idle" /\ audio = "idle"
    /\ open' = FALSE
    /\ isStar' = FALSE /\ timer' = FALSE /\ recordTime' = 0 /\ cameraShown' = TRUE
    /\ reviewShown' = FALSE /\ alert' = "none" /\ barsShown' = TRUE /\ url' = 0
    /\ writer' = "nil" /\ session' = FALSE
    /\ UNCHANGED <<isRecording, currentUrl, handler, video, audio, written, failed, unlucky>>

\* The take button: the screen goes and the host gets the file, of which it
\* makes a thumbnail (try! in getVideoThumbnail): a broken file may have none.
TakeButtonClick ==
    /\ Touchable /\ reviewShown
    /\ handed' = Append(handed, url)
    /\ UNCHANGED crashed \/ (url \in failed /\ crashed' = TRUE)
    /\ Leave

\* The exit button of navBar.
CameraControlDidExit ==
    /\ Touchable /\ barsShown
    /\ Leave
    /\ UNCHANGED <<handed, crashed>>
-----------------------------------------------------------------------------
(* captureOutput.  The steps of one queue leave everything but its own     *)
(* position, the writer's start and the crash alone.                       *)

Queue(v, a) ==
    /\ video' = v /\ audio' = a
    /\ UNCHANGED <<open, control, isRecording, currentUrl, handler, url, handed, written, failed>>

Calm == UNCHANGED <<writer, session, crashed, unlucky>>

\* The video queue read isRecording = true.
VideoArrives ==
    /\ ~crashed /\ isRecording /\ video = "idle"
    /\ Queue("status", audio) /\ Calm

\* Fault: the writer is started for every frame.
VideoStatusAlways ==
    /\ ~crashed /\ video = "status"
    /\ writer' = "writing"
    /\ crashed' = (writer # "unknown")
    /\ Queue("session", audio)
    /\ UNCHANGED <<session, unlucky>>

\* It reads assetWriter.status and starts a writer that is not writing.
VideoStatus ==
    /\ ~crashed /\ video = "status"
    /\ \/ /\ writer = "unknown"
          /\ writer' = "writing"
          /\ Queue("session", audio)
          /\ UNCHANGED <<session, crashed, unlucky>>
       \/ /\ writer \in {"writing", "finishing"}
          /\ Queue("input", audio) /\ Calm
       \/ /\ writer \in {"nil", "completed", "failed"}
          /\ crashed' = TRUE
          /\ Queue(video, audio)
          /\ UNCHANGED <<writer, session, unlucky>>

\* startSession.
VideoSession ==
    /\ ~crashed /\ video = "session"
    /\ IF writer \in {"nil", "completed", "failed"}
       THEN crashed' = TRUE /\ UNCHANGED session
       ELSE session' = TRUE /\ UNCHANGED crashed
    /\ Queue("input", audio)
    /\ UNCHANGED <<writer, unlucky>>

\* assetWriterVideoInput: if it is ready the sample is appended.
VideoInput ==
    /\ ~crashed /\ video = "input"
    /\ crashed' = (writer = "nil")
    /\ \E next \in (IF writer = "writing" THEN {"append", "idle"} ELSE {"idle"}) :
          Queue(next, audio)
    /\ UNCHANGED <<writer, session, unlucky>>

VideoAppend ==
    /\ ~crashed /\ video = "append"
    /\ crashed' = (writer \notin {"writing", "failed"})
    /\ Queue("idle", audio)
    /\ UNCHANGED <<writer, session, unlucky>>

\* The same for sound, which never starts the writer.
AudioArrives ==
    /\ ~crashed /\ isRecording /\ audio = "idle"
    /\ Queue(video, "input") /\ Calm

AudioInput ==
    /\ ~crashed /\ audio = "input"
    /\ crashed' = (writer = "nil")
    /\ \E next \in (IF writer = "writing" THEN {"append", "idle"} ELSE {"idle"}) :
          /\ Queue(video, next)
          /\ unlucky' = (unlucky \/ (next = "append" /\ ~session))
    /\ UNCHANGED <<writer, session>>

AudioAppend ==
    /\ ~crashed /\ audio = "append"
    /\ crashed' = (writer \notin {"writing", "failed"} \/ ~session)
    /\ Queue(video, "idle")
    /\ UNCHANGED <<writer, session, unlucky>>

Next ==
    \/ DidStarGesture
    \/ TimeRecord
    \/ WriterCompletes
    \/ WriterFails
    \/ CompletionHandler
    \/ TakeCompletes
    \/ BackToCamera
    \/ RetakeButtonClick
    \/ RetakeCancel
    \/ TakeButtonClick
    \/ CameraControlDidExit
    \/ VideoArrives \/ VideoStatus \/ VideoSession \/ VideoInput \/ VideoAppend
    \/ AudioArrives \/ AudioInput \/ AudioAppend

\* The timer fires, the writer finishes what it was told to finish or fails,
\* and its handler and the delayed block run.
Fairness ==
    /\ WF_vars(TimeRecord)
    /\ WF_vars(WriterCompletes)
    /\ WF_vars(CompletionHandler)
    /\ WF_vars(TakeCompletes)

Spec == Init /\ [][Next]_vars /\ Fairness
-----------------------------------------------------------------------------
\* The variables have their types.
TypeOK ==
    /\ open \in BOOLEAN /\ isStar \in BOOLEAN /\ timer \in BOOLEAN
    /\ recordTime \in Nat
    /\ cameraShown \in BOOLEAN /\ reviewShown \in BOOLEAN /\ barsShown \in BOOLEAN
    /\ alert \in {"none", "short", "retake"}
    /\ isRecording \in BOOLEAN /\ currentUrl \in 0..MaxTakes
    /\ writer \in {"nil", "unknown", "writing", "finishing", "completed", "failed"}
    /\ session \in BOOLEAN /\ handler \in {"none", "due", "delayed"}
    /\ video \in {"idle", "status", "session", "input", "append"}
    /\ audio \in {"idle", "input", "append"}
    /\ url \in 0..MaxTakes /\ handed \in Seq(0..MaxTakes)
    /\ written \subseteq 0..MaxTakes /\ failed \subseteq 0..MaxTakes
    /\ crashed \in BOOLEAN /\ unlucky \in BOOLEAN

\* A take is never longer than videoLength and one tick: every take begins at
\* zero, although only the way back to the camera resets recordTime.
TakesBounded == recordTime <= VideoLength + 1

\* What the user reviews is the file of the take that ended last, although
\* complete reads currentUrl 0.3 seconds after the writer finished and no lock
\* protects it, and it is completely written unless its own writer failed; the
\* host gets such files, none of them twice.
FileOfTheTake ==
    /\ written \cap failed = {}
    /\ reviewShown => url = currentUrl /\ currentUrl \in written \cup failed
    /\ \A i \in DOMAIN handed : handed[i] \in written \cup failed
    /\ \A i, j \in DOMAIN handed : i < j => handed[i] < handed[j]

\* The three parts of the screen follow each other: the camera button, nothing
\* while the writer finishes, the review buttons.  A take runs only behind the
\* camera button, and the bars are away from its start to the way back.
ScreensTakeTurns ==
    ~crashed => /\ cameraShown # (reviewShown \/ handler # "none")
                /\ ~(reviewShown /\ handler # "none")
                /\ timer = isRecording
                /\ timer => cameraShown /\ ~barsShown
                /\ barsShown = (cameraShown /\ ~timer)

\* The unlocked accesses of the queues are harmless in every take whose writer
\* could be made and did not fail, had its first frame before the stop, had no
\* callback under way at its start and stop and got no sound before its
\* session: what happened in an earlier take does no harm.
CrashNeedsBadLuck == crashed => unlucky

\* A tap on the camera button while no take is running starts one: "changed to
\* a single tap" in didStarGesture.
TapStartsTake ==
    [][ cameraShown /\ ~timer /\ isStar' # isStar => isRecording' ]_vars

\* Every take ends, by the second tap or by the timer, and its video is shown.
TakeIsShown == timer ~> reviewShown \/ crashed
=============================================================================
