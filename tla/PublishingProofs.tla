--------------------------- MODULE PublishingProofs ---------------------------
(***************************************************************************)
(* What the camera and the publishing screens promise together, for any    *)
(* number of takes, visits, photos, videos and exports.                    *)
(***************************************************************************)
EXTENDS Publishing, SequenceTheorems, TLAPS

(* The camera.                                                             *)

\* A take runs behind the camera button, which isStar knows, and begins at
\* zero because the button never comes back with an old recordTime.
TimeInv ==
    /\ timer => isStar /\ cameraShown /\ recordTime <= VideoLength
    /\ cameraShown /\ ~timer => recordTime = 0
    /\ recordTime <= VideoLength + 1

\* The three parts of the screen, and what an alert stands on.  The picker's
\* page is reached and left only while the bars are shown.
ScreenInv ==
    ~crashed => /\ cameraShown <=> ~(reviewShown \/ handler # "none")
                /\ ~(reviewShown /\ handler # "none")
                /\ timer <=> isRecording
                /\ timer => cameraShown /\ ~barsShown
                /\ barsShown <=> cameraShown /\ ~timer
                /\ alert # "none" => reviewShown
                /\ page = "picker" => barsShown

\* The writer: told to finish it belongs to a handler that is due, and between
\* takes there is none.
WriterInv ==
    ~crashed => /\ writer \in {"finishing", "completed"} => handler = "due"
                /\ handler = "due" => writer \in {"finishing", "completed", "failed"}
                /\ handler # "due" /\ ~isRecording => writer = "nil"
                /\ writer \in {"unknown", "writing", "finishing"} =>
                      currentUrl \notin written \cup failed
                /\ writer \in {"writing", "finishing"} => currentUrl # 0
                /\ writer = "completed" => currentUrl \in written
                /\ writer = "failed" => currentUrl \in failed

\* The file of the take: the name given out last does not change before the
\* review, and its file was written or its writer failed.
FileInv ==
    /\ WriterInv
    /\ ~crashed /\ handler = "delayed" => currentUrl \in written \cup failed
    /\ reviewShown => url = currentUrl /\ currentUrl \in written \cup failed
    /\ 0 \notin written \cup failed
    /\ written \cap failed = {}
    /\ written \cup failed \subseteq 0..currentUrl
    /\ timer \/ ~cameraShown => currentUrl # 0
    /\ \A i \in DOMAIN handed : handed[i] \in written \cup failed /\ handed[i] <= currentUrl
    /\ timer \/ ~cameraShown => \A i \in DOMAIN handed : handed[i] < currentUrl
    /\ \A i, j \in DOMAIN handed : i < j => handed[i] < handed[j]

\* With luck the queues are busy only during a take, whose writer was made,
\* has begun before a sample reaches it and has not failed.
LuckInv ==
    ~unlucky => /\ ~crashed /\ currentUrl \notin failed
                /\ video # "idle" \/ audio # "idle" => isRecording
                /\ isRecording => writer \in {"unknown", "writing"}
                /\ isRecording /\ session => writer = "writing"
                /\ video \in {"session", "input", "append"} => writer = "writing"
                /\ audio = "append" => writer = "writing" /\ session

\* The add cell is there while the image picker is open.
PhotosInv == top = "photos" => Contains(dataArray, "add")

\* A file is named after the second of its export, and the exports are bounded.
ExportInv ==
    /\ posts + Len(exports) <= MaxExports
    /\ \A i \in DOMAIN exports : exports[i].name = exports[i].at

CameraInv == TypeOK /\ TimeInv /\ ScreenInv /\ FileInv /\ LuckInv
-----------------------------------------------------------------------------
\* The files handed to the host are numbers.
LEMMA UrlNumbers ==
    ASSUME TypeOK
    PROVE  \A i \in DOMAIN handed : handed[i] \in Nat
<1>1. handed \in Seq(0..MaxTakes)
  BY DEF TypeOK
<1>2. ASSUME NEW i \in DOMAIN handed PROVE handed[i] \in Nat
  <2>1. i \in 1..Len(handed)
    BY <1>1, LenProperties
  <2>2. handed[i] \in 0..MaxTakes
    BY <1>1, <2>1, ElementOfSeq
  <2>. QED BY <2>2
<1>. QED BY <1>2

\* A take begins.
LEMMA BeginStep ==
    ASSUME CameraInv, DidStarGesture, ~isStar, page = "camera", page' = page
    PROVE  CameraInv'
<1>0. /\ currentUrl \in Nat /\ recordTime \in Nat /\ MaxTakes \in Nat /\ VideoLength \in Nat
      /\ currentUrl < MaxTakes
  BY CameraAssumption DEF CameraInv, TypeOK, DidStarGesture
<1>1. isStar' /\ isStar' \in BOOLEAN
  BY Zenon DEF DidStarGesture
<1>2. /\ timer' = TRUE /\ isRecording' = TRUE /\ barsShown' = FALSE
      /\ currentUrl' = currentUrl + 1
      /\ UNCHANGED <<open, recordTime, cameraShown, reviewShown, alert, handler, video, audio,
                     url, handed, crashed, written, failed>>
  BY <1>1 DEF DidStarGesture, LongPressBegin, CameraControlBeginTakeVideo, StartRecordingVideo
<1>3. PICK made \in BOOLEAN : StartRecordingVideo(made)
  BY <1>1 DEF DidStarGesture, LongPressBegin, CameraControlBeginTakeVideo
<1>4. /\ made => writer' = "unknown" /\ session' = FALSE
      /\ ~made => writer' = writer /\ session' = session
  BY <1>3 DEF StartRecordingVideo
<1>5. unlucky' \in BOOLEAN /\ (unlucky' <=> ~made \/ video # "idle" \/ audio # "idle")
  BY <1>3, Zenon DEF StartRecordingVideo
<1>6. cameraShown /\ ~crashed
  BY DEF DidStarGesture, Touchable
<1>7. TypeOK'
  <2>1. currentUrl' \in 0..MaxTakes
    BY <1>0, <1>2
  <2>2. /\ writer' \in {"nil", "unknown", "writing", "finishing", "completed", "failed"}
        /\ session' \in BOOLEAN
    BY <1>4 DEF CameraInv, TypeOK
  <2>. QED BY <1>1, <1>2, <1>5, <2>1, <2>2 DEF CameraInv, TypeOK
<1>8. TimeInv'
  BY <1>0, <1>1, <1>2, <1>6 DEF CameraInv, TimeInv
<1>9. ScreenInv'
  BY <1>2, <1>6 DEF CameraInv, ScreenInv
<1>10. currentUrl' \notin written \cup failed
  BY <1>0, <1>2 DEF CameraInv, FileInv
<1>11. FileInv'
  <2>1. handler = "none" /\ ~reviewShown /\ (~isRecording \/ timer)
    BY <1>6 DEF CameraInv, ScreenInv
  <2>2. ~isRecording
    BY <1>6, <2>1 DEF CameraInv, TimeInv
  <2>3. writer' \in {"nil", "unknown"}
    BY <1>4, <1>6, <2>1, <2>2 DEF CameraInv, FileInv, WriterInv
  <2>4. \A i \in DOMAIN handed : handed[i] \in Nat
    BY UrlNumbers DEF CameraInv
  <2>5. \A i \in DOMAIN handed' :
           handed'[i] \in written' \cup failed' /\ handed'[i] < currentUrl'
    BY <1>0, <1>2, <2>4 DEF CameraInv, FileInv
  <2>6. WriterInv'
    BY <1>2, <1>10, <2>1, <2>3 DEF WriterInv
  <2>7. written' \cup failed' \subseteq 0..currentUrl'
    BY <1>0, <1>2 DEF CameraInv, FileInv
  <2>. QED BY <1>0, <1>2, <1>6, <2>1, <2>4, <2>5, <2>6, <2>7 DEF CameraInv, FileInv
<1>12. LuckInv'
  BY <1>1, <1>2, <1>4, <1>5, <1>6, <1>10 DEF CameraInv, LuckInv
<1>. QED BY <1>7, <1>8, <1>9, <1>11, <1>12 DEF CameraInv

\* longPressEnd ends a take, if one is running: its writer is told to finish.
LEMMA EndStep ==
    ASSUME CameraInv, LongPressEnd, ~crashed, isStar' \in BOOLEAN,
           ~timer => isStar' = ~isStar /\ recordTime' = recordTime,
           timer => recordTime' \in Nat /\ recordTime' <= VideoLength + 1,
           page' = page, UNCHANGED <<open, reviewShown, alert, video, audio, url, handed, written, failed>>
    PROVE  CameraInv'
<1>1. CASE ~timer
  <2>1. /\ recordTime' = recordTime
        /\ UNCHANGED <<timer, cameraShown, isRecording, currentUrl, writer, session, handler,
                    barsShown, crashed, unlucky>>
    BY <1>1 DEF LongPressEnd, manager
  <2>2. TypeOK'
    BY <2>1 DEF CameraInv, TypeOK
  <2>3. TimeInv' /\ ScreenInv'
    BY <1>1, <2>1 DEF CameraInv, TimeInv, ScreenInv
  <2>4. FileInv'
    BY <2>1 DEF CameraInv, FileInv, WriterInv
  <2>5. LuckInv'
    BY <2>1 DEF CameraInv, LuckInv
  <2>. QED BY <2>2, <2>3, <2>4, <2>5 DEF CameraInv
<1>2. CASE timer
  <2>1. /\ timer' = FALSE /\ cameraShown' = FALSE /\ isRecording' = FALSE
        /\ UNCHANGED <<barsShown, currentUrl, session>>
    BY <1>2 DEF LongPressEnd, EndRecordingVideo
  <2>2. \/ writer = "writing" /\ writer' = "finishing" /\ handler' = "due" /\ crashed' = crashed
        \/ writer # "writing" /\ crashed' = TRUE /\ UNCHANGED <<writer, handler>>
    BY <1>2 DEF LongPressEnd, EndRecordingVideo
  <2>3. /\ unlucky' \in BOOLEAN
        /\ unlucky' <=> unlucky \/ ~session \/ video # "idle" \/ audio # "idle"
    BY <1>2, Zenon DEF LongPressEnd, EndRecordingVideo
  <2>4. cameraShown /\ isRecording /\ ~barsShown /\ handler = "none" /\ ~reviewShown
    BY <1>2 DEF CameraInv, ScreenInv
  <2>5. TypeOK'
    <3>1. /\ writer' \in {"nil", "unknown", "writing", "finishing", "completed", "failed"}
          /\ handler' \in {"none", "due", "delayed"} /\ crashed' \in BOOLEAN
      BY <2>2 DEF CameraInv, TypeOK
    <3>. QED BY <1>2, <2>1, <2>3, <3>1 DEF CameraInv, TypeOK
  <2>6. TimeInv'
    BY <1>2, <2>1 DEF CameraInv, TimeInv
  <2>7. ScreenInv'
    BY <2>1, <2>2, <2>4 DEF CameraInv, ScreenInv
  <2>8. FileInv'
    BY <1>2, <2>1, <2>2, <2>4 DEF CameraInv, FileInv, WriterInv
  <2>9. LuckInv'
    BY <2>1, <2>2, <2>3, <2>4 DEF CameraInv, LuckInv
  <2>. QED BY <2>5, <2>6, <2>7, <2>8, <2>9 DEF CameraInv
<1>. QED BY <1>1, <1>2 DEF CameraInv, TypeOK

\* A tap on the camera button, and a tick of the timer.
LEMMA TapAndTickStep ==
    ASSUME CameraInv, page' = page, (DidStarGesture /\ page = "camera") \/ TimeRecord
    PROVE  CameraInv'
<1>1. CASE DidStarGesture /\ page = "camera" /\ ~isStar
  BY <1>1, BeginStep
<1>2. CASE DidStarGesture /\ isStar
  <2>1. isStar' = FALSE /\ isStar' = ~isStar
    BY <1>2, Zenon DEF DidStarGesture
  <2>2. /\ LongPressEnd /\ ~crashed
        /\ UNCHANGED <<open, recordTime, reviewShown, alert, video, audio, url, handed, written, failed>>
    BY <1>2, <2>1 DEF DidStarGesture, Touchable
  <2>3. recordTime \in Nat /\ recordTime <= VideoLength + 1
    BY DEF CameraInv, TypeOK, TimeInv
  <2>. QED BY <2>1, <2>2, <2>3, EndStep
<1>3. CASE TimeRecord
  <2>1. /\ timer /\ ~crashed /\ recordTime' = recordTime + 1
        /\ UNCHANGED <<open, isStar, reviewShown, alert, video, audio, url, handed, written, failed>>
    BY <1>3 DEF TimeRecord
  <2>2. recordTime \in Nat /\ recordTime <= VideoLength /\ VideoLength \in Nat /\ isStar \in BOOLEAN
    BY <2>1, CameraAssumption DEF CameraInv, TypeOK, TimeInv
  <2>3. CASE recordTime' > VideoLength
    <3>1. LongPressEnd
      BY <1>3, <2>3 DEF TimeRecord
    <3>. QED BY <2>1, <2>2, <3>1, EndStep
  <2>4. CASE ~(recordTime' > VideoLength)
    <3>1. UNCHANGED <<timer, cameraShown, isRecording, currentUrl, writer, session, handler,
                      barsShown, crashed, unlucky>>
      BY <1>3, <2>4 DEF TimeRecord, manager
    <3>2. TypeOK'
      BY <2>1, <2>2, <3>1 DEF CameraInv, TypeOK
    <3>3. TimeInv'
      BY <2>1, <2>2, <2>4, <3>1 DEF CameraInv, TimeInv
    <3>4. ScreenInv' /\ FileInv' /\ LuckInv'
      BY <2>1, <3>1 DEF CameraInv, ScreenInv, FileInv, WriterInv, LuckInv
    <3>. QED BY <3>2, <3>3, <3>4 DEF CameraInv
  <2>. QED BY <2>3, <2>4
<1>. QED BY <1>1, <1>2, <1>3

\* The writer finishes or fails, its handler runs, and complete shows the take.
LEMMA CompletionStep ==
    ASSUME CameraInv, page' = page,
           WriterCompletes \/ WriterFails \/ CompletionHandler \/ TakeCompletes
    PROVE  CameraInv'
<1>0. /\ currentUrl \in 0..MaxTakes /\ url \in 0..MaxTakes
      /\ written \subseteq 0..MaxTakes /\ failed \subseteq 0..MaxTakes
  BY DEF CameraInv, TypeOK
<1>1. CASE WriterCompletes
  <2>1. /\ ~crashed /\ writer = "finishing" /\ writer' = "completed"
        /\ written' = written \cup {currentUrl}
        /\ UNCHANGED <<open, isStar, timer, recordTime, cameraShown, reviewShown, alert, barsShown,
                       isRecording, currentUrl, session, handler, video, audio, url, handed,
                       crashed, failed, unlucky>>
    BY <1>1 DEF WriterCompletes, control
  <2>2. /\ handler = "due" /\ ~cameraShown /\ ~isRecording /\ currentUrl # 0
        /\ currentUrl \notin failed
    BY <2>1 DEF CameraInv, ScreenInv, FileInv, WriterInv
  <2>3. TypeOK'
    BY <1>0, <2>1 DEF CameraInv, TypeOK
  <2>4. TimeInv' /\ ScreenInv'
    BY <2>1 DEF CameraInv, TimeInv, ScreenInv
  <2>5. FileInv'
    <3>1. WriterInv'
      BY <2>1, <2>2 DEF WriterInv
    <3>2. written' \cup failed' \subseteq 0..currentUrl' /\ written' \cap failed' = {}
      BY <1>0, <2>1, <2>2 DEF CameraInv, FileInv
    <3>. QED BY <2>1, <2>2, <3>1, <3>2 DEF CameraInv, FileInv
  <2>6. LuckInv'
    BY <2>1, <2>2 DEF CameraInv, LuckInv
  <2>. QED BY <2>3, <2>4, <2>5, <2>6 DEF CameraInv
<1>2. CASE WriterFails
  <2>1. /\ ~crashed /\ writer \in {"writing", "finishing"} /\ writer' = "failed"
        /\ failed' = failed \cup {currentUrl} /\ unlucky' = TRUE
        /\ UNCHANGED <<open, isStar, timer, recordTime, cameraShown, reviewShown, alert, barsShown,
                       isRecording, currentUrl, session, handler, video, audio, url, handed,
                       crashed, written>>
    BY <1>2 DEF WriterFails, control
  <2>2. /\ currentUrl # 0 /\ currentUrl \notin written
        /\ handler = "due" \/ isRecording
    BY <2>1 DEF CameraInv, FileInv, WriterInv
  <2>3. TypeOK'
    BY <1>0, <2>1 DEF CameraInv, TypeOK
  <2>4. TimeInv' /\ ScreenInv' /\ LuckInv'
    BY <2>1 DEF CameraInv, TimeInv, ScreenInv, LuckInv
  <2>5. FileInv'
    <3>1. WriterInv'
      BY <2>1, <2>2 DEF WriterInv
    <3>2. written' \cup failed' \subseteq 0..currentUrl' /\ written' \cap failed' = {}
      BY <1>0, <2>1, <2>2 DEF CameraInv, FileInv
    <3>. QED BY <2>1, <2>2, <3>1, <3>2 DEF CameraInv, FileInv
  <2>. QED BY <2>3, <2>4, <2>5 DEF CameraInv
<1>3. CASE CompletionHandler
  <2>1. /\ ~crashed /\ writer \in {"completed", "failed"} /\ handler = "due" /\ writer' = "nil"
        /\ handler' = "delayed"
        /\ UNCHANGED <<open, isStar, timer, recordTime, cameraShown, reviewShown, alert, barsShown,
                       isRecording, currentUrl, session, video, audio, url, handed, crashed,
                       written, failed, unlucky>>
    BY <1>3 DEF CompletionHandler, control
  <2>2. ~cameraShown /\ ~isRecording
    BY <2>1 DEF CameraInv, ScreenInv
  <2>3. TypeOK'
    BY <2>1 DEF CameraInv, TypeOK
  <2>4. TimeInv' /\ ScreenInv'
    BY <2>1 DEF CameraInv, TimeInv, ScreenInv
  <2>5. FileInv'
    BY <2>1, <2>2 DEF CameraInv, FileInv, WriterInv
  <2>6. LuckInv'
    BY <2>1, <2>2 DEF CameraInv, LuckInv
  <2>. QED BY <2>3, <2>4, <2>5, <2>6 DEF CameraInv
<1>4. CASE TakeCompletes
  <2>1. /\ ~crashed /\ handler = "delayed" /\ handler' = "none" /\ url' = currentUrl
        /\ reviewShown' = TRUE /\ alert' \in {"short", "none"}
        /\ UNCHANGED <<open, isStar, timer, recordTime, cameraShown, barsShown, isRecording,
                       currentUrl, writer, session, video, audio, handed, crashed, written,
                       failed, unlucky>>
    BY <1>4 DEF TakeCompletes, ShowCompleteAnimation
  <2>2. TypeOK'
    BY <1>0, <2>1 DEF CameraInv, TypeOK
  <2>3. TimeInv' /\ ScreenInv'
    BY <2>1 DEF CameraInv, TimeInv, ScreenInv
  <2>4. FileInv'
    BY <2>1 DEF CameraInv, FileInv, WriterInv
  <2>5. LuckInv'
    BY <2>1 DEF CameraInv, LuckInv
  <2>. QED BY <2>2, <2>3, <2>4, <2>5 DEF CameraInv
<1>. QED BY <1>1, <1>2, <1>3, <1>4

\* The alerts, and the way back to the camera.
LEMMA ReviewStep ==
    ASSUME CameraInv, page' = page, BackToCamera \/ RetakeButtonClick \/ RetakeCancel
    PROVE  CameraInv'
<1>1. CASE BackToCamera
  <2>1. /\ ~crashed /\ alert # "none" /\ alert' = "none" /\ cameraShown' = TRUE
        /\ reviewShown' = FALSE /\ recordTime' = 0 /\ barsShown' = TRUE
        /\ UNCHANGED <<open, isStar, timer, isRecording, currentUrl, writer, session, handler,
                       video, audio, url, handed, crashed, written, failed, unlucky>>
    BY <1>1 DEF BackToCamera, CameraControlDidClickBack, manager
  <2>2. reviewShown /\ handler = "none" /\ ~timer
    BY <2>1 DEF CameraInv, ScreenInv
  <2>3. TypeOK'
    <3>1. /\ recordTime' \in Nat /\ alert' \in {"none", "short", "retake"}
          /\ cameraShown' \in BOOLEAN /\ reviewShown' \in BOOLEAN /\ barsShown' \in BOOLEAN
      BY <2>1
    <3>. QED BY <2>1, <3>1 DEF CameraInv, TypeOK
  <2>4. TimeInv'
    BY <2>1, <2>2, CameraAssumption DEF CameraInv, TimeInv
  <2>5. ScreenInv'
    BY <2>1, <2>2 DEF CameraInv, ScreenInv
  <2>6. FileInv'
    BY <2>1, <2>2 DEF CameraInv, FileInv, WriterInv
  <2>7. LuckInv'
    BY <2>1 DEF CameraInv, LuckInv
  <2>. QED BY <2>3, <2>4, <2>5, <2>6, <2>7 DEF CameraInv
<1>2. CASE RetakeButtonClick \/ RetakeCancel
  <2>1. /\ alert' \in {"retake", "none"} /\ (alert' = "retake" => reviewShown)
        /\ UNCHANGED <<open, isStar, timer, recordTime, cameraShown, reviewShown, barsShown,
                       isRecording, currentUrl, writer, session, handler, video, audio, url,
                       handed, crashed, written, failed, unlucky>>
    BY <1>2 DEF RetakeButtonClick, RetakeCancel, manager
  <2>2. TypeOK'
    BY <2>1 DEF CameraInv, TypeOK
  <2>3. TimeInv' /\ ScreenInv'
    BY <2>1 DEF CameraInv, TimeInv, ScreenInv
  <2>4. FileInv' /\ LuckInv'
    BY <2>1 DEF CameraInv, FileInv, WriterInv, LuckInv
  <2>. QED BY <2>2, <2>3, <2>4 DEF CameraInv
<1>. QED BY <1>1, <1>2

\* The screen goes: only with the camera at rest or the review shown, so the
\* handler and the flag that Leave forgets are at rest too.
LEMMA LeaveStep ==
    ASSUME CameraInv, Leave, ~crashed, reviewShown \/ barsShown,
           \/ handed' = handed /\ crashed' = crashed
           \/ /\ reviewShown /\ handed' = Append(handed, url) /\ crashed' \in BOOLEAN
              /\ crashed' => url \in failed
    PROVE  TypeOK' /\ TimeInv' /\ FileInv' /\ LuckInv' /\ ScreenInv'
<1>1. /\ isStar' = FALSE /\ timer' = FALSE /\ recordTime' = 0 /\ cameraShown' = TRUE
      /\ reviewShown' = FALSE /\ alert' = "none" /\ barsShown' = TRUE /\ url' = 0
      /\ writer' = "nil" /\ session' = FALSE /\ open' = FALSE
      /\ UNCHANGED <<isRecording, currentUrl, handler, video, audio, written, failed, unlucky>>
  BY DEF Leave
<1>2. handler = "none" /\ ~isRecording
  BY DEF CameraInv, ScreenInv
<1>3. handed \in Seq(0..MaxTakes) /\ url \in 0..MaxTakes
  BY DEF CameraInv, TypeOK
<1>4. handed' \in Seq(0..MaxTakes)
  <2>1. Append(handed, url) \in Seq(0..MaxTakes)
    BY <1>3, AppendProperties
  <2>. QED BY <1>3, <2>1
<1>5. TypeOK'
  <2>1. /\ isStar' \in BOOLEAN /\ timer' \in BOOLEAN /\ recordTime' \in Nat
        /\ cameraShown' \in BOOLEAN /\ reviewShown' \in BOOLEAN /\ barsShown' \in BOOLEAN
        /\ alert' \in {"none", "short", "retake"} /\ open' \in BOOLEAN
        /\ writer' \in {"nil", "unknown", "writing", "finishing", "completed", "failed"}
        /\ session' \in BOOLEAN
    BY <1>1
  <2>2. url' \in 0..MaxTakes
    BY <1>1, CameraAssumption
  <2>. QED BY <1>1, <1>4, <2>1, <2>2 DEF CameraInv, TypeOK
<1>6. TimeInv'
  BY <1>1, CameraAssumption DEF TimeInv
<1>7. ScreenInv'
  BY <1>1, <1>2 DEF ScreenInv
<1>8. FileInv'
  <2>1. \A i \in DOMAIN handed' : handed'[i] \in written \cup failed /\ handed'[i] <= currentUrl
    <3>1. CASE handed' = handed
      BY <3>1 DEF CameraInv, FileInv
    <3>2. CASE reviewShown /\ handed' = Append(handed, url)
      <4>1. /\ Len(handed) \in Nat /\ DOMAIN handed = 1..Len(handed)
            /\ DOMAIN handed' = 1..(Len(handed) + 1)
            /\ \A i \in 1..Len(handed) : handed'[i] = handed[i]
            /\ handed'[Len(handed) + 1] = url
        BY <1>3, <3>2, AppendProperties, LenProperties
      <4>2. url \in written \cup failed /\ url = currentUrl /\ currentUrl \in Nat
        BY <3>2 DEF CameraInv, FileInv, TypeOK
      <4>. QED BY <4>1, <4>2 DEF CameraInv, FileInv
    <3>. QED BY <3>1, <3>2
  <2>2. \A i, j \in DOMAIN handed' : i < j => handed'[i] < handed'[j]
    <3>1. CASE handed' = handed
      BY <3>1 DEF CameraInv, FileInv
    <3>2. CASE reviewShown /\ handed' = Append(handed, url)
      <4>1. /\ Len(handed) \in Nat /\ DOMAIN handed = 1..Len(handed)
            /\ DOMAIN handed' = 1..(Len(handed) + 1)
            /\ \A i \in 1..Len(handed) : handed'[i] = handed[i]
            /\ handed'[Len(handed) + 1] = url
        BY <1>3, <3>2, AppendProperties, LenProperties
      <4>2. ~cameraShown /\ url = currentUrl
        BY <3>2 DEF CameraInv, ScreenInv, FileInv
      <4>3. /\ \A i \in 1..Len(handed) : handed[i] < url
            /\ \A i, j \in 1..Len(handed) : i < j => handed[i] < handed[j]
        BY <4>1, <4>2 DEF CameraInv, FileInv
      <4>. QED BY <4>1, <4>3
    <3>. QED BY <3>1, <3>2
  <2>3. /\ 0 \notin written \cup failed /\ written \cap failed = {}
        /\ written \cup failed \subseteq 0..currentUrl
    BY DEF CameraInv, FileInv
  <2>4. WriterInv'
    BY <1>1, <1>2 DEF WriterInv
  <2>. QED BY <1>1, <1>2, <2>1, <2>2, <2>3, <2>4 DEF FileInv
<1>9. LuckInv'
  <2>1. crashed' => unlucky
    BY DEF CameraInv, LuckInv, FileInv
  <2>. QED BY <1>1, <1>2, <2>1 DEF CameraInv, LuckInv
<1>. QED BY <1>5, <1>6, <1>7, <1>8, <1>9

\* The video queue.
LEMMA VideoStep ==
    ASSUME CameraInv, page' = page,
           VideoArrives \/ VideoStatus \/ VideoSession \/ VideoInput \/ VideoAppend
    PROVE  CameraInv'
<1>. DEFINE frame == <<open, isStar, timer, recordTime, cameraShown, reviewShown, alert, barsShown,
                       isRecording, currentUrl, handler, url, handed, written, failed, audio, unlucky>>
<1>1. /\ ~crashed /\ UNCHANGED frame
      /\ video' \in {"idle", "status", "session", "input", "append"}
  <2>1. CASE VideoArrives
    BY <2>1 DEF VideoArrives, Queue, Calm, control
  <2>2. CASE VideoStatus
    BY <2>2 DEF VideoStatus, Queue, Calm, control, CameraInv, TypeOK
  <2>3. CASE VideoSession
    BY <2>3 DEF VideoSession, Queue, control
  <2>4. CASE VideoInput
    BY <2>4 DEF VideoInput, Queue, control
  <2>5. CASE VideoAppend
    BY <2>5 DEF VideoAppend, Queue, control
  <2>. QED BY <2>1, <2>2, <2>3, <2>4, <2>5
<1>2. \/ writer' = writer
      \/ video = "status" /\ writer = "unknown" /\ writer' = "writing"
  BY DEF VideoArrives, VideoStatus, VideoSession, VideoInput, VideoAppend, Calm
<1>3. crashed' \in BOOLEAN
  BY Zenon DEF VideoArrives, VideoStatus, VideoSession, VideoInput, VideoAppend, Calm, CameraInv, TypeOK
<1>4. session' \in BOOLEAN
  BY DEF VideoArrives, VideoStatus, VideoSession, VideoInput, VideoAppend, Calm, CameraInv, TypeOK
<1>5. TypeOK'
  <2>1. writer' \in {"nil", "unknown", "writing", "finishing", "completed", "failed"}
    BY <1>2 DEF CameraInv, TypeOK
  <2>. QED BY <1>1, <1>3, <1>4, <2>1 DEF CameraInv, TypeOK
<1>6. TimeInv' /\ ScreenInv'
  BY <1>1 DEF CameraInv, TimeInv, ScreenInv
<1>7. FileInv'
  <2>1. WriterInv'
    <3>1. CASE writer' = writer
      BY <1>1, <3>1 DEF CameraInv, FileInv, WriterInv
    <3>2. CASE writer = "unknown" /\ writer' = "writing"
      <4>1. isRecording /\ handler # "due" /\ timer
        BY <1>1, <3>2 DEF CameraInv, FileInv, WriterInv, ScreenInv
      <4>. QED BY <1>1, <3>2, <4>1 DEF CameraInv, FileInv, WriterInv
    <3>. QED BY <1>2, <3>1, <3>2
  <2>. QED BY <1>1, <2>1 DEF CameraInv, FileInv
<1>8. ASSUME ~unlucky PROVE LuckInv'
  <2>1. CASE VideoArrives
    BY <1>1, <1>8, <2>1 DEF CameraInv, LuckInv, VideoArrives, Calm, Queue
  <2>2. CASE VideoStatus
    BY <1>1, <1>8, <2>2 DEF CameraInv, LuckInv, VideoStatus, Calm, Queue
  <2>3. CASE VideoSession
    BY <1>1, <1>8, <2>3 DEF CameraInv, LuckInv, VideoSession, Queue
  <2>4. CASE VideoInput
    BY <1>1, <1>8, <2>4 DEF CameraInv, LuckInv, VideoInput, Queue
  <2>5. CASE VideoAppend
    <3>1. video = "append" /\ writer = "writing"
      BY <1>8, <2>5 DEF CameraInv, LuckInv, VideoAppend
    <3>2. ~crashed' /\ video' = "idle" /\ UNCHANGED <<writer, session>>
      BY <2>5, <3>1 DEF VideoAppend, Queue
    <3>. QED BY <1>1, <1>8, <3>1, <3>2 DEF CameraInv, LuckInv
  <2>. QED BY <2>1, <2>2, <2>3, <2>4, <2>5
<1>9. LuckInv'
  BY <1>1, <1>8 DEF LuckInv
<1>. QED BY <1>5, <1>6, <1>7, <1>9 DEF CameraInv

\* The sound queue.
LEMMA AudioStep ==
    ASSUME CameraInv, page' = page, AudioArrives \/ AudioInput \/ AudioAppend
    PROVE  CameraInv'
<1>. DEFINE frame == <<open, isStar, timer, recordTime, cameraShown, reviewShown, alert, barsShown,
                       isRecording, currentUrl, handler, url, handed, written, failed, video, writer,
                       session>>
<1>1. ~crashed /\ UNCHANGED frame /\ audio' \in {"idle", "input", "append"}
  <2>1. CASE AudioArrives
    BY <2>1 DEF AudioArrives, Queue, Calm, control
  <2>2. CASE AudioInput
    BY <2>2 DEF AudioInput, Queue, control
  <2>3. CASE AudioAppend
    BY <2>3 DEF AudioAppend, Queue, control
  <2>. QED BY <2>1, <2>2, <2>3
<1>2. crashed' \in BOOLEAN
  BY Zenon DEF AudioArrives, AudioInput, AudioAppend, Calm, CameraInv, TypeOK
<1>3. /\ unlucky' \in BOOLEAN
      /\ unlucky => unlucky'
      /\ AudioInput /\ audio' = "append" /\ ~unlucky' => session
  <2>1. CASE AudioArrives \/ AudioAppend
    BY <2>1 DEF AudioArrives, AudioAppend, AudioInput, Calm, CameraInv, TypeOK, Queue
  <2>2. CASE AudioInput
    <3>1. PICK next \in {"append", "idle"} :
             audio' = next /\ unlucky' = (unlucky \/ (next = "append" /\ ~session))
      BY <2>2, Zenon DEF AudioInput, Queue
    <3>. QED BY <3>1, Zenon
  <2>. QED BY <2>1, <2>2
<1>4. TypeOK'
  BY <1>1, <1>2, <1>3 DEF CameraInv, TypeOK
<1>5. TimeInv' /\ ScreenInv'
  BY <1>1 DEF CameraInv, TimeInv, ScreenInv
<1>6. FileInv'
  BY <1>1 DEF CameraInv, FileInv, WriterInv
<1>7. ASSUME ~unlucky' PROVE LuckInv'
  <2>1. CASE AudioArrives
    BY <1>1, <1>3, <1>7, <2>1 DEF CameraInv, LuckInv, AudioArrives, Calm, Queue
  <2>2. CASE AudioInput
    BY <1>1, <1>3, <1>7, <2>2 DEF CameraInv, LuckInv, AudioInput, Queue
  <2>3. CASE AudioAppend
    BY <1>1, <1>3, <1>7, <2>3 DEF CameraInv, LuckInv, AudioAppend, Queue
  <2>. QED BY <2>1, <2>2, <2>3
<1>8. LuckInv'
  BY <1>7 DEF LuckInv
<1>. QED BY <1>4, <1>5, <1>6, <1>8 DEF CameraInv

\* A step of another screen: it may present the camera, turn its page while the
\* bars are shown, and crash, by bad luck.
LEMMA QuietStep ==
    ASSUME CameraInv, open' \in BOOLEAN, crashed' \in BOOLEAN, unlucky' \in BOOLEAN,
           unlucky => unlucky', crashed => crashed', crashed' => crashed \/ unlucky',
           page' = page \/ barsShown,
           UNCHANGED <<control, manager, video, audio, url, handed, written, failed>>
    PROVE  CameraInv'
<1>1. UNCHANGED <<isStar, timer, recordTime, cameraShown, reviewShown, alert, barsShown,
                  isRecording, currentUrl, writer, session, handler, video, audio, url, handed,
                  written, failed>>
  BY DEF control, manager
<1>2. TypeOK'
  BY <1>1 DEF CameraInv, TypeOK
<1>3. TimeInv' /\ ScreenInv'
  BY <1>1 DEF CameraInv, TimeInv, ScreenInv
<1>4. FileInv'
  BY <1>1 DEF CameraInv, FileInv, WriterInv
<1>5. LuckInv'
  BY <1>1 DEF CameraInv, LuckInv
<1>. QED BY <1>2, <1>3, <1>4, <1>5 DEF CameraInv
-----------------------------------------------------------------------------
(* The grid.                                                               *)

Cell == {"photo", "add"}

\* The grid of n photos.
Grid(n) == IF n < GridLimit THEN Append(Photos(n), "add") ELSE Photos(n)

\* Its photos come first, then the add cell, unless it is full.
LEMMA GridFacts ==
    ASSUME NEW n \in 0..GridLimit
    PROVE  /\ Grid(n) \in Seq(Cell)
           /\ Len(Grid(n)) = IF n < GridLimit THEN n + 1 ELSE n
           /\ \A i \in 1..n : Grid(n)[i] = "photo"
           /\ n < GridLimit => Grid(n)[n + 1] = "add"
<1>0. n \in Nat /\ GridLimit \in Nat
  BY PublishingAssumption
<1>1. /\ Photos(n) \in Seq(Cell) /\ Len(Photos(n)) = n
      /\ \A i \in 1..n : Photos(n)[i] = "photo"
  BY <1>0 DEF Photos, Cell
<1>2. "add" \in Cell
  BY DEF Cell
<1>3. CASE n < GridLimit
  <2>1. /\ Append(Photos(n), "add") \in Seq(Cell)
        /\ Len(Append(Photos(n), "add")) = n + 1
        /\ \A i \in 1..n : Append(Photos(n), "add")[i] = Photos(n)[i]
        /\ Append(Photos(n), "add")[n + 1] = "add"
    BY <1>1, <1>2, AppendProperties
  <2>. QED BY <1>1, <1>3, <2>1 DEF Grid
<1>4. CASE ~(n < GridLimit)
  BY <1>1, <1>4 DEF Grid
<1>. QED BY <1>3, <1>4

\* A list that looks like the grid of n photos is the grid of n photos.
LEMMA IsGrid ==
    ASSUME NEW s \in Seq(Cell), NEW n \in 0..GridLimit,
           Len(s) = IF n < GridLimit THEN n + 1 ELSE n,
           \A i \in 1..n : s[i] = "photo",
           n < GridLimit => s[n + 1] = "add"
    PROVE  s = Grid(n)
<1>0. n \in Nat /\ GridLimit \in Nat
  BY PublishingAssumption
<1>1. ASSUME NEW i \in 1..Len(s) PROVE s[i] = Grid(n)[i]
  BY <1>0, <1>1, GridFacts
<1>2. Grid(n) \in Seq(Cell) /\ Len(s) = Len(Grid(n))
  BY GridFacts
<1>. QED BY <1>1, <1>2, SeqEqual

\* remove(at:) closes the gap.
LEMMA RemoveAtFacts ==
    ASSUME NEW S, NEW s \in Seq(S), NEW i \in 1..Len(s)
    PROVE  /\ RemoveAt(s, i) \in Seq(S)
           /\ Len(s) \in Nat \ {0} /\ Len(RemoveAt(s, i)) = Len(s) - 1
           /\ \A k \in 1..(Len(s) - 1) : RemoveAt(s, i)[k] = IF k < i THEN s[k] ELSE s[k + 1]
<1>. DEFINE a == SubSeq(s, 1, i - 1)
            b == SubSeq(s, i + 1, Len(s))
<1>0. Len(s) \in Nat /\ i \in Nat /\ \A k \in 1..Len(s) : s[k] \in S
  BY LenProperties, ElementOfSeq
<1>1. /\ a \in Seq(S) /\ Len(a) = i - 1
      /\ \A k \in 1..(i - 1) : a[k] = s[k]
  <2>1. \A k \in 1..(i - 1) : s[k] \in S
    BY <1>0
  <2>2. /\ a \in Seq(S) /\ Len(a) = IF 1 <= i - 1 THEN (i - 1) - 1 + 1 ELSE 0
        /\ \A k \in 1..((i - 1) - 1 + 1) : a[k] = s[1 + k - 1]
    BY <1>0, <2>1, SubSeqProperties
  <2>. HIDE DEF a
  <2>. QED BY <1>0, <2>2
<1>2. /\ b \in Seq(S) /\ Len(b) = Len(s) - i
      /\ \A k \in 1..(Len(s) - i) : b[k] = s[i + k]
  <2>1. \A k \in (i + 1)..Len(s) : s[k] \in S
    BY <1>0
  <2>2. /\ b \in Seq(S) /\ Len(b) = IF i + 1 <= Len(s) THEN Len(s) - (i + 1) + 1 ELSE 0
        /\ \A k \in 1..(Len(s) - (i + 1) + 1) : b[k] = s[(i + 1) + k - 1]
    BY <1>0, <2>1, SubSeqProperties
  <2>. HIDE DEF b
  <2>. QED BY <1>0, <2>2
<1>3. RemoveAt(s, i) = a \o b
  BY DEF RemoveAt
<1>. HIDE DEF a, b
<1>4. /\ a \o b \in Seq(S) /\ Len(a \o b) = Len(s) - 1
      /\ \A k \in 1..(Len(s) - 1) : (a \o b)[k] = IF k <= i - 1 THEN a[k] ELSE b[k - (i - 1)]
  BY <1>0, <1>1, <1>2, ConcatProperties
<1>5. ASSUME NEW k \in 1..(Len(s) - 1)
      PROVE  (a \o b)[k] = IF k < i THEN s[k] ELSE s[k + 1]
  <2>1. CASE k < i
    BY <1>0, <1>1, <1>4, <2>1
  <2>2. CASE ~(k < i)
    <3>1. k - (i - 1) \in 1..(Len(s) - i) /\ i + (k - (i - 1)) = k + 1
      BY <1>0, <2>2
    <3>2. b[k - (i - 1)] = s[k + 1]
      BY <1>2, <3>1
    <3>. QED BY <1>0, <1>4, <2>2, <3>2
  <2>. QED BY <2>1, <2>2
<1>. QED BY <1>0, <1>3, <1>4, <1>5

\* removeLast.
LEMMA FrontFacts ==
    ASSUME NEW S, NEW s \in Seq(S), Len(s) # 0
    PROVE  /\ Front(s) \in Seq(S) /\ Len(Front(s)) = Len(s) - 1
           /\ \A i \in 1..(Len(s) - 1) : Front(s)[i] = s[i]
<1>0. Len(s) \in Nat /\ \A k \in 1..Len(s) : s[k] \in S
  BY LenProperties, ElementOfSeq
<1>1. \A k \in 1..(Len(s) - 1) : s[k] \in S
  BY <1>0
<1>. DEFINE f == SubSeq(s, 1, Len(s) - 1)
<1>2. /\ f \in Seq(S) /\ Len(f) = IF 1 <= Len(s) - 1 THEN (Len(s) - 1) - 1 + 1 ELSE 0
      /\ \A i \in 1..((Len(s) - 1) - 1 + 1) : f[i] = s[1 + i - 1]
  BY <1>0, <1>1, SubSeqProperties
<1>3. Front(s) = f
  BY DEF Front
<1>. HIDE DEF f
<1>4. f \in Seq(S)
  BY <1>2
<1>5. Len(f) = Len(s) - 1
  <2>1. PICK m \in Nat : m = Len(s)
    BY <1>0
  <2>2. m # 0 /\ Len(f) = IF 1 <= m - 1 THEN (m - 1) - 1 + 1 ELSE 0
    BY <1>2, <2>1
  <2>3. Len(f) = m - 1
    BY <2>2
  <2>. QED BY <2>1, <2>3
<1>6. ASSUME NEW i \in 1..(Len(s) - 1) PROVE f[i] = s[i]
  <2>1. i \in 1..((Len(s) - 1) - 1 + 1) /\ 1 + i - 1 = i
    BY <1>0
  <2>2. f[i] = s[1 + i - 1]
    BY <1>2, <2>1
  <2>. QED BY <2>1, <2>2
<1>. QED BY <1>3, <1>4, <1>5, <1>6

\* Photos in front of a list.
LEMMA PhotosInFront ==
    ASSUME NEW n \in Nat, NEW s \in Seq(Cell)
    PROVE  /\ Photos(n) \o s \in Seq(Cell) /\ Len(Photos(n) \o s) = n + Len(s)
           /\ \A i \in 1..n : (Photos(n) \o s)[i] = "photo"
           /\ \A i \in 1..Len(s) : (Photos(n) \o s)[n + i] = s[i]
<1>1. /\ Photos(n) \in Seq(Cell) /\ Len(Photos(n)) = n
      /\ \A i \in 1..n : Photos(n)[i] = "photo"
  BY DEF Photos, Cell
<1>2. Len(s) \in Nat
  BY LenProperties
<1>3. /\ Photos(n) \o s \in Seq(Cell) /\ Len(Photos(n) \o s) = n + Len(s)
      /\ \A i \in 1..(n + Len(s)) : (Photos(n) \o s)[i] = IF i <= n THEN Photos(n)[i] ELSE s[i - n]
  <2>1. /\ Photos(n) \o s \in Seq(Cell)
        /\ Len(Photos(n) \o s) = Len(Photos(n)) + Len(s)
        /\ \A i \in 1..Len(Photos(n)) + Len(s) :
              (Photos(n) \o s)[i] = IF i <= Len(Photos(n)) THEN Photos(n)[i]
                                    ELSE s[i - Len(Photos(n))]
    BY <1>1, ConcatProperties
  <2>. QED BY <1>1, <2>1
<1>4. ASSUME NEW i \in 1..Len(s) PROVE (Photos(n) \o s)[n + i] = s[i]
  <2>1. n + i \in 1..(n + Len(s)) /\ ~(n + i <= n) /\ (n + i) - n = i
    BY <1>2
  <2>. QED BY <1>3, <2>1
<1>. QED BY <1>1, <1>2, <1>3, <1>4

\* The photos picked go in front of the add cell, which a ninth one drops.
LEMMA WithPhotosFacts ==
    ASSUME dataArray \in Seq(Cell), NEW n \in 1..(GridLimit + 1 - Len(dataArray))
    PROVE  /\ WithPhotos(n) \in Seq(Cell)
           /\ \A k \in 0..(GridLimit - 1) : dataArray = Grid(k) => WithPhotos(n) = Grid(k + n)
<1>. DEFINE d == Photos(n) \o dataArray
<1>0. GridLimit \in Nat /\ Len(dataArray) \in Nat /\ n \in Nat
  BY PublishingAssumption, LenProperties
<1>1. /\ d \in Seq(Cell) /\ Len(d) = n + Len(dataArray)
      /\ \A i \in 1..n : d[i] = "photo"
      /\ \A i \in 1..Len(dataArray) : d[n + i] = dataArray[i]
  BY <1>0, PhotosInFront
<1>2. WithPhotos(n) = IF Len(d) = GridLimit + 1 THEN Front(d) ELSE d
  BY DEF WithPhotos
<1>. HIDE DEF d
<1>3. ASSUME Len(d) = GridLimit + 1
      PROVE  /\ Front(d) \in Seq(Cell) /\ Len(Front(d)) = GridLimit
             /\ \A i \in 1..GridLimit : Front(d)[i] = d[i]
  <2>1. Len(d) # 0 /\ Len(d) - 1 = GridLimit
    BY <1>0, <1>3
  <2>2. /\ Front(d) \in Seq(Cell) /\ Len(Front(d)) = Len(d) - 1
        /\ \A i \in 1..(Len(d) - 1) : Front(d)[i] = d[i]
    BY <1>1, <2>1, FrontFacts
  <2>. QED BY <2>1, <2>2
<1>4. ASSUME NEW k \in 0..(GridLimit - 1), dataArray = Grid(k)
      PROVE  WithPhotos(n) = Grid(k + n)
  <2>1. /\ k \in Nat /\ k < GridLimit /\ k \in 0..GridLimit
        /\ Len(dataArray) = k + 1 /\ \A i \in 1..k : dataArray[i] = "photo"
        /\ dataArray[k + 1] = "add"
    BY <1>0, <1>4, GridFacts
  <2>2. Len(d) = k + n + 1 /\ k + n \in 0..GridLimit
    BY <1>0, <1>1, <2>1
  <2>3. d[k + n + 1] = "add"
    <3>1. k + 1 \in 1..Len(dataArray) /\ n + (k + 1) = k + n + 1
      BY <1>0, <2>1
    <3>. QED BY <1>1, <2>1, <3>1
  <2>4. ASSUME NEW i \in 1..(k + n) PROVE d[i] = "photo"
    <3>1. CASE i <= n
      BY <1>0, <1>1, <3>1
    <3>2. CASE ~(i <= n)
      <4>1. i - n \in 1..k /\ i - n \in 1..Len(dataArray) /\ n + (i - n) = i
        BY <1>0, <2>1, <3>2
      <4>2. d[n + (i - n)] = dataArray[i - n] /\ dataArray[i - n] = "photo"
        BY <1>1, <2>1, <4>1
      <4>. QED BY <4>1, <4>2
    <3>. QED BY <3>1, <3>2
  <2>5. CASE k + n = GridLimit
    <3>1. WithPhotos(n) = Front(d) /\ WithPhotos(n) \in Seq(Cell) /\ Len(WithPhotos(n)) = k + n
      BY <1>2, <1>3, <2>2, <2>5
    <3>2. \A i \in 1..(k + n) : WithPhotos(n)[i] = "photo"
      BY <1>2, <1>3, <2>2, <2>4, <2>5
    <3>. QED BY <1>0, <2>2, <2>5, <3>1, <3>2, IsGrid
  <2>6. CASE k + n # GridLimit
    <3>1. k + n < GridLimit
      BY <1>0, <2>2, <2>6
    <3>2. WithPhotos(n) = d
      BY <1>0, <1>2, <2>2, <3>1
    <3>. QED BY <1>1, <2>2, <2>3, <2>4, <3>1, <3>2, IsGrid
  <2>. QED BY <2>5, <2>6
<1>. QED BY <1>1, <1>2, <1>3, <1>4

\* A photo cleared from a full grid brings the add cell back.
LEMMA WithoutRowFacts ==
    ASSUME dataArray \in Seq(Cell), NEW row \in 1..Len(dataArray)
    PROVE  /\ WithoutRow(row) \in Seq(Cell)
           /\ \A k \in 0..GridLimit :
                 dataArray = Grid(k) /\ dataArray[row] = "photo"
                    => k > 0 /\ WithoutRow(row) = Grid(k - 1)
<1>. DEFINE full == Len(dataArray) = GridLimit /\ ~Contains(dataArray, "add")
            d == IF full THEN Append(dataArray, "add") ELSE dataArray
<1>0. GridLimit \in Nat \ {0} /\ Len(dataArray) \in Nat /\ row \in Nat /\ "add" \in Cell
  BY PublishingAssumption, LenProperties DEF Cell
<1>1. WithoutRow(row) = RemoveAt(d, row)
  BY DEF WithoutRow
<1>2. /\ Append(dataArray, "add") \in Seq(Cell)
      /\ Len(Append(dataArray, "add")) = Len(dataArray) + 1
      /\ \A i \in 1..Len(dataArray) : Append(dataArray, "add")[i] = dataArray[i]
      /\ Append(dataArray, "add")[Len(dataArray) + 1] = "add"
  BY <1>0, AppendProperties
<1>3. /\ d \in Seq(Cell) /\ Len(d) = Len(dataArray) + (IF full THEN 1 ELSE 0)
      /\ \A i \in 1..Len(dataArray) : d[i] = dataArray[i]
      /\ full => d[Len(dataArray) + 1] = "add"
  BY <1>0, <1>2
<1>4. full <=> Len(dataArray) = GridLimit /\ ~Contains(dataArray, "add")
  OBVIOUS
<1>. HIDE DEF d, full
<1>5. row \in 1..Len(d)
  BY <1>0, <1>3
<1>6. /\ RemoveAt(d, row) \in Seq(Cell) /\ Len(RemoveAt(d, row)) = Len(d) - 1
      /\ \A i \in 1..(Len(d) - 1) : RemoveAt(d, row)[i] = IF i < row THEN d[i] ELSE d[i + 1]
  BY <1>3, <1>5, RemoveAtFacts
<1>7. ASSUME NEW k \in 0..GridLimit, dataArray = Grid(k), dataArray[row] = "photo"
      PROVE  k > 0 /\ WithoutRow(row) = Grid(k - 1)
  <2>1. /\ k \in Nat /\ Len(dataArray) = IF k < GridLimit THEN k + 1 ELSE k
        /\ \A i \in 1..k : dataArray[i] = "photo"
        /\ k < GridLimit => dataArray[k + 1] = "add"
    BY <1>0, <1>7, GridFacts
  <2>2. row \in 1..k
    BY <1>0, <1>7, <2>1
  <2>3. full <=> k = GridLimit
    <3>1. CASE k = GridLimit
      <4>1. ~Contains(dataArray, "add")
        BY <1>0, <2>1, <3>1 DEF Contains
      <4>. QED BY <1>0, <1>4, <2>1, <3>1, <4>1
    <3>2. CASE k # GridLimit
      <4>1. Contains(dataArray, "add")
        BY <1>0, <2>1, <3>2 DEF Contains
      <4>. QED BY <1>4, <3>2, <4>1
    <3>. QED BY <3>1, <3>2
  <2>4. /\ Len(d) = k + 1 /\ \A i \in 1..k : d[i] = "photo"
        /\ d[k + 1] = "add"
    BY <1>0, <1>3, <2>1, <2>3
  <2>5. Len(RemoveAt(d, row)) = k /\ k - 1 \in 0..GridLimit /\ k - 1 < GridLimit /\ k > 0
    BY <1>0, <1>6, <2>2, <2>4
  <2>6. ASSUME NEW i \in 1..(k - 1) PROVE RemoveAt(d, row)[i] = "photo"
    <3>1. i \in 1..k /\ i + 1 \in 1..k /\ i \in 1..(Len(d) - 1)
      BY <2>1, <2>4
    <3>. QED BY <1>6, <2>4, <3>1
  <2>7. RemoveAt(d, row)[(k - 1) + 1] = "add"
    <3>1. (k - 1) + 1 = k /\ k \in 1..(Len(d) - 1)
      BY <2>1, <2>4, <2>5
    <3>2. k >= row
      BY <2>2
    <3>3. RemoveAt(d, row)[k] = d[k + 1]
      <4>1. CASE k > row
        BY <1>6, <3>1, <4>1, <1>0
      <4>2. CASE k = row
        BY <1>6, <3>1, <4>2, <1>0
      <4>. QED BY <1>0, <2>1, <3>2, <4>1, <4>2
    <3>. QED BY <2>4, <3>1, <3>3
  <2>8. Len(RemoveAt(d, row)) = (k - 1) + 1
    BY <2>1, <2>5
  <2>9. RemoveAt(d, row) = Grid(k - 1)
    BY <1>6, <2>5, <2>6, <2>7, <2>8, IsGrid
  <2>. QED BY <1>1, <2>5, <2>9
<1>. QED BY <1>1, <1>6, <1>7

\* The types of SPublicVC, of the recorder and of the editor.
Screen == {"public", "photos", "recorder", "closing", "editor", "player", "gone"}

GridTypes ==
    /\ top \in Screen /\ dataArray \in Seq(Cell) /\ cells \in Seq(Cell)
    /\ isVideo \in BOOLEAN /\ {pathPHAssest, clip, picked} \subseteq Library \cup {0}
    /\ twoTouches \in BOOLEAN /\ disturbed \in BOOLEAN

GridInv == GridTypes /\ PhotosInv /\ PhotosOrVideo /\ GridRule

\* The rule of the grid, said with Grid.
LEMMA GridRuleIs ==
    /\ GridRule <=> (~twoTouches => \E n \in 0..GridLimit : dataArray = Grid(n))
    /\ GridRule' <=> (~twoTouches' => \E n \in 0..GridLimit : dataArray' = Grid(n))
BY DEF GridRule, Grid

\* A step that leaves the grid alone and does not open the image picker.
LEMMA GridFrame ==
    ASSUME GridInv, UNCHANGED grid, disturbed' \in BOOLEAN, top' \in Screen,
           top' = top \/ top' # "photos"
    PROVE  GridInv'
<1>1. UNCHANGED <<dataArray, cells, isVideo, pathPHAssest, clip, picked, twoTouches>>
  BY DEF grid
<1>2. GridTypes' /\ PhotosInv' /\ PhotosOrVideo'
  BY <1>1 DEF GridInv, GridTypes, PhotosInv, PhotosOrVideo
<1>3. GridRule'
  BY <1>1 DEF GridInv, GridRule
<1>. QED BY <1>2, <1>3 DEF GridInv

\* A step that leaves the camera alone.
LEMMA CameraFrame ==
    ASSUME CameraInv, UNCHANGED <<camera, page>>
    PROVE  CameraInv'
<1>1. /\ UNCHANGED <<open, crashed, unlucky>>
      /\ UNCHANGED <<control, manager, video, audio, url, handed, written, failed>>
  BY DEF camera, vars
<1>2. open' \in BOOLEAN /\ crashed' \in BOOLEAN /\ unlucky' \in BOOLEAN
  BY <1>1 DEF CameraInv, TypeOK
<1>. QED BY <1>1, <1>2, QuietStep

\* The image picker: it opens with the add cell, and brings photos, a video or
\* nothing.
LEMMA PickerStep ==
    ASSUME GridInv,
           \/ DidSelectItemAt \/ DidFinishPickingPhotos \/ ImagePickerCancel
           \/ \E v \in Library : DidFinishPickingVideo(v)
    PROVE  GridInv'
<1>0. dataArray \in Seq(Cell) /\ Len(dataArray) \in Nat /\ GridLimit \in Nat \ {0}
  BY LenProperties, PublishingAssumption DEF GridInv, GridTypes
<1>1. CASE DidSelectItemAt
  <2>1. /\ top' = "photos" /\ Contains(dataArray, "add")
        /\ UNCHANGED <<dataArray, cells, isVideo, pathPHAssest, clip, picked, twoTouches>>
    BY <1>1 DEF DidSelectItemAt, grid
  <2>2. disturbed' \in BOOLEAN
    BY <1>1, Zenon DEF DidSelectItemAt, Touch, GridInv, GridTypes
  <2>3. GridTypes' /\ PhotosInv' /\ PhotosOrVideo'
    BY <2>1, <2>2 DEF GridInv, GridTypes, Screen, PhotosInv, PhotosOrVideo, Contains
  <2>4. GridRule'
    BY <2>1 DEF GridInv, GridRule
  <2>. QED BY <2>3, <2>4 DEF GridInv
<1>2. CASE DidFinishPickingPhotos
  <2>1. PICK n \in 1..(GridLimit + 1 - Len(dataArray)) : dataArray' = WithPhotos(n)
    BY <1>2 DEF DidFinishPickingPhotos
  <2>2. /\ top = "photos" /\ cells' = dataArray' /\ isVideo' = FALSE /\ top' = "public"
        /\ UNCHANGED <<pathPHAssest, clip, picked, twoTouches, disturbed>>
    BY <1>2 DEF DidFinishPickingPhotos
  <2>3. /\ dataArray' \in Seq(Cell)
        /\ \A k \in 0..(GridLimit - 1) : dataArray = Grid(k) => dataArray' = Grid(k + n)
    BY <1>0, <2>1, WithPhotosFacts
  <2>4. GridTypes' /\ PhotosInv' /\ PhotosOrVideo'
    BY <2>2, <2>3 DEF GridInv, GridTypes, Screen, PhotosInv, PhotosOrVideo
  <2>5. ASSUME ~twoTouches PROVE \E m \in 0..GridLimit : dataArray' = Grid(m)
    <3>1. PICK k \in 0..GridLimit : dataArray = Grid(k)
      BY <2>5, GridRuleIs DEF GridInv
    <3>2. /\ Len(dataArray) = IF k < GridLimit THEN k + 1 ELSE k
          /\ \A i \in 1..k : dataArray[i] = "photo"
      BY <3>1, GridFacts
    <3>3. PICK i \in 1..Len(dataArray) : dataArray[i] = "add"
      BY <2>2 DEF GridInv, PhotosInv, Contains
    <3>4. k < GridLimit /\ Len(dataArray) = k + 1
      BY <1>0, <3>2, <3>3
    <3>5. k + n \in 0..GridLimit /\ k \in 0..(GridLimit - 1)
      BY <1>0, <2>1, <3>4
    <3>. QED BY <2>3, <3>1, <3>5
  <2>6. GridRule'
    BY <2>2, <2>5, GridRuleIs
  <2>. QED BY <2>4, <2>6 DEF GridInv
<1>3. CASE ImagePickerCancel
  <2>1. top' = "public" /\ UNCHANGED <<grid, disturbed>>
    BY <1>3 DEF ImagePickerCancel
  <2>2. disturbed' \in BOOLEAN /\ top' \in Screen
    BY <2>1 DEF GridInv, GridTypes, Screen
  <2>. QED BY <2>1, <2>2, GridFrame
<1>4. ASSUME NEW v \in Library, DidFinishPickingVideo(v) PROVE GridInv'
  <2>1. /\ top = "photos" /\ Len(dataArray) = 1 /\ isVideo' = TRUE
        /\ pathPHAssest' = v /\ picked' = v /\ top' = "public"
        /\ UNCHANGED <<dataArray, cells, clip, twoTouches, disturbed>>
    BY <1>4 DEF DidFinishPickingVideo, AllowPickingVideo
  <2>2. dataArray = <<"add">>
    <3>1. PICK i \in 1..Len(dataArray) : dataArray[i] = "add"
      BY <2>1 DEF GridInv, PhotosInv, Contains
    <3>2. dataArray[1] = "add"
      BY <2>1, <3>1
    <3>3. <<"add">> \in Seq(Cell) /\ Len(<<"add">>) = 1 /\ <<"add">>[1] = "add"
      BY DEF Cell
    <3>4. \A j \in 1..Len(dataArray) : dataArray[j] = <<"add">>[j]
      BY <2>1, <3>2, <3>3
    <3>. QED BY <1>0, <2>1, <3>3, <3>4, SeqEqual
  <2>3. v # 0
    BY PublishingAssumption
  <2>4. GridTypes' /\ PhotosInv' /\ PhotosOrVideo'
    BY <2>1, <2>2, <2>3 DEF GridInv, GridTypes, Screen, PhotosInv, PhotosOrVideo
  <2>5. GridRule'
    BY <2>1 DEF GridInv, GridRule
  <2>. QED BY <2>4, <2>5 DEF GridInv
<1>. QED BY <1>1, <1>2, <1>3, <1>4

\* A clear button: the cell's tag is its row, or stale with two touches.
LEMMA ClearStep ==
    ASSUME CameraInv, GridInv, NEW row \in DOMAIN cells, DidClearBtnAction(row)
    PROVE  CameraInv' /\ GridInv'
<1>0. /\ dataArray \in Seq(Cell) /\ cells \in Seq(Cell) /\ Len(dataArray) \in Nat
      /\ Len(cells) \in Nat /\ row \in 1..Len(cells) /\ GridLimit \in Nat \ {0}
  BY LenProperties, PublishingAssumption DEF GridInv, GridTypes
<1>1. /\ top = "public" /\ ~crashed /\ ~isVideo /\ cells[row] = "photo"
      /\ UNCHANGED <<open, control, manager, video, audio, url, handed, written, failed, top, cells,
                     isVideo, pathPHAssest, clip, picked, page>>
  BY DEF DidClearBtnAction
<1>2. \/ row <= Len(dataArray) /\ dataArray' = WithoutRow(row) /\ crashed' = crashed
      \/ ~(row <= Len(dataArray)) /\ crashed' = TRUE /\ dataArray' = dataArray
  BY DEF DidClearBtnAction
<1>3. /\ twoTouches' \in BOOLEAN /\ unlucky' \in BOOLEAN /\ disturbed' \in BOOLEAN
      /\ twoTouches' <=> twoTouches \/ cells # dataArray
      /\ unlucky' <=> unlucky \/ cells # dataArray
  BY Zenon DEF DidClearBtnAction
<1>4. row <= Len(dataArray) => row \in 1..Len(dataArray)
  BY <1>0
<1>5. CameraInv'
  <2>1. open' \in BOOLEAN /\ crashed' \in BOOLEAN
    BY <1>1, <1>2 DEF CameraInv, TypeOK
  <2>2. ASSUME crashed' PROVE unlucky'
    <3>1. ~(row <= Len(dataArray))
      BY <1>1, <1>2, <2>2
    <3>2. cells # dataArray
      BY <1>0, <3>1
    <3>. QED BY <1>3, <3>2
  <2>. QED BY <1>1, <1>3, <2>1, <2>2, QuietStep
<1>6. dataArray' \in Seq(Cell)
  BY <1>0, <1>2, <1>4, WithoutRowFacts
<1>7. GridTypes' /\ PhotosInv' /\ PhotosOrVideo'
  BY <1>1, <1>3, <1>6 DEF GridInv, GridTypes, PhotosInv, PhotosOrVideo
<1>8. ASSUME ~twoTouches' PROVE \E m \in 0..GridLimit : dataArray' = Grid(m)
  <2>1. ~twoTouches /\ cells = dataArray
    BY <1>3, <1>8
  <2>2. PICK k \in 0..GridLimit : dataArray = Grid(k)
    BY <2>1, GridRuleIs DEF GridInv
  <2>3. row \in 1..Len(dataArray) /\ dataArray[row] = "photo" /\ dataArray' = WithoutRow(row)
    BY <1>0, <1>1, <1>2, <2>1
  <2>4. k > 0 /\ dataArray' = Grid(k - 1)
    BY <1>0, <2>2, <2>3, WithoutRowFacts
  <2>5. k - 1 \in 0..GridLimit
    BY <1>0, <2>4
  <2>. QED BY <2>4, <2>5
<1>9. GridRule'
  BY <1>8, GridRuleIs
<1>. QED BY <1>5, <1>7, <1>9 DEF GridInv

\* The other steps of SPublicVC.
LEMMA PublicStep ==
    ASSUME CameraInv, GridInv,
           PlayVideo \/ ClipArrives \/ PlayerClosed \/ DeleateAction \/ Layout \/ Dismis
    PROVE  CameraInv' /\ GridInv'
<1>1. CASE PlayVideo
  <2>1. /\ isVideo /\ clip' = pathPHAssest /\ ~crashed
        /\ UNCHANGED <<open, control, manager, video, audio, url, handed, written, failed, unlucky, page>>
        /\ UNCHANGED <<top, dataArray, cells, isVideo, pathPHAssest, picked, twoTouches>>
    BY <1>1 DEF PlayVideo, Touch
  <2>2. pathPHAssest # 0
    BY <2>1 DEF GridInv, PhotosOrVideo
  <2>3. crashed' = FALSE
    BY <1>1, <2>2 DEF PlayVideo
  <2>4. open' \in BOOLEAN /\ unlucky' \in BOOLEAN /\ crashed' \in BOOLEAN
    BY <2>1, <2>3 DEF CameraInv, TypeOK
  <2>5. CameraInv'
    BY <2>1, <2>3, <2>4, QuietStep
  <2>6. disturbed' \in BOOLEAN
    BY <1>1, Zenon DEF PlayVideo, Touch
  <2>7. GridTypes' /\ PhotosInv' /\ PhotosOrVideo'
    BY <2>1, <2>6 DEF GridInv, GridTypes, PhotosInv, PhotosOrVideo
  <2>8. GridRule'
    BY <2>1 DEF GridInv, GridRule
  <2>. QED BY <2>5, <2>7, <2>8 DEF GridInv
<1>2. CASE ClipArrives
  <2>1. /\ clip' = 0 /\ top' \in {top, "player"}
        /\ UNCHANGED <<dataArray, cells, isVideo, pathPHAssest, picked, twoTouches>>
    BY <1>2 DEF ClipArrives
  <2>2. disturbed' \in BOOLEAN
    BY <1>2, Zenon DEF ClipArrives
  <2>3. GridTypes' /\ PhotosInv' /\ PhotosOrVideo'
    BY <2>1, <2>2 DEF GridInv, GridTypes, Screen, PhotosInv, PhotosOrVideo
  <2>4. GridRule'
    BY <2>1 DEF GridInv, GridRule
  <2>5. CameraInv'
    BY <1>2, CameraFrame DEF ClipArrives
  <2>. QED BY <2>3, <2>4, <2>5 DEF GridInv
<1>3. CASE PlayerClosed
  <2>1. top' = "public" /\ UNCHANGED <<camera, page, grid, disturbed>>
    BY <1>3 DEF PlayerClosed
  <2>2. top' \in Screen /\ disturbed' \in BOOLEAN
    BY <2>1 DEF Screen, GridInv, GridTypes
  <2>. QED BY <2>1, <2>2, CameraFrame, GridFrame
<1>4. CASE DeleateAction
  <2>1. /\ isVideo' = FALSE /\ pathPHAssest' = 0 /\ picked' = 0
        /\ UNCHANGED <<top, dataArray, cells, clip, twoTouches>>
    BY <1>4 DEF DeleateAction
  <2>2. disturbed' \in BOOLEAN
    BY <1>4, Zenon DEF DeleateAction, Touch
  <2>3. GridTypes' /\ PhotosInv' /\ PhotosOrVideo'
    BY <2>1, <2>2 DEF GridInv, GridTypes, PhotosInv, PhotosOrVideo
  <2>4. GridRule'
    BY <2>1 DEF GridInv, GridRule
  <2>5. CameraInv'
    BY <1>4, CameraFrame DEF DeleateAction
  <2>. QED BY <2>3, <2>4, <2>5 DEF GridInv
<1>5. CASE Layout
  <2>1. /\ cells' = dataArray
        /\ UNCHANGED <<top, dataArray, isVideo, pathPHAssest, clip, picked, twoTouches, disturbed>>
    BY <1>5 DEF Layout
  <2>2. GridTypes' /\ PhotosInv' /\ PhotosOrVideo'
    BY <2>1 DEF GridInv, GridTypes, PhotosInv, PhotosOrVideo
  <2>3. GridRule'
    BY <2>1 DEF GridInv, GridRule
  <2>4. CameraInv'
    BY <1>5, CameraFrame DEF Layout
  <2>. QED BY <2>2, <2>3, <2>4 DEF GridInv
<1>6. CASE Dismis
  <2>1. top' = "gone" /\ UNCHANGED <<camera, page, grid>>
    BY <1>6 DEF Dismis
  <2>2. disturbed' \in BOOLEAN
    BY <1>6, Zenon DEF Dismis, Touch
  <2>3. top' \in Screen
    BY <2>1 DEF Screen
  <2>. QED BY <2>1, <2>2, <2>3, CameraFrame, GridFrame
<1>. QED BY <1>1, <1>2, <1>3, <1>4, <1>5, <1>6

\* No step of SPublicVC breaks its grid or the camera.
LEMMA GridStep ==
    ASSUME CameraInv, GridInv, GridNext
    PROVE  CameraInv' /\ GridInv' /\ UNCHANGED <<page, visits, due, editor>>
<1>1. UNCHANGED <<page, visits, due, editor>>
  BY DEF GridNext, DidSelectItemAt, DidFinishPickingPhotos, ImagePickerCancel,
         DidFinishPickingVideo, PlayVideo, ClipArrives, PlayerClosed, DeleateAction,
         DidClearBtnAction, Layout, Dismis
<1>2. ASSUME \/ DidSelectItemAt \/ DidFinishPickingPhotos \/ ImagePickerCancel
             \/ \E v \in Library : DidFinishPickingVideo(v)
      PROVE  CameraInv' /\ GridInv'
  <2>1. UNCHANGED camera
    BY <1>2 DEF DidSelectItemAt, DidFinishPickingPhotos, ImagePickerCancel, DidFinishPickingVideo
  <2>. QED BY <1>1, <1>2, <2>1, CameraFrame, PickerStep
<1>3. ASSUME NEW row \in DOMAIN cells, DidClearBtnAction(row)
      PROVE  CameraInv' /\ GridInv'
  BY <1>3, ClearStep
<1>4. ASSUME PlayVideo \/ ClipArrives \/ PlayerClosed \/ DeleateAction \/ Layout \/ Dismis
      PROVE  CameraInv' /\ GridInv'
  BY <1>4, PublicStep
<1>. QED BY <1>1, <1>2, <1>3, <1>4 DEF GridNext

-----------------------------------------------------------------------------
(* The recorder.                                                           *)

RecorderInv ==
    page \in {"camera", "picker"} /\ visits \in 0..MaxVisits /\ due \in Video \cup {NoVideo}

\* The camera's own steps.
LEMMA CameraNextStep ==
    ASSUME CameraInv, CameraNext
    PROVE  CameraInv' /\ UNCHANGED host
<1>1. UNCHANGED host
  BY DEF CameraNext, CameraTouch, CameraStep
<1>2. page' = page
  BY <1>1 DEF host
<1>3. CASE CameraTouch(DidStarGesture) \/ CameraStep(TimeRecord)
  BY <1>2, <1>3, TapAndTickStep DEF CameraTouch, CameraStep
<1>4. CASE CameraTouch(RetakeButtonClick) \/ CameraTouch(RetakeCancel) \/ CameraTouch(BackToCamera)
  BY <1>2, <1>4, ReviewStep DEF CameraTouch
<1>5. CASE \/ CameraStep(WriterCompletes) \/ CameraStep(WriterFails)
           \/ CameraStep(CompletionHandler) \/ CameraStep(TakeCompletes)
  BY <1>2, <1>5, CompletionStep DEF CameraStep
<1>6. CASE \/ CameraStep(VideoArrives) \/ CameraStep(VideoStatus) \/ CameraStep(VideoSession)
           \/ CameraStep(VideoInput) \/ CameraStep(VideoAppend)
  BY <1>2, <1>6, VideoStep DEF CameraStep
<1>7. CASE CameraStep(AudioArrives) \/ CameraStep(AudioInput) \/ CameraStep(AudioAppend)
  BY <1>2, <1>7, AudioStep DEF CameraStep
<1>. QED BY <1>1, <1>3, <1>4, <1>5, <1>6, <1>7 DEF CameraNext

\* The steps that leave the recorder: on the picker's page the bars are shown,
\* so the camera is at rest whenever its screen goes.
LEMMA LeaveRecorderStep ==
    ASSUME CameraInv, GridInv, RecorderInv,
           HandOverTake \/ (\E v \in Library : DidFinishPicking(v)) \/ Exit \/ DismissVc
    PROVE  CameraInv' /\ GridInv' /\ RecorderInv' /\ UNCHANGED editor
<1>1. \E next \in {"public", "closing"} : LeaveRecorder(next)
  BY DEF HandOverTake, DidFinishPicking, Exit, DismissVc
<1>2. /\ top' \in {"public", "closing"} /\ page' = "camera"
      /\ UNCHANGED <<grid, visits, editor>>
  BY <1>1 DEF LeaveRecorder
<1>3. Leave /\ ~crashed
  BY DEF HandOverTake, DidFinishPicking, Exit, DismissVc, TakeButtonClick,
         CameraControlDidExit, Touchable
<1>4. CameraInv'
  <2>1. reviewShown \/ barsShown
    BY <1>3 DEF HandOverTake, DidFinishPicking, Exit, DismissVc, TakeButtonClick,
                CameraControlDidExit, CameraInv, ScreenInv
  <2>2. \/ handed' = handed /\ crashed' = crashed
        \/ /\ reviewShown /\ handed' = Append(handed, url) /\ crashed' \in BOOLEAN
           /\ crashed' => url \in failed
    BY <1>3 DEF HandOverTake, DidFinishPicking, Exit, DismissVc, TakeButtonClick,
                CameraControlDidExit, CameraInv, TypeOK
  <2>. QED BY <1>3, <2>1, <2>2, LeaveStep DEF CameraInv
<1>5. due' \in Video \cup {NoVideo} /\ disturbed' \in BOOLEAN
  <2>1. CASE HandOverTake
    <3>1. due' = [from |-> "take", id |-> url] /\ disturbed' = FALSE /\ reviewShown
      BY <2>1 DEF HandOverTake, HandOver, TakeButtonClick
    <3>2. url \in 0..MaxTakes /\ url # 0
      BY <3>1 DEF CameraInv, TypeOK, FileInv
    <3>3. url \in 1..MaxTakes
      BY <3>2, CameraAssumption
    <3>. QED BY <3>1, <3>3 DEF Video
  <2>2. ASSUME NEW v \in Library, DidFinishPicking(v)
        PROVE  due' \in Video \cup {NoVideo} /\ disturbed' \in BOOLEAN
    <3>1. due' = [from |-> "library", id |-> v] /\ disturbed' = FALSE
      BY <2>2 DEF DidFinishPicking, HandOver
    <3>. QED BY <3>1 DEF Video
  <2>3. CASE Exit \/ DismissVc
    <3>1. UNCHANGED <<due, disturbed>>
      BY <2>3 DEF Exit, DismissVc
    <3>. QED BY <3>1 DEF RecorderInv, GridInv, GridTypes
  <2>. QED BY <2>1, <2>2, <2>3
<1>6. GridInv'
  <2>1. top' \in Screen /\ top' # "photos"
    BY <1>2 DEF Screen
  <2>. QED BY <1>2, <1>5, <2>1, GridFrame
<1>7. RecorderInv'
  BY <1>2, <1>5 DEF RecorderInv
<1>. QED BY <1>2, <1>4, <1>6, <1>7

-----------------------------------------------------------------------------
(* The editor and the exports.                                             *)

EditorTypes ==
    /\ edited \in Video \cup {NoVideo}
    /\ title \in 0..MaxTitle /\ tip \in BOOLEAN /\ over \in {"none", "alert", "player"}
    /\ plays \in BOOLEAN

Export == [at : 0..Seconds, name : 0..Seconds,
           state : {"running", "completed", "failed", "uploads"}]

ExportsInv ==
    /\ posts \in 0..MaxExports /\ second \in 0..Seconds
    /\ exports \in Seq(Export) /\ files \in [0..Seconds -> 0..MaxExports]
    /\ ExportInv /\ ExportsKept

\* A step that leaves the exports alone.
LEMMA ExportsFrame ==
    ASSUME ExportsInv, UNCHANGED <<posts, second, exports, files>>
    PROVE  ExportsInv'
BY DEF ExportsInv, ExportInv, ExportsKept

\* A request more, within the bound.
LEMMA PostStep ==
    ASSUME ExportsInv, posts + Len(exports) < MaxExports, posts' = posts + 1,
           UNCHANGED <<second, exports, files>>
    PROVE  ExportsInv'
<1>0. posts \in Nat /\ MaxExports \in Nat /\ Len(exports) \in Nat
  BY PublishingAssumption, LenProperties DEF ExportsInv
<1>1. posts' \in 0..MaxExports /\ posts' + Len(exports') <= MaxExports
  BY <1>0
<1>. QED BY <1>1 DEF ExportsInv, ExportInv, ExportsKept

\* An export begins: it removes a file of its name, which belongs to an export
\* of the same second.
LEMMA CompressStep ==
    ASSUME ExportsInv, CompressVideo
    PROVE  ExportsInv'
<1>0. /\ posts \in Nat /\ posts > 0 /\ posts' = posts - 1 /\ MaxExports \in Nat /\ Seconds \in Nat
      /\ exports \in Seq(Export) /\ Len(exports) \in Nat /\ second \in 0..Seconds
      /\ DOMAIN exports = 1..Len(exports) /\ posts + Len(exports) <= MaxExports
  BY PublishingAssumption, LenProperties DEF ExportsInv, CompressVideo, ExportInv
<1>1. CASE UNCHANGED <<second, exports, files>>
  <2>1. posts' \in 0..MaxExports /\ posts' + Len(exports') <= MaxExports
    BY <1>0, <1>1
  <2>. QED BY <1>1, <2>1 DEF ExportsInv, ExportInv, ExportsKept
<1>2. CASE /\ second' \in second..Seconds
           /\ exports' = Append(exports, [at |-> second', name |-> CreateFileUrl(second'),
                                          state |-> "running"])
           /\ files' = [files EXCEPT ![CreateFileUrl(second')] = 0]
  <2>. DEFINE e == [at |-> second', name |-> second', state |-> "running"]
              n == Len(exports) + 1
  <2>1. /\ second' \in 0..Seconds /\ exports' = Append(exports, e)
        /\ files' = [files EXCEPT ![second'] = 0]
    BY <1>0, <1>2 DEF CreateFileUrl
  <2>2. e \in Export /\ e.at = second' /\ e.name = second' /\ e.state = "running"
    BY <2>1 DEF Export
  <2>. HIDE DEF e
  <2>3. /\ exports' \in Seq(Export) /\ Len(exports') = n /\ DOMAIN exports' = 1..n
        /\ \A i \in 1..Len(exports) : exports'[i] = exports[i]
        /\ exports'[n] = e
    BY <1>0, <2>1, <2>2, AppendProperties, LenProperties
  <2>4. posts' \in 0..MaxExports /\ posts' + Len(exports') <= MaxExports
    BY <1>0, <2>3
  <2>5. /\ files' \in [0..Seconds -> 0..MaxExports]
        /\ \A m \in 0..Seconds : m # second' => files'[m] = files[m]
    BY <1>0, <2>1 DEF ExportsInv
  <2>6. ExportInv'
    <3>1. ASSUME NEW i \in DOMAIN exports' PROVE exports'[i].name = exports'[i].at
      <4>1. CASE i = n
        BY <2>2, <2>3, <4>1
      <4>2. CASE i # n
        <5>1. i \in 1..Len(exports) /\ exports'[i] = exports[i]
          BY <1>0, <2>3, <4>2
        <5>. QED BY <1>0, <5>1 DEF ExportsInv, ExportInv
      <4>. QED BY <4>1, <4>2
    <3>. QED BY <2>4, <3>1 DEF ExportInv
  <2>7. ASSUME NEW i \in DOMAIN exports', exports'[i].state \in {"completed", "uploads"},
               \A j \in DOMAIN exports' \ {i} : exports'[j].at # exports'[i].at
        PROVE  files'[exports'[i].name] = i
    <3>1. i # n
      BY <2>2, <2>3, <2>7
    <3>2. i \in 1..Len(exports) /\ exports'[i] = exports[i]
      BY <1>0, <2>3, <2>7, <3>1
    <3>3. \A j \in DOMAIN exports \ {i} : exports[j].at # exports[i].at
      BY <1>0, <2>3, <2>7, <3>2
    <3>4. files[exports[i].name] = i
      BY <1>0, <2>7, <3>2, <3>3 DEF ExportsInv, ExportsKept
    <3>5. exports[i].at # second'
      BY <1>0, <2>2, <2>3, <2>7, <3>1, <3>2
    <3>6. exports[i].name = exports[i].at /\ exports[i] \in Export
      BY <1>0, <3>2, ElementOfSeq DEF ExportsInv, ExportInv
    <3>7. exports[i].name \in 0..Seconds /\ exports[i].name # second'
      BY <3>5, <3>6 DEF Export
    <3>. QED BY <2>5, <3>2, <3>4, <3>7
  <2>8. ExportsKept'
    BY <2>7 DEF ExportsKept
  <2>. QED BY <2>1, <2>3, <2>4, <2>5, <2>6, <2>8 DEF ExportsInv
<1>. QED BY <1>1, <1>2 DEF CompressVideo

\* An export moves on to the state st: a file is written only where there is
\* none, so only a twin of the same second can be hurt.
LEMMA ExportMoves ==
    ASSUME ExportsInv, NEW i \in DOMAIN exports, NEW st \in {"completed", "failed", "uploads"},
           exports' = [exports EXCEPT ![i].state = st], UNCHANGED <<posts, second>>,
           \/ st = "completed" /\ files' = [files EXCEPT ![exports[i].name] = i]
           \/ st = "failed" /\ files' = files
           \/ st = "uploads" /\ exports[i].state = "completed" /\ files' = files
    PROVE  ExportsInv'
<1>0. /\ MaxExports \in Nat /\ Seconds \in Nat /\ posts \in Nat
      /\ exports \in Seq(Export) /\ Len(exports) \in Nat
      /\ DOMAIN exports = 1..Len(exports) /\ posts + Len(exports) <= MaxExports
      /\ files \in [0..Seconds -> 0..MaxExports]
  BY PublishingAssumption, LenProperties DEF ExportsInv, ExportInv
<1>1. \A k \in DOMAIN exports : exports[k] \in Export /\ exports[k].name = exports[k].at
  BY <1>0, ElementOfSeq DEF ExportsInv, ExportInv
<1>2. PICK e : e = [exports[i] EXCEPT !.state = st]
  OBVIOUS
<1>3. e \in Export /\ e.at = exports[i].at /\ e.name = exports[i].name /\ e.state = st
  BY <1>1, <1>2 DEF Export
<1>4. /\ exports' \in Seq(Export) /\ Len(exports') = Len(exports)
      /\ \A k \in 1..Len(exports) : exports'[k] = IF k = i THEN e ELSE exports[k]
  <2>1. exports' = [exports EXCEPT ![i] = e]
    BY <1>2
  <2>2. i \in 1..Len(exports)
    BY <1>0
  <2>3. /\ [exports EXCEPT ![i] = e] \in Seq(Export)
        /\ Len([exports EXCEPT ![i] = e]) = Len(exports)
        /\ \A k \in 1..Len(exports) : [exports EXCEPT ![i] = e][k] = IF k = i THEN e ELSE exports[k]
    BY <1>0, <1>3, <2>2, ExceptSeq
  <2>. QED BY <2>1, <2>3
<1>5. DOMAIN exports' = DOMAIN exports
  BY <1>0, <1>4, LenProperties
<1>6. \A k \in DOMAIN exports : exports'[k].at = exports[k].at /\ exports'[k].name = exports[k].name
  BY <1>0, <1>3, <1>4
<1>7. i \in 0..MaxExports /\ exports[i].name \in 0..Seconds
  BY <1>0, <1>1 DEF Export
<1>8. files' \in [0..Seconds -> 0..MaxExports]
  BY <1>0, <1>7
<1>9. ExportInv'
  BY <1>0, <1>1, <1>4, <1>5, <1>6 DEF ExportInv, ExportsInv
<1>10. ASSUME NEW k \in DOMAIN exports', exports'[k].state \in {"completed", "uploads"},
              \A j \in DOMAIN exports' \ {k} : exports'[j].at # exports'[k].at
       PROVE  files'[exports'[k].name] = k
  <2>1. \A j \in DOMAIN exports \ {k} : exports[j].at # exports[k].at
    BY <1>5, <1>6, <1>10
  <2>2. CASE k # i
    <3>1. exports'[k] = exports[k]
      BY <1>0, <1>4, <1>5, <1>10, <2>2
    <3>2. files[exports[k].name] = k
      BY <1>5, <1>10, <2>1, <3>1 DEF ExportsInv, ExportsKept
    <3>3. exports[k].name # exports[i].name /\ exports[k].name \in 0..Seconds
      BY <1>1, <1>5, <1>10, <2>1, <2>2 DEF Export
    <3>4. files'[exports[k].name] = files[exports[k].name]
      BY <1>0, <1>7, <3>3
    <3>. QED BY <3>1, <3>2, <3>4
  <2>3. CASE k = i
    <3>1. exports'[k].state = st /\ exports'[k].name = exports[i].name
      BY <1>0, <1>3, <1>4, <2>3
    <3>2. CASE st = "completed"
      <4>1. files' = [files EXCEPT ![exports[i].name] = i]
        BY <3>2
      <4>. QED BY <1>0, <1>7, <2>3, <3>1, <4>1
    <3>3. CASE st = "uploads"
      <4>1. files[exports[i].name] = i /\ files' = files
        BY <2>1, <2>3, <3>3 DEF ExportsInv, ExportsKept
      <4>. QED BY <2>3, <3>1, <4>1
    <3>. QED BY <1>10, <3>1, <3>2, <3>3
  <2>. QED BY <2>2, <2>3
<1>11. ExportsKept'
  BY <1>10 DEF ExportsKept
<1>. QED BY <1>4, <1>8, <1>9, <1>11 DEF ExportsInv

\* No step of the editor breaks it or loses a file.
LEMMA EditorStep ==
    ASSUME CameraInv, GridInv, RecorderInv, EditorTypes, ExportsInv, EditorNext
    PROVE  CameraInv' /\ GridInv' /\ RecorderInv' /\ EditorTypes' /\ ExportsInv'
<1>0. NoVideo \in Video \cup {NoVideo} /\ MaxTitle \in Nat
  BY PublishingAssumption
<1>1. CASE OnlyEditor
  <2>1. UNCHANGED <<camera, top, grid, page, visits, due, disturbed, edited>>
    BY <1>1 DEF OnlyEditor
  <2>2. CameraInv' /\ RecorderInv'
    BY <2>1, CameraFrame DEF RecorderInv
  <2>3. GridInv'
    <3>1. top' \in Screen /\ disturbed' \in BOOLEAN
      BY <2>1 DEF GridInv, GridTypes
    <3>. QED BY <2>1, <3>1, GridFrame
  <2>4. EditorTypes' /\ ExportsInv'
    <3>1. CASE TitleChanges
      <4>1. PICK n \in 0..(MaxTitle + 1) : title' = IF n <= MaxTitle THEN n ELSE title
        BY <3>1 DEF TitleChanges
      <4>2. title' \in 0..MaxTitle
        BY <1>0, <4>1 DEF EditorTypes
      <4>3. tip' = FALSE /\ UNCHANGED <<edited, over, posts, plays, second, exports, files>>
        BY <2>1, <3>1 DEF TitleChanges
      <4>. QED BY <4>2, <4>3, ExportsFrame DEF EditorTypes
    <3>2. CASE TextFieldDidBeginEditing
      <4>1. UNCHANGED <<edited, title, over, posts, plays, second, exports, files>>
        BY <2>1, <3>2 DEF TextFieldDidBeginEditing
      <4>2. tip' \in BOOLEAN
        BY <3>2, Zenon DEF TextFieldDidBeginEditing
      <4>. QED BY <4>1, <4>2, ExportsFrame DEF EditorTypes
    <3>3. CASE CancleButtonAction \/ AlertAnswered \/ EditorPlayerClosed
      <4>1. CASE LeaveEditor
        <5>1. /\ edited' = NoVideo /\ title' = 0 /\ tip' = FALSE /\ over' = "none" /\ plays' = FALSE
              /\ UNCHANGED <<posts, second, exports, files>>
          BY <4>1 DEF LeaveEditor
        <5>2. title' \in 0..MaxTitle
          BY <1>0, <5>1
        <5>. QED BY <1>0, <5>1, <5>2, ExportsFrame DEF EditorTypes
      <4>2. CASE ~LeaveEditor
        <5>1. /\ over' \in {"none", "alert", "player"}
              /\ UNCHANGED <<edited, title, tip, posts, plays, second, exports, files>>
          BY <2>1, <3>3, <4>2 DEF CancleButtonAction, AlertAnswered, EditorPlayerClosed
        <5>. QED BY <5>1, ExportsFrame DEF EditorTypes
      <4>. QED BY <4>1, <4>2
    <3>4. CASE PlayAction
      <4>1. /\ over' \in {over, "player"} /\ plays' \in {plays, TRUE}
            /\ UNCHANGED <<edited, title, tip, posts, second, exports, files>>
        BY <2>1, <3>4 DEF PlayAction
      <4>. QED BY <4>1, ExportsFrame DEF EditorTypes
    <3>5. CASE EditorClipArrives
      <4>1. /\ over' \in {over, "player"} /\ plays' = FALSE
            /\ UNCHANGED <<edited, title, tip, posts, second, exports, files>>
        BY <2>1, <3>5 DEF EditorClipArrives
      <4>. QED BY <4>1, ExportsFrame DEF EditorTypes
    <3>6. CASE PublicBUttonAction
      <4>1. /\ tip' \in {tip, TRUE} /\ UNCHANGED <<edited, title, over, plays, second, exports, files>>
            /\ posts' = posts \/ (posts + Len(exports) < MaxExports /\ posts' = posts + 1)
        BY <2>1, <3>6 DEF PublicBUttonAction
      <4>2. EditorTypes'
        BY <4>1 DEF EditorTypes
      <4>3. ExportsInv'
        BY <4>1, ExportsFrame, PostStep
      <4>. QED BY <4>2, <4>3
    <3>7. CASE CompressVideo
      <4>1. UNCHANGED <<edited, title, tip, over, plays>>
        BY <2>1, <3>7 DEF CompressVideo
      <4>. QED BY <3>7, <4>1, CompressStep DEF EditorTypes
    <3>8. ASSUME NEW i \in DOMAIN exports, ExportEnds(i) \/ ExportTold(i)
          PROVE  EditorTypes' /\ ExportsInv'
      <4>1. UNCHANGED <<edited, title, tip, over, posts, plays, second>>
        BY <2>1, <3>8 DEF ExportEnds, ExportTold
      <4>2. ExportsInv'
        BY <3>8, <4>1, ExportMoves DEF ExportEnds, ExportTold
      <4>. QED BY <4>1, <4>2 DEF EditorTypes
    <3>. QED BY <3>1, <3>2, <3>3, <3>4, <3>5, <3>6, <3>7, <3>8 DEF EditorNext
  <2>. QED BY <2>2, <2>3, <2>4
<1>2. CASE LeaveEditor
  <2>1. /\ top' = "public" /\ edited' = NoVideo /\ title' = 0 /\ tip' = FALSE /\ over' = "none"
        /\ plays' = FALSE /\ UNCHANGED <<camera, grid, page, visits, due, disturbed>>
        /\ UNCHANGED <<posts, second, exports, files>>
    BY <1>2 DEF LeaveEditor
  <2>2. CameraInv' /\ RecorderInv'
    BY <2>1, CameraFrame DEF RecorderInv
  <2>3. GridInv'
    <3>1. top' \in Screen /\ top' # "photos" /\ disturbed' \in BOOLEAN
      BY <2>1 DEF GridInv, GridTypes, Screen
    <3>. QED BY <2>1, <3>1, GridFrame
  <2>4. title' \in 0..MaxTitle
    BY <1>0, <2>1
  <2>5. EditorTypes'
    BY <1>0, <2>1, <2>4 DEF EditorTypes
  <2>. QED BY <2>1, <2>2, <2>3, <2>5, ExportsFrame
<1>3. OnlyEditor \/ LeaveEditor
  BY DEF EditorNext, TitleChanges, TextFieldDidBeginEditing, CancleButtonAction, AlertAnswered,
         PlayAction, EditorClipArrives, EditorPlayerClosed, PublicBUttonAction, CompressVideo,
         ExportEnds, ExportTold
<1>. QED BY <1>1, <1>2, <1>3

\* The recorder's other steps.
LEMMA RecorderStep ==
    ASSUME CameraInv, GridInv, RecorderInv, EditorTypes, ExportsInv, RecorderNext
    PROVE  CameraInv' /\ GridInv' /\ RecorderInv' /\ EditorTypes' /\ ExportsInv'
<1>0. ASSUME UNCHANGED editor PROVE EditorTypes' /\ ExportsInv'
  BY <1>0, ExportsFrame DEF editor, EditorTypes
<1>1. CASE PublickAction
  <2>1. /\ visits < MaxVisits /\ top' = "recorder" /\ visits' = visits + 1 /\ open' = TRUE
        /\ UNCHANGED <<control, manager, video, audio, url, handed, written, failed>>
        /\ UNCHANGED <<crashed, unlucky, grid, page, due, editor>>
    BY <1>1 DEF PublickAction
  <2>2. crashed' \in BOOLEAN /\ unlucky' \in BOOLEAN
    BY <2>1 DEF CameraInv, TypeOK
  <2>3. CameraInv'
    BY <2>1, <2>2, QuietStep
  <2>4. disturbed' \in BOOLEAN
    BY <1>1, Zenon DEF PublickAction, Touch
  <2>5. top' \in Screen /\ top' # "photos"
    BY <2>1 DEF Screen
  <2>6. GridInv'
    BY <2>1, <2>4, <2>5, GridFrame
  <2>7. visits' \in 0..MaxVisits
    BY <2>1, PublishingAssumption DEF RecorderInv
  <2>8. RecorderInv'
    BY <2>1, <2>7 DEF RecorderInv
  <2>. QED BY <1>0, <2>1, <2>3, <2>6, <2>8
<1>2. CASE ChangePage
  <2>1. /\ barsShown /\ page' \in {"camera", "picker"}
        /\ UNCHANGED <<top, grid, visits, due, disturbed, editor>>
        /\ UNCHANGED <<open, crashed, unlucky>>
        /\ UNCHANGED <<control, manager, video, audio, url, handed, written, failed>>
    BY <1>2 DEF ChangePage, camera, vars
  <2>2. open' \in BOOLEAN /\ crashed' \in BOOLEAN /\ unlucky' \in BOOLEAN
    BY <2>1 DEF CameraInv, TypeOK
  <2>3. CameraInv'
    BY <2>1, <2>2, QuietStep
  <2>4. top' \in Screen /\ disturbed' \in BOOLEAN
    BY <2>1 DEF GridInv, GridTypes
  <2>5. GridInv'
    BY <2>1, <2>4, GridFrame
  <2>6. RecorderInv'
    BY <2>1 DEF RecorderInv
  <2>. QED BY <1>0, <2>1, <2>3, <2>5, <2>6
<1>3. CASE HandOverTake \/ (\E v \in Library : DidFinishPicking(v)) \/ Exit \/ DismissVc
  BY <1>0, <1>3, LeaveRecorderStep
<1>4. CASE Closed
  <2>1. top' = "public" /\ UNCHANGED <<camera, grid, page, visits, due, disturbed, editor>>
    BY <1>4 DEF Closed
  <2>2. top' \in Screen /\ top' # "photos" /\ disturbed' \in BOOLEAN
    BY <2>1 DEF Screen, GridInv, GridTypes
  <2>3. GridInv' /\ CameraInv'
    BY <2>1, <2>2, GridFrame, CameraFrame
  <2>4. RecorderInv'
    BY <2>1 DEF RecorderInv
  <2>. QED BY <1>0, <2>1, <2>3, <2>4
<1>5. CASE PresentEditor
  <2>1. /\ due' = NoVideo /\ disturbed' = FALSE /\ edited' \in {due, edited}
        /\ top' \in {top, "editor"}
        /\ UNCHANGED <<camera, grid, page, visits, title, tip, over, plays>>
        /\ UNCHANGED <<posts, second, exports, files>>
    BY <1>5 DEF PresentEditor
  <2>2. top' \in Screen /\ disturbed' \in BOOLEAN
    BY <2>1 DEF Screen, GridInv, GridTypes
  <2>3. GridInv' /\ CameraInv'
    BY <2>1, <2>2, GridFrame, CameraFrame
  <2>4. RecorderInv' /\ EditorTypes'
    BY <2>1 DEF RecorderInv, EditorTypes
  <2>. QED BY <2>1, <2>3, <2>4, ExportsFrame
<1>. QED BY <1>1, <1>2, <1>3, <1>4, <1>5 DEF RecorderNext
-----------------------------------------------------------------------------
(* The theorems.                                                           *)

PInv == CameraInv /\ GridInv /\ RecorderInv /\ EditorTypes /\ ExportsInv

\* The app starts in SPublicVC with an empty grid.
LEMMA PInvInit == PInit => PInv
<1>. SUFFICES ASSUME PInit PROVE PInv
  OBVIOUS
<1>0. /\ VideoLength \in Nat /\ MaxTakes \in Nat /\ GridLimit \in Nat \ {0} /\ MaxTitle \in Nat
      /\ MaxVisits \in Nat /\ MaxExports \in Nat /\ Seconds \in Nat
  BY CameraAssumption, PublishingAssumption
<1>1. /\ InitCamera /\ open = FALSE
      /\ top = "public" /\ dataArray = <<"add">> /\ cells = <<"add">>
      /\ isVideo = FALSE /\ pathPHAssest = 0 /\ clip = 0 /\ picked = 0
      /\ twoTouches = FALSE /\ disturbed = FALSE
      /\ page = "camera" /\ visits = 0 /\ due = NoVideo
      /\ edited = NoVideo /\ title = 0 /\ tip = FALSE /\ over = "none" /\ posts = 0
      /\ plays = FALSE /\ second = 0 /\ exports = <<>> /\ files = [n \in 0..Seconds |-> 0]
  BY DEF PInit
<1>2. CameraInv
  <2>1. handed = <<>> /\ <<>> \in Seq(0..MaxTakes) /\ DOMAIN handed = {}
    BY <1>1 DEF InitCamera
  <2>2. 0 \in 0..MaxTakes /\ 0 <= VideoLength + 1
    BY <1>0
  <2>3. TypeOK
    BY <1>1, <2>1, <2>2 DEF InitCamera, TypeOK
  <2>4. TimeInv /\ ScreenInv /\ LuckInv
    BY <1>1, <2>2 DEF InitCamera, TimeInv, ScreenInv, LuckInv
  <2>5. FileInv
    BY <1>1, <2>1 DEF InitCamera, FileInv, WriterInv
  <2>. QED BY <2>3, <2>4, <2>5 DEF CameraInv
<1>3. GridInv
  <2>1. <<"add">> \in Seq(Cell) /\ Len(<<"add">>) = 1 /\ <<"add">>[1] = "add"
    BY DEF Cell
  <2>2. <<"add">> = Grid(0)
    <3>1. 0 \in 0..GridLimit /\ 0 < GridLimit /\ 0 + 1 = 1
      BY <1>0
    <3>2. \A i \in 1..0 : <<"add">>[i] = "photo"
      OBVIOUS
    <3>. QED BY <2>1, <3>1, <3>2, IsGrid
  <2>3. 0 \in 0..GridLimit
    BY <1>0
  <2>4. GridRule
    BY <1>1, <2>2, <2>3, GridRuleIs
  <2>5. GridTypes /\ PhotosInv /\ PhotosOrVideo
    BY <1>1, <2>1 DEF GridTypes, Screen, PhotosInv, PhotosOrVideo
  <2>. QED BY <2>4, <2>5 DEF GridInv
<1>4. RecorderInv /\ EditorTypes
  BY <1>0, <1>1 DEF RecorderInv, EditorTypes
<1>5. ExportsInv
  <2>1. exports \in Seq(Export) /\ Len(exports) = 0 /\ DOMAIN exports = {}
    BY <1>1
  <2>2. ExportInv /\ ExportsKept
    BY <1>0, <1>1, <2>1 DEF ExportInv, ExportsKept
  <2>3. posts \in 0..MaxExports /\ second \in 0..Seconds /\ files \in [0..Seconds -> 0..MaxExports]
    BY <1>0, <1>1
  <2>. QED BY <2>1, <2>2, <2>3 DEF ExportsInv
<1>. QED BY <1>2, <1>3, <1>4, <1>5 DEF PInv

\* No step of any screen, thread or completion handler breaks the invariant.
LEMMA PInvStep == PInv /\ [PNext]_pvars => PInv'
<1>. SUFFICES ASSUME PInv, [PNext]_pvars PROVE PInv'
  OBVIOUS
<1>0. ASSUME UNCHANGED host PROVE GridInv' /\ RecorderInv' /\ EditorTypes' /\ ExportsInv'
  <2>1. /\ UNCHANGED <<top, grid, page, visits, due, disturbed>>
        /\ UNCHANGED <<edited, title, tip, over, plays>>
        /\ UNCHANGED <<posts, second, exports, files>>
    BY <1>0 DEF host, editor
  <2>2. top' \in Screen /\ disturbed' \in BOOLEAN
    BY <2>1 DEF PInv, GridInv, GridTypes
  <2>3. GridInv' /\ ExportsInv'
    BY <2>1, <2>2, GridFrame, ExportsFrame DEF PInv
  <2>. QED BY <2>1, <2>3 DEF PInv, RecorderInv, EditorTypes
<1>1. CASE CameraNext
  BY <1>0, <1>1, CameraNextStep DEF PInv
<1>2. CASE GridNext
  <2>1. CameraInv' /\ GridInv' /\ UNCHANGED <<page, visits, due, editor>>
    BY <1>2, GridStep DEF PInv
  <2>2. /\ UNCHANGED <<edited, title, tip, over, plays>>
        /\ UNCHANGED <<posts, second, exports, files>>
    BY <2>1 DEF editor
  <2>3. RecorderInv' /\ EditorTypes'
    BY <2>1, <2>2 DEF PInv, RecorderInv, EditorTypes
  <2>. QED BY <2>1, <2>2, <2>3, ExportsFrame DEF PInv
<1>3. CASE RecorderNext
  BY <1>3, RecorderStep DEF PInv
<1>4. CASE EditorNext
  BY <1>4, EditorStep DEF PInv
<1>5. CASE UNCHANGED pvars
  <2>1. UNCHANGED <<camera, page>> /\ UNCHANGED host
    BY <1>5 DEF pvars, host
  <2>. QED BY <1>0, <2>1, CameraFrame DEF PInv
<1>. QED BY <1>1, <1>2, <1>3, <1>4, <1>5 DEF PNext

\* PInv holds in every reachable state.
LEMMA Invariance == PSpec => []PInv
BY PInvInit, PInvStep, PTL DEF PSpec

\* Every reachable state of the camera and the publishing screens is well typed.
THEOREM PublishingTypes == PSpec => []PTypeOK
<1>1. PInv => PTypeOK
  BY DEF PInv, CameraInv, GridInv, GridTypes, Screen, Cell, RecorderInv, EditorTypes,
         ExportsInv, Export, PTypeOK
<1>. QED BY <1>1, Invariance, PTL

\* No take runs longer than videoLength and one tick, for any videoLength, any
\* number of takes and any order of taps, ticks and retakes.
THEOREM TakesAlwaysBounded == PSpec => []TakesBounded
<1>1. PInv => TakesBounded
  BY DEF PInv, CameraInv, TimeInv, TakesBounded
<1>. QED BY <1>1, Invariance, PTL

\* The file under review and the files handed to the host are the finished files
\* of takes, none of them twice.
THEOREM AlwaysFileOfTheTake == PSpec => []FileOfTheTake
<1>1. PInv => FileOfTheTake
  BY DEF PInv, CameraInv, FileInv, FileOfTheTake
<1>. QED BY <1>1, Invariance, PTL

\* Camera button, writer and review follow each other.
THEOREM ScreensAlwaysTakeTurns == PSpec => []ScreensTakeTurns
<1>1. ASSUME PInv, ~crashed
      PROVE  /\ cameraShown # (reviewShown \/ handler # "none")
             /\ timer = isRecording
             /\ barsShown = (cameraShown /\ ~timer)
  BY <1>1, Zenon DEF PInv, CameraInv, ScreenInv, TypeOK
<1>2. ASSUME PInv, ~crashed
      PROVE  ~(reviewShown /\ handler # "none") /\ (timer => cameraShown /\ ~barsShown)
  BY <1>2 DEF PInv, CameraInv, ScreenInv
<1>3. PInv => ScreensTakeTurns
  BY <1>1, <1>2 DEF ScreensTakeTurns
<1>. QED BY <1>3, Invariance, PTL

\* The unlocked accesses end the process only by one of the coincidences that
\* unlucky names, for any interleaving of the four threads.
THEOREM CrashAlwaysBadLuck == PSpec => []CrashNeedsBadLuck
<1>1. PInv => CrashNeedsBadLuck
  BY DEF PInv, CameraInv, LuckInv, CrashNeedsBadLuck
<1>. QED BY <1>1, Invariance, PTL

\* The grid keeps its rule for any limit and any photos added and cleared.
THEOREM GridAlwaysRuled == PSpec => []GridRule
<1>1. PInv => GridRule
  BY DEF PInv, GridInv
<1>. QED BY <1>1, Invariance, PTL

\* A post is photos or one video, and playVideo plays the one that is shown.
THEOREM AlwaysPhotosOrVideo == PSpec => []PhotosOrVideo
<1>1. PInv => PhotosOrVideo
  BY DEF PInv, GridInv
<1>. QED BY <1>1, Invariance, PTL

\* A finished export keeps its file, for any number of exports and failures, as
\* long as none other began in its second.
THEOREM ExportsAlwaysKept == PSpec => []ExportsKept
<1>1. PInv => ExportsKept
  BY DEF PInv, ExportsInv
<1>. QED BY <1>1, Invariance, PTL
=============================================================================
