---------------------------- MODULE DisplayVideo ----------------------------
(***************************************************************************)
(* The whole display page: DisplayPage with its video element              *)
(* (files/static/main.js: clearPeer, displayPeer with its ontrack, the     *)
(* enable-audio button) and the promises of the element's play(), which    *)
(* HTML settles:                                                           *)
(*   - play() of audible media that may not play is rejected at once;      *)
(*   - else its promise is pending until the media flow, then a task that  *)
(*     resolves it is queued;                                              *)
(*   - setting srcObject resolves what such a task would have resolved and *)
(*     rejects what is pending, whatever the reason it is pending for.     *)
(* What follows a settled promise runs after the handler that settled it.  *)
(* The tracks of an offer come when it is set as remote description.       *)
(***************************************************************************)
EXTENDS DisplayPage

CONSTANT Tracks \* how many tracks an offer may have: one, or two with audio

ASSUME SomeTracks == Tracks \subseteq {1, 2}

VARIABLES blocked,     \* the browser's policy blocks audible autoplay
          activated,   \* the user has clicked
          src,         \* video.srcObject is set
          flowing,     \* its media flow
          muted,       \* video.muted
          playing,     \* class playing, which hides the code
          audioButton, \* enable-audio is shown
          plays,       \* the kinds of play() whose promise is pending
          due          \* those a queued task resolves

policyVars == <<blocked, activated>>
elementVars == <<src, flowing, muted, playing, audioButton, plays, due>>
videoVars == <<policyVars, elementVars>>

\* The play() of ontrack, the one after its failure, the one of the button.
Play == {"track", "retry", "click"}

VideoInit == /\ DisplayInit
             /\ blocked \in BOOLEAN /\ activated = FALSE
             /\ src = FALSE /\ flowing = FALSE /\ muted = FALSE
             /\ playing = FALSE /\ audioButton = FALSE /\ plays = {} /\ due = {}

\* What the resolved promises do to playing and to the button.
PlayingAfter(resolved, was) == was \/ resolved \cap {"track", "retry"} # {}
ButtonAfter(resolved, was) == was /\ resolved \cap {"track", "click"} = {}

\* The kinds of play() that follow the rejected ones: muted, they are allowed.
Retried(rejected) == IF "track" \in rejected THEN {"retry"} ELSE {}

\* clearPeer, whose play promises are settled when the handler that called it
\* has left muted as m; unset is srcObject after it.
Clear(m, unset) ==
  /\ src' = unset /\ flowing' = FALSE
  /\ muted' = (m \/ "track" \in plays)
  /\ playing' = PlayingAfter(due, FALSE)
  /\ audioButton' = ("track" \in plays)
  /\ plays' = Retried(plays) /\ due' = {}
  /\ UNCHANGED policyVars

-----------------------------------------------------------------------------

\* displayPeer sets muted and srcObject after its clearPeer.
StartVideo == NewSession /\ Clear(FALSE, TRUE)
StopVideo == (PresenterClosed \/ VideoEnds) /\ Clear(muted, FALSE)

\* ontrack, for each of the tracks: the first play() may be rejected at once.
ShowTracks(tracks) ==
  /\ IF blocked /\ ~activated /\ ~muted
     THEN /\ muted' = TRUE /\ audioButton' = TRUE
          /\ plays' = plays \cup Retried({"track"}) \cup (IF tracks = 2 THEN {"track"} ELSE {})
     ELSE plays' = plays \cup {"track"} /\ UNCHANGED <<muted, audioButton>>
  /\ UNCHANGED <<policyVars, src, flowing, playing, due>>

GotTracks(n) == RemoteSet(n) /\ \E tracks \in Tracks : ShowTracks(tracks)

\* The media of the tracks arrive; they may never.
Flow == /\ pc # 0 /\ conns[pc].remote # 0 /\ ~flowing /\ flowing' = TRUE
        /\ UNCHANGED <<displayVars, policyVars, src, muted, playing, audioButton, plays, due>>

Queue == /\ flowing /\ plays # {}
         /\ due' = due \cup plays /\ plays' = {}
         /\ UNCHANGED <<displayVars, policyVars, src, flowing, muted, playing, audioButton>>

Resolve == /\ due # {} /\ due' = {}
           /\ playing' = PlayingAfter(due, playing)
           /\ audioButton' = ButtonAfter(due, audioButton)
           /\ UNCHANGED <<displayVars, policyVars, src, flowing, muted, plays>>

\* What the button makes of muted.  (Mutated form: nothing.)
MutedByClick_Kept == muted
MutedByClick == FALSE

Click == /\ audioButton
         /\ activated' = TRUE /\ muted' = MutedByClick
         /\ plays' = plays \cup {"click"}
         /\ UNCHANGED <<displayVars, blocked, src, flowing, playing, audioButton, due>>

\* What does not touch the video element.
Negotiate == \/ GotOffer \/ Lose \/ (\E c \in Candidate : GotCandidate(c))
             \/ (\E n \in Session : Flushed(n) \/ Created(n) \/ LocalSet(n))
             \/ Done

VideoNext == \/ StartVideo \/ StopVideo \/ (\E n \in Session : GotTracks(n))
             \/ (Negotiate /\ UNCHANGED videoVars)
             \/ Flow \/ Queue \/ Resolve \/ Click

\* Operations of an open connection complete; the browser runs what it queued.
VideoFairness == /\ \A n \in Session : WF_displayVars(Answering(n))
                 /\ WF_videoVars(Queue) /\ WF_videoVars(Resolve)

VideoSpec == VideoInit /\ [][VideoNext]_<<displayVars, videoVars>> /\ VideoFairness

-----------------------------------------------------------------------------
(* Properties                                                              *)

\* There is a picture only of the connection there is.
DisplayVideoTypeOK ==
  /\ {blocked, activated, src, flowing, muted, playing, audioButton} \subseteq BOOLEAN
  /\ plays \subseteq Play /\ due \subseteq Play
  /\ (src <=> pc # 0) /\ (flowing => src)

\* A display that may play sound is not left muted by what became of the play()
\* of an earlier session.
SoundOnWhenAllowed == src /\ ~blocked => ~muted

\* When the media flow the picture is shown, muted if it must be.
PictureShown == flowing ~> playing \/ ~src

\* Once the user has clicked the button, the sound is on and the button goes, in
\* this session and in later ones.
EnableAudioWorks == activated /\ flowing ~> (~muted /\ ~audioButton) \/ ~src

\* What a presenter offers is shown in the end, and heard when the display's user
\* wants it.
DisplayShows == OfferAnswered /\ PictureShown /\ EnableAudioWorks

\* README.md:133: "If the display browser blocks audible autoplay, BrowserStream
\* shows an **Enable audio** button".
BlockedAudioHasButton == src /\ playing /\ muted => audioButton

=============================================================================
