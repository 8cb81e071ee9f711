------------------------------- MODULE MCPages -------------------------------
(***************************************************************************)
(* A page of either kind: main.js is the script of the display's page and  *)
(* of the presenter's, and its route chooses, once, which the page is.     *)
(***************************************************************************)
EXTENDS DisplayVideo, PresenterPage

VARIABLE kind

PagesInit == kind \in {"display", "presenter"} /\ VideoInit /\ PresenterInit

DisplayMoves == /\ kind = "display" /\ VideoNext
                /\ UNCHANGED <<kind, presenterVars>>
PresenterMoves == /\ kind = "presenter" /\ PresenterNext
                  /\ UNCHANGED <<kind, displayVars, videoVars>>

PagesNext == DisplayMoves \/ PresenterMoves

PagesSpec == /\ PagesInit /\ [][PagesNext]_<<kind, displayVars, videoVars, presenterVars>>
             /\ VideoFairness

-----------------------------------------------------------------------------
(* Properties of both kinds                                                *)

PagesTypeOK == DisplayPageTypeOK /\ DisplayVideoTypeOK /\ PresenterTypeOK

\* A negotiation gets its own answer and candidates, and the picture its sound,
\* whatever is left of earlier sessions (answerOffer, addRemoteCandidate,
\* flushRemoteCandidates, clearPeer).
SessionsKeptApart ==
  AnswersMatch /\ CandidatesComplete /\ SoundOnWhenAllowed /\ CandidatesApplied

=============================================================================
