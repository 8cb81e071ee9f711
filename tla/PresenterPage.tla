---------------------------- MODULE PresenterPage ----------------------------
(***************************************************************************)
(* The presenter's page over several attempts to share (files/static/      *)
(* main.js: stopMedia, prepareOutgoingStream, presenterFailure,            *)
(* startSharing, presenterPeer, addRemoteCandidate, flushRemoteCandidates).*)
(*                                                                         *)
(* Each press of start-share is an attempt, with its capture, its socket   *)
(* and its peer connection; the page has one variable for each of these,   *)
(* for all attempts.  A failed attempt leaves its socket to close and its  *)
(* handlers to go on after their awaits.  The prompt for a screen is modal.*)
(* Stopping the share or cancelling leaves the page and is not modelled.   *)
(***************************************************************************)
EXTENDS Naturals, Sequences, FiniteSets

CONSTANTS DisplayCandidate,  \* the display's candidates in each session
          MaxAttempt, \* bound on the attempts
          Patient     \* the user tries again only when what is due of earlier
                      \* attempts has happened (Settled)

ASSUME SomeAttempts == MaxAttempt \in Nat \ {0} /\ Patient \in BOOLEAN

VARIABLES form,     \* presenter is shown: the form, else the shared screen
          mayShare, \* start-share is enabled
          captures, \* the captures whose tracks run
          capture,  \* state.captureStream, 0 for null
          stream,   \* state.stream
          socket,   \* state.socket
          caller,   \* state.pc
          queue,    \* state.pendingCandidates
          at,       \* how far the handlers of each attempt are
          sock,     \* the sockets
          arrived,  \* the candidates received for each attempt
          added     \* the candidates its connection has

screenVars == <<form, mayShare, captures, capture, stream>>
callVars == <<caller, queue, arrived, added>>
presenterVars == <<screenVars, socket, callVars, at, sock>>

Attempt == 1..MaxAttempt

Stage == {"none", "prompt", "preparing", "ready", "asked", "offering",
          "offered", "answering", "flushing", "answered", "over"}

\* "closing": close was called, or the other end went; its event is due.
Socket == {"none", "open", "closing", "closed"}

PresenterInit == /\ form = TRUE /\ mayShare = TRUE /\ captures = {} /\ capture = 0 /\ stream = 0
                 /\ socket = 0 /\ caller = 0 /\ queue = <<>>
                 /\ at = [n \in Attempt |-> "none"] /\ sock = [n \in Attempt |-> "none"]
                 /\ arrived = [n \in Attempt |-> {}] /\ added = [n \in Attempt |-> {}]

Moves(n, stage) == at' = [at EXCEPT ![n] = stage]

\* stopMedia.
Stopped(tracks) == tracks \ {stream, capture}

\* state.socket.close().
Hung == IF socket # 0 /\ sock[socket] = "open"
        THEN [sock EXCEPT ![socket] = "closing"] ELSE sock

PresenterFailure ==
  /\ captures' = Stopped(captures) /\ stream' = 0 /\ capture' = 0
  /\ sock' = Hung /\ socket' = 0
  /\ mayShare' = TRUE /\ form' = TRUE

-----------------------------------------------------------------------------
(* startSharing *)

Prompting == \E n \in Attempt : at[n] = "prompt"

\* Close events were delivered and awaited operations are complete.
Settled == \A m \in Attempt :
             sock[m] # "closing" /\ at[m] \notin {"offering", "answering", "flushing"}

StartSharing(n) ==
  /\ form /\ mayShare /\ ~Prompting /\ (Patient => Settled)
  /\ at[n] = "none" /\ \A m \in 1..(n - 1) : at[m] # "none"
  /\ mayShare' = FALSE /\ Moves(n, "prompt")
  /\ UNCHANGED <<form, captures, capture, stream, socket, callVars, sock>>

\* (Mutated form: state.captureStream is not set.)
Captures_Not(n) == capture
Captures(n) == n

\* prepareOutgoingStream, up to the resumption of the audio context.
Captured(n) ==
  /\ at[n] = "prompt"
  /\ captures' = captures \cup {n} /\ capture' = Captures(n) /\ Moves(n, "preparing")
  /\ UNCHANGED <<form, mayShare, stream, socket, callVars, sock>>

\* The stream is set, the screen shown, and the socket made.
Prepared(n) ==
  /\ at[n] = "preparing"
  /\ stream' = n /\ form' = FALSE /\ socket' = n
  /\ sock' = [sock EXCEPT ![n] = "open"] /\ Moves(n, "ready")
  /\ UNCHANGED <<mayShare, captures, capture, callVars>>

\* The user declines, or the audio context does not resume.
CaptureFails(n) ==
  /\ at[n] \in {"prompt", "preparing"}
  /\ PresenterFailure /\ Moves(n, "over")
  /\ UNCHANGED callVars

-----------------------------------------------------------------------------
(* The socket of an attempt *)

\* auth, and on authAccepted startSession, by state.socket.
Asks(n) == /\ sock[n] = "open" /\ at[n] = "ready" /\ socket = n
           /\ Moves(n, "asked")
           /\ UNCHANGED <<screenVars, socket, callVars, sock>>

\* invalidCode, lockedOut, displayNotFound, presenterBusy.
Refused(n) == /\ sock[n] = "open" /\ at[n] = "asked"
              /\ PresenterFailure /\ Moves(n, "over")
              /\ UNCHANGED callVars

\* newSession: presenterPeer, which fails without state.stream.
SessionBegins(n) ==
  /\ sock[n] = "open" /\ at[n] = "asked"
  /\ caller' = n /\ Moves(n, IF stream # 0 THEN "offering" ELSE "over")
  /\ UNCHANGED <<screenVars, socket, queue, arrived, added, sock>>

\* gotOffer is sent by state.socket.  Sent by another attempt's, with this
\* session's ID, it is ignored.
Offered(n) == /\ at[n] = "offering"
              /\ Moves(n, IF socket = n THEN "offered" ELSE "over")
              /\ UNCHANGED <<screenVars, socket, callVars, sock>>

\* gotAnswer && state.pc: setRemoteDescription is called.
GotAnswer(n) == /\ sock[n] = "open" /\ at[n] = "offered"
                /\ Moves(n, "answering")
                /\ UNCHANGED <<screenVars, socket, callVars, sock>>

\* state.pc.remoteDescription.
AnswerIsSet == caller # 0 /\ at[caller] \in {"flushing", "answered"}

\* addCalleeIceCandidate: addRemoteCandidate.  The display's page sends its
\* answer first, and the server relays in order.
CandidateComes(n, c) ==
  /\ sock[n] = "open" /\ at[n] \in {"answering", "flushing", "answered"}
  /\ c \notin arrived[n]
  /\ arrived' = [arrived EXCEPT ![n] = @ \cup {c}]
  /\ IF AnswerIsSet
     THEN added' = [added EXCEPT ![caller] = @ \cup {<<n, c>>}] /\ UNCHANGED queue
     ELSE queue' = Append(queue, <<n, c>>) /\ UNCHANGED added
  /\ UNCHANGED <<screenVars, socket, caller, at, sock>>

\* The loop of flushRemoteCandidates goes on.
MoreQueued(n) == (caller = n \/ AnswerIsSet) /\ queue # <<>>

FlushQueue(n) ==
  /\ at[n] \in {"answering", "flushing"}
  /\ IF MoreQueued(n)
     THEN /\ added' = [added EXCEPT ![caller] = @ \cup {Head(queue)}]
          /\ queue' = Tail(queue) /\ Moves(n, "flushing")
     ELSE UNCHANGED <<added, queue>> /\ Moves(n, "answered")
  /\ UNCHANGED <<screenVars, socket, caller, arrived, sock>>

\* The server closes the connection, or it is lost.
Drop(n) == /\ sock[n] = "open"
           /\ sock' = [sock EXCEPT ![n] = "closing"]
           /\ UNCHANGED <<screenVars, socket, callVars, at>>

\* The close event.
SocketClosed(n) ==
  /\ sock[n] = "closing"
  /\ IF stream # 0
     THEN /\ captures' = Stopped(captures) /\ stream' = 0 /\ capture' = 0 /\ form' = TRUE
     ELSE UNCHANGED <<captures, stream, capture, form>>
  /\ socket' = 0 /\ mayShare' = TRUE
  /\ sock' = [sock EXCEPT ![n] = "closed"]
  /\ UNCHANGED <<callVars, at>>

Attempts(n) == \/ StartSharing(n) \/ Captured(n) \/ Prepared(n) \/ CaptureFails(n)
               \/ Asks(n) \/ Refused(n) \/ SessionBegins(n) \/ Offered(n) \/ GotAnswer(n)
               \/ (\E c \in DisplayCandidate : CandidateComes(n, c))
               \/ FlushQueue(n) \/ Drop(n) \/ SocketClosed(n)

\* Every attempt was made, and its socket is closed.
AllOver == /\ \A n \in Attempt : at[n] \notin {"none", "prompt", "preparing"}
           /\ Settled
           /\ \A n \in Attempt : sock[n] # "open" /\ UNCHANGED presenterVars

PresenterNext == (\E n \in Attempt : Attempts(n)) \/ AllOver

PresenterSpec == PresenterInit /\ [][PresenterNext]_presenterVars

-----------------------------------------------------------------------------
(* Properties                                                              *)

PresenterTypeOK ==
  /\ form \in BOOLEAN /\ mayShare \in BOOLEAN /\ captures \in SUBSET Attempt
  /\ {capture, stream, socket, caller} \subseteq {0} \cup Attempt
  /\ queue \in Seq(Attempt \X DisplayCandidate)
  /\ at \in [Attempt -> Stage] /\ sock \in [Attempt -> Socket]
  /\ arrived \in [Attempt -> SUBSET DisplayCandidate]
  /\ added \in [Attempt -> SUBSET (Attempt \X DisplayCandidate)]
  /\ stream # 0 => stream = capture

\* Nothing is captured while the page shows its form, whichever step of which
\* attempt failed; a screen is captured only by the attempt that goes on.
NothingCapturedBehindForm ==
  \A n \in captures : n = capture /\ (form => at[n] = "preparing")

\* The room is not kept busy by a socket the page has forgotten.
NoSocketForgotten == \A n \in Attempt : sock[n] = "open" => socket = n

\* The screen is not shown as shared without a socket, or one whose close event
\* is still to come.
SharingHasSocket == ~form => stream # 0 /\ sock[stream] \in {"open", "closing"}

\* The form can be sent again unless an attempt is being prepared.
MayTryAgain ==
  form /\ (\A n \in Attempt : at[n] \notin {"prompt", "preparing"}) => mayShare

\* Once an answer is applied its connection has every candidate received for the
\* attempt, those from before it was applied too, and none of another attempt.
CandidatesApplied ==
  \A n \in Attempt : at[n] = "answered" /\ caller = n =>
    added[n] = {<<n, c>> : c \in arrived[n]}

\* A failed attempt leaves nothing on, and does not keep the next one from being
\* made.
AttemptsCleanUp ==
  NothingCapturedBehindForm /\ NoSocketForgotten /\ SharingHasSocket /\ MayTryAgain

=============================================================================
