----------------------------- MODULE DisplayPage -----------------------------
(***************************************************************************)
(* The display page's side of a negotiation (files/static/main.js:         *)
(* clearPeer, addRemoteCandidate, flushRemoteCandidates, the message       *)
(* handler of openDisplay, displayPeer, answerOffer).                      *)
(*                                                                         *)
(* All handlers share state.pc and state.pendingCandidates.  A handler     *)
(* runs alone up to an await; others may run before it goes on.  What it   *)
(* awaits are operations of a peer connection: they complete in the end,   *)
(* or never once that connection is closed, as WebRTC has it.  An error    *)
(* ends the handler.                                                       *)
(*                                                                         *)
(* Sessions come one after another (Signaling, GoodbyeBeforeNext), each    *)
(* with an offer and some candidates in any order, until the socket is     *)
(* lost.  The n-th peer connection is the one made for the n-th session.   *)
(***************************************************************************)
EXTENDS Naturals, Sequences

CONSTANTS Candidate, \* the presenter's candidates in each session
          MaxSession \* bound on the sessions

ASSUME SomeSessions == MaxSession \in Nat \ {0}

VARIABLES pc,        \* state.pc, 0 for null
          conns,     \* the peer connections
          pending,   \* state.pendingCandidates, each with its session
          task,      \* the run of answerOffer for each session
          answers,   \* the answers sent: for which session, by which connection
          screen,    \* what stands where the code does
          connected, \* the socket works
          session,   \* the last session announced
          running,   \* it has not ended
          offered,   \* its offer was received
          received   \* its candidates received

pageVars == <<pc, conns, pending, task, answers, screen>>
serverVars == <<connected, session, running, offered, received>>
displayVars == <<pageVars, serverVars>>

Session == 1..MaxSession

\* remote: the session of the offer set as remote description, 0 for none.
PeerConnection == [open : BOOLEAN, remote : {0} \cup Session,
                   candidates : SUBSET (Session \X Candidate)]

\* Where a run of answerOffer awaits which connection's operation.
Await == {"none", "remote", "flush", "create", "local", "sent", "failed"}
Task == [at : Await, conn : {0} \cup Session]

DisplayInit == /\ pc = 0 /\ pending = <<>> /\ answers = {} /\ screen = "code"
               /\ conns = [n \in Session |-> [open |-> FALSE, remote |-> 0, candidates |-> {}]]
               /\ task = [n \in Session |-> [at |-> "none", conn |-> 0]]
               /\ connected = TRUE /\ session = 0 /\ running = FALSE
               /\ offered = FALSE /\ received = {}

\* clearPeer.  (Mutated form: state.pc is dropped unclosed.)
Closed_Left(cs) == cs
Closed(cs) == IF pc = 0 THEN cs ELSE [cs EXCEPT ![pc].open = FALSE]

ClearPeer == /\ pc' = 0 /\ conns' = Closed(conns) /\ pending' = <<>>

-----------------------------------------------------------------------------
(* Messages of the server *)

\* newSession: clearPeer, displayPeer.
NewSession ==
  /\ connected /\ ~running /\ session < MaxSession
  /\ session' = session + 1 /\ running' = TRUE
  /\ offered' = FALSE /\ received' = {}
  /\ pc' = session + 1
  /\ conns' = [Closed(conns) EXCEPT ![session + 1].open = TRUE]
  /\ pending' = <<>>
  /\ screen' = "connecting"
  /\ UNCHANGED <<task, answers, connected>>

\* gotOffer && state.pc: setRemoteDescription is called.
GotOffer ==
  /\ connected /\ running /\ ~offered
  /\ offered' = TRUE
  /\ task' = IF pc = 0 THEN task
             ELSE [task EXCEPT ![session] = [at |-> "remote", conn |-> pc]]
  /\ UNCHANGED <<pc, conns, pending, answers, screen, connected, session, running, received>>

\* state.pc.remoteDescription.  (Mutated form: a connection is enough.)
HasRemote_NotAsked(cs) == pc # 0
HasRemote(cs) == pc # 0 /\ cs[pc].remote # 0

\* addIceCandidate, which fails without a remote description.
WithCandidate(cs, item) ==
  IF cs[pc].remote = 0 THEN cs ELSE [cs EXCEPT ![pc].candidates = @ \cup {item}]

\* addCallerIceCandidate: addRemoteCandidate.
GotCandidate(c) ==
  /\ connected /\ running /\ c \notin received
  /\ received' = received \cup {c}
  /\ IF HasRemote(conns)
     THEN conns' = WithCandidate(conns, <<session, c>>) /\ UNCHANGED pending
     ELSE pending' = Append(pending, <<session, c>>) /\ UNCHANGED conns
  /\ UNCHANGED <<pc, task, answers, screen, connected, session, running, offered>>

PresenterClosed ==
  /\ connected /\ running
  /\ running' = FALSE
  /\ ClearPeer /\ screen' = "code"
  /\ UNCHANGED <<task, answers, connected, session, offered, received>>

\* The video track of the connection ends.
VideoEnds ==
  /\ pc # 0 /\ conns[pc].remote # 0
  /\ ClearPeer
  /\ UNCHANGED <<task, answers, screen, serverVars>>

Lose == /\ connected /\ connected' = FALSE
        /\ UNCHANGED <<pageVars, session, running, offered, received>>

-----------------------------------------------------------------------------
(* answerOffer after each await *)

Awaits(n, at) == task[n].at = at /\ conns[task[n].conn].open
Goes(n, at, conn) == task' = [task EXCEPT ![n] = [at |-> at, conn |-> conn]]

\* The loop of flushRemoteCandidates goes on, or createAnswer is called, which
\* fails without state.pc or a remote description.
Flush(n, cs) ==
  IF HasRemote(cs) /\ pending # <<>>
  THEN /\ conns' = WithCandidate(cs, Head(pending)) /\ pending' = Tail(pending)
       /\ Goes(n, "flush", pc)
  ELSE /\ conns' = cs /\ UNCHANGED pending
       /\ IF pc # 0 /\ cs[pc].remote # 0 THEN Goes(n, "create", pc) ELSE Goes(n, "failed", 0)

RemoteSet(n) == /\ Awaits(n, "remote")
                /\ Flush(n, [conns EXCEPT ![task[n].conn].remote = n])
                /\ UNCHANGED <<pc, answers, screen, serverVars>>

Flushed(n) == /\ Awaits(n, "flush")
              /\ Flush(n, conns)
              /\ UNCHANGED <<pc, answers, screen, serverVars>>

\* state.pc.setLocalDescription.
Created(n) == /\ Awaits(n, "create")
              /\ IF pc # 0 THEN Goes(n, "local", pc) ELSE Goes(n, "failed", 0)
              /\ UNCHANGED <<pc, conns, pending, answers, screen, serverVars>>

\* gotAnswer is sent.
LocalSet(n) == /\ Awaits(n, "local")
               /\ answers' = answers \cup {<<n, task[n].conn>>}
               /\ Goes(n, "sent", 0)
               /\ UNCHANGED <<pc, conns, pending, screen, serverVars>>

Answering(n) == RemoteSet(n) \/ Flushed(n) \/ Created(n) \/ LocalSet(n)

Done == (~connected \/ (~running /\ session = MaxSession)) /\ UNCHANGED displayVars

DisplayNext == \/ NewSession \/ GotOffer \/ PresenterClosed \/ VideoEnds \/ Lose
               \/ \E c \in Candidate : GotCandidate(c)
               \/ \E n \in Session : Answering(n)
               \/ Done

DisplaySpec == DisplayInit /\ [][DisplayNext]_displayVars

\* Operations of an open connection complete.
FairDisplaySpec == DisplaySpec /\ \A n \in Session : WF_displayVars(Answering(n))

-----------------------------------------------------------------------------
(* Properties                                                              *)

\* Besides the types: only state.pc is ever open, no connection is left running.
DisplayPageTypeOK ==
  /\ pc \in {0} \cup Session
  /\ conns \in [Session -> PeerConnection]
  /\ \A n \in Session : conns[n].open <=> n = pc
  /\ pending \in Seq(Session \X Candidate)
  /\ task \in [Session -> Task]
  /\ answers \in SUBSET (Session \X Session)
  /\ screen \in {"code", "connecting"}
  /\ connected \in BOOLEAN /\ running \in BOOLEAN /\ offered \in BOOLEAN
  /\ session \in {0} \cup Session /\ received \in SUBSET Candidate

\* An answer is sent for a session by the connection that has its offer, although
\* the handler reads state.pc anew after each await and sessions may have changed.
AnswersMatch ==
  \A a \in answers : a[2] = a[1] /\ conns[a[2]].remote = a[1]

\* Once the answer is sent the connection has every candidate received for its
\* session, those from before and during the negotiation too, and no other's.
CandidatesComplete ==
  pc # 0 /\ task[pc].at = "sent" =>
    conns[pc].candidates = {<<pc, c>> : c \in received}

\* An offer is answered while its session lasts.
OfferAnswered ==
  \A n \in Session : session = n /\ offered /\ pc = n ~> <<n, n>> \in answers \/ pc # n

=============================================================================
