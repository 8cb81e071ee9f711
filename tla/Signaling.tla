------------------------------ MODULE Signaling ------------------------------
(***************************************************************************)
(* The websocket handlers of the server (core/signal.go) around the rooms  *)
(* of RoomStore: handleDisplay and handlePresenter, one goroutine for each *)
(* connection, and the two kinds of browser page they talk to.             *)
(*                                                                         *)
(* A step is one access to shared state: a call of RoomStore, a write to a *)
(* websocket, closeWS.  Everything else a handler does touches its local   *)
(* variables only and is part of the step before or after it.  A handler   *)
(* may be overtaken between any two steps, and by any number of others.    *)
(*                                                                         *)
(* A connection breaks at any time (Break): a reset, a page that closes,   *)
(* a write deadline that passes, a ping without a pong.  Writes to a broken*)
(* connection are lost and may or may not report an error; its reader      *)
(* returns an error in the end (module Heartbeat's business), but not      *)
(* before it has read what is still in its buffer.                         *)
(*                                                                         *)
(* Whether a presenter is locked out is open here: see AuthThrottle.  The  *)
(* SDP and ICE payloads are opaque to the server and left out.             *)
(***************************************************************************)
EXTENDS RoomStore, FiniteSets

CONSTANTS Displays, Presenters, \* which page each connection is opened by
          RoomOf,               \* the room each connection is opened for
          PreAuthMax            \* capacity of App.preAuth

ASSUME Connections == /\ Conn = Displays \cup Presenters
                      /\ Displays \cap Presenters = {}
ASSUME RoomsKnown == RoomOf \in [Conn -> RoomID]
ASSUME SomeSlot == PreAuthMax \in Nat \ {0}

VARIABLES pc,      \* where each connection's handler is
          link,    \* state of each connection
          my,      \* local variables of each handler
          slots,   \* messages in App.preAuth
          screen,  \* the code on each display page, 0 for "------"
          told,    \* the SessionIDs each display page has received
          seen     \* the codes that have been on some display page

handlerVars == <<pc, link, my, slots>>
pageVars == <<screen, told, seen>>
vars == <<roomVars, handlerVars, pageVars>>

DisplayStage == {"evict", "ice", "ready", "relay", "remove", "unwind"}
PresenterStage == {"find", "authorize", "judge", "refresh", "accept", "await",
                   "announce", "confirm", "release", "notify"}
Stage == DisplayStage \cup PresenterStage \cup
           {"idle", "auth", "reading", "loop", "close", "done"}

Link == {"none", "open", "broken", "closed"}

\* room: the Room looked up; peer: the display a presenter was admitted to,
\* or the caller a display is relaying to; generation, code, session: as in
\* the handlers; tell: the display to send presenterClosed to; closing: the
\* connections still to be closed; ticket: the code AuthorizePresenter took.
Local == [room : Nat, peer : Conn \cup {None}, generation : Nat, code : Nat,
          session : Nat, tell : Conn \cup {None}, closing : SUBSET Conn,
          ticket : Nat]

NoLocal == [room |-> 0, peer |-> None, generation |-> 0, code |-> 0,
            session |-> 0, tell |-> None, closing |-> {}, ticket |-> 0]

\* A presenter from AuthorizePresenter to ReleasePresenter, and a display from
\* SetDisplay to RemoveDisplay.
Admitted(p) == /\ p \in Presenters
               /\ pc[p] \in {"refresh", "accept", "await", "announce",
                             "confirm", "loop", "release"}
Serving(d) == /\ d \in Displays
                  /\ pc[d] \in {"evict", "ice", "ready", "loop", "relay", "remove"}

Go(c, stage) == pc' = [pc EXCEPT ![c] = stage]

\* The possible results of a.write(c, ...).
Writes(c) == {ok \in BOOLEAN : IF ok THEN link[c] # "closed" ELSE link[c] # "open"}

\* What a page makes of a message, if the connection still carries it: display
\* page d puts code k on the screen, or dashes when k is 0.
Show(d, k) ==
  IF link[d] = "open"
  THEN /\ screen' = [screen EXCEPT ![d] = k]
       /\ seen' = seen \cup ({k} \ {0})
  ELSE UNCHANGED <<screen, seen>>

\* Handler c at stage from only goes on to stage to ...
Move(c, from, to) == /\ pc[c] = from /\ Go(c, to)
                     /\ UNCHANGED <<roomVars, link, my, slots, pageVars>>

\* ... or writes to its own page, or to display page d with code k for its
\* screen, and goes on to stage to or, on an error, to stage on_error.
Reply(c, from, to, on_error) ==
  \E ok \in Writes(c) : Move(c, from, IF ok THEN to ELSE on_error)

Write(c, from, d, k, to, on_error) ==
  /\ pc[c] = from
  /\ \E ok \in Writes(d) : Go(c, IF ok THEN to ELSE on_error)
  /\ Show(d, k)
  /\ UNCHANGED <<roomVars, link, my, slots>>

-----------------------------------------------------------------------------
ServerInit == /\ Init
              /\ pc = [c \in Conn |-> "idle"]
              /\ link = [c \in Conn |-> "none"]
              /\ my = [c \in Conn |-> NoLocal]
              /\ slots = 0
              /\ screen = [d \in Displays |-> 0]
              /\ told = [d \in Displays |-> {}]
              /\ seen = {}

(* Both handlers: upgrade, initialAuth, the deferred closeWS. *)

Dial(c) == /\ pc[c] = "idle" /\ Go(c, "auth")
           /\ link' = [link EXCEPT ![c] = "open"]
           /\ UNCHANGED <<roomVars, my, slots, pageVars>>

Break(c) == /\ link[c] = "open"
            /\ link' = [link EXCEPT ![c] = "broken"]
            /\ UNCHANGED <<roomVars, pc, my, slots, pageVars>>

AcquireSlot(c) == /\ pc[c] = "auth" /\ Go(c, "reading")
                  /\ slots < PreAuthMax
                  /\ slots' = slots + 1
                  /\ UNCHANGED <<roomVars, link, my, pageVars>>

\* serverBusy, or, for a presenter, lockedOut.
TurnAway(c) == /\ slots = PreAuthMax \/ c \in Presenters
               /\ Move(c, "auth", "close")

\* initialAuth's deferred receive.  (Mutated form: forgotten.)
ReturnSlot_Never == UNCHANGED slots
ReturnSlot == slots' = slots - 1

\* The authentication message does not come, or is not one, or is refused.
Reject(c) == /\ pc[c] = "reading" /\ Go(c, "close")
             /\ ReturnSlot
             /\ UNCHANGED <<roomVars, link, my, pageVars>>

Close(c) == /\ pc[c] = "close" /\ Go(c, "done")
            /\ link' = [link EXCEPT ![c] = "closed"]
            /\ my' = [my EXCEPT ![c] = [NoLocal EXCEPT !.ticket = my[c].ticket]]
            /\ UNCHANGED <<roomVars, slots, pageVars>>

-----------------------------------------------------------------------------
(* handleDisplay *)

\* Whoever SetDisplay, or RemoveDisplay, returns for closing.  (Mutated form:
\* the list is made after the reset.)
Replaced_AfterReset(id) ==
  ({Current(id).display} \ {None}) \cup PresenterConnections(Vacated(Current(id)))
Replaced(id) == ({Current(id).display} \ {None}) \cup PresenterConnections(Current(id))
Orphaned(id, d) == IF IsDisplay(id, d) THEN PresenterConnections(Current(id)) ELSE {}

\* The enrollment token is right: the slot is returned and SetDisplay called.
Register(d) ==
  LET id == RoomOf[d] IN
  /\ d \in Displays
  /\ pc[d] = "reading" /\ Go(d, IF Replaced(id) = {} THEN "ice" ELSE "evict")
  /\ ReturnSlot
  /\ SetDisplay(id, d)
  /\ my' = [my EXCEPT ![d].room = Object(id), ![d].closing = Replaced(id)]
  /\ UNCHANGED <<link, pageVars>>

\* What is left to close after c.  (Mutated form: nothing.)
Remaining_None(d, c) == {}
Remaining(d, c) == my[d].closing \ {c}

\* closeWS of the replaced display, then of the presenters, one at a time, in
\* the body of the handler ("evict") or after RemoveDisplay ("unwind").
Evict(d) ==
  /\ pc[d] \in {"evict", "unwind"}
  /\ \E c \in my[d].closing :
       /\ c \in Presenters => my[d].closing \cap Displays = {}
       /\ link' = [link EXCEPT ![c] = "closed"]
       /\ my' = [my EXCEPT ![d].closing = Remaining(d, c)]
       /\ Go(d, IF Remaining(d, c) # {} THEN pc[d]
                ELSE IF pc[d] = "evict" THEN "ice" ELSE "close")
  /\ UNCHANGED <<roomVars, slots, pageVars>>

\* iceConfig is written; then room.Code() is read for the next message.
SendIce(d) ==
  \/ link[d] # "open" /\ Move(d, "ice", "remove")
  \/ /\ link[d] # "closed"
     /\ pc[d] = "ice" /\ Go(d, "ready")
     /\ my' = [my EXCEPT ![d].code = rooms[my[d].room].code]
     /\ UNCHANGED <<roomVars, link, slots, pageVars>>

\* displayReady.  (Mutated form: RemoveDisplay is deferred only after it.)
SendReady_SkipsRemoval(d) ==
  Write(d, "ready", d, my[d].code, "loop", "close") /\ UNCHANGED told
SendReady(d) ==
  Write(d, "ready", d, my[d].code, "loop", "remove") /\ UNCHANGED told

\* A candidate or an answer comes in for a session the page was told of, and
\* room.Session finds it.  (Any other message leaves everything as it is.)
FindSession(d) ==
  /\ d \in Displays
  /\ pc[d] = "loop" /\ Go(d, "relay")
  /\ \E s \in rooms[my[d].room].sessions :
       /\ s.id \in told[d]
       /\ my' = [my EXCEPT ![d].peer = s.caller]
  /\ UNCHANGED <<roomVars, link, slots, pageVars>>

\* The message is written to the caller; an error is only logged.
RelayToCaller(d) ==
  /\ pc[d] = "relay" /\ Go(d, "loop")
  /\ my' = [my EXCEPT ![d].peer = None]
  /\ UNCHANGED <<roomVars, link, slots, pageVars>>

\* read fails, or cannot decode.
DisplayReadFails(d) == d \in Displays /\ Move(d, "loop", "remove")

Unregister(d) ==
  LET id == RoomOf[d] IN
  /\ pc[d] = "remove" /\ Go(d, IF Orphaned(id, d) = {} THEN "close" ELSE "unwind")
  /\ RemoveDisplay(id, d)
  /\ my' = [my EXCEPT ![d].closing = Orphaned(id, d)]
  /\ UNCHANGED <<link, slots, pageVars>>

-----------------------------------------------------------------------------
(* handlePresenter *)

\* The page sends the code its user typed: one read off a display, or a wrong
\* one (0 is nobody's code).
Submit(p) ==
  /\ p \in Presenters
  /\ pc[p] = "reading" /\ Go(p, "find")
  /\ ReturnSlot
  /\ \E k \in seen \cup {0} : my' = [my EXCEPT ![p].code = k]
  /\ UNCHANGED <<roomVars, link, pageVars>>

\* Get, and Display() right after it.  Should the Room lose its display between
\* the two, Authorize refuses instead: it never has one again.
Find(p) ==
  /\ pc[p] = "find"
  /\ Go(p, IF Current(RoomOf[p]).display = None THEN "close" ELSE "authorize")
  /\ my' = [my EXCEPT ![p].room = store[RoomOf[p]]]
  /\ UNCHANGED <<roomVars, link, slots, pageVars>>

Authorize(p) ==
  LET o == my[p].room
      admitted == MayPresent(o, my[p].code) IN
  /\ pc[p] = "authorize" /\ Go(p, IF admitted THEN "refresh" ELSE "judge")
  /\ AuthorizePresenter(o, my[p].code, p)
  /\ my' = IF admitted
           THEN [my EXCEPT ![p].peer = rooms[o].display,
                           ![p].generation = rooms[o].generation,
                           ![p].code = drawn + 1, ![p].ticket = my[p].code]
           ELSE my
  /\ UNCHANGED <<link, slots, pageVars>>

\* Why it was refused: the Room is looked at again.  presenterBusy, or else the
\* presenter is charged with a failure (AuthThrottle, AuthFailed).
Charged(p) == rooms[my[p].room].presenter = None
Judge(p) == p \in Presenters /\ Move(p, "judge", "close")

\* refreshCode goes to the display, whose page hides the code; errors are
\* ignored.  (Mutated form: the page shows the code in the message.)
SendRefresh_ShowsCode(p) ==
  Write(p, "refresh", my[p].peer, my[p].code, "accept", "accept") /\ UNCHANGED told
SendRefresh(p) ==
  Write(p, "refresh", my[p].peer, 0, "accept", "accept") /\ UNCHANGED told

\* iceConfig and authAccepted.
SendAccepted(p) == Reply(p, "accept", "await", "release")

\* startSession comes in.
Start(p) ==
  LET o == my[p].room
      started == MayStart(o, p, my[p].generation) IN
  /\ pc[p] = "await" /\ Go(p, IF started THEN "announce" ELSE "release")
  /\ StartSession(o, p, my[p].generation)
  /\ my' = IF started THEN [my EXCEPT ![p].session = drawn + 1] ELSE my
  /\ UNCHANGED <<link, slots, pageVars>>

\* newSession goes to the display first ...
Announce(p) ==
  LET d == my[p].peer IN
  /\ Write(p, "announce", d, 0, "confirm", "release")
  /\ told' = IF link[d] = "open" THEN [told EXCEPT ![d] = @ \cup {my[p].session}] ELSE told

\* ... and then to the presenter.
Confirm(p) == Reply(p, "confirm", "loop", "release")

\* read fails, the message is malformed or not the one expected, or (in the
\* loop) forwarding it to the display fails.
PresenterReadFails(p) ==
  p \in Presenters /\ (Move(p, "await", "release") \/ Move(p, "loop", "release"))

\* The display that ReleasePresenter returns.  (Mutated forms: whoever calls;
\* only if there was a session.)
Informed_Unchecked(o, p) == rooms[o].display
Informed_OnlyStreaming(o, p) ==
  IF rooms[o].presenter = p /\ rooms[o].sessions # {} THEN rooms[o].display ELSE None
Informed(o, p) == IF rooms[o].presenter = p THEN rooms[o].display ELSE None

Release(p) ==
  LET o == my[p].room IN
  /\ pc[p] = "release" /\ Go(p, IF Informed(o, p) = None THEN "close" ELSE "notify")
  /\ ReleasePresenter(o, p)
  /\ my' = [my EXCEPT ![p].tell = Informed(o, p), ![p].code = rooms[o].code]
  /\ UNCHANGED <<link, slots, pageVars>>

\* presenterClosed goes to the display, whose page shows the code in it.
Notify(p) == Write(p, "notify", my[p].tell, my[p].code, "close", "close") /\ UNCHANGED told

-----------------------------------------------------------------------------
\* What a handler does by itself, however its page behaves.
Progress(c) ==
  \/ AcquireSlot(c) \/ TurnAway(c) \/ Reject(c) \/ Close(c)
  \/ Evict(c) \/ SendIce(c) \/ SendReady(c) \/ RelayToCaller(c) \/ Unregister(c)
  \/ Find(c) \/ Authorize(c) \/ Judge(c) \/ SendRefresh(c) \/ SendAccepted(c)
  \/ Announce(c) \/ Confirm(c) \/ Release(c) \/ Notify(c)

\* A message of the page, accepted.
Receive(c) == Register(c) \/ FindSession(c) \/ Submit(c) \/ Start(c)

ReadFails(c) == DisplayReadFails(c) \/ PresenterReadFails(c)

Terminated == (\A c \in Conn : pc[c] = "done") /\ UNCHANGED vars

ServerNext ==
  \/ \E c \in Conn : Dial(c) \/ Break(c) \/ Progress(c) \/ Receive(c) \/ ReadFails(c)
  \/ Terminated

\* The Go scheduler runs every goroutine that is not blocked, every write ends
\* by its deadline, and the first read by the authentication deadline.  Later
\* reads of a broken connection end once its buffer, which is finite, is read
\* out.  Nobody has to connect, to send anything or to hang up.
Fairness ==
  \A c \in Conn : /\ WF_vars(Progress(c))
                  /\ SF_vars(link[c] # "open" /\ ReadFails(c))

ServerSpec == ServerInit /\ [][ServerNext]_vars
FairServerSpec == ServerSpec /\ Fairness

-----------------------------------------------------------------------------
(* Properties                                                              *)

\* Handlers are at stages of their own kind; locals have their Go types.
HandlersTypeOK ==
  /\ pc \in [Conn -> Stage]
  /\ \A d \in Displays : pc[d] \notin PresenterStage
  /\ \A p \in Presenters : pc[p] \notin DisplayStage
  /\ link \in [Conn -> Link]
  /\ my \in [Conn -> Local]
  /\ \A c \in Conn : my[c].room \in 0..Len(rooms)
  /\ slots \in Nat
  /\ screen \in [Displays -> 0..drawn]
  /\ told \in [Displays -> SUBSET (1..drawn)]
  /\ seen \in SUBSET (1..drawn)

\* App.preAuth holds one message for each connection whose authentication
\* message is awaited, however those reads end, and never more than it may.
SlotsAccounted == /\ slots = Cardinality({c \in Conn : pc[c] = "reading"})
                  /\ slots <= PreAuthMax

\* Whoever a Room holds has a handler that will take it out again: no failed
\* write, early return or eviction leaves a display or a presenter behind in a
\* room that nobody then can use.
NoOrphans ==
  \A o \in DOMAIN rooms :
    LET r == rooms[o] IN
      /\ r.display # None => Serving(r.display) /\ my[r.display].room = o
      /\ r.presenter # None => Admitted(r.presenter) /\ my[r.presenter].room = o

\* A code lets one presenter in, whatever becomes of the presenter: no two were
\* ever admitted by the same one.
CodesUsedOnce ==
  \A p, q \in Presenters :
    p # q /\ my[p].ticket # 0 => my[p].ticket # my[q].ticket

\* Presenters that were admitted and have not left never send to the same
\* display page, even while an evicted one has not noticed yet.
OneSenderPerDisplay ==
  \A p, q \in Presenters :
    Admitted(p) /\ Admitted(q) /\ p # q => my[p].peer # my[q].peer

\* The display in a room's session, to which answers are matched, is the one
\* the caller was admitted to: a presenter admitted before a change of display
\* cannot start a session after it.
SessionsBound ==
  \A o \in DOMAIN rooms : \A s \in rooms[o].sessions : my[s.caller].peer = s.callee

\* presenterClosed goes to the display page the presenter used, or to nobody:
\* the late goodbye of an evicted presenter does not reach the next display.
GoodbyeToOwnDisplay ==
  \A p \in Presenters : pc[p] = "notify" => my[p].tell = my[p].peer

\* A presenter that lost its place in the room is not forgotten: it has been
\* closed, or the handler that took its place away has it on its list.
EvictedAreClosed ==
  \A p \in Presenters :
    Admitted(p) /\ rooms[my[p].room].presenter # p =>
      \/ link[p] = "closed"
      \/ \E d \in Displays : pc[d] \in {"evict", "unwind"} /\ p \in my[d].closing

\* Nothing is left to be written to display page d.
Settled(d) == \A p \in Presenters :
                /\ pc[p] \in {"refresh", "announce"} => my[p].peer # d
                /\ pc[p] = "notify" => my[p].tell # d

\* A registered, connected display to which everything has been written.
Quiet(d) == /\ pc[d] = "loop" /\ link[d] = "open"
            /\ IsDisplay(RoomOf[d], d)
            /\ Settled(d)

\* A code on the page of a quiet display is the one that admits the next
\* presenter: with one display in the room, no late refreshCode, newSession or
\* presenterClosed can leave a code there that has been used.
ShownCodeWorks ==
  \A d \in Displays :
    Quiet(d) /\ screen[d] # 0 => screen[d] = Current(RoomOf[d]).code

\* files/main.html:28 tells a presenter to enter "the six-character
\* verification code shown on the meeting room display": while the room is
\* free, the code on the page of its quiet display is the one it accepts.
FreeRoomCodeWorks ==
  \A d \in Displays :
    Quiet(d) /\ screen[d] # 0 /\ Current(RoomOf[d]).presenter = None
      => screen[d] = Current(RoomOf[d]).code

\* With one display in the room, presenterClosed has been written before the
\* next presenter is admitted, so that it cannot take down that one's session on
\* the display page (files/static/main.js:116 clears any session at it).
GoodbyeBeforeNext ==
  \A p, q \in Presenters :
    pc[p] = "notify" /\ Admitted(q) => my[p].tell # my[q].peer

RightCode(p) == my[p].code = rooms[my[p].room].code

\* A presenter refused with a code that the Room would now accept is not charged
\* with a failure while the display is there.  It can only have been refused for
\* the sake of another presenter, and may be judged after that one has left
\* (core/signal.go:332); but the code valid next is on no page until then.
RightCodeExcused ==
  [][\A p \in Presenters :
       Judge(p) /\ Charged(p) /\ RightCode(p) => rooms[my[p].room].display = None]_vars

\* A handler whose connection is gone ends: its room, its slot and its session
\* are given back.
BrokenHandlersEnd == \A c \in Conn : link[c] \in {"broken", "closed"} ~> pc[c] = "done"

\* A presenter whose display went away or was replaced is disconnected.
EvictedPresentersEnd ==
  \A p \in Presenters :
    Admitted(p) /\ rooms[my[p].room].presenter # p ~> pc[p] = "done"

\* No handler outlives the reason for its connection, the page's or the room's.
HandlersEnd == BrokenHandlersEnd /\ EvictedPresentersEnd

\* After a presenter's connection is lost, however far it got, its display page
\* shows a code again, unless it lost its own connection.
CodeComesBack ==
  \A p \in Presenters : \A d \in Displays :
    Admitted(p) /\ my[p].peer = d /\ link[p] # "open"
      ~> screen[d] # 0 \/ link[d] # "open"

=============================================================================
