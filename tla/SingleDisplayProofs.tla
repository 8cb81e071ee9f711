-------------------------- MODULE SingleDisplayProofs --------------------------
(***************************************************************************)
(* Proofs about rooms with one display, any number of them with any number *)
(* of presenters (Signaling). With one display only, nothing that is still *)
(* to be written to a display page is out of date: the code on it is the   *)
(* one the room accepts, a presenter's goodbye is written before the next  *)
(* presenter is let in, and nobody is charged for a code that the room     *)
(* accepts. With a second display opened for the same room, the first can  *)
(* still be written to after it was replaced, and the second is shown the  *)
(* goodbye of neither.                                                     *)
(***************************************************************************)
EXTENDS AdmissionProofs

\* The hypothesis: no two display pages are opened for the same room.
OneDisplayPerRoom == \A d, e \in Displays : RoomOf[d] = RoomOf[e] => d = e

\* A presenter whose display is still to be written to.
Involved(p) == Admitted(p) \/ pc[p] = "notify"

\* Nobody's goodbye is still to come to display d.
Untouched(d) == \A p \in Presenters : Involved(p) => my[p].peer # d

\* A presenter's code was read off a display, or is nobody's.
CodesKnown ==
  \A p \in Presenters :
    pc[p] \in {"find", "authorize", "judge"} => my[p].code \in seen \cup {0}

\* No display is replaced: it serves the Room it was registered in until it leaves.
DisplaysStay ==
  \A d \in Displays : pc[d] # "evict" /\ (Serving(d) => rooms[my[d].room].display = d)

\* An involved presenter's Room has the display it was admitted to, or none; that
\* display is registered for good, so that no other can come.
OwnDisplays ==
  \A p \in Presenters : Involved(p) =>
    LET d == my[p].peer
        o == my[p].room IN
      /\ d \in Displays /\ Registered(d) /\ o \in DOMAIN rooms
      /\ RoomOf[d] = rooms[o].id /\ rooms[o].display \in {None, d}
      /\ Serving(d) => my[d].room = o

\* No two involved presenters have the same display.
PeersApart ==
  \A p, q \in Presenters : Involved(p) /\ Involved(q) /\ p # q => my[p].peer # my[q].peer

\* The code in a goodbye is still that of the Room when it is written.
GoodbyeCodes ==
  \A p \in Presenters : pc[p] = "notify" => my[p].code = rooms[my[p].room].code

\* Until displayReady is written the page shows nothing, nobody has been let in, and
\* the code that will be written is the Room's.
Preparing ==
  \A d \in Displays :
    /\ pc[d] \in {"ice", "ready"} => screen[d] = 0 /\ Untouched(d)
    /\ pc[d] = "ready" => my[d].code = rooms[my[d].room].code

\* A code that has been on a page, and is still good, has let nobody in.
CodesHidden ==
  \A o \in DOMAIN rooms :
    LET d == rooms[o].display IN
      d # None /\ rooms[o].code \in seen =>
        pc[d] \in {"loop", "relay", "remove"} /\ Untouched(d)

\* What the page of a connected display shows is its Room's code, unless the
\* refreshCode that takes it away is still to be written.
ScreensRight ==
  \A d \in Displays :
    screen[d] # 0 =>
      /\ Registered(d)
      /\ Serving(d) /\ link[d] = "open" =>
           \/ screen[d] = rooms[my[d].room].code
           \/ \E p \in Presenters : pc[p] = "refresh" /\ my[p].peer = d

\* A presenter was refused for its code, or its Room lost the display.
Judged ==
  \A p \in Presenters : pc[p] = "judge" =>
    \/ rooms[my[p].room].display = None
    \/ my[p].code # rooms[my[p].room].code

\* The inductive invariant, on top of that of AdmissionProofs.
CInv == /\ OneDisplayPerRoom /\ AInv
        /\ CodesKnown /\ DisplaysStay /\ OwnDisplays /\ PeersApart /\ GoodbyeCodes
        /\ Preparing /\ CodesHidden /\ ScreensRight /\ Judged

-----------------------------------------------------------------------------
(* What local steps do.                                                   *)

\* Which stages a handler enters by a step that leaves the rooms alone.
LEMMA LocalEnters ==
  ASSUME SInv, NEW c \in Conn, LocalStep(c)
  PROVE  /\ c \in Displays /\ pc[c] \in {"loop", "relay", "remove"}
              => pc'[c] \in {"loop", "relay", "remove"}
         /\ c \in Displays /\ pc'[c] = "evict" => pc[c] = "evict"
         /\ c \in Displays /\ pc'[c] = "ice" => pc[c] \in {"ice", "evict"}
         /\ c \in Displays /\ pc'[c] = "ready" =>
              \/ UNCHANGED <<pc, my>>
              \/ pc[c] = "ice" /\ my'[c].code = rooms[my[c].room].code
         /\ c \in Presenters /\ pc'[c] \in {"find", "authorize", "judge"} =>
              \/ pc[c] \in {"find", "authorize", "judge"} /\ my'[c].code = my[c].code
              \/ my'[c].code \in seen \cup {0}
         /\ pc'[c] = "judge" => UNCHANGED <<pc, my>>
<1>0. /\ pc \in [Conn -> Stage] /\ my \in [Conn -> Local]
      /\ c \in Displays => pc[c] \notin PresenterStage
      /\ c \in Presenters => pc[c] \notin DisplayStage
  BY DEF SInv, HandlersTypeOK
<1> USE <1>0, Kinds DEF Go, DisplayStage, PresenterStage
<1>1. CASE \/ Dial(c) \/ Break(c) \/ AcquireSlot(c) \/ TurnAway(c) \/ Reject(c) \/ Close(c)
  BY <1>1 DEF Dial, Break, AcquireSlot, TurnAway, Reject, Close, Move
<1>2. CASE Evict(c) \/ FindSession(c) \/ RelayToCaller(c)
  BY <1>2 DEF Evict, FindSession, RelayToCaller
<1>3. CASE SendIce(c)
  BY <1>3 DEF SendIce, Move, Local
<1>4. CASE Submit(c) \/ Find(c)
  BY <1>4 DEF Submit, Find, Local
<1>5. CASE \/ DisplayReadFails(c) \/ PresenterReadFails(c) \/ Judge(c)
           \/ SendAccepted(c) \/ Confirm(c)
  BY <1>5 DEF DisplayReadFails, PresenterReadFails, Judge, SendAccepted, Confirm, Move, Reply
<1>6. CASE SendReady(c) \/ SendRefresh(c) \/ Announce(c) \/ Notify(c)
  BY <1>6 DEF SendReady, SendRefresh, Announce, Notify, Write
<1> QED BY <1>1, <1>2, <1>3, <1>4, <1>5, <1>6 DEF LocalStep

\* What it may write to a page, and that no connection is opened after Dial.
LEMMA LocalWrites ==
  ASSUME SInv, NEW c \in Conn, LocalStep(c)
  PROVE  /\ \/ UNCHANGED <<screen, seen>>
            \/ c \in Displays /\ pc[c] = "ready" /\ pc'[c] # "ready" /\ Show(c, my[c].code)
            \/ c \in Presenters /\ Admitted(c) /\ Show(my[c].peer, 0)
            \/ /\ c \in Presenters /\ pc[c] = "notify" /\ pc'[c] = "close"
               /\ Show(my[c].tell, my[c].code)
         /\ c \in Presenters /\ pc[c] = "refresh" =>
              \/ pc'[c] = "refresh" /\ UNCHANGED <<screen, seen>>
              \/ Show(my[c].peer, 0)
         /\ \A b \in Conn : link[b] # "open" /\ pc[b] # "idle" => link'[b] # "open"
<1>0. /\ pc \in [Conn -> Stage] /\ link \in [Conn -> Link]
      /\ c \in Displays => pc[c] \notin PresenterStage
      /\ c \in Presenters => pc[c] \notin DisplayStage
  BY DEF SInv, HandlersTypeOK
<1> USE <1>0, Kinds DEF Go, DisplayStage, PresenterStage, pageVars
<1>1. CASE \/ Dial(c) \/ Break(c) \/ AcquireSlot(c) \/ TurnAway(c) \/ Reject(c) \/ Close(c)
  BY <1>1 DEF Dial, Break, AcquireSlot, TurnAway, Reject, Close, Move
<1>2. CASE Evict(c) \/ FindSession(c) \/ RelayToCaller(c) \/ SendIce(c) \/ Submit(c) \/ Find(c)
  BY <1>2 DEF Evict, FindSession, RelayToCaller, SendIce, Submit, Find, Move
<1>3. CASE \/ DisplayReadFails(c) \/ PresenterReadFails(c) \/ Judge(c)
           \/ SendAccepted(c) \/ Confirm(c)
  BY <1>3 DEF DisplayReadFails, PresenterReadFails, Judge, SendAccepted, Confirm, Move, Reply
<1>4. CASE SendReady(c) \/ SendRefresh(c) \/ Announce(c) \/ Notify(c)
  BY <1>4 DEF SendReady, SendRefresh, Announce, Notify, Write, Admitted
<1> QED BY <1>1, <1>2, <1>3, <1>4 DEF LocalStep

\* What is the same for every handler after such a step.
LEMMA LocalFrame ==
  ASSUME CInv, NEW c \in Conn, LocalStep(c)
  PROVE  /\ UNCHANGED roomVars
         /\ \A b \in Conn :
              /\ Serving(b)' <=> Serving(b)
              /\ Serving(b) => my'[b].room = my[b].room
              /\ Registered(b) => Registered(b)'
         /\ \A p \in Presenters :
              Involved(p)' => /\ Involved(p)
                              /\ my'[p].room = my[p].room /\ my'[p].peer = my[p].peer
         /\ \A d \in Displays : Untouched(d) => Untouched(d)'
<1>1. /\ Keeps(c) /\ (Registered(c) => Registered(c)')
      /\ pc'[c] = "notify" => UNCHANGED <<pc, my>>
  BY LocalKeeps, LocalForward DEF CInv, AInv, SInv
<1>2. ASSUME NEW b \in Conn
      PROVE  /\ Serving(b)' <=> Serving(b)
             /\ Serving(b) => my'[b].room = my[b].room
             /\ Registered(b) => Registered(b)'
  BY <1>1 DEF Keeps, Others, Serving, Registered
<1>3. ASSUME NEW p \in Presenters, Involved(p)'
      PROVE  Involved(p) /\ my'[p].room = my[p].room /\ my'[p].peer = my[p].peer
  BY <1>1, <1>3, Connections DEF Keeps, Others, Involved, Admitted
<1>4. \A d \in Displays : Untouched(d) => Untouched(d)'
  BY <1>3 DEF Untouched
<1> QED BY <1>1, <1>2, <1>3, <1>4 DEF Keeps

-----------------------------------------------------------------------------
(* What the calls of the store find, with one display.                    *)

\* With one display, nobody is in the room that a display registers for.
LEMMA RegisterFinds ==
  ASSUME CInv, NEW d \in Conn, NEW o, NEW r, Registers(d, o, r)
  PROVE  /\ pc'[d] = "ice" /\ ~Registered(d) /\ Untouched(d) /\ screen[d] = 0
         /\ \A p \in Presenters : Involved(p) => my[p].room # o
         /\ \A e \in Displays : Serving(e) => my[e].room # o
<1>1. d \in Displays /\ pc[d] = "reading" /\ (o \in DOMAIN rooms => rooms[o].id = RoomOf[d])
  BY DEF Registers
<1>2. ~Registered(d)
  BY <1>1 DEF Registered
<1>3. ASSUME NEW p \in Presenters, Involved(p) PROVE my[p].peer # d /\ my[p].room # o
  BY <1>1, <1>2, <1>3 DEF CInv, OwnDisplays, OneDisplayPerRoom
<1>4. ASSUME o \in DOMAIN rooms PROVE rooms[o].display = None
  <2>1. SUFFICES ASSUME rooms[o].display # None PROVE FALSE
    OBVIOUS
  <2>2. Serving(rooms[o].display) /\ RoomOf[rooms[o].display] = RoomOf[d]
    BY <1>1, <1>4, <2>1 DEF CInv, AInv, SInv, NoOrphans, RoomsBound
  <2>3. rooms[o].display = d
    BY <1>1, <2>2 DEF CInv, OneDisplayPerRoom, Serving
  <2> QED BY <1>1, <2>2, <2>3 DEF Serving
<1>5. ASSUME NEW e \in Displays, Serving(e) PROVE my[e].room # o
  <2>1. rooms[my[e].room].display = e /\ my[e].room \in DOMAIN rooms /\ e # None
    BY <1>5, NoneIsNoConn, Connections DEF CInv, AInv, SInv, Pointers, DisplaysStay
  <2> QED BY <1>4, <2>1
<1>6. Replaced(RoomOf[d]) = {}
  <2>1. CASE o \in DOMAIN rooms
    <3>1. rooms[o].presenter = None /\ rooms[o].display = None /\ Consistent(rooms[o])
      BY <1>4, <2>1 DEF CInv, AInv, SInv, IInv, RoomConsistent, Consistent
    <3>2. rooms[o].sessions \subseteq Session
      <4>1. rooms[o] \in Room
        BY <2>1 DEF CInv, AInv, SInv, IInv, TypeOK
      <4> QED BY <4>1 DEF Room
    <3>3. rooms[o].sessions = {}
      BY <3>1, <3>2, NoneIsNoConn DEF Consistent, Session
    <3>4. PresenterConnections(rooms[o]) = {}
      BY <3>1, <3>3 DEF PresenterConnections
    <3> QED BY <2>1, <3>1, <3>4 DEF Registers
  <2>2. CASE o \notin DOMAIN rooms
    BY <2>2 DEF Registers
  <2> QED BY <2>1, <2>2
<1>7. screen[d] = 0
  BY <1>1, <1>2 DEF CInv, ScreensRight
<1> QED BY <1>2, <1>3, <1>5, <1>6, <1>7 DEF Registers, Untouched

\* With one display, a presenter is let in by a code that is shown, into a room that
\* the one before has left, goodbye and all.
LEMMA AuthorizeFinds ==
  ASSUME CInv, NEW p \in Conn, NEW o, NEW r, Authorizes(p, o, r), MayPresent(o, my[p].code)
  PROVE  LET d == rooms[o].display IN
         /\ d \in Displays /\ Serving(d) /\ my[d].room = o /\ RoomOf[d] = rooms[o].id
         /\ d # p /\ d \in Conn
         /\ rooms[o].code \in seen
         /\ pc[d] \in {"loop", "relay", "remove"} /\ Untouched(d)
         /\ \A q \in Presenters : Involved(q) => my[q].room # o
         /\ \A e \in Displays : Serving(e) /\ my[e].room = o => e = d
<1> DEFINE d == rooms[o].display
<1>1. /\ p \in Presenters /\ pc[p] = "authorize" /\ o \in DOMAIN rooms
      /\ d # None /\ rooms[o].code = my[p].code
  BY DEF Authorizes, MayPresent
<1>2. Serving(d) /\ my[d].room = o /\ RoomOf[d] = rooms[o].id /\ d \in Displays
  BY <1>1 DEF CInv, AInv, SInv, NoOrphans, RoomsBound, Serving
<1>3. rooms[o].code \in 1..drawn
  BY <1>1 DEF CInv, AInv, SInv, StringsDrawn
<1>4. rooms[o].code \in seen
  <2>1. my[p].code \in seen \cup {0}
    BY <1>1 DEF CInv, CodesKnown
  <2> QED BY <1>1, <1>3, <2>1
<1>5. pc[d] \in {"loop", "relay", "remove"} /\ Untouched(d)
  BY <1>1, <1>4 DEF CInv, CodesHidden
<1>6. ASSUME NEW q \in Presenters, Involved(q) PROVE my[q].room # o
  BY <1>1, <1>5, <1>6 DEF CInv, OwnDisplays, Untouched
<1>7. \A e \in Displays : Serving(e) /\ my[e].room = o => e = d
  BY DEF CInv, DisplaysStay
<1> QED BY <1>1, <1>2, <1>4, <1>5, <1>6, <1>7, Connections

-----------------------------------------------------------------------------
(* Each part of the invariant is kept.                                    *)

\* Codes on pages are never unseen.
LEMMA CodesKnownKept ==
  ASSUME CInv, ServerNext \/ UNCHANGED vars
  PROVE  CodesKnown'
<1>0. SInv /\ CodesKnown
  BY DEF CInv, AInv
<1>1. ASSUME NEW c \in Conn, Others(c), seen \subseteq seen',
             c \in Presenters /\ pc'[c] \in {"find", "authorize", "judge"} =>
               \/ pc[c] \in {"find", "authorize", "judge"} /\ my'[c].code = my[c].code
               \/ my'[c].code \in seen \cup {0}
      PROVE  CodesKnown'
  BY <1>0, <1>1, Connections DEF CodesKnown, Others
<1>2. ASSUME NEW c \in Conn, LocalStep(c) PROVE CodesKnown'
  <2>1. Others(c)
    BY <1>0, <1>2, LocalKeeps DEF SInv, Keeps
  <2>2. seen \subseteq seen'
    BY <1>0, <1>2, LocalWrites DEF Show
  <2> QED BY <1>0, <1>1, <1>2, <2>1, <2>2, LocalEnters
<1>3. ASSUME NEW c \in Conn,
             Register(c) \/ Unregister(c) \/ Authorize(c) \/ Start(c) \/ Release(c)
      PROVE  CodesKnown'
  <2>1. PICK o, r : \/ Registers(c, o, r) \/ Unregisters(c, o, r) \/ Authorizes(c, o, r)
                    \/ Starts(c, o, r) \/ Releases(c, o, r)
    BY <1>0, <1>3, RegisterEffect, UnregisterEffect, AuthorizeEffect, StartEffect, ReleaseEffect
  <2>2. Others(c) /\ seen' = seen
    BY <2>1 DEF Registers, Unregisters, Authorizes, Starts, Releases, Kept, pageVars
  <2>3. pc'[c] \in {"find", "authorize", "judge"} =>
           pc[c] \in {"find", "authorize", "judge"} /\ my'[c].code = my[c].code
    BY <2>1 DEF Registers, Unregisters, Authorizes, Starts, Releases
  <2> QED BY <1>1, <2>2, <2>3
<1>4. CASE UNCHANGED vars
  BY <1>0, <1>4 DEF vars, handlerVars, pageVars, CodesKnown
<1> QED BY <1>2, <1>3, <1>4, ServerNextCases

\* RegisterFinds: the display that registers replaces nobody.
LEMMA DisplaysStayKept ==
  ASSUME CInv, ServerNext \/ UNCHANGED vars
  PROVE  DisplaysStay'
<1>0. SInv /\ DisplaysStay
  BY DEF CInv, AInv
<1>1. \A e \in Displays : Serving(e) => my[e].room \in DOMAIN rooms
  BY <1>0 DEF SInv, Pointers
<1>2. ASSUME NEW c \in Conn, LocalStep(c) PROVE DisplaysStay'
  <2>1. Others(c) /\ UNCHANGED rooms
    BY <1>0, <1>2, LocalKeeps DEF SInv, Keeps, roomVars
  <2>2. \A e \in Displays : pc'[e] # "evict"
    BY <1>0, <1>2, <2>1, LocalEnters, Connections DEF Others, DisplaysStay
  <2> QED BY <1>0, <1>2, <2>1, <2>2, LocalFrame, Connections DEF DisplaysStay
<1>3. ASSUME NEW d \in Conn, Register(d) PROVE DisplaysStay'
  <2>1. PICK o, r : Registers(d, o, r)
    BY <1>0, <1>3, RegisterEffect
  <2>2. /\ d \in Displays /\ Others(d) /\ my'[d].room = o /\ Heap(o, r) /\ r.display = d
    BY <2>1 DEF Registers, Kept
  <2>3. pc'[d] = "ice" /\ \A e \in Displays : Serving(e) => my[e].room # o
    BY <2>1, RegisterFinds
  <2>4. ASSUME NEW e \in Displays, e # d
        PROVE  pc'[e] # "evict" /\ (Serving(e)' => rooms'[my'[e].room].display = e)
    <3>1. UNCHANGED pc[e] /\ UNCHANGED my[e]
      BY <2>2, <2>4, Connections DEF Others
    <3> QED BY <1>0, <1>1, <2>2, <2>3, <3>1, HeapFacts DEF DisplaysStay, Serving, Heap
  <2>5. rooms'[my'[d].room].display = d
    BY <2>2, HeapFacts
  <2> QED BY <2>3, <2>4, <2>5 DEF DisplaysStay
<1>4. ASSUME NEW d \in Conn, Unregister(d) PROVE DisplaysStay'
  <2>1. PICK o, r : Unregisters(d, o, r)
    BY <1>0, <1>4, UnregisterEffect
  <2>2. /\ d \in Displays /\ Others(d) /\ pc'[d] \in {"close", "unwind"}
        /\ \/ Heap(o, r) /\ rooms[o].display = d
           \/ UNCHANGED rooms
    BY <2>1 DEF Unregisters, Kept
  <2>3. ASSUME NEW e \in Displays, e # d
        PROVE  pc'[e] # "evict" /\ (Serving(e)' => rooms'[my'[e].room].display = e)
    <3>1. UNCHANGED pc[e] /\ UNCHANGED my[e]
      BY <2>2, <2>3, Connections DEF Others
    <3>2. Serving(e) => my[e].room # o \/ UNCHANGED rooms
      BY <1>0, <2>2, <2>3 DEF DisplaysStay
    <3> QED BY <1>0, <1>1, <2>2, <3>1, <3>2, HeapFacts DEF DisplaysStay, Serving, Heap
  <2> QED BY <2>2, <2>3 DEF DisplaysStay, Serving
<1>5. ASSUME NEW p \in Conn, Authorize(p) \/ Start(p) \/ Release(p) PROVE DisplaysStay'
  <2>1. PICK o, r : Authorizes(p, o, r) \/ Starts(p, o, r) \/ Releases(p, o, r)
    BY <1>0, <1>5, AuthorizeEffect, StartEffect, ReleaseEffect
  <2>2. /\ p \in Presenters /\ Others(p)
        /\ (Heap(o, r) /\ r.display = rooms[o].display) \/ UNCHANGED rooms
    BY <2>1 DEF Authorizes, Starts, Releases, Kept
  <2>3. ASSUME NEW e \in Displays PROVE UNCHANGED pc[e] /\ UNCHANGED my[e]
    BY <2>2, Kinds, Connections DEF Others
  <2>4. \A q \in DOMAIN rooms : rooms'[q].display = rooms[q].display
    BY <2>2, HeapFacts DEF Heap
  <2> QED BY <1>0, <1>1, <2>3, <2>4 DEF DisplaysStay, Serving
<1>6. CASE UNCHANGED vars
  BY <1>0, <1>6 DEF vars, handlerVars, roomVars, DisplaysStay, Serving
<1> QED BY <1>2, <1>3, <1>4, <1>5, <1>6, ServerNextCases

\* What a store step does to those involved with some display.
LEMMA InvolvedFrame ==
  ASSUME CInv, NEW c \in Conn, NEW o, NEW r,
         Registers(c, o, r) \/ Unregisters(c, o, r) \/ Starts(c, o, r) \/ Releases(c, o, r)
  PROVE  /\ \A p \in Presenters :
              Involved(p)' => /\ Involved(p)
                              /\ my'[p].room = my[p].room /\ my'[p].peer = my[p].peer
         /\ \A d \in Displays : Untouched(d) => Untouched(d)'
         /\ \A d \in Displays : Registered(d) => Registered(d)'
         /\ UNCHANGED <<link, screen, seen>> /\ drawn' \in {drawn, drawn + 1}
<1>1. Kept(c)
  BY DEF Registers, Unregisters, Starts, Releases
<1>2. ASSUME NEW p \in Presenters, Involved(p)'
      PROVE  Involved(p) /\ my'[p].room = my[p].room /\ my'[p].peer = my[p].peer
  BY <1>1, <1>2, Kinds, Connections
     DEF Registers, Unregisters, Starts, Releases, Kept, Others, Involved, Admitted
<1>3. \A d \in Displays : Untouched(d) => Untouched(d)'
  BY <1>2 DEF Untouched
<1>4. \A d \in Displays : Registered(d) => Registered(d)'
  BY <1>1, Kinds, Connections
     DEF Registers, Unregisters, Starts, Releases, Kept, Others, Registered
<1>5. UNCHANGED <<link, screen, seen>> /\ drawn' \in {drawn, drawn + 1}
  BY <1>1 DEF Kept, pageVars, Registers, Unregisters, Starts, Releases
<1> QED BY <1>2, <1>3, <1>4, <1>5

\* The same for AuthorizePresenter: only the one it lets in is newly involved.
LEMMA AuthorizeFrame ==
  ASSUME CInv, NEW p \in Conn, NEW o, NEW r, Authorizes(p, o, r)
  PROVE  /\ \A q \in Presenters : q # p => 
              /\ Involved(q)' <=> Involved(q)
              /\ my'[q].room = my[q].room /\ my'[q].peer = my[q].peer
              /\ my'[q].code = my[q].code /\ pc'[q] = pc[q]
         /\ \A d \in Displays : UNCHANGED pc[d] /\ UNCHANGED my[d]
         /\ ~MayPresent(o, my[p].code) => ~Involved(p)'
         /\ pc'[p] # "notify" /\ p \in Presenters
         /\ UNCHANGED <<link, screen, seen>>
BY Kinds, Connections DEF Authorizes, Kept, Others, Involved, Admitted, pageVars

\* AuthorizeFinds: the display that the next presenter is given has nobody else.
LEMMA OwnDisplaysKept ==
  ASSUME CInv, ServerNext \/ UNCHANGED vars
  PROVE  OwnDisplays' /\ PeersApart'
<1>0. SInv /\ OwnDisplays /\ PeersApart
  BY DEF CInv, AInv
<1> DEFINE Own(p) == LET d == my[p].peer
                         o == my[p].room IN
                       /\ d \in Displays /\ Registered(d) /\ o \in DOMAIN rooms
                       /\ RoomOf[d] = rooms[o].id /\ rooms[o].display \in {None, d}
                       /\ Serving(d) => my[d].room = o
<1>1. \A p \in Presenters : Involved(p) => Own(p)
  BY <1>0 DEF OwnDisplays
<1>2. ASSUME \A p \in Presenters :
               Involved(p)' => Own(p)' /\ Involved(p) /\ my'[p].peer = my[p].peer
      PROVE  OwnDisplays' /\ PeersApart'
  BY <1>0, <1>2 DEF OwnDisplays, PeersApart
<1>3. ASSUME NEW c \in Conn, LocalStep(c) PROVE OwnDisplays' /\ PeersApart'
  <2>1. ASSUME NEW p \in Presenters, Involved(p)'
        PROVE  Own(p)' /\ Involved(p) /\ my'[p].peer = my[p].peer
    BY <1>1, <1>3, <2>1, LocalFrame, Connections DEF roomVars
  <2> QED BY <1>2, <2>1
<1>4. ASSUME NEW d \in Conn, Register(d) PROVE OwnDisplays' /\ PeersApart'
  <2>1. PICK o, r : Registers(d, o, r)
    BY <1>0, <1>4, RegisterEffect
  <2>2. Heap(o, r) /\ Others(d) /\ d \in Displays
    BY <2>1 DEF Registers, Kept
  <2>3. ASSUME NEW p \in Presenters, Involved(p)'
        PROVE  Own(p)' /\ Involved(p) /\ my'[p].peer = my[p].peer
    <3>1. /\ Involved(p) /\ my'[p].room = my[p].room /\ my'[p].peer = my[p].peer
          /\ Registered(my[p].peer)'
      BY <1>1, <2>1, <2>3, InvolvedFrame
    <3>2. my[p].room # o /\ my[p].peer # d
      BY <2>1, <2>2, <3>1, RegisterFinds DEF Untouched
    <3>3. UNCHANGED my[my[p].peer] /\ UNCHANGED pc[my[p].peer]
      BY <1>1, <2>2, <3>1, <3>2, Connections DEF Others
    <3>4. my[p].room \in DOMAIN rooms' /\ rooms'[my[p].room] = rooms[my[p].room]
      BY <1>1, <2>2, <3>1, <3>2, HeapFacts DEF Heap
    <3> QED BY <1>1, <3>1, <3>3, <3>4 DEF Serving
  <2> QED BY <1>2, <2>3
<1>5. ASSUME NEW d \in Conn, Unregister(d) PROVE OwnDisplays' /\ PeersApart'
  <2>1. PICK o, r : Unregisters(d, o, r)
    BY <1>0, <1>5, UnregisterEffect
  <2>2. /\ Others(d) /\ d \in Displays /\ pc'[d] \in {"close", "unwind"}
        /\ \/ Heap(o, r) /\ r.display = None /\ r.id = rooms[o].id
           \/ UNCHANGED rooms
    BY <2>1 DEF Unregisters, Kept
  <2>3. \A q \in DOMAIN rooms : /\ q \in DOMAIN rooms' /\ rooms'[q].id = rooms[q].id
                                /\ rooms'[q].display \in {None, rooms[q].display}
    BY <2>2, HeapFacts DEF Heap
  <2>4. ASSUME NEW p \in Presenters, Involved(p)'
        PROVE  Own(p)' /\ Involved(p) /\ my'[p].peer = my[p].peer
    <3>1. /\ Involved(p) /\ my'[p].room = my[p].room /\ my'[p].peer = my[p].peer
          /\ Registered(my[p].peer)'
      BY <1>1, <2>1, <2>4, InvolvedFrame
    <3>2. Serving(my[p].peer)' => Serving(my[p].peer) /\ UNCHANGED my[my[p].peer]
      BY <1>1, <2>2, <3>1, Connections DEF Others, Serving
    <3> QED BY <1>1, <2>3, <3>1, <3>2
  <2> QED BY <1>2, <2>4
<1>6. ASSUME NEW p \in Conn, Authorize(p) PROVE OwnDisplays' /\ PeersApart'
  <2>1. PICK o, r : Authorizes(p, o, r)
    BY <1>0, <1>6, AuthorizeEffect
  <2>2. /\ \/ Heap(o, r) /\ r.display = rooms[o].display /\ r.id = rooms[o].id
           \/ UNCHANGED rooms
        /\ o \in DOMAIN rooms /\ p \in Presenters
    BY <2>1 DEF Authorizes
  <2>3. \A q \in DOMAIN rooms : /\ q \in DOMAIN rooms' /\ rooms'[q].id = rooms[q].id
                                /\ rooms'[q].display = rooms[q].display
    BY <2>2, HeapFacts DEF Heap
  <2>4. ASSUME NEW d \in Displays PROVE UNCHANGED my[d] /\ (Registered(d)' <=> Registered(d))
                                        /\ (Serving(d)' <=> Serving(d))
    BY <2>1, AuthorizeFrame DEF Registered, Serving
  <2>5. ASSUME NEW q \in Presenters, Involved(q)', q # p
        PROVE  Own(q)' /\ Involved(q) /\ my'[q].peer = my[q].peer
    <3>1. Involved(q) /\ my'[q].room = my[q].room /\ my'[q].peer = my[q].peer
      BY <2>1, <2>5, AuthorizeFrame
    <3> QED BY <1>1, <2>3, <2>4, <3>1
  <2>6. CASE ~MayPresent(o, my[p].code)
    BY <1>2, <2>1, <2>5, <2>6, AuthorizeFrame
  <2>7. CASE MayPresent(o, my[p].code)
    <3> DEFINE d == rooms[o].display
    <3>1. /\ d \in Displays /\ Serving(d) /\ my[d].room = o /\ RoomOf[d] = rooms[o].id
          /\ Untouched(d)
      BY <2>1, <2>7, AuthorizeFinds
    <3>2. my'[p].room = o /\ my'[p].peer = d
      BY <2>1, <2>7 DEF Authorizes
    <3>3. Registered(d)
      BY <3>1 DEF Serving, Registered
    <3>4. Own(p)'
      BY <2>2, <2>3, <2>4, <3>1, <3>2, <3>3
    <3>5. \A q \in Presenters : Involved(q) => my[q].peer # d
      BY <3>1 DEF Untouched
    <3> HIDE DEF d, Own
    <3>6. PeersApart'
      BY <1>0, <2>5, <3>2, <3>5 DEF PeersApart
    <3>7. OwnDisplays'
      BY <2>5, <3>4 DEF OwnDisplays, Own
    <3> QED BY <3>6, <3>7
  <2> QED BY <2>6, <2>7
<1>7. ASSUME NEW p \in Conn, Start(p) \/ Release(p) PROVE OwnDisplays' /\ PeersApart'
  <2>1. PICK o, r : Starts(p, o, r) \/ Releases(p, o, r)
    BY <1>0, <1>7, StartEffect, ReleaseEffect
  <2>2. /\ \/ Heap(o, r) /\ r.display = rooms[o].display /\ r.id = rooms[o].id
           \/ UNCHANGED rooms
        /\ p \in Presenters /\ Others(p)
    BY <2>1 DEF Starts, Releases, Kept
  <2>3. \A q \in DOMAIN rooms : /\ q \in DOMAIN rooms' /\ rooms'[q].id = rooms[q].id
                                /\ rooms'[q].display = rooms[q].display
    BY <2>2, HeapFacts DEF Heap
  <2>4. ASSUME NEW d \in Displays PROVE UNCHANGED my[d] /\ (Registered(d)' <=> Registered(d))
                                        /\ (Serving(d)' <=> Serving(d))
    BY <2>2, Kinds, Connections DEF Registered, Serving, Others
  <2>5. ASSUME NEW q \in Presenters, Involved(q)'
        PROVE  Own(q)' /\ Involved(q) /\ my'[q].peer = my[q].peer
    <3>1. Involved(q) /\ my'[q].room = my[q].room /\ my'[q].peer = my[q].peer
      BY <2>1, <2>5, InvolvedFrame
    <3> QED BY <1>1, <2>3, <2>4, <3>1
  <2> QED BY <1>2, <2>5
<1>8. CASE UNCHANGED vars
  BY <1>0, <1>8 DEF vars, handlerVars, roomVars, OwnDisplays, PeersApart, Involved, Registered,
                    Serving, Admitted
<1> QED BY <1>3, <1>4, <1>5, <1>6, <1>7, <1>8, ServerNextCases

\* A Room's code changes only when it is given to a new display or presenter.
LEMMA CodeChanges ==
  ASSUME CInv, NEW c \in Conn, NEW o, NEW r,
         Unregisters(c, o, r) \/ Starts(c, o, r) \/ Releases(c, o, r)
  PROVE  \A q \in DOMAIN rooms : /\ q \in DOMAIN rooms' /\ rooms'[q].code = rooms[q].code
                                 /\ rooms'[q].display \in {None, rooms[q].display}
<1>1. \/ UNCHANGED rooms
      \/ Heap(o, r) /\ r.code = rooms[o].code /\ r.display \in {None, rooms[o].display}
  BY DEF Unregisters, Starts, Releases
<1> QED BY <1>1, HeapFacts DEF Heap

\* Between ReleasePresenter and its presenterClosed the Room's code stays: no display
\* registers (RegisterFinds) and no presenter is let in (AuthorizeFinds).
LEMMA GoodbyeCodesKept ==
  ASSUME CInv, ServerNext \/ UNCHANGED vars
  PROVE  GoodbyeCodes'
<1>0. SInv /\ GoodbyeCodes
  BY DEF CInv, AInv
<1>1. \A p \in Presenters : pc[p] = "notify" => my[p].room \in DOMAIN rooms /\ Involved(p)
  BY DEF CInv, OwnDisplays, Involved
<1>2. ASSUME NEW c \in Conn, LocalStep(c) PROVE GoodbyeCodes'
  <2>1. Others(c) /\ UNCHANGED rooms /\ (pc'[c] = "notify" => UNCHANGED <<pc, my>>)
    BY <1>0, <1>2, LocalKeeps, LocalForward DEF SInv, Keeps, roomVars
  <2> QED BY <1>0, <2>1, Connections DEF Others, GoodbyeCodes
<1>3. ASSUME NEW d \in Conn, Register(d) PROVE GoodbyeCodes'
  <2>1. PICK o, r : Registers(d, o, r)
    BY <1>0, <1>3, RegisterEffect
  <2>2. Heap(o, r) /\ Others(d)
    BY <2>1 DEF Registers, Kept
  <2>3. pc'[d] = "ice" /\ \A p \in Presenters : Involved(p) => my[p].room # o
    BY <2>1, RegisterFinds
  <2> QED BY <1>0, <1>1, <2>2, <2>3, HeapFacts, Connections DEF GoodbyeCodes, Others, Heap
<1>4. ASSUME NEW c \in Conn, Unregister(c) \/ Start(c) PROVE GoodbyeCodes'
  <2>1. PICK o, r : Unregisters(c, o, r) \/ Starts(c, o, r)
    BY <1>0, <1>4, UnregisterEffect, StartEffect
  <2>2. Others(c) /\ pc'[c] # "notify"
    BY <2>1 DEF Unregisters, Starts, Kept
  <2> QED BY <1>0, <1>1, <2>1, <2>2, CodeChanges, Connections DEF GoodbyeCodes, Others
<1>5. ASSUME NEW p \in Conn, Authorize(p) PROVE GoodbyeCodes'
  <2>1. PICK o, r : Authorizes(p, o, r)
    BY <1>0, <1>5, AuthorizeEffect
  <2>2. ASSUME NEW q \in Presenters, pc'[q] = "notify"
        PROVE  my'[q].code = rooms'[my'[q].room].code
    <3>1. /\ q # p /\ pc[q] = "notify" /\ my'[q].room = my[q].room /\ my'[q].code = my[q].code
      BY <2>1, <2>2, AuthorizeFrame
    <3>2. CASE UNCHANGED rooms
      BY <1>0, <3>1, <3>2 DEF GoodbyeCodes
    <3>3. CASE MayPresent(o, my[p].code)
      <4>1. Heap(o, r) /\ my[q].room # o
        BY <1>1, <2>1, <3>1, <3>3, AuthorizeFinds DEF Authorizes
      <4> QED BY <1>0, <1>1, <3>1, <4>1, HeapFacts DEF GoodbyeCodes, Heap
    <3> QED BY <2>1, <3>2, <3>3 DEF Authorizes
  <2> QED BY <2>2 DEF GoodbyeCodes
<1>6. ASSUME NEW p \in Conn, Release(p) PROVE GoodbyeCodes'
  <2>1. PICK o, r : Releases(p, o, r)
    BY <1>0, <1>6, ReleaseEffect
  <2>2. /\ Others(p) /\ my'[p].room = o /\ my'[p].code = rooms[o].code /\ o \in DOMAIN rooms
    BY <2>1 DEF Releases, Kept
  <2> QED BY <1>0, <1>1, <2>1, <2>2, CodeChanges, Connections DEF GoodbyeCodes, Others
<1>7. CASE UNCHANGED vars
  BY <1>0, <1>7 DEF vars, handlerVars, roomVars, GoodbyeCodes
<1> QED BY <1>2, <1>3, <1>4, <1>5, <1>6, <1>7, ServerNextCases

\* Nobody knows the code that a display is about to show.
LEMMA PreparingKept ==
  ASSUME CInv, ServerNext \/ UNCHANGED vars
  PROVE  Preparing'
<1>0. SInv /\ Preparing
  BY DEF CInv, AInv
<1>1. \A d \in Displays :
        pc[d] \in {"ice", "ready"} => Serving(d) /\ my[d].room \in DOMAIN rooms
  BY <1>0 DEF SInv, Pointers, Serving
<1>2. ASSUME NEW c \in Conn, LocalStep(c) PROVE Preparing'
  <2>1. Others(c) /\ UNCHANGED rooms
    BY <1>0, <1>2, LocalKeeps DEF SInv, Keeps, roomVars
  <2>2. ASSUME NEW d \in Displays, pc'[d] \in {"ice", "ready"}
        PROVE  /\ screen'[d] = 0 /\ Untouched(d)'
               /\ pc'[d] = "ready" => my'[d].code = rooms'[my'[d].room].code
    <3>1. pc[d] \in {"ice", "ready"}
      BY <1>0, <1>2, <2>1, <2>2, LocalEnters, Connections DEF Others, CInv, DisplaysStay
    <3>2. /\ screen[d] = 0 /\ Untouched(d) /\ Serving(d)
          /\ Untouched(d)' /\ my'[d].room = my[d].room
      BY <1>0, <1>1, <1>2, <3>1, LocalFrame, Connections DEF Preparing
    <3>3. pc'[d] = "ready" => my'[d].code = rooms'[my'[d].room].code
      BY <1>0, <1>2, <2>1, <2>2, <3>1, <3>2, LocalEnters, Connections DEF Others, Preparing
    <3>4. ASSUME NEW e, NEW k, Show(e, k), e # d \/ k = 0 PROVE screen'[d] = 0
      BY <1>0, <3>2, <3>4 DEF Show, SInv, HandlersTypeOK
    <3>5. c \in Displays /\ pc[c] = "ready" /\ pc'[c] # "ready" => c # d
      BY <1>0, <1>2, <2>2, LocalEnters
    <3>6. c \in Presenters /\ pc[c] = "notify" => my[c].tell # d
      BY <3>2 DEF CInv, AInv, GoodbyeToOwnDisplay, Untouched, Involved
    <3>7. screen'[d] = 0
      BY <1>0, <1>2, <3>2, <3>4, <3>5, <3>6, LocalWrites
    <3> QED BY <3>2, <3>3, <3>7
  <2> QED BY <2>2 DEF Preparing
<1>3. ASSUME NEW d \in Conn, Register(d) PROVE Preparing'
  <2>1. PICK o, r : Registers(d, o, r)
    BY <1>0, <1>3, RegisterEffect
  <2>2. d \in Displays /\ Others(d) /\ Heap(o, r)
    BY <2>1 DEF Registers, Kept
  <2>3. /\ pc'[d] = "ice" /\ screen'[d] = 0 /\ UNCHANGED screen /\ Untouched(d)'
        /\ \A e \in Displays : Serving(e) => my[e].room # o
    BY <2>1, <2>2, RegisterFinds, InvolvedFrame
  <2>4. ASSUME NEW e \in Displays, e # d
        PROVE  /\ pc'[e] \in {"ice", "ready"} => screen'[e] = 0 /\ Untouched(e)'
               /\ pc'[e] = "ready" => my'[e].code = rooms'[my'[e].room].code
    <3>1. UNCHANGED pc[e] /\ UNCHANGED my[e] /\ (Untouched(e) => Untouched(e)')
      BY <2>1, <2>2, <2>4, InvolvedFrame, Connections DEF Others
    <3> QED BY <1>0, <1>1, <2>2, <2>3, <3>1, HeapFacts DEF Preparing, Heap
  <2> QED BY <2>2, <2>3, <2>4 DEF Preparing
<1>4. ASSUME NEW c \in Conn, Unregister(c) \/ Start(c) \/ Release(c) PROVE Preparing'
  <2>1. PICK o, r : Unregisters(c, o, r) \/ Starts(c, o, r) \/ Releases(c, o, r)
    BY <1>0, <1>4, UnregisterEffect, StartEffect, ReleaseEffect
  <2>2. Others(c) /\ pc'[c] \notin {"ice", "ready"} /\ UNCHANGED screen
    BY <2>1 DEF Unregisters, Starts, Releases, Kept, pageVars
  <2>3. ASSUME NEW e \in Displays, pc'[e] \in {"ice", "ready"}
        PROVE  /\ screen'[e] = 0 /\ Untouched(e)'
               /\ pc'[e] = "ready" => my'[e].code = rooms'[my'[e].room].code
    <3>1. UNCHANGED pc[e] /\ UNCHANGED my[e] /\ (Untouched(e) => Untouched(e)')
      BY <2>1, <2>2, <2>3, InvolvedFrame, Connections DEF Others
    <3> QED BY <1>0, <1>1, <2>1, <2>2, <2>3, <3>1, CodeChanges DEF Preparing
  <2> QED BY <2>3 DEF Preparing
<1>5. ASSUME NEW p \in Conn, Authorize(p) PROVE Preparing'
  <2>1. PICK o, r : Authorizes(p, o, r)
    BY <1>0, <1>5, AuthorizeEffect
  <2>2. ASSUME NEW e \in Displays, pc'[e] \in {"ice", "ready"}
        PROVE  /\ screen'[e] = 0 /\ Untouched(e)'
               /\ pc'[e] = "ready" => my'[e].code = rooms'[my'[e].room].code
    <3>1. UNCHANGED pc[e] /\ UNCHANGED my[e] /\ UNCHANGED screen
      BY <2>1, AuthorizeFrame
    <3>2. screen[e] = 0 /\ Untouched(e)
      BY <1>0, <2>2, <3>1 DEF Preparing
    <3>3. CASE UNCHANGED rooms /\ ~MayPresent(o, my[p].code)
      <4>1. Untouched(e)'
        BY <2>1, <3>2, <3>3, AuthorizeFrame DEF Untouched
      <4> QED BY <1>0, <2>2, <3>1, <3>2, <3>3, <4>1 DEF Preparing
    <3>4. CASE MayPresent(o, my[p].code)
      <4>1. /\ Heap(o, r) /\ my'[p].peer = rooms[o].display
            /\ e # rooms[o].display /\ my[e].room # o
        BY <1>1, <2>1, <2>2, <3>1, <3>4, AuthorizeFinds DEF Authorizes
      <4>2. Untouched(e)'
        BY <2>1, <3>2, <4>1, AuthorizeFrame DEF Untouched
      <4>3. rooms'[my[e].room] = rooms[my[e].room]
        BY <1>1, <2>2, <3>1, <4>1, HeapFacts DEF Heap
      <4> QED BY <1>0, <2>2, <3>1, <3>2, <4>2, <4>3 DEF Preparing
    <3> QED BY <2>1, <3>3, <3>4 DEF Authorizes
  <2> QED BY <2>2 DEF Preparing
<1>6. CASE UNCHANGED vars
  BY <1>0, <1>6
     DEF vars, handlerVars, roomVars, pageVars, Preparing, Untouched, Involved, Admitted
<1> QED BY <1>2, <1>3, <1>4, <1>5, <1>6, ServerNextCases

\* A code comes on a page by displayReady or presenterClosed, when nobody is in; it
\* is replaced in the step that lets somebody in.
LEMMA CodesHiddenKept ==
  ASSUME CInv, ServerNext \/ UNCHANGED vars
  PROVE  CodesHidden'
<1> DEFINE Stages == {"loop", "relay", "remove"}
<1>0. SInv /\ CodesHidden /\ drawn \in Nat /\ seen \subseteq 1..drawn
  BY DEF CInv, AInv, SInv, IInv, TypeOK, HandlersTypeOK
<1>1. ASSUME NEW q \in DOMAIN rooms, NEW d, d = rooms[q].display, d # None
      PROVE  /\ d \in Displays /\ d \in Conn /\ Serving(d) /\ my[d].room = q
             /\ rooms[q].code \in 1..drawn
             /\ rooms[q].code \in seen => pc[d] \in Stages /\ Untouched(d)
  BY <1>0, <1>1, Connections DEF SInv, NoOrphans, Serving, StringsDrawn, CodesHidden
<1>2. ASSUME \A q \in DOMAIN rooms' : \A d \in Displays :
               d = rooms'[q].display /\ rooms'[q].code \in seen'
                 => pc'[d] \in Stages /\ Untouched(d)'
      PROVE  CodesHidden'
  <2>1. SInv'
    BY <1>0, NextSInv
  <2>2. \A q \in DOMAIN rooms' : rooms'[q].display # None => rooms'[q].display \in Displays
    BY <2>1 DEF SInv, NoOrphans, Serving
  <2> QED BY <1>2, <2>2 DEF CodesHidden, Untouched
<1>3. ASSUME NEW c \in Conn, LocalStep(c) PROVE CodesHidden'
  <2>1. Others(c) /\ UNCHANGED rooms
    BY <1>0, <1>3, LocalKeeps DEF SInv, Keeps, roomVars
  <2>2. ASSUME NEW q \in DOMAIN rooms, NEW d \in Displays, d = rooms[q].display,
               rooms[q].code \in seen'
        PROVE  pc'[d] \in Stages /\ Untouched(d)'
    <3> DEFINE k == rooms[q].code
    <3>0. d # None
      BY NoneIsNoConn, Connections
    <3>1. Serving(d) /\ my[d].room = q /\ k # 0 /\ d \in Conn
      BY <1>0, <1>1, <2>2, <3>0
    <3>2. CASE k \in seen
      <4>1. pc[d] \in Stages /\ Untouched(d)
        BY <1>1, <2>2, <3>0, <3>2
      <4>2. pc'[d] \in Stages
        BY <1>0, <1>3, <2>1, <3>1, <4>1, LocalEnters DEF Others
      <4> QED BY <1>3, <4>1, <4>2, LocalFrame
    <3>3. CASE k \notin seen
      <4>1. \/ c \in Displays /\ pc[c] = "ready" /\ pc'[c] # "ready" /\ k = my[c].code
            \/ c \in Presenters /\ pc[c] = "notify" /\ pc'[c] = "close" /\ k = my[c].code
        BY <1>0, <1>3, <2>2, <3>1, <3>3, LocalWrites DEF Show
      <4>2. CASE c \in Displays /\ pc[c] = "ready" /\ pc'[c] # "ready" /\ k = my[c].code
        <5>1. k = rooms[my[c].room].code /\ my[c].room \in DOMAIN rooms /\ Untouched(c)
          BY <4>2 DEF CInv, AInv, SInv, Preparing, Pointers, Serving
        <5>2. my[c].room = q
          BY <5>1 DEF CInv, AInv, CodesApart
        <5>3. c = d
          BY <2>2, <4>2, <5>2 DEF CInv, DisplaysStay, Serving
        <5>4. Serving(c)' /\ pc'[c] \notin {"evict", "ice", "ready"}
          BY <1>0, <1>3, <4>2, LocalEnters, LocalFrame DEF Serving
        <5>5. pc'[c] \in Stages
          BY <5>4 DEF Serving
        <5> QED BY <1>3, <5>1, <5>3, <5>5, LocalFrame
      <4>3. CASE c \in Presenters /\ pc[c] = "notify" /\ pc'[c] = "close" /\ k = my[c].code
        <5>1. Involved(c) /\ k = rooms[my[c].room].code /\ my[c].room \in DOMAIN rooms
          BY <4>3 DEF CInv, GoodbyeCodes, OwnDisplays, Involved
        <5>2. my[c].room = q
          BY <5>1 DEF CInv, AInv, CodesApart
        <5>3. my[c].peer = d
          BY <2>2, <3>0, <4>3, <5>1, <5>2 DEF CInv, OwnDisplays
        <5>4. pc[d] \in Stages
          BY <3>1, <4>3, <5>1, <5>3 DEF CInv, DisplaysStay, Preparing, Untouched, Serving
        <5>5. pc'[d] = pc[d]
          BY <2>1, <3>1, <4>3, Kinds DEF Others
        <5>6. ~Involved(c)'
          BY <4>3 DEF Involved, Admitted
        <5>7. ASSUME NEW p \in Presenters, Involved(p)' PROVE my'[p].peer # d
          <6>1. Involved(p) /\ my'[p].peer = my[p].peer /\ p # c
            BY <1>3, <5>6, <5>7, LocalFrame
          <6> QED BY <4>3, <5>1, <5>3, <6>1 DEF CInv, PeersApart
        <5>8. Untouched(d)'
          BY <5>7 DEF Untouched
        <5> QED BY <5>4, <5>5, <5>8
      <4> QED BY <4>1, <4>2, <4>3
    <3> QED BY <3>2, <3>3
  <2> QED BY <1>2, <2>1, <2>2
<1>4. ASSUME NEW d \in Conn, Register(d) PROVE CodesHidden'
  <2>1. PICK o, r : Registers(d, o, r)
    BY <1>0, <1>4, RegisterEffect
  <2>2. /\ d \in Displays /\ Others(d) /\ pc[d] = "reading" /\ Heap(o, r) /\ r.code = drawn + 1
        /\ seen' = seen
    BY <2>1 DEF Registers, Kept, pageVars
  <2>3. r.code \notin seen
    BY <1>0, <2>2
  <2>4. ASSUME NEW q \in DOMAIN rooms', NEW e \in Displays, e = rooms'[q].display,
               rooms'[q].code \in seen'
        PROVE  pc'[e] \in Stages /\ Untouched(e)'
    <3>1. q \in DOMAIN rooms /\ rooms'[q] = rooms[q]
      BY <2>2, <2>3, <2>4, HeapFacts
    <3>2. e # None
      BY NoneIsNoConn, Connections
    <3>3. e \in Conn /\ e # d /\ pc[e] \in Stages /\ Untouched(e)
      BY <1>1, <2>2, <2>4, <3>1, <3>2 DEF Serving
    <3>4. pc'[e] = pc[e]
      BY <2>2, <3>3 DEF Others
    <3> QED BY <2>1, <3>3, <3>4, InvolvedFrame
  <2> QED BY <1>2, <2>4
<1>5. ASSUME NEW d \in Conn, Unregister(d) PROVE CodesHidden'
  <2>1. PICK o, r : Unregisters(d, o, r)
    BY <1>0, <1>5, UnregisterEffect
  <2>2. /\ d \in Displays /\ Others(d) /\ seen' = seen
        /\ \/ /\ Heap(o, r) /\ o \in DOMAIN rooms /\ rooms[o].display = d
              /\ r.display = None
           \/ UNCHANGED rooms /\ \A q \in DOMAIN rooms : rooms[q].display # d
    BY <2>1 DEF Unregisters, Kept, pageVars
  <2>3. ASSUME NEW q \in DOMAIN rooms', NEW e \in Displays, e = rooms'[q].display,
               rooms'[q].code \in seen'
        PROVE  pc'[e] \in Stages /\ Untouched(e)'
    <3>1. e # None /\ d # None
      BY <2>2, NoneIsNoConn, Connections
    <3>2. /\ q \in DOMAIN rooms /\ rooms'[q] = rooms[q]
          /\ \/ q # o /\ o \in DOMAIN rooms /\ rooms[o].display = d
             \/ rooms[q].display # d
      BY <2>2, <2>3, <3>1, HeapFacts
    <3>3. e # d
      BY <1>1, <2>2, <2>3, <3>1, <3>2
    <3>4. e \in Conn /\ pc[e] \in Stages /\ Untouched(e)
      BY <1>1, <2>2, <2>3, <3>1, <3>2
    <3>5. pc'[e] = pc[e]
      BY <2>2, <3>3, <3>4 DEF Others
    <3> QED BY <2>1, <3>4, <3>5, InvolvedFrame
  <2> QED BY <1>2, <2>3
<1>6. ASSUME NEW p \in Conn, Authorize(p) PROVE CodesHidden'
  <2>1. PICK o, r : Authorizes(p, o, r)
    BY <1>0, <1>6, AuthorizeEffect
  <2>2. seen' = seen /\ \A e \in Displays : UNCHANGED pc[e]
    BY <2>1, AuthorizeFrame
  <2>3. CASE UNCHANGED rooms /\ ~MayPresent(o, my[p].code)
    <3>1. \A e \in Displays : Untouched(e) => Untouched(e)'
      BY <2>1, <2>3, AuthorizeFrame DEF Untouched
    <3>2. \A e \in Displays : e # None
      BY NoneIsNoConn, Connections
    <3> QED BY <1>1, <1>2, <2>2, <2>3, <3>1, <3>2
  <2>4. CASE MayPresent(o, my[p].code)
    <3>1. Heap(o, r) /\ r.code = drawn + 1 /\ my'[p].peer = rooms[o].display
      BY <2>1, <2>4 DEF Authorizes
    <3>2. my[rooms[o].display].room = o
      BY <2>1, <2>4, AuthorizeFinds
    <3>3. r.code \notin seen
      BY <1>0, <3>1
    <3>4. ASSUME NEW q \in DOMAIN rooms', NEW e \in Displays, e = rooms'[q].display,
                 rooms'[q].code \in seen'
          PROVE  pc'[e] \in Stages /\ Untouched(e)'
      <4>1. q # o /\ q \in DOMAIN rooms /\ rooms'[q] = rooms[q] /\ e # None
        BY <2>2, <3>1, <3>3, <3>4, HeapFacts, NoneIsNoConn, Connections
      <4>2. e # rooms[o].display /\ pc[e] \in Stages /\ Untouched(e)
        BY <1>1, <2>2, <3>2, <3>4, <4>1
      <4>3. Untouched(e)'
        BY <2>1, <3>1, <4>2, AuthorizeFrame DEF Untouched
      <4> QED BY <2>2, <4>2, <4>3
    <3> QED BY <1>2, <3>4
  <2> QED BY <2>1, <2>3, <2>4 DEF Authorizes
<1>7. ASSUME NEW p \in Conn, Start(p) \/ Release(p) PROVE CodesHidden'
  <2>1. PICK o, r : Starts(p, o, r) \/ Releases(p, o, r)
    BY <1>0, <1>7, StartEffect, ReleaseEffect
  <2>2. /\ p \in Presenters /\ Others(p) /\ o \in DOMAIN rooms
        /\ Heap(o, r) \/ UNCHANGED rooms
    BY <2>1 DEF Starts, Releases, Kept
  <2>3. \A e \in Displays : UNCHANGED pc[e] /\ (Untouched(e) => Untouched(e)') /\ e # None
    BY <2>1, <2>2, InvolvedFrame, Kinds, NoneIsNoConn, Connections DEF Others
  <2>4. DOMAIN rooms' = DOMAIN rooms /\ seen' = seen
    BY <2>1, <2>2, InvolvedFrame DEF Heap
  <2>5. \A q \in DOMAIN rooms : /\ rooms'[q].code = rooms[q].code
                                /\ rooms'[q].display \in {None, rooms[q].display}
    BY <2>1, CodeChanges
  <2> QED BY <1>1, <1>2, <2>3, <2>4, <2>5
<1>8. CASE UNCHANGED vars
  BY <1>0, <1>8
     DEF vars, handlerVars, roomVars, pageVars, CodesHidden, Untouched, Involved, Admitted
<1> QED BY <1>3, <1>4, <1>5, <1>6, <1>7, <1>8, ServerNextCases

\* What is written to a page is the Room's code at that time, or nothing.
LEMMA ScreensRightKept ==
  ASSUME CInv, ServerNext \/ UNCHANGED vars
  PROVE  ScreensRight'
<1> DEFINE Right(d) == \/ screen[d] = rooms[my[d].room].code
                       \/ \E p \in Presenters : pc[p] = "refresh" /\ my[p].peer = d
           Fine(d) == screen[d] # 0 =>
                        Registered(d) /\ (Serving(d) /\ link[d] = "open" => Right(d))
<1>0. SInv /\ \A d \in Displays : Fine(d) /\ d \in Conn
  BY Connections DEF CInv, AInv, ScreensRight
<1>1. \A d \in Displays : Serving(d) => my[d].room \in DOMAIN rooms
  BY <1>0 DEF SInv, Pointers
<1>2. (\A d \in Displays : Fine(d))' => ScreensRight'
  BY DEF ScreensRight
<1>3. ASSUME NEW c \in Conn, LocalStep(c), NEW d \in Displays PROVE Fine(d)'
  <2>1. /\ Others(c) /\ Keeps(c) /\ UNCHANGED rooms
        /\ Registered(d) => Registered(d)'
        /\ Serving(d)' <=> Serving(d)
        /\ Serving(d) => my'[d].room = my[d].room
    BY <1>0, <1>3, LocalKeeps, LocalFrame DEF SInv, Keeps, roomVars
  <2>2. Serving(d)' /\ link'[d] = "open" => Serving(d) /\ link[d] = "open"
    BY <1>0, <1>3, <2>1, LocalWrites DEF Serving
  <2>3. CASE screen'[d] = screen[d]
    <3>1. ASSUME screen'[d] # 0, Serving(d)', link'[d] = "open" PROVE Right(d)'
      <4>1. CASE screen[d] = rooms[my[d].room].code
        BY <2>1, <2>2, <2>3, <3>1, <4>1
      <4>2. ASSUME NEW p \in Presenters, pc[p] = "refresh", my[p].peer = d PROVE Right(d)'
        <5>1. CASE p # c
          BY <2>1, <4>2, <5>1, Connections DEF Others
        <5>2. CASE p = c
          <6>1. pc'[c] = "refresh"
            BY <1>0, <1>3, <2>2, <2>3, <3>1, <4>2, <5>2, LocalWrites
               DEF Show, SInv, HandlersTypeOK
          <6>2. my'[c].peer = d
            BY <2>1, <4>2, <5>2 DEF Keeps, Admitted
          <6> QED BY <4>2, <5>2, <6>1, <6>2
        <5> QED BY <5>1, <5>2
      <4> QED BY <1>0, <2>2, <2>3, <3>1, <4>1, <4>2
    <3> QED BY <1>0, <2>1, <2>3, <3>1
  <2>4. CASE screen'[d] # screen[d]
    <3>1. \/ c = d /\ pc[c] = "ready" /\ screen'[d] = my[c].code
          \/ screen'[d] = 0
          \/ c \in Presenters /\ pc[c] = "notify" /\ d = my[c].tell /\ screen'[d] = my[c].code
      BY <1>0, <1>3, <2>4, LocalWrites DEF Show, SInv, HandlersTypeOK
    <3>2. CASE c = d /\ pc[c] = "ready" /\ screen'[d] = my[c].code
      <4>1. screen'[d] = rooms[my[d].room].code /\ Registered(d) /\ Serving(d)
        BY <3>2 DEF CInv, Preparing, Registered, Serving
      <4> QED BY <2>1, <4>1
    <3>3. CASE c \in Presenters /\ pc[c] = "notify" /\ d = my[c].tell /\ screen'[d] = my[c].code
      <4>1. Involved(c) /\ my[c].peer = d
        BY <3>3 DEF CInv, AInv, GoodbyeToOwnDisplay, Involved
      <4>2. /\ Registered(d) /\ (Serving(d) => my[d].room = my[c].room)
            /\ my[c].code = rooms[my[c].room].code
        BY <3>3, <4>1 DEF CInv, OwnDisplays, GoodbyeCodes
      <4> QED BY <2>1, <3>3, <4>2
    <3>4. CASE screen'[d] = 0
      BY <3>4
    <3> QED BY <3>1, <3>2, <3>3, <3>4
  <2> QED BY <2>3, <2>4
<1>4. ASSUME NEW d \in Conn, Register(d), NEW e \in Displays PROVE Fine(e)'
  <2>1. PICK o, r : Registers(d, o, r)
    BY <1>0, <1>4, RegisterEffect
  <2>2. Heap(o, r) /\ Others(d) /\ d \in Displays
    BY <2>1 DEF Registers, Kept
  <2>3. /\ screen[d] = 0 /\ UNCHANGED <<screen, link>>
        /\ Serving(e) => my[e].room # o
        /\ Registered(e) => Registered(e)'
    BY <2>1, RegisterFinds, InvolvedFrame
  <2>4. CASE e = d
    BY <2>3, <2>4
  <2>5. CASE e # d
    <3>1. UNCHANGED pc[e] /\ UNCHANGED my[e] /\ (Serving(e)' <=> Serving(e))
      BY <1>0, <2>2, <2>5 DEF Others, Serving
    <3>2. \A p \in Presenters : UNCHANGED pc[p] /\ UNCHANGED my[p]
      BY <2>2, Kinds, Connections DEF Others
    <3>3. Serving(e) => rooms'[my[e].room] = rooms[my[e].room]
      BY <1>1, <2>2, <2>3, HeapFacts DEF Heap
    <3> QED BY <1>0, <2>3, <3>1, <3>2, <3>3
  <2> QED BY <2>4, <2>5
<1>5. ASSUME NEW c \in Conn, Unregister(c) \/ Start(c) \/ Release(c), NEW e \in Displays
      PROVE  Fine(e)'
  <2>1. PICK o, r : Unregisters(c, o, r) \/ Starts(c, o, r) \/ Releases(c, o, r)
    BY <1>0, <1>5, UnregisterEffect, StartEffect, ReleaseEffect
  <2>2. Others(c) /\ pc[c] # "refresh" /\ (Serving(c)' /\ c \in Displays => FALSE)
    BY <2>1, Kinds DEF Unregisters, Starts, Releases, Kept, Serving
  <2>3. /\ UNCHANGED <<screen, link>>
        /\ Registered(e) => Registered(e)'
        /\ \A q \in DOMAIN rooms : rooms'[q].code = rooms[q].code
    BY <2>1, InvolvedFrame, CodeChanges
  <2>4. Serving(e)' => Serving(e) /\ UNCHANGED my[e]
    BY <1>0, <2>2 DEF Others, Serving
  <2>5. \A p \in Presenters : pc[p] = "refresh" => UNCHANGED pc[p] /\ UNCHANGED my[p]
    BY <2>2, Connections DEF Others
  <2> QED BY <1>0, <1>1, <2>3, <2>4, <2>5
<1>6. ASSUME NEW p \in Conn, Authorize(p), NEW e \in Displays PROVE Fine(e)'
  <2>1. PICK o, r : Authorizes(p, o, r)
    BY <1>0, <1>6, AuthorizeEffect
  <2>2. UNCHANGED pc[e] /\ UNCHANGED my[e] /\ UNCHANGED <<screen, link>>
    BY <2>1, AuthorizeFrame
  <2>3. (Registered(e)' <=> Registered(e)) /\ (Serving(e)' <=> Serving(e))
    BY <2>2 DEF Registered, Serving
  <2>4. \A q \in Presenters :
          pc[q] = "refresh" => pc'[q] = "refresh" /\ my'[q].peer = my[q].peer
    <3>1. pc[p] # "refresh"
      BY <2>1 DEF Authorizes
    <3> QED BY <2>1, <3>1, AuthorizeFrame
  <2>5. CASE UNCHANGED rooms
    BY <1>0, <2>2, <2>3, <2>4, <2>5
  <2>6. CASE MayPresent(o, my[p].code)
    <3>1. /\ Heap(o, r) /\ p \in Presenters
          /\ pc'[p] = "refresh" /\ my'[p].peer = rooms[o].display
      BY <2>1, <2>6 DEF Authorizes
    <3>2. e # rooms[o].display /\ Serving(e) => my[e].room # o
      BY <2>1, <2>6, AuthorizeFinds
    <3>3. CASE e = rooms[o].display
      BY <1>0, <2>2, <2>3, <3>1, <3>3
    <3>4. CASE e # rooms[o].display
      <4>1. Serving(e) => rooms'[my[e].room] = rooms[my[e].room]
        BY <1>1, <3>1, <3>2, <3>4, HeapFacts DEF Heap
      <4> QED BY <1>0, <2>2, <2>3, <2>4, <4>1
    <3> QED BY <3>3, <3>4
  <2> QED BY <2>1, <2>5, <2>6 DEF Authorizes
<1>7. CASE UNCHANGED vars
  BY <1>7 DEF vars, handlerVars, roomVars, pageVars, CInv, ScreensRight, Registered, Serving
<1> HIDE DEF Fine
<1> QED BY <1>2, <1>3, <1>4, <1>5, <1>6, <1>7, ServerNextCases

\* A presenter with the right code is refused only for the sake of another, but
\* while another is in the right code is on no page.
LEMMA JudgedKept ==
  ASSUME CInv, ServerNext \/ UNCHANGED vars
  PROVE  Judged'
<1> DEFINE Right(p) == \/ rooms[my[p].room].display = None
                       \/ my[p].code # rooms[my[p].room].code
<1>0. /\ SInv /\ drawn \in Nat
      /\ \A p \in Presenters : pc[p] = "judge" =>
           /\ Right(p) /\ my[p].room \in DOMAIN rooms /\ p \in Conn
           /\ my[p].code <= drawn /\ my[p].code \in Nat
  <2>1. my \in [Conn -> Local]
    BY DEF CInv, AInv, SInv, HandlersTypeOK
  <2> QED BY <2>1, Connections
          DEF CInv, AInv, SInv, IInv, TypeOK, Judged, Pointers, StringsDrawn, Local
<1>1. ASSUME NEW c \in Conn, LocalStep(c) PROVE Judged'
  <2>1. Others(c) /\ UNCHANGED rooms /\ (pc'[c] = "judge" => UNCHANGED <<pc, my>>)
    BY <1>0, <1>1, LocalKeeps, LocalEnters DEF SInv, Keeps, roomVars
  <2> QED BY <1>0, <2>1, Connections DEF Judged, Others
<1>2. ASSUME NEW c \in Conn, Others(c), pc'[c] # "judge", NEW o, NEW r,
             Heap(o, r) \/ UNCHANGED rooms,
             \/ r.code = drawn + 1
             \/ /\ o \in DOMAIN rooms /\ r.code = rooms[o].code
                /\ r.display \in {None, rooms[o].display}
      PROVE  Judged'
  <2>1. ASSUME NEW q \in Presenters, pc'[q] = "judge" PROVE Right(q)'
    <3>1. pc[q] = "judge" /\ UNCHANGED my[q]
      BY <1>2, <2>1, Connections DEF Others
    <3>2. CASE UNCHANGED rooms \/ my[q].room # o
      BY <1>0, <1>2, <3>1, <3>2, HeapFacts DEF Heap
    <3>3. CASE Heap(o, r) /\ my[q].room = o
      BY <1>0, <1>2, <3>1, <3>3, HeapFacts
    <3> QED BY <1>2, <3>2, <3>3
  <2> QED BY <2>1 DEF Judged
<1>3. ASSUME NEW c \in Conn, Register(c) \/ Unregister(c) \/ Start(c) \/ Release(c)
      PROVE  Judged'
  <2>1. PICK o, r : \/ Registers(c, o, r) \/ Unregisters(c, o, r)
                    \/ Starts(c, o, r) \/ Releases(c, o, r)
    BY <1>0, <1>3, RegisterEffect, UnregisterEffect, StartEffect, ReleaseEffect
  <2>2. Others(c) /\ pc'[c] # "judge"
    BY <2>1 DEF Registers, Unregisters, Starts, Releases, Kept
  <2>3. CASE UNCHANGED rooms
    BY <1>0, <2>2, <2>3, Connections DEF Judged, Others
  <2>4. CASE ~UNCHANGED rooms
    <3>1. /\ Heap(o, r)
          /\ \/ r.code = drawn + 1
             \/ /\ o \in DOMAIN rooms /\ r.code = rooms[o].code
                /\ r.display \in {None, rooms[o].display}
      BY <2>1, <2>4 DEF Registers, Unregisters, Starts, Releases
    <3> QED BY <1>2, <2>2, <3>1
  <2> QED BY <2>3, <2>4
<1>4. ASSUME NEW p \in Conn, Authorize(p) PROVE Judged'
  <2>1. PICK o, r : Authorizes(p, o, r)
    BY <1>0, <1>4, AuthorizeEffect
  <2>2. Others(p) /\ p \in Presenters /\ o \in DOMAIN rooms /\ my[p].room = o
    BY <2>1 DEF Authorizes, Kept
  <2>3. CASE MayPresent(o, my[p].code)
    <3>1. Heap(o, r) /\ r.code = drawn + 1 /\ pc'[p] = "refresh"
      BY <2>1, <2>3 DEF Authorizes
    <3> QED BY <1>2, <2>2, <3>1
  <2>4. CASE ~MayPresent(o, my[p].code)
    <3>1. UNCHANGED rooms /\ my'[p] = my[p] /\ pc[p] = "authorize"
      BY <2>1, <2>4 DEF Authorizes
    <3>2. ASSUME rooms[o].display # None, my[p].code = rooms[o].code PROVE FALSE
      <4>1. rooms[o].presenter # None
        BY <2>4, <3>2 DEF MayPresent
      <4>2. /\ Admitted(rooms[o].presenter) /\ my[rooms[o].presenter].peer = rooms[o].display
            /\ rooms[o].presenter \in Presenters
        BY <2>2, <4>1 DEF CInv, AInv, SInv, NoOrphans, RoomsBound, Admitted
      <4>3. rooms[o].code \in seen
        BY <2>2, <3>1, <3>2 DEF CInv, AInv, SInv, StringsDrawn, CodesKnown
      <4> QED BY <2>2, <3>2, <4>2, <4>3 DEF CInv, CodesHidden, Untouched, Involved
    <3>3. Right(p)'
      BY <2>2, <3>1, <3>2
    <3> QED BY <1>0, <2>2, <3>1, <3>3, Connections DEF Judged, Others
  <2> QED BY <2>3, <2>4
<1>5. CASE UNCHANGED vars
  BY <1>0, <1>5 DEF vars, handlerVars, roomVars, Judged
<1> QED BY <1>1, <1>3, <1>4, <1>5, ServerNextCases

-----------------------------------------------------------------------------
(* The invariant, and what follows from it.                               *)

LEMMA InitCInv == OneDisplayPerRoom /\ ServerInit => CInv
<1> SUFFICES ASSUME OneDisplayPerRoom, ServerInit PROVE CInv
  OBVIOUS
<1>1. \A c \in Conn : pc[c] = "idle"
  BY DEF ServerInit
<1>2. /\ \A p \in Presenters : ~Involved(p) /\ pc[p] = "idle"
      /\ \A d \in Displays : ~Serving(d) /\ pc[d] = "idle" /\ screen[d] = 0
  BY <1>1, Connections DEF Involved, Admitted, Serving, ServerInit
<1>3. DOMAIN rooms = {}
  BY DEF ServerInit, Init
<1> QED BY <1>2, <1>3, InitAInv
        DEF CInv, CodesKnown, DisplaysStay, OwnDisplays, PeersApart, GoodbyeCodes, Preparing,
            CodesHidden, ScreensRight, Judged

LEMMA NextCInv == CInv /\ [ServerNext]_vars => CInv'
<1> SUFFICES ASSUME CInv, ServerNext \/ UNCHANGED vars PROVE CInv'
  OBVIOUS
<1>1. OneDisplayPerRoom' /\ AInv'
  BY NextAInv DEF CInv, OneDisplayPerRoom
<1>2. CodesKnown' /\ DisplaysStay' /\ OwnDisplays' /\ PeersApart'
  BY CodesKnownKept, DisplaysStayKept, OwnDisplaysKept
<1>3. GoodbyeCodes' /\ Preparing' /\ CodesHidden' /\ ScreensRight' /\ Judged'
  BY GoodbyeCodesKept, PreparingKept, CodesHiddenKept, ScreensRightKept, JudgedKept
<1> QED BY <1>1, <1>2, <1>3 DEF CInv

LEMMA SingleDisplayInvariant == OneDisplayPerRoom /\ ServerSpec => []CInv
BY InitCInv, NextCInv, PTL DEF ServerSpec

\* With one display in the room, no late refreshCode, newSession or presenterClosed
\* leaves a code on its page that is not the room's (core/signal.go, the writes of
\* handlePresenter that no lock orders with the store's calls).
THEOREM ShownCodesWork == OneDisplayPerRoom /\ ServerSpec => []ShownCodeWorks
<1>1. ASSUME CInv PROVE ShownCodeWorks
  <2> SUFFICES ASSUME NEW d \in Displays, Quiet(d), screen[d] # 0
               PROVE  screen[d] = Current(RoomOf[d]).code
    BY DEF ShownCodeWorks
  <2>1. /\ Serving(d) /\ link[d] = "open"
        /\ \A p \in Presenters : pc[p] = "refresh" => my[p].peer # d
    BY DEF Quiet, Settled, Serving
  <2>2. screen[d] = rooms[my[d].room].code
    BY <1>1, <2>1 DEF CInv, ScreensRight
  <2>3. /\ Present(RoomOf[d]) /\ rooms[store[RoomOf[d]]].display = d
        /\ store[RoomOf[d]] \in DOMAIN rooms /\ d # None
    BY <1>1, Kinds, Connections, CurrentType, NoneIsNoConn
       DEF Quiet, IsDisplay, CInv, AInv, SInv, IInv
  <2>4. my[d].room = store[RoomOf[d]]
    BY <1>1, <2>3 DEF CInv, AInv, SInv, NoOrphans
  <2> QED BY <2>2, <2>3, <2>4 DEF Current
<1> QED BY <1>1, SingleDisplayInvariant, PTL

\* With one display in the room, presenterClosed has been written before the next
\* presenter is admitted (core/signal.go, the deferred part of handlePresenter): the
\* code that admits it is only shown by that very message.
THEOREM GoodbyesComeFirst == OneDisplayPerRoom /\ ServerSpec => []GoodbyeBeforeNext
<1>1. ASSUME CInv PROVE GoodbyeBeforeNext
  <2> SUFFICES ASSUME NEW p \in Presenters, NEW q \in Presenters,
                      pc[p] = "notify", Admitted(q)
               PROVE  my[p].tell # my[q].peer
    BY DEF GoodbyeBeforeNext
  <2>1. Involved(p) /\ Involved(q) /\ p # q
    BY DEF Involved, Admitted
  <2>2. my[p].tell = my[p].peer
    BY <1>1 DEF CInv, AInv, GoodbyeToOwnDisplay
  <2> QED BY <1>1, <2>1, <2>2 DEF CInv, PeersApart
<1> QED BY <1>1, SingleDisplayInvariant, PTL

\* With one display in the room, a presenter whose code the Room would now accept is
\* not charged with a failure while the display is there, although the Room is looked
\* at twice (core/signal.go, after AuthorizePresenter refused).
THEOREM RightCodesAreExcused == OneDisplayPerRoom /\ ServerSpec => RightCodeExcused
<1>1. ASSUME CInv, NEW p \in Presenters, Judge(p), Charged(p), RightCode(p)
      PROVE  rooms[my[p].room].display = None
  BY <1>1 DEF CInv, Judged, Judge, Move, RightCode
<1>2. CInv =>
        [\A p \in Presenters :
           Judge(p) /\ Charged(p) /\ RightCode(p) => rooms[my[p].room].display = None]_vars
  BY <1>1
<1> QED BY <1>2, SingleDisplayInvariant, PTL DEF RightCodeExcused

=============================================================================
