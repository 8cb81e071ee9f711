--------------------------- MODULE SignalingProofs ---------------------------
(***************************************************************************)
(* Proofs about Signaling, for any set of displays, presenters and rooms   *)
(* and any capacity of App.preAuth: its type invariant, the accounting of  *)
(* the slots, that no Room is left with somebody nobody will take out of   *)
(* it, that a session joins a presenter to the display it was admitted to, *)
(* and that the handlers use RoomStore as its specification allows, whose  *)
(* theorems therefore hold of the whole server.                            *)
(***************************************************************************)
EXTENDS Signaling, RoomStoreProofs, FiniteSetTheorems

\* Whatever string is kept in a Room or by a handler has been drawn.
StringsDrawn ==
  /\ \A o \in DOMAIN rooms : rooms[o].code \in 1..drawn
  /\ \A c \in Conn : /\ my[c].code <= drawn /\ my[c].session <= drawn
                     /\ my[c].ticket <= drawn

\* The Room pointers the handlers follow are not nil, and the connections they
\* write to belong to displays: a handler with a nil room or peer would panic.
Pointers ==
  /\ \A d \in Displays : Serving(d) => my[d].room \in DOMAIN rooms
  /\ \A p \in Presenters :
       /\ pc[p] \in {"authorize", "judge"} \/ Admitted(p) => my[p].room \in DOMAIN rooms
       /\ Admitted(p) => my[p].peer \in Displays
       /\ pc[p] = "notify" => my[p].tell \in Displays
       /\ pc[p] = "announce" => my[p].session # 0

\* A Room's display is one opened for it, and its presenter was admitted to the
\* display it has now.
RoomsBound ==
  \A o \in DOMAIN rooms :
    LET r == rooms[o] IN
      /\ r.display # None => RoomOf[r.display] = r.id
      /\ r.presenter # None => my[r.presenter].peer = r.display

\* The connections whose authentication message is awaited.
Reading == {c \in Conn : pc[c] = "reading"}

\* The inductive invariant, with the invariant of RoomStoreProofs.
SInv == /\ IInv /\ HandlersTypeOK /\ SlotsAccounted /\ IsFiniteSet(Reading)
        /\ StringsDrawn /\ Pointers /\ NoOrphans /\ RoomsBound

\* The steps of a handler that do not call the store.
LocalStep(c) ==
  \/ Dial(c) \/ Break(c) \/ AcquireSlot(c) \/ TurnAway(c) \/ Reject(c) \/ Close(c)
  \/ Evict(c) \/ SendIce(c) \/ SendReady(c) \/ FindSession(c) \/ RelayToCaller(c)
  \/ DisplayReadFails(c) \/ PresenterReadFails(c)
  \/ Submit(c) \/ Find(c) \/ Judge(c) \/ SendRefresh(c) \/ SendAccepted(c)
  \/ Announce(c) \/ Confirm(c) \/ Notify(c)

\* All handlers but c's stay where they are.
Others(c) == \A b \in Conn \ {c} : pc'[b] = pc[b] /\ my'[b] = my[b]

\* What a local step keeps: it neither admits nor registers anybody, nor does it
\* turn out anybody it should not; who is in has the same Room and the same peer.
Keeps(c) ==
  /\ UNCHANGED roomVars
  /\ Others(c)
  /\ Serving(c)' <=> Serving(c)
  /\ Admitted(c)' <=> Admitted(c)
  /\ Serving(c) => my'[c].room = my[c].room
  /\ Admitted(c) => my'[c].room = my[c].room /\ my'[c].peer = my[c].peer
  /\ my'[c].ticket = my[c].ticket

\* A step is a local step, one of the five calls of the store, or none.
LEMMA ServerNextCases ==
  ASSUME ServerNext
  PROVE  \/ \E c \in Conn : \/ LocalStep(c) \/ Register(c) \/ Unregister(c)
                            \/ Authorize(c) \/ Start(c) \/ Release(c)
         \/ UNCHANGED vars
BY DEF ServerNext, Progress, Receive, ReadFails, LocalStep, Terminated

\* Local steps keep what Keeps says, one handler stage after the other.
LEMMA LocalKeeps ==
  ASSUME HandlersTypeOK, NEW c \in Conn, LocalStep(c)
  PROVE  Keeps(c)
<1> USE DEF Keeps, Others, Serving, Admitted, HandlersTypeOK, Go, PresenterStage, DisplayStage
<1>0. c \in Displays \/ c \in Presenters
  BY Connections
<1>1. CASE Dial(c) \/ Break(c) \/ AcquireSlot(c) \/ TurnAway(c) \/ Reject(c)
  BY <1>1 DEF Dial, Break, AcquireSlot, TurnAway, Reject, Move, ReturnSlot, roomVars
<1>2. CASE Close(c)
  BY <1>2, <1>0 DEF Close, Local, NoLocal
<1>3. CASE Evict(c)
  BY <1>3, <1>0 DEF Evict, Local
<1>4. CASE SendIce(c)
  BY <1>4, <1>0 DEF SendIce, Move, Local
<1>5. CASE FindSession(c) \/ RelayToCaller(c)
  BY <1>5, <1>0, Connections DEF FindSession, RelayToCaller, Local
<1>6. CASE \/ DisplayReadFails(c) \/ PresenterReadFails(c) \/ Judge(c)
           \/ SendAccepted(c) \/ Confirm(c)
  BY <1>6, <1>0, Connections
     DEF DisplayReadFails, PresenterReadFails, Judge, SendAccepted, Confirm, Reply, Move
<1>7. CASE SendReady(c) \/ SendRefresh(c) \/ Announce(c) \/ Notify(c)
  BY <1>7, <1>0, Connections DEF SendReady, SendRefresh, Announce, Notify, Write
<1>8. CASE Submit(c) \/ Find(c)
  BY <1>8, <1>0, Connections DEF Submit, Find, Local
<1> QED BY <1>1, <1>2, <1>3, <1>4, <1>5, <1>6, <1>7, <1>8 DEF LocalStep

\* A connection is a display's or a presenter's, and belongs to a known room.
LEMMA Kinds ==
  ASSUME NEW c \in Conn
  PROVE  /\ c \in Displays <=> c \notin Presenters
         /\ RoomOf[c] \in RoomID
BY Connections, RoomsKnown

\* A step of c that also leaves the connections and the pages alone.
Kept(c) == Others(c) /\ UNCHANGED <<link, pageVars>>

\* What a handler's call of the store does to the heap, Room by Room: the Room
\* at o, which may be a new one, becomes r.
Heap(o, r) ==
  /\ rooms' \in Seq(Room) /\ DOMAIN rooms' = DOMAIN rooms \cup {o}
  /\ Len(rooms) <= Len(rooms')
  /\ rooms'[o] = r
  /\ \A q \in DOMAIN rooms \ {o} : rooms'[q] = rooms[q]

\* The two ways the heap changes: a Room is replaced, ...
LEMMA HeapSet ==
  ASSUME TypeOK, NEW o \in DOMAIN rooms, NEW r \in Room, rooms' = [rooms EXCEPT ![o] = r]
  PROVE  Heap(o, r) /\ o \in Nat \ {0}
<1>1. rooms' \in Seq(Room) /\ Len(rooms') = Len(rooms) /\ DOMAIN rooms' = DOMAIN rooms
  BY HeapUpdate DEF TypeOK
<1>2. rooms'[o] = r /\ \A q \in DOMAIN rooms \ {o} : rooms'[q] = rooms[q]
  BY DEF TypeOK
<1>3. Len(rooms) \in Nat /\ o \in Nat \ {0}
  BY DEF TypeOK
<1>4. DOMAIN rooms = DOMAIN rooms \cup {o}
  OBVIOUS
<1> QED BY <1>1, <1>2, <1>3, <1>4 DEF Heap

\* ... or a new one is put on it.
LEMMA HeapGrows ==
  ASSUME TypeOK, NEW r \in Room, rooms' = Append(rooms, r)
  PROVE  Heap(Len(rooms) + 1, r) /\ Len(rooms) + 1 \in Nat \ {0}
<1>1. Len(rooms) \in Nat
  BY DEF TypeOK
<1> QED BY <1>1, HeapAppend DEF TypeOK, Heap

\* One handler's locals become l.
LEMMA LocalUpdate ==
  ASSUME my \in [Conn -> Local], NEW c \in Conn, NEW l \in Local, my' = [my EXCEPT ![c] = l]
  PROVE  /\ my' \in [Conn -> Local] /\ my'[c] = l
         /\ \A b \in Conn \ {c} : my'[b] = my[b]
OBVIOUS

-----------------------------------------------------------------------------
(* What the calls of the store come to, each with the handler around it.  *)

\* The Room at o becomes r, or no Room changes: in SetDisplay, in RemoveDisplay,
\* in AuthorizePresenter, in StartSession, in ReleasePresenter.
Registers(d, o, r) ==
  LET id == RoomOf[d] IN
  /\ d \in Displays /\ pc[d] = "reading" /\ Kept(d)
  /\ pc' \in [Conn -> Stage]
  /\ pc'[d] = IF Replaced(id) = {} THEN "ice" ELSE "evict"
  /\ my' \in [Conn -> Local]
  /\ my'[d].room = o /\ my'[d].closing = Replaced(id)
  /\ my'[d].code = my[d].code /\ my'[d].session = my[d].session
  /\ my'[d].ticket = my[d].ticket
  /\ slots' = slots - 1 /\ drawn' = drawn + 1
  /\ Heap(o, r) /\ o # 0
  /\ r.id = id /\ r.display = d /\ r.presenter = None /\ r.sessions = {}
  /\ r.code = drawn + 1
  /\ o \in DOMAIN rooms =>
       /\ rooms[o].id = id
       /\ Replaced(id) = ({rooms[o].display} \ {None}) \cup PresenterConnections(rooms[o])
  /\ o \notin DOMAIN rooms => Replaced(id) = {}

Unregisters(d, o, r) ==
  LET id == RoomOf[d] IN
  /\ d \in Displays /\ pc[d] = "remove" /\ Kept(d)
  /\ pc' \in [Conn -> Stage]
  /\ pc'[d] = IF Orphaned(id, d) = {} THEN "close" ELSE "unwind"
  /\ my' \in [Conn -> Local]
  /\ my'[d].room = my[d].room /\ my'[d].closing = Orphaned(id, d)
  /\ my'[d].code = my[d].code /\ my'[d].session = my[d].session
  /\ my'[d].ticket = my[d].ticket
  /\ slots' = slots /\ drawn' = drawn
  /\ \/ /\ IsDisplay(id, d)
        /\ o \in DOMAIN rooms /\ Heap(o, r)
        /\ rooms[o].display = d /\ rooms[o].id = id
        /\ r.id = id /\ r.display = None /\ r.presenter = None /\ r.sessions = {}
        /\ r.code = rooms[o].code
        /\ Orphaned(id, d) = PresenterConnections(rooms[o])
     \/ /\ UNCHANGED rooms /\ Orphaned(id, d) = {}
        /\ \A q \in DOMAIN rooms : rooms[q].display # d

Authorizes(p, o, r) ==
  /\ p \in Presenters /\ pc[p] = "authorize" /\ Kept(p)
  /\ o \in DOMAIN rooms /\ my[p].room = o
  /\ pc' \in [Conn -> Stage] /\ my' \in [Conn -> Local]
  /\ my'[p].room = o /\ my'[p].session = my[p].session
  /\ slots' = slots
  /\ \/ /\ MayPresent(o, my[p].code)
        /\ Heap(o, r) /\ drawn' = drawn + 1
        /\ r.id = rooms[o].id /\ r.display = rooms[o].display
        /\ r.presenter = p /\ r.sessions = rooms[o].sessions /\ r.code = drawn + 1
        /\ pc'[p] = "refresh" /\ my'[p].peer = rooms[o].display
        /\ my'[p].code = drawn + 1 /\ my'[p].ticket = my[p].code
     \/ /\ ~MayPresent(o, my[p].code)
        /\ UNCHANGED <<rooms, drawn>> /\ pc'[p] = "judge" /\ my'[p] = my[p]

Starts(p, o, r) ==
  /\ p \in Presenters /\ pc[p] = "await" /\ Kept(p)
  /\ o \in DOMAIN rooms /\ my[p].room = o
  /\ pc' \in [Conn -> Stage] /\ my' \in [Conn -> Local]
  /\ my'[p].room = o /\ my'[p].peer = my[p].peer
  /\ my'[p].code = my[p].code /\ my'[p].ticket = my[p].ticket
  /\ slots' = slots
  /\ \/ /\ MayStart(o, p, my[p].generation)
        /\ Heap(o, r) /\ drawn' = drawn + 1
        /\ r.id = rooms[o].id /\ r.display = rooms[o].display
        /\ r.presenter = p /\ r.code = rooms[o].code
        /\ pc'[p] = "announce" /\ my'[p].session = drawn + 1
     \/ /\ ~MayStart(o, p, my[p].generation)
        /\ UNCHANGED <<rooms, drawn>> /\ pc'[p] = "release" /\ my'[p] = my[p]

Releases(p, o, r) ==
  /\ p \in Presenters /\ pc[p] = "release" /\ Kept(p)
  /\ o \in DOMAIN rooms /\ my[p].room = o
  /\ pc' \in [Conn -> Stage] /\ my' \in [Conn -> Local]
  /\ my'[p].room = o /\ my'[p].peer = my[p].peer /\ my'[p].session = my[p].session
  /\ my'[p].code = rooms[o].code /\ my'[p].ticket = my[p].ticket
  /\ slots' = slots /\ drawn' = drawn
  /\ \/ /\ rooms[o].presenter = p /\ rooms[o].display # None
        /\ Heap(o, r)
        /\ r.id = rooms[o].id /\ r.display = rooms[o].display
        /\ r.presenter = None /\ r.sessions = {} /\ r.code = rooms[o].code
        /\ pc'[p] = "notify" /\ my'[p].tell = rooms[o].display
     \/ /\ rooms[o].presenter # p
        /\ UNCHANGED rooms /\ pc'[p] = "close"

\* What follows from Heap about the Rooms by their addresses.
LEMMA HeapFacts ==
  ASSUME NEW o, NEW r, Heap(o, r)
  PROVE  /\ o \in DOMAIN rooms' /\ Len(rooms) <= Len(rooms')
         /\ DOMAIN rooms \subseteq DOMAIN rooms'
         /\ rooms'[o] = r
         /\ \A q \in DOMAIN rooms' : q # o => q \in DOMAIN rooms /\ rooms'[q] = rooms[q]
BY DEF Heap

\* SetDisplay by handleDisplay (core/signal.go, core/room.go).
LEMMA RegisterEffect ==
  ASSUME SInv, NEW d \in Conn, Register(d)
  PROVE  \E o, r : Registers(d, o, r)
<1> DEFINE id == RoomOf[d]
           o == Object(id)
           r == WithDisplay(id, d)
<1> SUFFICES Registers(d, o, r) OBVIOUS
<1>0. d \in Displays /\ id \in RoomID /\ TypeOK /\ DeletedRoomsInert /\ HandlersTypeOK
  BY Kinds DEF Register, SInv, IInv
<1>1. /\ r \in Room /\ r.display = d /\ r.presenter = None /\ r.sessions = {}
      /\ r.id = Current(id).id /\ r.code = drawn + 1
  BY <1>0, WithDisplayType
<1>2. Current(id) \in Room /\ (Present(id) => store[id] \in DOMAIN rooms)
  BY <1>0, CurrentType
<1>3. Current(id).id = id
  BY <1>0 DEF Current, NewRoom, DeletedRoomsInert
<1>4. SetDisplay(id, d) /\ ReturnSlot
  BY DEF Register
<1>5. Heap(o, r) /\ o \in Nat \ {0}
  <2>1. CASE Present(id)
    <3>1. o = store[id] /\ o \in DOMAIN rooms
      BY <1>2, <2>1 DEF Object
    <3>2. rooms' = [rooms EXCEPT ![o] = r]
      BY <1>4, <2>1, <3>1 DEF SetDisplay
    <3> QED
      BY <3>1, <3>2, <1>0, <1>1, HeapSet
  <2>2. CASE ~Present(id)
    <3>1. o = Len(rooms) + 1
      BY <2>2 DEF Object
    <3>2. rooms' = Append(rooms, r)
      BY <1>4, <2>2 DEF SetDisplay
    <3> QED
      BY <3>1, <3>2, <1>0, <1>1, HeapGrows
  <2> QED BY <2>1, <2>2
<1>6. Replaced(id) \subseteq Conn
  BY <1>2 DEF Replaced, PresenterConnections, Room, Session
<1>7. /\ o \in DOMAIN rooms => 
              /\ rooms[o].id = id
              /\ Replaced(id) = ({rooms[o].display} \ {None})
                                        \cup PresenterConnections(rooms[o])
      /\ o \notin DOMAIN rooms => Replaced(id) = {}
  <2>1. CASE Present(id)
    BY <1>2, <1>3, <2>1 DEF Object, Current, Replaced
  <2>2. CASE ~Present(id)
    BY <2>2, <1>0 DEF Object, Current, NewRoom, Replaced, PresenterConnections, TypeOK
  <2> QED BY <2>1, <2>2
<1>8. /\ my' \in [Conn -> Local]
      /\ my'[d].room = o /\ my'[d].closing = Replaced(id)
      /\ my'[d].code = my[d].code /\ my'[d].session = my[d].session
      /\ my'[d].ticket = my[d].ticket
      /\ \A b \in Conn \ {d} : my'[b] = my[b]
  <2> DEFINE l == [my[d] EXCEPT !.room = o, !.closing = Replaced(id)]
  <2>1. my \in [Conn -> Local] /\ my[d] \in Local
    BY <1>0 DEF HandlersTypeOK
  <2>2. my' = [my EXCEPT ![d] = l]
    BY <2>1 DEF Register
  <2>3. /\ l \in Local /\ l.room = o /\ l.closing = Replaced(id)
        /\ l.code = my[d].code /\ l.session = my[d].session /\ l.ticket = my[d].ticket
    BY <1>5, <1>6, <2>1 DEF Local
  <2> QED BY <2>1, <2>2, <2>3, LocalUpdate
<1>9. /\ pc[d] = "reading" /\ UNCHANGED <<link, pageVars>>
      /\ pc' = [pc EXCEPT ![d] = IF Replaced(id) = {} THEN "ice" ELSE "evict"]
  BY DEF Register, Go
<1>10. /\ pc' \in [Conn -> Stage]
       /\ pc'[d] = IF Replaced(id) = {} THEN "ice" ELSE "evict"
       /\ \A b \in Conn \ {d} : pc'[b] = pc[b]
  BY <1>0, <1>9 DEF HandlersTypeOK, Stage, DisplayStage
<1>11. slots' = slots - 1 /\ drawn' = drawn + 1
  BY <1>4 DEF SetDisplay, ReturnSlot
<1> QED
  BY <1>0, <1>1, <1>3, <1>5, <1>7, <1>8, <1>9, <1>10, <1>11 DEF Registers, Kept, Others

\* RemoveDisplay by handleDisplay: of the Room the display is registered in, if
\* it still is.  That Room is its own, because RoomsBound holds.
LEMMA UnregisterEffect ==
  ASSUME SInv, NEW d \in Conn, Unregister(d)
  PROVE  \E o, r : Unregisters(d, o, r)
<1> DEFINE id == RoomOf[d]
           o  == store[id]
           r  == WithoutDisplay(rooms[o])
           l  == [my[d] EXCEPT !.closing = Orphaned(id, d)]
<1> SUFFICES Unregisters(d, o, r) OBVIOUS
<1>0. /\ id \in RoomID /\ TypeOK /\ DeletedRoomsInert /\ HandlersTypeOK /\ RoomsBound
  BY Kinds DEF SInv, IInv
<1>1. pc[d] = "remove" /\ d \in Displays
  BY <1>0, Kinds DEF Unregister, HandlersTypeOK, DisplayStage
<1>2. IsDisplay(id, d) => o \in DOMAIN rooms /\ o # 0
  BY <1>0, CurrentType DEF IsDisplay, Present
<1>3. Orphaned(id, d) \subseteq Conn
  <2>1. CASE IsDisplay(id, d)
    BY <1>0, <2>1, CurrentType DEF Orphaned, PresenterConnections, Room, Session
  <2>2. CASE ~IsDisplay(id, d)
    BY <2>2 DEF Orphaned
  <2> QED BY <2>1, <2>2
<1>4. /\ my' \in [Conn -> Local] /\ my'[d] = l
      /\ \A b \in Conn \ {d} : my'[b] = my[b]
      /\ l.room = my[d].room /\ l.closing = Orphaned(id, d)
      /\ l.code = my[d].code /\ l.session = my[d].session /\ l.ticket = my[d].ticket
  <2>1. my \in [Conn -> Local] /\ my[d] \in Local
    BY <1>0 DEF HandlersTypeOK
  <2>2. my' = [my EXCEPT ![d] = l]
    BY <2>1 DEF Unregister
  <2>3. /\ l \in Local /\ l.room = my[d].room /\ l.closing = Orphaned(id, d)
        /\ l.code = my[d].code /\ l.session = my[d].session /\ l.ticket = my[d].ticket
    BY <1>3, <2>1 DEF Local
  <2> QED BY <2>1, <2>2, <2>3, LocalUpdate
<1>5. /\ UNCHANGED <<link, slots, pageVars>>
      /\ pc' = [pc EXCEPT ![d] = IF Orphaned(id, d) = {} THEN "close" ELSE "unwind"]
  BY DEF Unregister, Go
<1>6. /\ pc' \in [Conn -> Stage]
      /\ pc'[d] = IF Orphaned(id, d) = {} THEN "close" ELSE "unwind"
      /\ \A b \in Conn \ {d} : pc'[b] = pc[b]
  BY <1>0, <1>5 DEF HandlersTypeOK, Stage, DisplayStage
<1>7. RemoveDisplay(id, d)
  BY DEF Unregister
<1>8. CASE IsDisplay(id, d)
  <2>1. /\ rooms[o] \in Room /\ rooms[o].display = d /\ rooms[o].id = id
        /\ Current(id) = rooms[o]
    BY <1>0, <1>2, <1>8 DEF TypeOK, IsDisplay, DeletedRoomsInert, Current
  <2>2. /\ r \in Room /\ r.id = id /\ r.display = None /\ r.presenter = None
        /\ r.sessions = {} /\ r.code = rooms[o].code
    BY <2>1, VacatedType, VacatedEmpty DEF WithoutDisplay, Room
  <2>3. rooms' = [rooms EXCEPT ![o] = r] /\ drawn' = drawn
    BY <1>7, <1>8 DEF RemoveDisplay
  <2>4. Heap(o, r)
    BY <1>0, <1>2, <1>8, <2>2, <2>3, HeapSet
  <2>5. Orphaned(id, d) = PresenterConnections(rooms[o])
    BY <1>8, <2>1 DEF Orphaned
  <2> HIDE DEF r, l
  <2> QED BY <1>1, <1>2, <1>4, <1>5, <1>6, <1>8, <2>1, <2>2, <2>3, <2>4, <2>5
          DEF Unregisters, Kept, Others, r
<1>9. CASE ~IsDisplay(id, d)
  <2>1. UNCHANGED <<rooms, drawn>> /\ Orphaned(id, d) = {}
    BY <1>7, <1>9 DEF RemoveDisplay, Orphaned, roomVars
  <2>2. ASSUME NEW q \in DOMAIN rooms, rooms[q].display = d PROVE FALSE
    <3>1. d # None
      BY NoneIsNoConn
    <3>2. rooms[q].id = id /\ store[id] = q /\ q # 0
      BY <1>0, <2>2, <3>1, HeapIds DEF RoomsBound, DeletedRoomsInert
    <3> QED BY <1>9, <2>2, <3>2 DEF IsDisplay, Present
  <2> QED BY <1>1, <1>4, <1>5, <1>6, <2>1, <2>2 DEF Unregisters, Kept, Others
<1> QED BY <1>8, <1>9

\* AuthorizePresenter by handlePresenter, granted or not.
LEMMA AuthorizeEffect ==
  ASSUME SInv, NEW p \in Conn, Authorize(p)
  PROVE  \E o, r : Authorizes(p, o, r)
<1> DEFINE o == my[p].room
           r == WithPresenter(rooms[o], p)
           l == [my[p] EXCEPT !.peer = rooms[o].display,
                              !.generation = rooms[o].generation,
                              !.code = drawn + 1, !.ticket = my[p].code]
<1> SUFFICES Authorizes(p, o, r) OBVIOUS
<1>0. TypeOK /\ HandlersTypeOK /\ Pointers
  BY DEF SInv, IInv
<1>1. pc[p] = "authorize" /\ p \in Presenters
  BY <1>0, Kinds DEF Authorize, HandlersTypeOK, PresenterStage
<1>2. o \in DOMAIN rooms /\ rooms[o] \in Room /\ drawn + 1 \in Nat
  BY <1>0, <1>1 DEF Pointers, TypeOK
<1>3. my \in [Conn -> Local] /\ my[p] \in Local /\ pc \in [Conn -> Stage]
  BY <1>0 DEF HandlersTypeOK
<1>4. UNCHANGED <<link, slots, pageVars>>
  BY DEF Authorize
<1>5. CASE MayPresent(o, my[p].code)
  <2>1. /\ r \in Room /\ r.id = rooms[o].id /\ r.display = rooms[o].display
        /\ r.presenter = p /\ r.sessions = rooms[o].sessions /\ r.code = drawn + 1
    BY <1>2 DEF WithPresenter, Room
  <2>2. rooms' = [rooms EXCEPT ![o] = r] /\ drawn' = drawn + 1
    BY <1>5 DEF Authorize, AuthorizePresenter
  <2>3. Heap(o, r)
    BY <1>0, <1>2, <2>1, <2>2, HeapSet
  <2>4. /\ l \in Local /\ l.room = o /\ l.session = my[p].session
        /\ l.peer = rooms[o].display /\ l.code = drawn + 1 /\ l.ticket = my[p].code
    BY <1>2, <1>3 DEF Local, Room
  <2>5. my' = [my EXCEPT ![p] = l]
    BY <1>3, <1>5 DEF Authorize
  <2>6. pc' = [pc EXCEPT ![p] = "refresh"]
    BY <1>5 DEF Authorize, Go
  <2>7. /\ my' \in [Conn -> Local] /\ my'[p] = l
        /\ \A b \in Conn \ {p} : my'[b] = my[b]
    BY <1>3, <2>4, <2>5, LocalUpdate
  <2>8. /\ pc' \in [Conn -> Stage] /\ pc'[p] = "refresh"
        /\ \A b \in Conn \ {p} : pc'[b] = pc[b]
    BY <1>3, <2>6 DEF Stage, PresenterStage
  <2> HIDE DEF r, l
  <2> QED BY <1>1, <1>2, <1>4, <1>5, <2>1, <2>2, <2>3, <2>4, <2>7, <2>8
          DEF Authorizes, Kept, Others, r
<1>6. CASE ~MayPresent(o, my[p].code)
  <2>1. UNCHANGED <<rooms, drawn, my>>
    BY <1>6 DEF Authorize, AuthorizePresenter, roomVars
  <2>2. pc' = [pc EXCEPT ![p] = "judge"]
    BY <1>6 DEF Authorize, Go
  <2>3. /\ pc' \in [Conn -> Stage] /\ pc'[p] = "judge"
        /\ \A b \in Conn \ {p} : pc'[b] = pc[b]
    BY <1>3, <2>2 DEF Stage, PresenterStage
  <2> QED BY <1>1, <1>2, <1>3, <1>4, <1>6, <2>1, <2>3 DEF Authorizes, Kept, Others
<1> QED BY <1>5, <1>6

\* StartSession by handlePresenter, granted or not.
LEMMA StartEffect ==
  ASSUME SInv, NEW p \in Conn, Start(p)
  PROVE  \E o, r : Starts(p, o, r)
<1> DEFINE o == my[p].room
           s == [id |-> drawn + 1, caller |-> p, callee |-> rooms[o].display]
           r == [rooms[o] EXCEPT !.sessions = {s}]
           l == [my[p] EXCEPT !.session = drawn + 1]
<1> SUFFICES Starts(p, o, r) OBVIOUS
<1>0. TypeOK /\ HandlersTypeOK /\ Pointers
  BY DEF SInv, IInv
<1>1. pc[p] = "await" /\ p \in Presenters
  BY <1>0, Kinds DEF Start, HandlersTypeOK, PresenterStage
<1>2. o \in DOMAIN rooms /\ rooms[o] \in Room /\ drawn + 1 \in Nat
  BY <1>0, <1>1 DEF Pointers, Admitted, TypeOK
<1>3. my \in [Conn -> Local] /\ my[p] \in Local /\ pc \in [Conn -> Stage]
  BY <1>0 DEF HandlersTypeOK
<1>4. UNCHANGED <<link, slots, pageVars>>
  BY DEF Start
<1>5. CASE MayStart(o, p, my[p].generation)
  <2>1. s \in Session
    BY <1>2, <1>5 DEF Session, Room, MayStart
  <2>2. /\ r \in Room /\ r.id = rooms[o].id /\ r.display = rooms[o].display
        /\ r.presenter = p /\ r.sessions = {s} /\ r.code = rooms[o].code
    BY <1>2, <1>5, <2>1 DEF Room, MayStart
  <2>3. rooms' = [rooms EXCEPT ![o] = r] /\ drawn' = drawn + 1
    BY <1>0, <1>2, <1>5 DEF Start, StartSession, TypeOK
  <2>4. Heap(o, r)
    BY <1>0, <1>2, <2>2, <2>3, HeapSet
  <2>5. /\ l \in Local /\ l.room = o /\ l.session = drawn + 1
        /\ l.peer = my[p].peer /\ l.code = my[p].code /\ l.ticket = my[p].ticket
    BY <1>2, <1>3 DEF Local
  <2>6. my' = [my EXCEPT ![p] = l] /\ pc' = [pc EXCEPT ![p] = "announce"]
    BY <1>3, <1>5 DEF Start, Go
  <2>7. /\ my' \in [Conn -> Local] /\ my'[p] = l
        /\ \A b \in Conn \ {p} : my'[b] = my[b]
    BY <1>3, <2>5, <2>6, LocalUpdate
  <2>8. /\ pc' \in [Conn -> Stage] /\ pc'[p] = "announce"
        /\ \A b \in Conn \ {p} : pc'[b] = pc[b]
    BY <1>3, <2>6 DEF Stage, PresenterStage
  <2> HIDE DEF r, l, s
  <2> QED BY <1>1, <1>2, <1>4, <1>5, <2>2, <2>3, <2>4, <2>5, <2>7, <2>8
          DEF Starts, Kept, Others, r, s
<1>6. CASE ~MayStart(o, p, my[p].generation)
  <2>1. UNCHANGED <<rooms, drawn, my>>
    BY <1>6 DEF Start, StartSession, roomVars
  <2>2. pc' = [pc EXCEPT ![p] = "release"]
    BY <1>6 DEF Start, Go
  <2>3. /\ pc' \in [Conn -> Stage] /\ pc'[p] = "release"
        /\ \A b \in Conn \ {p} : pc'[b] = pc[b]
    BY <1>3, <2>2 DEF Stage, PresenterStage
  <2> QED BY <1>1, <1>2, <1>3, <1>4, <1>6, <2>1, <2>3 DEF Starts, Kept, Others
<1> QED BY <1>5, <1>6

\* ReleasePresenter by handlePresenter, whether it still had its place or not.
LEMMA ReleaseEffect ==
  ASSUME SInv, NEW p \in Conn, Release(p)
  PROVE  \E o, r : Releases(p, o, r)
<1> DEFINE o == my[p].room
           r == [rooms[o] EXCEPT !.presenter = None, !.sessions = {}]
           l == [my[p] EXCEPT !.tell = Informed(o, p), !.code = rooms[o].code]
<1> SUFFICES Releases(p, o, r) OBVIOUS
<1>0. TypeOK /\ HandlersTypeOK /\ Pointers /\ RoomConsistent
  BY DEF SInv, IInv
<1>1. pc[p] = "release" /\ p \in Presenters /\ p # None
  BY <1>0, Kinds, NoneIsNoConn DEF Release, HandlersTypeOK, PresenterStage
<1>2. o \in DOMAIN rooms /\ rooms[o] \in Room
  BY <1>0, <1>1 DEF Pointers, Admitted, TypeOK
<1>3. my \in [Conn -> Local] /\ my[p] \in Local /\ pc \in [Conn -> Stage]
  BY <1>0 DEF HandlersTypeOK
<1>4. UNCHANGED <<link, slots, pageVars>>
  BY DEF Release
<1>5. Informed(o, p) \in Conn \cup {None}
  BY <1>2 DEF Informed, Room
<1>6. /\ l \in Local /\ l.room = o /\ l.session = my[p].session /\ l.peer = my[p].peer
      /\ l.code = rooms[o].code /\ l.ticket = my[p].ticket /\ l.tell = Informed(o, p)
  BY <1>2, <1>3, <1>5 DEF Local, Room
<1>7. my' = [my EXCEPT ![p] = l] 
  BY <1>3 DEF Release
<1>8. /\ my' \in [Conn -> Local] /\ my'[p] = l
      /\ \A b \in Conn \ {p} : my'[b] = my[b]
  BY <1>3, <1>6, <1>7, LocalUpdate
<1>9. CASE rooms[o].presenter = p
  <2>1. rooms[o].display # None /\ \A s \in rooms[o].sessions : s.caller = p
    BY <1>0, <1>1, <1>2, <1>9 DEF RoomConsistent, Consistent
  <2>2. /\ r \in Room /\ r.id = rooms[o].id /\ r.display = rooms[o].display
        /\ r.presenter = None /\ r.sessions = {} /\ r.code = rooms[o].code
    BY <1>2 DEF Room
  <2>3. rooms' = [rooms EXCEPT ![o].presenter = None,
                               ![o].sessions = {s \in @ : s.caller # p}] /\ drawn' = drawn
    BY <1>9 DEF Release, ReleasePresenter
  <2>4. {s \in rooms[o].sessions : s.caller # p} = {}
    BY <2>1
  <2>5. rooms' = [rooms EXCEPT ![o] = r]
    BY <2>3, <2>4, <1>0, <1>2 DEF TypeOK
  <2>6. Heap(o, r)
    BY <1>0, <1>2, <2>2, <2>5, HeapSet
  <2>7. Informed(o, p) = rooms[o].display
    BY <1>9 DEF Informed
  <2>8. pc' = [pc EXCEPT ![p] = "notify"]
    BY <2>1, <2>7 DEF Release, Go
  <2>9. /\ pc' \in [Conn -> Stage] /\ pc'[p] = "notify"
        /\ \A b \in Conn \ {p} : pc'[b] = pc[b]
    BY <1>3, <2>8 DEF Stage, PresenterStage
  <2> HIDE DEF r, l
  <2> QED BY <1>1, <1>2, <1>4, <1>6, <1>8, <1>9, <2>1, <2>2, <2>3, <2>6, <2>7, <2>9
          DEF Releases, Kept, Others, r
<1>10. CASE rooms[o].presenter # p
  <2>1. UNCHANGED <<rooms, drawn>>
    BY <1>10 DEF Release, ReleasePresenter, roomVars
  <2>2. pc' = [pc EXCEPT ![p] = "close"]
    BY <1>10 DEF Release, Go, Informed
  <2>3. /\ pc' \in [Conn -> Stage] /\ pc'[p] = "close"
        /\ \A b \in Conn \ {p} : pc'[b] = pc[b]
    BY <1>3, <2>2 DEF Stage
  <2> HIDE DEF l
  <2> QED BY <1>1, <1>2, <1>4, <1>6, <1>8, <1>10, <2>1, <2>3 DEF Releases, Kept, Others
<1> QED BY <1>9, <1>10

-----------------------------------------------------------------------------
(* App.preAuth.                                                           *)

\* One more message in App.preAuth, one more connection being read, ...
LEMMA SlotTaken ==
  ASSUME SInv, NEW c \in Conn, pc[c] # "reading", slots < PreAuthMax,
         pc' = [pc EXCEPT ![c] = "reading"], slots' = slots + 1
  PROVE  SlotsAccounted' /\ IsFiniteSet(Reading')
<1>1. Reading' = Reading \cup {c} /\ c \notin Reading
  BY DEF SInv, HandlersTypeOK, Reading
<1>2. IsFiniteSet(Reading') /\ Cardinality(Reading') = Cardinality(Reading) + 1
  BY <1>1, FS_AddElement DEF SInv
<1>3. slots = Cardinality(Reading) /\ slots \in Nat
  BY DEF SInv, SlotsAccounted, HandlersTypeOK, Reading
<1> QED BY <1>2, <1>3, SomeSlot DEF SlotsAccounted, Reading

\* ... and one less.
LEMMA SlotGivenBack ==
  ASSUME SInv, NEW c \in Conn, pc[c] = "reading", NEW stage, stage # "reading",
         pc' = [pc EXCEPT ![c] = stage], slots' = slots - 1
  PROVE  SlotsAccounted' /\ IsFiniteSet(Reading')
<1>1. Reading' = Reading \ {c} /\ c \in Reading
  BY DEF SInv, HandlersTypeOK, Reading
<1>2. IsFiniteSet(Reading') /\ Cardinality(Reading') = Cardinality(Reading) - 1
  BY <1>1, FS_RemoveElement DEF SInv
<1>3. slots = Cardinality(Reading) /\ slots \in Nat /\ slots <= PreAuthMax
  BY DEF SInv, SlotsAccounted, HandlersTypeOK, Reading
<1> QED BY <1>2, <1>3, SomeSlot DEF SlotsAccounted, Reading

\* Handler c goes on from a stage other than "reading" to another such stage.
SlotFree(c) ==
  /\ UNCHANGED slots /\ pc[c] # "reading"
  /\ \E stage \in Stage \ {"reading"} : pc' = [pc EXCEPT ![c] = stage]

\* No other step starts or ends the reading of an authentication message.
LEMMA SlotsStay ==
  ASSUME SInv, NEW c \in Conn, SlotFree(c) \/ UNCHANGED <<slots, pc>>
  PROVE  SlotsAccounted' /\ IsFiniteSet(Reading')
<1>1. Reading' = Reading
  BY DEF SInv, HandlersTypeOK, Reading, SlotFree
<1> QED BY <1>1 DEF SInv, SlotsAccounted, Reading, SlotFree

\* The slots stay accounted for.
LEMMA SlotsKept ==
  ASSUME SInv, ServerNext \/ UNCHANGED vars
  PROVE  SlotsAccounted' /\ IsFiniteSet(Reading')
<1> USE DEF SlotFree, Go, Stage, DisplayStage, PresenterStage
<1>1. ASSUME NEW c \in Conn, Dial(c) \/ Break(c)
      PROVE  SlotFree(c) \/ UNCHANGED <<slots, pc>>
  BY <1>1 DEF Dial, Break
<1>2. ASSUME NEW c \in Conn, TurnAway(c) \/ Close(c) \/ Evict(c) \/ SendIce(c) \/ SendReady(c)
      PROVE  SlotFree(c)
  BY <1>2 DEF TurnAway, Close, Evict, SendIce, SendReady, Move, Write
<1>3. ASSUME NEW c \in Conn,
             FindSession(c) \/ RelayToCaller(c) \/ DisplayReadFails(c) \/ Unregister(c)
      PROVE  SlotFree(c)
  BY <1>3 DEF FindSession, RelayToCaller, DisplayReadFails, Unregister, Move
<1>4. ASSUME NEW c \in Conn, \/ PresenterReadFails(c) \/ Find(c) \/ Judge(c)
                             \/ SendRefresh(c) \/ SendAccepted(c) \/ Authorize(c)
      PROVE  SlotFree(c)
  BY <1>4 DEF PresenterReadFails, Find, Judge, SendRefresh, SendAccepted, Authorize,
              Move, Write, Reply
<1>5. ASSUME NEW c \in Conn, Start(c) \/ Announce(c) \/ Confirm(c) \/ Release(c) \/ Notify(c)
      PROVE  SlotFree(c)
  BY <1>5 DEF Start, Announce, Confirm, Release, Notify, Move, Write, Reply
<1>6. ASSUME NEW c \in Conn, AcquireSlot(c)
      PROVE  SlotsAccounted' /\ IsFiniteSet(Reading')
  BY <1>6, SlotTaken DEF AcquireSlot
<1>7. ASSUME NEW c \in Conn, Reject(c) \/ Submit(c)
      PROVE  SlotsAccounted' /\ IsFiniteSet(Reading')
  BY <1>7, SlotGivenBack DEF Reject, Submit, ReturnSlot
<1>8. ASSUME NEW c \in Conn, Register(c)
      PROVE  SlotsAccounted' /\ IsFiniteSet(Reading')
  BY <1>8, SlotGivenBack DEF Register, ReturnSlot
<1>9. CASE UNCHANGED vars
  BY <1>9 DEF vars, handlerVars, SInv, SlotsAccounted, Reading
<1> QED
  BY <1>1, <1>2, <1>3, <1>4, <1>5, <1>6, <1>7, <1>8, <1>9, SlotsStay, ServerNextCases
     DEF LocalStep

-----------------------------------------------------------------------------
(* Types.                                                                 *)

\* Where a step that leaves the rooms alone may go.
LEMMA LocalStages ==
  ASSUME SInv, NEW c \in Conn, LocalStep(c)
  PROVE  /\ pc' \in [Conn -> Stage]
         /\ c \in Displays => pc'[c] \notin PresenterStage
         /\ c \in Presenters => pc'[c] \notin DisplayStage
         /\ link' \in [Conn -> Link]
<1>0. pc \in [Conn -> Stage] /\ link \in [Conn -> Link]
  BY DEF SInv, HandlersTypeOK
<1>1. /\ c \in Displays => pc[c] \notin PresenterStage
      /\ c \in Presenters => pc[c] \notin DisplayStage
  BY DEF SInv, HandlersTypeOK
<1> USE <1>0, <1>1, Kinds DEF Go, DisplayStage, PresenterStage, Stage
<1>2. CASE Dial(c) \/ Break(c) \/ AcquireSlot(c) \/ TurnAway(c) \/ Reject(c)
  BY <1>2 DEF Dial, Break, AcquireSlot, TurnAway, Reject, Move, Link
<1>3. CASE Close(c) \/ Evict(c) \/ SendIce(c)
  BY <1>3 DEF Close, Evict, SendIce, Move, Link
<1>4. CASE FindSession(c) \/ RelayToCaller(c) \/ DisplayReadFails(c)
  BY <1>4 DEF FindSession, RelayToCaller, DisplayReadFails, Move
<1>5. CASE PresenterReadFails(c) \/ Judge(c) \/ SendAccepted(c) \/ Confirm(c)
  BY <1>5 DEF PresenterReadFails, Judge, SendAccepted, Confirm, Reply, Move
<1>6. CASE SendReady(c) \/ SendRefresh(c) \/ Announce(c) \/ Notify(c)
  BY <1>6 DEF SendReady, SendRefresh, Announce, Notify, Write
<1>7. CASE Submit(c) \/ Find(c)
  BY <1>7 DEF Submit, Find
<1> QED BY <1>2, <1>3, <1>4, <1>5, <1>6, <1>7 DEF LocalStep

\* What such a step does to its handler's local variables.
LEMMA LocalLocals ==
  ASSUME SInv, NEW c \in Conn, LocalStep(c)
  PROVE  /\ my' \in [Conn -> Local]
         /\ my'[c].room \in 0..Len(rooms)
         /\ my'[c].code <= drawn /\ my'[c].session <= drawn
<1> DEFINE Typed(l) == /\ l \in Local /\ l.room \in 0..Len(rooms)
                       /\ l.code <= drawn /\ l.session <= drawn
<1>0. /\ my \in [Conn -> Local] /\ my[c] \in Local /\ my[c].room \in 0..Len(rooms)
      /\ my[c].code <= drawn /\ my[c].session <= drawn
      /\ drawn \in Nat /\ Len(rooms) \in Nat /\ rooms \in Seq(Room)
  BY DEF SInv, HandlersTypeOK, StringsDrawn, IInv, TypeOK
<1>1. ASSUME NEW l \in Local, Typed(l), my' = [my EXCEPT ![c] = l]
      PROVE  /\ my' \in [Conn -> Local]
             /\ my'[c].room \in 0..Len(rooms)
             /\ my'[c].code <= drawn /\ my'[c].session <= drawn
  BY <1>0, <1>1, LocalUpdate
<1>2. CASE UNCHANGED my
  BY <1>0, <1>2
<1>3. CASE Close(c)
  <2> DEFINE l == [NoLocal EXCEPT !.ticket = my[c].ticket]
  <2>1. Typed(l)
    BY <1>0 DEF NoLocal, Local
  <2> QED BY <1>3, <1>1, <2>1 DEF Close
<1>4. CASE Evict(c)
  <2>1. PICK e \in my[c].closing : my' = [my EXCEPT ![c].closing = Remaining(c, e)]
    BY <1>4 DEF Evict
  <2> DEFINE l == [my[c] EXCEPT !.closing = Remaining(c, e)]
  <2>2. Typed(l)
    BY <1>0 DEF Remaining, Local
  <2>3. my' = [my EXCEPT ![c] = l]
    BY <1>0, <2>1
  <2> QED BY <1>1, <2>2, <2>3
<1>5. CASE SendIce(c) /\ ~UNCHANGED my
  <2> DEFINE o == my[c].room
             l == [my[c] EXCEPT !.code = rooms[o].code]
  <2>1. pc[c] = "ice" /\ my' = [my EXCEPT ![c] = l]
    BY <1>0, <1>5 DEF SendIce, Move
  <2>2. o \in DOMAIN rooms
    BY <2>1, Kinds DEF SInv, HandlersTypeOK, Pointers, Serving, DisplayStage
  <2>3. rooms[o].code \in Nat /\ rooms[o].code <= drawn
    BY <1>0, <2>2 DEF SInv, StringsDrawn
  <2>4. Typed(l)
    BY <1>0, <2>3 DEF Local
  <2> QED BY <1>1, <2>1, <2>4
<1>6. CASE FindSession(c)
  <2> DEFINE o == my[c].room
  <2>1. PICK s \in rooms[o].sessions : my' = [my EXCEPT ![c].peer = s.caller]
    BY <1>6 DEF FindSession
  <2> DEFINE l == [my[c] EXCEPT !.peer = s.caller]
  <2>2. o \in DOMAIN rooms
    BY <1>6 DEF FindSession, SInv, Pointers, Serving
  <2>3. s.caller \in Conn
    <3>1. rooms[o] \in Room
      BY <1>0, <2>2
    <3> QED BY <2>1, <3>1 DEF Room, Session
  <2>4. Typed(l)
    BY <1>0, <2>3 DEF Local
  <2>5. my' = [my EXCEPT ![c] = l]
    BY <1>0, <2>1
  <2> QED BY <1>1, <2>4, <2>5
<1>7. CASE RelayToCaller(c)
  <2> DEFINE l == [my[c] EXCEPT !.peer = None]
  <2>1. my' = [my EXCEPT ![c] = l] /\ Typed(l)
    BY <1>0, <1>7 DEF RelayToCaller, Local
  <2> QED BY <1>1, <2>1
<1>8. CASE Submit(c)
  <2>1. PICK k \in seen \cup {0} : my' = [my EXCEPT ![c].code = k]
    BY <1>8 DEF Submit
  <2> DEFINE l == [my[c] EXCEPT !.code = k]
  <2>2. k \in Nat /\ k <= drawn
    BY <1>0 DEF SInv, HandlersTypeOK
  <2>3. my' = [my EXCEPT ![c] = l] /\ Typed(l)
    BY <1>0, <2>1, <2>2 DEF Local
  <2> QED BY <1>1, <2>3
<1>9. CASE Find(c)
  <2> DEFINE o == store[RoomOf[c]]
             l == [my[c] EXCEPT !.room = o]
  <2>1. o \in 0..Len(rooms)
    BY Kinds DEF SInv, IInv, TypeOK
  <2>2. my' = [my EXCEPT ![c] = l]
    BY <1>0, <1>9 DEF Find
  <2>3. o \in Nat
    BY <1>0, <2>1
  <2> HIDE DEF o
  <2>4. Typed(l)
    BY <1>0, <2>1, <2>3 DEF Local
  <2> QED BY <1>1, <2>2, <2>4
<1>10. CASE \/ Dial(c) \/ Break(c) \/ AcquireSlot(c) \/ TurnAway(c) \/ Reject(c)
            \/ SendReady(c) \/ SendRefresh(c) \/ Announce(c) \/ Notify(c)
  BY <1>2, <1>10 DEF Dial, Break, AcquireSlot, TurnAway, Reject, SendReady, SendRefresh,
                     Announce, Notify, Move, Write
<1>11. CASE \/ DisplayReadFails(c) \/ PresenterReadFails(c) \/ Judge(c)
            \/ SendAccepted(c) \/ Confirm(c)
  BY <1>2, <1>11 DEF DisplayReadFails, PresenterReadFails, Judge, SendAccepted, Confirm,
                     Move, Reply
<1> QED
  BY <1>2, <1>3, <1>4, <1>5, <1>6, <1>7, <1>8, <1>9, <1>10, <1>11 DEF LocalStep

\* The types of the pages' variables.
PagesTyped == /\ screen \in [Displays -> 0..drawn]
              /\ told \in [Displays -> SUBSET (1..drawn)]
              /\ seen \in SUBSET (1..drawn)

\* A page only ever shows a code that was drawn.
LEMMA ShowTyped ==
  ASSUME PagesTyped, NEW d \in Displays, NEW k \in 0..drawn, Show(d, k)
  PROVE  screen' \in [Displays -> 0..drawn] /\ seen' \in SUBSET (1..drawn)
<1>1. {k} \ {0} \subseteq 1..drawn
  OBVIOUS
<1> QED BY <1>1 DEF PagesTyped, Show

\* Whatever a local step writes to a page is of the page's types.
LEMMA LocalPages ==
  ASSUME SInv, NEW c \in Conn, LocalStep(c)
  PROVE  PagesTyped'
<1>0. PagesTyped /\ drawn' = drawn
  BY LocalKeeps DEF SInv, HandlersTypeOK, PagesTyped, Keeps, roomVars
<1>1. my[c].code \in 0..drawn /\ my[c].session \in 0..drawn /\ drawn \in Nat
  BY DEF SInv, HandlersTypeOK, StringsDrawn, Local, IInv, TypeOK
<1>2. c \in Displays \/ c \in Presenters
  BY Kinds
<1>3. CASE UNCHANGED pageVars
  BY <1>0, <1>3 DEF PagesTyped, pageVars
<1>4. CASE SendReady(c)
  <2>1. c \in Displays
    BY <1>2, <1>4 DEF SendReady, Write, SInv, HandlersTypeOK, DisplayStage
  <2> QED BY <1>0, <1>1, <1>4, <2>1, ShowTyped DEF SendReady, Write, PagesTyped
<1>5. CASE SendRefresh(c)
  <2>1. my[c].peer \in Displays
    BY <1>2, <1>5
       DEF SendRefresh, Write, SInv, HandlersTypeOK, PresenterStage, Pointers, Admitted
  <2>2. 0 \in 0..drawn
    BY <1>1
  <2> QED BY <1>0, <2>2, <1>5, <2>1, ShowTyped DEF SendRefresh, Write, PagesTyped
<1>6. CASE Announce(c)
  <2>1. my[c].peer \in Displays /\ my[c].session \in 1..drawn
    BY <1>1, <1>2, <1>6
       DEF Announce, Write, SInv, HandlersTypeOK, PresenterStage, Pointers, Admitted
  <2>2. 0 \in 0..drawn
    BY <1>1
  <2>3. screen' \in [Displays -> 0..drawn] /\ seen' \in SUBSET (1..drawn)
    BY <1>0, <1>6, <2>1, <2>2, ShowTyped DEF Announce, Write
  <2>4. told' \in [Displays -> SUBSET (1..drawn)]
    BY <1>0, <1>6, <2>1 DEF Announce, PagesTyped
  <2> QED BY <1>0, <2>3, <2>4 DEF PagesTyped
<1>7. CASE Notify(c)
  <2>1. my[c].tell \in Displays
    BY <1>2, <1>7 DEF Notify, Write, SInv, HandlersTypeOK, PresenterStage, Pointers
  <2> QED BY <1>0, <1>1, <1>7, <2>1, ShowTyped DEF Notify, Write, PagesTyped
<1>8. CASE \/ Dial(c) \/ Break(c) \/ AcquireSlot(c) \/ TurnAway(c) \/ Reject(c) \/ Close(c)
           \/ Evict(c) \/ SendIce(c) \/ FindSession(c) \/ RelayToCaller(c)
           \/ Submit(c) \/ Find(c)
  BY <1>3, <1>8 DEF Dial, Break, AcquireSlot, TurnAway, Reject, Close, Evict, SendIce,
                    FindSession, RelayToCaller, Submit, Find, Move
<1>9. CASE \/ DisplayReadFails(c) \/ PresenterReadFails(c) \/ Judge(c)
           \/ SendAccepted(c) \/ Confirm(c)
  BY <1>3, <1>9 DEF DisplayReadFails, PresenterReadFails, Judge, SendAccepted, Confirm,
                    Move, Reply
<1> QED BY <1>4, <1>5, <1>6, <1>7, <1>8, <1>9 DEF LocalStep

\* More draws make no page's variables ill-typed.
LEMMA DrawnGrows ==
  ASSUME PagesTyped, drawn \in Nat, drawn' \in Nat, drawn <= drawn', UNCHANGED pageVars
  PROVE  PagesTyped'
<1>1. 0..drawn \subseteq (0..drawn)' /\ 1..drawn \subseteq (1..drawn)'
  OBVIOUS
<1> QED BY <1>1 DEF PagesTyped, pageVars

\* What the types of all variables come to, given the types of one handler.
LEMMA StoreStepTypes ==
  ASSUME SInv, NEW c \in Conn, Kept(c), slots' \in Nat, PagesTyped',
         pc' \in [Conn -> Stage], my' \in [Conn -> Local],
         Len(rooms) \in Nat, Len(rooms') \in Nat, Len(rooms) <= Len(rooms'),
         c \in Displays => pc'[c] \notin PresenterStage,
         c \in Presenters => pc'[c] \notin DisplayStage,
         my'[c].room \in 0..Len(rooms')
  PROVE  HandlersTypeOK'
<1>1. \A b \in Conn : my'[b].room \in 0..Len(rooms')
  BY DEF SInv, HandlersTypeOK, Kept, Others
<1>2. link' \in [Conn -> Link]
  BY DEF SInv, HandlersTypeOK, Kept
<1> QED BY <1>1, <1>2, Kinds, Connections DEF SInv, HandlersTypeOK, Kept, Others, PagesTyped

\* Every step of the server is a step of RoomStore or leaves it alone.
LEMMA StoreStep ==
  ASSUME SInv, ServerNext \/ UNCHANGED vars
  PROVE  [Next]_roomVars
<1>1. ASSUME NEW c \in Conn, LocalStep(c) PROVE UNCHANGED roomVars
  BY <1>1, LocalKeeps DEF SInv, Keeps
<1>2. ASSUME NEW d \in Conn, Register(d) \/ Unregister(d) PROVE Next
  <2>1. RoomOf[d] \in RoomID
    BY Kinds
  <2>2. SetDisplay(RoomOf[d], d) \/ RemoveDisplay(RoomOf[d], d)
    BY <1>2 DEF Register, Unregister
  <2> QED BY <2>1, <2>2 DEF Next
<1>3. ASSUME NEW p \in Conn, Authorize(p) PROVE [Next]_roomVars
  <2> DEFINE o == my[p].room
  <2>1. o \in DOMAIN rooms
    BY <1>3, AuthorizeEffect DEF Authorizes
  <2>2. AuthorizePresenter(o, my[p].code, p)
    BY <1>3 DEF Authorize
  <2>3. CASE my[p].code = rooms[o].code
    <3>1. \E code \in {rooms[o].code, 0} : AuthorizePresenter(o, code, p)
      BY <2>2, <2>3
    <3> QED BY <2>1, <3>1 DEF Next
  <2>4. CASE my[p].code # rooms[o].code
    BY <2>2, <2>4 DEF AuthorizePresenter, MayPresent
  <2> QED BY <2>3, <2>4
<1>4. ASSUME NEW p \in Conn, Start(p) PROVE [Next]_roomVars
  <2> DEFINE o == my[p].room
             g == my[p].generation
  <2>1. o \in DOMAIN rooms
    BY <1>4, StartEffect DEF Starts
  <2>2. StartSession(o, p, g)
    BY <1>4 DEF Start
  <2>3. CASE g = rooms[o].generation
    <3>0. rooms[o] \in Room
      BY <2>1 DEF SInv, IInv, TypeOK
    <3>1. rooms[o].generation \in Nat
      BY <3>0 DEF Room
    <3>2. g \in 0..rooms[o].generation
      BY <2>3, <3>1
    <3> QED BY <2>1, <2>2, <3>2 DEF Next
  <2>4. CASE g # rooms[o].generation
    BY <2>2, <2>4 DEF StartSession, MayStart
  <2> QED BY <2>3, <2>4
<1>5. ASSUME NEW p \in Conn, Release(p) PROVE Next
  <2>1. my[p].room \in DOMAIN rooms
    BY <1>5, ReleaseEffect DEF Releases
  <2>2. ReleasePresenter(my[p].room, p)
    BY <1>5 DEF Release
  <2> QED BY <2>1, <2>2 DEF Next
<1>6. CASE UNCHANGED vars
  BY <1>6 DEF vars
<1> QED BY <1>1, <1>2, <1>3, <1>4, <1>5, <1>6, ServerNextCases

\* The type invariant is kept.
LEMMA TypesKept ==
  ASSUME SInv, ServerNext \/ UNCHANGED vars
  PROVE  HandlersTypeOK'
<1>1. TypeOK /\ TypeOK'
  BY StoreStep, NextIInv DEF SInv, IInv
<1>2. slots' \in Nat
  <2>1. SlotsAccounted' /\ IsFiniteSet(Reading')
    BY SlotsKept
  <2> QED BY <2>1, FS_CardinalityType DEF SlotsAccounted, Reading
<1>3. Len(rooms) \in Nat /\ Len(rooms') \in Nat /\ drawn \in Nat /\ drawn' \in Nat
  BY <1>1 DEF TypeOK
<1>4. PagesTyped
  BY DEF SInv, HandlersTypeOK, PagesTyped
<1>5. ASSUME NEW c \in Conn, LocalStep(c) PROVE HandlersTypeOK'
  <2>1. Keeps(c) /\ PagesTyped'
    BY <1>5, LocalKeeps, LocalPages DEF SInv
  <2>2. \A b \in Conn : my'[b].room \in 0..Len(rooms')
    BY <2>1, <1>5, LocalLocals DEF SInv, HandlersTypeOK, Keeps, Others, roomVars
  <2>3. /\ \A d \in Displays : pc'[d] \notin PresenterStage
        /\ \A p \in Presenters : pc'[p] \notin DisplayStage
    BY <2>1, <1>5, LocalStages, Connections DEF SInv, HandlersTypeOK, Keeps, Others
  <2> QED BY <1>2, <1>5, <2>1, <2>2, <2>3, LocalStages, LocalLocals
          DEF HandlersTypeOK, PagesTyped
<1>6. ASSUME NEW d \in Conn, Register(d) PROVE HandlersTypeOK'
  <2>1. PICK o, r : Registers(d, o, r)
    BY <1>6, RegisterEffect
  <2>2. Heap(o, r) /\ d \in Displays /\ drawn' = drawn + 1
    BY <2>1 DEF Registers
  <2>3. o \in 0..Len(rooms') /\ Len(rooms) <= Len(rooms')
    BY <1>1, <2>2, HeapFacts DEF TypeOK
  <2>4. PagesTyped'
    BY <1>3, <1>4, <2>1, <2>2, DrawnGrows DEF Registers, Kept
  <2>5. Kept(d) /\ pc'[d] \notin PresenterStage
    BY <2>1 DEF Registers, PresenterStage
  <2>6. pc' \in [Conn -> Stage] /\ my' \in [Conn -> Local] /\ my'[d].room = o
    BY <2>1 DEF Registers
  <2> QED BY <1>2, <1>3, <2>2, <2>3, <2>4, <2>5, <2>6, StoreStepTypes, Kinds
<1>7. ASSUME NEW d \in Conn, Unregister(d) PROVE HandlersTypeOK'
  <2>1. PICK o, r : Unregisters(d, o, r)
    BY <1>7, UnregisterEffect
  <2>2. Heap(o, r) \/ UNCHANGED rooms
    BY <2>1 DEF Unregisters
  <2>3. my'[d].room \in 0..Len(rooms') /\ Len(rooms) <= Len(rooms')
    BY <1>3, <2>1, <2>2, HeapFacts DEF Unregisters, SInv, HandlersTypeOK
  <2>4. PagesTyped'
    BY <1>3, <1>4, <2>1, DrawnGrows DEF Unregisters, Kept
  <2>5. d \in Displays /\ Kept(d) /\ pc'[d] \notin PresenterStage
    BY <2>1 DEF Unregisters, PresenterStage
  <2>6. pc' \in [Conn -> Stage] /\ my' \in [Conn -> Local]
    BY <2>1 DEF Unregisters
  <2> QED BY <1>2, <1>3, <2>3, <2>4, <2>5, <2>6, StoreStepTypes, Kinds
<1>8. ASSUME NEW p \in Conn, Authorize(p) \/ Start(p) \/ Release(p) PROVE HandlersTypeOK'
  <2>1. PICK o, r : Authorizes(p, o, r) \/ Starts(p, o, r) \/ Releases(p, o, r)
    BY <1>8, AuthorizeEffect, StartEffect, ReleaseEffect
  <2>2. (Heap(o, r) \/ UNCHANGED rooms) /\ drawn <= drawn'
    BY <1>3, <2>1 DEF Authorizes, Starts, Releases
  <2>3. my'[p].room \in 0..Len(rooms') /\ Len(rooms) <= Len(rooms')
    <3>1. o \in 0..Len(rooms)
      BY <1>3, <2>1 DEF Authorizes, Starts, Releases, SInv, HandlersTypeOK
    <3>2. Len(rooms) <= Len(rooms')
      BY <1>3, <2>2, HeapFacts
    <3>3. my'[p].room = o
      BY <2>1 DEF Authorizes, Starts, Releases
    <3> QED BY <1>3, <3>1, <3>2, <3>3
  <2>4. Kept(p) /\ p \in Presenters
    BY <2>1 DEF Authorizes, Starts, Releases
  <2>5. PagesTyped'
    BY <1>3, <1>4, <2>2, <2>4, DrawnGrows DEF Kept
  <2>6. pc'[p] \notin DisplayStage
    BY <2>1 DEF Authorizes, Starts, Releases, DisplayStage
  <2>7. pc' \in [Conn -> Stage] /\ my' \in [Conn -> Local]
    BY <2>1 DEF Authorizes, Starts, Releases
  <2> QED BY <1>2, <1>3, <2>3, <2>4, <2>5, <2>6, <2>7, StoreStepTypes, Kinds
<1>9. CASE UNCHANGED vars
  BY <1>9 DEF vars, handlerVars, roomVars, pageVars, SInv, HandlersTypeOK
<1> QED BY <1>5, <1>6, <1>7, <1>8, <1>9, ServerNextCases

-----------------------------------------------------------------------------
(* Strings and pointers.                                                  *)

\* Every string stays a drawn one.
LEMMA StringsKept ==
  ASSUME SInv, ServerNext \/ UNCHANGED vars
  PROVE  StringsDrawn'
<1>1. HandlersTypeOK' /\ drawn \in Nat /\ drawn' \in Nat
  BY TypesKept, StoreStep, NextIInv DEF SInv, IInv, TypeOK
<1>2. ASSUME NEW c \in Conn, Others(c), NEW o, NEW r,
             (Heap(o, r) /\ r.code \in 1..drawn') \/ UNCHANGED rooms, drawn <= drawn',
             my'[c].code <= drawn', my'[c].session <= drawn', my'[c].ticket <= drawn'
      PROVE  StringsDrawn'
  <2>1. ASSUME NEW q \in DOMAIN rooms' PROVE rooms'[q].code \in 1..drawn'
    <3>1. CASE Heap(o, r) /\ r.code \in 1..drawn' /\ q = o
      BY <3>1, HeapFacts
    <3>2. CASE UNCHANGED rooms \/ (Heap(o, r) /\ q # o)
      <4>1. q \in DOMAIN rooms /\ rooms'[q] = rooms[q]
        BY <1>2, <3>2, <2>1, HeapFacts
      <4>2. rooms[q].code \in 1..drawn
        BY <4>1 DEF SInv, StringsDrawn
      <4> QED BY <4>1, <4>2, <1>1, <1>2
    <3> QED BY <1>2, <3>1, <3>2
  <2>2. ASSUME NEW b \in Conn
        PROVE  my'[b].code <= drawn' /\ my'[b].session <= drawn' /\ my'[b].ticket <= drawn'
    <3>1. CASE b = c
      BY <1>2, <3>1
    <3>2. CASE b # c
      <4>1. my'[b] = my[b]
        BY <1>2, <3>2 DEF Others
      <4>2. my[b].code <= drawn /\ my[b].session <= drawn /\ my[b].ticket <= drawn
        BY DEF SInv, StringsDrawn
      <4>3. my[b].code \in Nat /\ my[b].session \in Nat /\ my[b].ticket \in Nat
        <5>1. my[b] \in Local
          BY DEF SInv, HandlersTypeOK
        <5> QED BY <5>1 DEF Local
      <4> QED BY <1>1, <1>2, <4>1, <4>2, <4>3
    <3> QED BY <3>1, <3>2
  <2> QED BY <2>1, <2>2 DEF StringsDrawn
<1>3. ASSUME NEW c \in Conn
      PROVE  /\ my[c].code <= drawn /\ my[c].session <= drawn /\ my[c].ticket <= drawn
             /\ my[c].code \in Nat /\ my[c].session \in Nat /\ my[c].ticket \in Nat
  <2>1. my[c] \in Local
    BY DEF SInv, HandlersTypeOK
  <2> QED BY <2>1 DEF SInv, StringsDrawn, Local
<1>4. ASSUME NEW o \in DOMAIN rooms PROVE rooms[o].code \in 1..drawn
  BY DEF SInv, StringsDrawn
<1>5. ASSUME NEW c \in Conn, LocalStep(c) PROVE StringsDrawn'
  <2>1. Keeps(c) /\ my'[c].code <= drawn /\ my'[c].session <= drawn
    BY <1>5, LocalKeeps, LocalLocals DEF SInv
  <2> QED BY <1>2, <1>3, <2>1, <1>1 DEF Keeps, roomVars, Heap
<1>6. ASSUME NEW d \in Conn, Register(d) PROVE StringsDrawn'
  <2>1. PICK o, r : Registers(d, o, r)
    BY <1>6, RegisterEffect
  <2> QED BY <1>1, <1>2, <1>3, <2>1 DEF Registers, Kept
<1>7. ASSUME NEW d \in Conn, Unregister(d) PROVE StringsDrawn'
  <2>1. PICK o, r : Unregisters(d, o, r)
    BY <1>7, UnregisterEffect
  <2>2. (Heap(o, r) /\ r.code \in 1..drawn') \/ UNCHANGED rooms
    BY <1>4, <2>1 DEF Unregisters
  <2> QED BY <1>1, <1>2, <1>3, <2>1, <2>2 DEF Unregisters, Kept
<1>8. ASSUME NEW p \in Conn, Authorize(p) PROVE StringsDrawn'
  <2>1. PICK o, r : Authorizes(p, o, r)
    BY <1>8, AuthorizeEffect
  <2> QED BY <1>1, <1>2, <1>3, <2>1 DEF Authorizes, Kept
<1>9. ASSUME NEW p \in Conn, Start(p) PROVE StringsDrawn'
  <2>1. PICK o, r : Starts(p, o, r)
    BY <1>9, StartEffect
  <2> QED BY <1>1, <1>2, <1>3, <1>4, <2>1 DEF Starts, Kept
<1>10. ASSUME NEW p \in Conn, Release(p) PROVE StringsDrawn'
  <2>1. PICK o, r : Releases(p, o, r)
    BY <1>10, ReleaseEffect
  <2> QED BY <1>1, <1>2, <1>3, <1>4, <2>1 DEF Releases, Kept
<1>11. CASE UNCHANGED vars
  BY <1>11 DEF vars, handlerVars, roomVars, SInv, StringsDrawn
<1> QED BY <1>5, <1>6, <1>7, <1>8, <1>9, <1>10, <1>11, ServerNextCases

\* No Room is ever taken off the heap.
LEMMA HeapKept ==
  ASSUME SInv, ServerNext \/ UNCHANGED vars
  PROVE  DOMAIN rooms \subseteq DOMAIN rooms'
<1>1. ASSUME NEW c \in Conn, LocalStep(c) PROVE UNCHANGED rooms
  BY <1>1, LocalKeeps DEF SInv, Keeps, roomVars
<1>2. ASSUME NEW c \in Conn,
             Register(c) \/ Unregister(c) \/ Authorize(c) \/ Start(c) \/ Release(c)
      PROVE  \E o, r : Heap(o, r) \/ UNCHANGED rooms
  <2>1. PICK o, r : \/ Registers(c, o, r) \/ Unregisters(c, o, r) \/ Authorizes(c, o, r)
                    \/ Starts(c, o, r) \/ Releases(c, o, r)
    BY <1>2, RegisterEffect, UnregisterEffect, AuthorizeEffect, StartEffect, ReleaseEffect
  <2> QED BY <2>1 DEF Registers, Unregisters, Authorizes, Starts, Releases
<1> QED BY <1>1, <1>2, HeapFacts, ServerNextCases DEF vars, roomVars

\* Pointers, of one connection.
PointersOf(c) ==
  /\ c \in Displays /\ Serving(c) => my[c].room \in DOMAIN rooms
  /\ c \in Presenters =>
       /\ pc[c] \in {"authorize", "judge"} \/ Admitted(c) => my[c].room \in DOMAIN rooms
       /\ Admitted(c) => my[c].peer \in Displays
       /\ pc[c] = "notify" => my[c].tell \in Displays
       /\ pc[c] = "announce" => my[c].session # 0

LEMMA PointersEach == Pointers <=> \A c \in Conn : PointersOf(c)
BY Connections DEF Pointers, PointersOf

\* A local step leads to no stage at which its handler would follow nil.
LEMMA LocalPointers ==
  ASSUME SInv, NEW c \in Conn, LocalStep(c)
  PROVE  PointersOf(c)'
<1>1. Keeps(c) /\ PointersOf(c) /\ UNCHANGED rooms
  BY LocalKeeps, PointersEach DEF SInv, Keeps, roomVars
<1>2. pc' \in [Conn -> Stage] /\ my \in [Conn -> Local] /\ pc \in [Conn -> Stage]
  BY LocalStages DEF SInv, HandlersTypeOK
<1>3. /\ Serving(c)' => my'[c].room \in DOMAIN rooms
      /\ Admitted(c)' => my'[c].room \in DOMAIN rooms /\ my'[c].peer \in Displays
  BY <1>1, Kinds DEF Keeps, PointersOf, Serving, Admitted
<1>4. ASSUME pc'[c] \in {"authorize", "judge"}, c \in Presenters
      PROVE  my'[c].room \in DOMAIN rooms
  <2>1. CASE pc[c] \in {"authorize", "judge"}
    <3>1. UNCHANGED my
      BY <1>2, <2>1, <1>4
         DEF LocalStep, Dial, Break, AcquireSlot, TurnAway, Reject, Close, Evict, SendIce,
             SendReady, FindSession, RelayToCaller, DisplayReadFails, PresenterReadFails,
             Submit, Find, Judge, SendRefresh, SendAccepted, Announce, Confirm, Notify,
             Move, Write, Reply, Go
    <3> QED BY <1>1, <2>1, <3>1, <1>4 DEF PointersOf
  <2>2. CASE pc[c] \notin {"authorize", "judge"}
    <3>1. Find(c)
      BY <1>2, <2>2, <1>4
         DEF LocalStep, Dial, Break, AcquireSlot, TurnAway, Reject, Close, Evict, SendIce,
             SendReady, FindSession, RelayToCaller, DisplayReadFails, PresenterReadFails,
             Submit, Find, Judge, SendRefresh, SendAccepted, Announce, Confirm, Notify,
             Move, Write, Reply, Go
    <3>2. Current(RoomOf[c]).display # None /\ my'[c].room = store[RoomOf[c]]
      BY <1>2, <3>1, <1>4 DEF Find, Go, Local
    <3>3. store[RoomOf[c]] \in DOMAIN rooms
      BY <3>2, Kinds, CurrentType DEF Current, NewRoom, SInv, IInv
    <3> QED BY <3>2, <3>3
  <2> QED BY <2>1, <2>2
<1>5. ASSUME pc'[c] \in {"notify", "announce"} 
      PROVE  UNCHANGED <<pc, my>>
  BY <1>2, <1>5
     DEF LocalStep, Dial, Break, AcquireSlot, TurnAway, Reject, Close, Evict, SendIce,
         SendReady, FindSession, RelayToCaller, DisplayReadFails, PresenterReadFails,
         Submit, Find, Judge, SendRefresh, SendAccepted, Announce, Confirm, Notify,
         Move, Write, Reply, Go
<1> QED BY <1>1, <1>3, <1>4, <1>5 DEF PointersOf

\* Nor does a call of the store.
LEMMA PointersKept ==
  ASSUME SInv, ServerNext \/ UNCHANGED vars
  PROVE  Pointers'
<1>1. DOMAIN rooms \subseteq DOMAIN rooms'
  BY HeapKept
<1>2. \A c \in Conn : PointersOf(c)
  BY PointersEach DEF SInv
<1>3. ASSUME NEW c \in Conn, Others(c), PointersOf(c)'
      PROVE  Pointers'
  <2>1. ASSUME NEW b \in Conn, b # c PROVE PointersOf(b)'
    BY <1>1, <1>2, <1>3, <2>1 DEF Others, PointersOf, Serving, Admitted
  <2>2. \A b \in Conn : PointersOf(b)'
    BY <1>3, <2>1
  <2> QED BY <2>2, Connections DEF Pointers, PointersOf
<1>4. ASSUME NEW c \in Conn, LocalStep(c) PROVE Pointers'
  BY <1>3, <1>4, LocalPointers, LocalKeeps DEF SInv, Keeps
<1>5. ASSUME NEW d \in Conn, Register(d) PROVE Pointers'
  <2>1. PICK o, r : Registers(d, o, r)
    BY <1>5, RegisterEffect
  <2>2. o \in DOMAIN rooms'
    BY <2>1, HeapFacts DEF Registers
  <2> QED BY <1>3, <2>1, <2>2, Kinds DEF Registers, Kept, PointersOf
<1>6. ASSUME NEW d \in Conn, Unregister(d) PROVE Pointers'
  <2>1. PICK o, r : Unregisters(d, o, r)
    BY <1>6, UnregisterEffect
  <2> QED BY <1>3, <2>1, Kinds DEF Unregisters, Kept, PointersOf, Serving
<1>7. ASSUME NEW p \in Conn, Authorize(p) PROVE Pointers'
  <2>1. PICK o, r : Authorizes(p, o, r)
    BY <1>7, AuthorizeEffect
  <2>2. MayPresent(o, my[p].code) => rooms[o].display \in Displays
    <3>1. ASSUME rooms[o].display # None PROVE rooms[o].display \in Displays
      BY <2>1, <3>1 DEF SInv, NoOrphans, Serving, Authorizes
    <3> QED BY <3>1 DEF MayPresent
  <2> QED BY <1>1, <1>3, <2>1, <2>2, Kinds DEF Authorizes, Kept, PointersOf, Admitted
<1>8. ASSUME NEW p \in Conn, Start(p) PROVE Pointers'
  <2>1. PICK o, r : Starts(p, o, r)
    BY <1>8, StartEffect
  <2>2. PointersOf(p) /\ drawn \in Nat
    BY <1>2 DEF SInv, IInv, TypeOK
  <2> QED BY <1>1, <1>3, <2>1, <2>2, Kinds DEF Starts, Kept, PointersOf, Admitted
<1>9. ASSUME NEW p \in Conn, Release(p) PROVE Pointers'
  <2>1. PICK o, r : Releases(p, o, r)
    BY <1>9, ReleaseEffect
  <2>2. rooms[o].display # None => rooms[o].display \in Displays
    BY <2>1 DEF SInv, NoOrphans, Serving, Releases
  <2> QED BY <1>1, <1>3, <2>1, <2>2, Kinds DEF Releases, Kept, PointersOf, Admitted
<1>10. CASE UNCHANGED vars
  BY <1>10 DEF vars, handlerVars, roomVars, SInv, Pointers, Serving, Admitted
<1> QED BY <1>4, <1>5, <1>6, <1>7, <1>8, <1>9, <1>10, ServerNextCases

-----------------------------------------------------------------------------
(* Who is in a Room.                                                      *)

\* Whoever a Room at address o holds: NoOrphans and RoomsBound for one Room.
Bound(o, r) ==
  /\ r.display # None => /\ Serving(r.display) /\ my[r.display].room = o
                         /\ RoomOf[r.display] = r.id
  /\ r.presenter # None => /\ Admitted(r.presenter) /\ my[r.presenter].room = o
                           /\ my[r.presenter].peer = r.display

LEMMA BoundEach == NoOrphans /\ RoomsBound <=> \A o \in DOMAIN rooms : Bound(o, rooms[o])
BY DEF NoOrphans, RoomsBound, Bound

\* A Room's display and presenter have handlers that will take them out, and
\* each knows which Room and which display: no step changes that.
LEMMA BoundKept ==
  ASSUME SInv, ServerNext \/ UNCHANGED vars
  PROVE  (NoOrphans /\ RoomsBound)'
<1>1. \A q \in DOMAIN rooms : Bound(q, rooms[q])
  BY BoundEach DEF SInv
<1>2. None \notin Displays /\ None \notin Presenters
  BY NoneIsNoConn, Connections
<1>3. ASSUME NEW o, NEW r, Heap(o, r), Bound(o, r)',
             \A q \in DOMAIN rooms : q # o => Bound(q, rooms[q])'
      PROVE  (NoOrphans /\ RoomsBound)'
  <2>1. ASSUME NEW q \in DOMAIN rooms' PROVE Bound(q, rooms[q])'
    BY <1>3, <2>1, HeapFacts DEF Bound
  <2> QED BY <2>1 DEF NoOrphans, RoomsBound, Bound
<1>4. ASSUME UNCHANGED rooms, \A q \in DOMAIN rooms : Bound(q, rooms[q])'
      PROVE  (NoOrphans /\ RoomsBound)'
  BY <1>4 DEF NoOrphans, RoomsBound, Bound
<1>5. ASSUME NEW c \in Conn, LocalStep(c) PROVE (NoOrphans /\ RoomsBound)'
  <2>1. Keeps(c) /\ UNCHANGED rooms
    BY <1>5, LocalKeeps DEF SInv, Keeps, roomVars
  <2>2. ASSUME NEW q \in DOMAIN rooms PROVE Bound(q, rooms[q])'
    BY <1>1, <2>1, Kinds, Connections DEF Bound, Keeps, Others, Serving, Admitted
  <2> QED BY <1>4, <2>1, <2>2
<1>6. ASSUME NEW d \in Conn, Register(d) PROVE (NoOrphans /\ RoomsBound)'
  <2>1. PICK o, r : Registers(d, o, r)
    BY <1>6, RegisterEffect
  <2>2. Heap(o, r) /\ Others(d) /\ d \in Displays /\ pc[d] = "reading"
    BY <2>1 DEF Registers, Kept
  <2>3. Bound(o, r)'
    BY <2>1 DEF Registers, Bound, Serving
  <2>4. ASSUME NEW q \in DOMAIN rooms, q # o PROVE Bound(q, rooms[q])'
    <3>1. UNCHANGED rooms[q]
      BY <2>2, <2>4, HeapFacts DEF Heap
    <3> QED BY <1>1, <2>2, <3>1, Kinds, Connections DEF Bound, Others, Serving, Admitted
  <2> QED BY <1>3, <2>2, <2>3, <2>4
<1>7. ASSUME NEW d \in Conn, Unregister(d) PROVE (NoOrphans /\ RoomsBound)'
  <2>1. PICK o, r : Unregisters(d, o, r)
    BY <1>7, UnregisterEffect
  <2>2. Others(d) /\ d \in Displays
    BY <2>1 DEF Unregisters, Kept
  <2>3. CASE UNCHANGED rooms /\ \A q \in DOMAIN rooms : rooms[q].display # d
    <3>1. ASSUME NEW q \in DOMAIN rooms PROVE Bound(q, rooms[q])'
      BY <1>1, <2>2, <2>3, Kinds, Connections DEF Bound, Others, Serving, Admitted
    <3> QED BY <1>4, <2>3, <3>1
  <2>4. CASE /\ Heap(o, r) /\ o \in DOMAIN rooms /\ rooms[o].display = d
             /\ r.display = None /\ r.presenter = None
    <3>1. Bound(o, r)'
      BY <2>4 DEF Bound
    <3>2. my[d].room = o
      BY <1>1, <1>2, <2>2, <2>4 DEF Bound
    <3>3. ASSUME NEW q \in DOMAIN rooms, q # o PROVE Bound(q, rooms[q])'
      <4>1. UNCHANGED rooms[q]
        BY <2>4, <3>3, HeapFacts DEF Heap
      <4>2. rooms[q].display # d
        BY <1>1, <1>2, <2>2, <3>2, <3>3 DEF Bound
      <4> QED BY <1>1, <2>2, <4>1, <4>2, Kinds, Connections DEF Bound, Others, Serving, Admitted
    <3> QED BY <1>3, <2>4, <3>1, <3>3
  <2> QED BY <2>1, <2>3, <2>4 DEF Unregisters
<1>8. ASSUME NEW p \in Conn, Authorize(p) PROVE (NoOrphans /\ RoomsBound)'
  <2>1. PICK o, r : Authorizes(p, o, r)
    BY <1>8, AuthorizeEffect
  <2>2. Others(p) /\ p \in Presenters /\ pc[p] = "authorize" /\ o \in DOMAIN rooms
    BY <2>1 DEF Authorizes, Kept
  <2>3. ASSUME NEW q \in DOMAIN rooms, UNCHANGED rooms[q] PROVE Bound(q, rooms[q])'
    BY <1>1, <2>2, <2>3, Kinds, Connections DEF Bound, Others, Serving, Admitted
  <2>4. CASE UNCHANGED rooms
    BY <1>4, <2>3, <2>4
  <2>5. CASE MayPresent(o, my[p].code)
    <3>1. /\ Heap(o, r) /\ r.display = rooms[o].display /\ r.id = rooms[o].id
          /\ r.presenter = p
          /\ pc'[p] = "refresh" /\ my'[p].room = o /\ my'[p].peer = rooms[o].display
      BY <2>1, <2>5 DEF Authorizes
    <3>2. Bound(o, r)'
      BY <1>1, <2>2, <3>1, Kinds, Connections DEF Bound, Others, Serving, Admitted
    <3> QED BY <1>3, <2>3, <3>1, <3>2, HeapFacts DEF Heap
  <2> QED BY <2>1, <2>4, <2>5 DEF Authorizes
<1>9. ASSUME NEW p \in Conn, Start(p) PROVE (NoOrphans /\ RoomsBound)'
  <2>1. PICK o, r : Starts(p, o, r)
    BY <1>9, StartEffect
  <2>2. Others(p) /\ p \in Presenters /\ o \in DOMAIN rooms
    BY <2>1 DEF Starts, Kept
  <2>3. /\ my'[p].room = my[p].room /\ my'[p].peer = my[p].peer
        /\ Admitted(p) /\ Admitted(p)'
    BY <2>1 DEF Starts, Admitted
  <2>4. ASSUME NEW q \in DOMAIN rooms, UNCHANGED rooms[q] PROVE Bound(q, rooms[q])'
    BY <1>1, <2>2, <2>3, <2>4, Kinds, Connections DEF Bound, Others, Serving, Admitted
  <2>5. CASE UNCHANGED rooms
    BY <1>4, <2>4, <2>5
  <2>6. CASE MayStart(o, p, my[p].generation)
    <3>1. /\ Heap(o, r) /\ r.display = rooms[o].display /\ r.id = rooms[o].id
          /\ r.presenter = rooms[o].presenter
      BY <2>1, <2>6 DEF Starts, MayStart
    <3>2. Bound(o, r)'
      BY <1>1, <2>2, <2>3, <3>1, Kinds, Connections DEF Bound, Others, Serving, Admitted
    <3> QED BY <1>3, <2>4, <3>1, <3>2, HeapFacts DEF Heap
  <2> QED BY <2>1, <2>5, <2>6 DEF Starts
<1>10. ASSUME NEW p \in Conn, Release(p) PROVE (NoOrphans /\ RoomsBound)'
  <2>1. PICK o, r : Releases(p, o, r)
    BY <1>10, ReleaseEffect
  <2>2. Others(p) /\ p \in Presenters /\ o \in DOMAIN rooms /\ my[p].room = o
    BY <2>1 DEF Releases, Kept
  <2>3. ASSUME NEW q \in DOMAIN rooms, UNCHANGED rooms[q], rooms[q].presenter # p
        PROVE  Bound(q, rooms[q])'
    BY <1>1, <2>2, <2>3, Kinds, Connections DEF Bound, Others, Serving, Admitted
  <2>4. ASSUME NEW q \in DOMAIN rooms, q # o PROVE rooms[q].presenter # p
    BY <1>1, <1>2, <2>2, <2>4 DEF Bound
  <2>5. CASE UNCHANGED rooms /\ rooms[o].presenter # p
    BY <1>4, <2>3, <2>4, <2>5
  <2>6. CASE rooms[o].presenter = p
    <3>1. /\ Heap(o, r) /\ r.display = rooms[o].display /\ r.id = rooms[o].id
          /\ r.presenter = None
      BY <2>1, <2>6 DEF Releases
    <3>2. Bound(o, r)'
      BY <1>1, <2>2, <3>1, Kinds, Connections DEF Bound, Others, Serving, Admitted
    <3>3. ASSUME NEW q \in DOMAIN rooms, q # o PROVE Bound(q, rooms[q])'
      BY <2>3, <2>4, <3>1, <3>3, HeapFacts DEF Heap
    <3> QED BY <1>3, <3>1, <3>2, <3>3
  <2> QED BY <2>1, <2>5, <2>6 DEF Releases
<1>11. CASE UNCHANGED vars
  <2>1. ASSUME NEW q \in DOMAIN rooms PROVE Bound(q, rooms[q])'
    BY <1>1, <1>11 DEF vars, handlerVars, roomVars, Bound, Serving, Admitted
  <2> QED BY <1>4, <1>11, <2>1 DEF vars, roomVars
<1> QED BY <1>5, <1>6, <1>7, <1>8, <1>9, <1>10, <1>11, ServerNextCases

-----------------------------------------------------------------------------
(* The invariant, and what follows from it.                               *)

LEMMA InitSInv == ServerInit => SInv
<1> SUFFICES ASSUME ServerInit PROVE SInv
  OBVIOUS
<1> USE DEF ServerInit
<1>1. IInv /\ DOMAIN rooms = {} /\ Len(rooms) = 0 /\ drawn = 0
  BY InitIInv DEF Init
<1>2. NoLocal \in Local
  BY DEF NoLocal, Local
<1>3. HandlersTypeOK
  <2>1. pc \in [Conn -> Stage] /\ link \in [Conn -> Link] /\ my \in [Conn -> Local]
    BY <1>2 DEF Stage, Link
  <2>2. \A c \in Conn : pc[c] = "idle" /\ my[c].room \in 0..Len(rooms)
    BY <1>1 DEF NoLocal
  <2>3. /\ \A d \in Displays : pc[d] \notin PresenterStage
        /\ \A p \in Presenters : pc[p] \notin DisplayStage
    BY <2>2, Connections DEF DisplayStage, PresenterStage
  <2>4. PagesTyped
    BY <1>1 DEF PagesTyped
  <2> QED BY <2>1, <2>2, <2>3, <2>4 DEF HandlersTypeOK, PagesTyped
<1>4. Reading = {}
  BY DEF Reading
<1>5. IsFiniteSet(Reading) /\ SlotsAccounted
  BY <1>4, FS_EmptySet, SomeSlot DEF SlotsAccounted, Reading
<1>6. StringsDrawn /\ Pointers /\ NoOrphans /\ RoomsBound
  BY <1>1, Connections
     DEF StringsDrawn, Pointers, NoOrphans, RoomsBound, Serving, Admitted, NoLocal
<1> QED BY <1>1, <1>3, <1>5, <1>6 DEF SInv

LEMMA NextSInv == SInv /\ [ServerNext]_vars => SInv'
<1> SUFFICES ASSUME SInv, ServerNext \/ UNCHANGED vars PROVE SInv'
  OBVIOUS
<1>1. IInv'
  BY StoreStep, NextIInv DEF SInv
<1>2. HandlersTypeOK' /\ StringsDrawn' /\ Pointers'
  BY TypesKept, StringsKept, PointersKept
<1>3. SlotsAccounted' /\ IsFiniteSet(Reading')
  BY SlotsKept
<1>4. NoOrphans' /\ RoomsBound'
  BY BoundKept
<1> QED BY <1>1, <1>2, <1>3, <1>4 DEF SInv

LEMMA ServerInvariant == ServerSpec => []SInv
BY InitSInv, NextSInv, PTL DEF ServerSpec

\* Every handler stays at stages of its own kind with locals of their types, and
\* every page shows and remembers only strings that the server has drawn.
THEOREM HandlersTypeCorrect == ServerSpec => []HandlersTypeOK
<1>1. SInv => HandlersTypeOK
  BY DEF SInv
<1> QED BY <1>1, ServerInvariant, PTL

\* App.preAuth is returned to by every way out of initialAuth (core/signal.go):
\* its messages are exactly the connections being read, and never too many.
THEOREM SlotsAreAccounted == ServerSpec => []SlotsAccounted
<1>1. SInv => SlotsAccounted
  BY DEF SInv
<1> QED BY <1>1, ServerInvariant, PTL

\* Whoever a Room holds has a handler that will call RemoveDisplay or
\* ReleasePresenter for it: no error path of handleDisplay or handlePresenter
\* leaves a room occupied for good.
THEOREM NobodyIsOrphaned == ServerSpec => []NoOrphans
<1>1. SInv => NoOrphans
  BY DEF SInv
<1> QED BY <1>1, ServerInvariant, PTL

\* A session joins its caller to the display that caller was admitted to, whatever
\* displays came and went between AuthorizePresenter and StartSession.
THEOREM SessionsAreBound == ServerSpec => []SessionsBound
<1>1. ASSUME SInv PROVE SessionsBound
  <2> SUFFICES ASSUME NEW o \in DOMAIN rooms, NEW s \in rooms[o].sessions
               PROVE  my[s.caller].peer = s.callee
    BY DEF SessionsBound
  <2>1. s.caller = rooms[o].presenter /\ s.callee = rooms[o].display
    BY <1>1 DEF SInv, IInv, RoomConsistent, Consistent
  <2>2. rooms[o].presenter # None
    <3>1. rooms[o] \in Room
      BY <1>1 DEF SInv, IInv, TypeOK
    <3>2. s.caller \in Conn
      BY <3>1 DEF Room, Session
    <3> QED BY <2>1, <3>2, NoneIsNoConn
  <2> QED BY <1>1, <2>1, <2>2 DEF SInv, RoomsBound
<1> QED BY <1>1, ServerInvariant, PTL

\* The handlers call the store only as its own specification foresees: with Rooms
\* they looked up, with generations those Rooms had, with codes right or wrong.
THEOREM HandlersUseTheStore == ServerSpec => Spec
<1>1. ServerInit => Init
  BY DEF ServerInit
<1>2. SInv /\ [ServerNext]_vars => [Next]_roomVars
  BY StoreStep
<1> QED BY <1>1, <1>2, ServerInvariant, PTL DEF ServerSpec, Spec

\* So the server as a whole, with all its handlers and broken connections, keeps
\* the promises of MeetingRoom to the users of each room.
THEOREM ServerKeepsRooms == ServerSpec => ImplementsMeetingRoom
BY HandlersUseTheStore, StoreImplementsMeetingRoom

=============================================================================
