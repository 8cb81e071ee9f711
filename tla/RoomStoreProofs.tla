--------------------------- MODULE RoomStoreProofs ---------------------------
(***************************************************************************)
(* Proofs about RoomStore, for any set of rooms and connections, any number*)
(* of Room objects and of random strings: its type invariant, its safety   *)
(* invariants, and that it implements MeetingRoom.                         *)
(***************************************************************************)
EXTENDS RoomStore, TLAPS

-----------------------------------------------------------------------------
(* What the operations do to one Room.                                       *)

\* The records the methods build are Rooms.
LEMMA NewRoomType == ASSUME NEW id \in RoomID PROVE NewRoom(id) \in Room
BY DEF NewRoom, Room

LEMMA VacatedType == ASSUME NEW r \in Room PROVE Vacated(r) \in Room
<1>1. r.generation + 1 \in Nat
  BY DEF Room
<1>2. {} \in SUBSET Session
  OBVIOUS
<1> QED BY <1>1, <1>2 DEF Vacated, Room

\* Both changes of display leave no presenter and no session behind.
LEMMA VacatedEmpty ==
  ASSUME NEW r \in Room
  PROVE  /\ Vacated(r).presenter = None
         /\ Vacated(r).sessions = {}
         /\ Vacated(r).display = r.display
         /\ Vacated(r).id = r.id
         /\ Vacated(r).code = r.code
BY DEF Vacated, Room

LEMMA CurrentType ==
  ASSUME TypeOK, NEW id \in RoomID
  PROVE  /\ Current(id) \in Room
         /\ Present(id) => store[id] \in DOMAIN rooms
<1>1. CASE Present(id)
  <2>1. store[id] \in 1..Len(rooms)
    BY <1>1 DEF TypeOK, Present
  <2>2. rooms[store[id]] \in Room
    BY <2>1 DEF TypeOK
  <2> QED BY <1>1, <2>1, <2>2 DEF Current, TypeOK
<1>2. CASE ~Present(id)
  BY <1>2, NewRoomType DEF Current
<1> QED BY <1>1, <1>2

LEMMA WithDisplayType ==
  ASSUME TypeOK, NEW id \in RoomID, NEW c \in Conn
  PROVE  /\ WithDisplay(id, c) \in Room
         /\ WithDisplay(id, c).display = c
         /\ WithDisplay(id, c).presenter = None
         /\ WithDisplay(id, c).sessions = {}
         /\ WithDisplay(id, c).id = Current(id).id
         /\ WithDisplay(id, c).code = drawn + 1
<1>1. Vacated(Current(id)) \in Room
  BY CurrentType, VacatedType
<1>2. drawn + 1 \in Nat
  BY DEF TypeOK
<1> QED BY <1>1, <1>2, CurrentType, VacatedEmpty DEF WithDisplay, Room

-----------------------------------------------------------------------------
(* Type correctness.                                                         *)

\* Replacing a Room by a Room, or adding one, keeps the heap a heap.
LEMMA HeapUpdate ==
  ASSUME rooms \in Seq(Room), NEW o \in DOMAIN rooms, NEW r \in Room
  PROVE  /\ [rooms EXCEPT ![o] = r] \in Seq(Room)
         /\ Len([rooms EXCEPT ![o] = r]) = Len(rooms)
         /\ DOMAIN [rooms EXCEPT ![o] = r] = DOMAIN rooms
OBVIOUS

LEMMA HeapAppend ==
  ASSUME rooms \in Seq(Room), NEW r \in Room
  PROVE  /\ Append(rooms, r) \in Seq(Room)
         /\ Len(Append(rooms, r)) = Len(rooms) + 1
         /\ DOMAIN Append(rooms, r) = DOMAIN rooms \cup {Len(rooms) + 1}
         /\ \A o \in DOMAIN rooms : Append(rooms, r)[o] = rooms[o]
         /\ Append(rooms, r)[Len(rooms) + 1] = r
         /\ Len(rooms) + 1 \notin DOMAIN rooms
OBVIOUS

LEMMA InitTypeOK == Init => TypeOK
BY DEF Init, TypeOK

LEMMA SetDisplayTypeOK ==
  ASSUME TypeOK, NEW id \in RoomID, NEW c \in Conn, SetDisplay(id, c)
  PROVE  TypeOK'
<1>1. drawn' \in Nat
  BY DEF TypeOK, SetDisplay
<1>2. CASE /\ Present(id)
           /\ rooms' = [rooms EXCEPT ![store[id]] = WithDisplay(id, c)]
           /\ UNCHANGED store
  BY <1>1, <1>2, CurrentType, WithDisplayType, HeapUpdate DEF TypeOK
<1>3. CASE /\ ~Present(id)
           /\ rooms' = Append(rooms, WithDisplay(id, c))
           /\ store' = [store EXCEPT ![id] = Len(rooms) + 1]
  <2>1. rooms' \in Seq(Room) /\ Len(rooms') = Len(rooms) + 1
    BY <1>3, WithDisplayType, HeapAppend DEF TypeOK
  <2>2. store' \in [RoomID -> 0..Len(rooms')]
    BY <1>3, <2>1 DEF TypeOK
  <2> QED BY <1>1, <2>1, <2>2 DEF TypeOK
<1> QED BY <1>2, <1>3 DEF SetDisplay

LEMMA NextTypeOK == TypeOK /\ [Next]_roomVars => TypeOK'
<1> SUFFICES ASSUME TypeOK, [Next]_roomVars PROVE TypeOK'
  OBVIOUS
<1>1. ASSUME NEW c \in Conn, NEW id \in RoomID, SetDisplay(id, c)
      PROVE  TypeOK'
  BY <1>1, SetDisplayTypeOK
<1>2. ASSUME NEW c \in Conn, NEW id \in RoomID, RemoveDisplay(id, c)
      PROVE  TypeOK'
  <2>1. CASE ~IsDisplay(id, c) /\ UNCHANGED roomVars
    BY <2>1 DEF TypeOK, roomVars
  <2>2. CASE /\ IsDisplay(id, c)
             /\ rooms' = [rooms EXCEPT ![store[id]] = WithoutDisplay(@)]
             /\ store' = [store EXCEPT ![id] = 0]
             /\ UNCHANGED drawn
    <3>1. store[id] \in DOMAIN rooms /\ rooms[store[id]] \in Room
      BY <2>2, CurrentType DEF IsDisplay, TypeOK
    <3>2. WithoutDisplay(rooms[store[id]]) \in Room
      BY <3>1, VacatedType DEF WithoutDisplay, Room
    <3>3. rooms' \in Seq(Room) /\ Len(rooms') = Len(rooms)
      BY <2>2, <3>1, <3>2, HeapUpdate DEF TypeOK
    <3> QED BY <2>2, <3>3 DEF TypeOK
  <2> QED BY <1>2, <2>1, <2>2 DEF RemoveDisplay
<1>3. ASSUME NEW c \in Conn, NEW o \in DOMAIN rooms, NEW code,
             AuthorizePresenter(o, code, c)
      PROVE  TypeOK'
  <2>1. rooms[o] \in Room
    BY DEF TypeOK
  <2>2. drawn + 1 \in Nat
    BY DEF TypeOK
  <2>3. WithPresenter(rooms[o], c) \in Room
    BY <2>1, <2>2 DEF WithPresenter, Room
  <2>4. CASE UNCHANGED roomVars
    BY <2>4 DEF TypeOK, roomVars
  <2>5. CASE /\ rooms' = [rooms EXCEPT ![o] = WithPresenter(@, c)]
             /\ drawn' = drawn + 1
             /\ UNCHANGED store
    BY <2>2, <2>3, <2>5, HeapUpdate DEF TypeOK
  <2> QED BY <1>3, <2>4, <2>5 DEF AuthorizePresenter
<1>4. ASSUME NEW c \in Conn, NEW o \in DOMAIN rooms, NEW g,
             StartSession(o, c, g)
      PROVE  TypeOK'
  <2> DEFINE s == [id |-> drawn + 1, caller |-> c, callee |-> rooms[o].display]
  <2>1. rooms[o] \in Room
    BY DEF TypeOK
  <2>2. CASE ~MayStart(o, c, g) /\ UNCHANGED roomVars
    BY <2>2 DEF TypeOK, roomVars
  <2>3. CASE MayStart(o, c, g) /\ ~UNCHANGED roomVars
    <3>1. s \in Session
      BY <2>1, <2>3 DEF Session, Room, MayStart, TypeOK
    <3>2. [rooms[o] EXCEPT !.sessions = {s}] \in Room
      BY <2>1, <3>1 DEF Room
    <3>3. rooms' = [rooms EXCEPT ![o] = [rooms[o] EXCEPT !.sessions = {s}]]
      BY <1>4, <2>3 DEF StartSession, TypeOK
    <3>4. drawn' \in Nat /\ UNCHANGED store
      BY <1>4, <2>3 DEF StartSession, TypeOK
    <3> QED BY <3>2, <3>3, <3>4, HeapUpdate DEF TypeOK
  <2> QED BY <1>4, <2>2, <2>3 DEF StartSession, TypeOK, roomVars
<1>5. ASSUME NEW c \in Conn, NEW o \in DOMAIN rooms, ReleasePresenter(o, c)
      PROVE  TypeOK'
  <2> DEFINE r == [rooms[o] EXCEPT !.presenter = None,
                                   !.sessions = {s \in @ : s.caller # c}]
  <2>1. rooms[o] \in Room
    BY DEF TypeOK
  <2>2. r \in Room
    BY <2>1 DEF Room
  <2>3. CASE UNCHANGED roomVars
    BY <2>3 DEF TypeOK, roomVars
  <2>4. CASE rooms' = [rooms EXCEPT ![o] = r] /\ UNCHANGED <<store, drawn>>
    BY <2>2, <2>4, HeapUpdate DEF TypeOK
  <2> QED BY <1>5, <2>3, <2>4 DEF ReleasePresenter
<1>6. CASE UNCHANGED roomVars
  BY <1>6 DEF TypeOK, roomVars
<1> QED BY <1>1, <1>2, <1>3, <1>4, <1>5, <1>6 DEF Next

\* The fields of the Rooms and of the store keep their types, whatever is
\* called on them and by whom (core/room.go).
THEOREM TypeCorrect == Spec => []TypeOK
BY InitTypeOK, NextTypeOK, PTL DEF Spec

-----------------------------------------------------------------------------
(* The safety invariants.  Together, and with TypeOK, they are inductive:    *)
(* RemoveDisplay finds its Room through the store, so that the Room loses    *)
(* its place there when it loses its display needs DeletedRoomsInert, and    *)
(* that a free room has no session left needs RoomConsistent.                *)

IInv == TypeOK /\ RoomConsistent /\ DeletedRoomsInert

LEMMA EmptyConsistent ==
  ASSUME NEW r, r.presenter = None, r.sessions = {}
  PROVE  Consistent(r)
BY DEF Consistent

\* A change of one Room that keeps its id and whether it has a display keeps
\* both invariants, if the Room stays consistent.
LEMMA OneRoomChanges ==
  ASSUME IInv, NEW o \in DOMAIN rooms, NEW r \in Room,
         rooms' = [rooms EXCEPT ![o] = r], UNCHANGED store,
         r.id = rooms[o].id,
         r.display = None <=> rooms[o].display = None,
         Consistent(r)
  PROVE  RoomConsistent' /\ DeletedRoomsInert'
<1>1. DOMAIN rooms' = DOMAIN rooms
  OBVIOUS
<1>2. \A q \in DOMAIN rooms : rooms'[q] = IF q = o THEN r ELSE rooms[q]
  BY DEF IInv, TypeOK
<1>3. RoomConsistent'
  BY <1>1, <1>2 DEF IInv, RoomConsistent, Consistent
<1>4. \A q \in DOMAIN rooms : /\ rooms'[q].id = rooms[q].id
                              /\ rooms'[q].display # None <=> rooms[q].display # None
  BY <1>2
<1>5. \A id \in RoomID : Present(id) => store[id] \in DOMAIN rooms
  BY CurrentType DEF IInv
<1>6. DeletedRoomsInert'
  BY <1>1, <1>4, <1>5 DEF IInv, DeletedRoomsInert, Present
<1> QED BY <1>3, <1>6

LEMMA UnchangedIInv == IInv /\ UNCHANGED roomVars => IInv'
BY DEF IInv, TypeOK, RoomConsistent, DeletedRoomsInert, Present, roomVars

\* The ids of the Rooms in the heap are room ids; no Room has address 0.
LEMMA HeapIds ==
  ASSUME TypeOK PROVE \A o \in DOMAIN rooms : rooms[o].id \in RoomID /\ o # 0
<1> SUFFICES ASSUME NEW o \in DOMAIN rooms PROVE rooms[o].id \in RoomID /\ o # 0
  OBVIOUS
<1>1. rooms[o] \in Room /\ o # 0
  BY DEF TypeOK
<1> QED BY <1>1 DEF Room

LEMMA SetDisplayIInv ==
  ASSUME IInv, NEW id \in RoomID, NEW c \in Conn, SetDisplay(id, c)
  PROVE  RoomConsistent' /\ DeletedRoomsInert'
<1> DEFINE r == WithDisplay(id, c)
<1>1. /\ r \in Room /\ r.id = Current(id).id
      /\ r.display = c /\ r.presenter = None /\ r.sessions = {}
  BY WithDisplayType DEF IInv
<1>2. Consistent(r)
  BY <1>1, EmptyConsistent
<1>3. r.display # None
  BY <1>1, NoneIsNoConn
<1>4. CASE /\ Present(id)
           /\ rooms' = [rooms EXCEPT ![store[id]] = r]
           /\ UNCHANGED store
  <2>1. store[id] \in DOMAIN rooms
    BY <1>4, CurrentType DEF IInv
  <2>2. Current(id) = rooms[store[id]]
    BY <1>4 DEF Current
  <2>3. rooms[store[id]].display # None
    BY <1>4, <2>1 DEF IInv, DeletedRoomsInert
  <2> QED BY <1>1, <1>2, <1>3, <1>4, <2>1, <2>2, <2>3, OneRoomChanges
<1>5. CASE /\ ~Present(id)
           /\ rooms' = Append(rooms, r)
           /\ store' = [store EXCEPT ![id] = Len(rooms) + 1]
  <2> DEFINE n == Len(rooms) + 1
  <2>1. /\ DOMAIN rooms' = DOMAIN rooms \cup {n} /\ n \notin DOMAIN rooms
        /\ \A o \in DOMAIN rooms : rooms'[o] = rooms[o]
        /\ rooms'[n] = r
    BY <1>1, <1>5, HeapAppend DEF IInv, TypeOK
  <2>2. r.id = id
    BY <1>1, <1>5 DEF Current, NewRoom
  <2>3. RoomConsistent'
    BY <1>2, <2>1 DEF IInv, RoomConsistent, Consistent
  <2>4. store'[id] = n /\ \A i \in RoomID \ {id} : store'[i] = store[i]
    BY <1>5 DEF IInv, TypeOK
  <2>5. ASSUME NEW i \in RoomID, store'[i] # 0
        PROVE  rooms'[store'[i]].id = i
    BY <2>1, <2>2, <2>4, <2>5, CurrentType DEF IInv, DeletedRoomsInert, Present
  <2>6. ASSUME NEW o \in DOMAIN rooms'
        PROVE  rooms'[o].display # None <=> store'[rooms'[o].id] = o
    <3>1. CASE o = n
      BY <3>1, <1>3, <2>1, <2>2, <2>4
    <3>2. CASE o # n
      <4>1. o \in DOMAIN rooms /\ rooms'[o] = rooms[o] /\ rooms[o].id \in RoomID
        BY <2>1, <3>2, HeapIds DEF IInv
      <4>2. rooms[o].id = id => rooms[o].display = None
        BY <4>1, <1>5 DEF IInv, DeletedRoomsInert, Present
      <4> QED BY <4>1, <4>2, <3>2, <2>4 DEF IInv, DeletedRoomsInert
    <3> QED BY <3>1, <3>2
  <2> QED BY <2>3, <2>5, <2>6 DEF DeletedRoomsInert, Present
<1> QED BY <1>4, <1>5 DEF SetDisplay

LEMMA RemoveDisplayIInv ==
  ASSUME IInv, NEW id \in RoomID, NEW c \in Conn, IsDisplay(id, c),
         rooms' = [rooms EXCEPT ![store[id]] = WithoutDisplay(@)],
         store' = [store EXCEPT ![id] = 0]
  PROVE  RoomConsistent' /\ DeletedRoomsInert'
<1> DEFINE k == store[id]
           r == WithoutDisplay(rooms[k])
<1>1. k \in DOMAIN rooms /\ rooms[k] \in Room /\ rooms[k].id = id /\ k # 0
  BY CurrentType DEF IInv, TypeOK, IsDisplay, Present, DeletedRoomsInert
<1>2. /\ r.id = id /\ r.display = None
      /\ r.presenter = None /\ r.sessions = {}
  BY <1>1, VacatedType, VacatedEmpty DEF WithoutDisplay, Room
<1>3. /\ DOMAIN rooms' = DOMAIN rooms
      /\ \A o \in DOMAIN rooms : rooms'[o] = IF o = k THEN r ELSE rooms[o]
  BY <1>1 DEF IInv, TypeOK
<1>4. store'[id] = 0 /\ \A i \in RoomID \ {id} : store'[i] = store[i]
  BY DEF IInv, TypeOK
<1>5. RoomConsistent'
  BY <1>2, <1>3, EmptyConsistent DEF IInv, RoomConsistent, Consistent
<1>6. ASSUME NEW i \in RoomID, store'[i] # 0
      PROVE  rooms'[store'[i]].id = i
  BY <1>2, <1>3, <1>4, <1>6, CurrentType DEF IInv, DeletedRoomsInert, Present
<1>7. ASSUME NEW o \in DOMAIN rooms
      PROVE  rooms'[o].display # None <=> store'[rooms'[o].id] = o
  <2>1. rooms[o].id \in RoomID /\ o # 0
    BY HeapIds DEF IInv
  <2>2. CASE o = k
    BY <2>2, <1>1, <1>2, <1>3, <1>4
  <2>3. CASE o # k
    BY <2>1, <2>3, <1>3, <1>4 DEF IInv, DeletedRoomsInert
  <2> QED BY <2>2, <2>3
<1> QED BY <1>3, <1>5, <1>6, <1>7 DEF DeletedRoomsInert, Present

LEMMA InitIInv == Init => IInv
BY InitTypeOK DEF Init, IInv, RoomConsistent, DeletedRoomsInert, Present

LEMMA NextIInv == IInv /\ [Next]_roomVars => IInv'
<1> SUFFICES ASSUME IInv, [Next]_roomVars PROVE IInv'
  OBVIOUS
<1>0. TypeOK'
  BY NextTypeOK DEF IInv
<1>1. ASSUME NEW c \in Conn, NEW id \in RoomID, SetDisplay(id, c)
      PROVE  IInv'
  BY <1>0, <1>1, SetDisplayIInv DEF IInv
<1>2. ASSUME NEW c \in Conn, NEW id \in RoomID, RemoveDisplay(id, c)
      PROVE  IInv'
  BY <1>0, <1>2, RemoveDisplayIInv, UnchangedIInv DEF RemoveDisplay, IInv
<1>3. ASSUME NEW c \in Conn, NEW o \in DOMAIN rooms, NEW code,
             AuthorizePresenter(o, code, c)
      PROVE  IInv'
  <2>1. CASE UNCHANGED roomVars
    BY <2>1, UnchangedIInv
  <2>2. CASE /\ MayPresent(o, code)
             /\ rooms' = [rooms EXCEPT ![o] = WithPresenter(@, c)]
             /\ UNCHANGED store
    <3> DEFINE r == WithPresenter(rooms[o], c)
    <3>1. rooms[o] \in Room /\ drawn + 1 \in Nat
      BY DEF IInv, TypeOK
    <3>2. /\ r \in Room /\ r.id = rooms[o].id /\ r.display = rooms[o].display
          /\ r.sessions = rooms[o].sessions
      BY <3>1 DEF WithPresenter, Room
    <3>3. rooms[o].sessions = {}
      <4>1. \A s \in rooms[o].sessions : s.caller = None
        BY <2>2 DEF IInv, RoomConsistent, Consistent, MayPresent
      <4>2. \A s \in rooms[o].sessions : s.caller \in Conn
        BY <3>1 DEF Room, Session
      <4> QED BY <4>1, <4>2, NoneIsNoConn
    <3>4. Consistent(r)
      BY <2>2, <3>2, <3>3 DEF Consistent, MayPresent
    <3>5. RoomConsistent' /\ DeletedRoomsInert'
      BY <2>2, <3>2, <3>4, OneRoomChanges
    <3> QED BY <1>0, <3>5 DEF IInv
  <2> QED BY <1>3, <2>1, <2>2 DEF AuthorizePresenter
<1>4. ASSUME NEW c \in Conn, NEW o \in DOMAIN rooms, NEW g,
             StartSession(o, c, g)
      PROVE  IInv'
  <2> DEFINE s == [id |-> drawn + 1, caller |-> c, callee |-> rooms[o].display]
             r == [rooms[o] EXCEPT !.sessions = {s}]
  <2>1. CASE UNCHANGED roomVars
    BY <2>1, UnchangedIInv
  <2>2. CASE MayStart(o, c, g) /\ ~UNCHANGED roomVars
    <3>1. rooms[o] \in Room /\ drawn + 1 \in Nat
      BY DEF IInv, TypeOK
    <3>2. s \in Session
      BY <3>1, <2>2 DEF Session, Room, MayStart
    <3>3. /\ r \in Room /\ r.id = rooms[o].id /\ r.display = rooms[o].display
          /\ r.presenter = rooms[o].presenter /\ r.sessions = {s}
      BY <3>1, <3>2 DEF Room
    <3>4. Consistent(r)
      BY <2>2, <3>3 DEF Consistent, MayStart
    <3>5. rooms' = [rooms EXCEPT ![o] = r] /\ UNCHANGED store
      BY <1>4, <2>2 DEF StartSession, IInv, TypeOK
    <3>6. RoomConsistent' /\ DeletedRoomsInert'
      BY <3>3, <3>4, <3>5, OneRoomChanges
    <3> QED BY <1>0, <3>6 DEF IInv
  <2> QED BY <1>4, <2>1, <2>2 DEF StartSession
<1>5. ASSUME NEW c \in Conn, NEW o \in DOMAIN rooms, ReleasePresenter(o, c)
      PROVE  IInv'
  <2> DEFINE r == [rooms[o] EXCEPT !.presenter = None,
                                   !.sessions = {s \in @ : s.caller # c}]
  <2>1. CASE UNCHANGED roomVars
    BY <2>1, UnchangedIInv
  <2>2. CASE /\ rooms[o].presenter = c
             /\ rooms' = [rooms EXCEPT ![o] = r] /\ UNCHANGED store
    <3>1. rooms[o] \in Room
      BY DEF IInv, TypeOK
    <3>2. /\ r \in Room /\ r.id = rooms[o].id /\ r.display = rooms[o].display
          /\ r.presenter = None
          /\ r.sessions = {s \in rooms[o].sessions : s.caller # c}
      BY <3>1 DEF Room
    <3>3. r.sessions = {}
      BY <2>2, <3>2 DEF IInv, RoomConsistent, Consistent
    <3>4. RoomConsistent' /\ DeletedRoomsInert'
      BY <2>2, <3>2, <3>3, EmptyConsistent, OneRoomChanges
    <3> QED BY <1>0, <3>4 DEF IInv
  <2>3. \/ UNCHANGED roomVars
        \/ /\ rooms[o].presenter = c
           /\ rooms' = [rooms EXCEPT ![o] = r] /\ UNCHANGED store
    BY <1>5 DEF ReleasePresenter, IInv, TypeOK
  <2> QED BY <2>1, <2>2, <2>3
<1>6. CASE UNCHANGED roomVars
  BY <1>6, UnchangedIInv
<1> QED BY <1>1, <1>2, <1>3, <1>4, <1>5, <1>6 DEF Next

\* A room's presenter, display and session belong together, and there is never
\* a second session (core/room.go, all methods).
THEOREM RoomsConsistent == Spec => []RoomConsistent
BY InitIInv, NextIInv, PTL DEF Spec, IInv

\* A deleted Room keeps no display, so that AuthorizePresenter and StartSession
\* refuse whoever still holds a pointer to it (core/room.go, RemoveDisplay).
THEOREM DeletedRoomsStayInert == Spec => []DeletedRoomsInert
BY InitIInv, NextIInv, PTL DEF Spec, IInv

-----------------------------------------------------------------------------
(* The store implements MeetingRoom.                                         *)

\* A Room that one may be admitted to, or hold the slot of, is the one stored
\* under its id: only live Rooms have a display.
LEMMA LiveRoom ==
  ASSUME IInv, NEW o \in DOMAIN rooms, rooms[o].display # None
  PROVE  \E id \in RoomID : store[id] = o /\ Present(id)
<1>1. store[rooms[o].id] = o /\ o # 0 /\ rooms[o].id \in RoomID
  BY HeapIds DEF IInv, DeletedRoomsInert
<1> QED BY <1>1 DEF Present

\* What a change of the Room stored under id means for what the ids stand for.
LEMMA CurrentChanges ==
  ASSUME IInv, NEW id \in RoomID, Present(id), NEW r \in Room,
         rooms' = [rooms EXCEPT ![store[id]] = r], UNCHANGED store
  PROVE  \A i \in RoomID : Current(i)' = IF i = id THEN r ELSE Current(i)
<1> SUFFICES ASSUME NEW i \in RoomID
             PROVE  Current(i)' = IF i = id THEN r ELSE Current(i)
  OBVIOUS
<1>1. store[id] \in DOMAIN rooms
  BY CurrentType DEF IInv
<1>2. Present(i)' = Present(i)
  BY DEF Present
<1>3. CASE ~Present(i)
  BY <1>2, <1>3 DEF Current, NewRoom
<1>4. CASE Present(i)
  <2>1. store[i] \in DOMAIN rooms
    BY <1>4, CurrentType DEF IInv
  <2>2. store[i] = store[id] => i = id
    BY <1>4 DEF IInv, DeletedRoomsInert
  <2>3. rooms'[store[i]] = IF i = id THEN r ELSE rooms[store[i]]
    BY <1>1, <2>1, <2>2 DEF IInv, TypeOK
  <2> QED BY <1>2, <1>4, <2>3 DEF Current
<1> QED BY <1>3, <1>4

LEMMA DrawnFresh ==
  ASSUME TypeOK, drawn' = drawn + 1
  PROVE  /\ drawn + 1 \notin 1..drawn
         /\ (1..drawn)' = (1..drawn) \cup {drawn + 1}
         /\ drawn + 1 \in (1..drawn)'
BY DEF TypeOK

LEMMA SetDisplayCurrent ==
  ASSUME IInv, NEW id \in RoomID, NEW c \in Conn, SetDisplay(id, c)
  PROVE  \A i \in RoomID :
           Current(i)' = IF i = id THEN WithDisplay(id, c) ELSE Current(i)
<1> DEFINE r == WithDisplay(id, c)
<1>1. r \in Room
  BY WithDisplayType DEF IInv
<1>2. CASE Present(id)
  BY <1>1, <1>2, CurrentChanges DEF SetDisplay
<1>3. CASE ~Present(id)
  <2> DEFINE n == Len(rooms) + 1
  <2>1. /\ \A o \in DOMAIN rooms : rooms'[o] = rooms[o]
        /\ rooms'[n] = r /\ n # 0
    BY <1>1, <1>3, HeapAppend DEF IInv, TypeOK, SetDisplay
  <2>2. store'[id] = n /\ \A i \in RoomID \ {id} : store'[i] = store[i]
    BY <1>3 DEF IInv, TypeOK, SetDisplay
  <2>3. Current(id)' = r
    BY <2>1, <2>2 DEF Current, Present
  <2>4. ASSUME NEW i \in RoomID \ {id} PROVE Current(i)' = Current(i)
    <3>1. CASE Present(i)
      BY <3>1, <2>1, <2>2, CurrentType DEF Current, Present, IInv
    <3>2. CASE ~Present(i)
      BY <3>2, <2>2 DEF Current, Present, NewRoom
    <3> QED BY <3>1, <3>2
  <2> QED BY <2>3, <2>4
<1> QED BY <1>2, <1>3

LEMMA InitImplements == Init => Rooms!Init
BY DEF Init, Rooms!Init, Current, Present, NewRoom

LEMMA NextImplements ==
  IInv /\ IInv' /\ [Next]_roomVars => [Rooms!Next]_(Rooms!vars)
<1> SUFFICES ASSUME IInv, IInv', [Next]_roomVars
             PROVE  [Rooms!Next]_(Rooms!vars)
  OBVIOUS
<1>u. ASSUME UNCHANGED roomVars PROVE UNCHANGED Rooms!vars
  BY <1>u DEF roomVars, Rooms!vars, Current, Present, NewRoom
<1>1. ASSUME NEW c \in Conn, NEW id \in RoomID, SetDisplay(id, c)
      PROVE  Rooms!Attach(id, c)
  <2>1. \A i \in RoomID :
          Current(i)' = IF i = id THEN WithDisplay(id, c) ELSE Current(i)
    BY <1>1, SetDisplayCurrent
  <2>2. drawn' = drawn + 1
    BY <1>1 DEF SetDisplay
  <2>3. /\ WithDisplay(id, c).display = c /\ WithDisplay(id, c).presenter = None
        /\ WithDisplay(id, c).sessions = {}
        /\ WithDisplay(id, c).code = drawn + 1
    BY WithDisplayType DEF IInv
  <2> QED BY <2>1, <2>2, <2>3, DrawnFresh
          DEF IInv, Rooms!Attach, Rooms!Empty, Rooms!Renew
<1>2. ASSUME NEW c \in Conn, NEW id \in RoomID, RemoveDisplay(id, c), IsDisplay(id, c)
      PROVE  Rooms!Detach(id)
  <2>1. /\ rooms' = [rooms EXCEPT ![store[id]] = WithoutDisplay(@)]
        /\ store' = [store EXCEPT ![id] = 0] /\ drawn' = drawn
    BY <1>2 DEF RemoveDisplay
  <2>2. store'[id] = 0 /\ \A i \in RoomID \ {id} : store'[i] = store[i]
    BY <2>1 DEF IInv, TypeOK
  <2>3. Current(id)' = NewRoom(id)
    BY <2>2 DEF Current, Present, NewRoom
  <2>4. ASSUME NEW i \in RoomID \ {id} PROVE Current(i)' = Current(i)
    <3>1. CASE ~Present(i)
      BY <3>1, <2>2 DEF Current, Present, NewRoom
    <3>2. CASE Present(i)
      <4>1. store[i] \in DOMAIN rooms /\ store[id] \in DOMAIN rooms
        BY <3>2, <1>2, CurrentType DEF IInv, IsDisplay
      <4>2. store[i] # store[id]
        BY <3>2, <1>2 DEF IInv, DeletedRoomsInert, IsDisplay
      <4>3. rooms'[store[i]] = rooms[store[i]]
        BY <4>1, <4>2, <2>1 DEF IInv, TypeOK
      <4> QED BY <3>2, <4>3, <2>2 DEF Current, Present
    <3> QED BY <3>1, <3>2
  <2>5. Current(id).display # None
    BY <1>2, NoneIsNoConn DEF IsDisplay, Current
  <2>6. /\ NewRoom(id).display = None /\ NewRoom(id).presenter = None
        /\ NewRoom(id).sessions = {} /\ NewRoom(id).code = 0
    BY DEF NewRoom
  <2> QED BY <2>1, <2>3, <2>4, <2>5, <2>6 DEF Rooms!Detach, Rooms!Empty
<1>3. ASSUME NEW c \in Conn, NEW o \in DOMAIN rooms, NEW code,
             AuthorizePresenter(o, code, c), MayPresent(o, code)
      PROVE  \E id \in RoomID : Rooms!Admit(id, c)
  <2>1. PICK id \in RoomID : store[id] = o /\ Present(id)
    BY <1>3, LiveRoom DEF MayPresent
  <2> DEFINE r == WithPresenter(rooms[o], c)
  <2>2. rooms' = [rooms EXCEPT ![o] = r] /\ drawn' = drawn + 1 /\ UNCHANGED store
    BY <1>3 DEF AuthorizePresenter
  <2>3. rooms[o] \in Room /\ drawn + 1 \in Nat
    BY DEF IInv, TypeOK
  <2>4. /\ r \in Room /\ r.display = rooms[o].display /\ r.presenter = c
        /\ r.sessions = rooms[o].sessions /\ r.code = drawn + 1
    BY <2>3 DEF WithPresenter, Room
  <2>5. \A i \in RoomID : Current(i)' = IF i = id THEN r ELSE Current(i)
    BY <2>1, <2>2, <2>4, CurrentChanges
  <2>6. Current(id) = rooms[o]
    BY <2>1 DEF Current
  <2>7. Rooms!Admit(id, c)
    BY <1>3, <2>2, <2>4, <2>5, <2>6, DrawnFresh
       DEF IInv, MayPresent, Rooms!Admit, Rooms!Renew
  <2> QED BY <2>7
<1>4. ASSUME NEW c \in Conn, NEW o \in DOMAIN rooms, NEW g,
             StartSession(o, c, g), MayStart(o, c, g)
      PROVE  \E id \in RoomID : Rooms!Stream(id)
  <2>1. PICK id \in RoomID : store[id] = o /\ Present(id)
    BY <1>4, LiveRoom DEF MayStart
  <2> DEFINE s == [id |-> drawn + 1, caller |-> c, callee |-> rooms[o].display]
             r == [rooms[o] EXCEPT !.sessions = {s}]
  <2>2. rooms' = [rooms EXCEPT ![o] = r] /\ drawn' = drawn + 1 /\ UNCHANGED store
    BY <1>4 DEF StartSession, IInv, TypeOK
  <2>3. rooms[o] \in Room /\ s \in Session
    <3>1. rooms[o] \in Room /\ drawn + 1 \in Nat
      BY DEF IInv, TypeOK
    <3> QED BY <1>4, <3>1 DEF Session, Room, MayStart
  <2>4. /\ r \in Room /\ r.display = rooms[o].display /\ r.presenter = rooms[o].presenter
        /\ r.sessions = {s} /\ r.code = rooms[o].code
    BY <2>3 DEF Room
  <2>5. \A i \in RoomID : Current(i)' = IF i = id THEN r ELSE Current(i)
    BY <2>1, <2>2, <2>4, CurrentChanges
  <2>6. Current(id) = rooms[o]
    BY <2>1 DEF Current
  <2>7. {<<t.caller, t.callee>> : t \in r.sessions} = {<<c, rooms[o].display>>}
    BY <2>4
  <2>8. /\ rooms[o].presenter = c /\ c # None
        /\ {<<t.caller, t.callee>> : t \in rooms[o].sessions} = {}
    BY <1>4, NoneIsNoConn DEF MayStart
  <2>9. Rooms!Stream(id)
    BY <2>2, <2>4, <2>5, <2>6, <2>7, <2>8, DrawnFresh DEF IInv, Rooms!Stream
  <2> QED BY <2>9
<1>5. ASSUME NEW c \in Conn, NEW o \in DOMAIN rooms, ReleasePresenter(o, c),
             rooms[o].presenter = c
      PROVE  \E id \in RoomID : Rooms!Leave(id)
  <2>1. rooms[o].display # None
    BY <1>5, NoneIsNoConn DEF IInv, RoomConsistent, Consistent
  <2>2. PICK id \in RoomID : store[id] = o /\ Present(id)
    BY <2>1, LiveRoom
  <2> DEFINE r == [rooms[o] EXCEPT !.presenter = None,
                                   !.sessions = {s \in @ : s.caller # c}]
  <2>3. rooms' = [rooms EXCEPT ![o] = r] /\ UNCHANGED <<store, drawn>>
    BY <1>5 DEF ReleasePresenter, IInv, TypeOK
  <2>4. rooms[o] \in Room
    BY DEF IInv, TypeOK
  <2>5. /\ r \in Room /\ r.display = rooms[o].display /\ r.presenter = None
        /\ r.sessions = {s \in rooms[o].sessions : s.caller # c}
        /\ r.code = rooms[o].code
    BY <2>4 DEF Room
  <2>6. r.sessions = {}
    BY <1>5, <2>5 DEF IInv, RoomConsistent, Consistent
  <2>7. \A i \in RoomID : Current(i)' = IF i = id THEN r ELSE Current(i)
    BY <2>2, <2>3, <2>5, CurrentChanges
  <2>8. Current(id) = rooms[o]
    BY <2>2 DEF Current
  <2>9. Rooms!Leave(id)
    BY <1>5, <2>3, <2>5, <2>6, <2>7, <2>8, NoneIsNoConn DEF Rooms!Leave, Rooms!Empty
  <2> QED BY <2>9
<1> QED
  BY <1>u, <1>1, <1>2, <1>3, <1>4, <1>5
  DEF Next, Rooms!Next, RemoveDisplay, AuthorizePresenter, StartSession, ReleasePresenter

\* The store keeps the promises of MeetingRoom: every call, on a live Room or a
\* deleted one, by whoever, is one of its steps or changes nothing of it.
THEOREM StoreImplementsMeetingRoom == Spec => ImplementsMeetingRoom
<1>1. Spec => []IInv
  BY InitIInv, NextIInv, PTL DEF Spec
<1> QED
  BY <1>1, InitImplements, NextImplements, PTL DEF Spec, ImplementsMeetingRoom, Rooms!Spec

=============================================================================
