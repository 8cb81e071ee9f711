------------------------------ MODULE RoomStore ------------------------------
(***************************************************************************)
(* The rooms of the server (core/room.go): the RoomStore map and the Room  *)
(* objects it points to.  Every method runs under RoomStore.mu and Room.mu *)
(* or under Room.mu alone, so each is one atomic action here; what happens *)
(* between two calls is the business of the callers (module Signaling).    *)
(*                                                                         *)
(* Room objects are kept in a sequence, the heap, and named by their index.*)
(* RemoveDisplay deletes a Room from the map but not from the heap: a      *)
(* handler that looked it up earlier still calls its methods.              *)
(*                                                                         *)
(* NewVerifyCode and randomString draw 6 characters of 31 and 12 of 36     *)
(* from crypto/rand.  They are modelled by what they are used for: a value *)
(* never drawn before (drawn counts the draws, the value is the count).    *)
(***************************************************************************)
EXTENDS Naturals, Sequences

CONSTANTS RoomID,   \* the room identifiers of the configuration
          Conn,     \* websocket connections, displays' and presenters'
          None      \* Go's nil, for a *websocket.Conn

ASSUME NoneIsNoConn == None \notin Conn

VARIABLES rooms,    \* the heap of Room objects
          store,    \* RoomStore.rooms: index of the id's Room, 0 if absent
          drawn     \* random strings drawn so far

roomVars == <<rooms, store, drawn>>

Session == [id : Nat, caller : Conn, callee : Conn]

Room == [id : RoomID, display : Conn \cup {None}, code : Nat,
         generation : Nat, presenter : Conn \cup {None},
         sessions : SUBSET Session]

NewRoom(id) == [id |-> id, display |-> None, code |-> 0, generation |-> 0,
                presenter |-> None, sessions |-> {}]

\* What the store's lookups and the Room's getters return.
Present(id) == store[id] # 0
IsDisplay(id, c) == Present(id) /\ rooms[store[id]].display = c

\* presenterConnectionsLocked: whoever a change of display disconnects.
PresenterConnections(r) == ({r.presenter} \ {None}) \cup {s.caller : s \in r.sessions}

\* SetDisplay's object: the stored one, or the one it is about to allocate.
\* (Mutated form: a new one for every display.)
Object_Fresh(id) == Len(rooms) + 1
Object(id) == IF Present(id) THEN store[id] ELSE Len(rooms) + 1
Current(id) == IF Present(id) THEN rooms[store[id]] ELSE NewRoom(id)

-----------------------------------------------------------------------------
Init == /\ rooms = <<>>
        /\ store = [id \in RoomID |-> 0]
        /\ drawn = 0

\* The reset both changes of display make: nobody presents any more.  (Mutated
\* forms: the generation counts down, below zero; the sessions stay.)
Vacated_CountsDown(r) ==
  [r EXCEPT !.sessions = {}, !.presenter = None, !.generation = @ - 1]
Vacated_KeepsSessions(r) == [r EXCEPT !.presenter = None, !.generation = @ + 1]

Vacated(r) == [r EXCEPT !.sessions = {}, !.presenter = None, !.generation = @ + 1]

\* (Mutated form: whoever presents goes on, with the new display.)
WithDisplay_OnlySwaps(id, c) ==
  [Current(id) EXCEPT !.display = c, !.code = drawn + 1]

WithDisplay(id, c) ==
  [Vacated(Current(id)) EXCEPT !.display = c, !.code = drawn + 1]

SetDisplay(id, c) ==
  /\ \/ /\ Present(id)
        /\ rooms' = [rooms EXCEPT ![store[id]] = WithDisplay(id, c)]
        /\ UNCHANGED store
     \/ /\ ~Present(id)
        /\ rooms' = Append(rooms, WithDisplay(id, c))
        /\ store' = [store EXCEPT ![id] = Len(rooms) + 1]
  /\ drawn' = drawn + 1

\* (Mutated form: the Room is only taken from the map.)
WithoutDisplay_AsItIs(r) == r
WithoutDisplay(r) == [Vacated(r) EXCEPT !.display = None]

RemoveDisplay(id, c) ==
  \/ /\ IsDisplay(id, c)
     /\ rooms' = [rooms EXCEPT ![store[id]] = WithoutDisplay(@)]
     /\ store' = [store EXCEPT ![id] = 0]
     /\ UNCHANGED drawn
  \/ ~IsDisplay(id, c) /\ UNCHANGED roomVars

\* (Mutated form: the presenter slot is not looked at.)
MayPresent_SlotUnchecked(o, code) == rooms[o].display # None /\ rooms[o].code = code

MayPresent(o, code) ==
  /\ rooms[o].display # None
  /\ rooms[o].presenter = None
  /\ rooms[o].code = code

\* The slot is reserved and the code used up.  (Mutated form: it stays good.)
WithPresenter_KeepsCode(r, c) == [r EXCEPT !.presenter = c]
WithPresenter(r, c) == [r EXCEPT !.presenter = c, !.code = drawn + 1]

AuthorizePresenter(o, code, c) ==
  \/ /\ MayPresent(o, code)
     /\ rooms' = [rooms EXCEPT ![o] = WithPresenter(@, c)]
     /\ drawn' = drawn + 1
     /\ UNCHANGED store
  \/ ~MayPresent(o, code) /\ UNCHANGED roomVars

MayStart(o, c, generation) ==
  /\ rooms[o].display # None
  /\ rooms[o].generation = generation
  /\ rooms[o].presenter = c
  /\ rooms[o].sessions = {}

StartSession(o, c, generation) ==
  \/ /\ MayStart(o, c, generation)
     /\ rooms' = [rooms EXCEPT ![o].sessions =
                    {[id |-> drawn + 1, caller |-> c, callee |-> rooms[o].display]}]
     /\ drawn' = drawn + 1
     /\ UNCHANGED store
  \/ ~MayStart(o, c, generation) /\ UNCHANGED roomVars

ReleasePresenter(o, c) ==
  \/ /\ rooms[o].presenter = c
     /\ rooms' = [rooms EXCEPT ![o].presenter = None,
                               ![o].sessions = {s \in @ : s.caller # c}]
     /\ UNCHANGED <<store, drawn>>
  \/ rooms[o].presenter # c /\ UNCHANGED roomVars

\* Any connection may call any method on any Room it could have looked up, at
\* any time, with the right code or a wrong one (0) and with any generation the
\* Room ever had: the store relies on no order of the calls.
Next ==
  \E c \in Conn :
    \/ \E id \in RoomID : SetDisplay(id, c) \/ RemoveDisplay(id, c)
    \/ \E o \in DOMAIN rooms :
         \/ \E code \in {rooms[o].code, 0} : AuthorizePresenter(o, code, c)
         \/ \E g \in 0..rooms[o].generation : StartSession(o, c, g)
         \/ ReleasePresenter(o, c)

Spec == Init /\ [][Next]_roomVars

-----------------------------------------------------------------------------
(* Properties                                                              *)

\* The fields of a Room keep their Go types; the store points into the heap.
TypeOK == /\ rooms \in Seq(Room)
          /\ store \in [RoomID -> 0..Len(rooms)]
          /\ drawn \in Nat

Consistent(r) ==
  /\ r.presenter # None => r.display # None
  /\ \A s \in r.sessions : s.caller = r.presenter /\ s.callee = r.display
  /\ \A s, t \in r.sessions : s = t

\* Of a room's three connections: a presenter is held only while a display is
\* registered (AuthorizePresenter, RemoveDisplay), and a session always joins
\* that presenter to that display (StartSession, ReleasePresenter,
\* SetDisplay); a room never carries two sessions.
RoomConsistent == \A o \in DOMAIN rooms : Consistent(rooms[o])

\* A Room has a display exactly while the store holds it under its own id.
\* One that RemoveDisplay deleted can therefore never be presented in again,
\* although the handlers that looked it up before go on calling its methods
\* and the id may by then have a new Room (core/signal.go, room.Display()).
DeletedRoomsInert ==
  /\ \A id \in RoomID : Present(id) => rooms[store[id]].id = id
  /\ \A o \in DOMAIN rooms : rooms[o].display # None <=> store[rooms[o].id] = o

\* What the display's user and the presenters are promised (MeetingRoom), of
\* the Room the store holds for each id.
Rooms == INSTANCE MeetingRoom WITH
  display   <- [id \in RoomID |-> Current(id).display],
  presenter <- [id \in RoomID |-> Current(id).presenter],
  streams   <- [id \in RoomID |->
                  {<<s.caller, s.callee>> : s \in Current(id).sessions}],
  code      <- [id \in RoomID |-> Current(id).code],
  used      <- 1..drawn

\* The store implements MeetingRoom: whatever the order of the calls and the
\* age of the Room they are made on, each is one of its steps or no step.
ImplementsMeetingRoom == Rooms!Spec

=============================================================================
