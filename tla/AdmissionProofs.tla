---------------------------- MODULE AdmissionProofs ----------------------------
(***************************************************************************)
(* Proofs about who is admitted in Signaling, and by what code, for any    *)
(* displays, presenters and rooms: no two presenters send to one display   *)
(* page, no code lets two presenters in, a goodbye goes to the display     *)
(* page its presenter used, and a presenter that lost its place is closed. *)
(***************************************************************************)
EXTENDS SignalingProofs

\* A display whose SetDisplay has been called.
Registered(c) == pc[c] \notin {"idle", "auth", "reading"}

\* The display an admitted presenter sends to has registered.  While its handler
\* serves it, it is in the Room the presenter was admitted to; and while that Room
\* has that display, it has that presenter.  (OneSenderPerDisplay needs this: the
\* next presenter is let in when the Room has none, whatever the evicted ones do.)
PeersKnown ==
  \A p \in Presenters : Admitted(p) =>
    LET d == my[p].peer IN
      /\ Registered(d)
      /\ Serving(d) => my[d].room = my[p].room
      /\ rooms[my[p].room].display = d => rooms[my[p].room].presenter = p

\* No two Rooms have the same code, and none has one that let somebody in.
\* (CodesUsedOnce needs this: a code must be gone from all Rooms once it is used.)
CodesApart ==
  /\ \A o, q \in DOMAIN rooms : o # q => rooms[o].code # rooms[q].code
  /\ \A o \in DOMAIN rooms : \A p \in Presenters : my[p].ticket # rooms[o].code

\* Display d's handler has p on its list of connections to close.
Evicting(d, p) == pc[d] \in {"evict", "unwind"} /\ p \in my[d].closing

\* The inductive invariant, on top of that of SignalingProofs.
AInv == /\ SInv /\ PeersKnown /\ OneSenderPerDisplay /\ GoodbyeToOwnDisplay
        /\ EvictedAreClosed /\ CodesApart /\ CodesUsedOnce

-----------------------------------------------------------------------------
(* What local steps do to registrations, goodbyes and lists.              *)

\* No handler goes back to before its registration, and goodbyes begin in Release.
LEMMA LocalForward ==
  ASSUME SInv, NEW c \in Conn, LocalStep(c)
  PROVE  /\ Registered(c) => Registered(c)'
         /\ pc'[c] = "notify" => UNCHANGED <<pc, my>>
<1> USE DEF Registered, Go, SInv, HandlersTypeOK
<1>1. CASE \/ Dial(c) \/ Break(c) \/ AcquireSlot(c) \/ TurnAway(c) \/ Reject(c) \/ Close(c)
           \/ SendIce(c)
  BY <1>1 DEF Dial, Break, AcquireSlot, TurnAway, Reject, Close, SendIce, Move
<1>2. CASE Evict(c) \/ FindSession(c) \/ RelayToCaller(c) \/ Submit(c) \/ Find(c)
  BY <1>2 DEF Evict, FindSession, RelayToCaller, Submit, Find
<1>3. CASE \/ DisplayReadFails(c) \/ PresenterReadFails(c) \/ Judge(c)
           \/ SendAccepted(c) \/ Confirm(c)
  BY <1>3 DEF DisplayReadFails, PresenterReadFails, Judge, SendAccepted, Confirm, Move, Reply
<1>4. CASE SendReady(c) \/ SendRefresh(c) \/ Announce(c) \/ Notify(c)
  BY <1>4 DEF SendReady, SendRefresh, Announce, Notify, Write
<1> QED BY <1>1, <1>2, <1>3, <1>4 DEF LocalStep

\* Links stay closed, and the connections on a list are closed before it is lost.
LEMMA LocalCloses ==
  ASSUME SInv, NEW c \in Conn, LocalStep(c)
  PROVE  /\ \A b \in Conn : link[b] = "closed" /\ pc[b] # "idle" => link'[b] = "closed"
         /\ \A b \in Conn : Evicting(c, b) => Evicting(c, b)' \/ link'[b] = "closed"
<1> USE DEF Evicting, Go
<1>0. /\ pc \in [Conn -> Stage] /\ link \in [Conn -> Link] /\ my \in [Conn -> Local]
      /\ my[c].closing \subseteq Conn
  BY DEF SInv, HandlersTypeOK, Local
<1>1. CASE Dial(c) \/ Break(c) \/ Close(c)
  BY <1>0, <1>1 DEF Dial, Break, Close
<1>2. CASE Evict(c)
  <2>1. PICK e \in my[c].closing :
               /\ link' = [link EXCEPT ![e] = "closed"]
               /\ my' = [my EXCEPT ![c].closing = Remaining(c, e)]
               /\ Remaining(c, e) # {} => pc' = [pc EXCEPT ![c] = pc[c]]
    BY <1>2 DEF Evict
  <2>2. my'[c].closing = my[c].closing \ {e}
    BY <1>0, <2>1 DEF Remaining, Local
  <2>3. ASSUME NEW b \in Conn, Evicting(c, b) PROVE Evicting(c, b)' \/ link'[b] = "closed"
    BY <1>0, <2>1, <2>2, <2>3 DEF Remaining
  <2> QED BY <1>0, <2>1, <2>3
<1>3. CASE \/ AcquireSlot(c) \/ TurnAway(c) \/ Reject(c) \/ SendIce(c)
           \/ FindSession(c) \/ RelayToCaller(c) \/ Submit(c) \/ Find(c)
  BY <1>0, <1>3 DEF AcquireSlot, TurnAway, Reject, SendIce, FindSession, RelayToCaller,
                    Submit, Find, Move
<1>4. CASE \/ DisplayReadFails(c) \/ PresenterReadFails(c) \/ Judge(c)
           \/ SendAccepted(c) \/ Confirm(c)
  BY <1>0, <1>4 DEF DisplayReadFails, PresenterReadFails, Judge, SendAccepted, Confirm,
                    Move, Reply
<1>5. CASE SendReady(c) \/ SendRefresh(c) \/ Announce(c) \/ Notify(c)
  BY <1>0, <1>5 DEF SendReady, SendRefresh, Announce, Notify, Write
<1> QED BY <1>1, <1>2, <1>3, <1>4, <1>5 DEF LocalStep

-----------------------------------------------------------------------------
(* Each part of the invariant is kept.                                    *)

\* A presenter is let in to a Room without one: by PeersKnown nobody who is still
\* admitted sends to that Room's display.
LEMMA PeersKept ==
  ASSUME SInv, PeersKnown, OneSenderPerDisplay, ServerNext \/ UNCHANGED vars
  PROVE  (PeersKnown /\ OneSenderPerDisplay)'
<1> DEFINE Peer(p) == LET d == my[p].peer
                          o == my[p].room IN
                        /\ Registered(d)
                        /\ Serving(d) => my[d].room = o
                        /\ rooms[o].display = d => rooms[o].presenter = p
<1>1. ASSUME NEW p \in Presenters, Admitted(p)
      PROVE  /\ Peer(p) /\ my[p].room \in DOMAIN rooms /\ my[p].peer \in Displays
             /\ p \in Conn /\ my[p].peer \in Conn
  BY <1>1, Connections DEF SInv, Pointers, PeersKnown
<1>2. ASSUME NEW c \in Conn, LocalStep(c) PROVE (PeersKnown /\ OneSenderPerDisplay)'
  <2>1. Keeps(c) /\ (Registered(c) => Registered(c)')
    BY <1>2, LocalKeeps, LocalForward DEF SInv
  <2>2. ASSUME NEW b \in Conn
        PROVE  /\ Serving(b)' <=> Serving(b)
               /\ Admitted(b)' <=> Admitted(b)
               /\ Registered(b) => Registered(b)'
               /\ Serving(b) => my'[b].room = my[b].room
               /\ Admitted(b) => my'[b].room = my[b].room /\ my'[b].peer = my[b].peer
    BY <2>1 DEF Keeps, Others, Serving, Admitted, Registered
  <2>3. ASSUME NEW p \in Presenters, Admitted(p)' PROVE Peer(p)' /\ my'[p].peer = my[p].peer
    BY <1>1, <2>1, <2>2, <2>3, Connections DEF Keeps, roomVars
  <2> HIDE DEF Peer
  <2>4. PeersKnown'
    BY <2>3 DEF PeersKnown, Peer
  <2>5. OneSenderPerDisplay'
    BY <2>2, <2>3, Connections DEF OneSenderPerDisplay
  <2> QED BY <2>4, <2>5
<1>3. ASSUME NEW d \in Conn, Register(d) PROVE (PeersKnown /\ OneSenderPerDisplay)'
  <2>1. PICK o, r : Registers(d, o, r)
    BY <1>3, RegisterEffect
  <2>2. Heap(o, r) /\ Others(d) /\ d \in Displays /\ pc[d] = "reading" /\ r.display = d
    BY <2>1 DEF Registers, Kept
  <2>3. ASSUME NEW p \in Presenters, Admitted(p)'
        PROVE  Admitted(p) /\ Peer(p)' /\ my'[p].peer = my[p].peer
    <3>1. Admitted(p) /\ UNCHANGED my[p] /\ UNCHANGED pc[p]
      BY <2>2, <2>3, Kinds, Connections DEF Others, Admitted
    <3>2. my[p].peer # d
      BY <1>1, <2>2, <3>1 DEF Registered
    <3>3. UNCHANGED my[my[p].peer] /\ UNCHANGED pc[my[p].peer]
      BY <1>1, <2>2, <3>1, <3>2 DEF Others
    <3> QED BY <1>1, <2>2, <3>1, <3>2, <3>3, HeapFacts DEF Registered, Serving, Heap
  <2> HIDE DEF Peer
  <2> QED BY <2>3 DEF PeersKnown, OneSenderPerDisplay, Peer
<1>4. ASSUME NEW d \in Conn, Unregister(d) PROVE (PeersKnown /\ OneSenderPerDisplay)'
  <2>1. PICK o, r : Unregisters(d, o, r)
    BY <1>4, UnregisterEffect
  <2>2. /\ Others(d) /\ d \in Displays /\ pc[d] = "remove" /\ pc'[d] \in {"close", "unwind"}
        /\ (Heap(o, r) /\ r.display = None) \/ UNCHANGED rooms
    BY <2>1 DEF Unregisters, Kept
  <2>3. ASSUME NEW p \in Presenters, Admitted(p)'
        PROVE  Admitted(p) /\ Peer(p)' /\ my'[p].peer = my[p].peer
    <3>1. Admitted(p) /\ UNCHANGED my[p] /\ UNCHANGED pc[p]
      BY <2>2, <2>3, Kinds, Connections DEF Others, Admitted
    <3>2. my[p].peer # None
      BY <1>1, <3>1, NoneIsNoConn
    <3>3. my[p].peer # d => UNCHANGED my[my[p].peer] /\ UNCHANGED pc[my[p].peer]
      BY <1>1, <2>2, <3>1 DEF Others
    <3>4. Registered(my[p].peer)' /\ (Serving(my[p].peer)' => my'[my[p].peer].room = my[p].room)
      BY <1>1, <2>2, <3>1, <3>3 DEF Registered, Serving
    <3> QED BY <1>1, <2>2, <3>1, <3>2, <3>4, HeapFacts DEF Heap, Registered, Serving
  <2> HIDE DEF Peer
  <2> QED BY <2>3 DEF PeersKnown, OneSenderPerDisplay, Peer
<1>5. ASSUME NEW p \in Conn, Authorize(p) PROVE (PeersKnown /\ OneSenderPerDisplay)'
  <2>1. PICK o, r : Authorizes(p, o, r)
    BY <1>5, AuthorizeEffect
  <2>2. /\ Others(p) /\ p \in Presenters /\ o \in DOMAIN rooms /\ ~Admitted(p)
    BY <2>1 DEF Authorizes, Kept, Admitted
  <2>3. ASSUME NEW q \in Conn, q # p
        PROVE  /\ UNCHANGED my[q] /\ UNCHANGED pc[q] 
               /\ Admitted(q)' <=> Admitted(q)
               /\ Serving(q)' <=> Serving(q)
               /\ Registered(q)' <=> Registered(q)
    BY <2>2, <2>3 DEF Others, Admitted, Serving, Registered
  <2>4. CASE UNCHANGED rooms /\ pc'[p] = "judge"
    <3>1. ASSUME NEW q \in Presenters, Admitted(q)'
          PROVE  Admitted(q) /\ Peer(q)' /\ my'[q].peer = my[q].peer
      <4>1. q # p
        BY <2>4, <3>1 DEF Admitted
      <4>2. Admitted(q) /\ UNCHANGED my[q]
        BY <2>3, <3>1, <4>1, Connections
      <4>3. my[q].peer \in Conn /\ my[q].peer # p
        BY <1>1, <2>2, <4>2, Kinds
      <4> QED BY <1>1, <2>3, <2>4, <4>2, <4>3
    <3> HIDE DEF Peer
    <3> QED BY <3>1 DEF PeersKnown, OneSenderPerDisplay, Peer
  <2>5. CASE MayPresent(o, my[p].code)
    <3> DEFINE d == rooms[o].display
    <3>1. /\ Heap(o, r) /\ r.display = d /\ r.presenter = p
          /\ my'[p].room = o /\ my'[p].peer = d
          /\ d # None /\ rooms[o].presenter = None
      BY <2>1, <2>5 DEF Authorizes, MayPresent
    <3>2. Serving(d) /\ my[d].room = o /\ d \in Displays /\ d # p /\ d \in Conn
      BY <2>2, <3>1, Kinds, Connections DEF SInv, NoOrphans, Serving
    <3>3. ASSUME NEW q \in Presenters, Admitted(q) PROVE my[q].peer # d
      BY <1>1, <3>1, <3>2, <3>3, NoneIsNoConn
    <3>4. ASSUME NEW q \in Presenters, Admitted(q)', q # p
          PROVE  Admitted(q) /\ Peer(q)' /\ my'[q].peer = my[q].peer
      <4>1. Admitted(q) /\ UNCHANGED my[q]
        BY <2>3, <3>4, Connections
      <4>2. my[q].peer \in Conn /\ my[q].peer # p
        BY <1>1, <2>2, <4>1, Kinds
      <4> QED BY <1>1, <2>3, <3>1, <3>3, <4>1, <4>2, HeapFacts DEF Heap
    <3>5. Peer(p)' /\ my'[p].peer = d
      <4>1. Registered(d)
        BY <3>2 DEF Registered, Serving
      <4> QED BY <2>3, <3>1, <3>2, <4>1, HeapFacts
    <3> HIDE DEF Peer, d
    <3>6. PeersKnown'
      BY <3>4, <3>5 DEF PeersKnown, Peer
    <3>7. OneSenderPerDisplay'
      BY <3>3, <3>4, <3>5 DEF OneSenderPerDisplay
    <3> QED BY <3>6, <3>7
  <2> QED BY <2>1, <2>4, <2>5 DEF Authorizes
<1>6. ASSUME NEW p \in Conn, Start(p) PROVE (PeersKnown /\ OneSenderPerDisplay)'
  <2>1. PICK o, r : Starts(p, o, r)
    BY <1>6, StartEffect
  <2>2. /\ Others(p) /\ p \in Presenters /\ o \in DOMAIN rooms
        /\ my'[p].room = my[p].room /\ my'[p].peer = my[p].peer
        /\ Admitted(p) /\ Admitted(p)'
    BY <2>1 DEF Starts, Kept, Admitted
  <2>3. \/ UNCHANGED rooms
        \/ Heap(o, r) /\ r.display = rooms[o].display /\ r.presenter = rooms[o].presenter
    BY <2>1 DEF Starts, MayStart
  <2>4. ASSUME NEW q \in DOMAIN rooms
        PROVE  /\ rooms'[q].display = rooms[q].display
               /\ rooms'[q].presenter = rooms[q].presenter
    BY <2>3, HeapFacts DEF Heap
  <2>5. ASSUME NEW q \in Presenters, Admitted(q)'
        PROVE  Admitted(q) /\ Peer(q)' /\ my'[q].peer = my[q].peer
    <3>1. Admitted(q) /\ my'[q].room = my[q].room /\ my'[q].peer = my[q].peer
      BY <2>2, <2>5, Connections DEF Others, Admitted
    <3>2. UNCHANGED my[my[q].peer] /\ UNCHANGED pc[my[q].peer]
      BY <1>1, <2>2, <3>1, Kinds DEF Others
    <3> QED BY <1>1, <2>4, <3>1, <3>2 DEF Registered, Serving
  <2> HIDE DEF Peer
  <2> QED BY <2>5 DEF PeersKnown, OneSenderPerDisplay, Peer
<1>7. ASSUME NEW p \in Conn, Release(p) PROVE (PeersKnown /\ OneSenderPerDisplay)'
  <2>1. PICK o, r : Releases(p, o, r)
    BY <1>7, ReleaseEffect
  <2>2. /\ Others(p) /\ p \in Presenters /\ ~Admitted(p)'
        /\ \/ UNCHANGED rooms
           \/ Heap(o, r) /\ r.display = rooms[o].display /\ rooms[o].presenter = p
    BY <2>1 DEF Releases, Kept, Admitted
  <2>3. ASSUME NEW q \in Presenters, Admitted(q)'
        PROVE  Admitted(q) /\ Peer(q)' /\ my'[q].peer = my[q].peer
    <3>1. Admitted(q) /\ q # p /\ UNCHANGED my[q]
      BY <2>2, <2>3, Connections DEF Others, Admitted
    <3>2. UNCHANGED my[my[q].peer] /\ UNCHANGED pc[my[q].peer]
      BY <1>1, <2>2, <3>1, Kinds DEF Others
    <3>3. rooms'[my[q].room].display = my[q].peer => rooms'[my[q].room].presenter = q
      BY <1>1, <2>2, <3>1, HeapFacts DEF Heap
    <3> QED BY <1>1, <3>1, <3>2, <3>3 DEF Registered, Serving
  <2> HIDE DEF Peer
  <2> QED BY <2>3 DEF PeersKnown, OneSenderPerDisplay, Peer
<1>8. CASE UNCHANGED vars
  BY <1>8 DEF vars, handlerVars, roomVars, PeersKnown, OneSenderPerDisplay, Registered,
              Serving, Admitted
<1> QED BY <1>2, <1>3, <1>4, <1>5, <1>6, <1>7, <1>8, ServerNextCases

\* ReleasePresenter returns the display its presenter was admitted to (RoomsBound).
LEMMA GoodbyesKept ==
  ASSUME SInv, GoodbyeToOwnDisplay, ServerNext \/ UNCHANGED vars
  PROVE  GoodbyeToOwnDisplay'
<1>1. ASSUME NEW c \in Conn, Others(c),
             c \in Presenters /\ pc'[c] = "notify" => my'[c].tell = my'[c].peer
      PROVE  GoodbyeToOwnDisplay'
  BY <1>1, Connections DEF GoodbyeToOwnDisplay, Others
<1>2. ASSUME NEW c \in Conn, LocalStep(c) PROVE GoodbyeToOwnDisplay'
  BY <1>1, <1>2, LocalForward, LocalKeeps DEF SInv, Keeps, GoodbyeToOwnDisplay
<1>3. ASSUME NEW c \in Conn, Register(c) \/ Unregister(c) \/ Authorize(c) \/ Start(c)
      PROVE  GoodbyeToOwnDisplay'
  <2>1. PICK o, r : \/ Registers(c, o, r) \/ Unregisters(c, o, r)
                    \/ Authorizes(c, o, r) \/ Starts(c, o, r)
    BY <1>3, RegisterEffect, UnregisterEffect, AuthorizeEffect, StartEffect
  <2> QED BY <1>1, <2>1 DEF Registers, Unregisters, Authorizes, Starts, Kept
<1>4. ASSUME NEW p \in Conn, Release(p) PROVE GoodbyeToOwnDisplay'
  <2>1. PICK o, r : Releases(p, o, r)
    BY <1>4, ReleaseEffect
  <2>2. rooms[o].presenter = p => my[p].peer = rooms[o].display
    BY <2>1, NoneIsNoConn DEF SInv, RoomsBound, Releases
  <2> QED BY <1>1, <2>1, <2>2 DEF Releases, Kept
<1>5. CASE UNCHANGED vars
  BY <1>5 DEF vars, handlerVars, GoodbyeToOwnDisplay
<1> QED BY <1>2, <1>3, <1>4, <1>5, ServerNextCases

\* Both SetDisplay and RemoveDisplay return the presenter they turn out, and the
\* handler that called them keeps it on its list until it has closed it.
LEMMA EvictionsKept ==
  ASSUME SInv, EvictedAreClosed, ServerNext \/ UNCHANGED vars
  PROVE  EvictedAreClosed'
<1> DEFINE Covered(p) == link[p] = "closed" \/ \E d \in Displays : Evicting(d, p)
<1>0. EvictedAreClosed <=>
        \A p \in Presenters : Admitted(p) /\ rooms[my[p].room].presenter # p => Covered(p)
  BY DEF EvictedAreClosed, Evicting
<1>1. (\A p \in Presenters : Admitted(p) /\ rooms[my[p].room].presenter # p => Covered(p))'
        => EvictedAreClosed'
  BY DEF EvictedAreClosed, Evicting
<1>2. ASSUME NEW c \in Conn, LocalStep(c) PROVE EvictedAreClosed'
  <2>1. /\ Keeps(c) /\ UNCHANGED rooms
        /\ \A b \in Conn : link[b] = "closed" /\ pc[b] # "idle" => link'[b] = "closed"
        /\ \A b \in Conn : Evicting(c, b) => Evicting(c, b)' \/ link'[b] = "closed"
    BY <1>2, LocalKeeps, LocalCloses DEF SInv, Keeps, roomVars
  <2>2. ASSUME NEW p \in Presenters, Admitted(p)', rooms'[my'[p].room].presenter # p
        PROVE  Covered(p)'
    <3>1. Admitted(p) /\ my'[p].room = my[p].room /\ p \in Conn
      BY <2>1, <2>2, Connections DEF Keeps, Others, Admitted
    <3>2. CASE link[p] = "closed"
      BY <2>1, <3>1, <3>2 DEF Admitted
    <3>3. ASSUME NEW d \in Displays, Evicting(d, p) PROVE Covered(p)'
      <4>1. CASE d = c
        BY <2>1, <3>1, <3>3, <4>1
      <4>2. CASE d # c
        <5>1. Evicting(d, p)'
          BY <2>1, <3>3, <4>2, Connections DEF Keeps, Others, Evicting
        <5> QED BY <5>1
      <4> QED BY <4>1, <4>2
    <3> QED BY <1>0, <2>1, <2>2, <3>1, <3>2, <3>3
  <2> QED BY <1>1, <2>2
<1>3. ASSUME NEW c \in Conn, Others(c), UNCHANGED link,
             pc[c] \notin {"evict", "unwind"},
             \A p \in Presenters :
               Admitted(p)' /\ rooms'[my'[p].room].presenter # p =>
                 \/ Admitted(p) /\ rooms[my[p].room].presenter # p
                 \/ c \in Displays /\ Evicting(c, p)'
      PROVE  EvictedAreClosed'
  <2>1. ASSUME NEW p \in Presenters, Admitted(p)', rooms'[my'[p].room].presenter # p
        PROVE  Covered(p)'
    <3>1. ASSUME NEW d \in Displays, Evicting(d, p) PROVE Evicting(d, p)'
      BY <1>3, <3>1, Connections DEF Evicting, Others
    <3> QED BY <1>0, <1>3, <2>1, <3>1
  <2> QED BY <1>1, <2>1
<1>4. ASSUME NEW d \in Conn, Register(d) PROVE EvictedAreClosed'
  <2>1. PICK o, r : Registers(d, o, r)
    BY <1>4, RegisterEffect
  <2>2. /\ Heap(o, r) /\ Kept(d) /\ d \in Displays /\ pc[d] = "reading"
        /\ my'[d].closing = Replaced(RoomOf[d])
        /\ Replaced(RoomOf[d]) # {} => pc'[d] = "evict"
    BY <2>1 DEF Registers
  <2>3. ASSUME NEW p \in Presenters, Admitted(p)', rooms'[my'[p].room].presenter # p
        PROVE  (Admitted(p) /\ rooms[my[p].room].presenter # p) \/ Evicting(d, p)'
    <3>1. Admitted(p) /\ UNCHANGED my[p] /\ my[p].room \in DOMAIN rooms
      BY <2>2, <2>3, Kinds, Connections DEF Kept, Others, Admitted, SInv, Pointers
    <3>2. CASE my[p].room # o
      BY <2>2, <2>3, <3>1, <3>2, HeapFacts DEF Heap
    <3>3. CASE my[p].room = o /\ rooms[o].presenter = p
      <4>1. p \in PresenterConnections(rooms[o])
        BY <3>3, NoneIsNoConn, Connections DEF PresenterConnections
      <4>2. p \in Replaced(RoomOf[d])
        BY <2>1, <3>1, <3>3, <4>1 DEF Registers
      <4> QED BY <2>2, <4>2 DEF Evicting
    <3> QED BY <3>1, <3>2, <3>3
  <2> QED BY <1>3, <2>2, <2>3 DEF Kept
<1>5. ASSUME NEW d \in Conn, Unregister(d) PROVE EvictedAreClosed'
  <2>1. PICK o, r : Unregisters(d, o, r)
    BY <1>5, UnregisterEffect
  <2>2. /\ Kept(d) /\ d \in Displays /\ pc[d] = "remove"
        /\ my'[d].closing = Orphaned(RoomOf[d], d)
        /\ Orphaned(RoomOf[d], d) # {} => pc'[d] = "unwind"
        /\ \/ UNCHANGED rooms
           \/ Heap(o, r) /\ Orphaned(RoomOf[d], d) = PresenterConnections(rooms[o])
    BY <2>1 DEF Unregisters
  <2>3. ASSUME NEW p \in Presenters, Admitted(p)', rooms'[my'[p].room].presenter # p
        PROVE  (Admitted(p) /\ rooms[my[p].room].presenter # p) \/ Evicting(d, p)'
    <3>1. Admitted(p) /\ UNCHANGED my[p] /\ my[p].room \in DOMAIN rooms
      BY <2>2, <2>3, Kinds, Connections DEF Kept, Others, Admitted, SInv, Pointers
    <3>2. CASE my[p].room # o \/ UNCHANGED rooms
      BY <2>2, <2>3, <3>1, <3>2, HeapFacts DEF Heap
    <3>3. CASE my[p].room = o /\ rooms[o].presenter = p /\ ~UNCHANGED rooms
      <4>1. p \in PresenterConnections(rooms[o])
        BY <3>3, NoneIsNoConn, Connections DEF PresenterConnections
      <4> QED BY <2>2, <3>3, <4>1 DEF Evicting
    <3> QED BY <3>1, <3>2, <3>3
  <2> QED BY <1>3, <2>2, <2>3 DEF Kept
<1>6. ASSUME NEW p \in Conn, Authorize(p) \/ Start(p) \/ Release(p) PROVE EvictedAreClosed'
  <2>1. PICK o, r : Authorizes(p, o, r) \/ Starts(p, o, r) \/ Releases(p, o, r)
    BY <1>6, AuthorizeEffect, StartEffect, ReleaseEffect
  <2>2. /\ Kept(p) /\ p \in Presenters /\ my'[p].room = my[p].room
        /\ pc[p] \notin {"evict", "unwind"}
    BY <2>1 DEF Authorizes, Starts, Releases
  <2>3. ASSUME NEW q \in Presenters, Admitted(q)', rooms'[my'[q].room].presenter # q
        PROVE  Admitted(q) /\ rooms[my[q].room].presenter # q
    <3>1. q # p => Admitted(q) /\ UNCHANGED my[q]
      BY <2>2, <2>3, Connections DEF Kept, Others, Admitted
    <3>2. q # p => my[q].room \in DOMAIN rooms
      BY <3>1 DEF SInv, Pointers
    <3>3. CASE Authorizes(p, o, r)
      BY <2>3, <3>1, <3>2, <3>3, HeapFacts, NoneIsNoConn, Connections
         DEF Authorizes, MayPresent, Heap, Admitted
    <3>4. CASE Starts(p, o, r)
      BY <2>3, <3>1, <3>2, <3>4, HeapFacts DEF Starts, MayStart, Heap, Admitted
    <3>5. CASE Releases(p, o, r)
      BY <2>3, <3>1, <3>2, <3>5, HeapFacts DEF Releases, Heap, Admitted
    <3> QED BY <2>1, <3>3, <3>4, <3>5
  <2> QED BY <1>3, <2>2, <2>3 DEF Kept
<1>7. CASE UNCHANGED vars
  BY <1>7 DEF vars, handlerVars, roomVars, EvictedAreClosed, Admitted
<1> QED BY <1>2, <1>4, <1>5, <1>6, <1>7, ServerNextCases

\* The code that lets a presenter in is replaced in the same step by a new one.
LEMMA CodesKept ==
  ASSUME SInv, CodesApart, CodesUsedOnce, ServerNext \/ UNCHANGED vars
  PROVE  (CodesApart /\ CodesUsedOnce)'
<1>0. /\ drawn \in Nat /\ \A o \in DOMAIN rooms : rooms[o].code \in 1..drawn
      /\ \A c \in Conn : my[c].ticket <= drawn
  BY DEF SInv, IInv, TypeOK, StringsDrawn
<1>1. ASSUME NEW c \in Conn, LocalStep(c) PROVE (CodesApart /\ CodesUsedOnce)'
  <2>1. UNCHANGED rooms /\ \A b \in Conn : my'[b].ticket = my[b].ticket
    BY <1>1, LocalKeeps DEF SInv, Keeps, Others, roomVars
  <2> QED BY <2>1, Connections DEF CodesApart, CodesUsedOnce
<1>2. ASSUME NEW o, NEW r, Heap(o, r) \/ UNCHANGED rooms,
             Heap(o, r) => (o \in DOMAIN rooms /\ r.code = rooms[o].code) \/ r.code = drawn + 1,
             \A b \in Conn : my'[b].ticket = my[b].ticket
      PROVE  (CodesApart /\ CodesUsedOnce)'
  <2>1. CodesUsedOnce'
    BY <1>2, Connections DEF CodesUsedOnce
  <2>2. CASE UNCHANGED rooms
    BY <1>2, <2>1, <2>2, Connections DEF CodesApart
  <2>3. CASE Heap(o, r) /\ o \in DOMAIN rooms /\ r.code = rooms[o].code
    <3>1. \A q \in DOMAIN rooms' : q \in DOMAIN rooms /\ rooms'[q].code = rooms[q].code
      BY <2>3, HeapFacts
    <3> QED BY <1>2, <2>1, <3>1, Connections DEF CodesApart
  <2>4. CASE Heap(o, r) /\ r.code = drawn + 1
    <3>1. \A q \in DOMAIN rooms' : \/ q = o /\ rooms'[q].code = drawn + 1
                                   \/ q \in DOMAIN rooms /\ rooms'[q].code = rooms[q].code
      BY <2>4, HeapFacts
    <3>2. drawn + 1 \notin 1..drawn /\ \A c \in Conn : my[c].ticket # drawn + 1
      BY <1>0
    <3>3. CodesApart'
      BY <1>0, <1>2, <3>1, <3>2, Connections DEF CodesApart
    <3> QED BY <2>1, <3>3
  <2> QED BY <1>2, <2>2, <2>3, <2>4
<1>3. ASSUME NEW d \in Conn, Register(d) PROVE (CodesApart /\ CodesUsedOnce)'
  <2>1. PICK o, r : Registers(d, o, r)
    BY <1>3, RegisterEffect
  <2> QED BY <1>2, <2>1 DEF Registers, Kept, Others
<1>4. ASSUME NEW c \in Conn, Unregister(c) \/ Start(c) \/ Release(c)
      PROVE  (CodesApart /\ CodesUsedOnce)'
  <2>1. PICK o, r : Unregisters(c, o, r) \/ Starts(c, o, r) \/ Releases(c, o, r)
    BY <1>4, UnregisterEffect, StartEffect, ReleaseEffect
  <2>2. \/ UNCHANGED rooms
        \/ Heap(o, r) /\ o \in DOMAIN rooms /\ r.code = rooms[o].code
    BY <2>1 DEF Unregisters, Starts, Releases
  <2>3. \A b \in Conn : my'[b].ticket = my[b].ticket
    BY <2>1 DEF Unregisters, Starts, Releases, Kept, Others
  <2>4. UNCHANGED rooms => (CodesApart /\ CodesUsedOnce)'
    BY <2>3, Connections DEF CodesApart, CodesUsedOnce
  <2> QED BY <1>2, <2>2, <2>3, <2>4
<1>5. ASSUME NEW p \in Conn, Authorize(p) PROVE (CodesApart /\ CodesUsedOnce)'
  <2>1. PICK o, r : Authorizes(p, o, r)
    BY <1>5, AuthorizeEffect
  <2>2. Others(p) /\ p \in Presenters /\ o \in DOMAIN rooms
    BY <2>1 DEF Authorizes, Kept
  <2>3. CASE UNCHANGED rooms /\ my'[p] = my[p]
    BY <2>2, <2>3, Connections DEF CodesApart, CodesUsedOnce, Others
  <2>4. CASE MayPresent(o, my[p].code)
    <3>1. /\ Heap(o, r) /\ r.code = drawn + 1 /\ my'[p].ticket = rooms[o].code
      BY <2>1, <2>4 DEF Authorizes, MayPresent
    <3>2. \A q \in DOMAIN rooms' :
            \/ q = o /\ rooms'[q].code = drawn + 1
            \/ q # o /\ q \in DOMAIN rooms /\ rooms'[q].code = rooms[q].code
      BY <3>1, HeapFacts
    <3>3. drawn + 1 \notin 1..drawn /\ \A c \in Conn : my[c].ticket # drawn + 1
      BY <1>0
    <3>4. \A q \in Presenters : my'[q].ticket = IF q = p THEN rooms[o].code ELSE my[q].ticket
      BY <2>2, <3>1, Connections DEF Others
    <3>5. rooms[o].code \in 1..drawn /\ rooms[o].code # 0
      BY <1>0, <2>2
    <3>6. \A q \in Presenters : my[q].ticket # rooms[o].code
      BY <2>2 DEF CodesApart
    <3>7. \A q \in Presenters : my'[q].ticket # drawn + 1
      BY <1>0, <3>3, <3>4, <3>5, Connections
    <3>8. CodesApart'
      BY <1>0, <2>2, <3>2, <3>3, <3>4, <3>5, <3>7 DEF CodesApart
    <3>9. CodesUsedOnce'
      BY <3>4, <3>5, <3>6 DEF CodesUsedOnce
    <3> QED BY <3>8, <3>9
  <2> QED BY <2>1, <2>3, <2>4 DEF Authorizes
<1>6. CASE UNCHANGED vars
  BY <1>6 DEF vars, handlerVars, roomVars, CodesApart, CodesUsedOnce
<1> QED BY <1>1, <1>3, <1>4, <1>5, <1>6, ServerNextCases

-----------------------------------------------------------------------------
(* The invariant, and what follows from it.                               *)

LEMMA InitAInv == ServerInit => AInv
<1> SUFFICES ASSUME ServerInit PROVE AInv
  OBVIOUS
<1>1. SInv
  BY InitSInv
<1>2. \A c \in Conn : pc[c] = "idle" /\ my[c].ticket = 0
  BY DEF ServerInit, NoLocal
<1>3. \A p \in Presenters : ~Admitted(p) /\ pc[p] # "notify" /\ my[p].ticket = 0
  BY <1>2, Connections DEF Admitted
<1>4. DOMAIN rooms = {}
  BY DEF ServerInit, Init
<1> QED BY <1>1, <1>3, <1>4 DEF AInv, PeersKnown, OneSenderPerDisplay, GoodbyeToOwnDisplay,
                                EvictedAreClosed, CodesApart, CodesUsedOnce

LEMMA NextAInv == AInv /\ [ServerNext]_vars => AInv'
<1> SUFFICES ASSUME AInv, ServerNext \/ UNCHANGED vars PROVE AInv'
  OBVIOUS
<1>1. SInv'
  BY NextSInv DEF AInv
<1>2. PeersKnown' /\ OneSenderPerDisplay'
  BY PeersKept DEF AInv
<1>3. GoodbyeToOwnDisplay' /\ EvictedAreClosed'
  BY GoodbyesKept, EvictionsKept DEF AInv
<1>4. CodesApart' /\ CodesUsedOnce'
  BY CodesKept DEF AInv
<1> QED BY <1>1, <1>2, <1>3, <1>4 DEF AInv

LEMMA AdmissionInvariant == ServerSpec => []AInv
BY InitAInv, NextAInv, PTL DEF ServerSpec

\* While an evicted presenter has not noticed yet, nobody else is admitted to the
\* display page it sends to (core/signal.go, the loop of handlePresenter).
THEOREM OneSenderPerPage == ServerSpec => []OneSenderPerDisplay
<1>1. AInv => OneSenderPerDisplay
  BY DEF AInv
<1> QED BY <1>1, AdmissionInvariant, PTL

\* The late presenterClosed of an evicted presenter does not reach the display that
\* took the place of its own (core/room.go, ReleasePresenter).
THEOREM GoodbyesReachTheirDisplay == ServerSpec => []GoodbyeToOwnDisplay
<1>1. AInv => GoodbyeToOwnDisplay
  BY DEF AInv
<1> QED BY <1>1, AdmissionInvariant, PTL

\* No presenter that lost its place in a room is forgotten by the handlers that
\* replace or remove displays (core/signal.go, handleDisplay).
THEOREM EvictedAreAlwaysClosed == ServerSpec => []EvictedAreClosed
<1>1. AInv => EvictedAreClosed
  BY DEF AInv
<1> QED BY <1>1, AdmissionInvariant, PTL

\* A verification code admits one presenter, in whatever room and however that
\* presenter leaves (core/room.go, AuthorizePresenter).
THEOREM CodesAreUsedOnce == ServerSpec => []CodesUsedOnce
<1>1. AInv => CodesUsedOnce
  BY DEF AInv
<1> QED BY <1>1, AdmissionInvariant, PTL

=============================================================================
