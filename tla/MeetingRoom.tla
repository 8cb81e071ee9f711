----------------------------- MODULE MeetingRoom -----------------------------
(***************************************************************************)
(* What a meeting room promises, without objects, generations or stale     *)
(* pointers (core/room.go, and the comment of AuthorizePresenter there):   *)
(* one display, at most one presenter let in by the code on the display,   *)
(* each code good for one presenter, a stream only between that presenter  *)
(* and that display, and nothing left over when the display changes.       *)
(***************************************************************************)
CONSTANTS RoomID, Conn, None

VARIABLES display,    \* the display of each room, or None
          presenter,  \* the presenter admitted to each room, or None
          streams,    \* the <<presenter, display>> pair that is streaming, if any
          code,       \* the code that admits the next presenter
          used        \* random strings drawn so far; no string is drawn twice

vars == <<display, presenter, streams, code, used>>

\* k becomes a room's code: a string drawn in this step.
Renew(id, k) == /\ k \notin used
                /\ code' = [code EXCEPT ![id] = k]
                /\ used' = used \cup {k}

Empty(id) == /\ presenter' = [presenter EXCEPT ![id] = None]
             /\ streams' = [streams EXCEPT ![id] = {}]

Init == /\ display = [id \in RoomID |-> None]
        /\ presenter = [id \in RoomID |-> None]
        /\ streams = [id \in RoomID |-> {}]
        /\ code = [id \in RoomID |-> 0]
        /\ used = {}

\* A display registers, replacing the one before it and whoever presented.
Attach(id, c) == /\ display' = [display EXCEPT ![id] = c]
                 /\ Empty(id)
                 /\ \E k \in used' : Renew(id, k)

\* The display leaves; without one the room has no code.
Detach(id) == /\ display[id] # None
              /\ display' = [display EXCEPT ![id] = None]
              /\ Empty(id)
              /\ code' = [code EXCEPT ![id] = 0]
              /\ UNCHANGED used

\* The holder of the current code takes the free slot and uses the code up.
Admit(id, c) == /\ display[id] # None
                /\ presenter[id] = None
                /\ presenter' = [presenter EXCEPT ![id] = c]
                /\ \E k \in used' : Renew(id, k)
                /\ UNCHANGED <<display, streams>>

\* The admitted presenter starts to stream, once; the session's name is drawn.
Stream(id) == /\ presenter[id] # None
              /\ streams[id] = {}
              /\ streams' = [streams EXCEPT ![id] = {<<presenter[id], display[id]>>}]
              /\ \E k \in used' : k \notin used /\ used' = used \cup {k}
              /\ UNCHANGED <<display, presenter, code>>

\* The presenter leaves: the code on the display stays good for the next one.
Leave(id) == /\ presenter[id] # None
             /\ Empty(id)
             /\ UNCHANGED <<display, code, used>>

Next == \E id \in RoomID :
          \/ \E c \in Conn : Attach(id, c) \/ Admit(id, c)
          \/ Detach(id) \/ Stream(id) \/ Leave(id)

Spec == Init /\ [][Next]_vars

=============================================================================
