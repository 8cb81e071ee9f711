------------------------------ MODULE Heartbeat ------------------------------
(***************************************************************************)
(* Who stays connected (core/signal.go: read, startHeartbeat) in discrete  *)
(* time.  After authentication a connection is pinged every half idle time.*)
(* The page's browser answers with a pong, which the connection's reader,  *)
(* when it is in read, takes as a reason to wait for another idle time; so *)
(* it does when it starts to read.  A handler that is busy with a message  *)
(* does not read, and its write may take its whole deadline.               *)
(*                                                                         *)
(* A page is alive until it vanishes without a word (a crash, a cable);    *)
(* then its pings go nowhere, or fail when the network says so.            *)
(***************************************************************************)
EXTENDS Naturals

CONSTANTS Half,    \* half of limits.idle_timeout_seconds
          Write,   \* the longest a handler is busy with one message
          Stall,   \* the longest a ping waits for the write in progress
          Delay,   \* the longest a live page's pong takes
          Patience \* bound on the time counted after the page's end

Idle == 2 * Half

ASSUME Periods == Half \in Nat \ {0} /\ Write \in Nat /\ Stall \in Nat /\ Delay \in Nat
\* What the limits have to be chosen for; Validate does not ask for it.
ASSUME Timely == Stall + Delay < Half
ASSUME Patient == Patience \in Nat

VARIABLES handler,    \* where the connection's handler is
          busy,     \* time left to it in "busy"
          deadline, \* time left until the read deadline
          ticker,   \* time left until the next tick
          ping,     \* time left for the ping to go out, Off when none is due
          pong,     \* time left for the pong to come in, Off when none is due
          alive,    \* the page is there
          silence   \* time since it is not

beatVars == <<handler, busy, deadline, ticker, ping, pong, alive, silence>>

Off == Half \* more than any ping or pong takes, see Timely
HandlerStage == {"busy", "reading", "timedout", "failed", "left"}
Connected == handler \in {"busy", "reading"}

\* startHeartbeat; the handler writes iceConfig and the rest before it reads.
BeatInit == /\ handler = "busy" /\ busy = Write /\ deadline = 0
            /\ ticker = Half /\ ping = Off /\ pong = Off
            /\ alive = TRUE /\ silence = 0

Late(timer) == timer # Off /\ timer = 0
Less(timer) == IF timer = Off THEN Off ELSE timer - 1

\* A unit of time passes, unless something must happen first.
Pass ==
  /\ Connected
  /\ ticker > 0 /\ ~Late(ping) /\ ~Late(pong)
  /\ IF handler = "busy" THEN busy > 0 ELSE deadline > 0
  /\ busy' = IF handler = "busy" THEN busy - 1 ELSE busy
  /\ deadline' = IF handler = "reading" THEN deadline - 1 ELSE deadline
  /\ ticker' = ticker - 1
  /\ ping' = Less(ping) /\ pong' = Less(pong)
  /\ silence' = IF alive \/ silence = Patience THEN silence ELSE silence + 1
  /\ UNCHANGED <<handler, alive>>

Tick == /\ Connected /\ ticker = 0
        /\ ticker' = Half /\ ping' = Stall
        /\ UNCHANGED <<handler, busy, deadline, pong, alive, silence>>

\* What sending a ping does to the read deadline: nothing.  (Mutated form: it is
\* extended, as if the ping had been answered.)
Sent_Extends == deadline' = IF handler = "reading" THEN Idle ELSE deadline
Sent == UNCHANGED deadline

Ping == /\ Connected /\ ping # Off
        /\ ping' = Off
        /\ pong' = IF alive THEN Delay ELSE pong
        /\ Sent
        /\ UNCHANGED <<handler, busy, ticker, alive, silence>>

\* WriteControl fails: the ping goroutine closes the connection.
PingFails == /\ Connected /\ ping # Off /\ ~alive
             /\ handler' = "failed" /\ ping' = Off
             /\ UNCHANGED <<busy, deadline, ticker, pong, alive, silence>>

\* A pong is read by whoever is in ReadMessage, or else by the next read, whose
\* deadline starts then anyway.
Pong == /\ Connected /\ pong # Off
        /\ pong' = Off
        /\ deadline' = IF handler = "reading" THEN Idle ELSE deadline
        /\ UNCHANGED <<handler, busy, ticker, ping, alive, silence>>

\* A message is read and handled, ...
Message == /\ handler = "reading" /\ alive
           /\ handler' = "busy" /\ busy' = Write
           /\ UNCHANGED <<deadline, ticker, ping, pong, alive, silence>>

\* ... and the next one is waited for, with the deadline set anew.
Read == /\ handler = "busy"
        /\ handler' = "reading" /\ deadline' = Idle /\ busy' = 0
        /\ UNCHANGED <<ticker, ping, pong, alive, silence>>

TimeOut == /\ handler = "reading" /\ deadline = 0 /\ ~Late(pong)
           /\ handler' = "timedout"
           /\ UNCHANGED <<busy, deadline, ticker, ping, pong, alive, silence>>

\* The handler returns for a reason of its own, and stops its heartbeat.
Leave == /\ Connected /\ handler' = "left"
         /\ UNCHANGED <<busy, deadline, ticker, ping, pong, alive, silence>>

Vanish == /\ Connected /\ alive /\ alive' = FALSE
          /\ UNCHANGED <<handler, busy, deadline, ticker, ping, pong, silence>>

Ended == ~Connected /\ UNCHANGED beatVars

BeatNext == \/ Pass \/ Tick \/ Ping \/ PingFails \/ Pong \/ Message \/ Read
            \/ TimeOut \/ Leave \/ Vanish \/ Ended

BeatSpec == BeatInit /\ [][BeatNext]_beatVars

-----------------------------------------------------------------------------
(* Properties                                                              *)

\* Timers do not run beyond their periods, and at most one ping is on its way.
HeartbeatTypeOK ==
  /\ handler \in HandlerStage
  /\ busy \in 0..Write /\ deadline \in 0..Idle /\ ticker \in 0..Half
  /\ ping \in 0..Stall \cup {Off} /\ pong \in 0..Delay \cup {Off}
  /\ ping = Off \/ pong = Off
  /\ alive \in BOOLEAN /\ silence \in 0..Patience

\* A page that is there is never timed out, however long it says nothing and
\* however long its messages keep the handler from reading its pongs.
LivePageKept == alive => handler # "timedout"

Larger(a, b) == IF a < b THEN b ELSE a

\* A page that is gone keeps its connection, and with it its room, no longer than
\* the handler was still busy, or its last pong on the way, and an idle time more.
DeadPageDropped == Connected => silence <= Idle + Larger(Write, Delay)

\* The read deadline tells live pages from dead ones.
DeadlineTells == LivePageKept /\ DeadPageDropped

=============================================================================
