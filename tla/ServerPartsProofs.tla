-------------------------- MODULE ServerPartsProofs --------------------------
(***************************************************************************)
(* Proofs about the parts of the server that MCServerParts puts side by    *)
(* side, each for every value of its constants: the writes to a connection *)
(* stay apart, the read deadline tells live pages from dead ones, the true *)
(* client is charged, whatever Validate accepts is served as it is         *)
(* written, and the installer takes the address of the route with the      *)
(* least metric.                                                           *)
(***************************************************************************)
EXTENDS MCServerParts, FiniteSetTheorems, WellFoundedInduction, TLAPS

(* Writes to a connection (SocketWrites)                                   *)

\* Those whose closeWS has dropped the mutex.
Dropped == {g \in Goroutine : writer[g] \in {"dropped", "done"}}

\* A writer holds the mutex it has taken, and who is done has closed. The mutexes
\* that were ever made, and the one still to be made when wsWriteLocks has none,
\* are one more than the closeWS at most; before the first, all have the same one.
WritesInv ==
  /\ WritesTypeOK
  /\ \A g \in Goroutine : writer[g] = "writing" => holder[mine[g]] = g
  /\ \A g \in Goroutine : writer[g] = "done" => ~open
  /\ Dropped = {} => \A g \in Goroutine : mine[g] # 0 => mine[g] = entry
  /\ IsFiniteSet(Dropped)
  /\ Len(holder) + (IF entry = 0 THEN 1 ELSE 0) <= 1 + Cardinality(Dropped)

\* Only Delete drops the mutex.
LEMMA DroppedStays ==
  ASSUME NEW g \in Goroutine, NEW from, NEW to, Moves(g, from, to), WritesTypeOK,
         from \in {"dropped", "done"} <=> to \in {"dropped", "done"}
  PROVE  Dropped' = Dropped
BY DEF Dropped, Moves, WritesTypeOK

\* The invariant holds at the start, ...
LEMMA WritesStart ==
  ASSUME WritesInit
  PROVE  WritesInv
<1>1. Dropped = {}
  BY DEF WritesInit, Dropped
<1>2. WritesTypeOK
  BY DEF WritesInit, WritesTypeOK, Mutex, WriterStage
<1> QED BY <1>1, <1>2, FS_EmptySet DEF WritesInit, WritesInv

\* ... and every step of a writer or a closer keeps it.
LEMMA WritesStep ==
  ASSUME WritesInv, [WritesNext]_writeVars
  PROVE  WritesInv'
<1> USE DEF WritesInv, WritesTypeOK, Mutex
<1>n. Len(holder) \in Nat /\ Cardinality(Dropped) \in Nat
  BY FS_CardinalityType
<1>1. CASE \E g \in Goroutine : LoadOrStore(g)
  <2> PICK g \in Goroutine : LoadOrStore(g) BY <1>1
  <2>d. Dropped' = Dropped
    BY DroppedStays DEF LoadOrStore
  <2>1. CASE NeedsMutex
    <3>1. /\ holder' = Append(holder, Nobody) /\ entry' = Len(holder) + 1 /\ entry = 0
          /\ mine' = [mine EXCEPT ![g] = Len(holder) + 1] /\ open' = open
          /\ writer[g] = "idle" /\ writer' = [writer EXCEPT ![g] = "locking"]
      BY <2>1 DEF LoadOrStore, NeedsMutex, Moves
    <3>2. /\ Len(holder') = Len(holder) + 1 /\ holder' \in Seq(Goroutine \cup {Nobody})
          /\ holder'[Len(holder) + 1] = Nobody
          /\ \A m \in 1..Len(holder) : holder'[m] = holder[m]
      BY <3>1
    <3>3. WritesTypeOK'
      <4>1. /\ entry' \in {0} \cup Mutex' /\ mine' \in [Goroutine -> {0} \cup Mutex']
            /\ open' \in BOOLEAN
            /\ writer' \in [Goroutine -> WriterStage]
        BY <3>1, <3>2 DEF WriterStage
      <4>2. \A h \in Goroutine : mine'[h] # 0 <=> writer'[h] \in {"locking", "writing"}
        BY <3>1, <1>n
      <4>3. \A m \in Mutex' : holder'[m] # Nobody => writer'[holder'[m]] = "writing" /\ mine'[holder'[m]] = m
        BY <3>1, <3>2
      <4> QED BY <3>2, <4>1, <4>2, <4>3
    <3>4. \A h \in Goroutine : writer'[h] = "writing" => holder'[mine'[h]] = h
      BY <3>1, <3>2
    <3>5. \A h \in Goroutine : writer'[h] = "done" => ~open'
      BY <3>1
    <3>6. Dropped' = {} => \A h \in Goroutine : mine'[h] # 0 => mine'[h] = entry'
      BY <3>1, <2>d
    <3> QED BY <3>1, <3>2, <3>3, <3>4, <3>5, <3>6, <2>d, <1>n
  <2>2. CASE ~NeedsMutex
    <3>1. /\ holder' = holder /\ entry' = entry /\ entry # 0
          /\ mine' = [mine EXCEPT ![g] = entry] /\ open' = open
          /\ writer[g] = "idle" /\ writer' = [writer EXCEPT ![g] = "locking"]
      BY <2>2 DEF LoadOrStore, NeedsMutex, Moves
    <3> QED BY <2>d, <3>1 DEF WriterStage
  <2> QED BY <2>1, <2>2
<1>2. CASE \E g \in Goroutine : Lock(g)
  <2> PICK g \in Goroutine : Lock(g) BY <1>2
  <2>d. Dropped' = Dropped
    BY DroppedStays DEF Lock
  <2>1. /\ holder[mine[g]] = Nobody /\ holder' = [holder EXCEPT ![mine[g]] = g]
        /\ writer[g] = "locking" /\ writer' = [writer EXCEPT ![g] = "writing"]
        /\ UNCHANGED <<entry, mine, open>>
    BY DEF Lock, Moves
  <2>2. mine[g] \in Mutex
    BY <2>1
  <2>3. holder' \in Seq(Goroutine \cup {Nobody}) /\ Len(holder') = Len(holder)
    BY <2>1, <2>2
  <2>4. WritesTypeOK'
    <3>1. \A m \in Mutex' : holder'[m] # Nobody => writer'[holder'[m]] = "writing" /\ mine'[holder'[m]] = m
      BY <2>1, <2>2, <2>3, NobodyIsNoGoroutine
    <3> QED BY <2>1, <2>3, <3>1 DEF WriterStage
  <2>5. \A h \in Goroutine : writer'[h] = "writing" => holder'[mine'[h]] = h
    BY <2>1, <2>2, NobodyIsNoGoroutine
  <2> QED BY <2>1, <2>3, <2>4, <2>5, <2>d
<1>3. CASE \E g \in Goroutine : Unlock(g)
  <2> PICK g \in Goroutine : Unlock(g) BY <1>3
  <2>d. Dropped' = Dropped
    BY DroppedStays DEF Unlock
  <2>1. /\ holder' = [holder EXCEPT ![mine[g]] = Nobody] /\ mine' = [mine EXCEPT ![g] = 0]
        /\ writer[g] = "writing" /\ writer' = [writer EXCEPT ![g] = "idle"]
        /\ UNCHANGED <<entry, open>>
    BY DEF Unlock, Released, Moves
  <2>2. mine[g] \in Mutex /\ holder[mine[g]] = g
    BY <2>1
  <2>3. holder' \in Seq(Goroutine \cup {Nobody}) /\ Len(holder') = Len(holder)
    BY <2>1, <2>2
  <2>4. WritesTypeOK'
    <3>1. \A m \in Mutex' : holder'[m] # Nobody => writer'[holder'[m]] = "writing" /\ mine'[holder'[m]] = m
      BY <2>1, <2>2, <2>3, NobodyIsNoGoroutine
    <3> QED BY <2>1, <2>3, <3>1 DEF WriterStage
  <2>5. \A h \in Goroutine : writer'[h] = "writing" => holder'[mine'[h]] = h
    BY <2>1, <2>2, NobodyIsNoGoroutine
  <2> QED BY <2>1, <2>3, <2>4, <2>5, <2>d
<1>4. CASE \E g \in Goroutine : Delete(g)
  <2> PICK g \in Goroutine : Delete(g) BY <1>4
  <2>1. /\ entry' = 0 /\ writer[g] = "idle" /\ writer' = [writer EXCEPT ![g] = "dropped"]
        /\ UNCHANGED <<holder, mine, open>>
    BY DEF Delete, Moves
  <2>2. Dropped' = Dropped \cup {g} /\ g \notin Dropped
    BY <2>1 DEF Dropped
  <2>3. IsFiniteSet(Dropped') /\ Cardinality(Dropped') = Cardinality(Dropped) + 1
    BY <2>2, FS_AddElement
  <2>4. WritesTypeOK'
    BY <2>1, NobodyIsNoGoroutine DEF WriterStage
  <2> QED BY <1>n, <2>1, <2>2, <2>3, <2>4
<1>5. CASE \E g \in Goroutine : Close(g)
  <2> PICK g \in Goroutine : Close(g) BY <1>5
  <2>d. Dropped' = Dropped
    BY DroppedStays DEF Close
  <2>1. /\ writer[g] = "dropped" /\ writer' = [writer EXCEPT ![g] = "done"] /\ open' = FALSE
        /\ UNCHANGED <<entry, holder, mine>>
    BY DEF Close, Shut, Moves
  <2>2. \A m \in Mutex' : holder'[m] # Nobody => writer'[holder'[m]] = "writing" /\ mine'[holder'[m]] = m
    <3> SUFFICES ASSUME NEW m \in 1..Len(holder), holder[m] # Nobody
                 PROVE  writer'[holder[m]] = "writing" /\ mine[holder[m]] = m
      BY <2>1
    <3>1. holder[m] \in Goroutine /\ writer[holder[m]] = "writing" /\ mine[holder[m]] = m
      OBVIOUS
    <3> QED BY <2>1, <3>1
  <2>3. WritesTypeOK'
    BY <2>1, <2>2 DEF WriterStage
  <2> QED BY <2>1, <2>3, <2>d
<1>6. CASE HeartbeatCloses
  BY <1>6 DEF HeartbeatCloses, Dropped
<1>7. CASE Over \/ UNCHANGED writeVars
  <2>1. UNCHANGED writeVars
    BY <1>7 DEF Over
  <2>2. Dropped' = Dropped
    BY <2>1 DEF writeVars, Dropped
  <2> QED BY <2>1, <2>2 DEF writeVars
<1> QED BY <1>1, <1>2, <1>3, <1>4, <1>5, <1>6, <1>7 DEF WritesNext

\* Two writers have two mutexes.
LEMMA HoldersApart ==
  ASSUME WritesInv, NEW g \in Writing, NEW h \in Writing, mine[g] = mine[h]
  PROVE  g = h
BY DEF WritesInv, Writing

\* So there are no more writers than mutexes, and before any closeWS only one.
LEMMA WritersFew ==
  ASSUME WritesInv
  PROVE  WritersKeptApart
<1>n. Len(holder) \in Nat /\ IsFiniteSet(Dropped) /\ Cardinality(Dropped) \in Nat
  BY FS_CardinalityType DEF WritesInv, WritesTypeOK
<1>1. IsFiniteSet(Writing) /\ Cardinality(Writing) <= Len(holder)
  <2> DEFINE Mine == [g \in Writing |-> mine[g]]
  <2>1. IsFiniteSet(1..Len(holder)) /\ Cardinality(1..Len(holder)) = Len(holder)
    <3>1. 1 \in Int /\ Len(holder) \in Int
      BY <1>n
    <3>2. /\ IsFiniteSet(1..Len(holder))
          /\ Cardinality(1..Len(holder)) = IF 1 > Len(holder) THEN 0 ELSE Len(holder) - 1 + 1
      BY <3>1, FS_Interval, Zenon
    <3> QED BY <1>n, <3>2
  <2>2. Mine \in Injection(Writing, 1..Len(holder))
    <3>1. \A g \in Writing : mine[g] \in 1..Len(holder) /\ holder[mine[g]] = g
      BY DEF Writing, WritesInv, WritesTypeOK, Mutex
    <3> QED BY <3>1 DEF Injection, IsInjective
  <2> HIDE DEF Mine
  <2> QED BY <2>1, <2>2, FS_Injection
<1>2. WritersBounded
  <2>1. Cardinality(Writing) \in Nat
    BY <1>1, FS_CardinalityType
  <2>2. Len(holder) <= 1 + Cardinality(Dropped)
    BY <1>n DEF WritesInv
  <2>3. Cardinality(Writing) <= 1 + Cardinality(Dropped)
    BY <1>1, <1>n, <2>1, <2>2
  <2> QED BY <2>3 DEF WritersBounded, Dropped
<1>3. OneWriterUntilClosing
  <2> SUFFICES ASSUME open, Closing = {} PROVE Cardinality(Writing) <= 1
    BY DEF OneWriterUntilClosing
  <2>1. Dropped = {}
    BY DEF Closing, Dropped, WritesInv
  <2>2. \A g, h \in Writing : g = h
    BY <2>1, HoldersApart DEF Writing, WritesInv, WritesTypeOK
  <2>3. CASE Writing = {}
    BY <2>3, FS_EmptySet
  <2>4. CASE Writing # {}
    <3>1. PICK g \in Writing : TRUE
      BY <2>4
    <3>2. Writing = {g}
      BY <2>2
    <3> QED BY <3>2, FS_Singleton
  <2> QED BY <2>3, <2>4
<1> QED BY <1>2, <1>3 DEF WritersKeptApart

\* App.write: for any goroutines and closers of a connection, two are in WriteJSON
\* on it at once only while a closeWS is between Delete and Close, and every
\* closeWS lets in one more at the most.
THEOREM WritesKeptApart == WritesSpec => []WritersKeptApart
<1>1. WritesSpec => []WritesInv
  BY WritesStart, WritesStep, PTL DEF WritesSpec
<1>2. WritesInv => WritersKeptApart
  BY WritersFew
<1> QED BY <1>1, <1>2, PTL

-----------------------------------------------------------------------------
(* The heartbeat (Heartbeat)                                               *)

\* Every ping goes out Stall after its tick at the latest, and its pong comes in
\* Delay later, when a reading handler still has time left: so its deadline, set
\* by the last pong or read, is never reached while the page is alive. Once it is
\* not, the time since then and what is left until the deadline add up to no more
\* than one busy handler, or one late pong, and one deadline.
BeatInv ==
  /\ HeartbeatTypeOK
  /\ alive => silence = 0
  /\ Connected /\ ping # Off => ticker = Half + ping - Stall
  /\ Connected /\ pong # Off => ticker + Stall + Delay >= Half + pong
  /\ handler = "timedout" => ~alive
  /\ handler = "reading" /\ alive =>
       /\ ping # Off => deadline + Stall >= Half + ping
       /\ pong # Off => deadline + Stall + Delay >= Half + pong
       /\ ping = Off /\ pong = Off => deadline >= Half + ticker
  /\ Connected /\ ~alive =>
       /\ handler = "busy" => silence + busy <= Write
       /\ handler = "reading" => silence + deadline <= Idle + Larger(Write, Delay)
       /\ pong # Off => silence + pong <= Delay

\* The invariant holds when the heartbeat starts, ...
LEMMA BeatStarts ==
  ASSUME BeatInit
  PROVE  BeatInv
BY Periods, Timely, Patient DEF BeatInit, BeatInv, HeartbeatTypeOK, HandlerStage, Connected, Off, Idle, Larger

\* ... and every unit of time and every event keeps it.
LEMMA BeatStep ==
  ASSUME BeatInv, [BeatNext]_beatVars
  PROVE  BeatInv'
<1> USE Periods, Timely, Patient DEF BeatInv, HeartbeatTypeOK, HandlerStage, Connected, Off, Idle, Larger
<1>1. CASE Pass
  BY <1>1 DEF Pass, Late, Less
<1>2. CASE Tick
  BY <1>2 DEF Tick
<1>3. CASE Ping
  BY <1>3 DEF Ping, Sent
<1>4. CASE PingFails
  BY <1>4 DEF PingFails
<1>5. CASE Pong
  BY <1>5 DEF Pong
<1>6. CASE Message
  BY <1>6 DEF Message
<1>7. CASE Read
  BY <1>7 DEF Read
<1>8. CASE TimeOut
  BY <1>8 DEF TimeOut, Late
<1>9. CASE Leave
  BY <1>9 DEF Leave
<1>10. CASE Vanish
  <2>1. /\ Connected /\ alive /\ alive' = FALSE
        /\ UNCHANGED <<handler, busy, deadline, ticker, ping, pong, silence>>
    BY <1>10 DEF Vanish
  <2>2. silence = 0 /\ pong # Half => silence + pong <= Delay
    BY <2>1
  <2>3. silence + busy <= Write
    BY <2>1
  <2>4. silence + deadline <= 2 * Half + (IF Write < Delay THEN Delay ELSE Write)
    BY <2>1
  <2>5. HeartbeatTypeOK'
    BY <2>1
  <2> QED BY <2>1, <2>2, <2>3, <2>4, <2>5
<1>11. CASE Ended \/ UNCHANGED beatVars
  BY <1>11 DEF Ended, beatVars
<1> QED BY <1>1, <1>2, <1>3, <1>4, <1>5, <1>6, <1>7, <1>8, <1>9, <1>10, <1>11 DEF BeatNext

\* read and startHeartbeat: for all periods in which a ping and its pong take less
\* than half an idle time, a live page is never timed out, and a dead one is
\* disconnected within an idle time and what the handler, or its last pong, took.
THEOREM DeadlineTellsLife == BeatSpec => []DeadlineTells
<1>1. BeatSpec => []BeatInv
  BY BeatStarts, BeatStep, PTL DEF BeatSpec
<1>2. BeatInv => DeadlineTells
  BY Periods DEF BeatInv, DeadlineTells, LivePageKept, DeadPageDropped, HeartbeatTypeOK, HandlerStage,
    Connected, Idle, Larger
<1> QED BY <1>1, <1>2, PTL

-----------------------------------------------------------------------------
(* A request on its way (ClientAddress)                                    *)

\* X-Forwarded-For has an entry of the client, and only trusted proxies after it.
SentBy(c) ==
  \E i \in DOMAIN header :
    /\ header[i].ip = c
    /\ \A j \in DOMAIN header : j > i => IsTrustedProxy(header[j].ip)

\* A client that is no proxy either is the peer itself, or has trusted proxies
\* between it and the server, the first of which has appended its address.
RequestInv ==
  /\ AddressTypeOK
  /\ hops = 0 => peer = client
  /\ ~IsTrustedProxy(client) /\ hops # 0 => IsTrustedProxy(peer) /\ SentBy(client)
  /\ TrueClientCharged

\* A set of the first numbers that is not empty has a largest element.
LEMMA LargestExists ==
  ASSUME NEW n \in Nat, NEW S \in SUBSET (1..n), S # {}
  PROVE  \E x \in S : \A y \in S : y <= x
<1> DEFINE T == {m \in Nat : \E x \in S : m = n - x}
<1>1. T \subseteq Nat /\ T # {}
  <2>1. PICK x \in S : TRUE
    OBVIOUS
  <2>2. n - x \in T
    BY <2>1
  <2> QED BY <2>2
<1> HIDE DEF T
<1>2. PICK m \in T : \A k \in T : <<k, m>> \notin OpToRel(<, Nat)
  BY <1>1, NatLessThanWellFounded, WFMin
<1>3. \A k \in T : ~(k < m)
  BY <1>1, <1>2 DEF OpToRel
<1>4. PICK x \in S : m = n - x
  BY <1>2 DEF T
<1>5. \A y \in S : y <= x
  <2> TAKE y \in S
  <2>1. n - y \in T
    BY DEF T
  <2> QED BY <1>3, <1>4, <2>1
<1> QED BY <1>5

\* A set of numbers that is not empty has a least element.
LEMMA LeastExists ==
  ASSUME NEW S \in SUBSET Nat, S # {}
  PROVE  \E x \in S : \A y \in S : x <= y
<1>2. PICK m \in S : \A k \in S : <<k, m>> \notin OpToRel(<, Nat)
  BY NatLessThanWellFounded, WFMin
<1>3. \A k \in S : ~(k < m)
  BY <1>2 DEF OpToRel
<1>4. m \in S
  BY <1>2
<1> QED BY <1>3, <1>4

\* So the nearest candidate is one, and there is none nearer.
LEMMA NearestIsCandidate ==
  ASSUME AddressTypeOK, Candidates # {}
  PROVE  Nearest \in Candidates /\ \A j \in Candidates : j <= Nearest
<1>1. Candidates \in SUBSET (1..Len(header)) /\ Len(header) \in Nat
  BY DEF Candidates, AddressTypeOK
<1>2. \E i \in Candidates : \A j \in Candidates : j <= i
  BY <1>1, LargestExists
<1> QED BY <1>2 DEF Nearest

\* The invariant holds when the request is sent, ...
LEMMA RequestStarts ==
  ASSUME RequestInit
  PROVE  RequestInv
<1>1. header \in Seq(Text)
  <2>1. PICK n \in 0..MaxSent : header \in [1..n -> Text]
    BY DEF RequestInit, SentAlong, Headers
  <2> QED BY <2>1, HopBounds
<1> QED BY <1>1, HopBounds DEF RequestInit, RequestInv, SentAlong, Underway, AddressTypeOK, TrueClientCharged

\* ... every proxy keeps it, ...
LEMMA Forwarded ==
  ASSUME RequestInv, NEW proxy \in Address, NEW spelling \in BOOLEAN, Forward(proxy, spelling)
  PROVE  RequestInv'
<1> DEFINE entry1 == [ip |-> peer, canonical |-> spelling]
<1>1. entry1 \in Text
  BY DEF RequestInv, AddressTypeOK, Text
<1>2. /\ header \in Seq(Text) /\ header' = Append(header, entry1) /\ peer' = proxy
      /\ hops \in 0..MaxHops /\ hops < MaxHops /\ hops' = hops + 1
      /\ client' = client /\ host' = host /\ host = Unanswered
      /\ IsTrustedProxy(proxy)
  BY DEF RequestInv, AddressTypeOK, Forward
<1> HIDE DEF entry1
<1>3. /\ header' \in Seq(Text) /\ Len(header') = Len(header) + 1
      /\ header'[Len(header) + 1] = entry1 /\ \A i \in 1..Len(header) : header'[i] = header[i]
  BY <1>1, <1>2
<1>4. AddressTypeOK'
  BY <1>2, <1>3, HopBounds DEF RequestInv, AddressTypeOK
<1>5. ~IsTrustedProxy(client) => SentBy(client)'
  <2>1. CASE hops = 0
    <3>1. header'[Len(header) + 1].ip = client
      BY <1>3, <2>1 DEF RequestInv, entry1
    <3> QED BY <1>2, <1>3, <3>1 DEF SentBy
  <2>2. CASE hops # 0 /\ ~IsTrustedProxy(client)
    <3>1. PICK i \in DOMAIN header : /\ header[i].ip = client
                                     /\ \A j \in DOMAIN header : j > i => IsTrustedProxy(header[j].ip)
      BY <2>2 DEF RequestInv, SentBy
    <3>2. IsTrustedProxy(peer)
      BY <2>2 DEF RequestInv
    <3>3. \A j \in DOMAIN header' : j > i => IsTrustedProxy(header'[j].ip)
      <4> TAKE j \in DOMAIN header'
      <4>1. CASE j = Len(header) + 1
        BY <4>1, <1>3, <3>2 DEF entry1
      <4>2. CASE j \in 1..Len(header)
        BY <4>2, <1>2, <1>3, <3>1
      <4> QED BY <1>2, <1>3, <4>1, <4>2
    <3>4. i \in DOMAIN header' /\ header'[i].ip = client
      BY <1>2, <1>3, <3>1
    <3> QED BY <1>2, <3>3, <3>4 DEF SentBy
  <2> QED BY <2>1, <2>2
<1> QED BY <1>2, <1>4, <1>5, HopBounds DEF RequestInv, TrueClientCharged

\* ... and clientHost finds the client in it.
LEMMA Charged ==
  ASSUME RequestInv, ClientHost
  PROVE  RequestInv'
<1>1. CASE ~Believed
  <2>1. host' = Canonical(peer) /\ UNCHANGED <<client, header, peer, hops>>
    BY <1>1 DEF ClientHost
  <2>2. AddressTypeOK'
    BY <2>1 DEF RequestInv, AddressTypeOK
  <2>3. ~IsTrustedProxy(client) => peer = client
    <3> SUFFICES ASSUME ~IsTrustedProxy(client), hops # 0 PROVE FALSE
      BY DEF RequestInv
    <3>1. IsTrustedProxy(peer)
      BY DEF RequestInv
    <3>2. PICK i \in DOMAIN header : header[i].ip = client
      BY DEF RequestInv, SentBy
    <3>3. i \in Candidates
      BY <3>2, NoAddressIsNone DEF Candidates, RequestInv, AddressTypeOK
    <3> QED BY <1>1, <3>1, <3>3 DEF Believed
  <2>4. TrueClientCharged'
    BY <2>1, <2>3 DEF TrueClientCharged, IsTrustedProxy
  <2> QED BY <2>1, <2>2, <2>4 DEF RequestInv, SentBy, IsTrustedProxy
<1>2. CASE Believed
  <2>1. Nearest \in Candidates /\ \A j \in Candidates : j <= Nearest
    BY <1>2, NearestIsCandidate DEF Believed, RequestInv
  <2>2. header[Nearest] \in Text /\ header[Nearest].ip # NoAddress
    BY <2>1 DEF Candidates, RequestInv, AddressTypeOK
  <2>3. header[Nearest].ip \in Address
    BY <2>2 DEF Text
  <2>4. AddressTypeOK'
    BY <1>2, <2>3 DEF ClientHost, Name, RequestInv, AddressTypeOK
  <2>5. ~IsTrustedProxy(client) => header[Nearest].ip = client
    <3> SUFFICES ASSUME ~IsTrustedProxy(client) PROVE header[Nearest].ip = client
      OBVIOUS
    <3>1. hops # 0
      BY <1>2 DEF Believed, RequestInv
    <3>2. PICK i \in DOMAIN header : /\ header[i].ip = client
                                     /\ \A j \in DOMAIN header : j > i => IsTrustedProxy(header[j].ip)
      BY <3>1 DEF RequestInv, SentBy
    <3>3. i \in Candidates
      BY <3>2, NoAddressIsNone DEF Candidates, RequestInv, AddressTypeOK
    <3>4. ~(Nearest > i) /\ Nearest \in DOMAIN header
      BY <2>1, <3>2 DEF Candidates
    <3>5. i <= Nearest
      BY <2>1, <3>3
    <3>6. i \in Nat /\ Nearest \in Nat
      BY <3>4 DEF RequestInv, AddressTypeOK
    <3> QED BY <3>2, <3>4, <3>5, <3>6
  <2>6. (~IsTrustedProxy(client) => host = Canonical(client))'
    BY <1>2, <2>5 DEF ClientHost, Name, IsTrustedProxy
  <2> QED BY <2>4, <2>6 DEF RequestInv, ClientHost, TrueClientCharged, SentBy, IsTrustedProxy
<1> QED BY <1>1, <1>2

\* So every step keeps it.
LEMMA RequestStep ==
  ASSUME RequestInv, [RequestNext]_requestVars
  PROVE  RequestInv'
<1>1. CASE Answered \/ UNCHANGED requestVars
  BY <1>1 DEF Answered, requestVars, RequestInv, AddressTypeOK, SentBy, TrueClientCharged, IsTrustedProxy
<1> QED BY <1>1, Forwarded, Charged DEF RequestNext

\* clientHost: over any number of proxies, with any header sent along and for any
\* trusted networks, a client that is not a proxy is charged under its own address
\* in its canonical spelling.
THEOREM ClientsAreCharged == RequestSpec => []TrueClientCharged
<1>1. RequestSpec => []RequestInv
  BY RequestStarts, RequestStep, PTL DEF RequestSpec
<1>2. RequestInv => TrueClientCharged
  BY DEF RequestInv
<1> QED BY <1>1, <1>2, PTL

-----------------------------------------------------------------------------
(* The installer's address (LanAddress)                                    *)

\* The routes that were tried before have no address to offer.
LanInv ==
  /\ Reported
  /\ tried \in SUBSET DOMAIN routes
  /\ chosen = Undecided => \A i \in tried : ~Usable(routes[i])
  /\ LeastMetricGateway

\* What ip reports about the device of a route is a list of its addresses.
LEMMA RoutesTyped ==
  ASSUME Reported
  PROVE  /\ \A i \in DOMAIN routes : routes[i] \in Route
         /\ \A r \in Route : links[r.dev] \in Seq(Item)
<1>1. \A i \in DOMAIN routes : routes[i] \in Route
  BY ListsOfRoutes DEF Reported
<1>2. \A r \in Route : r.dev \in Device
  BY DEF Route
<1>3. \A d \in Device : links[d] \in Seq(Item)
  BY ListsOfItems DEF Reported
<1> QED BY <1>1, <1>2, <1>3

\* A route serves some address if and only if it is usable, and then the one taken.
LEMMA ServedIfUsable ==
  ASSUME Reported, NEW r \in Route
  PROVE  /\ (\E a \in IPv4 : Serves(r, a)) <=> Usable(r)
         /\ Usable(r) => Serves(r, Selected(r))
<1>1. links[r.dev] \in Seq(Item) /\ r.gateway \in IPv4 \cup {NoIPv4}
  BY RoutesTyped DEF Route
<1>2. \A k \in DOMAIN links[r.dev] : /\ links[r.dev][k].local \in IPv4
                                     /\ links[r.dev][k].network \subseteq IPv4
  <2> TAKE k \in DOMAIN links[r.dev]
  <2>1. links[r.dev][k] \in Item
    BY <1>1
  <2> QED BY <2>1, SubnetsOfAddresses DEF Item
<1>3. (\E a \in IPv4 : Serves(r, a)) <=> Usable(r)
  BY <1>2, NoIPv4IsNone DEF Serves, Usable, InNetwork
<1>4. ASSUME Usable(r) PROVE Serves(r, Selected(r))
  <2> DEFINE candidates == InNetwork(r)
             preferred == {k \in candidates : links[r.dev][k].local = r.prefsrc}
             from == IF preferred # {} THEN preferred ELSE candidates
             first == CHOOSE k \in from : \A l \in from : k <= l
  <2>1. from # {} /\ from \subseteq InNetwork(r)
    BY <1>4 DEF Usable
  <2>2. from \in SUBSET Nat
    BY <1>1, <2>1 DEF InNetwork
  <2>3. \E k \in from : \A l \in from : k <= l
    <3> HIDE DEF from
    <3> QED BY <2>1, <2>2, LeastExists
  <2>4. first \in from
    <3> HIDE DEF from
    <3> QED BY <2>3
  <2>5. Selected(r) = links[r.dev][first].local
    BY DEF Selected
  <2>6. first \in InNetwork(r)
    BY <2>1, <2>4
  <2> HIDE DEF first
  <2> QED BY <2>5, <2>6 DEF Serves, InNetwork
<1> QED BY <1>3, <1>4

\* The invariant holds before the first route is tried, ...
LEMMA LanStarts ==
  ASSUME LanInit
  PROVE  LanInv
BY DEF LanInit, LanInv, Untried, Undecided, LeastMetricGateway

\* ... and every route tried in the order of the metrics keeps it.
LEMMA LanStep ==
  ASSUME LanInv, [LanNext]_lanVars
  PROVE  LanInv'
<1>r. /\ \A i \in DOMAIN routes : routes[i] \in Route /\ routes[i].metric \in Nat
      /\ routes \in Seq(Route)
  BY RoutesTyped, ListsOfRoutes DEF LanInv, Reported, Route
<1>1. CASE Override
  BY <1>1 DEF Override, LanInv, Reported, LeastMetricGateway, Undecided
<1>2. CASE \E i \in DOMAIN routes : TryRoute(i)
  <2> PICK i \in DOMAIN routes : TryRoute(i) BY <1>2
  <2>1. /\ tried' = tried \cup {i} /\ UNCHANGED <<override, routes, links>> /\ NextRoute(i)
        /\ chosen = Undecided /\ \A j \in tried : ~Usable(routes[j])
    BY DEF TryRoute, LanInv
  <2>2. CASE Usable(routes[i])
    <3>1. chosen' = [by |-> "route", address |-> Selected(routes[i])]
      BY <2>2 DEF TryRoute
    <3>2. Serves(routes[i], Selected(routes[i]))
      BY <1>r, <2>2, ServedIfUsable DEF LanInv
    <3>3. \A j \in DOMAIN routes : (\E a \in IPv4 : Serves(routes[j], a)) =>
            routes[i].metric <= routes[j].metric
      <4> SUFFICES ASSUME NEW j \in DOMAIN routes, \E a \in IPv4 : Serves(routes[j], a)
                   PROVE  routes[i].metric <= routes[j].metric
        OBVIOUS
      <4>1. Usable(routes[j])
        BY <1>r, ServedIfUsable DEF LanInv
      <4>2. j \notin tried
        BY <2>1, <4>1
      <4>3. j = i \/ Before(i, j)
        BY <2>1, <4>2 DEF NextRoute
      <4> QED BY <1>r, <4>3 DEF Before
    <3>4. \E a \in IPv4 : Serves(routes[i], a)
      BY <1>r, <2>2, ServedIfUsable DEF LanInv
    <3>5. LeastMetricGateway'
      BY <2>1, <3>1, <3>2, <3>3, <3>4 DEF LeastMetricGateway, Serves
    <3> QED BY <2>1, <3>1, <3>5 DEF LanInv, Reported, Undecided
  <2>3. CASE ~Usable(routes[i])
    <3>1. chosen' = chosen
      BY <2>3 DEF TryRoute
    <3>2. (\A j \in tried : ~Usable(routes[j]))'
      BY <2>1, <2>3 DEF Usable, InNetwork
    <3> QED BY <2>1, <3>1, <3>2 DEF LanInv, Reported, LeastMetricGateway, Undecided
  <2> QED BY <2>2, <2>3
<1>3. CASE Fail
  <2>1. \A i \in DOMAIN routes : ~Usable(routes[i])
    BY <1>3 DEF Fail, LanInv
  <2>2. \A i \in DOMAIN routes : ~\E a \in IPv4 : Serves(routes[i], a)
    BY <1>r, <2>1, ServedIfUsable DEF LanInv
  <2>3. LeastMetricGateway'
    BY <1>3, <2>2 DEF Fail, LeastMetricGateway, Serves
  <2> QED BY <1>3, <2>3 DEF Fail, LanInv, Reported, Undecided
<1>4. CASE Decided \/ UNCHANGED lanVars
  <2>1. UNCHANGED lanVars
    BY <1>4 DEF Decided
  <2>2. UNCHANGED <<override, routes, links, tried, chosen>>
    BY <2>1 DEF lanVars
  <2>3. LeastMetricGateway'
    BY <2>2 DEF LanInv, LeastMetricGateway, Serves
  <2>4. (chosen = Undecided => \A i \in tried : ~Usable(routes[i]))'
    BY <2>2 DEF LanInv, Usable, InNetwork, Undecided
  <2> QED BY <2>2, <2>3, <2>4 DEF LanInv, Reported
<1> QED BY <1>1, <1>2, <1>3, <1>4 DEF LanNext

\* detect_lan_ip.py: for all routes, devices and addresses that ip may report, the
\* address taken is served by a gateway of the least metric that serves any; there
\* is a failure only when none does.
THEOREM LeastMetricIsTaken == LanSpec => []LeastMetricGateway
<1>1. LanSpec => []LanInv
  BY LanStarts, LanStep, PTL DEF LanSpec
<1>2. LanInv => LeastMetricGateway
  BY DEF LanInv
<1> QED BY <1>1, <1>2, PTL

-----------------------------------------------------------------------------
(* The server and its configuration (Server, Configuration)                *)

\* An answer is not dropped, and what it says of ICE can be used.
AnswerGood ==
  /\ answer.status # "dropped"
  /\ answer.ice.policy \in {"unset", "all", "relay"}
  /\ \A s \in answer.ice.servers : s.lifetime \in Nat /\ s.lifetime <= 86400
  /\ RelaysUsable

\* A process that has got past LoadConfig has a valid configuration, and serves all
\* its proxies and its certificate.
ServerInv ==
  /\ file \in File /\ cfg \in Config
  /\ process \in ProcessStage \ {"crashed"} /\ trusted \in 0..MaxProxies
  /\ process \notin {"start", "exited"} => Valid(cfg)
  /\ Serving => trusted = cfg.proxies.listed /\ (process = "tls" <=> cfg.tls.cert # "unset")
  /\ AnswerGood

\* With a valid configuration AuthenticatedICEConfig does not fail, its credentials
\* last, and there are some where relays are all a page may use.
LEMMA IceIsGood ==
  ASSUME NEW c \in Config, Valid(c)
  PROVE  /\ ~IceFails(c)
         /\ c.turn.policy \in {"all", "relay"}
         /\ \A s \in IceServers(c) : s.lifetime \in Nat /\ s.lifetime <= 86400
         /\ c.turn.policy = "relay" => \E s \in IceServers(c) : s.lifetime >= 60
<1>1. /\ c.turn.policy \in {"all", "relay"} /\ c.turn.secret \in Nat /\ c.turn.ttl \in Int
      /\ c.turn.policy = "relay" => HasTurn(c.turn.urls)
      /\ HasTurn(c.turn.urls) => c.turn.secret >= 16 /\ 60 <= c.turn.ttl /\ c.turn.ttl <= 86400
  <2>1. c.turn \in Turn
    BY SMT DEF Config
  <2>2. TurnValid(c)
    BY Zenon DEF Valid
  <2> QED BY <2>1, <2>2, SMT DEF TurnValid, Turn
<1>2. ~IceFails(c)
  BY <1>1, SMT DEF IceFails, CredentialsFail, HasTurn
<1>3. \A s \in IceServers(c) : s.lifetime \in Nat /\ s.lifetime <= 86400
  BY <1>1, SMT DEF IceServers, HasTurn
<1>4. HasTurn(c.turn.urls) =>
        [urls |-> c.turn.urls \cap {"turn", "turns"}, lifetime |-> c.turn.ttl] \in IceServers(c)
  BY SMT DEF IceServers, HasTurn
<1>5. c.turn.policy = "relay" => \E s \in IceServers(c) : s.lifetime >= 60
  BY <1>1, <1>4, SMT
<1> QED BY <1>1, <1>2, <1>3, <1>5

\* In a valid configuration an id is one room's.
LEMMA TokensApart ==
  ASSUME NEW c \in Config, Valid(c), NEW i \in DOMAIN c.rooms
  PROVE  RoomsOf(c, c.rooms[i].id) = {i} /\ Room(c, c.rooms[i].id) = c.rooms[i]
<1>1. Distinct(c.rooms) /\ c.rooms \in Seq(RoomConfig)
  BY DEF Valid, RoomsValid, Config
<1>2. RoomsOf(c, c.rooms[i].id) = {i}
  BY <1>1 DEF RoomsOf, Distinct
<1>3. i <= i
  BY <1>1
<1>4. (CHOOSE k \in {i} : \A j \in {i} : k <= j) = i
  BY <1>3
<1> QED BY <1>2, <1>4 DEF Room

\* So are the tokens, and a display gets into the room of its token only.
LEMMA TokensTell ==
  ASSUME ServerInv
  PROVE  TokensOpenTheirRooms
<1> SUFFICES ASSUME Serving, NEW i \in DOMAIN cfg.rooms, cfg.rooms[i].token # "padded",
                    NEW id \in Ids, NEW origin \in cfg.origins
             PROVE  ~TurnedAway(id, origin) /\ Enrolled(id, cfg.rooms[i].token)
                      <=> id = cfg.rooms[i].id
  BY DEF TokensOpenTheirRooms
<1>1. Valid(cfg) /\ cfg \in Config
  BY DEF ServerInv, Serving
<1>2. Distinct(cfg.rooms)
  BY <1>1 DEF Valid, RoomsValid
<1>3. ASSUME id = cfg.rooms[i].id
      PROVE  ~TurnedAway(id, origin) /\ Enrolled(id, cfg.rooms[i].token)
  BY <1>1, <1>3, TokensApart DEF TurnedAway, Enrolled, Trimmed, OriginAllowed
<1>4. ASSUME ~TurnedAway(id, origin), Enrolled(id, cfg.rooms[i].token)
      PROVE  id = cfg.rooms[i].id
  <2>1. PICK k \in DOMAIN cfg.rooms : cfg.rooms[k].id = id
    BY <1>4 DEF TurnedAway, RoomsOf
  <2>2. Room(cfg, id) = cfg.rooms[k]
    BY <1>1, <2>1, TokensApart
  <2>3. cfg.rooms[k].token = cfg.rooms[i].token
    BY <1>4, <2>2 DEF Enrolled, Trimmed
  <2> QED BY <1>2, <2>1, <2>3 DEF Distinct
<1> QED BY <1>3, <1>4

\* The invariant holds before main has begun, ...
LEMMA ServerStarts ==
  ASSUME MainInit
  PROVE  ServerInv
<1>1. cfg \in Config /\ file \in File
  BY FilesAreConfigs DEF MainInit, Stored, File
<1>2. AnswerGood
  BY DEF MainInit, Started, AnswerGood, RelaysUsable, Nothing, Answer, NoIce
<1> QED BY <1>1, <1>2, ProxiesAllowed DEF MainInit, Started, ServerInv, ProcessStage, Serving

\* ... when a page is let in, ...
LEMMA PageLetIn ==
  ASSUME ServerInv, Serving, NEW id, LetIn(id)
  PROVE  ServerInv'
<1>1. Valid(cfg) /\ cfg \in Config
  BY DEF ServerInv, Serving
<1>2. cfg.limits.idle \in Int /\ cfg.limits.idle >= 5
  <2>1. cfg.limits \in Limits
    BY <1>1, SMT DEF Config
  <2>2. LimitsValid(cfg)
    BY <1>1, SMT DEF Valid
  <2>3. cfg.limits.idle \in Int
    BY <2>1, SMT DEF Limits
  <2>4. cfg.limits.idle >= 5
    BY <2>2, SMT DEF LimitsValid
  <2> QED BY <2>3, <2>4
<1>3. process' = process /\ UNCHANGED <<file, cfg, trusted>>
  BY <1>2 DEF LetIn
<1>4. answer' = Answer("ready", {id}, Ice(cfg))
  BY <1>1, IceIsGood DEF LetIn
<1>5. /\ answer'.status = "ready" /\ answer'.ice.policy = cfg.turn.policy
      /\ answer'.ice.servers = IceServers(cfg)
  BY <1>4 DEF Answer, Ice
<1>6. AnswerGood'
  BY <1>1, <1>5, IceIsGood DEF AnswerGood, RelaysUsable
<1> QED BY <1>3, <1>6 DEF ServerInv, Serving

\* ... when anything else is answered, ...
LEMMA OtherAnswers ==
  ASSUME ServerInv, UNCHANGED <<file, cfg, process, trusted>>,
         NEW status, status # "dropped", NEW rooms, answer' = Answer(status, rooms, NoIce)
  PROVE  ServerInv'
<1>1. answer'.status = status /\ answer'.ice.policy = "unset" /\ answer'.ice.servers = {}
  BY DEF Answer, NoIce
<1>2. AnswerGood'
  BY <1>1 DEF AnswerGood, RelaysUsable
<1> QED BY <1>2 DEF ServerInv, Serving

\* ... and so after every step.
LEMMA ServerStep ==
  ASSUME ServerInv, [MainNext]_mainVars
  PROVE  ServerInv'
<1>1. CASE LoadConfig
  <2>1. UNCHANGED <<file, cfg, trusted, answer>> /\ process' \in {"loaded", "exited"}
        /\ (process' = "loaded" <=> file = "object" /\ Valid(cfg))
    BY <1>1 DEF LoadConfig
  <2>2. AnswerGood'
    BY <2>1 DEF ServerInv, AnswerGood, RelaysUsable
  <2> QED BY <2>1, <2>2 DEF ServerInv, Serving, ProcessStage
<1>2. CASE ValidateOnly \/ ListenFails
  <2>1. UNCHANGED <<file, cfg, trusted, answer>> /\ process' \in {"validated", "exited"}
        /\ Valid(cfg)
    BY <1>2 DEF ValidateOnly, ListenFails, ServerInv
  <2>2. AnswerGood'
    BY <2>1 DEF ServerInv, AnswerGood, RelaysUsable
  <2> QED BY <2>1, <2>2 DEF ServerInv, Serving, ProcessStage
<1>3. CASE Listen
  <2>1. Valid(cfg) /\ cfg \in Config /\ UNCHANGED <<file, cfg, answer>>
        /\ process' = (IF cfg.tls.cert # "unset" THEN "tls" ELSE "plain")
        /\ trusted' = cfg.proxies.listed - cfg.proxies.malformed
    BY <1>3 DEF Listen, ServerInv
  <2>2. cfg.proxies.listed \in Nat /\ cfg.proxies.malformed = 0 /\ cfg.proxies.listed <= MaxProxies
    BY <2>1 DEF Valid, ProxiesValid, Config, Proxies
  <2>3. trusted' = cfg.proxies.listed /\ trusted' \in 0..MaxProxies
    BY <2>1, <2>2, ProxiesAllowed
  <2>4. AnswerGood'
    BY <2>1 DEF ServerInv, AnswerGood, RelaysUsable
  <2> QED BY <2>1, <2>3, <2>4 DEF ServerInv, Serving, ProcessStage
<1>4. CASE \E path \in {"/healthz", "/api/config", "/"}, method \in {"GET", "POST"} :
             Request(path, method)
  <2> PICK path, method : Request(path, method)
    BY <1>4
  <2> DEFINE ids == {cfg.rooms[i].id : i \in DOMAIN cfg.rooms}
  <2>1. UNCHANGED <<file, cfg, process, trusted>>
    BY DEF Request
  <2>2. \/ answer' = Answer("405", {}, NoIce) \/ answer' = Answer("200", {}, NoIce)
        \/ answer' = Answer("rooms", ids, NoIce)
    BY DEF Request
  <2> HIDE DEF ids
  <2> QED BY <2>1, <2>2, OtherAnswers
<1>5. CASE \E id \in Ids, origin \in Site : Refuse(id, origin) \/ Present(id, origin)
  <2> PICK id \in Ids, origin \in Site : Refuse(id, origin) \/ Present(id, origin)
    BY <1>5
  <2>1. CASE Refuse(id, origin)
    <3>1. PICK status \in {"404", "403"} : answer' = Answer(status, {}, NoIce)
      BY <2>1 DEF Refuse
    <3>2. UNCHANGED <<file, cfg, process, trusted>> /\ status # "dropped"
      BY <2>1 DEF Refuse
    <3> QED BY <3>1, <3>2, OtherAnswers
  <2>2. CASE Present(id, origin)
    BY <2>2, PageLetIn DEF Present
  <2> QED BY <2>1, <2>2
<1>6. CASE \E id \in Ids, origin \in cfg.origins, token \in Token :
             WrongToken(id, origin, token) \/ Enroll(id, origin, token)
  <2> PICK id \in Ids, origin \in cfg.origins, token \in Token :
             WrongToken(id, origin, token) \/ Enroll(id, origin, token)
    BY <1>6
  <2>1. CASE WrongToken(id, origin, token)
    BY <2>1, OtherAnswers DEF WrongToken
  <2>2. CASE Enroll(id, origin, token)
    BY <2>2, PageLetIn DEF Enroll
  <2> QED BY <2>1, <2>2
<1>7. CASE Stopped \/ UNCHANGED mainVars
  BY <1>7 DEF Stopped, mainVars, ServerInv, Serving, AnswerGood, RelaysUsable
<1> QED BY <1>1, <1>2, <1>3, <1>4, <1>5, <1>6, <1>7 DEF MainNext

\* It says what is to be shown.
LEMMA ServesAsWritten ==
  ASSUME ServerInv
  PROVE  ConfigurationServed /\ ServerTypeOK
<1>1. PagesServed
  BY DEF ServerInv, AnswerGood, PagesServed
<1>2. NoSettingIgnored
  <2> SUFFICES ASSUME Serving PROVE trusted = cfg.proxies.listed /\ (cfg.tls.key # "unset" => process = "tls")
    BY DEF NoSettingIgnored
  <2>1. TlsValid(cfg)
    BY DEF ServerInv, Serving, Valid
  <2> QED BY <2>1 DEF ServerInv, TlsValid
<1>3. ServerTypeOK
  BY DEF ServerInv, AnswerGood, ServerTypeOK
<1> QED BY <1>1, <1>2, <1>3, TokensTell DEF ServerInv, AnswerGood, ConfigurationServed

\* Validate, NewApp and Handler: for every set of configurations that config.json
\* may hold, one that Validate accepts is served as it is written. No page let in
\* is dropped, one that must use relays has one with credentials for a minute or
\* more, a token opens its own room and no other, and no setting is ignored.
THEOREM ServedAsWritten == MainSpec => []ConfigurationServed
<1>1. MainSpec => []ServerInv
  BY ServerStarts, ServerStep, PTL DEF MainSpec
<1>2. ServerInv => ConfigurationServed
  BY ServesAsWritten
<1> QED BY <1>1, <1>2, PTL

-----------------------------------------------------------------------------
(* The parts together (MCServerParts)                                      *)

\* The invariants that what is shown of the composition needs.
PartsInv == WritesInv /\ BeatInv /\ RequestInv /\ ServerInv

\* The parts of the composition start as they do alone, ...
LEMMA PartsStart ==
  ASSUME PartsInit
  PROVE  PartsInv
<1>1. WritesInv /\ BeatInv
  BY WritesStart, BeatStarts DEF PartsInit
<1>2. RequestInv
  <2>1. CASE SentAlong
    BY <2>1, RequestStarts DEF PartsInit, RequestInit
  <2>2. CASE client = a1 /\ header = <<>>
    <3>1. header \in Seq(Text)
      BY <2>2
    <3> QED BY <2>2, <3>1, OneClient, HopBounds
            DEF PartsInit, RequestInv, Underway, AddressTypeOK, TrueClientCharged
  <2> QED BY <2>1, <2>2 DEF PartsInit
<1>3. ServerInv
  <2>1. CASE Stored
    BY <2>1, ServerStarts DEF PartsInit, MainInit
  <2>2. CASE file = "object" /\ cfg = Good
    <3>1. Good \in Config
      <4> DEFINE site == [host |-> "site", proper |-> TRUE, slash |-> FALSE, normal |-> TRUE]
      <4>1. site \in Site
        BY DEF Site
      <4>2. Good = Configure([url |-> site, id |-> "a", turn |-> "turn"])
        BY DEF Good
      <4> HIDE DEF site
      <4>3. <<[id |-> "a", label |-> "good", token |-> "t1"]>> \in Seq(RoomConfig)
        BY DEF RoomConfig, Token
      <4> QED BY <4>1, <4>2, <4>3 DEF Configure, Config, Example, Proxies, Turn, Coturn, Limits, Path
    <3>2. AnswerGood
      BY DEF PartsInit, Started, AnswerGood, RelaysUsable, Nothing, Answer, NoIce
    <3> QED BY <2>2, <3>1, <3>2, ProxiesAllowed
            DEF PartsInit, Started, ServerInv, ProcessStage, Serving, File
  <2> QED BY <2>1, <2>2 DEF PartsInit
<1> QED BY <1>1, <1>2, <1>3 DEF PartsInv

\* ... and each moves as it does alone while the others stay.
LEMMA PartsStep ==
  ASSUME PartsInv, [PartsNext]_partsVars
  PROVE  PartsInv'
<1>1. [WritesNext]_writeVars /\ [BeatNext]_beatVars /\ [RequestNext]_requestVars
      /\ [MainNext]_mainVars
  BY DEF PartsNext, partsVars, WritesMove, HeartbeatMoves, RequestMoves, ServerMoves,
         InstallerMoves
<1> QED BY <1>1, WritesStep, BeatStep, RequestStep, ServerStep DEF PartsInv

\* MCServerParts: every part keeps its types, which say that a lock is held by who
\* is writing, that timers stay within their periods, that only addresses are
\* charged, and that no credentials last longer than a day.
THEOREM PartsTypeCorrect == PartsSpec => []PartsTypeOK
<1>1. PartsSpec => []PartsInv
  BY PartsStart, PartsStep, PTL DEF PartsSpec
<1>2. PartsInv => PartsTypeOK
  BY ServesAsWritten DEF PartsInv, PartsTypeOK, WritesInv, BeatInv, RequestInv
<1> QED BY <1>1, <1>2, PTL

=============================================================================
