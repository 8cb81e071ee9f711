----------------------------- MODULE SocketWrites -----------------------------
(***************************************************************************)
(* The writes to one websocket (core/signal.go: App.write and closeWS).    *)
(*                                                                         *)
(* Several goroutines write to a connection: its own handler, the handlers *)
(* of the presenters it serves or of the display it is served by.          *)
(* gorilla/websocket lets one goroutine write at a time, so they take a    *)
(* mutex that wsWriteLocks keeps for the connection.  closeWS, which each  *)
(* handler calls at most once and as the last thing it does with the       *)
(* connection, drops that mutex first and closes the connection then; a    *)
(* writer that comes later makes a new one.  The heartbeat's WriteControl  *)
(* needs no lock, and its Close leaves the mutex where it is.              *)
(***************************************************************************)
EXTENDS Naturals, Sequences, FiniteSets

CONSTANTS Goroutine, \* those that may write to the connection
          Closers,   \* those that may call closeWS on it
          Nobody     \* the holder of a free mutex

ASSUME ClosersWrite == Closers \subseteq Goroutine
ASSUME NobodyIsNoGoroutine == Nobody \notin Goroutine

VARIABLES entry,  \* wsWriteLocks' mutex for the connection, 0 when it has none
          holder, \* the mutexes made so far, each with its holder
          writer, \* where each goroutine is
          mine,   \* the mutex each has taken from wsWriteLocks, 0 for none
          open    \* the connection is not closed

writeVars == <<entry, holder, writer, mine, open>>

WriterStage == {"idle", "locking", "writing", "dropped", "done"}

WritesInit == /\ entry = 0 /\ holder = <<>>
              /\ writer = [g \in Goroutine |-> "idle"]
              /\ mine = [g \in Goroutine |-> 0]
              /\ open = TRUE

Moves(g, from, to) == writer[g] = from /\ writer' = [writer EXCEPT ![g] = to]

\* A mutex is to be made for the connection.  (Mutated form: always.)
NeedsMutex_Always == TRUE
NeedsMutex == entry = 0

\* write: LoadOrStore, ...
LoadOrStore(g) ==
  /\ Moves(g, "idle", "locking")
  /\ IF NeedsMutex
     THEN /\ holder' = Append(holder, Nobody) /\ entry' = Len(holder) + 1
          /\ mine' = [mine EXCEPT ![g] = Len(holder) + 1]
     ELSE /\ UNCHANGED <<holder, entry>>
          /\ mine' = [mine EXCEPT ![g] = entry]
  /\ UNCHANGED open

\* ... Lock, ...
Lock(g) == /\ Moves(g, "locking", "writing")
           /\ holder[mine[g]] = Nobody
           /\ holder' = [holder EXCEPT ![mine[g]] = g]
           /\ UNCHANGED <<entry, mine, open>>

\* ... and after the write, which ends by its deadline and may fail, the
\* deferred Unlock.  (Mutated form: not after an error.)
Released_IfWritten(g) ==
  \/ open /\ holder' = [holder EXCEPT ![mine[g]] = Nobody]
  \/ UNCHANGED holder
Released(g) == holder' = [holder EXCEPT ![mine[g]] = Nobody]

Unlock(g) == /\ Moves(g, "writing", "idle")
             /\ Released(g)
             /\ mine' = [mine EXCEPT ![g] = 0]
             /\ UNCHANGED <<entry, open>>

\* closeWS: Delete ...
Delete(g) == /\ g \in Closers /\ Moves(g, "idle", "dropped")
             /\ entry' = 0
             /\ UNCHANGED <<holder, mine, open>>

\* ... and Close.
Shut == open' = FALSE

Close(g) == /\ Moves(g, "dropped", "done")
            /\ Shut
            /\ UNCHANGED <<entry, holder, mine>>

\* The ping goroutine's Close after a failed ping.
HeartbeatCloses == /\ open /\ open' = FALSE
                   /\ UNCHANGED <<entry, holder, writer, mine>>

\* Nobody needs to write to a connection that is closed.
Over == ~open /\ UNCHANGED writeVars

WritesNext == \/ \E g \in Goroutine : \/ LoadOrStore(g) \/ Lock(g) \/ Unlock(g)
                                      \/ Delete(g) \/ Close(g)
              \/ HeartbeatCloses \/ Over

\* Writes end by their deadline, and sync.Mutex serves whoever waits in the end.
WritesFairness ==
  \A g \in Goroutine : SF_writeVars(Lock(g)) /\ WF_writeVars(Unlock(g)) /\ WF_writeVars(Close(g))

WritesSpec == WritesInit /\ [][WritesNext]_writeVars
FairWritesSpec == WritesSpec /\ WritesFairness

-----------------------------------------------------------------------------
(* Properties                                                              *)

Mutex == DOMAIN holder

\* Goroutines hold the mutexes they are said to hold, at the stages they hold one.
WritesTypeOK ==
  /\ entry \in {0} \cup Mutex
  /\ holder \in Seq(Goroutine \cup {Nobody})
  /\ writer \in [Goroutine -> WriterStage]
  /\ mine \in [Goroutine -> {0} \cup Mutex]
  /\ open \in BOOLEAN
  /\ \A g \in Goroutine : mine[g] # 0 <=> writer[g] \in {"locking", "writing"}
  /\ \A m \in Mutex : holder[m] # Nobody => writer[holder[m]] = "writing" /\ mine[holder[m]] = m

Writing == {g \in Goroutine : writer[g] = "writing"}
Closing == {g \in Goroutine : writer[g] = "dropped"}

\* Two goroutines are in WriteJSON on an open connection, where messages could
\* be mixed up, only while a closeWS has dropped the mutex and has not closed the
\* connection yet: nothing but the end of a connection breaks their exclusion.
OneWriterUntilClosing ==
  open /\ Closing = {} => Cardinality(Writing) <= 1

\* Every closeWS lets in one more writer at the most.
WritersBounded ==
  Cardinality(Writing) <= 1 + Cardinality({g \in Goroutine : writer[g] \in {"dropped", "done"}})

\* Messages on a connection are mixed up at its end at most, and by few writers.
WritersKeptApart == OneWriterUntilClosing /\ WritersBounded

\* A write that has begun ends, whoever else writes or closes: no handler waits
\* for a mutex that nobody will unlock.
WritesEnd == \A g \in Goroutine : writer[g] = "locking" ~> writer[g] = "idle"

=============================================================================
