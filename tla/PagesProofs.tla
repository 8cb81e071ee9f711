----------------------------- MODULE PagesProofs -----------------------------
(***************************************************************************)
(* Proofs about main.js as MCPages puts its two pages together, for any    *)
(* numbers of sessions, attempts and candidates: a display's session gets  *)
(* its own answer, candidates and sound, whatever is left of earlier ones; *)
(* and a presenter's failed attempt leaves nothing on, when the user tries *)
(* again only after what was due of it has happened (Patient).             *)
(***************************************************************************)
EXTENDS MCPages, Functions, TLAPS

(* The invariant of the display's page                                     *)

\* What the stage of session n's answerOffer says: it awaits operations of the
\* n-th connection only, which has its offer from the first await on.
TaskMeans(n) ==
  /\ task[n].at \in {"remote", "flush", "create", "local"} => task[n].conn = n
  /\ conns[n].remote = n <=> task[n].at \in {"flush", "create", "local", "sent"}
  /\ conns[n].remote \in {0, n}
  /\ n > session => task[n].at = "none" /\ conns[n].candidates = {}

\* Of every session.
TasksMean == \A n \in Session : TaskMeans(n)

\* There is a peer connection only while a session runs, the one of that
\* session, and answerOffer has not begun before the offer.
PeerOfSession ==
  /\ pc # 0 => running /\ pc = session
  /\ running => session # 0
  /\ session # 0 /\ ~offered => task[session].at = "none"

\* What was received of the session's candidates is in its connection or in
\* state.pendingCandidates, and once createAnswer is called in the connection.
CandidatesKept ==
  pc # 0 =>
    /\ conns[pc].candidates \cup Range(pending) = {<<pc, c>> : c \in received}
    /\ task[pc].at \in {"create", "local", "sent"} => pending = <<>>

\* Without srcObject no play() of an ontrack is pending: setting srcObject has
\* settled them all.
SoundKept == ~src => "track" \notin plays

\* The invariant of the negotiations, ...
PageInv == /\ DisplayPageTypeOK /\ TasksMean /\ PeerOfSession
           /\ CandidatesKept /\ AnswersMatch

\* ... and of the video element with them.
DInv == PageInv /\ DisplayVideoTypeOK /\ SoundKept /\ SoundOnWhenAllowed

-----------------------------------------------------------------------------
(* The invariant of the presenter's page                                   *)

\* Of attempt n nothing is due any more that could touch the page: no socket
\* that has events, no prompt, no operation awaited.
Quiet(n) == /\ sock[n] \in {"none", "closed"}
            /\ at[n] \notin {"none", "prompt", "preparing", "offering", "answering", "flushing"}

\* A Patient user makes an attempt only when the earlier ones are quiet. Without
\* this, the close event of an old socket stops the capture of a new attempt.
PastQuiet == \A n \in Attempt : at[n] # "none" => \A m \in 1..(n - 1) : Quiet(m)

\* What the stage of attempt n says of its socket, of the capture and of the
\* peer connection: the page's variables are those of the attempt that is not
\* quiet.
AttemptMeans(n) ==
  /\ sock[n] = "none" => at[n] \in {"none", "prompt", "preparing", "over"}
  /\ at[n] \in {"none", "prompt", "preparing"} => sock[n] = "none"
  /\ at[n] \in {"prompt", "preparing"} => ~mayShare /\ form
  /\ at[n] = "prompt" => capture = 0
  /\ at[n] = "preparing" => capture = n
  /\ sock[n] = "open" => socket = n /\ stream = n
  /\ sock[n] = "closing" => (socket = n /\ stream = n) \/ (socket = 0 /\ stream = 0)
  /\ at[n] \in {"none", "prompt", "preparing", "ready", "asked"} => arrived[n] = {} /\ added[n] = {}
  /\ at[n] \in {"offering", "offered", "answering", "flushing", "answered"} => caller = n \/ Quiet(n)

\* Of every attempt.
AttemptsMean == \A n \in Attempt : AttemptMeans(n)

\* The form is shown exactly without a stream, the stream is the capture and has
\* a socket, and there are no captures but state.captureStream.
ScreenMeans ==
  /\ form <=> stream = 0
  /\ stream # 0 => stream = capture /\ sock[stream] \in {"open", "closing"}
  /\ socket # 0 => sock[socket] \in {"open", "closing"}
  /\ captures \subseteq {capture}
  /\ capture # 0 /\ stream = 0 => at[capture] = "preparing"
  /\ MayTryAgain

\* Candidates are queued only until the answer is applied; none received is lost
\* between the queue and the connection.
QueueMeans ==
  /\ queue # <<>> => caller # 0 /\ at[caller] \in {"answering", "flushing"}
  /\ caller # 0 => added[caller] \cup Range(queue) = {<<caller, c>> : c \in arrived[caller]}

\* The invariant of the presenter's page.
PInv == PresenterTypeOK /\ PastQuiet /\ AttemptsMean /\ ScreenMeans /\ QueueMeans

-----------------------------------------------------------------------------
(* Queues of candidates                                                    *)

\* A queue appended to has the new element besides the old ones.
LEMMA AppendedRange ==
  ASSUME NEW T, NEW s \in Seq(T), NEW e \in T
  PROVE  Range(Append(s, e)) = Range(s) \cup {e}
<1>1. /\ DOMAIN Append(s, e) = 1..(Len(s) + 1) /\ Append(s, e)[Len(s) + 1] = e
      /\ \A i \in 1..Len(s) : Append(s, e)[i] = s[i]
  OBVIOUS
<1>2. DOMAIN s = 1..Len(s) /\ Len(s) \in Nat
  OBVIOUS
<1>3. \A i \in 1..(Len(s) + 1) : i = Len(s) + 1 \/ i \in 1..Len(s)
  BY <1>2
<1>4. Len(s) + 1 \in 1..(Len(s) + 1) /\ \A i \in 1..Len(s) : i \in 1..(Len(s) + 1)
  BY <1>2
<1>5. Range(Append(s, e)) \subseteq Range(s) \cup {e}
  BY <1>1, <1>2, <1>3 DEF Range
<1>6. Range(s) \cup {e} \subseteq Range(Append(s, e))
  BY <1>1, <1>2, <1>4 DEF Range
<1> QED BY <1>5, <1>6

\* A queue has its head and what is after it.
LEMMA HeadAndTail ==
  ASSUME NEW T, NEW s \in Seq(T), s # <<>>
  PROVE  /\ Range(s) = {Head(s)} \cup Range(Tail(s))
         /\ Head(s) \in T /\ Tail(s) \in Seq(T)
<1>1. /\ DOMAIN s = 1..Len(s) /\ Len(s) \in Nat \ {0} /\ Head(s) = s[1]
      /\ Tail(s) \in Seq(T) /\ Len(Tail(s)) = Len(s) - 1 /\ DOMAIN Tail(s) = 1..(Len(s) - 1)
      /\ \A i \in 1..(Len(s) - 1) : Tail(s)[i] = s[i + 1]
  OBVIOUS
<1>2. \A i \in 1..Len(s) : i = 1 \/ (i - 1 \in 1..(Len(s) - 1) /\ i = (i - 1) + 1)
  BY <1>1
<1>3. 1 \in 1..Len(s) /\ \A i \in 1..(Len(s) - 1) : i + 1 \in 1..Len(s)
  BY <1>1
<1>4. Range(s) \subseteq {Head(s)} \cup Range(Tail(s))
  <2> SUFFICES ASSUME NEW i \in 1..Len(s) PROVE s[i] \in {Head(s)} \cup Range(Tail(s))
    BY <1>1 DEF Range
  <2>1. CASE i = 1
    BY <2>1, <1>1
  <2>2. CASE i # 1
    <3>1. i - 1 \in 1..(Len(s) - 1) /\ Tail(s)[i - 1] = s[i]
      BY <2>2, <1>1, <1>2
    <3> QED BY <3>1, <1>1 DEF Range
  <2> QED BY <2>1, <2>2
<1>5. {Head(s)} \cup Range(Tail(s)) \subseteq Range(s)
  BY <1>1, <1>3 DEF Range
<1>6. Head(s) \in T
  BY <1>1, <1>3
<1> QED BY <1>1, <1>4, <1>5, <1>6

\* An empty queue has nothing.
LEMMA EmptyRange == Range(<<>>) = {}
BY DEF Range

-----------------------------------------------------------------------------
(* The negotiations of the display's page (DisplayPage)                    *)

\* The page has its invariant when it is opened.
LEMMA PageStarts ==
  ASSUME DisplayInit
  PROVE  PageInv
<1> USE SomeSessions
<1>1. DisplayPageTypeOK
  <2>1. conns \in [Session -> PeerConnection] /\ \A n \in Session : conns[n].open <=> n = pc
    BY DEF DisplayInit, PeerConnection, Session
  <2>2. task \in [Session -> Task]
    BY DEF DisplayInit, Task, Await
  <2>3. /\ pc = 0 /\ pending = <<>> /\ answers = {} /\ screen = "code" /\ connected = TRUE
        /\ session = 0 /\ running = FALSE /\ offered = FALSE /\ received = {}
    BY DEF DisplayInit
  <2>4. /\ pc \in {0} \cup Session /\ session \in {0} \cup Session
        /\ screen \in {"code", "connecting"}
    BY <2>3
  <2>5. connected \in BOOLEAN /\ running \in BOOLEAN /\ offered \in BOOLEAN
    BY <2>3
  <2>6. /\ pending \in Seq(Session \X Candidate) /\ received \in SUBSET Candidate
        /\ answers \in SUBSET (Session \X Session)
    BY <2>3
  <2> QED BY <2>1, <2>2, <2>4, <2>5, <2>6, Zenon DEF DisplayPageTypeOK
<1>2. TasksMean
  BY DEF DisplayInit, TasksMean, TaskMeans, Session
<1> QED BY <1>1, <1>2 DEF DisplayInit, PageInv, PeerOfSession, CandidatesKept, AnswersMatch

\* Connections that differ in one field of the n-th at most: whether it is open,
\* ...
OpenedIs(new, cs, n) == new = [cs EXCEPT ![n].open = TRUE]

\* ... that it is closed, ...
ClosedIs(new, cs, n) == new = [cs EXCEPT ![n].open = FALSE]

\* ... its remote description, ...
RemoteIs(new, cs, n, r) == new = [cs EXCEPT ![n].remote = r]

\* ... or one candidate more.
CandidateIs(new, cs, n, item) == new = [cs EXCEPT ![n].candidates = @ \cup {item}]

\* What such an assignment changes, and what not: of an opened connection, ...
LEMMA OpenAssigned ==
  ASSUME NEW cs \in [Session -> PeerConnection], NEW n \in Session,
         NEW new, OpenedIs(new, cs, n)
  PROVE  /\ new \in [Session -> PeerConnection]
         /\ new[n].open /\ new[n].remote = cs[n].remote /\ new[n].candidates = cs[n].candidates
         /\ \A m \in Session : m # n => new[m] = cs[m]
<1> DEFINE conn == [cs[n] EXCEPT !.open = TRUE]
<1>1. /\ conn \in PeerConnection
      /\ conn.open /\ conn.remote = cs[n].remote /\ conn.candidates = cs[n].candidates
  <2>1. cs[n] \in PeerConnection
    OBVIOUS
  <2> QED BY <2>1 DEF PeerConnection
<1>2. new = [cs EXCEPT ![n] = conn]
  BY DEF OpenedIs
<1> HIDE DEF conn
<1> QED BY <1>1, <1>2

\* ... of a closed one, ...
LEMMA CloseAssigned ==
  ASSUME NEW cs \in [Session -> PeerConnection], NEW n \in Session,
         NEW new, ClosedIs(new, cs, n)
  PROVE  /\ new \in [Session -> PeerConnection]
         /\ ~new[n].open /\ new[n].remote = cs[n].remote /\ new[n].candidates = cs[n].candidates
         /\ \A m \in Session : m # n => new[m] = cs[m]
<1> DEFINE conn == [cs[n] EXCEPT !.open = FALSE]
<1>1. /\ conn \in PeerConnection
      /\ ~conn.open /\ conn.remote = cs[n].remote /\ conn.candidates = cs[n].candidates
  <2>1. cs[n] \in PeerConnection
    OBVIOUS
  <2> QED BY <2>1 DEF PeerConnection
<1>2. new = [cs EXCEPT ![n] = conn]
  BY DEF ClosedIs
<1> HIDE DEF conn
<1> QED BY <1>1, <1>2

\* ... of one that gets its remote description, ...
LEMMA RemoteAssigned ==
  ASSUME NEW cs \in [Session -> PeerConnection], NEW n \in Session, NEW r \in {0} \cup Session,
         NEW new, RemoteIs(new, cs, n, r)
  PROVE  /\ new \in [Session -> PeerConnection]
         /\ (new[n].open <=> cs[n].open) /\ new[n].remote = r /\ new[n].candidates = cs[n].candidates
         /\ \A m \in Session : m # n => new[m] = cs[m]
<1> DEFINE conn == [cs[n] EXCEPT !.remote = r]
<1>1. /\ conn \in PeerConnection
      /\ (conn.open <=> cs[n].open) /\ conn.remote = r /\ conn.candidates = cs[n].candidates
  <2>1. cs[n] \in PeerConnection
    OBVIOUS
  <2> QED BY <2>1 DEF PeerConnection
<1>2. new = [cs EXCEPT ![n] = conn]
  BY DEF RemoteIs
<1> HIDE DEF conn
<1> QED BY <1>1, <1>2

\* ... and of one that gets a candidate.
LEMMA CandidateAssigned ==
  ASSUME NEW cs \in [Session -> PeerConnection], NEW n \in Session,
         NEW item \in Session \X Candidate,
         NEW new, CandidateIs(new, cs, n, item)
  PROVE  /\ new \in [Session -> PeerConnection]
         /\ (new[n].open <=> cs[n].open) /\ new[n].remote = cs[n].remote
         /\ new[n].candidates = cs[n].candidates \cup {item}
         /\ \A m \in Session : m # n => new[m] = cs[m]
<1> DEFINE conn == [cs[n] EXCEPT !.candidates = cs[n].candidates \cup {item}]
<1>1. /\ conn \in PeerConnection
      /\ (conn.open <=> cs[n].open) /\ conn.remote = cs[n].remote
      /\ conn.candidates = cs[n].candidates \cup {item}
  <2>1. cs[n] \in PeerConnection
    OBVIOUS
  <2> QED BY <2>1 DEF PeerConnection
<1>2. new = [cs EXCEPT ![n] = conn]
  BY DEF CandidateIs
<1> HIDE DEF conn
<1> QED BY <1>1, <1>2

\* clearPeer leaves no connection open, and the rest of them as it was.
LEMMA ClosedTyped ==
  ASSUME PageInv
  PROVE  /\ Closed(conns) \in [Session -> PeerConnection]
         /\ \A n \in Session : /\ ~Closed(conns)[n].open
                               /\ Closed(conns)[n].remote = conns[n].remote
                               /\ Closed(conns)[n].candidates = conns[n].candidates
<1>1. /\ conns \in [Session -> PeerConnection] /\ pc \in {0} \cup Session
      /\ \A n \in Session : conns[n].open <=> n = pc
  BY DEF PageInv, DisplayPageTypeOK
<1>2. CASE pc = 0
  BY <1>1, <1>2 DEF Closed, Session
<1>3. CASE pc # 0
  <2>1. pc \in Session /\ ClosedIs(Closed(conns), conns, pc)
    BY <1>1, <1>3 DEF Closed, ClosedIs
  <2> QED BY <1>1, <2>1, CloseAssigned
<1> QED BY <1>2, <1>3

\* newSession keeps the invariant: the session is new, so its connection has no
\* candidates and its answerOffer has not begun.
LEMMA PageAtNewSession ==
  ASSUME PageInv, NewSession
  PROVE  PageInv'
<1> DEFINE n == session + 1
<1>1. n \in Session /\ session \in {0} \cup Session /\ session \in Nat /\ n = session + 1
  BY SomeSessions DEF PageInv, DisplayPageTypeOK, NewSession, Session
<1>2. /\ session' = n /\ running' = TRUE /\ received' = {} /\ offered' = FALSE /\ pc' = n
      /\ pending' = <<>> /\ screen' = "connecting" /\ UNCHANGED <<task, answers, connected>>
      /\ conns' = [Closed(conns) EXCEPT ![n].open = TRUE]
  BY DEF NewSession
<1> HIDE DEF n
<1>3. /\ conns' \in [Session -> PeerConnection]
      /\ \A m \in Session : /\ conns'[m].open <=> m = n
                            /\ conns'[m].remote = conns[m].remote
                            /\ conns'[m].candidates = conns[m].candidates
  <2>1. OpenedIs(conns', Closed(conns), n)
    BY <1>2 DEF OpenedIs
  <2>2. /\ conns' \in [Session -> PeerConnection]
        /\ conns'[n].open /\ conns'[n].remote = Closed(conns)[n].remote
        /\ conns'[n].candidates = Closed(conns)[n].candidates
        /\ \A m \in Session : m # n => conns'[m] = Closed(conns)[m]
    BY <1>1, <2>1, ClosedTyped, OpenAssigned
  <2> QED BY <2>2, ClosedTyped
<1>4. DisplayPageTypeOK'
  <2>1. (\A m \in Session : conns[m].open <=> m = pc)'
    BY <1>2, <1>3
  <2>2. /\ (pc \in {0} \cup Session)' /\ (session \in {0} \cup Session)'
        /\ (screen \in {"code", "connecting"})' /\ (running \in BOOLEAN)' /\ (offered \in BOOLEAN)'
    BY <1>1, <1>2
  <2>4. (pending \in Seq(Session \X Candidate))' /\ (received \in SUBSET Candidate)'
    BY <1>2
  <2>3. /\ (task \in [Session -> Task])' /\ (answers \in SUBSET (Session \X Session))'
        /\ (connected \in BOOLEAN)'
    BY <1>2 DEF PageInv, DisplayPageTypeOK
  <2> QED BY <1>3, <2>1, <2>2, <2>3, <2>4 DEF DisplayPageTypeOK
<1>5. TasksMean'
  <2> SUFFICES ASSUME NEW m \in Session PROVE TaskMeans(m)'
    BY DEF TasksMean
  <2>1. TaskMeans(m)
    BY DEF PageInv, TasksMean
  <2>2. m > n => m > session
    BY <1>1 DEF Session
  <2> QED BY <1>2, <1>3, <2>1, <2>2 DEF TaskMeans
<1>6. conns[n].candidates = {} /\ task[n].at = "none"
  BY <1>1 DEF PageInv, TasksMean, TaskMeans
<1>7. CandidatesKept'
  BY <1>1, <1>2, <1>3, <1>6, EmptyRange DEF CandidatesKept
<1>8. AnswersMatch'
  BY <1>2, <1>3 DEF PageInv, DisplayPageTypeOK, AnswersMatch
<1> QED BY <1>1, <1>2, <1>4, <1>5, <1>6, <1>7, <1>8 DEF PageInv, PeerOfSession, Session

\* gotOffer keeps it: the first await is of the connection of the session.
LEMMA PageAtOffer ==
  ASSUME PageInv, GotOffer
  PROVE  PageInv'
<1>1. /\ running /\ ~offered /\ offered' = TRUE
      /\ UNCHANGED <<pc, conns, pending, answers, screen, connected, session, running, received>>
      /\ pc = 0 => task' = task
      /\ pc # 0 => task' = [task EXCEPT ![session] = [at |-> "remote", conn |-> pc]]
  BY DEF GotOffer
<1>2. CASE pc = 0
  BY <1>1, <1>2 DEF PageInv, DisplayPageTypeOK, TasksMean, TaskMeans, PeerOfSession,
                    CandidatesKept, AnswersMatch
<1>3. CASE pc # 0
  <2> DEFINE new == [at |-> "remote", conn |-> pc]
  <2>1. /\ pc = session /\ session \in Session /\ task[session].at = "none"
        /\ task' = [task EXCEPT ![session] = new]
        /\ new \in Task /\ new.at = "remote" /\ new.conn = pc
    BY <1>1, <1>3 DEF PageInv, DisplayPageTypeOK, PeerOfSession, Task, Await, Session
  <2> HIDE DEF new
  <2>2. DisplayPageTypeOK'
    BY <1>1, <2>1 DEF PageInv, DisplayPageTypeOK
  <2>3. TasksMean'
    <3> SUFFICES ASSUME NEW m \in Session PROVE TaskMeans(m)'
      BY DEF TasksMean
    <3>1. TaskMeans(m) /\ ~(session > session)
      BY <2>1 DEF PageInv, TasksMean, Session
    <3>2. CASE m = session
      BY <1>1, <2>1, <3>1, <3>2 DEF TaskMeans, PageInv, DisplayPageTypeOK
    <3>3. CASE m # session
      BY <1>1, <2>1, <3>1, <3>3 DEF TaskMeans, PageInv, DisplayPageTypeOK
    <3> QED BY <3>2, <3>3
  <2>4. CandidatesKept'
    BY <1>1, <2>1 DEF PageInv, DisplayPageTypeOK, CandidatesKept
  <2> QED BY <1>1, <2>1, <2>2, <2>3, <2>4 DEF PageInv, PeerOfSession, AnswersMatch
<1> QED BY <1>2, <1>3

\* What ends a session, or its video, keeps it: without a peer connection no run
\* of answerOffer goes on.
LEMMA PageAtEnd ==
  ASSUME PageInv, ClearPeer, UNCHANGED <<task, answers, connected, session>>,
         screen' \in {"code", "connecting"}, running' \in BOOLEAN, running' => running,
         UNCHANGED <<offered, received>>
  PROVE  PageInv'
<1>1. pc' = 0 /\ pending' = <<>> /\ conns' = Closed(conns)
  BY DEF ClearPeer
<1>2. DisplayPageTypeOK'
  BY <1>1, ClosedTyped DEF PageInv, DisplayPageTypeOK, Session
<1>3. TasksMean'
  BY <1>1, ClosedTyped DEF PageInv, TasksMean, TaskMeans
<1>4. AnswersMatch'
  BY <1>1, ClosedTyped DEF PageInv, DisplayPageTypeOK, AnswersMatch
<1> QED BY <1>1, <1>2, <1>3, <1>4 DEF PageInv, PeerOfSession, CandidatesKept

\* addRemoteCandidate keeps it: the candidate is queued or added.
LEMMA PageAtCandidate ==
  ASSUME PageInv, NEW c \in Candidate, GotCandidate(c)
  PROVE  PageInv'
<1> DEFINE item == <<session, c>>
<1>1. /\ running /\ received' = received \cup {c} /\ session \in Session
      /\ UNCHANGED <<pc, task, answers, screen, connected, session, running, offered>>
      /\ item \in Session \X Candidate
      /\ pc # 0 => pc = session /\ item = <<pc, c>>
  BY DEF PageInv, DisplayPageTypeOK, PeerOfSession, GotCandidate
<1>t. pending \in Seq(Session \X Candidate) /\ conns \in [Session -> PeerConnection]
  BY DEF PageInv, DisplayPageTypeOK
<1>2. CASE HasRemote(conns)
  <2>1. /\ pc # 0 /\ pc \in Session /\ conns[pc].remote # 0 /\ pending' = pending
        /\ CandidateIs(conns', conns, pc, item)
    BY <1>1, <1>2 DEF GotCandidate, HasRemote, WithCandidate, CandidateIs
  <2> HIDE DEF item
  <2>2. /\ conns' \in [Session -> PeerConnection]
        /\ (conns'[pc].open <=> conns[pc].open) /\ conns'[pc].remote = conns[pc].remote
        /\ conns'[pc].candidates = conns[pc].candidates \cup {item}
        /\ \A m \in Session : m # pc => conns'[m] = conns[m]
    BY <1>1, <1>t, <2>1, CandidateAssigned
  <2>3. DisplayPageTypeOK'
    BY <1>1, <2>1, <2>2 DEF PageInv, DisplayPageTypeOK
  <2>4. TasksMean'
    <3> SUFFICES ASSUME NEW m \in Session PROVE TaskMeans(m)'
      BY DEF TasksMean
    <3>1. TaskMeans(m) /\ (m > session => m # pc)
      BY <1>1, <2>1 DEF PageInv, TasksMean, Session
    <3> QED BY <1>1, <2>2, <3>1 DEF TaskMeans
  <2>5. CandidatesKept'
    BY <1>1, <2>1, <2>2 DEF PageInv, CandidatesKept
  <2>6. AnswersMatch'
    BY <1>1, <2>2 DEF PageInv, DisplayPageTypeOK, AnswersMatch
  <2> QED BY <1>1, <2>3, <2>4, <2>5, <2>6 DEF PageInv, PeerOfSession
<1>3. CASE ~HasRemote(conns)
  <2>1. conns' = conns /\ pending' = Append(pending, item)
    BY <1>3 DEF GotCandidate
  <2>n. pc # 0 => conns[pc].remote = 0
    BY <1>3 DEF HasRemote
  <2> HIDE DEF item
  <2>2. pending' \in Seq(Session \X Candidate) /\ Range(pending') = Range(pending) \cup {item}
    BY <1>1, <1>t, <2>1, AppendedRange
  <2>3. DisplayPageTypeOK'
    BY <1>1, <2>1, <2>2 DEF PageInv, DisplayPageTypeOK
  <2>4. CandidatesKept'
    <3> SUFFICES ASSUME pc # 0 PROVE CandidatesKept'
      BY <1>1 DEF CandidatesKept
    <3>1. task[pc].at \notin {"create", "local", "sent"}
      BY <1>1, <2>n DEF PageInv, TasksMean, TaskMeans
    <3> QED BY <1>1, <2>1, <2>2, <3>1 DEF PageInv, CandidatesKept
  <2> QED BY <1>1, <2>1, <2>3, <2>4 DEF PageInv, PeerOfSession, TasksMean, TaskMeans, AnswersMatch
<1> QED BY <1>2, <1>3

\* Goes changes the run of one session.
LEMMA TaskSet ==
  ASSUME NEW n \in Session, NEW stage \in Await, NEW conn \in {0} \cup Session, Goes(n, stage, conn),
         task \in [Session -> Task]
  PROVE  /\ task' \in [Session -> Task]
         /\ task'[n].at = stage /\ task'[n].conn = conn
         /\ \A m \in Session : m # n => task'[m] = task[m]
<1> DEFINE new == [at |-> stage, conn |-> conn]
<1>1. new \in Task /\ new.at = stage /\ new.conn = conn
  BY DEF Task
<1>2. task' = [task EXCEPT ![n] = new]
  BY DEF Goes
<1> HIDE DEF new
<1> QED BY <1>1, <1>2

\* Who goes on after an await works for the session there is.
LEMMA AwaitsOwn ==
  ASSUME PageInv, NEW n \in Session, NEW stage \in {"remote", "flush", "create", "local"},
         Awaits(n, stage)
  PROVE  pc = n /\ session = n /\ task[n].conn = n /\ task[n].at = stage /\ offered
<1>1. task[n].at = stage /\ task[n].conn = n
  BY DEF Awaits, PageInv, TasksMean, TaskMeans
<1>2. pc = n
  BY <1>1 DEF Awaits, PageInv, DisplayPageTypeOK
<1>3. session = n
  BY <1>2 DEF PageInv, PeerOfSession, Session
<1>4. offered
  BY <1>1, <1>3 DEF PageInv, PeerOfSession, Session
<1> QED BY <1>1, <1>2, <1>3, <1>4

\* flushRemoteCandidates keeps it: the head of the queue goes to the connection,
\* and createAnswer is called with an empty queue only.
LEMMA PageAtFlush ==
  ASSUME PageInv, NEW n \in Session, pc = n, session = n, offered,
         task[n].at \in {"remote", "flush"},
         NEW cs \in [Session -> PeerConnection], Flush(n, cs),
         \A m \in Session : /\ cs[m].open <=> m = pc
                            /\ cs[m].remote = IF m = n THEN n ELSE conns[m].remote
                            /\ cs[m].candidates = conns[m].candidates,
         UNCHANGED <<pc, answers, screen, serverVars>>
  PROVE  PageInv'
<1>1. /\ pending \in Seq(Session \X Candidate) /\ task \in [Session -> Task] /\ n # 0
      /\ UNCHANGED <<connected, session, running, offered, received>>
      /\ pc # 0 /\ cs[pc].remote # 0 /\ HasRemote(cs)
  BY DEF PageInv, DisplayPageTypeOK, serverVars, Session, HasRemote
<1>2. PICK stage \in {"flush", "create"} :
        /\ Goes(n, stage, n)
        /\ stage = "flush" => /\ pending # <<>> /\ pending' = Tail(pending)
                              /\ CandidateIs(conns', cs, pc, Head(pending))
        /\ stage = "create" => pending = <<>> /\ pending' = pending /\ conns' = cs
  <2>1. CASE pending # <<>>
    BY <1>1, <2>1 DEF Flush, WithCandidate, CandidateIs
  <2>2. CASE pending = <<>>
    BY <1>1, <2>2 DEF Flush
  <2> QED BY <2>1, <2>2
<1>3. /\ task' \in [Session -> Task]
      /\ task'[n].at = stage /\ task'[n].conn = n
      /\ \A m \in Session : m # n => task'[m] = task[m]
  <2>1. stage \in Await
    BY DEF Await
  <2> QED BY <1>1, <1>2, <2>1, TaskSet
<1>4. /\ conns' \in [Session -> PeerConnection] /\ pending' \in Seq(Session \X Candidate)
      /\ \A m \in Session :
            /\ conns'[m].open <=> m = pc
            /\ conns'[m].remote = IF m = n THEN n ELSE conns[m].remote
            /\ m # pc => conns'[m].candidates = conns[m].candidates
      /\ conns'[pc].candidates \cup Range(pending') = conns[pc].candidates \cup Range(pending)
  <2>1. CASE stage = "flush"
    <3>1. /\ Range(pending) = {Head(pending)} \cup Range(Tail(pending))
          /\ Head(pending) \in Session \X Candidate /\ Tail(pending) \in Seq(Session \X Candidate)
      BY <1>1, <1>2, <2>1, HeadAndTail
    <3>2. CandidateIs(conns', cs, pc, Head(pending)) /\ pending' = Tail(pending)
      BY <1>2, <2>1
    <3>3. /\ conns' \in [Session -> PeerConnection]
          /\ (conns'[pc].open <=> cs[pc].open) /\ conns'[pc].remote = cs[pc].remote
          /\ conns'[pc].candidates = cs[pc].candidates \cup {Head(pending)}
          /\ \A m \in Session : m # pc => conns'[m] = cs[m]
      BY <3>1, <3>2, CandidateAssigned
    <3> QED BY <3>1, <3>2, <3>3
  <2>2. CASE stage = "create"
    BY <1>1, <1>2, <2>2
  <2> QED BY <2>1, <2>2
<1>5. DisplayPageTypeOK'
  BY <1>1, <1>3, <1>4 DEF PageInv, DisplayPageTypeOK
<1>6. TasksMean'
  <2> SUFFICES ASSUME NEW m \in Session PROVE TaskMeans(m)'
    BY DEF TasksMean
  <2>1. TaskMeans(m) /\ (m > session => m # n)
    BY DEF PageInv, TasksMean, Session
  <2>2. CASE m = n
    BY <1>1, <1>2, <1>3, <1>4, <2>1, <2>2 DEF TaskMeans
  <2>3. CASE m # n
    BY <1>1, <1>3, <1>4, <2>1, <2>3 DEF TaskMeans
  <2> QED BY <2>2, <2>3
<1>7. CandidatesKept'
  BY <1>1, <1>2, <1>3, <1>4 DEF PageInv, CandidatesKept
<1>8. AnswersMatch'
  <2> SUFFICES ASSUME NEW a \in answers PROVE a[2] = a[1] /\ conns'[a[2]].remote = a[1]
    BY DEF AnswersMatch
  <2>1. a[1] \in Session /\ a[2] = a[1] /\ conns[a[2]].remote = a[1]
    BY DEF PageInv, DisplayPageTypeOK, AnswersMatch
  <2> QED BY <1>4, <2>1
<1> QED BY <1>1, <1>3, <1>5, <1>6, <1>7, <1>8 DEF PageInv, PeerOfSession

\* So it does after setRemoteDescription, ...
LEMMA PageAtRemote ==
  ASSUME PageInv, NEW n \in Session, RemoteSet(n)
  PROVE  PageInv'
<1> DEFINE cs == [conns EXCEPT ![task[n].conn].remote = n]
<1>1. Awaits(n, "remote") /\ Flush(n, cs) /\ UNCHANGED <<pc, answers, screen, serverVars>>
  BY DEF RemoteSet
<1>2. pc = n /\ session = n /\ task[n].conn = n /\ task[n].at = "remote" /\ offered
  BY <1>1, AwaitsOwn
<1>3. RemoteIs(cs, conns, n, n)
  BY <1>2 DEF RemoteIs
<1> HIDE DEF cs
<1>4. conns \in [Session -> PeerConnection] /\ \A m \in Session : conns[m].open <=> m = pc
  BY DEF PageInv, DisplayPageTypeOK
<1>5. /\ cs \in [Session -> PeerConnection]
      /\ (cs[n].open <=> conns[n].open) /\ cs[n].remote = n
      /\ cs[n].candidates = conns[n].candidates
      /\ \A m \in Session : m # n => cs[m] = conns[m]
  BY <1>3, <1>4, RemoteAssigned
<1>6. \A m \in Session : /\ cs[m].open <=> m = pc
                         /\ cs[m].remote = IF m = n THEN n ELSE conns[m].remote
                         /\ cs[m].candidates = conns[m].candidates
  BY <1>4, <1>5
<1> QED BY <1>1, <1>2, <1>5, <1>6, PageAtFlush

\* ... and after each addIceCandidate.
LEMMA PageAtFlushed ==
  ASSUME PageInv, NEW n \in Session, Flushed(n)
  PROVE  PageInv'
<1>1. Awaits(n, "flush") /\ Flush(n, conns) /\ UNCHANGED <<pc, answers, screen, serverVars>>
  BY DEF Flushed
<1>2. pc = n /\ session = n /\ task[n].conn = n /\ task[n].at = "flush" /\ offered
  BY <1>1, AwaitsOwn
<1>3. /\ conns \in [Session -> PeerConnection]
      /\ \A m \in Session : /\ conns[m].open <=> m = pc
                            /\ conns[m].remote = IF m = n THEN n ELSE conns[m].remote
                            /\ conns[m].candidates = conns[m].candidates
  BY <1>2 DEF PageInv, DisplayPageTypeOK, TasksMean, TaskMeans
<1> QED BY <1>1, <1>2, <1>3, PageAtFlush

\* The last two awaits change where the run is and what is answered.
LEMMA PageAtAnswer ==
  ASSUME PageInv, NEW n \in Session, Created(n) \/ LocalSet(n)
  PROVE  PageInv'
<1>1. PICK was \in {"create", "local"} : /\ Awaits(n, was)
                                         /\ was = "create" => Created(n)
                                         /\ was = "local" => LocalSet(n)
  BY DEF Created, LocalSet
<1>2. pc = n /\ session = n /\ task[n].conn = n /\ task[n].at = was /\ offered /\ n # 0
  BY <1>1, AwaitsOwn DEF Session
<1>3. /\ UNCHANGED <<pc, conns, pending, screen, connected, session, running, offered, received>>
      /\ answers' \in {answers, answers \cup {<<n, n>>}}
  BY <1>1, <1>2 DEF Created, LocalSet, serverVars
<1>4. PICK stage \in {"local", "sent"} : /\ Goes(n, stage, IF stage = "local" THEN n ELSE 0)
                                         /\ stage = "local" => answers' = answers
  BY <1>1, <1>2 DEF Created, LocalSet
<1>5. /\ task' \in [Session -> Task]
      /\ task'[n].at = stage /\ (stage = "local" => task'[n].conn = n)
      /\ \A m \in Session : m # n => task'[m] = task[m]
  <2> DEFINE conn == IF stage = "local" THEN n ELSE 0
  <2>1. conn \in {0} \cup Session /\ (stage = "local" => conn = n)
    OBVIOUS
  <2>2. Goes(n, stage, conn) /\ task \in [Session -> Task] /\ stage \in Await
    BY <1>4 DEF PageInv, DisplayPageTypeOK, Await
  <2> HIDE DEF conn
  <2> QED BY <2>1, <2>2, TaskSet
<1>6. conns[n].remote = n
  BY <1>2 DEF PageInv, TasksMean, TaskMeans
<1>7. DisplayPageTypeOK'
  BY <1>3, <1>5 DEF PageInv, DisplayPageTypeOK
<1>8. TasksMean'
  <2> SUFFICES ASSUME NEW m \in Session PROVE TaskMeans(m)'
    BY DEF TasksMean
  <2>1. TaskMeans(m) /\ (m > session => m # n)
    BY <1>2 DEF PageInv, TasksMean, Session
  <2>2. CASE m = n
    BY <1>3, <1>4, <1>5, <1>6, <2>1, <2>2 DEF TaskMeans
  <2>3. CASE m # n
    BY <1>3, <1>5, <2>1, <2>3 DEF TaskMeans
  <2> QED BY <2>2, <2>3
<1>9. CandidatesKept'
  BY <1>1, <1>2, <1>3, <1>5 DEF PageInv, CandidatesKept
<1>10. AnswersMatch'
  <2> SUFFICES ASSUME NEW a \in answers' PROVE a[2] = a[1] /\ conns[a[2]].remote = a[1]
    BY <1>3 DEF AnswersMatch
  <2>1. CASE a \in answers
    BY <2>1 DEF PageInv, AnswersMatch
  <2>2. CASE a = <<n, n>>
    BY <1>6, <2>2
  <2> QED BY <1>3, <2>1, <2>2
<1> QED BY <1>2, <1>3, <1>5, <1>7, <1>8, <1>9, <1>10 DEF PageInv, PeerOfSession

\* A step that leaves the page alone keeps it.
LEMMA PageUnchanged ==
  ASSUME PageInv, UNCHANGED displayVars
  PROVE  PageInv'
BY DEF displayVars, pageVars, serverVars, PageInv, DisplayPageTypeOK, TasksMean, TaskMeans,
       PeerOfSession, CandidatesKept, AnswersMatch

\* The page has no handler for a lost socket.
LEMMA PageAtLose ==
  ASSUME PageInv, Lose
  PROVE  PageInv'
<1>1. /\ connected' = FALSE
      /\ UNCHANGED <<pc, conns, pending, task, answers, screen, session, running, offered, received>>
  BY DEF Lose, pageVars
<1>2. connected' \in BOOLEAN
  BY <1>1
<1>3. DisplayPageTypeOK'
  BY <1>1, <1>2 DEF PageInv, DisplayPageTypeOK
<1> QED BY <1>1, <1>3 DEF PageInv, TasksMean, TaskMeans, PeerOfSession, CandidatesKept, AnswersMatch

-----------------------------------------------------------------------------
(* The video element (DisplayVideo)                                        *)

\* The whole display page has its invariant when it is opened, ...
LEMMA DisplayStarts ==
  ASSUME VideoInit
  PROVE  DInv
<1>1. PageInv
  BY PageStarts DEF VideoInit
<1> QED BY <1>1 DEF VideoInit, DisplayInit, DInv, DisplayVideoTypeOK, SoundKept, SoundOnWhenAllowed

\* ... and keeps it with every message, settled promise and click.
LEMMA DisplayStep ==
  ASSUME DInv, [VideoNext]_<<displayVars, videoVars>>
  PROVE  DInv'
<1> USE DEF DisplayVideoTypeOK, SoundKept, SoundOnWhenAllowed, Play
<1>t. /\ PageInv /\ pc \in {0} \cup Session
      /\ {blocked, activated, src, flowing, muted, playing, audioButton} \subseteq BOOLEAN
      /\ plays \subseteq Play /\ due \subseteq Play
      /\ (src <=> pc # 0) /\ (flowing => src)
      /\ ~src => "track" \notin plays
      /\ src /\ ~blocked => ~muted
  BY DEF DInv, PageInv, DisplayPageTypeOK
<1>1. CASE StartVideo
  <2>1. PageInv'
    BY <1>1, <1>t, PageAtNewSession DEF StartVideo
  <2>2. ~src
    BY <1>1, <1>t DEF StartVideo, NewSession, PageInv, PeerOfSession
  <2>3. pc' # 0
    BY <1>1, <1>t DEF StartVideo, NewSession, PageInv, DisplayPageTypeOK, Session
  <2>4. /\ src' = TRUE /\ flowing' = FALSE /\ plays' = {} /\ due' = {}
        /\ UNCHANGED <<blocked, activated>>
        /\ muted' = FALSE /\ audioButton' = FALSE /\ playing' \in BOOLEAN
    BY <1>1, <1>t, <2>2 DEF StartVideo, Clear, Retried, PlayingAfter, policyVars
  <2> QED BY <1>t, <2>1, <2>3, <2>4 DEF DInv
<1>2. CASE StopVideo
  <2>1. PageInv' /\ pc' = 0
    <3>t. screen \in {"code", "connecting"} /\ running \in BOOLEAN /\ (ClearPeer => pc' = 0)
      BY <1>t DEF PageInv, DisplayPageTypeOK, ClearPeer
    <3>1. CASE PresenterClosed
      <4>1. /\ ClearPeer /\ UNCHANGED <<task, answers, connected, session, offered, received>>
            /\ screen' = "code" /\ running' = FALSE
        BY <3>1 DEF PresenterClosed
      <4>2. screen' \in {"code", "connecting"} /\ running' \in BOOLEAN /\ (running' => running)
        BY <4>1
      <4> QED BY <1>t, <3>t, <4>1, <4>2, PageAtEnd
    <3>2. CASE VideoEnds
      <4>1. /\ ClearPeer
              /\ UNCHANGED <<task, answers, screen, connected, session, running, offered, received>>
        BY <3>2 DEF VideoEnds, serverVars
      <4>2. screen' \in {"code", "connecting"} /\ running' \in BOOLEAN /\ (running' => running)
        BY <3>t, <4>1
      <4> QED BY <1>t, <3>t, <4>1, <4>2, PageAtEnd
    <3> QED BY <1>2, <3>1, <3>2 DEF StopVideo
  <2>2. /\ src' = FALSE /\ flowing' = FALSE /\ plays' \subseteq {"retry"} /\ due' = {}
        /\ UNCHANGED <<blocked, activated>>
        /\ muted' \in BOOLEAN /\ audioButton' \in BOOLEAN /\ playing' \in BOOLEAN
    BY <1>2, <1>t DEF StopVideo, Clear, Retried, PlayingAfter, policyVars
  <2> QED BY <1>t, <2>1, <2>2 DEF DInv
<1>3. CASE \E n \in Session : GotTracks(n)
  <2> PICK n \in Session : GotTracks(n)
    BY <1>3
  <2>1. PageInv' /\ pc' = pc
    BY <1>t, PageAtRemote DEF GotTracks, RemoteSet
  <2>2. pc # 0
    BY <1>t, AwaitsOwn DEF GotTracks, RemoteSet, Session
  <2>3. /\ UNCHANGED <<blocked, activated, src, flowing, playing, due>>
        /\ plays' \subseteq Play /\ audioButton' \in BOOLEAN /\ muted' \in BOOLEAN
        /\ ~blocked => muted' = muted
    BY <1>t DEF GotTracks, ShowTracks, Retried, policyVars
  <2> QED BY <1>t, <2>1, <2>2, <2>3 DEF DInv
<1>4. CASE Negotiate /\ UNCHANGED videoVars
  <2>1. PageInv' /\ pc' = pc
    <3>1. CASE GotOffer
      BY <3>1, <1>t, PageAtOffer DEF GotOffer
    <3>2. CASE Lose
      BY <3>2, <1>t, PageAtLose DEF Lose, pageVars
    <3>3. CASE \E c \in Candidate : GotCandidate(c)
      BY <3>3, <1>t, PageAtCandidate DEF GotCandidate
    <3>4. CASE \E n \in Session : Flushed(n) \/ Created(n) \/ LocalSet(n)
      <4> PICK n \in Session : Flushed(n) \/ Created(n) \/ LocalSet(n)
        BY <3>4
      <4>1. pc' = pc
        BY DEF Flushed, Created, LocalSet
      <4> QED BY <4>1, <1>t, PageAtFlushed, PageAtAnswer
    <3>5. CASE Done
      BY <3>5, <1>t, PageUnchanged DEF Done, displayVars, pageVars
    <3> QED BY <1>4, <3>1, <3>2, <3>3, <3>4, <3>5 DEF Negotiate
  <2>2. UNCHANGED <<blocked, activated, src, flowing, muted, playing, audioButton, plays, due>>
    BY <1>4 DEF videoVars, policyVars, elementVars
  <2> QED BY <1>t, <2>1, <2>2 DEF DInv
<1>5. CASE Flow \/ Queue \/ Resolve \/ Click
  <2>1. UNCHANGED <<displayVars, blocked, src>>
    BY <1>5 DEF Flow, Queue, Resolve, Click, policyVars
  <2>2. PageInv' /\ pc' = pc
    BY <1>t, <2>1, PageUnchanged DEF displayVars, pageVars
  <2>3. CASE Flow
    BY <1>t, <2>1, <2>2, <2>3 DEF Flow, DInv, policyVars
  <2>4. CASE Queue
    BY <1>t, <2>1, <2>2, <2>4 DEF Queue, DInv, policyVars
  <2>5. CASE Resolve
    BY <1>t, <2>1, <2>2, <2>5 DEF Resolve, DInv, policyVars, PlayingAfter, ButtonAfter
  <2>6. CASE Click
    <3>1. /\ UNCHANGED <<blocked, src, flowing, playing, audioButton, due>>
          /\ activated' = TRUE /\ muted' = FALSE /\ plays' = plays \cup {"click"}
      BY <2>6 DEF Click, MutedByClick
    <3>2. activated' \in BOOLEAN /\ muted' \in BOOLEAN
      BY <3>1
    <3>3. DisplayVideoTypeOK'
      BY <1>t, <2>2, <3>1, <3>2
    <3> QED BY <1>t, <2>2, <3>1, <3>3 DEF DInv
  <2> QED BY <1>5, <2>3, <2>4, <2>5, <2>6
<1>6. CASE UNCHANGED <<displayVars, videoVars>>
  <2>1. PageInv' /\ pc' = pc
    BY <1>6, <1>t, PageUnchanged DEF displayVars, pageVars
  <2> QED BY <1>6, <1>t, <2>1 DEF DInv, videoVars, policyVars, elementVars
<1> QED BY <1>1, <1>2, <1>3, <1>4, <1>5, <1>6 DEF VideoNext

\* A session that is answered has all its candidates.
LEMMA SessionComplete ==
  ASSUME DInv
  PROVE  CandidatesComplete
<1> SUFFICES ASSUME pc # 0, task[pc].at = "sent"
             PROVE  conns[pc].candidates = {<<pc, c>> : c \in received}
  BY DEF CandidatesComplete
<1>1. pending = <<>> /\ conns[pc].candidates \cup Range(pending) = {<<pc, c>> : c \in received}
  BY DEF DInv, PageInv, CandidatesKept
<1> QED BY <1>1, EmptyRange

-----------------------------------------------------------------------------
(* The presenter's page (PresenterPage)                                    *)

\* The page has its invariant when it is opened.
LEMMA PresenterStarts ==
  ASSUME PresenterInit
  PROVE  PInv
<1>1. /\ form = TRUE /\ mayShare = TRUE /\ captures = {} /\ capture = 0 /\ stream = 0
      /\ socket = 0 /\ caller = 0 /\ queue = <<>>
      /\ \A n \in Attempt : at[n] = "none" /\ sock[n] = "none" /\ arrived[n] = {} /\ added[n] = {}
  BY DEF PresenterInit
<1>2. /\ at \in [Attempt -> Stage] /\ sock \in [Attempt -> Socket]
      /\ arrived \in [Attempt -> SUBSET DisplayCandidate]
      /\ added \in [Attempt -> SUBSET (Attempt \X DisplayCandidate)]
  BY DEF PresenterInit, Stage, Socket
<1>3. PresenterTypeOK
  <2>1. form \in BOOLEAN /\ mayShare \in BOOLEAN /\ captures \in SUBSET Attempt
    BY <1>1
  <2>2. queue \in Seq(Attempt \X DisplayCandidate)
    BY <1>1
  <2> QED BY <1>1, <1>2, <2>1, <2>2 DEF PresenterTypeOK
<1>4. PastQuiet /\ AttemptsMean
  BY <1>1 DEF PastQuiet, AttemptsMean, AttemptMeans
<1> QED BY <1>1, <1>3, <1>4, EmptyRange DEF PInv, ScreenMeans, MayTryAgain, QueueMeans

\* An attempt that is not quiet is the newest one.
LEMMA Newest ==
  ASSUME PInv, NEW n \in Attempt, at[n] # "none", ~Quiet(n), NEW m \in Attempt, m # n
  PROVE  Quiet(m) \/ (at[m] = "none" /\ sock[m] = "none")
<1>1. n \in Nat /\ m \in Nat
  BY SomeAttempts DEF Attempt
<1>2. CASE m < n
  BY <1>1, <1>2 DEF PInv, PastQuiet, Attempt
<1>3. CASE n < m
  <2>1. at[m] = "none"
    BY <1>1, <1>3 DEF PInv, PastQuiet, Attempt
  <2> QED BY <2>1 DEF PInv, AttemptsMean, AttemptMeans
<1> QED BY <1>1, <1>2, <1>3

\* Nothing but the attempt n has changed.
Only(n) == \A m \in Attempt : m # n => /\ at'[m] = at[m] /\ sock'[m] = sock[m]
                                       /\ arrived'[m] = arrived[m] /\ added'[m] = added[m]

\* A step of the newest attempt keeps what is said of the others.
LEMMA AttemptKept ==
  ASSUME PInv, NEW n \in Attempt, at[n] # "none", ~Quiet(n),
         Only(n), at'[n] # "none", AttemptMeans(n)'
  PROVE  PastQuiet' /\ AttemptsMean'
<1>1. PastQuiet'
  <2> SUFFICES ASSUME NEW k \in Attempt, at'[k] # "none", NEW m \in 1..(k - 1) PROVE Quiet(m)'
    BY DEF PastQuiet
  <2>1. k \in Nat /\ n \in Nat /\ m \in Attempt /\ m < k /\ m \in Nat
    BY SomeAttempts DEF Attempt
  <2>2. ~(n < k)
    <3> SUFFICES ASSUME n < k PROVE FALSE
      OBVIOUS
    <3>1. at[k] # "none" /\ n \in 1..(k - 1)
      BY <2>1 DEF Only, Attempt
    <3> QED BY <3>1 DEF PInv, PastQuiet
  <2>3. m # n /\ m \in 1..(n - 1)
    BY <2>1, <2>2
  <2> QED BY <2>1, <2>3 DEF PInv, PastQuiet, Only, Quiet
<1>2. ASSUME NEW m \in Attempt, m # n PROVE AttemptMeans(m)'
  <2>1. /\ at'[m] = at[m] /\ sock'[m] = sock[m] /\ arrived'[m] = arrived[m] /\ added'[m] = added[m]
    BY <1>2 DEF Only
  <2>2. AttemptMeans(m)
    BY DEF PInv, AttemptsMean
  <2>3. Quiet(m) \/ (at[m] = "none" /\ sock[m] = "none")
    BY <1>2, Newest
  <2> QED BY <2>1, <2>2, <2>3 DEF AttemptMeans, Quiet
<1> QED BY <1>1, <1>2 DEF AttemptsMean

\* The candidates are kept by a step that is about something else, ...
LEMMA QueueKept ==
  ASSUME PInv, UNCHANGED callVars,
         \A m \in Attempt : at[m] \in {"answering", "flushing"} => at'[m] \in {"answering", "flushing"}
  PROVE  QueueMeans'
BY DEF PInv, PresenterTypeOK, QueueMeans, callVars

\* ... and so are the screen and its capture.
LEMMA ScreenKept ==
  ASSUME PInv, UNCHANGED <<screenVars, socket, sock>>,
         \A m \in Attempt : at[m] \in {"prompt", "preparing"} <=> at'[m] \in {"prompt", "preparing"},
         \A m \in Attempt : at[m] = "preparing" => at'[m] = "preparing"
  PROVE  ScreenMeans'
<1>1. UNCHANGED <<form, mayShare, captures, capture, stream, socket, sock>>
  BY DEF screenVars
<1>2. MayTryAgain'
  BY <1>1 DEF PInv, ScreenMeans, MayTryAgain
<1> QED BY <1>1, <1>2 DEF PInv, PresenterTypeOK, ScreenMeans

\* presenterFailure keeps the invariant: it stops the capture and closes the
\* socket of the attempt that failed.
LEMMA FailureKept ==
  ASSUME PInv, NEW n \in Attempt, at[n] # "none", ~Quiet(n),
         at[n] \in {"prompt", "preparing", "asked"}, sock[n] \in {"none", "open"},
         PresenterFailure, Moves(n, "over"), UNCHANGED callVars
  PROVE  PInv'
<1>1. /\ captures' = captures \ {stream, capture} /\ stream' = 0 /\ capture' = 0
      /\ sock' = Hung /\ socket' = 0 /\ mayShare' = TRUE /\ form' = TRUE
      /\ at' = [at EXCEPT ![n] = "over"]
      /\ UNCHANGED <<caller, queue, arrived, added>>
  BY DEF PresenterFailure, Stopped, Moves, callVars
<1>t. /\ captures \in SUBSET Attempt /\ socket \in {0} \cup Attempt /\ captures \subseteq {capture}
      /\ at \in [Attempt -> Stage] /\ sock \in [Attempt -> Socket] /\ 0 \notin Attempt
      /\ socket # 0 => sock[socket] \in {"open", "closing"}
      /\ sock[n] = "open" => socket = n
  BY DEF PInv, PresenterTypeOK, ScreenMeans, AttemptsMean, AttemptMeans, Attempt
<1>2. socket # 0 => socket = n
  BY <1>t, Newest DEF Quiet
<1>3. /\ sock' \in [Attempt -> Socket] /\ \A m \in Attempt : m # n => sock'[m] = sock[m]
      /\ sock'[n] \in {"none", "closing"}
  BY <1>t, <1>1, <1>2 DEF Hung, Socket
<1>4. /\ at' \in [Attempt -> Stage] /\ at'[n] = "over" /\ \A m \in Attempt : m # n => at'[m] = at[m]
  BY <1>t, <1>1 DEF Stage
<1>5. captures' = {}
  BY <1>1, <1>t
<1>6. PresenterTypeOK'
  <2>1. (form \in BOOLEAN)' /\ (mayShare \in BOOLEAN)' /\ (captures \in SUBSET Attempt)'
    BY <1>1, <1>5
  <2> QED BY <1>1, <1>3, <1>4, <2>1 DEF PInv, PresenterTypeOK
<1>7. PastQuiet' /\ AttemptsMean'
  <2>1. Only(n)
    BY <1>1, <1>3, <1>4 DEF Only
  <2>2. AttemptMeans(n)'
    BY <1>1, <1>3, <1>4 DEF AttemptMeans
  <2> QED BY <1>4, <2>1, <2>2, AttemptKept
<1>8. ScreenMeans'
  BY <1>1, <1>5 DEF ScreenMeans, MayTryAgain
<1>9. QueueMeans'
  BY <1>1, <1>4, QueueKept
<1> QED BY <1>6, <1>7, <1>8, <1>9 DEF PInv

\* Moves changes the stage of one attempt.
LEMMA StageSet ==
  ASSUME PresenterTypeOK, NEW n \in Attempt, NEW stage \in Stage, Moves(n, stage)
  PROVE  at' \in [Attempt -> Stage] /\ at'[n] = stage /\ \A m \in Attempt : m # n => at'[m] = at[m]
BY DEF PresenterTypeOK, Moves

\* Going on to a stage that has nothing to do with the capture keeps it.
LEMMA MoveKept ==
  ASSUME PInv, NEW n \in Attempt, at[n] # "none", ~Quiet(n),
         at[n] \notin {"prompt", "preparing", "answering", "flushing"},
         NEW stage \in Stage \ {"none", "prompt", "preparing"}, Moves(n, stage),
         UNCHANGED <<screenVars, socket, callVars, sock>>, AttemptMeans(n)'
  PROVE  PInv'
<1>1. at' \in [Attempt -> Stage] /\ at'[n] = stage /\ \A m \in Attempt : m # n => at'[m] = at[m]
  BY StageSet DEF PInv
<1>2. UNCHANGED <<form, mayShare, captures, capture, stream, socket, caller, queue, arrived,
                  added, sock>>
  BY DEF screenVars, callVars
<1>3. PresenterTypeOK'
  BY <1>1, <1>2 DEF PInv, PresenterTypeOK
<1>4. PastQuiet' /\ AttemptsMean'
  BY <1>1, <1>2, AttemptKept DEF Only
<1>5. ScreenMeans'
  <2>1. \A m \in Attempt : at[m] \in {"prompt", "preparing"} <=> at'[m] \in {"prompt", "preparing"}
    BY <1>1
  <2>2. \A m \in Attempt : at[m] = "preparing" => at'[m] = "preparing"
    BY <1>1
  <2> QED BY <2>1, <2>2, ScreenKept
<1>6. QueueMeans'
  BY <1>1, QueueKept
<1> QED BY <1>3, <1>4, <1>5, <1>6 DEF PInv

\* startSharing keeps it, by a Patient user: what is not quiet of earlier
\* attempts would be due.
LEMMA StartsKept ==
  ASSUME PInv, Patient, NEW n \in Attempt, StartSharing(n)
  PROVE  PInv'
<1>1. /\ form /\ mayShare /\ at[n] = "none" /\ \A m \in 1..(n - 1) : at[m] # "none"
      /\ \A m \in Attempt : /\ at[m] \notin {"prompt", "offering", "answering", "flushing"}
                            /\ sock[m] # "closing"
      /\ mayShare' = FALSE /\ Moves(n, "prompt")
      /\ UNCHANGED <<form, captures, capture, stream, socket, callVars, sock>>
      /\ UNCHANGED <<caller, queue, arrived, added>>
  BY DEF StartSharing, Settled, Prompting, callVars
<1>2. at' \in [Attempt -> Stage] /\ at'[n] = "prompt" /\ \A m \in Attempt : m # n => at'[m] = at[m]
  BY <1>1, StageSet DEF PInv, Stage
<1>3. 0 \notin Attempt /\ \A m \in Attempt : m \in Nat /\ \A k \in 1..(m - 1) : k \in Attempt /\ k < m
  BY SomeAttempts DEF Attempt
<1>4. stream = 0 /\ socket = 0 /\ capture = 0
  <2>1. stream = 0
    BY <1>1 DEF PInv, ScreenMeans
  <2>2. socket = 0
    <3> SUFFICES ASSUME socket # 0 PROVE FALSE
      OBVIOUS
    <3>1. socket \in Attempt /\ sock[socket] = "open"
      BY <1>1 DEF PInv, PresenterTypeOK, ScreenMeans
    <3> QED BY <3>1, <2>1 DEF PInv, AttemptsMean, AttemptMeans
  <2>3. capture = 0
    <3> SUFFICES ASSUME capture # 0 PROVE FALSE
      OBVIOUS
    <3>1. capture \in Attempt /\ at[capture] = "preparing"
      BY <2>1 DEF PInv, PresenterTypeOK, ScreenMeans
    <3> QED BY <3>1, <1>1 DEF PInv, AttemptsMean, AttemptMeans
  <2> QED BY <2>1, <2>2, <2>3
<1>5. \A m \in Attempt : at[m] # "none" => Quiet(m)
  <2> SUFFICES ASSUME NEW m \in Attempt, at[m] # "none" PROVE Quiet(m)
    OBVIOUS
  <2>1. at[m] # "preparing" /\ sock[m] # "open"
    BY <1>1, <1>3, <1>4 DEF PInv, AttemptsMean, AttemptMeans
  <2>2. sock[m] \in {"none", "closed"}
    BY <1>1, <2>1 DEF PInv, PresenterTypeOK, Socket
  <2> QED BY <1>1, <2>1, <2>2 DEF Quiet
<1>6. PresenterTypeOK'
  <2>1. mayShare' \in BOOLEAN
    BY <1>1
  <2> QED BY <1>1, <1>2, <2>1 DEF PInv, PresenterTypeOK
<1>7. PastQuiet'
  <2> SUFFICES ASSUME NEW k \in Attempt, at'[k] # "none", NEW m \in 1..(k - 1) PROVE Quiet(m)'
    BY DEF PastQuiet
  <2>1. m \in Attempt /\ at[m] # "none" /\ m # n
    <3>1. CASE k = n
      BY <1>1, <1>3, <3>1
    <3>2. CASE k # n
      <4>1. Quiet(m)
        BY <1>2, <3>2 DEF PInv, PastQuiet
      <4> QED BY <1>1, <1>3, <4>1 DEF Quiet
    <3> QED BY <3>1, <3>2
  <2> QED BY <1>1, <1>2, <1>5, <2>1 DEF Quiet
<1>8. AttemptsMean'
  <2> SUFFICES ASSUME NEW m \in Attempt PROVE AttemptMeans(m)'
    BY DEF AttemptsMean
  <2>1. AttemptMeans(m)
    BY DEF PInv, AttemptsMean
  <2>2. CASE m = n
    BY <1>1, <1>2, <1>4, <2>1, <2>2 DEF AttemptMeans
  <2>3. CASE m # n
    <3>1. at[m] \notin {"prompt", "preparing"}
      BY <1>1, <2>1 DEF AttemptMeans
    <3>2. at[m] # "none" => Quiet(m)'
      BY <1>1, <1>2, <1>5, <2>3 DEF Quiet
    <3> QED BY <1>1, <1>2, <2>1, <2>3, <3>1, <3>2 DEF AttemptMeans
  <2> QED BY <2>2, <2>3
<1>9. ScreenMeans'
  BY <1>1, <1>2, <1>4 DEF PInv, ScreenMeans, MayTryAgain
<1>10. QueueMeans'
  BY <1>1, QueueKept
<1> QED BY <1>6, <1>7, <1>8, <1>9, <1>10 DEF PInv

\* The capture begins in state.captureStream, ...
LEMMA CapturedKept ==
  ASSUME PInv, NEW n \in Attempt, Captured(n)
  PROVE  PInv'
<1>1. /\ at[n] = "prompt" /\ captures' = captures \cup {n} /\ capture' = n /\ Moves(n, "preparing")
      /\ UNCHANGED <<form, mayShare, stream, socket, callVars, sock>>
      /\ UNCHANGED <<caller, queue, arrived, added>>
  BY DEF Captured, Captures, callVars
<1>2. at' \in [Attempt -> Stage] /\ at'[n] = "preparing" /\ \A m \in Attempt : m # n => at'[m] = at[m]
  BY <1>1, StageSet DEF PInv, Stage
<1>3. /\ captures = {} /\ stream = 0 /\ form /\ ~mayShare /\ sock[n] = "none" /\ 0 \notin Attempt
      /\ arrived[n] = {} /\ added[n] = {}
  BY <1>1 DEF PInv, PresenterTypeOK, AttemptsMean, AttemptMeans, ScreenMeans, Attempt
<1>4. PresenterTypeOK'
  BY <1>1, <1>2, <1>3 DEF PInv, PresenterTypeOK
<1>5. PastQuiet' /\ AttemptsMean'
  <2>1. AttemptMeans(n)'
    BY <1>1, <1>2, <1>3 DEF AttemptMeans
  <2> QED BY <1>1, <1>2, <2>1, AttemptKept DEF Quiet, Only
<1>6. ScreenMeans'
  BY <1>1, <1>2, <1>3 DEF PInv, ScreenMeans, MayTryAgain
<1>7. QueueMeans'
  BY <1>1, <1>2, QueueKept
<1> QED BY <1>4, <1>5, <1>6, <1>7 DEF PInv

\* ... and becomes the stream, shown together with a new socket.
LEMMA PreparedKept ==
  ASSUME PInv, NEW n \in Attempt, Prepared(n)
  PROVE  PInv'
<1>1. /\ at[n] = "preparing" /\ stream' = n /\ form' = FALSE /\ socket' = n
      /\ sock' = [sock EXCEPT ![n] = "open"] /\ Moves(n, "ready")
      /\ UNCHANGED <<mayShare, captures, capture, callVars>>
      /\ UNCHANGED <<caller, queue, arrived, added>>
  BY DEF Prepared, callVars
<1>2. at' \in [Attempt -> Stage] /\ at'[n] = "ready" /\ \A m \in Attempt : m # n => at'[m] = at[m]
  BY <1>1, StageSet DEF PInv, Stage
<1>3. /\ sock' \in [Attempt -> Socket] /\ sock'[n] = "open"
      /\ \A m \in Attempt : m # n => sock'[m] = sock[m]
  BY <1>1 DEF PInv, PresenterTypeOK, Socket
<1>4. /\ capture = n /\ 0 \notin Attempt /\ captures \subseteq {n}
      /\ arrived[n] = {} /\ added[n] = {}
  BY <1>1 DEF PInv, AttemptsMean, AttemptMeans, ScreenMeans, Attempt
<1>5. PresenterTypeOK'
  <2>1. form' \in BOOLEAN
    BY <1>1
  <2> QED BY <1>1, <1>2, <1>3, <1>4, <2>1 DEF PInv, PresenterTypeOK
<1>6. PastQuiet' /\ AttemptsMean'
  <2>1. AttemptMeans(n)'
    BY <1>1, <1>2, <1>3, <1>4 DEF AttemptMeans
  <2> QED BY <1>1, <1>2, <1>3, <2>1, AttemptKept DEF Quiet, Only
<1>7. ScreenMeans'
  <2>1. ~form' /\ stream' # 0
    BY <1>1, <1>4
  <2> QED BY <1>1, <1>3, <1>4, <2>1 DEF ScreenMeans, MayTryAgain
<1>8. QueueMeans'
  BY <1>1, <1>2, QueueKept
<1> QED BY <1>5, <1>6, <1>7, <1>8 DEF PInv

\* Asking, offering and getting the answer keep it, ...
LEMMA MovesKept ==
  ASSUME PInv, NEW n \in Attempt, Asks(n) \/ Offered(n) \/ GotAnswer(n)
  PROVE  PInv'
<1>1. /\ at[n] \in {"ready", "offering", "offered"} /\ UNCHANGED <<screenVars, socket, callVars, sock>>
      /\ UNCHANGED <<form, mayShare, capture, stream, caller, arrived, added>>
      /\ sock[n] = "open" \/ at[n] = "offering"
  BY DEF Asks, Offered, GotAnswer, screenVars, callVars
<1>2. PICK stage \in {"asked", "offered", "over", "answering"} :
        /\ Moves(n, stage)
        /\ stage = "asked" <=> at[n] = "ready"
  BY DEF Asks, Offered, GotAnswer
<1>3. at'[n] = stage /\ ~Quiet(n) /\ stage \in Stage \ {"none", "prompt", "preparing"}
  BY <1>1, <1>2, StageSet DEF PInv, Stage, Quiet
<1>4. AttemptMeans(n)'
  BY <1>1, <1>2, <1>3 DEF PInv, AttemptsMean, AttemptMeans
<1> QED BY <1>1, <1>2, <1>3, <1>4, MoveKept

\* ... and so does each failure that presenterFailure handles.
LEMMA FailsKept ==
  ASSUME PInv, NEW n \in Attempt, CaptureFails(n) \/ Refused(n)
  PROVE  PInv'
<1>1. /\ at[n] \in {"prompt", "preparing", "asked"} /\ PresenterFailure /\ Moves(n, "over")
      /\ UNCHANGED callVars /\ (at[n] = "asked" => sock[n] = "open")
  BY DEF CaptureFails, Refused
<1>2. ~Quiet(n) /\ sock[n] \in {"none", "open"}
  BY <1>1 DEF Quiet, PInv, AttemptsMean, AttemptMeans
<1> QED BY <1>1, <1>2, FailureKept

\* state.pc is the connection of the attempt that negotiates.
LEMMA CallerIs ==
  ASSUME PInv, NEW n \in Attempt, ~Quiet(n),
         at[n] \in {"offering", "offered", "answering", "flushing", "answered"}
  PROVE  caller = n /\ n # 0
BY DEF PInv, AttemptsMean, AttemptMeans, Attempt

\* presenterPeer keeps it: the queue is empty and the connection has nothing
\* yet.
LEMMA SessionKept ==
  ASSUME PInv, NEW n \in Attempt, SessionBegins(n)
  PROVE  PInv'
<1>1. /\ sock[n] = "open" /\ at[n] = "asked" /\ caller' = n
      /\ Moves(n, IF stream # 0 THEN "offering" ELSE "over")
      /\ UNCHANGED <<screenVars, socket, queue, arrived, added, sock>>
      /\ UNCHANGED <<form, mayShare, captures, capture, stream>>
  BY DEF SessionBegins, screenVars
<1>2. /\ stream = n /\ n # 0 /\ socket = n /\ arrived[n] = {} /\ added[n] = {} /\ ~Quiet(n)
  BY <1>1 DEF PInv, AttemptsMean, AttemptMeans, Attempt, Quiet
<1>3. at' \in [Attempt -> Stage] /\ at'[n] = "offering" /\ \A m \in Attempt : m # n => at'[m] = at[m]
  <2>1. Moves(n, "offering")
    BY <1>1, <1>2
  <2> QED BY <2>1, StageSet DEF PInv, Stage
<1>4. queue = <<>>
  <2> SUFFICES ASSUME queue # <<>> PROVE FALSE
    OBVIOUS
  <2>1. caller \in Attempt /\ at[caller] \in {"answering", "flushing"}
    BY DEF PInv, QueueMeans, PresenterTypeOK
  <2>2. caller # n
    BY <1>1, <2>1
  <2> QED BY <1>1, <1>2, <2>1, <2>2, Newest DEF Quiet
<1>5. PresenterTypeOK'
  BY <1>1, <1>3 DEF PInv, PresenterTypeOK
<1>6. PastQuiet' /\ AttemptsMean'
  <2>1. AttemptMeans(n)'
    BY <1>1, <1>2, <1>3 DEF AttemptMeans
  <2> QED BY <1>1, <1>2, <1>3, <2>1, AttemptKept DEF Only
<1>7. ScreenMeans'
  <2>1. \A m \in Attempt : at[m] \in {"prompt", "preparing"} <=> at'[m] \in {"prompt", "preparing"}
    BY <1>1, <1>3
  <2>2. \A m \in Attempt : at[m] = "preparing" => at'[m] = "preparing"
    BY <1>1, <1>3
  <2> QED BY <1>1, <2>1, <2>2, ScreenKept
<1>8. QueueMeans'
  BY <1>1, <1>2, <1>4, EmptyRange DEF QueueMeans
<1> QED BY <1>5, <1>6, <1>7, <1>8 DEF PInv

\* A connection that gets a candidate, the others not.
LEMMA PairAdded ==
  ASSUME PresenterTypeOK, NEW n \in Attempt, NEW item \in Attempt \X DisplayCandidate,
         added' = [added EXCEPT ![n] = @ \cup {item}]
  PROVE  /\ added' \in [Attempt -> SUBSET (Attempt \X DisplayCandidate)]
         /\ added'[n] = added[n] \cup {item}
         /\ \A m \in Attempt : m # n => added'[m] = added[m]
BY DEF PresenterTypeOK

\* addRemoteCandidate keeps it: the candidate is queued or added.
LEMMA ComesKept ==
  ASSUME PInv, NEW n \in Attempt, NEW c \in DisplayCandidate, CandidateComes(n, c)
  PROVE  PInv'
<1> DEFINE item == <<n, c>>
<1>1. /\ sock[n] = "open" /\ at[n] \in {"answering", "flushing", "answered"}
      /\ arrived' = [arrived EXCEPT ![n] = @ \cup {c}]
      /\ UNCHANGED <<screenVars, socket, caller, at, sock>>
      /\ UNCHANGED <<form, mayShare, captures, capture, stream>>
      /\ item \in Attempt \X DisplayCandidate
  BY DEF CandidateComes, screenVars
<1>2. ~Quiet(n) /\ caller = n /\ n # 0
  <2>1. ~Quiet(n)
    BY <1>1 DEF Quiet
  <2> QED BY <1>1, <2>1, CallerIs
<1>3. /\ arrived' \in [Attempt -> SUBSET DisplayCandidate] /\ arrived'[n] = arrived[n] \cup {c}
      /\ \A m \in Attempt : m # n => arrived'[m] = arrived[m]
  BY <1>1 DEF PInv, PresenterTypeOK
<1>4. /\ queue \in Seq(Attempt \X DisplayCandidate)
      /\ added \in [Attempt -> SUBSET (Attempt \X DisplayCandidate)]
      /\ added[n] \cup Range(queue) = {<<n, k>> : k \in arrived[n]}
      /\ queue # <<>> => at[n] \in {"answering", "flushing"}
  BY <1>2 DEF PInv, PresenterTypeOK, QueueMeans
<1>5. \/ added' = [added EXCEPT ![n] = @ \cup {item}] /\ queue' = queue
      \/ queue' = Append(queue, item) /\ added' = added /\ at[n] = "answering"
  BY <1>1, <1>2 DEF CandidateComes, AnswerIsSet
<1>e. {<<n, k>> : k \in arrived[n] \cup {c}} = {<<n, k>> : k \in arrived[n]} \cup {item}
  OBVIOUS
<1> HIDE DEF item
<1>6. /\ queue' \in Seq(Attempt \X DisplayCandidate)
      /\ added' \in [Attempt -> SUBSET (Attempt \X DisplayCandidate)]
      /\ \A m \in Attempt : m # n => added'[m] = added[m]
      /\ added'[n] \cup Range(queue') = (added[n] \cup Range(queue)) \cup {item}
      /\ queue' # <<>> => at[n] \in {"answering", "flushing"}
  <2>1. CASE added' = [added EXCEPT ![n] = @ \cup {item}] /\ queue' = queue
    <3>1. /\ added' \in [Attempt -> SUBSET (Attempt \X DisplayCandidate)]
          /\ added'[n] = added[n] \cup {item}
          /\ \A m \in Attempt : m # n => added'[m] = added[m]
      BY <1>1, <2>1, PairAdded DEF PInv
    <3> QED BY <1>4, <2>1, <3>1
  <2>2. CASE queue' = Append(queue, item) /\ added' = added /\ at[n] = "answering"
    <3>1. Range(queue') = Range(queue) \cup {item} /\ queue' \in Seq(Attempt \X DisplayCandidate)
      BY <1>1, <1>4, <2>2, AppendedRange
    <3> QED BY <1>4, <2>2, <3>1
  <2> QED BY <1>5, <2>1, <2>2
<1>7. PresenterTypeOK'
  BY <1>1, <1>3, <1>6 DEF PInv, PresenterTypeOK
<1>8. PastQuiet' /\ AttemptsMean'
  <2>1. AttemptMeans(n)'
    BY <1>1, <1>2 DEF PInv, AttemptsMean, AttemptMeans
  <2> QED BY <1>1, <1>2, <1>3, <1>6, <2>1, AttemptKept DEF Only
<1>9. ScreenMeans'
  BY <1>1, ScreenKept
<1>10. QueueMeans'
  BY <1>1, <1>2, <1>3, <1>4, <1>6, <1>e DEF QueueMeans
<1> QED BY <1>7, <1>8, <1>9, <1>10 DEF PInv

\* flushRemoteCandidates keeps it.
LEMMA FlushKept ==
  ASSUME PInv, NEW n \in Attempt, FlushQueue(n)
  PROVE  PInv'
<1>1. /\ at[n] \in {"answering", "flushing"} /\ ~Quiet(n)
      /\ UNCHANGED <<screenVars, socket, caller, arrived, sock>>
      /\ UNCHANGED <<form, mayShare, captures, capture, stream>>
  BY DEF FlushQueue, screenVars, Quiet
<1>2. caller = n /\ n # 0
  BY <1>1, CallerIs
<1>4. /\ queue \in Seq(Attempt \X DisplayCandidate)
      /\ added \in [Attempt -> SUBSET (Attempt \X DisplayCandidate)]
      /\ added[n] \cup Range(queue) = {<<n, k>> : k \in arrived[n]}
  BY <1>2 DEF PInv, PresenterTypeOK, QueueMeans
<1>5. PICK stage \in {"flushing", "answered"} :
        /\ Moves(n, stage)
        /\ stage = "answered" => queue = <<>> /\ queue' = queue /\ added' = added
        /\ stage = "flushing" => /\ queue # <<>> /\ queue' = Tail(queue)
                                 /\ added' = [added EXCEPT ![n] = @ \cup {Head(queue)}]
  BY <1>2 DEF FlushQueue, MoreQueued
<1>6. at' \in [Attempt -> Stage] /\ at'[n] = stage /\ \A m \in Attempt : m # n => at'[m] = at[m]
  <2>1. stage \in Stage
    BY DEF Stage
  <2> QED BY <1>5, <2>1, StageSet DEF PInv
<1>7. /\ queue' \in Seq(Attempt \X DisplayCandidate)
      /\ added' \in [Attempt -> SUBSET (Attempt \X DisplayCandidate)]
      /\ \A m \in Attempt : m # n => added'[m] = added[m]
      /\ added'[n] \cup Range(queue') = added[n] \cup Range(queue)
      /\ queue' # <<>> => stage = "flushing"
  <2>1. CASE stage = "answered"
    BY <1>4, <1>5, <2>1
  <2>2. CASE stage = "flushing"
    <3>1. /\ Range(queue) = {Head(queue)} \cup Range(Tail(queue))
          /\ Head(queue) \in Attempt \X DisplayCandidate
          /\ Tail(queue) \in Seq(Attempt \X DisplayCandidate)
      BY <1>4, <1>5, <2>2, HeadAndTail
    <3>2. /\ added' \in [Attempt -> SUBSET (Attempt \X DisplayCandidate)]
          /\ added'[n] = added[n] \cup {Head(queue)}
          /\ \A m \in Attempt : m # n => added'[m] = added[m]
      BY <1>5, <2>2, <3>1, PairAdded DEF PInv
    <3> QED BY <1>5, <2>2, <3>1, <3>2
  <2> QED BY <2>1, <2>2
<1>8. PresenterTypeOK'
  BY <1>1, <1>6, <1>7 DEF PInv, PresenterTypeOK
<1>9. PastQuiet' /\ AttemptsMean'
  <2>1. AttemptMeans(n)'
    BY <1>1, <1>2, <1>6 DEF PInv, AttemptsMean, AttemptMeans
  <2> QED BY <1>1, <1>6, <1>7, <2>1, AttemptKept DEF Only
<1>10. ScreenMeans'
  <2>1. \A m \in Attempt : at[m] \in {"prompt", "preparing"} <=> at'[m] \in {"prompt", "preparing"}
    BY <1>1, <1>6
  <2>2. \A m \in Attempt : at[m] = "preparing" => at'[m] = "preparing"
    BY <1>1, <1>6
  <2> QED BY <1>1, <2>1, <2>2, ScreenKept
<1>11. QueueMeans'
  BY <1>1, <1>2, <1>4, <1>6, <1>7 DEF QueueMeans
<1> QED BY <1>8, <1>9, <1>10, <1>11 DEF PInv

\* A change of one socket.
LEMMA SockSet ==
  ASSUME PresenterTypeOK, NEW n \in Attempt, NEW state \in Socket, sock' = [sock EXCEPT ![n] = state]
  PROVE  /\ sock' \in [Attempt -> Socket] /\ sock'[n] = state
         /\ \A m \in Attempt : m # n => sock'[m] = sock[m]
BY DEF PresenterTypeOK

\* A socket of the attempt that shares may go at any time, ...
LEMMA DropKept ==
  ASSUME PInv, NEW n \in Attempt, Drop(n)
  PROVE  PInv'
<1>1. /\ sock[n] = "open" /\ sock' = [sock EXCEPT ![n] = "closing"]
      /\ UNCHANGED <<form, mayShare, captures, capture, stream, socket, caller, queue, arrived,
                    added, at>>
      /\ UNCHANGED callVars
  BY DEF Drop, screenVars, callVars
<1>2. /\ sock' \in [Attempt -> Socket] /\ sock'[n] = "closing"
      /\ \A m \in Attempt : m # n => sock'[m] = sock[m]
  BY <1>1, SockSet DEF PInv, Socket
<1>3. /\ ~Quiet(n) /\ at[n] \notin {"none", "prompt", "preparing"} /\ socket = n /\ stream = n
      /\ AttemptMeans(n)
  BY <1>1 DEF Quiet, PInv, AttemptsMean, AttemptMeans
<1>4. PresenterTypeOK'
  BY <1>1, <1>2 DEF PInv, PresenterTypeOK
<1>5. PastQuiet' /\ AttemptsMean'
  <2>1. AttemptMeans(n)'
    BY <1>1, <1>2, <1>3 DEF AttemptMeans, Quiet
  <2> QED BY <1>1, <1>2, <1>3, <2>1, AttemptKept DEF Only
<1>6. ScreenMeans'
  <2>1. MayTryAgain'
    BY <1>1 DEF PInv, ScreenMeans, MayTryAgain
  <2> QED BY <1>1, <1>2, <1>3, <2>1 DEF PInv, ScreenMeans
<1>7. QueueMeans'
  BY <1>1, QueueKept
<1> QED BY <1>4, <1>5, <1>6, <1>7 DEF PInv

\* ... and its close event stops the capture, for the attempt is still the
\* newest.
LEMMA ClosedKept ==
  ASSUME PInv, NEW n \in Attempt, SocketClosed(n)
  PROVE  PInv'
<1>1. /\ sock[n] = "closing" /\ socket' = 0 /\ mayShare' = TRUE
      /\ sock' = [sock EXCEPT ![n] = "closed"]
      /\ UNCHANGED <<caller, queue, arrived, added, at>> /\ UNCHANGED callVars
      /\ stream # 0 => /\ captures' = captures \ {stream, capture} /\ stream' = 0
                       /\ capture' = 0 /\ form' = TRUE
      /\ stream = 0 => UNCHANGED <<captures, stream, capture, form>>
  BY DEF SocketClosed, callVars, Stopped
<1>2. /\ sock' \in [Attempt -> Socket] /\ sock'[n] = "closed"
      /\ \A m \in Attempt : m # n => sock'[m] = sock[m]
  BY <1>1, SockSet DEF PInv, Socket
<1>3. /\ ~Quiet(n) /\ at[n] \notin {"none", "prompt", "preparing"} /\ AttemptMeans(n)
  BY <1>1 DEF Quiet, PInv, AttemptsMean, AttemptMeans
<1>t. /\ captures \in SUBSET Attempt /\ captures \subseteq {capture} /\ 0 \notin Attempt
      /\ stream = 0 <=> form
      /\ capture # 0 /\ stream = 0 => at[capture] = "preparing" /\ capture \in Attempt
  BY DEF PInv, PresenterTypeOK, ScreenMeans, Attempt
<1>4. captures' = {} /\ stream' = 0 /\ capture' = 0 /\ form'
  <2>1. CASE stream # 0
    BY <1>1, <1>t, <2>1
  <2>2. CASE stream = 0
    <3>1. capture = 0
      <4> SUFFICES ASSUME capture # 0 PROVE FALSE
        OBVIOUS
      <4>1. capture \in Attempt /\ at[capture] = "preparing" /\ capture # n
        BY <1>3, <1>t, <2>2
      <4> QED BY <1>3, <4>1, Newest DEF Quiet
    <3> QED BY <1>1, <1>t, <2>2, <3>1
  <2> QED BY <2>1, <2>2
<1>5. PresenterTypeOK'
  <2>1. (form \in BOOLEAN)' /\ (mayShare \in BOOLEAN)' /\ (captures \in SUBSET Attempt)'
    <3>1. CASE stream # 0
      BY <1>1, <1>4, <3>1
    <3>2. CASE stream = 0
      BY <1>1, <1>4, <3>2 DEF PInv, PresenterTypeOK
    <3> QED BY <3>1, <3>2
  <2> QED BY <1>1, <1>2, <1>4, <2>1 DEF PInv, PresenterTypeOK
<1>6. PastQuiet' /\ AttemptsMean'
  <2>1. AttemptMeans(n)'
    BY <1>1, <1>2, <1>3 DEF AttemptMeans, Quiet
  <2> QED BY <1>1, <1>2, <1>3, <2>1, AttemptKept DEF Only
<1>7. ScreenMeans'
  BY <1>1, <1>4 DEF ScreenMeans, MayTryAgain
<1>8. QueueMeans'
  BY <1>1, QueueKept
<1> QED BY <1>5, <1>6, <1>7, <1>8 DEF PInv

\* So every step of the page keeps its invariant.
LEMMA PresenterStep ==
  ASSUME PInv, Patient, [PresenterNext]_presenterVars
  PROVE  PInv'
<1>1. CASE \E n \in Attempt : Attempts(n)
  BY <1>1, StartsKept, CapturedKept, PreparedKept, FailsKept, MovesKept, SessionKept, ComesKept,
     FlushKept, DropKept, ClosedKept DEF Attempts
<1>2. CASE AllOver \/ UNCHANGED presenterVars
  <2>1. \E n \in Attempt : TRUE
    BY SomeAttempts DEF Attempt
  <2>2. UNCHANGED presenterVars
    BY <1>2, <2>1 DEF AllOver
  <2>3. UNCHANGED <<form, mayShare, captures, capture, stream, socket, caller, queue, arrived,
                    added, at, sock>>
    BY <2>2 DEF presenterVars, screenVars, callVars
  <2>4. PresenterTypeOK' /\ PastQuiet' /\ AttemptsMean'
    BY <2>3 DEF PInv, PresenterTypeOK, PastQuiet, AttemptsMean, AttemptMeans, Quiet
  <2> QED BY <2>3, <2>4 DEF PInv, ScreenMeans, MayTryAgain, QueueMeans
<1> QED BY <1>1, <1>2 DEF PresenterNext

\* What the invariant says of attempts and of candidates.
LEMMA AttemptsTidy ==
  ASSUME PInv
  PROVE  AttemptsCleanUp /\ CandidatesApplied
<1>1. NothingCapturedBehindForm /\ NoSocketForgotten /\ SharingHasSocket /\ MayTryAgain
  BY DEF PInv, PresenterTypeOK, ScreenMeans, AttemptsMean, AttemptMeans, Attempt,
         NothingCapturedBehindForm, NoSocketForgotten, SharingHasSocket
<1>2. CandidatesApplied
  <2> SUFFICES ASSUME NEW n \in Attempt, at[n] = "answered", caller = n
               PROVE  added[n] = {<<n, c>> : c \in arrived[n]}
    BY DEF CandidatesApplied
  <2>1. n # 0
    BY DEF Attempt
  <2>2. queue = <<>> /\ added[n] \cup Range(queue) = {<<n, c>> : c \in arrived[n]}
    BY <2>1 DEF PInv, QueueMeans
  <2> QED BY <2>2, EmptyRange
<1> QED BY <1>1, <1>2 DEF AttemptsCleanUp

-----------------------------------------------------------------------------
(* Both pages                                                              *)

\* Both pages keep their invariants: a step is of one of them.
LEMMA PagesHold ==
  ASSUME Patient
  PROVE  PagesSpec => [](DInv /\ PInv)
<1>1. PagesInit => DInv /\ PInv
  BY DisplayStarts, PresenterStarts DEF PagesInit
<1>2. DInv /\ PInv /\ [PagesNext]_<<kind, displayVars, videoVars, presenterVars>> => (DInv /\ PInv)'
  <2> SUFFICES ASSUME DInv, PInv, [PagesNext]_<<kind, displayVars, videoVars, presenterVars>>
               PROVE  (DInv /\ PInv)'
    OBVIOUS
  <2>1. [VideoNext]_<<displayVars, videoVars>> /\ [PresenterNext]_presenterVars
    BY DEF PagesNext, DisplayMoves, PresenterMoves
  <2> QED BY <2>1, DisplayStep, PresenterStep
<1> QED BY <1>1, <1>2, PTL DEF PagesSpec

\* Both pages have only the values their variables are for; and on the display's
\* page no peer connection but state.pc is open, so none is left running by
\* clearPeer.
THEOREM PagesTypeCorrect == Patient /\ PagesSpec => []PagesTypeOK
<1> SUFFICES ASSUME Patient PROVE PagesSpec => []PagesTypeOK
  OBVIOUS
<1>1. PagesSpec => [](DInv /\ PInv)
  BY PagesHold
<1>2. DInv /\ PInv => PagesTypeOK
  BY DEF DInv, PageInv, PInv, PagesTypeOK
<1> QED BY <1>1, <1>2, PTL

\* answerOffer, addRemoteCandidate, flushRemoteCandidates, clearPeer and
\* ontrack: for any number of sessions an answer is sent for a session by the
\* connection that has its offer, that connection has all candidates of the
\* session and none of another's, and no play() of an earlier session mutes it;
\* and so for the presenter's attempts.
THEOREM SessionsStayApart == Patient /\ PagesSpec => []SessionsKeptApart
<1> SUFFICES ASSUME Patient PROVE PagesSpec => []SessionsKeptApart
  OBVIOUS
<1>1. PagesSpec => [](DInv /\ PInv)
  BY PagesHold
<1>2. DInv /\ PInv => SessionsKeptApart
  BY SessionComplete, AttemptsTidy DEF DInv, PageInv, SessionsKeptApart
<1> QED BY <1>1, <1>2, PTL

\* What of this is the display's page's holds whatever the presenter's user
\* does.
THEOREM DisplayKeepsSessionsApart ==
  PagesSpec => [](AnswersMatch /\ CandidatesComplete /\ SoundOnWhenAllowed)
<1>1. PagesInit => DInv
  BY DisplayStarts DEF PagesInit
<1>2. DInv /\ [PagesNext]_<<kind, displayVars, videoVars, presenterVars>> => DInv'
  <2> SUFFICES ASSUME DInv, [PagesNext]_<<kind, displayVars, videoVars, presenterVars>>
               PROVE  DInv'
    OBVIOUS
  <2>1. [VideoNext]_<<displayVars, videoVars>>
    BY DEF PagesNext, DisplayMoves, PresenterMoves
  <2> QED BY <2>1, DisplayStep
<1>3. DInv => AnswersMatch /\ CandidatesComplete /\ SoundOnWhenAllowed
  BY SessionComplete DEF DInv, PageInv
<1> QED BY <1>1, <1>2, <1>3, PTL DEF PagesSpec

\* startSharing, prepareOutgoingStream, presenterFailure, stopMedia and the
\* close handler: for any number of attempts, the page captures nothing behind
\* its form, has forgotten no open socket, does not show a screen as shared
\* without one, and lets the user try again, when the user waits for what is due
\* of earlier attempts.
THEOREM FailedAttemptsCleanUp == Patient /\ PagesSpec => []AttemptsCleanUp
<1> SUFFICES ASSUME Patient PROVE PagesSpec => []AttemptsCleanUp
  OBVIOUS
<1>1. PagesSpec => [](DInv /\ PInv)
  BY PagesHold
<1>2. PInv => AttemptsCleanUp
  BY AttemptsTidy
<1> QED BY <1>1, <1>2, PTL
=============================================================================
