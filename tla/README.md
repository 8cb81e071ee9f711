# BrowserStream in TLA+

BrowserStream is a Go server that lets people share their screen on the display
of a meeting room. A display page (the kiosk in the room) and presenter pages
(the users' browsers) each hold a websocket to the server; the server checks who
they are and relays the WebRTC negotiation between them, and the picture then
flows from browser to browser. This directory models the server's state and
handlers and its pages, checks them with TLC and proves every safety property with TLAPS.

## 1. The system

| component | code | state | operations |
|---|---|---|---|
| room store | `core/room.go` | `RoomStore.rooms`; per Room: display, presenter, code, generation, sessions | `Get`, `SetDisplay`, `RemoveDisplay`, `AuthorizePresenter`, `StartSession`, `ReleasePresenter`, `Session`, getters |
| signaling server | `core/signal.go` | one goroutine per connection, its locals; `App.preAuth` | `handleDisplay`, `handlePresenter`, `initialAuth`, `read`, `write`, `closeWS` |
| failed-code throttle | `core/signal.go:270-302` | `App.auth`, `lastAuthCleanup` | `locked`, `authFailed`, `authSucceeded` |
| write locks | `core/signal.go:53-63` | `wsWriteLocks` | `write`, `closeWS` |
| heartbeat, deadlines | `core/signal.go:137-163` | read deadline of a connection | `read`, pong handler, ping goroutine |
| client address | `core/signal.go:240-270` | none (trusted proxies) | `clientHost`, `authKey` |
| configuration rules | `core/config.go`, `core/turn.go` | none | `LoadConfig`, `Validate`, `Room`, `OriginAllowed`, ICE configurations, TURN credentials |
| HTTP front end | `core/signal.go:41-121`, `main.go` | the loaded configuration | start, routes, headers, upgrade |
| browser pages | `files/static/main.js`, `files/main.html` | `state` (socket, pc, stream, captureStream, pendingCandidates), the video element, what is on the screen | message, close, track and button handlers, `startSharing` |
| configuration file | `scripts/configure.py`, `install.sh` | `config.json`, backups, `turnserver.conf` | `configure`, `add_rooms`, `write_atomic`, `replace_with_backup` |
| LAN address, kiosk URL | `scripts/detect_lan_ip.py`, `scripts/kiosk_url.py` | none | selection functions |

How they interact. `GET /ws_display` runs `handleDisplay`: it takes a preAuth
slot, reads the enrollment token, calls `SetDisplay` (which puts the connection
in the Room, draws a code and returns the display and presenters to close),
closes those, writes `iceConfig` and `displayReady` with the code, and then
relays the page's answers and candidates to the caller of their session until
the read fails; `RemoveDisplay` and `closeWS` are deferred. `GET /ws_present`
runs `handlePresenter`: throttle, preAuth slot, the code, `Get`,
`AuthorizePresenter`; then `refreshCode` to the display, `authAccepted`, the
page's `startSession`, `StartSession`, `newSession` to both, and the relay of
offers to the display; `ReleasePresenter` and a `presenterClosed` with the
current code to the display are deferred. All Room state is under mutexes, but
nothing is written to a websocket under them: every message tells of a state
that may have passed, and messages of different goroutines to one display may
arrive in another order than the changes they report.

What is hard, and what makes each part correct:

* **Room store.** Rooms are reused when a display is replaced and dropped when it
  leaves, and handlers keep pointers to both. Correct: presenter, display and
  session of a Room always belong together; a dropped Room lets nobody in; a
  code is good once; the whole is the simple machine of `MeetingRoom`.
* **Signaling.** Two displays of one room, presenters that are evicted while in
  the middle of anything, connections that break between any two steps, errors
  of any write. Correct: whoever a Room holds has a handler that will release
  it; evicted presenters are closed and do not disturb their successors;
  sessions stay with their display; the code on the screen is the one that
  works; every lost connection's handler ends.
* **Throttle.** Check and charge are separate steps of concurrent attempts; a
  cleanup runs inside. Correct: a lock comes at the limit and stands until its
  time; the overshoot and the table are bounded.
* **Write locks, heartbeat.** gorilla/websocket allows one writer, and the lock
  that sees to it is dropped before the connection is closed. Correct: exclusion
  holds until the close and no writer waits for ever. A live page must not be
  timed out, though its handler may be too busy to read its pongs; a dead one must.
* **Client address.** Part of `X-Forwarded-For` is the client's own. Correct: a
  client is charged under its own address, spelt in one way.
* **Configuration rules, front end.** What `Validate` accepts must be servable:
  no page is dropped, no setting ignored, tokens open their own rooms, who needs a
  relay has one. What the installer writes should be accepted.
* **Pages.** Handlers are async and share one `state`; events and settled
  promises of an earlier session or attempt meet a later one. Correct: answers,
  candidates, captures, sockets, sound and button belong to the session at hand.
* **Address detection.** Several routes and devices; correct: the address taken
  is in the network of the best usable gateway.
* **Configuration file.** Calls that fail, kills and power losses between its
  steps, runs that overlap. Correct: the file is absent or complete at any time;
  the installer never overwrites it; what was announced stays; failed runs leave
  nothing behind, successful ones a way back.

## 2. Modules

| module | models | composed of |
|---|---|---|
| `MeetingRoom` | the abstract promise of a room: Attach, Detach, Admit, Stream, Leave | |
| `RoomStore` | `core/room.go` | refines `MeetingRoom` (`ImplementsMeetingRoom`) |
| `Signaling` | `core/signal.go` handlers, the display page's screen | EXTENDS `RoomStore`, calls its actions |
| `AuthThrottle` | the failed-code limit and its use in `handlePresenter` | |
| `SocketWrites` | `write` and `closeWS` of one connection | |
| `Heartbeat` | `read` and `startHeartbeat` of one connection, in discrete time | |
| `ClientAddress` | `clientHost` for a request that comes through proxies | |
| `Configuration` | the rules of `config.go` and `turn.go`, and `configure.py`'s output, as operators | |
| `Server` | `main` and the way of a request into a handler | EXTENDS `Configuration` |
| `DisplayPage` | the display page's peer connections, candidates, answers | |
| `DisplayVideo` | the whole display page: with the video element and its `play()` promises | EXTENDS `DisplayPage`, joins its actions with theirs |
| `PresenterPage` | the presenter page over several attempts to share | |
| `LanAddress` | `detect_lan_ip.py` | |
| `ConfigFile` | `config.json` under `install.sh` and `scripts/configure.py` | |
| `MCServerParts` | the parts of the server and its installer that share no state | EXTENDS `SocketWrites`, `Heartbeat`, `ClientAddress`, `MCServer`, `MCLanAddress` |
| `MCPages` | a page of either kind | EXTENDS `DisplayVideo`, `PresenterPage` |
| other `MC*` | bounds, symmetry sets | EXTEND the module they bound |
| `RoomStoreProofs`, `AuthThrottleProofs`, `ConfigFileProofs` | theorems | EXTEND the module they are about |
| `SignalingProofs`, `AdmissionProofs`, `SingleDisplayProofs` | theorems about `Signaling` | the first EXTENDS `RoomStoreProofs`, each next one the one before |
| `ServerPartsProofs`, `PagesProofs` | theorems about the components | EXTEND `MCServerParts`, `MCPages` |

**RoomStore.** `rooms` is the heap of Room objects ever allocated (an index is a
pointer), `store` the map from room id to pointer. `RemoveDisplay` removes the
pointer and leaves the object, as Go does for whoever still holds it. Each
exported method is one action because it runs under `Room.mu` (and, for
`SetDisplay` and `RemoveDisplay`, `RoomStore.mu`) from its first read to its last
write. Random codes and session ids are numbered by the draw (`drawn`): two
draws are taken to differ. `Next` lets any connection call any method on any
object at any time, which is more than the handlers do.

**Signaling.** `pc` is where a handler is, `my` its local variables, `link` the
connection (open; broken: the network is gone and nobody has noticed; closed:
`closeWS`). A step is one access to shared state: one store call, one write to a
websocket, one `closeWS`. Reads of a message are part of the store call or jump
that follows them. A write to an open connection succeeds and the page acts on
it at once; to a broken one it is lost, with or without an error; to a closed
one it fails. `screen` is what the display page shows (`showDisplayCode`,
`showDisplayConnecting`), `seen` the codes any page has shown, which is what
users can type; `told` the session ids a display page knows and can answer for.
The two writes `iceConfig`/`authAccepted` to the presenter are one step, as are
`iceConfig` to the display and the read of `room.Code()` after it: between them
the handler touches nothing that others see. Messages that change nothing (the
`invalidSession` and `unsupportedMessage` replies, a successful relay of an
offer) are left out. Each connection authenticates at most once, as in the code.

A refused presenter goes through the stage "judge", where the handler looks at
the room again: `Charged` says what it finds. The throttle itself is `AuthThrottle`,
which takes any verdict. `RightCodeExcused` compares with the code the Room has at the
second look, and is about a display that stays. Two charges for a right code are
outside it, and the code does make them: the display leaves between the looks before
and after `AuthorizePresenter` (`core/signal.go:325` and `332`); or the code on the
screen, typed by two, admits the other one, who leaves again before the second look,
so that nobody is there and the code has changed.

**SocketWrites.** `holder` are the mutexes ever made for the connection, `entry` the
one `wsWriteLocks` has now, `mine` the one a goroutine took from it. `LoadOrStore`,
`Lock`, `Unlock`, `Delete`, `Close` are the calls of `write` and `closeWS`, with
anything in between; the write itself is the time from `Lock` to `Unlock`.

**Heartbeat.** Timers count down: `deadline` is the read deadline, `ticker` the ping
goroutine's, `ping` and `pong` the longest a ping waits for the write in progress
and its pong takes. `Pass` lets a unit of time go by unless one of them has run
out. `Timely` (`Stall + Delay < Half`) is what `LivePageKept` needs of the limits;
`Validate` does not compare them, and accepts an idle timeout of 5 s with any write
timeout (the example's 90 s and 10 s satisfy it).

**ClientAddress.** A text is an address in one of its spellings, or no address.
`Forward` is a proxy of the README's nginx kind, which appends the address it was
called from; the entries before are the client's. One header line and bare
addresses (no ports) are assumed, as nginx writes them.

**Configuration, Server.** A configuration is a record of the parts the rules look
at; texts are reduced to what the rules tell apart (the host of a URL, whether Go can
parse it, whether it is written as browsers write origins). An "odd" host is one that
Python's `urlsplit` takes and Go's `url.Parse` does not: a blank, a bare percent sign.
`Answers` lets it through, in the public URL and in the TURN URL, as `public_url` and
`turn_url` do; `SiteValid` and `TurnValid` refuse it, as `Validate` does. Rules are
operators with the source's conditions; `Server` is the process: file, `LoadConfig`,
`-validate-config`, listening, and each kind of request with its answer. A display
token with blanks around it is accepted by `Validate`, but `initialAuth` trims what
the display sends, so its room cannot be enrolled; `TokensOpenTheirRooms` leaves
such tokens out. A public URL typed with capitals or a default port is another
matter that is left out: `configure.py` writes it as typed into `allowed_origins`,
origins are compared as texts (`config.go:225`), and browsers send them with a
lower-case host and without a default port, so such an installation refuses the
websockets of its own pages.

How old TURN credentials are when a session starts is not modelled, because nothing
in the code bounds it. They are made once, when a page is let in. A display's next
session may start days later; and a presenter that has been let in may wait with
`startSession` as long as it likes, since the heartbeat is running by then and each
pong extends the deadline of the read (`core/signal.go:144`, `347`, `358`). It is
only the page that sends it at once (`main.js:87`).

**DisplayPage.** A run of `answerOffer` is in `task`, at the await it is at and with
the connection that awaits it; when it goes on it reads `state.pc` anew, as the code
does. Operations of a closed connection never complete (WebRTC). The order of
sessions is what `GoodbyeBeforeNext` shows of the server.

Nothing is claimed of a display page whose socket is lost: it has no handler for
that, and shows its void code until it is reloaded.

**DisplayVideo.** `plays` and `due` are the promises of `play()` by the line that
called it: not settled yet, or to be resolved by a queued task. Each message that
concerns the video is the action of `DisplayPage` joined with what it does to the
element (`StartVideo`, `StopVideo`, `GotTracks`), the others leave it alone
(`Negotiate`). A handler and what its settled promises bring about is one step,
since no other handler runs between them; setting `srcObject` settles both kinds as
HTML's load algorithm does. Two effects of that follow from the model without being
a property of it: a session that ends before its media flow leaves the picture muted
and the button shown on a display that blocks nothing, until the next session; and a
`play()` about to be resolved when the presenter leaves brings the class `playing`
back, which hides the code.

**PresenterPage.** `at` is how far the handlers of each attempt are, `sock` its
socket, the rest are the page's variables, which all attempts share. `Patient`
says that the user tries again only after the failed attempt's close event and
awaits are through. The run needs it: the close event of an earlier attempt's socket
acts on whichever attempt is current (`main.js:96`), ends it, and leaves its socket
open and the room busy, when the user is faster than the close handshake. `Captured` and `Prepared` are separate steps because of
the audio context's `resume`; without sound they follow each other at once.

**LanAddress.** The loop over the sorted routes, one route a step.

**MCServerParts, MCPages.** Components that share no state are put side by side and
checked by one run: a variable that never changes, `part` (of the server) or `kind` (of page, as `route`
in `main.js` chooses it), says which of them moves in a behaviour, and the others stay
at a start of theirs. The reachable states are the sum of the components', and every
property of a component holds in all of them if it holds of the component.

**AuthThrottle.** One unit of time is one second of `lockout_seconds`; `Arrive`
is the call of `locked`, `AuthFailed`/`AuthSucceeded`/`Uncharged` the verdict
after the code was read, with any interleaving of other attempts in between. An
absent map entry is the zero `authState`, as a Go lookup gives it.

**ConfigFile.** `files` are the inodes, `dir` the names in the directory of
`config.json` (a backup is a hard link), `mayBe` the directories the disk may show
after a power loss: all since the last fsync of the directory. A step is one
system call; it may fail (`CallFails`), the run may be interrupted (`Interrupt`:
`finally` runs, `except Exception` does not) or killed (`Kill`), and `PowerLoss` ends
all runs and empties every file that was not fsynced. A configuration is its set
of rooms, a room its id and the run that made it, which stands for its token. The
questions are one step per room, with any answer the validators let through. The
backup's name is any name that is free, since the second of the clock may be any.

Definitions whose name has a suffix after an underscore (`Vacated_KeepsSessions`)
are mutated forms of the definition they precede. They are used by no
specification; each is a slip that breaks one of the properties, and records
that the property would notice it.

## 3. Runs

| run | cfg | shows |
|---|---|---|
| `room_store` | `MCRoomStore.cfg` | 2 rooms, 3 connections, 4 objects, 6 draws: `TypeOK`, `RoomConsistent`, `DeletedRoomsInert`, and that the store implements `MeetingRoom` |
| `display_replaced` | `SignalingReplace.cfg` | 2 displays, 2 presenters, 1 room, 2 slots (1.4 million states): `NoOrphans`, `CodesUsedOnce`, `OneSenderPerDisplay`, `SessionsBound`, `GoodbyeToOwnDisplay`, `EvictedAreClosed`, `SlotsAccounted`, types |
| `codes_one_display` | `SignalingCodes.cfg` | 1 display, 3 presenters: `ShownCodeWorks`, `GoodbyeBeforeNext`, `RightCodeExcused` |
| `stale_code_two_displays` | `SignalingStaleCode.cfg` | the same question with 2 displays: violated, see below |
| `connections_lost` | `SignalingLive.cfg` | 2 displays, 1 presenter, fair: `HandlersEnd` (`BrokenHandlersEnd` and `EvictedPresentersEnd`), `CodeComesBack` |
| `auth_throttle` | `AuthThrottle.cfg` | 2 keys, 3 attempts in flight, limit 2, lockout 2, time to 9: `LockedByFailures` (what a lock is, and that each begins with exactly the limit of failures counted since the last), `OvershootBounded`, `LocksStand`, `TableStaysFresh`, types |
| `server_parts` | `ServerParts.cfg` | `WritersKeptApart` (`OneWriterUntilClosing`, `WritersBounded`) and, fair, `WritesEnd`: 4 writers, 2 of them closers; `DeadlineTells` (`LivePageKept`, `DeadPageDropped`): idle time 8, writes of up to 6; `TrueClientCharged`: 2 clients, 2 proxies, 2 sent entries, 2 hops; `ConfigurationServed` (`PagesServed`, `RelaysUsable`, `TokensOpenTheirRooms`, `NoSettingIgnored`): more than a thousand configurations, one part varied at a time; `LeastMetricGateway`: 2 routes, 2 devices, 3 overlapping networks; types |
| `config_generated` | `ConfigGenerated.cfg` | the server on all that `configure.py` may write: `GeneratedAccepted` violated, see below |
| `browser_pages` | `Pages.cfg` | `SessionsKeptApart` (`AnswersMatch`, `CandidatesComplete`, `SoundOnWhenAllowed`, `CandidatesApplied`), `AttemptsCleanUp` (`NothingCapturedBehindForm`, `NoSocketForgotten`, `SharingHasSocket`, `MayTryAgain`) and, fair, `DisplayShows` (`OfferAnswered`, `PictureShown`, `EnableAudioWorks`): 2 sessions on the display, 1 or 2 tracks, both autoplay policies, 3 attempts on the presenter page, 2 candidates each; types |
| `audio_button` | `PagesAudio.cfg` | 1 session: `BlockedAudioHasButton` violated, see below |
| `config_runs` | `ConfigRuns.cfg` | any 3 of 2 installers and 2 `--add-room` at once: `ConfigUsable` (`ConfigWhole`, `ConfigAcceptable`), `FailureLeavesNothing`, `InstallNeverOverwrites`; for an adder beside which no other starts (`AddsAlone`), `AnnouncedRoomsStay`, `BackupHasTheOld`; types |
| `config_two_adders` | `ConfigTwoAdders.cfg` | two `--add-room` that overlap: `RoomsPreserved` violated, see below |

**Bounds.** A replaced display, an evicted presenter and its successor need two
displays and two presenters; a third presenter is needed for two late goodbyes
to cross (`codes_one_display`). Two slots for four connections make `serverBusy`
happen. In the store run four objects allow a room to be dropped and reused
while the other is in use. In the throttle run, time 9 spans two lockouts, their
ends and a cleanup of what they left (a cleanup drops entries after 4); three
attempts in flight exceed the limit of two. In the configuration runs the limit
of 100 rooms is 3, so that one run can reach it by itself, and there are as many
backup names as runs that need one; `MaxStarted` lets any three of the four runs
start, which gives the two meetings of one kind with a run of the other beside them;
power losses and kills are not bounded. Rooms do not share state except the source of
random strings, so `Signaling` is run with one; the theorems about `RoomStore` are for
any number.

One connection is enough for the write locks and the heartbeat, since neither
looks at another; four writers give one that holds the old mutex, one that waits for
it, and two that meet at a new one while two closes are under way. The heartbeat's
numbers make a handler busy (6) for longer than half the idle time (4) and a pong
come when the next ping is due. `Server` varies one part of a good configuration at
a time, with each bound of `Validate` and the value beyond it, because no rule but
`relay` and its TURN server relates two parts, and those two are one; the limits of
100 rooms and 20 proxies are 2. A route that has no gateway is passed over whatever
else it has, the devices are alike, and routes do not matter when the address is
given: `MCLanAddress` has one of each such kind. Two
sessions on the display page are one and its successor, two candidates one that is
being added while the other comes; three attempts on the presenter page leave two
failed ones behind the current one. `Patience`, `Horizon`, `MaxSession`, `MaxAttempt`,
`MaxSent` and `MaxHops` are the only bounds on those runs.

**Fairness** (`FairServerSpec`). Weak fairness of what a handler does by itself:
goroutines are scheduled, writes end by their deadline (`write_timeout_seconds`),
the first read by the authentication deadline. Strong fairness of the failing
read of a connection that is not open: a handler may still find messages in the
connection's buffer, but only finitely many, and then the read returns the error
(of the closed socket, or of the heartbeat's deadline). Nothing makes a user
connect, send or leave. `SocketWrites` assumes strong fairness of `Lock` (sync.Mutex
serves whoever waits, its starvation mode sees to it) and weak fairness of `Unlock`
(writes have a deadline) and `Close`. `DisplayPage` assumes that operations of an open
peer connection complete (`VideoFairness`, with the next), `DisplayVideo` that the
browser runs the tasks it has queued; neither that candidates, media or messages ever
come.

**The findings.** Four runs find the code at odds with a document or the page.

`displayReady` carries `room.Code()` read a moment before the
write (`core/signal.go:217`). While one display replaces another, the old one
can still be shown the new code (they share the Room and the old connection is
closed after `SetDisplay`); a presenter who reads it there can come and go before
the new display's `displayReady` is written, and the new display is then left
showing a used code although `files/main.html:28` sends presenters to it. The run
`stale_code_two_displays` gives the steps. With a single display the run
`codes_one_display` shows the code on the screen to be right.

`add_rooms` reads `config.json`, asks its questions and replaces the file by what it
read and the answers, without a lock. If another `--add-room` finishes in between,
its rooms are gone, although their enrollment URLs were printed and `README.md:181`
says that existing rooms are preserved (`config_two_adders`); in the steps of the
run both backups were linked before both replacements, so that no backup has the
lost rooms either. A single `--add-room` does keep what is promised, even through
a power loss (`AnnouncedRoomsStay` and `BackupHasTheOld` in `config_runs`).

`configure.py` splits the public URL and the TURN URL with Python's `urlsplit`, the
server with Go's `url.Parse`, and they differ on hosts: `https://a b` and
`turn:ex%mple:3478` are taken by the one and refused by the other. The installer
writes such an answer into `config.json`, where the server exits on it
(`config_generated`); the next run of `install.sh` finds the file and does not ask
again. The test `test_invalid_answer_is_reprompted_before_config_creation`
(`tests/test_detect_lan_ip.py:236`) has it that invalid answers are asked for again
before there is a configuration, and `configure.py:2` calls the configuration complete.

With sound and blocked autoplay the second track's `play()` succeeds, on the video
muted after the first one's rejection, and hides the button that `README.md:133`
promises (`audio_button`): the session stays muted with no way to turn the sound on.
Where the button is shown it does what it says (`EnableAudioWorks`).

## 4. Proofs

Every invariant and every action property of the passing runs is also a theorem, for
all values of the constants that satisfy the named assumptions of the modules. Where
a theorem has a further hypothesis, it is written before the `=>` and named below.
Each inductive invariant was given to TLC, on the instance of the component's run,
before it was proved.

**RoomStore** (`RoomStoreProofs`), from `NoneIsNoConn` alone (Go's nil is no
connection):

* `TypeCorrect`, `RoomsConsistent`, `DeletedRoomsStayInert` from the inductive
  invariant `IInv == TypeOK /\ RoomConsistent /\ DeletedRoomsInert`. The parts need
  one another: that `AuthorizePresenter` may fill the slot needs that a free slot
  has no session left (`RoomConsistent`), and that a change of one Room is a
  change of one id needs the store to be injective (`DeletedRoomsInert`).
  `OneRoomChanges` treats every method that keeps id and display alike;
  `SetDisplay` and `RemoveDisplay` have lemmas of their own.
* `StoreImplementsMeetingRoom`: `InitImplements` and `NextImplements`. `LiveRoom`
  says that a call that changes anything is made on a stored Room, `CurrentChanges`
  and `SetDisplayCurrent` what the change means for the room ids; every other call
  is a stutter.

**Signaling**, for any displays, presenters and rooms, from `Connections`,
`RoomsKnown`, `SomeSlot` and the above. Three invariants, each on top of the last:

* `SInv` (`SignalingProofs`). `HandlersUseTheStore` shows that every step of a handler
  is a call of the store as `RoomStore` foresees it or leaves the Rooms alone, so that
  `IInv` and the refinement hold of the server: `ServerSpec => Spec`, and with
  `StoreImplementsMeetingRoom` `ServerKeepsRooms`. For this the Room a handler follows
  must exist (`Pointers`) and the codes and generations it holds have been drawn
  (`StringsDrawn`). `NoOrphans` is inductive with `RoomsBound`, which says whose Room a
  presenter's display is in: it gives `SessionsBound` too. `HandlersTypeOK` and
  `SlotsAccounted` (with the finiteness of the connections being read) are parts of it.
* `AInv` (`AdmissionProofs`) is about presenters that were evicted and do not know it.
  `PeersKnown` relates an admitted presenter to its display's own handler: while the
  display serves, it is in the presenter's Room, and that Room has no other presenter.
  `OneSenderPerDisplay` needs it, because the store alone lets the next one in.
  `CodesApart` (no two Rooms have a code in common, none has a used one) makes
  `CodesUsedOnce` inductive; `EvictedAreClosed` and `GoodbyeToOwnDisplay` need the
  lists that `SetDisplay` and `RemoveDisplay` return to hold whoever was in the Room.
* `CInv` (`SingleDisplayProofs`), under `OneDisplayPerRoom`: no two displays are opened
  for one room. It follows a code from the draw to the pages. A code that was ever on a
  page and is still the Room's has let nobody in, and nobody is still going to write to
  that page (`CodesHidden`, `Untouched`); before `displayReady` nothing is shown and the
  code about to be is the Room's (`Preparing`); goodbyes carry the Room's code
  (`GoodbyeCodes`). With it a presenter can be admitted only after the goodbye that
  showed the code (`GoodbyesComeFirst`), the code shown is right unless a refresh is due
  (`ShownCodesWork`), and a refused presenter's code is still wrong when the handler
  looks again (`RightCodesAreExcused`). The hypothesis is what the run
  `codes_one_display` has, and `stale_code_two_displays` shows that it is needed.

**AuthThrottle** (`AuthThrottleProofs`), from `LimitsPositive`, `AttemptsFinite`,
`NoneIsNoKey`:

* the type invariant, `LocksMatchFailures` (the state part of `LockedByFailures`) and
  `OvershootBounded`, with `FreshAtSweep` (no entry was older than two
  lockouts at the last cleanup), are inductive; `ChargedEntry` and `SweptEntry` say
  what one failure and one cleanup do to one key, `VerdictLands` what a verdict
  does to the number of attempts in flight;
* `LocksFollowFailures`, with the step part of `LockedByFailures`, `LocksAreKept` and
  `TableIsBounded` are the action properties, from that invariant. There is no horizon in the proofs.

**ConfigFile** (`ConfigFileProofs`), from `RunsDiffer`, `NamesDiffer` (the names of
`config.json`, of temporary files and of backups are not alike), `NoneIsNoBackup`,
`RoomForOne`:

* `FInv`, for any number of runs. `TempsOwned` says that the temporary file of a run
  has no other name, not even in a directory that a power loss would bring back, and
  is complete when it is linked; with `NamedAreSynced` and `FilesAcceptable` this gives
  `ConfigAlwaysUsable`. `BackupsLinked` and `UndoneGone` say who made a backup and that
  who fails has taken its own back: `FailuresLeaveNothing` and `InstallsNeverOverwrite`.
  `StagesMean` ties the local variables to the stage.
* `AInv`, about every adder beside which no other has started (`AddsAlone`, part of the
  properties); installers, failures, interrupts, kills and power losses are without
  limit. The room set an adder read is still that of the file when it replaces it
  (`BasisOf`); wherever one of its rooms is in a directory, the backup there has the
  rest (`BackedUpFor`); after the sync its rooms are in all of them (`AnnouncedBy`).
  Once a second adder starts the first of these fails, as `config_two_adders` shows.

**The parts of the server** (`ServerPartsProofs`), each from its own invariant:

* `WritesInv`: a closer has dropped the mutex for every one that was made beside the
  first, hence the bound on writers, and before the first closer there is only one.
* `BeatInv` keeps the distance between the deadline and the next pong in each stage of
  a ping, from `Timely`, which the example configuration satisfies and `Validate` does
  not ask for. It also bounds silence and deadline together, for the dead page.
* `RequestInv`: behind a chain of trusted proxies the client's address stands in the
  header with trusted entries only after it; `NearestIsCandidate` is what the loop of
  `clientHost` finds. Any number of hops and of sent entries.
* `LanInv`: routes already tried had no address to offer.
* `ServerInv`, for any set of configurations. Whatever passes `Valid` leaves no stage
  of the process or of a request where an answer is dropped, a relay is missing or a
  setting ignored; `IceIsGood` and `TokensTell` are what it says of one configuration.
* `PartsTypeCorrect` is about the composition `PartsSpec`.

**The pages** (`PagesProofs`), for any numbers of sessions, attempts and candidates,
of the composition `PagesSpec`:

* `DInv` of the display's page: a run of `answerOffer` that can go on is the current
  session's (`TasksMean`, `PeerOfSession`, `AwaitsOwn`): operations of a closed
  connection do not complete. So `AnswersMatch` holds although `state.pc` is read anew.
  `CandidatesKept` counts candidates in the queue and the connection together;
  `SoundKept` says that no `play()` of a track outlives its `srcObject`.
* `PInv` of the presenter's page: of all attempts but the newest nothing is due
  (`PastQuiet`), and the shared variables are those of that one (`AttemptsMean`,
  `ScreenMeans`, `QueueMeans`).
* `SessionsStayApart`, `FailedAttemptsCleanUp` and `PagesTypeCorrect` have the
  hypothesis `Patient`, as the run has; `PastQuiet` is what fails without it.
  `DisplayKeepsSessionsApart`, the display's part, does not need it.

**Only model-checked**: liveness (`HandlersEnd`, `CodeComesBack`, `WritesEnd`,
`DisplayShows`), since fairness and ENABLED are beyond the prover; and that the four
violated properties are violated.

## 5. Not modelled, and the plan

Left out: security headers, static files, logging, container and CI files; the
content of SDP and ICE messages and the media; the home page, volume and mute
controls of the pages; how addresses and URLs are parsed; an override of the LAN
address that is no usable address, for which `detect_lan_ip.py` gives up; operations
of the display's current peer connection that are rejected; a clean-up of
`configure.py` whose own calls fail; the age of TURN credentials; `kiosk_url.py`, which prints
URLs from a configuration it checks by rules like those of `Configuration`;
`next_room_number` and what `install.sh` derives from the configuration (`.env`,
`turnserver.conf`), which are single passes over a file without state. A candidate
that the failed attempt's peer connection still finds may be sent on the next
attempt's socket before `startSession`, which makes the server close it
(`core/signal.go:358`); `PresenterPage` does not have the candidates a page sends.

What could still be proved:

1. the step properties behind the liveness runs: that each fair action of a lost
   connection's handler brings it nearer to its end, so that only the fairness
   argument is left to TLC;
2. that `DisplayPage` may assume the order of sessions it does, as a refinement of the
   display's side of `Signaling`: today this rests on reading `GoodbyesComeFirst`.
