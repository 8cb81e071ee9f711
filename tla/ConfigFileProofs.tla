-------------------------- MODULE ConfigFileProofs --------------------------
(***************************************************************************)
(* Proofs about ConfigFile, for any runs of install.sh and of --add-room   *)
(* and any names of backups: config.json is always usable, a failure       *)
(* leaves nothing behind, an install overwrites nothing; and with one      *)
(* --add-room at a time, what it announced stays and what it replaced is   *)
(* in the backup.                                                          *)
(***************************************************************************)
EXTENDS ConfigFile, FiniteSetTheorems, TLAPS

\* Before there is a temporary file, ...
Early == {"idle", "ask", "backup", "mkstemp"}
\* ... until it has become a file of another name, ...
Making == {"mkstemp", "fill", "link"}
\* ... and from the link of the backup on.
Replacing == {"replace", "sync", "undo"}

\* What a run's stage says of its local variables: an installer has no backup,
\* and nothing is linked, replaced or raised before its time.
StageMeans(p) ==
  /\ stage[p] = "idle" => my[p] = NoLocal
  /\ stage[p] \in {"backup"} \cup Replacing => p \in Adders
  /\ p \in Installers => my[p].backup = None
  /\ my[p].linked \/ (p \in Adders /\ stage[p] \in Making \cup Replacing)
       => my[p].backup \in Backup
  /\ stage[p] \in Early \cup Making => ~my[p].linked /\ ~my[p].replaced
  /\ stage[p] = "replace" => my[p].linked /\ ~my[p].replaced
  /\ stage[p] \in Early \cup Making \cup {"replace", "sync"} => my[p].raised = "nothing"
  /\ stage[p] = "undo" => my[p].raised = "error"

StagesMean == \A p \in Run : StageMeans(p)

\* A run's temporary name is its own (mkstemp): the file it fills has no other
\* name, not even in what a power loss would leave, and is complete when it is
\* linked.
TempOwned(p) ==
  /\ stage[p] \in {"fill", "link", "replace"} => dir[p] # 0
  /\ stage[p] \in {"link", "replace"} => files[dir[p]] = Filled(p)
  /\ stage[p] \in Early => \A d \in mayBe : d[p] = 0
  /\ stage[p] = "fill" => \A d \in mayBe : \A n \in Name : d[n] = dir[p] => n = p

TempsOwned == \A p \in Run : TempOwned(p)

\* Whatever has the name of a configuration or of a backup is on the disk.
NamedAreSynced ==
  \A d \in mayBe : \A n \in Name \ Run : d[n] # 0 => files[d[n]].state = "synced"

\* The rooms that core/config.go, Validate takes.
AcceptableRooms(rooms) == /\ IsFiniteSet(rooms) /\ Cardinality(rooms) \in 1..MaxRooms
                          /\ \A r, s \in rooms : r.id = s.id => r = s

\* Complete files have acceptable rooms, ...
FilesAcceptable ==
  \A i \in DOMAIN files : files[i].state = "synced" => AcceptableRooms(files[i].rooms)

\* ... since every run chooses such, and the limit stops an adder in time.
RunAcceptable(p) ==
  /\ stage[p] \in {"backup", "mkstemp", "fill", "link", "replace"} => AcceptableRooms(my[p].rooms)
  /\ p \in Adders /\ stage[p] = "ask" => /\ AcceptableRooms(my[p].rooms)
                                        /\ Cardinality(my[p].rooms) < MaxRooms

RunsAcceptable == \A p \in Run : RunAcceptable(p)

\* config.json is never taken away from an adder that has read it.
ConfigThere ==
  \A p \in Adders : stage[p] \in {"ask", "backup"} \cup Making \cup Replacing => dir["config"] # 0

\* Run q has made the backup b.
Linked(q, b) == my[q].backup = b /\ my[q].linked

\* A backup that exists was made by some run, which does not forget it.
BackupsLinked ==
  \A d \in mayBe : \A b \in Backup : d[b] # 0 => \E q \in Adders : Linked(q, b)

\* Who fails has taken its backup back; a file of that name is another's.
UndoneOf(p) ==
  stage[p] = "unlink" /\ my[p].raised = "error" /\ ~my[p].replaced /\ my[p].backup \in Backup
    /\ dir[my[p].backup] # 0 => \E q \in Adders \ {p} : Linked(q, my[p].backup)

UndoneGone == \A p \in Adders : UndoneOf(p)

\* The inductive invariant for any number of runs.
FInv == /\ TypeOK /\ StagesMean /\ TempsOwned /\ NamedAreSynced /\ FilesAcceptable
        /\ RunsAcceptable /\ ConfigThere /\ BackupsLinked /\ UndoneGone

-----------------------------------------------------------------------------
(* For an --add-room beside which no other has started: installers,        *)
(* failures, interrupts, kills and power losses there may be as many as    *)
(* they like.  Once a second starts, the properties below do not hold: it  *)
(* may replace what the first announced.                                   *)

\* The rooms a run has chosen are marked as its own.
MarkedBy(p) ==
  /\ p \in Installers => \A r \in my[p].rooms : r.by = p
  /\ p \in Adders =>
       /\ my[p].added \subseteq my[p].rooms
       /\ \A r \in my[p].added : r.by = p
       /\ my[p].replaced \/ stage[p] \in {"backup"} \cup Making \cup {"replace"}
            => my[p].added # {}

RoomsMarked == \A p \in Run : MarkedBy(p)

\* Until it is replaced, the configuration is what the adder read: nobody else
\* can have changed it meanwhile.
BasisOf(p) == stage[p] \in {"ask", "backup"} \cup Making \cup {"replace"} =>
                ConfigOf(dir).rooms = my[p].rooms \ my[p].added

\* What was read is in p's backup.
OldIn(p, d) ==
  LET b == my[p].backup IN
  b \in Backup /\ d[b] # 0 /\ files[d[b]].rooms = my[p].rooms \ my[p].added

\* The configuration has a room of p's.
HasRoomOf(p, d) == d["config"] # 0 /\ \E r \in ConfigOf(d).rooms : r.by = p

\* Wherever a room of p's is in the configuration, p has replaced it and what
\* was there before is in the backup; so it is just before the os.replace.
BackedUpFor(p) == /\ \A d \in mayBe : HasRoomOf(p, d) => my[p].replaced /\ OldIn(p, d)
                  /\ stage[p] = "replace" => OldIn(p, dir)

\* The configuration has all of p's rooms.
NewIn(p, d) == d["config"] # 0 /\ my[p].added \subseteq ConfigOf(d).rooms

\* They are there once replaced, and once the directory is synced they are
\* there whatever a power loss takes back.
AnnouncedBy(p) ==
  /\ stage[p] = "sync" => NewIn(p, dir)
  /\ stage[p] = "done" \/ (stage[p] = "unlink" /\ my[p].raised = "nothing") =>
       \A d \in mayBe : NewIn(p, d)

AdderInv(p) == BasisOf(p) /\ BackedUpFor(p) /\ AnnouncedBy(p)

\* The inductive invariant for whoever adds rooms alone.
AInv == FInv /\ RoomsMarked /\ \A p \in Adders : AddsAlone(p) => AdderInv(p)

\* Everything that a run does or suffers on its own.
Moves(p) == RunNext(p) \/ Interrupt(p) \/ Kill(p)

-----------------------------------------------------------------------------
(* What a step does to runs, files and names                              *)

\* Assignments to single local variables keep their types.
LEMMA LocalFields ==
  ASSUME NEW p \in Run, my \in [Run -> Local]
  PROVE  /\ [my EXCEPT ![p].raised = "error"] \in [Run -> Local]
         /\ [my EXCEPT ![p].raised = "interrupt"] \in [Run -> Local]
         /\ \A x \in SUBSET Room : [my EXCEPT ![p].rooms = x] \in [Run -> Local]
         /\ \A x \in SUBSET Room, y \in SUBSET Room :
              [my EXCEPT ![p].rooms = x, ![p].added = y] \in [Run -> Local]
         /\ \A x \in Backup : [my EXCEPT ![p].backup = x] \in [Run -> Local]
         /\ [my EXCEPT ![p].linked = TRUE] \in [Run -> Local]
         /\ [my EXCEPT ![p].replaced = TRUE] \in [Run -> Local]
         /\ my[p].rooms \subseteq Room /\ my[p].added \subseteq Room
<1>1. /\ [my EXCEPT ![p].raised = "error"] \in [Run -> Local]
      /\ [my EXCEPT ![p].raised = "interrupt"] \in [Run -> Local]
  BY DEF Local
<1>2. \A x \in SUBSET Room : [my EXCEPT ![p].rooms = x] \in [Run -> Local]
  BY DEF Local
<1>3. \A x \in SUBSET Room, y \in SUBSET Room :
              [my EXCEPT ![p].rooms = x, ![p].added = y] \in [Run -> Local]
  BY DEF Local
<1>4. \A x \in Backup : [my EXCEPT ![p].backup = x] \in [Run -> Local]
  BY DEF Local
<1>5. [my EXCEPT ![p].linked = TRUE] \in [Run -> Local]
  BY DEF Local
<1>6. [my EXCEPT ![p].replaced = TRUE] \in [Run -> Local]
  BY DEF Local
<1>7. my[p].rooms \subseteq Room /\ my[p].added \subseteq Room
  BY DEF Local
<1> QED BY <1>1, <1>2, <1>3, <1>4, <1>5, <1>6, <1>7

\* The local variables keep their types.
LEMMA LocalsTyped ==
  ASSUME NEW p \in Run, Moves(p), my \in [Run -> Local], stage \in [Run -> Stage],
         StagesMean, files \in Seq(File), dir \in [Name -> 0..Len(files)]
  PROVE  my' \in [Run -> Local]
<1>f. /\ [my EXCEPT ![p].raised = "error"] \in [Run -> Local]
      /\ [my EXCEPT ![p].raised = "interrupt"] \in [Run -> Local]
      /\ \A x \in SUBSET Room : [my EXCEPT ![p].rooms = x] \in [Run -> Local]
      /\ \A x \in SUBSET Room, y \in SUBSET Room :
              [my EXCEPT ![p].rooms = x, ![p].added = y] \in [Run -> Local]
      /\ \A x \in Backup : [my EXCEPT ![p].backup = x] \in [Run -> Local]
      /\ [my EXCEPT ![p].linked = TRUE] \in [Run -> Local]
      /\ [my EXCEPT ![p].replaced = TRUE] \in [Run -> Local]
      /\ my[p].rooms \subseteq Room /\ my[p].added \subseteq Room
  BY LocalFields
<1>e. \A i \in RoomID : [id |-> i, by |-> p] \in Room
  BY DEF Room
<1>s. dir["config"] # 0 => files[dir["config"]].rooms \subseteq Room
  <2> SUFFICES ASSUME dir["config"] # 0 PROVE files[dir["config"]].rooms \subseteq Room
    OBVIOUS
  <2>1. dir["config"] \in 1..Len(files)
    BY DEF Name
  <2>2. files[dir["config"]] \in File
    BY <2>1
  <2> QED BY <2>2 DEF File
<1>1. CASE Install(p)
  BY <1>f, <1>1 DEF Install, Go, Exists
<1>2. CASE Configure(p)
  <2>1. PICK i \in RoomID : my' = [my EXCEPT ![p].rooms = {[id |-> i, by |-> p]}]
    BY <1>2 DEF Configure
  <2>2. {[id |-> i, by |-> p]} \in SUBSET Room
    BY <1>e
  <2> QED BY <1>f, <2>1, <2>2
<1>3. CASE Read(p)
  <2>1. CASE UNCHANGED my
    BY <2>1
  <2>2. CASE Extensible /\ my' = [my EXCEPT ![p].rooms = Config.rooms]
    <3>1. Config.rooms \in SUBSET Room
      BY <2>2, <1>s DEF Extensible, Config, Exists
    <3> QED BY <1>f, <2>2, <3>1
  <2> QED BY <1>3, <2>1, <2>2 DEF Read
<1>4. CASE AddRoom(p)
  <2>1. PICK i \in RoomID : my' = [my EXCEPT ![p].rooms = @ \cup {[id |-> i, by |-> p]},
                                            ![p].added = @ \cup {[id |-> i, by |-> p]}]
    BY <1>4 DEF AddRoom, Acceptable
  <2> DEFINE room == [id |-> i, by |-> p]
  <2>2. my[p].rooms \cup {room} \in SUBSET Room /\ my[p].added \cup {room} \in SUBSET Room
    BY <1>e, <1>f
  <2>3. my' = [my EXCEPT ![p].rooms = my[p].rooms \cup {room}, ![p].added = my[p].added \cup {room}]
    BY <2>1
  <2> QED BY <1>f, <2>2, <2>3
<1>5. CASE NameBackup(p)
  <2>1. CASE UNCHANGED my
    BY <2>1
  <2>2. CASE \E b \in Backup : my' = [my EXCEPT ![p].backup = b]
    BY <1>f, <2>2
  <2> QED BY <1>5, <2>1, <2>2 DEF NameBackup
<1>6. CASE MakeTemp(p)
  BY <1>f, <1>6 DEF MakeTemp, Go, Edit, Temp
<1>7. CASE Fill(p)
  BY <1>f, <1>7 DEF Fill, Go, Temp, Filled
<1>8. CASE LinkConfig(p)
  BY <1>f, <1>8 DEF LinkConfig, Go, Edit, Temp, MayLink, Exists, Raise
<1>9. CASE LinkBackup(p)
  BY <1>f, <1>9 DEF LinkBackup, Go, Edit, MayLink, Exists, Raise
<1>10. CASE Replace(p)
  BY <1>f, <1>10 DEF Replace, Go, Edit, Temp
<1>11. CASE SyncDirectory(p)
  BY <1>f, <1>11 DEF SyncDirectory, Go, Synced
<1>12. CASE CallFails(p)
  BY <1>f, <1>12 DEF CallFails, Go, Raise
<1>13. CASE Undo(p)
  BY <1>f, <1>13 DEF Undo, Go, Edit, TakesBack, Exists
<1>14. CASE Unlink(p)
  BY <1>f, <1>14 DEF Unlink, Go, Edit, Temp, Exists
<1>15. CASE Interrupt(p)
  BY <1>f, <1>15 DEF Interrupt, Go, Raise
<1>16. CASE Kill(p)
  BY <1>f, <1>16 DEF Kill, Go
<1> QED BY <1>1, <1>2, <1>3, <1>4, <1>5, <1>6, <1>7, <1>8, <1>9, <1>10, <1>11, <1>12,
    <1>13, <1>14, <1>15, <1>16 DEF Moves, RunNext

\* The others stay where they are.
LEMMA OthersStay ==
  ASSUME NEW p \in Run, Moves(p), my \in [Run -> Local], stage \in [Run -> Stage]
  PROVE  \A q \in Run : q # p => stage'[q] = stage[q] /\ my'[q] = my[q]
<1>1. CASE Install(p)
  BY <1>1 DEF Install, Go, Exists
<1>2. CASE Configure(p)
  BY <1>2 DEF Configure, Go
<1>3. CASE Read(p)
  BY <1>3 DEF Read, Go, Extensible, Config
<1>4. CASE AddRoom(p)
  BY <1>4 DEF AddRoom, Go, Acceptable, Identifiers
<1>5. CASE NameBackup(p)
  BY <1>5 DEF NameBackup, Go, Exists
<1>6. CASE MakeTemp(p)
  BY <1>6 DEF MakeTemp, Go, Edit, Temp
<1>7. CASE Fill(p)
  BY <1>7 DEF Fill, Go, Temp, Filled
<1>8. CASE LinkConfig(p)
  BY <1>8 DEF LinkConfig, Go, Edit, Temp, MayLink, Exists, Raise
<1>9. CASE LinkBackup(p)
  BY <1>9 DEF LinkBackup, Go, Edit, MayLink, Exists, Raise
<1>10. CASE Replace(p)
  BY <1>10 DEF Replace, Go, Edit, Temp
<1>11. CASE SyncDirectory(p)
  BY <1>11 DEF SyncDirectory, Go, Synced
<1>12. CASE CallFails(p)
  BY <1>12 DEF CallFails, Go, Raise
<1>13. CASE Undo(p)
  BY <1>13 DEF Undo, Go, Edit, TakesBack, Exists
<1>14. CASE Unlink(p)
  BY <1>14 DEF Unlink, Go, Edit, Temp, Exists
<1>15. CASE Interrupt(p)
  BY <1>15 DEF Interrupt, Go, Raise
<1>16. CASE Kill(p)
  BY <1>16 DEF Kill, Go
<1> QED BY <1>1, <1>2, <1>3, <1>4, <1>5, <1>6, <1>7, <1>8, <1>9, <1>10, <1>11, <1>12,
    <1>13, <1>14, <1>15, <1>16 DEF Moves, RunNext

\* Stages lead to stages.
LEMMA StagesTyped ==
  ASSUME NEW p \in Run, Moves(p), my \in [Run -> Local], stage \in [Run -> Stage]
  PROVE  stage' \in [Run -> Stage]
<1>1. CASE Install(p)
  BY <1>1 DEF Install, Go, Exists, Stage
<1>2. CASE Configure(p)
  BY <1>2 DEF Configure, Go, Stage
<1>3. CASE Read(p)
  BY <1>3 DEF Read, Go, Extensible, Config, Stage
<1>4. CASE AddRoom(p)
  BY <1>4 DEF AddRoom, Go, Acceptable, Identifiers, Stage
<1>5. CASE NameBackup(p)
  BY <1>5 DEF NameBackup, Go, Exists, Stage
<1>6. CASE MakeTemp(p)
  BY <1>6 DEF MakeTemp, Go, Edit, Temp, Stage
<1>7. CASE Fill(p)
  BY <1>7 DEF Fill, Go, Temp, Filled, Stage
<1>8. CASE LinkConfig(p)
  BY <1>8 DEF LinkConfig, Go, Edit, Temp, MayLink, Exists, Raise, Stage
<1>9. CASE LinkBackup(p)
  BY <1>9 DEF LinkBackup, Go, Edit, MayLink, Exists, Raise, Stage
<1>10. CASE Replace(p)
  BY <1>10 DEF Replace, Go, Edit, Temp, Stage
<1>11. CASE SyncDirectory(p)
  BY <1>11 DEF SyncDirectory, Go, Synced, Stage
<1>12. CASE CallFails(p)
  BY <1>12 DEF CallFails, Go, Raise, Stage
<1>13. CASE Undo(p)
  BY <1>13 DEF Undo, Go, Edit, TakesBack, Exists, Stage
<1>14. CASE Unlink(p)
  BY <1>14 DEF Unlink, Go, Edit, Temp, Exists, Stage, Local
<1>15. CASE Interrupt(p)
  BY <1>15 DEF Interrupt, Go, Raise, Stage
<1>16. CASE Kill(p)
  BY <1>16 DEF Kill, Go, Stage
<1> QED BY <1>1, <1>2, <1>3, <1>4, <1>5, <1>6, <1>7, <1>8, <1>9, <1>10, <1>11, <1>12,
    <1>13, <1>14, <1>15, <1>16 DEF Moves, RunNext

\* What is written to a file is one.
LEMMA FileTyped ==
  ASSUME NEW p \in Run, my \in [Run -> Local]
  PROVE  Filled(p) \in File /\ [rooms |-> {}, state |-> "partial"] \in File
<1>1. my[p].rooms \subseteq Room
  BY DEF Local
<1> QED BY <1>1 DEF File, Filled

\* A file changes only when its run fills it; otherwise files are added.
LEMMA FilesStep ==
  ASSUME NEW p \in Run, Moves(p), TypeOK
  PROVE  /\ files' \in Seq(File) /\ Len(files') \in Nat /\ Len(files) <= Len(files')
         /\ \A i \in 1..Len(files) :
              files'[i] = files[i] \/ (stage[p] = "fill" /\ i = dir[p] /\ files'[i] = Filled(p))
<1>f. /\ files \in Seq(File) /\ Len(files) \in Nat
      /\ Filled(p) \in File /\ [rooms |-> {}, state |-> "partial"] \in File
  BY FileTyped DEF TypeOK
<1>1. CASE Install(p)
  BY <1>f, <1>1 DEF Install, Go, Exists
<1>2. CASE Configure(p)
  BY <1>f, <1>2 DEF Configure, Go
<1>3. CASE Read(p)
  BY <1>f, <1>3 DEF Read, Go, Extensible, Config
<1>4. CASE AddRoom(p)
  BY <1>f, <1>4 DEF AddRoom, Go, Acceptable, Identifiers
<1>5. CASE NameBackup(p)
  BY <1>f, <1>5 DEF NameBackup, Go, Exists
<1>6. CASE MakeTemp(p)
  BY <1>f, <1>6 DEF MakeTemp, Go, Edit, Temp
<1>7. CASE Fill(p)
  <2>1. files' = [files EXCEPT ![dir[p]] = Filled(p)] /\ stage[p] = "fill"
    BY <1>7 DEF Fill, Temp
  <2>2. dir[p] \in 1..Len(files)
    BY <2>1 DEF TypeOK, Exists, Temp, Name
  <2> QED BY <1>f, <2>1, <2>2
<1>8. CASE LinkConfig(p)
  BY <1>f, <1>8 DEF LinkConfig, Go, Edit, Temp, MayLink, Exists, Raise
<1>9. CASE LinkBackup(p)
  BY <1>f, <1>9 DEF LinkBackup, Go, Edit, MayLink, Exists, Raise
<1>10. CASE Replace(p)
  BY <1>f, <1>10 DEF Replace, Go, Edit, Temp
<1>11. CASE SyncDirectory(p)
  BY <1>f, <1>11 DEF SyncDirectory, Go, Synced
<1>12. CASE CallFails(p)
  BY <1>f, <1>12 DEF CallFails, Go, Raise
<1>13. CASE Undo(p)
  BY <1>f, <1>13 DEF Undo, Go, Edit, TakesBack, Exists
<1>14. CASE Unlink(p)
  BY <1>f, <1>14 DEF Unlink, Go, Edit, Temp, Exists
<1>15. CASE Interrupt(p)
  BY <1>f, <1>15 DEF Interrupt, Go, Raise
<1>16. CASE Kill(p)
  BY <1>f, <1>16 DEF Kill, Go
<1> QED BY <1>1, <1>2, <1>3, <1>4, <1>5, <1>6, <1>7, <1>8, <1>9, <1>10, <1>11, <1>12,
    <1>13, <1>14, <1>15, <1>16 DEF Moves, RunNext

\* One directory at a time, and a power loss may leave no other one.
LEMMA DirStep ==
  ASSUME NEW p \in Run, Moves(p), TypeOK, StagesMean
  PROVE  /\ dir' \in [Name -> 0..Len(files')] /\ dir' \in mayBe'
         /\ \A d \in mayBe' : d \in mayBe \/ d = dir'
<1>m. p \in Name /\ "config" \in Name /\ Backup \subseteq Name
  BY DEF Name
<1>l. dir \in [Name -> 0..Len(files)] /\ dir \in mayBe /\ Len(files) \in Nat
  BY DEF TypeOK
<1>f. /\ dir \in [Name -> 0..Len(files)] /\ dir \in mayBe /\ Len(files) \in Nat
      /\ p \in Name /\ "config" \in Name /\ Backup \subseteq Name
  BY <1>l, <1>m
<1>n. /\ p \in Adders /\ stage[p] = "link" => my[p].backup \in Backup
      /\ stage[p] = "undo" => my[p].backup \in Backup
  BY DEF StagesMean, StageMeans, Making, Replacing
<1>t. dir[p] \in 0..Len(files) /\ dir["config"] \in 0..Len(files)
  BY <1>f
<1>u. UNCHANGED <<files, dir, mayBe>> => (/\ dir' \in [Name -> 0..Len(files')] /\ dir' \in mayBe' /\ \A d \in mayBe' : d \in mayBe \/ d = dir')
  BY <1>f
<1>v. ASSUME NEW n \in Name, NEW v \in 0..Len(files), UNCHANGED files,
             dir' = [dir EXCEPT ![n] = v], mayBe' = mayBe \cup {dir'}
      PROVE  (/\ dir' \in [Name -> 0..Len(files')] /\ dir' \in mayBe' /\ \A d \in mayBe' : d \in mayBe \/ d = dir')
  BY <1>f, <1>v
<1>1. CASE Install(p)
  BY <1>f, <1>t, <1>u, <1>v, <1>1 DEF Install, Go, Exists
<1>2. CASE Configure(p)
  BY <1>f, <1>t, <1>u, <1>v, <1>2 DEF Configure, Go
<1>3. CASE Read(p)
  BY <1>f, <1>t, <1>u, <1>v, <1>3 DEF Read, Go, Extensible, Config
<1>4. CASE AddRoom(p)
  BY <1>f, <1>t, <1>u, <1>v, <1>4 DEF AddRoom, Go, Acceptable, Identifiers
<1>5. CASE NameBackup(p)
  BY <1>f, <1>t, <1>u, <1>v, <1>5 DEF NameBackup, Go, Exists
<1>6. CASE MakeTemp(p)
  <2>1. /\ Len(files') = Len(files) + 1 /\ dir' = [dir EXCEPT ![p] = Len(files) + 1]
        /\ mayBe' = mayBe \cup {dir'}
    BY <1>6 DEF MakeTemp, Edit, Temp, TypeOK
  <2> QED BY <1>f, <2>1
<1>7. CASE Fill(p)
  BY <1>f, <1>t, <1>u, <1>v, <1>7 DEF Fill, Go, Temp, Filled
<1>8. CASE LinkConfig(p)
  BY <1>f, <1>t, <1>u, <1>v, <1>8 DEF LinkConfig, Go, Edit, Temp, MayLink, Exists, Raise
<1>9. CASE LinkBackup(p)
  BY <1>f, <1>t, <1>u, <1>v, <1>9, <1>n DEF LinkBackup, Go, Edit, MayLink, Exists, Raise
<1>10. CASE Replace(p)
  BY <1>f, <1>t, <1>u, <1>v, <1>10 DEF Replace, Go, Edit, Temp
<1>11. CASE SyncDirectory(p)
  BY <1>f, <1>t, <1>u, <1>v, <1>11 DEF SyncDirectory, Go, Synced
<1>12. CASE CallFails(p)
  BY <1>f, <1>t, <1>u, <1>v, <1>12 DEF CallFails, Go, Raise
<1>13. CASE Undo(p)
  <2>1. CASE TakesBack(p)
    <3>1. my[p].backup \in Name /\ 0 \in 0..Len(files)
      BY <1>13, <1>f, <1>n DEF Undo
    <3>2. /\ UNCHANGED files /\ dir' = [dir EXCEPT ![my[p].backup] = 0]
          /\ mayBe' = mayBe \cup {dir'}
      BY <1>13, <2>1 DEF Undo, Edit
    <3> QED BY <1>v, <3>1, <3>2
  <2> QED BY <1>13, <1>u, <2>1 DEF Undo
<1>14. CASE Unlink(p)
  BY <1>f, <1>t, <1>u, <1>v, <1>14 DEF Unlink, Go, Edit, Temp, Exists
<1>15. CASE Interrupt(p)
  BY <1>f, <1>t, <1>u, <1>v, <1>15 DEF Interrupt, Go, Raise
<1>16. CASE Kill(p)
  BY <1>f, <1>t, <1>u, <1>v, <1>16 DEF Kill, Go
<1> QED BY <1>1, <1>2, <1>3, <1>4, <1>5, <1>6, <1>7, <1>8, <1>9, <1>10, <1>11, <1>12,
    <1>13, <1>14, <1>15, <1>16 DEF Moves, RunNext

-----------------------------------------------------------------------------
(* Stages                                                                 *)

\* A run's own steps keep what its stage says, ...
LEMMA StageMeansStep ==
  ASSUME NEW p \in Run, Moves(p), TypeOK, StageMeans(p)
  PROVE  StageMeans(p)'
<1>f. stage \in [Run -> Stage] /\ my \in [Run -> Local] /\ my[p] \in Local
  BY DEF TypeOK
<1>m. StageMeans(p)
  OBVIOUS
<1> USE DEF StageMeans, Early, Making, Replacing, Local
<1>1. CASE Install(p)
  BY <1>f, <1>m, RunsDiffer, <1>1 DEF Install, Go, Exists, NoLocal
<1>2. CASE Configure(p)
  BY <1>f, <1>m, RunsDiffer, <1>2 DEF Configure, Go, NoLocal
<1>3. CASE Read(p)
  BY <1>f, <1>m, RunsDiffer, <1>3 DEF Read, Go, Extensible, Config, NoLocal
<1>4. CASE AddRoom(p)
  BY <1>f, <1>m, RunsDiffer, <1>4 DEF AddRoom, Go, Acceptable, Identifiers, NoLocal
<1>5. CASE NameBackup(p)
  BY <1>f, <1>m, RunsDiffer, <1>5 DEF NameBackup, Go, Exists, Local
<1>6. CASE MakeTemp(p)
  BY <1>f, <1>m, RunsDiffer, <1>6 DEF MakeTemp, Go, Edit, Temp
<1>7. CASE Fill(p)
  BY <1>f, <1>m, RunsDiffer, <1>7 DEF Fill, Go, Temp, Filled
<1>8. CASE LinkConfig(p)
  BY <1>f, <1>m, RunsDiffer, <1>8 DEF LinkConfig, Go, Edit, Temp, MayLink, Exists, Raise,
       Local
<1>9. CASE LinkBackup(p)
  BY <1>f, <1>m, RunsDiffer, <1>9 DEF LinkBackup, Go, Edit, MayLink, Exists, Raise, Local
<1>10. CASE Replace(p)
  BY <1>f, <1>m, RunsDiffer, <1>10 DEF Replace, Go, Edit, Temp
<1>11. CASE SyncDirectory(p)
  BY <1>f, <1>m, RunsDiffer, <1>11 DEF SyncDirectory, Go, Synced
<1>12. CASE CallFails(p)
  BY <1>f, <1>m, RunsDiffer, <1>12 DEF CallFails, Go, Raise
<1>13. CASE Undo(p)
  BY <1>f, <1>m, RunsDiffer, <1>13 DEF Undo, Go, Edit, TakesBack, Exists
<1>14. CASE Unlink(p)
  <2>1. my[p].raised \in {"nothing", "error", "interrupt"}
    BY <1>f DEF Local
  <2>2. stage'[p] \in {"done", "failed", "dead"} /\ my' = my
    BY <1>14, <1>f, <2>1 DEF Unlink, Go
  <2> QED BY <1>m, <2>2
<1>15. CASE Interrupt(p)
  BY <1>f, <1>m, RunsDiffer, <1>15 DEF Interrupt, Go, Raise, Local
<1>16. CASE Kill(p)
  BY <1>f, <1>m, RunsDiffer, <1>16 DEF Kill, Go
<1> QED BY <1>1, <1>2, <1>3, <1>4, <1>5, <1>6, <1>7, <1>8, <1>9, <1>10, <1>11, <1>12,
    <1>13, <1>14, <1>15, <1>16 DEF Moves, RunNext

\* ... and so do all others.
LEMMA StagesMeanStep ==
  ASSUME NEW p \in Run, Moves(p), TypeOK, StagesMean
  PROVE  StagesMean'
<1>1. ASSUME NEW q \in Run
      PROVE  StageMeans(q)'
  <2>1. CASE q = p
    BY <2>1, StageMeansStep DEF StagesMean
  <2>2. CASE q # p
    <3>1. stage'[q] = stage[q] /\ my'[q] = my[q]
      BY <2>2, OthersStay DEF TypeOK
    <3> QED BY <3>1 DEF StagesMean, StageMeans
  <2> QED BY <2>1, <2>2
<1> QED BY <1>1 DEF StagesMean

-----------------------------------------------------------------------------
(* Names and temporary files                                              *)

\* The four changes of a name that is not temporary: os.link by install.sh,
\* os.replace, os.link of the backup, and its unlink in the except clause.
LEMMA NameStep ==
  ASSUME NEW p \in Run, Moves(p), TypeOK, NEW n \in Name \ {p}, dir'[n] # dir[n]
  PROVE
    \/ n = "config" /\ LinkConfig(p) /\ dir'[n] = dir[p] /\ dir[n] = 0
    \/ n = "config" /\ Replace(p) /\ dir'[n] = dir[p]
    \/ n = my[p].backup /\ LinkBackup(p) /\ dir'[n] = dir["config"] /\ dir[n] = 0 /\ my'[p].linked
    \/ n = my[p].backup /\ Undo(p) /\ TakesBack(p) /\ dir'[n] = 0
<1>f. dir \in [Name -> 0..Len(files)] /\ my \in [Run -> Local]
  BY DEF TypeOK
<1>g. p # "config"
  BY NamesDiffer
<1>1. CASE Install(p)
  BY <1>f, <1>g, NamesDiffer, <1>1 DEF Install, Go, Exists
<1>2. CASE Configure(p)
  BY <1>f, <1>g, NamesDiffer, <1>2 DEF Configure, Go
<1>3. CASE Read(p)
  BY <1>f, <1>g, NamesDiffer, <1>3 DEF Read, Go, Extensible, Config
<1>4. CASE AddRoom(p)
  BY <1>f, <1>g, NamesDiffer, <1>4 DEF AddRoom, Go, Acceptable, Identifiers
<1>5. CASE NameBackup(p)
  BY <1>f, <1>g, NamesDiffer, <1>5 DEF NameBackup, Go, Exists
<1>6. CASE MakeTemp(p)
  BY <1>f, <1>g, NamesDiffer, <1>6 DEF MakeTemp, Go, Edit, Temp
<1>7. CASE Fill(p)
  BY <1>f, <1>g, NamesDiffer, <1>7 DEF Fill, Go, Temp, Filled
<1>8. CASE LinkConfig(p)
  BY <1>f, <1>g, NamesDiffer, <1>8 DEF LinkConfig, Go, Edit, Temp, MayLink, Exists, Raise
<1>9. CASE LinkBackup(p)
  BY <1>f, <1>g, NamesDiffer, <1>9 DEF LinkBackup, Go, Edit, MayLink, Exists, Raise, Local
<1>10. CASE Replace(p)
  BY <1>f, <1>g, NamesDiffer, <1>10 DEF Replace, Go, Edit, Temp
<1>11. CASE SyncDirectory(p)
  BY <1>f, <1>g, NamesDiffer, <1>11 DEF SyncDirectory, Go, Synced
<1>12. CASE CallFails(p)
  BY <1>f, <1>g, NamesDiffer, <1>12 DEF CallFails, Go, Raise
<1>13. CASE Undo(p)
  BY <1>f, <1>g, NamesDiffer, <1>13 DEF Undo, Go, Edit, Exists
<1>14. CASE Unlink(p)
  BY <1>f, <1>g, NamesDiffer, <1>14 DEF Unlink, Go, Edit, Temp, Exists
<1>15. CASE Interrupt(p)
  BY <1>f, <1>g, NamesDiffer, <1>15 DEF Interrupt, Go, Raise
<1>16. CASE Kill(p)
  BY <1>f, <1>g, NamesDiffer, <1>16 DEF Kill, Go
<1> QED BY <1>1, <1>2, <1>3, <1>4, <1>5, <1>6, <1>7, <1>8, <1>9, <1>10, <1>11, <1>12,
    <1>13, <1>14, <1>15, <1>16 DEF Moves, RunNext

\* A temporary name is made by mkstemp and goes by os.replace or unlink.
LEMMA OwnNameStep ==
  ASSUME NEW p \in Run, Moves(p), TypeOK, StagesMean
  PROVE  \/ dir'[p] = dir[p]
         \/ dir'[p] = Len(files) + 1 /\ MakeTemp(p)
         \/ dir'[p] = 0 /\ (Replace(p) \/ Unlink(p))
<1>f. dir \in [Name -> 0..Len(files)]
  BY DEF TypeOK
<1>g. p \in Name /\ p # "config"
  BY NamesDiffer DEF Name
<1>h. /\ p \in Adders /\ stage[p] = "link" => my[p].backup \in Backup
      /\ stage[p] = "undo" => my[p].backup \in Backup
  BY DEF StagesMean, StageMeans, Making, Replacing
<1>1. CASE Install(p)
  BY <1>f, <1>g, <1>h, NamesDiffer, <1>1 DEF Install, Go, Exists
<1>2. CASE Configure(p)
  BY <1>f, <1>g, <1>h, NamesDiffer, <1>2 DEF Configure, Go
<1>3. CASE Read(p)
  BY <1>f, <1>g, <1>h, NamesDiffer, <1>3 DEF Read, Go, Extensible, Config
<1>4. CASE AddRoom(p)
  BY <1>f, <1>g, <1>h, NamesDiffer, <1>4 DEF AddRoom, Go, Acceptable, Identifiers
<1>5. CASE NameBackup(p)
  BY <1>f, <1>g, <1>h, NamesDiffer, <1>5 DEF NameBackup, Go, Exists
<1>6. CASE MakeTemp(p)
  BY <1>f, <1>g, <1>h, NamesDiffer, <1>6 DEF MakeTemp, Go, Edit, Temp
<1>7. CASE Fill(p)
  BY <1>f, <1>g, <1>h, NamesDiffer, <1>7 DEF Fill, Go, Temp, Filled
<1>8. CASE LinkConfig(p)
  BY <1>f, <1>g, <1>h, NamesDiffer, <1>8 DEF LinkConfig, Go, Edit, Temp, MayLink, Exists,
       Raise
<1>9. CASE LinkBackup(p)
  BY <1>f, <1>g, <1>h, NamesDiffer, <1>9 DEF LinkBackup, Go, Edit, MayLink, Exists, Raise
<1>10. CASE Replace(p)
  BY <1>f, <1>g, <1>h, NamesDiffer, <1>10 DEF Replace, Go, Edit, Temp
<1>11. CASE SyncDirectory(p)
  BY <1>f, <1>g, <1>h, NamesDiffer, <1>11 DEF SyncDirectory, Go, Synced
<1>12. CASE CallFails(p)
  BY <1>f, <1>g, <1>h, NamesDiffer, <1>12 DEF CallFails, Go, Raise
<1>13. CASE Undo(p)
  BY <1>f, <1>g, <1>h, NamesDiffer, <1>13 DEF Undo, Go, Edit, TakesBack, Exists
<1>14. CASE Unlink(p)
  BY <1>f, <1>g, <1>h, NamesDiffer, <1>14 DEF Unlink, Go, Edit, Temp, Exists
<1>15. CASE Interrupt(p)
  BY <1>f, <1>g, <1>h, NamesDiffer, <1>15 DEF Interrupt, Go, Raise
<1>16. CASE Kill(p)
  BY <1>f, <1>g, <1>h, NamesDiffer, <1>16 DEF Kill, Go
<1> QED BY <1>1, <1>2, <1>3, <1>4, <1>5, <1>6, <1>7, <1>8, <1>9, <1>10, <1>11, <1>12,
    <1>13, <1>14, <1>15, <1>16 DEF Moves, RunNext

\* No run touches another's temporary name or the file it has, ...
LEMMA OthersTempStep ==
  ASSUME NEW p \in Run, Moves(p), TypeOK, StagesMean, TempsOwned, NEW q \in Run, q # p
  PROVE  TempOwned(q)'
<1>1. TempOwned(q) /\ TempOwned(p)
  BY DEF TempsOwned
<1>2. stage'[q] = stage[q] /\ my'[q] = my[q]
  BY OthersStay DEF TypeOK
<1>3. dir'[q] = dir[q]
  <2>1. q \in Name \ {p} /\ q # "config" /\ q \notin Backup
    BY NamesDiffer DEF Name
  <2>2. LinkBackup(p) \/ Undo(p) => my[p].backup \in Backup
    BY DEF LinkBackup, Undo, StagesMean, StageMeans, Making, Replacing
  <2> QED BY <2>1, <2>2, NameStep
<1>4. dir[q] \in 0..Len(files) /\ Len(files) \in Nat /\ dir \in mayBe
      /\ dir[p] \in 0..Len(files) /\ q \in Name /\ p \in Name
  BY DEF TypeOK, Name
<1>5. \A d \in mayBe' : d \in mayBe \/ d = dir'
  BY DirStep
<1>6. ASSUME stage[q] \in {"fill", "link", "replace"}
      PROVE  files'[dir[q]] = files[dir[q]]
  <2>1. dir[q] # 0
    BY <1>1, <1>6 DEF TempOwned
  <2>2. stage[p] = "fill" => dir[q] # dir[p]
    BY <1>1, <1>4 DEF TempOwned
  <2> QED BY <1>4, <2>1, <2>2, FilesStep
<1>7. ASSUME stage[q] = "fill", NEW n \in Name, dir'[n] = dir[q]
      PROVE  n = q
  <2>1. dir[q] # 0 /\ \A m \in Name : dir[m] = dir[q] => m = q
    BY <1>1, <1>4, <1>7 DEF TempOwned
  <2>2. dir["config"] # dir[q] /\ dir[p] # dir[q]
    BY <2>1, <1>4, NamesDiffer DEF Name
  <2>3. CASE n = p
    BY <1>4, <1>7, <2>1, <2>2, <2>3, OwnNameStep
  <2>4. CASE n # p /\ dir'[n] # dir[n]
    BY <1>7, <2>1, <2>2, <2>4, NameStep
  <2>5. CASE dir'[n] = dir[n]
    BY <1>7, <2>1, <2>5
  <2> QED BY <2>3, <2>4, <2>5
<1>8. stage'[q] \in {"fill", "link", "replace"} => dir'[q] # 0
  BY <1>1, <1>2, <1>3 DEF TempOwned
<1>9. stage'[q] \in {"link", "replace"} => files'[dir'[q]] = Filled(q)'
  BY <1>1, <1>2, <1>3, <1>6 DEF TempOwned, Filled
<1>10. stage'[q] \in Early => \A d \in mayBe' : d[q] = 0
  BY <1>1, <1>2, <1>3, <1>4, <1>5 DEF TempOwned
<1>11. stage'[q] = "fill" => \A d \in mayBe' : \A n \in Name : d[n] = dir'[q] => n = q
  BY <1>1, <1>2, <1>3, <1>5, <1>7 DEF TempOwned
<1> QED BY <1>8, <1>9, <1>10, <1>11 DEF TempOwned

\* ... and its own is where the code takes it to be.
LEMMA OwnTempStep ==
  ASSUME NEW p \in Run, Moves(p), TypeOK, StagesMean, TempsOwned
  PROVE  TempOwned(p)'
<1>f. /\ stage \in [Run -> Stage] /\ my \in [Run -> Local] /\ my[p] \in Local
      /\ dir \in mayBe /\ files \in Seq(File) /\ p \in Name /\ dir[p] \in 0..Len(files)
      /\ Len(files) \in Nat
  BY DEF TypeOK, Name
<1>m. TempOwned(p)
  BY DEF TempsOwned
<1>n. p # "config"
  BY NamesDiffer
<1> USE DEF TempOwned, Early
<1>1. CASE Install(p)
  BY <1>f, <1>m, <1>1 DEF Install, Go, Exists
<1>2. CASE Configure(p)
  BY <1>f, <1>m, <1>2 DEF Configure, Go
<1>3. CASE Read(p)
  BY <1>f, <1>m, <1>3 DEF Read, Go, Extensible, Config
<1>4. CASE AddRoom(p)
  BY <1>f, <1>m, <1>4 DEF AddRoom, Go, Acceptable, Identifiers
<1>5. CASE NameBackup(p)
  BY <1>f, <1>m, <1>5 DEF NameBackup, Go, Exists
<1>6. CASE MakeTemp(p)
  <2>1. /\ stage'[p] = "fill" /\ dir' = [dir EXCEPT ![p] = Len(files) + 1]
        /\ mayBe' = mayBe \cup {dir'}
    BY <1>6, <1>f DEF MakeTemp, Go, Edit, Temp
  <2>2. \A d \in mayBe : d \in [Name -> 0..Len(files)]
    BY DEF TypeOK
  <2>3. ASSUME NEW d \in mayBe', NEW n \in Name, d[n] = Len(files) + 1
        PROVE  n = p
    BY <1>f, <2>1, <2>2, <2>3
  <2>4. dir'[p] = Len(files) + 1
    BY <1>f, <2>1, <2>2
  <2> QED BY <1>f, <2>1, <2>3, <2>4
<1>7. CASE Fill(p)
  BY <1>f, <1>m, <1>7 DEF Fill, Go, Temp, Filled
<1>8. CASE LinkConfig(p)
  BY <1>f, <1>m, <1>8 DEF LinkConfig, Go, Edit, Temp, MayLink, Exists, Raise
<1>9. CASE LinkBackup(p)
  <2>1. stage[p] = "link" /\ p \in Adders /\ files' = files
    BY <1>9 DEF LinkBackup
  <2>2. my[p].backup \in Backup
    BY <2>1 DEF StagesMean, StageMeans, Making
  <2>3. dir'[p] = dir[p]
    BY <1>9, <2>2, OwnNameStep DEF LinkBackup, MakeTemp, Replace, Unlink
  <2>4. stage'[p] \in {"replace", "undo"} /\ my'[p].rooms = my[p].rooms
    BY <1>9, <1>f DEF LinkBackup, Go, Raise, Local
  <2> QED BY <1>m, <2>1, <2>3, <2>4 DEF Filled
<1>10. CASE Replace(p)
  BY <1>f, <1>m, <1>10 DEF Replace, Go, Edit, Temp
<1>11. CASE SyncDirectory(p)
  BY <1>f, <1>m, <1>11 DEF SyncDirectory, Go, Synced
<1>12. CASE CallFails(p)
  BY <1>f, <1>m, <1>12 DEF CallFails, Go, Raise
<1>13. CASE Undo(p)
  BY <1>f, <1>m, <1>13 DEF Undo, Go, Edit, TakesBack, Exists
<1>14. CASE Unlink(p)
  <2>1. my[p].raised \in {"nothing", "error", "interrupt"}
    BY <1>f DEF Local
  <2>2. stage'[p] \in {"done", "failed", "dead"}
    BY <1>14, <1>f, <2>1 DEF Unlink, Go
  <2> QED BY <2>2
<1>15. CASE Interrupt(p)
  BY <1>f, <1>m, <1>15 DEF Interrupt, Go, Raise
<1>16. CASE Kill(p)
  BY <1>f, <1>m, <1>16 DEF Kill, Go
<1> QED BY <1>1, <1>2, <1>3, <1>4, <1>5, <1>6, <1>7, <1>8, <1>9, <1>10, <1>11, <1>12,
    <1>13, <1>14, <1>15, <1>16 DEF Moves, RunNext

LEMMA TempsStep ==
  ASSUME NEW p \in Run, Moves(p), TypeOK, StagesMean, TempsOwned
  PROVE  TempsOwned'
BY OthersTempStep, OwnTempStep DEF TempsOwned

-----------------------------------------------------------------------------
(* Files and rooms                                                        *)

\* mkstemp makes an empty file.
LEMMA NewFilesPartial ==
  ASSUME NEW p \in Run, Moves(p), TypeOK
  PROVE  \A i \in 1..Len(files') : i \notin 1..Len(files) => files'[i].state = "partial"
<1>f. files \in Seq(File) /\ Len(files) \in Nat
  BY DEF TypeOK
<1>1. CASE Install(p)
  BY <1>f, <1>1 DEF Install, Go, Exists
<1>2. CASE Configure(p)
  BY <1>f, <1>2 DEF Configure, Go
<1>3. CASE Read(p)
  BY <1>f, <1>3 DEF Read, Go, Extensible, Config
<1>4. CASE AddRoom(p)
  BY <1>f, <1>4 DEF AddRoom, Go, Acceptable, Identifiers
<1>5. CASE NameBackup(p)
  BY <1>f, <1>5 DEF NameBackup, Go, Exists
<1>6. CASE MakeTemp(p)
  BY <1>f, <1>6 DEF MakeTemp, Go, Edit, Temp
<1>7. CASE Fill(p)
  BY <1>f, <1>7 DEF Fill, Go, Temp, Filled
<1>8. CASE LinkConfig(p)
  BY <1>f, <1>8 DEF LinkConfig, Go, Edit, Temp, MayLink, Exists, Raise
<1>9. CASE LinkBackup(p)
  BY <1>f, <1>9 DEF LinkBackup, Go, Edit, MayLink, Exists, Raise
<1>10. CASE Replace(p)
  BY <1>f, <1>10 DEF Replace, Go, Edit, Temp
<1>11. CASE SyncDirectory(p)
  BY <1>f, <1>11 DEF SyncDirectory, Go, Synced
<1>12. CASE CallFails(p)
  BY <1>f, <1>12 DEF CallFails, Go, Raise
<1>13. CASE Undo(p)
  BY <1>f, <1>13 DEF Undo, Go, Edit, TakesBack, Exists
<1>14. CASE Unlink(p)
  BY <1>f, <1>14 DEF Unlink, Go, Edit, Temp, Exists
<1>15. CASE Interrupt(p)
  BY <1>f, <1>15 DEF Interrupt, Go, Raise
<1>16. CASE Kill(p)
  BY <1>f, <1>16 DEF Kill, Go
<1> QED BY <1>1, <1>2, <1>3, <1>4, <1>5, <1>6, <1>7, <1>8, <1>9, <1>10, <1>11, <1>12,
    <1>13, <1>14, <1>15, <1>16 DEF Moves, RunNext

\* After json.dump, flush and fsync a file is complete.
LEMMA FilledSynced ==
  ASSUME NEW p \in Run
  PROVE  Filled(p).state = "synced" /\ Filled(p).rooms = my[p].rooms
BY DEF Filled

\* Only synced files get a name (fsync before os.link and os.replace).
LEMMA NamedStep ==
  ASSUME NEW p \in Run, Moves(p), TypeOK, StagesMean, TempsOwned, NamedAreSynced
  PROVE  NamedAreSynced'
<1>1. ASSUME NEW i \in 1..Len(files), files[i].state = "synced"
      PROVE  files'[i].state = "synced"
  BY <1>1, FilesStep, FilledSynced
<1>2. ASSUME NEW d \in mayBe, NEW n \in Name \ Run, d[n] # 0
      PROVE  files'[d[n]].state = "synced"
  <2>1. d[n] \in 1..Len(files)
    BY <1>2 DEF TypeOK
  <2> QED BY <1>1, <1>2, <2>1 DEF NamedAreSynced
<1>3. ASSUME NEW n \in Name \ Run, dir'[n] # 0
      PROVE  files'[dir'[n]].state = "synced"
  <2>t. dir \in mayBe /\ "config" \in Name \ Run /\ dir[p] \in 0..Len(files)
    BY NamesDiffer DEF TypeOK, Name
  <2>1. CASE dir'[n] = dir[n]
    BY <1>2, <1>3, <2>1, <2>t
  <2>2. CASE dir'[n] = dir["config"]
    BY <1>2, <1>3, <2>2, <2>t
  <2>3. CASE dir'[n] = dir[p] /\ stage[p] \in {"link", "replace"}
    <3>1. dir[p] \in 1..Len(files) /\ files[dir[p]].state = "synced"
      BY <2>3, <2>t, FilledSynced DEF TempsOwned, TempOwned
    <3> QED BY <1>1, <2>3, <3>1
  <2> QED BY <1>3, <2>1, <2>2, <2>3, NameStep DEF LinkConfig, Replace
<1> QED BY <1>2, <1>3, DirStep DEF NamedAreSynced

\* Files are filled with acceptable rooms.
LEMMA FilesAcceptableStep ==
  ASSUME NEW p \in Run, Moves(p), TypeOK, FilesAcceptable, RunsAcceptable
  PROVE  FilesAcceptable'
<1>1. ASSUME NEW i \in 1..Len(files'), files'[i].state = "synced"
      PROVE  AcceptableRooms(files'[i].rooms)
  <2>1. i \in 1..Len(files)
    BY <1>1, NewFilesPartial
  <2>2. CASE files'[i] = files[i]
    BY <1>1, <2>1, <2>2 DEF FilesAcceptable, TypeOK
  <2>3. CASE stage[p] = "fill" /\ files'[i] = Filled(p)
    BY <2>3, FilledSynced DEF RunsAcceptable, RunAcceptable
  <2> QED BY <2>1, <2>2, <2>3, FilesStep
<1>2. DOMAIN files' = 1..Len(files')
  BY FilesStep
<1> QED BY <1>1, <1>2 DEF FilesAcceptable, AcceptableRooms

\* One more room with a new id, below the limit, is acceptable; ...
LEMMA OneMoreRoom ==
  ASSUME NEW rooms, AcceptableRooms(rooms), Cardinality(rooms) < MaxRooms,
         NEW room, \A r \in rooms : r.id # room.id
  PROVE  /\ AcceptableRooms(rooms \cup {room})
         /\ Cardinality(rooms \cup {room}) = Cardinality(rooms) + 1
<1>1. room \notin rooms
  OBVIOUS
<1>2. /\ IsFiniteSet(rooms \cup {room})
      /\ Cardinality(rooms \cup {room}) = Cardinality(rooms) + 1
  BY <1>1, FS_AddElement DEF AcceptableRooms
<1>3. Cardinality(rooms) \in Nat /\ MaxRooms \in Nat
  BY FS_CardinalityType, RoomForOne DEF AcceptableRooms
<1> QED BY <1>2, <1>3 DEF AcceptableRooms

\* ... so is the first.
LEMMA FirstRoom ==
  ASSUME NEW room
  PROVE  AcceptableRooms({room})
<1>1. IsFiniteSet({room}) /\ Cardinality({room}) = 1
  BY FS_Singleton
<1> QED BY <1>1, RoomForOne DEF AcceptableRooms

\* A configuration that exists is complete and acceptable.
LEMMA ConfigAccepted ==
  ASSUME TypeOK, NamedAreSynced, FilesAcceptable, NEW d \in mayBe, d["config"] # 0
  PROVE  ConfigOf(d).state = "synced" /\ AcceptableRooms(ConfigOf(d).rooms)
<1>1. "config" \in Name \ Run
  BY NamesDiffer DEF Name
<1>2. d["config"] \in 1..Len(files)
  BY <1>1 DEF TypeOK
<1>3. files[d["config"]].state = "synced"
  BY <1>1 DEF NamedAreSynced
<1> QED BY <1>2, <1>3 DEF FilesAcceptable, ConfigOf, TypeOK

\* What a run puts together stays acceptable (add_rooms, unique_identifier).
LEMMA RunAcceptableStep ==
  ASSUME NEW p \in Run, Moves(p), TypeOK, StagesMean, NamedAreSynced, FilesAcceptable,
         RunAcceptable(p)
  PROVE  RunAcceptable(p)'
<1>f. /\ stage \in [Run -> Stage] /\ my \in [Run -> Local] /\ my[p] \in Local
      /\ dir \in mayBe
  BY DEF TypeOK
<1>m. RunAcceptable(p)
  OBVIOUS
<1> USE DEF RunAcceptable
<1>1. CASE Install(p)
  BY <1>f, <1>m, RunsDiffer, <1>1 DEF Install, Go, Exists
<1>2. CASE Configure(p)
  <2>1. stage'[p] = "mkstemp" /\ p \notin Adders
    BY <1>2, <1>f, RunsDiffer DEF Configure, Go
  <2>2. PICK i \in RoomID : my' = [my EXCEPT ![p].rooms = {[id |-> i, by |-> p]}]
    BY <1>2 DEF Configure
  <2>3. my'[p].rooms = {[id |-> i, by |-> p]}
    BY <1>f, <2>2 DEF Local
  <2> QED BY <2>1, <2>3, FirstRoom
<1>3. CASE Read(p)
  <2>1. CASE stage'[p] = "failed"
    BY <2>1
  <2>2. CASE Extensible /\ stage'[p] = "ask" /\ my'[p].rooms = Config.rooms
    <3>1. AcceptableRooms(Config.rooms)
      BY <1>f, <2>2, ConfigAccepted DEF Extensible, Exists, Config, ConfigOf
    <3>2. Cardinality(Config.rooms) < MaxRooms
      BY <2>2, RoomForOne DEF Extensible
    <3> QED BY <2>2, <3>1, <3>2
  <2> QED BY <1>3, <1>f, <2>1, <2>2 DEF Read, Go, Local
<1>4. CASE AddRoom(p)
  <2>1. stage[p] = "ask" /\ p \in Adders
    BY <1>4 DEF AddRoom
  <2>2. AcceptableRooms(my[p].rooms) /\ Cardinality(my[p].rooms) < MaxRooms
    BY <1>m, <2>1
  <2>3. PICK i \in Acceptable(p) :
          /\ my'[p].rooms = my[p].rooms \cup {[id |-> i, by |-> p]}
          /\ stage'[p] = "backup" \/ (stage'[p] = "ask" /\ Cardinality(my[p].rooms) + 1 < MaxRooms)
    BY <1>4, <1>f DEF AddRoom, Go, Local
  <2>4. \A r \in my[p].rooms : r.id # i
    BY <2>3 DEF Acceptable, Identifiers
  <2>5. \A r \in my[p].rooms : r.id # [id |-> i, by |-> p].id
    BY <2>4
  <2>6. /\ AcceptableRooms(my[p].rooms \cup {[id |-> i, by |-> p]})
        /\ Cardinality(my[p].rooms \cup {[id |-> i, by |-> p]}) = Cardinality(my[p].rooms) + 1
    BY <2>2, <2>5, OneMoreRoom
  <2> QED BY <2>3, <2>6
<1>5. CASE NameBackup(p)
  BY <1>f, <1>m, RunsDiffer, <1>5 DEF NameBackup, Go, Exists, Local
<1>6. CASE MakeTemp(p)
  BY <1>f, <1>m, RunsDiffer, <1>6 DEF MakeTemp, Go, Edit, Temp
<1>7. CASE Fill(p)
  BY <1>f, <1>m, RunsDiffer, <1>7 DEF Fill, Go, Temp, Filled
<1>8. CASE LinkConfig(p)
  BY <1>f, <1>m, RunsDiffer, <1>8 DEF LinkConfig, Go, Edit, Temp, MayLink, Exists, Raise
<1>9. CASE LinkBackup(p)
  BY <1>f, <1>m, RunsDiffer, <1>9 DEF LinkBackup, Go, Edit, MayLink, Exists, Raise, Local
<1>10. CASE Replace(p)
  BY <1>f, <1>m, RunsDiffer, <1>10 DEF Replace, Go, Edit, Temp
<1>11. CASE SyncDirectory(p)
  BY <1>f, <1>m, RunsDiffer, <1>11 DEF SyncDirectory, Go, Synced
<1>12. CASE CallFails(p)
  BY <1>f, <1>m, RunsDiffer, <1>12 DEF CallFails, Go, Raise
<1>13. CASE Undo(p)
  BY <1>f, <1>m, RunsDiffer, <1>13 DEF Undo, Go, Edit, TakesBack, Exists
<1>14. CASE Unlink(p)
  <2>1. my[p].raised \in {"nothing", "error", "interrupt"}
    BY <1>f DEF Local
  <2>2. stage'[p] \in {"done", "failed", "dead"}
    BY <1>14, <1>f, <2>1 DEF Unlink, Go
  <2> QED BY <2>2
<1>15. CASE Interrupt(p)
  BY <1>f, <1>m, RunsDiffer, <1>15 DEF Interrupt, Go, Raise
<1>16. CASE Kill(p)
  BY <1>f, <1>m, RunsDiffer, <1>16 DEF Kill, Go
<1> QED BY <1>1, <1>2, <1>3, <1>4, <1>5, <1>6, <1>7, <1>8, <1>9, <1>10, <1>11, <1>12,
    <1>13, <1>14, <1>15, <1>16 DEF Moves, RunNext

LEMMA RunsAcceptableStep ==
  ASSUME NEW p \in Run, Moves(p), TypeOK, StagesMean, NamedAreSynced, FilesAcceptable,
         RunsAcceptable
  PROVE  RunsAcceptable'
<1>1. ASSUME NEW q \in Run
      PROVE  RunAcceptable(q)'
  <2>1. CASE q = p
    BY <2>1, RunAcceptableStep DEF RunsAcceptable
  <2>2. CASE q # p
    <3>1. stage'[q] = stage[q] /\ my'[q] = my[q]
      BY <2>2, OthersStay DEF TypeOK
    <3> QED BY <3>1 DEF RunsAcceptable, RunAcceptable
  <2> QED BY <2>1, <2>2
<1> QED BY <1>1 DEF RunsAcceptable

-----------------------------------------------------------------------------
(* Types, config.json and backups                                         *)

\* The type invariant is kept.
LEMMA TypeStep ==
  ASSUME NEW p \in Run, Moves(p), TypeOK, StagesMean, TempsOwned
  PROVE  TypeOK'
<1>1. files' \in Seq(File) /\ dir' \in mayBe'
  BY FilesStep, DirStep
<1>2. mayBe' \subseteq [Name -> 0..Len(files')]
  <2>1. SUFFICES ASSUME NEW d \in mayBe, d \notin {dir'}
                 PROVE  d \in [Name -> 0..Len(files')]
    BY DirStep
  <2>2. d \in [Name -> 0..Len(files)] /\ Len(files) \in Nat
    BY DEF TypeOK
  <2>3. 0..Len(files) \subseteq 0..Len(files')
    BY <2>2, FilesStep
  <2> QED BY <2>2, <2>3
<1>3. stage' \in [Run -> Stage]
  BY StagesTyped DEF TypeOK
<1>4. my' \in [Run -> Local]
  BY LocalsTyped DEF TypeOK
<1>5. TempsOwned'
  BY TempsStep
<1> QED BY <1>1, <1>2, <1>3, <1>4, <1>5 DEF TypeOK, TempsOwned, TempOwned, Exists, Temp

\* No step of a run takes config.json away.
LEMMA ConfigStays ==
  ASSUME NEW p \in Run, Moves(p), TypeOK, StagesMean, TempsOwned, dir["config"] # 0
  PROVE  dir'["config"] # 0
<1>1. "config" \in Name \ {p} /\ "config" \notin Backup
  BY NamesDiffer DEF Name
<1>2. Replace(p) => dir[p] # 0
  BY DEF Replace, TempsOwned, TempOwned
<1>3. Undo(p) => my[p].backup \in Backup
  BY DEF Undo, StagesMean, StageMeans, Replacing
<1> QED BY <1>1, <1>2, <1>3, NameStep

\* An adder is where it needs config.json only after it found it.
LEMMA OwnConfigThere ==
  ASSUME NEW p \in Adders, Moves(p), TypeOK, StagesMean
  PROVE  stage'[p] \in {"ask", "backup"} \cup Making \cup Replacing =>
           stage[p] \in {"ask", "backup"} \cup Making \cup Replacing \/ dir["config"] # 0
<1>f. stage \in [Run -> Stage] /\ p \in Run
  BY DEF TypeOK, Run
<1> USE DEF Making, Replacing
<1>1. CASE Install(p)
  BY <1>f, RunsDiffer, <1>1 DEF Install, Go, Exists
<1>2. CASE Configure(p)
  BY <1>f, RunsDiffer, <1>2 DEF Configure, Go
<1>3. CASE Read(p)
  BY <1>f, RunsDiffer, <1>3 DEF Read, Go, Extensible, Config, Exists
<1>4. CASE AddRoom(p)
  <2>1. stage[p] = "ask"
    BY <1>4 DEF AddRoom
  <2> QED BY <2>1
<1>5. CASE NameBackup(p)
  BY <1>f, RunsDiffer, <1>5 DEF NameBackup, Go, Exists
<1>6. CASE MakeTemp(p)
  BY <1>f, RunsDiffer, <1>6 DEF MakeTemp, Go, Edit, Temp
<1>7. CASE Fill(p)
  BY <1>f, RunsDiffer, <1>7 DEF Fill, Go, Temp, Filled
<1>8. CASE LinkConfig(p)
  BY <1>f, RunsDiffer, <1>8 DEF LinkConfig, Go, Edit, Temp, MayLink, Exists, Raise
<1>9. CASE LinkBackup(p)
  BY <1>f, RunsDiffer, <1>9 DEF LinkBackup, Go, Edit, MayLink, Exists, Raise
<1>10. CASE Replace(p)
  BY <1>f, RunsDiffer, <1>10 DEF Replace, Go, Edit, Temp
<1>11. CASE SyncDirectory(p)
  BY <1>f, RunsDiffer, <1>11 DEF SyncDirectory, Go, Synced
<1>12. CASE CallFails(p)
  BY <1>f, RunsDiffer, <1>12 DEF CallFails, Go, Raise
<1>13. CASE Undo(p)
  BY <1>f, RunsDiffer, <1>13 DEF Undo, Go, Edit, TakesBack, Exists
<1>14. CASE Unlink(p)
  <2>1. my[p].raised \in {"nothing", "error", "interrupt"}
    BY <1>f DEF TypeOK, Local
  <2>2. stage'[p] \in {"done", "failed", "dead"}
    BY <1>14, <1>f, <2>1 DEF Unlink, Go
  <2> QED BY <2>2
<1>15. CASE Interrupt(p)
  BY <1>f, RunsDiffer, <1>15 DEF Interrupt, Go, Raise
<1>16. CASE Kill(p)
  BY <1>f, RunsDiffer, <1>16 DEF Kill, Go
<1> QED BY <1>1, <1>2, <1>3, <1>4, <1>5, <1>6, <1>7, <1>8, <1>9, <1>10, <1>11, <1>12,
    <1>13, <1>14, <1>15, <1>16 DEF Moves, RunNext

LEMMA ConfigThereStep ==
  ASSUME NEW p \in Run, Moves(p), TypeOK, StagesMean, TempsOwned, ConfigThere
  PROVE  ConfigThere'
<1>1. ASSUME NEW q \in Adders, stage'[q] \in {"ask", "backup"} \cup Making \cup Replacing
      PROVE  dir["config"] # 0
  <2>1. CASE q = p
    BY <1>1, <2>1, OwnConfigThere DEF ConfigThere
  <2>2. CASE q # p
    BY <1>1, <2>2, OthersStay DEF ConfigThere, TypeOK, Run
  <2> QED BY <2>1, <2>2
<1> QED BY <1>1, ConfigStays DEF ConfigThere

\* A run does not forget that it made a backup, ...
LEMMA LinksLast ==
  ASSUME NEW p \in Run, Moves(p), TypeOK, StagesMean, NEW b, Linked(p, b)
  PROVE  Linked(p, b)'
<1>f. my \in [Run -> Local] /\ my[p] \in Local
  BY DEF TypeOK
<1>m. stage[p] \notin Early \cup Making /\ my[p].backup = b /\ my[p].linked
  BY DEF StagesMean, StageMeans, Linked
<1> USE DEF Linked, Early, Making, Local
<1>1. CASE Install(p)
  BY <1>f, <1>m, <1>1 DEF Install, Go, Exists
<1>2. CASE Configure(p)
  BY <1>f, <1>m, <1>2 DEF Configure, Go
<1>3. CASE Read(p)
  BY <1>f, <1>m, <1>3 DEF Read, Go, Extensible, Config
<1>4. CASE AddRoom(p)
  BY <1>f, <1>m, <1>4 DEF AddRoom, Go, Acceptable, Identifiers
<1>5. CASE NameBackup(p)
  BY <1>f, <1>m, <1>5 DEF NameBackup, Go, Exists
<1>6. CASE MakeTemp(p)
  BY <1>f, <1>m, <1>6 DEF MakeTemp, Go, Edit, Temp
<1>7. CASE Fill(p)
  BY <1>f, <1>m, <1>7 DEF Fill, Go, Temp, Filled
<1>8. CASE LinkConfig(p)
  BY <1>f, <1>m, <1>8 DEF LinkConfig, Go, Edit, Temp, MayLink, Exists, Raise
<1>9. CASE LinkBackup(p)
  BY <1>f, <1>m, <1>9 DEF LinkBackup, Go, Edit, MayLink, Exists, Raise
<1>10. CASE Replace(p)
  BY <1>f, <1>m, <1>10 DEF Replace, Go, Edit, Temp
<1>11. CASE SyncDirectory(p)
  BY <1>f, <1>m, <1>11 DEF SyncDirectory, Go, Synced
<1>12. CASE CallFails(p)
  BY <1>f, <1>m, <1>12 DEF CallFails, Go, Raise
<1>13. CASE Undo(p)
  BY <1>f, <1>m, <1>13 DEF Undo, Go, Edit, TakesBack, Exists
<1>14. CASE Unlink(p)
  BY <1>f, <1>m, <1>14 DEF Unlink, Go, Edit, Temp, Exists
<1>15. CASE Interrupt(p)
  BY <1>f, <1>m, <1>15 DEF Interrupt, Go, Raise
<1>16. CASE Kill(p)
  BY <1>f, <1>m, <1>16 DEF Kill, Go
<1> QED BY <1>1, <1>2, <1>3, <1>4, <1>5, <1>6, <1>7, <1>8, <1>9, <1>10, <1>11, <1>12,
    <1>13, <1>14, <1>15, <1>16 DEF Moves, RunNext

\* ... whoever moves.
LEMMA AllLinksLast ==
  ASSUME NEW p \in Run, Moves(p), TypeOK, StagesMean, NEW q \in Run, NEW b, Linked(q, b)
  PROVE  Linked(q, b)'
<1>1. CASE q = p
  BY <1>1, LinksLast
<1>2. CASE q # p
  BY <1>2, OthersStay DEF TypeOK, Linked
<1> QED BY <1>1, <1>2

\* A backup's name changes by the run that chose it.
LEMMA BackupName ==
  ASSUME NEW p \in Run, Moves(p), TypeOK, NEW b \in Backup, dir'[b] # dir[b]
  PROVE  /\ b = my[p].backup
         /\ \/ LinkBackup(p) /\ dir[b] = 0 /\ dir'[b] = dir["config"] /\ Linked(p, b)'
            \/ Undo(p) /\ TakesBack(p) /\ dir'[b] = 0
<1>1. b \in Name \ {p} /\ b # "config"
  BY NamesDiffer DEF Name
<1>2. my'[p].linked /\ LinkBackup(p) => my'[p].backup = my[p].backup
  BY DEF LinkBackup, Raise, TypeOK, Local
<1> QED BY <1>1, <1>2, NameStep DEF Linked

\* So every backup has a maker.
LEMMA BackupsLinkedStep ==
  ASSUME NEW p \in Run, Moves(p), TypeOK, StagesMean, BackupsLinked
  PROVE  BackupsLinked'
<1>1. ASSUME NEW d \in mayBe', NEW b \in Backup, d[b] # 0
      PROVE  \E q \in Adders : Linked(q, b)'
  <2>1. CASE d \in mayBe \/ dir'[b] = dir[b]
    <3>1. PICK q \in Adders : Linked(q, b)
      BY <1>1, <2>1, DirStep DEF BackupsLinked, TypeOK
    <3> QED BY <3>1, AllLinksLast DEF Run
  <2>2. CASE d = dir' /\ dir'[b] # dir[b]
    <3>1. LinkBackup(p) /\ Linked(p, b)'
      BY <1>1, <2>2, BackupName
    <3> QED BY <3>1 DEF LinkBackup
  <2> QED BY <1>1, <2>1, <2>2, DirStep
<1> QED BY <1>1 DEF BackupsLinked

\* Only through the except clause does a failing adder come to its finally.
LEMMA UndoneOwn ==
  ASSUME NEW p \in Adders, Moves(p), TypeOK, StagesMean
  PROVE  stage'[p] = "unlink" /\ my'[p].raised = "error" => Undo(p)
<1>f. p \in Run /\ stage \in [Run -> Stage] /\ my \in [Run -> Local] /\ my[p] \in Local
  BY DEF TypeOK, Run
<1>r. stage[p] = "sync" => my[p].raised # "error"
  BY <1>f DEF StagesMean, StageMeans
<1>1. CASE Install(p)
  BY <1>f, RunsDiffer, <1>r, <1>1 DEF Install, Go, Exists
<1>2. CASE Configure(p)
  BY <1>f, RunsDiffer, <1>r, <1>2 DEF Configure, Go
<1>3. CASE Read(p)
  BY <1>f, RunsDiffer, <1>r, <1>3 DEF Read, Go, Extensible, Config
<1>4. CASE AddRoom(p)
  BY <1>f, RunsDiffer, <1>r, <1>4 DEF AddRoom, Go, Acceptable, Identifiers
<1>5. CASE NameBackup(p)
  BY <1>f, RunsDiffer, <1>r, <1>5 DEF NameBackup, Go, Exists
<1>6. CASE MakeTemp(p)
  BY <1>f, RunsDiffer, <1>r, <1>6 DEF MakeTemp, Go, Edit, Temp
<1>7. CASE Fill(p)
  BY <1>f, RunsDiffer, <1>r, <1>7 DEF Fill, Go, Temp, Filled
<1>8. CASE LinkConfig(p)
  BY <1>f, RunsDiffer, <1>r, <1>8 DEF LinkConfig, Go, Edit, Temp, MayLink, Exists, Raise
<1>9. CASE LinkBackup(p)
  BY <1>f, RunsDiffer, <1>r, <1>9 DEF LinkBackup, Go, Edit, MayLink, Exists, Raise
<1>10. CASE Replace(p)
  BY <1>f, RunsDiffer, <1>r, <1>10 DEF Replace, Go, Edit, Temp
<1>11. CASE SyncDirectory(p)
  BY <1>f, RunsDiffer, <1>r, <1>11 DEF SyncDirectory, Go, Synced
<1>12. CASE CallFails(p)
  BY <1>f, RunsDiffer, <1>r, <1>12 DEF CallFails, Go, Raise
<1>13. CASE Undo(p)
  BY <1>f, RunsDiffer, <1>r, <1>13 DEF Undo, Go, Edit, Exists
<1>14. CASE Unlink(p)
  <2>1. my[p].raised \in {"nothing", "error", "interrupt"}
    BY <1>f DEF Local
  <2>2. stage'[p] \in {"done", "failed", "dead"}
    BY <1>14, <1>f, <2>1 DEF Unlink, Go
  <2> QED BY <2>2
<1>15. CASE Interrupt(p)
  <2>1. stage'[p] = "unlink" => my'[p].raised = "interrupt"
    BY <1>15, <1>f DEF Interrupt, Go, Raise, Local
  <2> QED BY <2>1
<1>16. CASE Kill(p)
  BY <1>f, RunsDiffer, <1>r, <1>16 DEF Kill, Go
<1> QED BY <1>1, <1>2, <1>3, <1>4, <1>5, <1>6, <1>7, <1>8, <1>9, <1>10, <1>11, <1>12,
    <1>13, <1>14, <1>15, <1>16 DEF Moves, RunNext

\* Where the except clause left the backup alone it was not p's, and nobody
\* else makes a file of that name who does not remember it.
LEMMA UndoneGoneStep ==
  ASSUME NEW p \in Run, Moves(p), TypeOK, StagesMean, ConfigThere, BackupsLinked, UndoneGone
  PROVE  UndoneGone'
<1>1. ASSUME NEW q \in Adders, stage'[q] = "unlink", my'[q].raised = "error",
             ~my'[q].replaced, NEW b \in Backup, my'[q].backup = b, dir'[b] # 0
      PROVE  \E r \in Adders \ {q} : Linked(r, b)'
  <2>b. \A r \in Adders : r \in Run
    BY DEF Run
  <2>1. CASE q = p
    <3>1. Undo(p) /\ my' = my /\ stage[p] = "undo"
      BY <1>1, <2>1, UndoneOwn DEF Undo
    <3>2. ~TakesBack(p)
      BY <1>1, <2>1, <2>b, <3>1 DEF Undo, Edit, TypeOK, Name
    <3>3. dir["config"] # 0
      BY <2>1, <3>1 DEF ConfigThere, Replacing
    <3>4. ~my[p].linked
      BY <1>1, <2>1, <3>1, <3>2, <3>3 DEF TakesBack, Exists
    <3>5. dir[b] # 0 /\ dir \in mayBe
      BY <1>1, <3>1, <3>2 DEF Undo, TypeOK
    <3>6. PICK r \in Adders : Linked(r, b)
      BY <3>5 DEF BackupsLinked
    <3>7. r # q
      BY <2>1, <3>4, <3>6 DEF Linked
    <3> QED BY <2>b, <3>6, <3>7, AllLinksLast
  <2>2. CASE q # p
    <3>1. stage'[q] = stage[q] /\ my'[q] = my[q]
      BY <2>2, <2>b, OthersStay DEF TypeOK
    <3>2. CASE dir'[b] = dir[b]
      <4>1. PICK r \in Adders \ {q} : Linked(r, b)
        BY <1>1, <3>1, <3>2 DEF UndoneGone, UndoneOf
      <4> QED BY <2>b, <4>1, AllLinksLast
    <3>3. CASE dir'[b] # dir[b]
      <4>1. LinkBackup(p) /\ Linked(p, b)'
        BY <1>1, <3>3, BackupName
      <4> QED BY <2>2, <4>1 DEF LinkBackup
    <3> QED BY <3>2, <3>3
  <2> QED BY <2>1, <2>2
<1> QED BY <1>1 DEF UndoneGone, UndoneOf, Linked

LEMMA MoveStep ==
  ASSUME NEW p \in Run, Moves(p), FInv
  PROVE  FInv'
BY TypeStep, StagesMeanStep, TempsStep, NamedStep, FilesAcceptableStep, RunsAcceptableStep,
   ConfigThereStep, BackupsLinkedStep, UndoneGoneStep DEF FInv

-----------------------------------------------------------------------------
(* Power losses, and the first theorems                                   *)

\* What a power loss leaves is one of the directories the invariant speaks of,
\* and all that has a name but the temporary ones was synced.
LEMMA PowerLossStep ==
  ASSUME FInv, PowerLoss
  PROVE  FInv'
<1> USE DEF FInv
<1>1. /\ dir' \in mayBe /\ mayBe' = {dir'} /\ my' = my
      /\ DOMAIN files' = DOMAIN files
      /\ \A i \in DOMAIN files :
           files'[i] = IF files[i].state = "synced" THEN files[i]
                       ELSE [rooms |-> {}, state |-> "partial"]
      /\ \A p \in Run : stage'[p] = IF stage[p] \in {"idle", "done", "failed"}
                                    THEN stage[p] ELSE "dead"
  BY DEF PowerLoss
<1>2. /\ files \in Seq(File) /\ Len(files) \in Nat /\ stage \in [Run -> Stage]
  BY DEF TypeOK
<1>3. files' \in Seq(File) /\ Len(files') = Len(files)
  <2>1. [rooms |-> {}, state |-> "partial"] \in File
    BY DEF File
  <2>2. DOMAIN files = 1..Len(files) /\ \A i \in 1..Len(files) : files[i] \in File
    BY <1>2
  <2>3. files' \in [1..Len(files) -> File]
    BY <2>1, <2>2 DEF PowerLoss
  <2> QED BY <1>2, <2>3
<1>4. TypeOK'
  <2>1. stage' \in [Run -> Stage]
    BY <1>2 DEF PowerLoss, Stage
  <2> QED BY <1>1, <1>3, <2>1 DEF TypeOK
<1>5. StagesMean'
  BY <1>1 DEF StagesMean, StageMeans, Early, Making, Replacing
<1>6. TempsOwned'
  BY <1>1 DEF TempsOwned, TempOwned, Early
<1>7. NamedAreSynced'
  <2>1. ASSUME NEW n \in Name \ Run, dir'[n] # 0
        PROVE  files'[dir'[n]].state = "synced"
    <3>1. files[dir'[n]].state = "synced" /\ dir'[n] \in 1..Len(files)
      BY <1>1, <1>2, <2>1 DEF NamedAreSynced, TypeOK
    <3> QED BY <1>1, <1>2, <3>1
  <2> QED BY <1>1, <2>1 DEF NamedAreSynced
<1>8. FilesAcceptable'
  <2>1. ASSUME NEW i \in DOMAIN files, files'[i].state = "synced"
        PROVE  files[i].state = "synced" /\ files'[i] = files[i]
    BY <1>1, <2>1
  <2> QED BY <1>1, <2>1 DEF FilesAcceptable, AcceptableRooms
<1>9. RunsAcceptable'
  BY <1>1 DEF RunsAcceptable, RunAcceptable
<1>10. ConfigThere'
  BY <1>1 DEF ConfigThere, Making, Replacing, Run
<1>11. BackupsLinked'
  BY <1>1 DEF BackupsLinked, Linked
<1>12. UndoneGone'
  BY <1>1 DEF UndoneGone, UndoneOf, Run
<1> QED BY <1>4, <1>5, <1>6, <1>7, <1>8, <1>9, <1>10, <1>11, <1>12

LEMMA FilesInit ==
  ASSUME Init
  PROVE  FInv
<1>1. NoLocal \in Local
  BY DEF NoLocal, Local
<1>2. TypeOK
  BY <1>1 DEF Init, TypeOK, Stage
<1> QED BY <1>2 DEF FInv, Init, StagesMean, StageMeans, TempsOwned, TempOwned, Early,
    Making,
   Replacing, NamedAreSynced, FilesAcceptable, RunsAcceptable, RunAcceptable, ConfigThere,
   BackupsLinked, UndoneGone, UndoneOf, NoLocal, Run, Name

LEMMA FilesStepAll ==
  ASSUME FInv, [Next]_vars
  PROVE  FInv'
<1>1. CASE UNCHANGED vars
  BY <1>1 DEF vars, FInv, TypeOK, StagesMean, StageMeans, TempsOwned, TempOwned,
    NamedAreSynced, FilesAcceptable, RunsAcceptable, RunAcceptable, ConfigThere,
    BackupsLinked, UndoneGone, UndoneOf, Linked, Filled, Exists, AcceptableRooms
<1>2. CASE PowerLoss
  BY <1>2, PowerLossStep
<1>3. CASE \E p \in Run : Moves(p)
  BY <1>3, MoveStep
<1> QED BY <1>1, <1>2, <1>3 DEF Next, Moves

\* The invariant holds, for any number of runs.
LEMMA FilesInvariant == Spec => []FInv
BY FilesInit, FilesStepAll, PTL DEF Spec

\* Names always point at files, the directory is among those a power loss may
\* leave, locals are typed, and a run that fills or renames its temporary file
\* finds it: for any number of runs of install.sh and of --add-room
\* (write_atomic, replace_with_backup and add_rooms in scripts/configure.py).
THEOREM ConfigTypeCorrect == Spec => []TypeOK
<1>1. FInv => TypeOK
  BY DEF FInv
<1> QED BY <1>1, FilesInvariant, PTL

\* At any time, also after a power loss at any point, config.json is absent or
\* complete, has one to MaxRooms rooms and no id twice: what the server is
\* started with is always accepted (write_atomic and replace_with_backup sync
\* before they rename; add_rooms reads what is accepted and adds acceptable
\* rooms up to the limit).
THEOREM ConfigAlwaysUsable == Spec => []ConfigUsable
<1>1. FInv => ConfigUsable
  <2> SUFFICES ASSUME FInv, NEW d \in mayBe, d["config"] # 0
               PROVE  ConfigOf(d).state = "synced" /\ AcceptableRooms(ConfigOf(d).rooms)
    BY DEF ConfigUsable, ConfigWhole, ConfigAcceptable, AcceptableRooms
  <2> QED BY ConfigAccepted DEF FInv
<1> QED BY <1>1, FilesInvariant, PTL

-----------------------------------------------------------------------------
(* Failures and installs                                                  *)

\* The ways to fail.
LEMMA ToFailed ==
  ASSUME NEW p \in Run, Moves(p), TypeOK, stage[p] # "failed", stage'[p] = "failed"
  PROVE  \/ Read(p) /\ dir' = dir
         \/ NameBackup(p) /\ dir' = dir
         \/ CallFails(p) /\ stage[p] \in {"backup", "mkstemp"} /\ dir' = dir
         \/ Unlink(p) /\ my[p].raised = "error"
<1>f. stage \in [Run -> Stage] /\ my \in [Run -> Local] /\ my[p] \in Local
      /\ my[p].raised \in {"nothing", "error", "interrupt"}
  BY DEF TypeOK, Local
<1>1. CASE Install(p)
  BY <1>f, <1>1 DEF Install, Go, Exists
<1>2. CASE Configure(p)
  BY <1>f, <1>2 DEF Configure, Go
<1>3. CASE Read(p)
  BY <1>f, <1>3 DEF Read, Go, Extensible, Config
<1>4. CASE AddRoom(p)
  BY <1>f, <1>4 DEF AddRoom, Go, Acceptable, Identifiers
<1>5. CASE NameBackup(p)
  BY <1>f, <1>5 DEF NameBackup, Go, Exists
<1>6. CASE MakeTemp(p)
  BY <1>f, <1>6 DEF MakeTemp, Go, Edit, Temp
<1>7. CASE Fill(p)
  BY <1>f, <1>7 DEF Fill, Go, Temp, Filled
<1>8. CASE LinkConfig(p)
  BY <1>f, <1>8 DEF LinkConfig, Go, Edit, Temp, MayLink, Exists, Raise
<1>9. CASE LinkBackup(p)
  BY <1>f, <1>9 DEF LinkBackup, Go, Edit, MayLink, Exists, Raise
<1>10. CASE Replace(p)
  BY <1>f, <1>10 DEF Replace, Go, Edit, Temp
<1>11. CASE SyncDirectory(p)
  BY <1>f, <1>11 DEF SyncDirectory, Go, Synced
<1>12. CASE CallFails(p)
  BY <1>f, <1>12 DEF CallFails, Go, Raise
<1>13. CASE Undo(p)
  BY <1>f, <1>13 DEF Undo, Go, Edit, Exists
<1>14. CASE Unlink(p)
  BY <1>f, <1>14 DEF Unlink, Go
<1>15. CASE Interrupt(p)
  BY <1>f, <1>15 DEF Interrupt, Go, Raise
<1>16. CASE Kill(p)
  BY <1>f, <1>16 DEF Kill, Go
<1> QED BY <1>1, <1>2, <1>3, <1>4, <1>5, <1>6, <1>7, <1>8, <1>9, <1>10, <1>11, <1>12,
    <1>13, <1>14, <1>15, <1>16 DEF Moves, RunNext

\* Who fails has removed its temporary name and taken its backup back.
LEMMA FailureStep ==
  ASSUME NEW p \in Run, Moves(p), FInv, stage[p] # "failed", stage'[p] = "failed",
         NEW b, b = my[p].backup
  PROVE  /\ dir'[p] = 0
         /\ b # None /\ ~my[p].replaced /\ dir'[b] # 0 =>
              \E q \in Adders \ {p} : Linked(q, b)
<1>1. TypeOK /\ StagesMean /\ TempsOwned /\ BackupsLinked /\ UndoneGone
  BY DEF FInv
<1>2. dir \in mayBe /\ stage \in [Run -> Stage] /\ p \in Name
  BY <1>1 DEF TypeOK, Name
<1>3. CASE stage[p] \in Early /\ dir' = dir
  <2>1. dir'[p] = 0
    BY <1>1, <1>2, <1>3 DEF TempsOwned, TempOwned
  <2>2. b # None => b \in Backup
    BY <1>1 DEF TypeOK, Local
  <2>3. ~my[p].linked
    BY <1>1, <1>3 DEF StagesMean, StageMeans
  <2> QED BY <1>1, <1>2, <1>3, <2>1, <2>2, <2>3 DEF BackupsLinked, Linked
<1>4. CASE Unlink(p) /\ my[p].raised = "error"
  <2>1. /\ stage[p] = "unlink" /\ dir'[p] = 0 /\ \A n \in Name : n # p => dir'[n] = dir[n]
    BY <1>1, <1>2, <1>4 DEF Unlink, Edit, Temp, Exists, TypeOK
  <2>2. b # None => p \in Adders /\ b \in Backup /\ b # p /\ b \in Name
    BY <1>1, NamesDiffer DEF TypeOK, Local, StagesMean, StageMeans, Run, Name
  <2> QED BY <1>1, <1>4, <2>1, <2>2 DEF UndoneGone, UndoneOf
<1> QED BY <1>1, <1>3, <1>4, ToFailed DEF Read, NameBackup, Early

\* A run that fails before it replaced anything leaves neither its temporary
\* file nor a backup behind, at whichever call it failed (the except and
\* finally clauses of write_atomic and replace_with_backup).
THEOREM FailuresLeaveNothing == Spec => FailureLeavesNothing
<1>1. FInv /\ [Next]_vars =>
        [\A p \in Run :
           LET b == my[p].backup IN
           stage[p] # "failed" /\ stage'[p] = "failed" =>
             /\ dir'[Temp(p)] = 0
             /\ b # None /\ ~my[p].replaced /\ dir'[b] # 0 =>
                  \E q \in Adders \ {p} : my[q].backup = b /\ my[q].linked]_vars
  <2> SUFFICES ASSUME FInv, Next, NEW p \in Run, stage[p] # "failed", stage'[p] = "failed"
               PROVE  LET b == my[p].backup IN
                        /\ dir'[Temp(p)] = 0
                        /\ b # None /\ ~my[p].replaced /\ dir'[b] # 0 =>
                             \E q \in Adders \ {p} : my[q].backup = b /\ my[q].linked
    OBVIOUS
  <2>1. ~PowerLoss
    BY DEF PowerLoss
  <2>2. PICK q \in Run : Moves(q)
    BY <2>1 DEF Next, Moves
  <2>3. q = p
    BY <2>2, OthersStay DEF FInv, TypeOK
  <2> QED BY <2>2, <2>3, FailureStep DEF Temp, Linked
<1> QED BY <1>1, FilesInvariant, PTL DEF Spec, FailureLeavesNothing

\* The install and update path never overwrites an existing config.json, not
\* even one that another run makes after install.sh looked (write_atomic:
\* os.link, not os.rename): only --add-room changes it, or a power loss takes
\* it back.
THEOREM InstallsNeverOverwrite == Spec => InstallNeverOverwrites
<1>1. FInv /\ [Next]_vars =>
        [Exists("config") /\ dir'["config"] # dir["config"] =>
           dir' \in mayBe \/ \E p \in Adders : stage[p] = "replace"]_vars
  <2> SUFFICES ASSUME FInv, Next, dir["config"] # 0, dir'["config"] # dir["config"],
                      dir' \notin mayBe
               PROVE  \E p \in Adders : stage[p] = "replace"
    BY DEF Exists
  <2>1. ~PowerLoss
    BY DEF PowerLoss
  <2>2. PICK p \in Run : Moves(p)
    BY <2>1 DEF Next, Moves
  <2>3. "config" \in Name \ {p} /\ "config" \notin Backup
    BY NamesDiffer DEF Name
  <2>4. LinkBackup(p) \/ Undo(p) => my[p].backup \in Backup
    BY DEF LinkBackup, Undo, FInv, StagesMean, StageMeans, Making, Replacing
  <2>5. Replace(p)
    BY <2>2, <2>3, <2>4, NameStep DEF FInv
  <2> QED BY <2>5 DEF Replace, FInv, StagesMean, StageMeans, Replacing
<1> QED BY <1>1, FilesInvariant, PTL DEF Spec, InstallNeverOverwrites

-----------------------------------------------------------------------------
(* One --add-room                                                         *)

\* A run marks the rooms it chooses.
LEMMA MarkedByStep ==
  ASSUME NEW p \in Run, Moves(p), TypeOK, StagesMean, MarkedBy(p)
  PROVE  MarkedBy(p)'
<1>f. stage \in [Run -> Stage] /\ my \in [Run -> Local] /\ my[p] \in Local
  BY DEF TypeOK
<1>m. MarkedBy(p)
  OBVIOUS
<1>s. StageMeans(p)
  BY DEF StagesMean
<1> USE DEF MarkedBy, Making
<1>1. CASE Install(p)
  BY <1>f, <1>m, <1>s, RunsDiffer, <1>1 DEF Install, Go, Exists
<1>2. CASE Configure(p)
  <2>1. PICK i \in RoomID : my' = [my EXCEPT ![p].rooms = {[id |-> i, by |-> p]}]
    BY <1>2 DEF Configure
  <2>2. my'[p].rooms = {[id |-> i, by |-> p]}
    BY <1>f, <2>1 DEF Local
  <2> QED BY <1>2, <2>2, RunsDiffer DEF Configure
<1>3. CASE Read(p)
  <2>1. my[p] = NoLocal /\ p \in Adders /\ p \notin Installers
    BY <1>3, <1>s, RunsDiffer DEF Read, StageMeans
  <2>2. stage'[p] \in {"ask", "failed"} /\ my'[p].added = {} /\ ~my'[p].replaced
    BY <1>3, <1>f, <2>1 DEF Read, Go, NoLocal
  <2> QED BY <2>1, <2>2
<1>4. CASE AddRoom(p)
  <2>1. p \in Adders /\ p \notin Installers /\ stage[p] = "ask"
    BY <1>4, RunsDiffer DEF AddRoom
  <2>2. PICK i \in RoomID :
          /\ my'[p].rooms = my[p].rooms \cup {[id |-> i, by |-> p]}
          /\ my'[p].added = my[p].added \cup {[id |-> i, by |-> p]}
    BY <1>4, <1>f DEF AddRoom, Acceptable, Local
  <2>3. my[p].added \subseteq my[p].rooms /\ \A r \in my[p].added : r.by = p
    BY <1>m, <2>1
  <2>4. my'[p].added \subseteq my'[p].rooms /\ my'[p].added # {}
    BY <2>2, <2>3
  <2>5. \A r \in my'[p].added : r.by = p
    BY <2>2, <2>3
  <2> QED BY <2>1, <2>4, <2>5
<1>5. CASE NameBackup(p)
  BY <1>f, <1>m, <1>s, RunsDiffer, <1>5 DEF NameBackup, Go, Exists, Local
<1>6. CASE MakeTemp(p)
  BY <1>f, <1>m, <1>s, RunsDiffer, <1>6 DEF MakeTemp, Go, Edit, Temp
<1>7. CASE Fill(p)
  BY <1>f, <1>m, <1>s, RunsDiffer, <1>7 DEF Fill, Go, Temp, Filled
<1>8. CASE LinkConfig(p)
  BY <1>f, <1>m, <1>s, RunsDiffer, <1>8 DEF LinkConfig, Go, Edit, Temp, MayLink, Exists,
       Raise, Local
<1>9. CASE LinkBackup(p)
  BY <1>f, <1>m, <1>s, RunsDiffer, <1>9 DEF LinkBackup, Go, Edit, MayLink, Exists, Raise,
       Local
<1>10. CASE Replace(p)
  BY <1>f, <1>m, <1>s, RunsDiffer, <1>10 DEF Replace, Go, Edit, Temp, Local
<1>11. CASE SyncDirectory(p)
  BY <1>f, <1>m, <1>s, RunsDiffer, <1>11 DEF SyncDirectory, Go, Synced
<1>12. CASE CallFails(p)
  BY <1>f, <1>m, <1>s, RunsDiffer, <1>12 DEF CallFails, Go, Raise, Local
<1>13. CASE Undo(p)
  BY <1>f, <1>m, <1>s, RunsDiffer, <1>13 DEF Undo, Go, Edit, TakesBack, Exists
<1>14. CASE Unlink(p)
  <2>1. my[p].raised \in {"nothing", "error", "interrupt"}
    BY <1>f DEF Local
  <2>2. stage'[p] \in {"done", "failed", "dead"} /\ my' = my
    BY <1>14, <1>f, <2>1 DEF Unlink, Go
  <2> QED BY <1>m, <2>2
<1>15. CASE Interrupt(p)
  BY <1>f, <1>m, <1>s, RunsDiffer, <1>15 DEF Interrupt, Go, Raise, Local
<1>16. CASE Kill(p)
  BY <1>f, <1>m, <1>s, RunsDiffer, <1>16 DEF Kill, Go
<1> QED BY <1>1, <1>2, <1>3, <1>4, <1>5, <1>6, <1>7, <1>8, <1>9, <1>10, <1>11, <1>12,
    <1>13, <1>14, <1>15, <1>16 DEF Moves, RunNext

LEMMA MarkedStep ==
  ASSUME NEW p \in Run, Moves(p), TypeOK, StagesMean, RoomsMarked
  PROVE  RoomsMarked'
<1>1. ASSUME NEW q \in Run
      PROVE  MarkedBy(q)'
  <2>1. CASE q = p
    BY <2>1, MarkedByStep DEF RoomsMarked
  <2>2. CASE q # p
    <3>1. stage'[q] = stage[q] /\ my'[q] = my[q]
      BY <2>2, OthersStay DEF TypeOK
    <3> QED BY <3>1 DEF RoomsMarked, MarkedBy
  <2> QED BY <2>1, <2>2
<1> QED BY <1>1 DEF RoomsMarked

\* A file with a name that is not temporary does not change any more.
LEMMA NamedFileStays ==
  ASSUME NEW p \in Run, Moves(p), TypeOK, TempsOwned, NEW d \in mayBe, NEW n \in Name \ Run,
         d[n] # 0
  PROVE  files'[d[n]] = files[d[n]]
<1>1. d[n] \in 1..Len(files) /\ n # p /\ dir \in mayBe
  BY DEF TypeOK
<1>2. stage[p] = "fill" => d[n] # dir[p]
  BY <1>1 DEF TempsOwned, TempOwned
<1> QED BY <1>1, <1>2, FilesStep

\* Once it links, an adder does not change its mind.
LEMMA ChoiceStays ==
  ASSUME NEW p \in Adders, Moves(p), TypeOK, StagesMean,
         my[p].replaced \/ stage[p] \in {"link", "replace", "sync", "unlink", "done"}
  PROVE  /\ my'[p].rooms = my[p].rooms /\ my'[p].added = my[p].added
         /\ my'[p].backup = my[p].backup /\ (my[p].replaced => my'[p].replaced)
<1>f. p \in Run /\ my \in [Run -> Local] /\ my[p] \in Local
  BY DEF TypeOK, Run
<1>s. stage[p] \notin {"idle", "ask", "backup"}
  BY <1>f DEF StagesMean, StageMeans, Early
<1> USE DEF Local
<1>1. CASE Install(p)
  BY <1>f, <1>s, RunsDiffer, <1>1 DEF Install, Go, Exists
<1>2. CASE Configure(p)
  BY <1>f, <1>s, RunsDiffer, <1>2 DEF Configure, Go
<1>3. CASE Read(p)
  BY <1>f, <1>s, RunsDiffer, <1>3 DEF Read, Go, Extensible, Config
<1>4. CASE AddRoom(p)
  BY <1>f, <1>s, RunsDiffer, <1>4 DEF AddRoom, Go, Acceptable, Identifiers
<1>5. CASE NameBackup(p)
  BY <1>f, <1>s, RunsDiffer, <1>5 DEF NameBackup, Go, Exists
<1>6. CASE MakeTemp(p)
  BY <1>f, <1>s, RunsDiffer, <1>6 DEF MakeTemp, Go, Edit, Temp
<1>7. CASE Fill(p)
  BY <1>f, <1>s, RunsDiffer, <1>7 DEF Fill, Go, Temp, Filled
<1>8. CASE LinkConfig(p)
  BY <1>f, <1>s, RunsDiffer, <1>8 DEF LinkConfig, Go, Edit, Temp, MayLink, Exists, Raise
<1>9. CASE LinkBackup(p)
  BY <1>f, <1>s, RunsDiffer, <1>9 DEF LinkBackup, Go, Edit, MayLink, Exists, Raise
<1>10. CASE Replace(p)
  BY <1>f, <1>s, RunsDiffer, <1>10 DEF Replace, Go, Edit, Temp
<1>11. CASE SyncDirectory(p)
  BY <1>f, <1>s, RunsDiffer, <1>11 DEF SyncDirectory, Go, Synced
<1>12. CASE CallFails(p)
  BY <1>f, <1>s, RunsDiffer, <1>12 DEF CallFails, Go, Raise
<1>13. CASE Undo(p)
  BY <1>f, <1>s, RunsDiffer, <1>13 DEF Undo, Go, Edit, Exists
<1>14. CASE Unlink(p)
  BY <1>f, <1>s, RunsDiffer, <1>14 DEF Unlink, Go, Edit, Temp, Exists
<1>15. CASE Interrupt(p)
  BY <1>f, <1>s, RunsDiffer, <1>15 DEF Interrupt, Go, Raise
<1>16. CASE Kill(p)
  BY <1>f, <1>s, RunsDiffer, <1>16 DEF Kill, Go
<1> QED BY <1>1, <1>2, <1>3, <1>4, <1>5, <1>6, <1>7, <1>8, <1>9, <1>10, <1>11, <1>12,
    <1>13, <1>14, <1>15, <1>16 DEF Moves, RunNext

\* Unless another adder moves, only its os.replace changes a configuration that is there.
LEMMA ConfigByAdder ==
  ASSUME NEW p \in Adders, NEW q \in Run, q \in Adders => q = p, Moves(q), FInv, dir["config"] # 0,
         q # p \/ ~Replace(p)
  PROVE  dir'["config"] = dir["config"] /\ ConfigOf(dir)' = ConfigOf(dir)
<1>1. TypeOK /\ StagesMean /\ TempsOwned
  BY DEF FInv
<1>2. "config" \in Name \ Run /\ "config" \notin Backup /\ dir \in mayBe
  BY <1>1, NamesDiffer DEF Name, TypeOK
<1>3. LinkBackup(q) \/ Undo(q) => my[q].backup \in Backup
  BY <1>1 DEF LinkBackup, Undo, StagesMean, StageMeans, Making, Replacing
<1>4. ~Replace(q)
  <2>1. SUFFICES ASSUME Replace(q) PROVE FALSE
    OBVIOUS
  <2>2. q \in Adders
    BY <1>1, <2>1 DEF Replace, StagesMean, StageMeans, Replacing
  <2> QED BY <2>1, <2>2
<1>5. dir'["config"] = dir["config"]
  BY <1>1, <1>2, <1>3, <1>4, NameStep
<1>6. files'[dir["config"]] = files[dir["config"]]
  BY <1>1, <1>2, NamedFileStays
<1> QED BY <1>5, <1>6 DEF ConfigOf

\* Only read and asked for are rooms added.
LEMMA RoomsStay ==
  ASSUME NEW p \in Run, Moves(p), TypeOK, stage[p] \notin {"idle", "ask"}
  PROVE  my'[p].rooms = my[p].rooms /\ my'[p].added = my[p].added
<1>f. my \in [Run -> Local] /\ my[p] \in Local
  BY DEF TypeOK
<1> USE DEF Local
<1>1. CASE Install(p)
  BY <1>f, <1>1 DEF Install, Go, Exists
<1>2. CASE Configure(p)
  BY <1>f, <1>2 DEF Configure, Go
<1>3. CASE Read(p)
  BY <1>f, <1>3 DEF Read, Go, Extensible, Config
<1>4. CASE AddRoom(p)
  BY <1>f, <1>4 DEF AddRoom, Go, Acceptable, Identifiers
<1>5. CASE NameBackup(p)
  BY <1>f, <1>5 DEF NameBackup, Go, Exists
<1>6. CASE MakeTemp(p)
  BY <1>f, <1>6 DEF MakeTemp, Go, Edit, Temp
<1>7. CASE Fill(p)
  BY <1>f, <1>7 DEF Fill, Go, Temp, Filled
<1>8. CASE LinkConfig(p)
  BY <1>f, <1>8 DEF LinkConfig, Go, Edit, Temp, MayLink, Exists, Raise
<1>9. CASE LinkBackup(p)
  BY <1>f, <1>9 DEF LinkBackup, Go, Edit, MayLink, Exists, Raise
<1>10. CASE Replace(p)
  BY <1>f, <1>10 DEF Replace, Go, Edit, Temp
<1>11. CASE SyncDirectory(p)
  BY <1>f, <1>11 DEF SyncDirectory, Go, Synced
<1>12. CASE CallFails(p)
  BY <1>f, <1>12 DEF CallFails, Go, Raise
<1>13. CASE Undo(p)
  BY <1>f, <1>13 DEF Undo, Go, Edit, Exists
<1>14. CASE Unlink(p)
  BY <1>f, <1>14 DEF Unlink, Go, Edit, Temp, Exists
<1>15. CASE Interrupt(p)
  BY <1>f, <1>15 DEF Interrupt, Go, Raise
<1>16. CASE Kill(p)
  BY <1>f, <1>16 DEF Kill, Go
<1> QED BY <1>1, <1>2, <1>3, <1>4, <1>5, <1>6, <1>7, <1>8, <1>9, <1>10, <1>11, <1>12,
    <1>13, <1>14, <1>15, <1>16 DEF Moves, RunNext

\* An adder starts from what it reads.
LEMMA BasedStages ==
  ASSUME NEW p \in Adders, Moves(p), FInv
  PROVE  stage'[p] \in {"ask", "backup"} \cup Making \cup {"replace"} =>
           /\ ~Replace(p) /\ dir["config"] # 0
           /\ \/ stage[p] \in {"ask", "backup"} \cup Making \cup {"replace"}
              \/ Read(p) /\ my'[p].rooms = ConfigOf(dir).rooms /\ my'[p].added = {}
<1>f. p \in Run /\ stage \in [Run -> Stage]
  BY DEF TypeOK, Run, FInv
<1>t. stage[p] \in {"ask", "backup"} \cup Making \cup Replacing => dir["config"] # 0
  BY DEF FInv, ConfigThere
<1>p. Replace(p) => stage'[p] = "sync"
  BY <1>f DEF Replace, Go
<1>q. stage[p] \in {"ask", "backup"} \cup Making \cup {"replace"} =>
        (stage'[p] \in {"ask", "backup"} \cup Making \cup {"replace"} =>
           /\ ~Replace(p) /\ dir["config"] # 0)
  BY <1>t, <1>p DEF Making, Replacing
<1>1. CASE Install(p)
  BY <1>1, RunsDiffer DEF Install
<1>2. CASE Configure(p)
  <2>1. stage[p] \in {"ask", "backup"} \cup Making \cup {"replace"}
    BY <1>2, RunsDiffer DEF Configure, Making
  <2> QED BY <2>1, <1>q
<1>3. CASE Read(p)
  <2>1. my[p] = NoLocal /\ stage[p] = "idle" /\ my \in [Run -> Local]
    BY <1>3, <1>f DEF Read, FInv, StagesMean, StageMeans, TypeOK
  <2>2. stage'[p] \in {"ask", "failed"} /\ (stage'[p] = "ask" => Extensible)
    BY <1>3, <1>f DEF Read, Go
  <2>3. stage'[p] = "ask" => my'[p].rooms = ConfigOf(dir).rooms /\ my'[p].added = {}
    BY <1>3, <1>f, <2>1 DEF Read, Go, NoLocal, Config, ConfigOf, Local
  <2> QED BY <1>3, <1>p, <2>1, <2>2, <2>3 DEF Extensible, Exists, Making
<1>4. CASE AddRoom(p)
  <2>1. stage[p] \in {"ask", "backup"} \cup Making \cup {"replace"}
    BY <1>4, RunsDiffer DEF AddRoom, Making
  <2> QED BY <2>1, <1>q
<1>5. CASE NameBackup(p)
  <2>1. stage[p] \in {"ask", "backup"} \cup Making \cup {"replace"}
    BY <1>5, RunsDiffer DEF NameBackup, Making
  <2> QED BY <2>1, <1>q
<1>6. CASE MakeTemp(p)
  <2>1. stage[p] \in {"ask", "backup"} \cup Making \cup {"replace"}
    BY <1>6, RunsDiffer DEF MakeTemp, Making
  <2> QED BY <2>1, <1>q
<1>7. CASE Fill(p)
  <2>1. stage[p] \in {"ask", "backup"} \cup Making \cup {"replace"}
    BY <1>7, RunsDiffer DEF Fill, Making
  <2> QED BY <2>1, <1>q
<1>8. CASE LinkConfig(p)
  <2>1. stage[p] \in {"ask", "backup"} \cup Making \cup {"replace"}
    BY <1>8, RunsDiffer DEF LinkConfig, Making
  <2> QED BY <2>1, <1>q
<1>9. CASE LinkBackup(p)
  <2>1. stage[p] \in {"ask", "backup"} \cup Making \cup {"replace"}
    BY <1>9, RunsDiffer DEF LinkBackup, Making
  <2> QED BY <2>1, <1>q
<1>10. CASE Replace(p)
  <2>1. stage[p] \in {"ask", "backup"} \cup Making \cup {"replace"}
    BY <1>10, RunsDiffer DEF Replace, Making
  <2> QED BY <2>1, <1>q
<1>11. CASE SyncDirectory(p)
  <2>1. stage'[p] \in {"unlink", "undo", "failed", "dead", "done"}
    BY <1>11, <1>f DEF SyncDirectory, Go
  <2> QED BY <2>1 DEF Making
<1>12. CASE CallFails(p)
  <2>1. stage'[p] \in {"unlink", "undo", "failed", "dead", "done"}
    BY <1>12, <1>f DEF CallFails, Go
  <2> QED BY <2>1 DEF Making
<1>13. CASE Undo(p)
  <2>1. stage'[p] \in {"unlink", "undo", "failed", "dead", "done"}
    BY <1>13, <1>f DEF Undo, Go
  <2> QED BY <2>1 DEF Making
<1>14. CASE Unlink(p)
  <2>1. my[p].raised \in {"nothing", "error", "interrupt"}
    BY <1>f DEF FInv, TypeOK, Local
  <2>2. stage'[p] \in {"done", "failed", "dead"}
    BY <1>14, <1>f, <2>1 DEF Unlink, Go
  <2> QED BY <2>2 DEF Making
<1>15. CASE Interrupt(p)
  <2>1. stage'[p] \in {"unlink", "undo", "failed", "dead", "done"}
    BY <1>15, <1>f DEF Interrupt, Go
  <2> QED BY <2>1 DEF Making
<1>16. CASE Kill(p)
  <2>1. stage'[p] \in {"unlink", "undo", "failed", "dead", "done"}
    BY <1>16, <1>f DEF Kill, Go
  <2> QED BY <2>1 DEF Making
<1> QED BY <1>1, <1>2, <1>3, <1>4, <1>5, <1>6, <1>7, <1>8, <1>9, <1>10, <1>11, <1>12,
    <1>13, <1>14, <1>15, <1>16 DEF Moves, RunNext

\* What was read is what is not added.
LEMMA AskingKeepsBasis ==
  ASSUME NEW p \in Adders, Moves(p), TypeOK, stage[p] = "ask"
  PROVE  my'[p].rooms \ my'[p].added = my[p].rooms \ my[p].added
<1>f. p \in Run /\ my \in [Run -> Local]
  BY DEF TypeOK, Run
<1>1. CASE Install(p)
  BY <1>f, RunsDiffer, <1>1 DEF Install, Go, Exists
<1>2. CASE Configure(p)
  BY <1>f, RunsDiffer, <1>2 DEF Configure, Go
<1>3. CASE Read(p)
  BY <1>f, RunsDiffer, <1>3 DEF Read, Go, Extensible, Config
<1>4. CASE AddRoom(p)
  <2>2. PICK i \in Acceptable(p) :
          /\ my'[p].rooms = my[p].rooms \cup {[id |-> i, by |-> p]}
          /\ my'[p].added = my[p].added \cup {[id |-> i, by |-> p]}
    BY <1>4, <1>f DEF AddRoom, Local
  <2>3. [id |-> i, by |-> p] \notin my[p].rooms
    BY <2>2 DEF Acceptable, Identifiers
  <2> QED BY <2>2, <2>3
<1>5. CASE NameBackup(p)
  BY <1>f, RunsDiffer, <1>5 DEF NameBackup, Go, Exists
<1>6. CASE MakeTemp(p)
  BY <1>f, RunsDiffer, <1>6 DEF MakeTemp, Go, Edit, Temp
<1>7. CASE Fill(p)
  BY <1>f, RunsDiffer, <1>7 DEF Fill, Go, Temp, Filled
<1>8. CASE LinkConfig(p)
  BY <1>f, RunsDiffer, <1>8 DEF LinkConfig, Go, Edit, Temp, MayLink, Exists, Raise
<1>9. CASE LinkBackup(p)
  BY <1>f, RunsDiffer, <1>9 DEF LinkBackup, Go, Edit, MayLink, Exists, Raise
<1>10. CASE Replace(p)
  BY <1>f, RunsDiffer, <1>10 DEF Replace, Go, Edit, Temp
<1>11. CASE SyncDirectory(p)
  BY <1>f, RunsDiffer, <1>11 DEF SyncDirectory, Go, Synced
<1>12. CASE CallFails(p)
  BY <1>f, RunsDiffer, <1>12 DEF CallFails, Go, Raise
<1>13. CASE Undo(p)
  BY <1>f, RunsDiffer, <1>13 DEF Undo, Go, Edit, Exists
<1>14. CASE Unlink(p)
  BY <1>f, RunsDiffer, <1>14 DEF Unlink, Go, Edit, Temp, Exists
<1>15. CASE Interrupt(p)
  BY <1>f, RunsDiffer, <1>15 DEF Interrupt, Go, Raise
<1>16. CASE Kill(p)
  BY <1>f, RunsDiffer, <1>16 DEF Kill, Go
<1> QED BY <1>1, <1>2, <1>3, <1>4, <1>5, <1>6, <1>7, <1>8, <1>9, <1>10, <1>11, <1>12,
    <1>13, <1>14, <1>15, <1>16 DEF Moves, RunNext

\* The configuration stays what the adder read until it replaces it.
LEMMA BasisStep ==
  ASSUME NEW p \in Adders, NEW q \in Run, q \in Adders => q = p, Moves(q), FInv, BasisOf(p)
  PROVE  BasisOf(p)'
<1>1. SUFFICES ASSUME stage'[p] \in {"ask", "backup"} \cup Making \cup {"replace"}
               PROVE  ConfigOf(dir)'.rooms = my'[p].rooms \ my'[p].added
  BY DEF BasisOf
<1>2. CASE q = p
  <2>1. dir["config"] # 0 /\ ~Replace(p)
    BY <1>1, <1>2, BasedStages
  <2>2. ConfigOf(dir)' = ConfigOf(dir)
    BY <1>2, <2>1, ConfigByAdder
  <2>3. CASE stage[p] \in {"ask", "backup"} \cup Making \cup {"replace"}
    <3>1. my'[p].rooms \ my'[p].added = my[p].rooms \ my[p].added
      BY <1>2, <2>3, AskingKeepsBasis, RoomsStay DEF FInv, Making
    <3> QED BY <2>2, <2>3, <3>1 DEF BasisOf
  <2>4. CASE my'[p].rooms = ConfigOf(dir).rooms /\ my'[p].added = {}
    BY <2>2, <2>4
  <2> QED BY <1>1, <1>2, <2>3, <2>4, BasedStages
<1>3. CASE q # p
  <2>1. stage'[p] = stage[p] /\ my'[p] = my[p]
    BY <1>3, OthersStay DEF FInv, TypeOK, Run
  <2>2. dir["config"] # 0
    BY <1>1, <2>1 DEF FInv, ConfigThere, Replacing
  <2>3. ConfigOf(dir)' = ConfigOf(dir)
    BY <1>3, <2>2, ConfigByAdder
  <2> QED BY <1>1, <2>1, <2>3 DEF BasisOf
<1> QED BY <1>2, <1>3

\* The backup's file stays the backup's file.
LEMMA ReadStays ==
  ASSUME NEW p \in Adders, NEW q \in Run, Moves(q), FInv, NEW d \in mayBe, OldIn(p, d),
         my[p].replaced \/ stage[p] = "replace"
  PROVE  OldIn(p, d)'
<1>1. /\ my'[p].rooms = my[p].rooms /\ my'[p].added = my[p].added
      /\ my'[p].backup = my[p].backup
  BY ChoiceStays, OthersStay DEF FInv, TypeOK, Run
<1>2. my[p].backup \in Name \ Run
  BY NamesDiffer DEF OldIn, Name
<1>3. files'[d[my[p].backup]] = files[d[my[p].backup]]
  BY <1>2, NamedFileStays DEF OldIn, FInv
<1> QED BY <1>1, <1>3 DEF OldIn

\* A directory that a power loss may leave gets no rooms afterwards.
LEMMA RoomsOfConfig ==
  ASSUME NEW p \in Adders, NEW q \in Run, Moves(q), FInv, NEW d \in mayBe, HasRoomOf(p, d)'
  PROVE  HasRoomOf(p, d)
<1>1. "config" \in Name \ Run
  BY NamesDiffer DEF Name
<1> QED BY <1>1, NamedFileStays DEF HasRoomOf, ConfigOf, FInv

-----------------------------------------------------------------------------
(* The way back                                                           *)

\* Nobody but its adder changes a backup, unless another adder moves.
LEMMA BackupKept ==
  ASSUME NEW p \in Adders, NEW q \in Run, q \in Adders => q = p, Moves(q), FInv,
         my[p].backup \in Backup,
         dir'[my[p].backup] # dir[my[p].backup]
  PROVE  q = p /\ (LinkBackup(p) \/ (Undo(p) /\ TakesBack(p)))
<1>1. ~LinkBackup(q) => my[q].backup = my[p].backup /\ Undo(q) /\ TakesBack(q)
  BY BackupName DEF FInv
<1>2. LinkBackup(q) => q \in Adders
  BY DEF LinkBackup
<1>3. Undo(q) => q \in Adders
  BY DEF Undo, FInv, StagesMean, StageMeans, Replacing
<1>4. q = p
  BY <1>1, <1>2, <1>3
<1> QED BY <1>1, <1>4

\* A configuration appears by install.sh, without rooms of the adder, or by its
\* os.replace.
LEMMA ConfigComes ==
  ASSUME NEW q \in Run, Moves(q), FInv, RoomsMarked, dir'["config"] # dir["config"],
         NEW p \in Adders, q \in Adders => q = p
  PROVE  \/ LinkConfig(q) /\ ~HasRoomOf(p, dir)'
         \/ q = p /\ Replace(p) /\ dir'["config"] = dir[p]
<1>1. "config" \in Name \ {q} /\ "config" \notin Backup
  BY NamesDiffer DEF Name
<1>2. LinkBackup(q) \/ Undo(q) => my[q].backup \in Backup
  BY DEF LinkBackup, Undo, FInv, StagesMean, StageMeans, Making, Replacing
<1>3. (LinkConfig(q) \/ Replace(q)) /\ dir'["config"] = dir[q]
  BY <1>1, <1>2, NameStep DEF FInv
<1>4. ASSUME LinkConfig(q), dir'["config"] = dir[q]
      PROVE  ~HasRoomOf(p, dir)'
  <2>1. files' = files /\ stage[q] = "link" /\ q \in Installers /\ q # p
    BY <1>4, RunsDiffer DEF LinkConfig
  <2>2. files[dir[q]].rooms = my[q].rooms
    BY <2>1, FilledSynced DEF FInv, TempsOwned, TempOwned
  <2>3. \A r \in my[q].rooms : r.by = q
    BY <2>1 DEF RoomsMarked, MarkedBy
  <2> QED BY <1>4, <2>1, <2>2, <2>3 DEF HasRoomOf, ConfigOf
<1>5. Replace(q) => q = p
  BY DEF Replace, FInv, StagesMean, StageMeans, Replacing
<1> QED BY <1>3, <1>4, <1>5

\* os.replace comes after the link of the configuration as the backup.
LEMMA ToReplace ==
  ASSUME NEW p \in Adders, Moves(p), FInv, stage'[p] = "replace"
  PROVE  /\ LinkBackup(p) /\ files' = files /\ dir["config"] # 0 /\ stage[p] = "link"
         /\ dir' = [dir EXCEPT ![my[p].backup] = dir["config"]]
         /\ my'[p].rooms = my[p].rooms /\ my'[p].added = my[p].added
         /\ my'[p].backup = my[p].backup
<1>f. p \in Run /\ stage \in [Run -> Stage] /\ my \in [Run -> Local]
  BY DEF TypeOK, Run, FInv
<1>r. my[p].raised \in {"nothing", "error", "interrupt"}
  BY <1>f DEF Local
<1>s. stage'[p] = "replace"
  OBVIOUS
<1>1. CASE Install(p)
  BY <1>1, <1>f DEF Install, Go
<1>2. CASE Configure(p)
  BY <1>2, <1>f DEF Configure, Go
<1>3. CASE Read(p)
  BY <1>3, <1>f DEF Read, Go
<1>4. CASE AddRoom(p)
  BY <1>4, <1>f DEF AddRoom, Go
<1>5. CASE NameBackup(p)
  BY <1>5, <1>f DEF NameBackup, Go
<1>6. CASE MakeTemp(p)
  BY <1>6, <1>f DEF MakeTemp, Go
<1>7. CASE Fill(p)
  BY <1>7, <1>f DEF Fill, Go
<1>8. CASE LinkConfig(p)
  BY <1>8, <1>f DEF LinkConfig, Go
<1>9. CASE LinkBackup(p)
  BY <1>f, <1>9 DEF LinkBackup, Go, Edit, MayLink, Exists, Raise, Local
<1>10. CASE Replace(p)
  BY <1>10, <1>f DEF Replace, Go
<1>11. CASE SyncDirectory(p)
  BY <1>11, <1>f DEF SyncDirectory, Go
<1>12. CASE CallFails(p)
  BY <1>12, <1>f DEF CallFails, Go
<1>13. CASE Undo(p)
  BY <1>13, <1>f DEF Undo, Go
<1>14. CASE Unlink(p)
  <2>1. stage'[p] \in {"done", "failed", "dead"}
    BY <1>14, <1>f, <1>r DEF Unlink, Go
  <2> QED BY <1>s, <2>1
<1>15. CASE Interrupt(p)
  BY <1>15, <1>f DEF Interrupt, Go
<1>16. CASE Kill(p)
  BY <1>16, <1>f DEF Kill, Go
<1> QED BY <1>1, <1>2, <1>3, <1>4, <1>5, <1>6, <1>7, <1>8, <1>9, <1>10, <1>11, <1>12,
    <1>13, <1>14, <1>15, <1>16 DEF Moves, RunNext

\* The way back is kept.
LEMMA BackedUpStep ==
  ASSUME NEW p \in Adders, NEW q \in Run, q \in Adders => q = p, Moves(q), FInv, RoomsMarked,
         AdderInv(p)
  PROVE  BackedUpFor(p)'
<1>1. /\ p \in Run /\ BackedUpFor(p) /\ BasisOf(p) /\ TypeOK /\ StagesMean
  BY DEF FInv, Run, AdderInv
<1>2. PICK d0 \in mayBe : d0 = dir
  BY <1>1 DEF TypeOK
<1>3. ASSUME NEW d \in mayBe, HasRoomOf(p, d)'
      PROVE  my[p].replaced /\ my'[p].replaced /\ OldIn(p, d)'
  <2>1. my[p].replaced /\ OldIn(p, d)
    BY <1>1, <1>3, RoomsOfConfig DEF BackedUpFor
  <2>2. my'[p].replaced
    BY <1>1, <2>1, ChoiceStays, OthersStay DEF TypeOK
  <2> QED BY <2>1, <2>2, ReadStays
<1>4. ASSUME OldIn(p, d0)', my[p].replaced \/ stage[p] = "replace"
      PROVE  OldIn(p, dir)'
  <2>1. my'[p].backup = my[p].backup
    BY <1>1, <1>4, ChoiceStays, OthersStay DEF TypeOK
  <2>2. ~LinkBackup(p)
    BY <1>1, <1>4 DEF LinkBackup, StagesMean, StageMeans, Making
  <2>3. ~(Undo(p) /\ TakesBack(p))
    BY <1>4 DEF Undo, TakesBack
  <2>4. dir'[my[p].backup] = d0[my[p].backup]
    BY <1>2, <1>4, <2>1, <2>2, <2>3, BackupKept DEF OldIn
  <2> QED BY <1>4, <2>1, <2>4 DEF OldIn
<1>5. ASSUME HasRoomOf(p, dir)'
      PROVE  my'[p].replaced /\ OldIn(p, dir)'
  <2>1. CASE dir'["config"] = dir["config"]
    <3>1. HasRoomOf(p, d0)'
      BY <1>2, <1>5, <2>1 DEF HasRoomOf, ConfigOf
    <3> QED BY <1>3, <1>4, <3>1
  <2>2. CASE dir'["config"] # dir["config"]
    <3>1. q = p /\ Replace(p)
      BY <1>5, <2>2, ConfigComes
    <3>2. stage[p] = "replace" /\ my'[p].replaced
      BY <1>1, <3>1 DEF Replace, TypeOK, Local
    <3>3. OldIn(p, d0)
      BY <1>1, <1>2, <3>2 DEF BackedUpFor
    <3> QED BY <1>4, <3>2, <3>3, ReadStays
  <2> QED BY <2>1, <2>2
<1>6. ASSUME stage'[p] = "replace"
      PROVE  OldIn(p, dir)'
  <2>1. CASE q = p
    <3>1. ConfigOf(dir).rooms = my[p].rooms \ my[p].added
      BY <1>1, <1>6, <2>1, ToReplace DEF BasisOf, Making
    <3>2. my[p].backup \in Backup /\ my[p].backup \in Name
      BY <1>1, <1>6, <2>1, ToReplace DEF StagesMean, StageMeans, Making, Name
    <3>3. dir'[my[p].backup] = dir["config"]
      BY <1>1, <1>6, <2>1, <3>2, ToReplace DEF TypeOK
    <3> QED BY <1>6, <2>1, <3>1, <3>2, <3>3, ToReplace DEF OldIn, ConfigOf
  <2>2. CASE q # p
    <3>1. stage[p] = "replace"
      BY <1>1, <1>6, <2>2, OthersStay DEF TypeOK
    <3>2. OldIn(p, d0)
      BY <1>1, <1>2, <3>1 DEF BackedUpFor
    <3> QED BY <1>4, <3>1, <3>2, ReadStays
  <2> QED BY <2>1, <2>2
<1>7. ASSUME NEW d \in mayBe', HasRoomOf(p, d)'
      PROVE  my'[p].replaced /\ OldIn(p, d)'
  <2>1. CASE d \in mayBe
    BY <1>3, <1>7, <2>1
  <2>2. CASE d = dir'
    BY <1>5, <1>7, <2>2 DEF HasRoomOf, OldIn, ConfigOf
  <2> QED BY <1>1, <2>1, <2>2, DirStep
<1> QED BY <1>6, <1>7 DEF BackedUpFor

-----------------------------------------------------------------------------
(* What is announced                                                      *)

\* Rooms that are in a configuration stay in it.
LEMMA NewStays ==
  ASSUME NEW p \in Adders, NEW q \in Run, q \in Adders => q = p, Moves(q), FInv, NEW d \in mayBe,
         NewIn(p, d), my'[p].added = my[p].added
  PROVE  NewIn(p, d)'
<1>1. "config" \in Name \ Run
  BY NamesDiffer DEF Name
<1> QED BY <1>1, NamedFileStays DEF NewIn, ConfigOf, FInv

\* An announcement comes after os.replace and the directory's fsync.
LEMMA ToAnnounced ==
  ASSUME NEW p \in Adders, Moves(p), FInv
  PROVE  /\ stage'[p] = "sync" => Replace(p)
         /\ stage'[p] = "unlink" /\ my'[p].raised = "nothing" =>
              SyncDirectory(p) /\ stage[p] = "sync"
         /\ stage'[p] = "done" => Unlink(p) /\ stage[p] = "unlink" /\ my[p].raised = "nothing"
<1>f. p \in Run /\ stage \in [Run -> Stage] /\ my \in [Run -> Local] /\ my[p] \in Local
  BY DEF TypeOK, Run, FInv
<1>u. stage[p] = "undo" => my[p].raised = "error"
  BY <1>f DEF FInv, StagesMean, StageMeans
<1>1. CASE Install(p)
  BY <1>f, RunsDiffer, <1>1 DEF Install, Go, Exists
<1>2. CASE Configure(p)
  BY <1>f, RunsDiffer, <1>2 DEF Configure, Go
<1>3. CASE Read(p)
  BY <1>f, RunsDiffer, <1>3 DEF Read, Go, Extensible, Config
<1>4. CASE AddRoom(p)
  BY <1>f, RunsDiffer, <1>4 DEF AddRoom, Go, Acceptable, Identifiers
<1>5. CASE NameBackup(p)
  BY <1>f, RunsDiffer, <1>5 DEF NameBackup, Go, Exists
<1>6. CASE MakeTemp(p)
  BY <1>f, RunsDiffer, <1>6 DEF MakeTemp, Go, Edit, Temp
<1>7. CASE Fill(p)
  BY <1>f, RunsDiffer, <1>7 DEF Fill, Go, Temp, Filled
<1>8. CASE LinkConfig(p)
  BY <1>f, RunsDiffer, <1>8 DEF LinkConfig, Go, Edit, Temp, MayLink, Exists, Raise
<1>9. CASE LinkBackup(p)
  BY <1>f, RunsDiffer, <1>9 DEF LinkBackup, Go, Edit, MayLink, Exists, Raise
<1>10. CASE Replace(p)
  BY <1>f, RunsDiffer, <1>10 DEF Replace, Go, Edit, Temp
<1>11. CASE SyncDirectory(p)
  BY <1>f, RunsDiffer, <1>11 DEF SyncDirectory, Go, Synced
<1>12. CASE CallFails(p)
  BY <1>f, RunsDiffer, <1>12 DEF CallFails, Go, Raise, Local
<1>13. CASE Undo(p)
  BY <1>f, RunsDiffer, <1>13, <1>u DEF Undo, Go, Edit, Exists
<1>14. CASE Unlink(p)
  <2>1. my[p].raised \in {"nothing", "error", "interrupt"}
    BY <1>f DEF Local
  <2>2. /\ stage'[p] \in {"done", "failed", "dead"} /\ stage[p] = "unlink"
        /\ stage'[p] = "done" => my[p].raised = "nothing"
    BY <1>14, <1>f, <2>1 DEF Unlink, Go
  <2> QED BY <1>14, <2>2
<1>15. CASE Interrupt(p)
  BY <1>f, RunsDiffer, <1>15 DEF Interrupt, Go, Raise, Local
<1>16. CASE Kill(p)
  BY <1>f, RunsDiffer, <1>16 DEF Kill, Go
<1> QED BY <1>1, <1>2, <1>3, <1>4, <1>5, <1>6, <1>7, <1>8, <1>9, <1>10, <1>11, <1>12,
    <1>13, <1>14, <1>15, <1>16 DEF Moves, RunNext

\* What is to be announced is there.
LEMMA AnnouncedStep ==
  ASSUME NEW p \in Adders, NEW q \in Run, q \in Adders => q = p, Moves(q), FInv, RoomsMarked,
         AdderInv(p)
  PROVE  AnnouncedBy(p)'
<1>1. /\ p \in Run /\ AnnouncedBy(p) /\ TypeOK /\ StagesMean
  BY DEF FInv, Run, AdderInv
<1>2. PICK d0 \in mayBe : d0 = dir
  BY <1>1 DEF TypeOK
<1>3. ASSUME q # p
      PROVE  stage'[p] = stage[p] /\ my'[p] = my[p]
  BY <1>1, <1>3, OthersStay DEF TypeOK
<1>4. ASSUME NewIn(p, dir), ~Replace(p) \/ q # p, my'[p].added = my[p].added
      PROVE  NewIn(p, dir)'
  <2>1. dir["config"] # 0 /\ my[p].added \subseteq ConfigOf(dir).rooms
    BY <1>4 DEF NewIn
  <2>2. dir'["config"] = dir["config"] /\ ConfigOf(dir)' = ConfigOf(dir)
    BY <1>4, <2>1, ConfigByAdder
  <2> QED BY <1>4, <2>1, <2>2 DEF NewIn
<1>5. stage'[p] = "sync" => NewIn(p, dir)'
  <2>1. CASE q # p
    BY <1>1, <1>3, <1>4, <2>1 DEF AnnouncedBy
  <2>2. CASE q = p
    <3>1. SUFFICES ASSUME Replace(p) PROVE NewIn(p, dir)'
      BY <2>2, ToAnnounced
    <3>2. stage[p] = "replace" /\ dir[p] # 0 /\ files[dir[p]].rooms = my[p].rooms
      BY <1>1, <3>1, FilledSynced DEF Replace, FInv, TempsOwned, TempOwned
    <3>3. dir'["config"] = dir[p] /\ files' = files /\ my'[p].added = my[p].added
      BY <1>1, <3>1, NamesDiffer DEF Replace, Edit, Temp, TypeOK, Name, Local
    <3>4. my[p].added \subseteq my[p].rooms
      BY <1>1 DEF RoomsMarked, MarkedBy
    <3> QED BY <3>2, <3>3, <3>4 DEF NewIn, ConfigOf
  <2> QED BY <2>1, <2>2
<1>6. ASSUME stage'[p] = "done" \/ (stage'[p] = "unlink" /\ my'[p].raised = "nothing"),
             NEW d \in mayBe'
      PROVE  NewIn(p, d)'
  <2>1. CASE q # p \/ Unlink(p)
    <3>1. \A e \in mayBe : NewIn(p, e)
      BY <1>1, <1>3, <1>6, <2>1, ToAnnounced DEF AnnouncedBy, Unlink
    <3>2. my'[p].added = my[p].added /\ (q = p => ~Replace(p))
      BY <1>3, <2>1 DEF Unlink, Replace
    <3>3. d \in mayBe => NewIn(p, d)'
      BY <3>1, <3>2, NewStays
    <3>4. NewIn(p, dir)'
      BY <1>1, <1>4, <3>1, <3>2 DEF TypeOK
    <3> QED BY <3>3, <3>4, DirStep, <1>1 DEF NewIn, ConfigOf
  <2>2. CASE q = p /\ ~Unlink(p)
    <3>1. SyncDirectory(p) /\ stage[p] = "sync"
      BY <1>6, <2>2, ToAnnounced
    <3>2. mayBe' = {dir} /\ UNCHANGED <<files, my>>
      BY <3>1 DEF SyncDirectory, Synced
    <3>3. NewIn(p, dir) /\ d = dir
      BY <1>1, <1>6, <3>1, <3>2 DEF AnnouncedBy
    <3> QED BY <3>2, <3>3 DEF NewIn, ConfigOf
  <2> QED BY <2>1, <2>2
<1> QED BY <1>5, <1>6 DEF AnnouncedBy

-----------------------------------------------------------------------------
(* The invariant and its theorems                                         *)

\* A power loss leaves a directory of which the invariant says so already.
LEMMA AdderPowerLoss ==
  ASSUME AInv, PowerLoss
  PROVE  RoomsMarked' /\ \A p \in Adders : AddsAlone(p)' => AdderInv(p)'
<1>1. /\ dir' \in mayBe /\ mayBe' = {dir'} /\ my' = my
      /\ \A p \in Run : stage'[p] = IF stage[p] \in {"idle", "done", "failed"}
                                    THEN stage[p] ELSE "dead"
      /\ FInv
  BY DEF PowerLoss, AInv
<1>2. ASSUME NEW d \in mayBe, NEW n \in Name \ Run, d[n] # 0
      PROVE  files'[d[n]] = files[d[n]]
  <2>1. d[n] \in DOMAIN files /\ files[d[n]].state = "synced"
    BY <1>1, <1>2 DEF FInv, TypeOK, NamedAreSynced
  <2> QED BY <2>1 DEF PowerLoss
<1>3. "config" \in Name \ Run /\ Backup \subseteq Name \ Run
  BY NamesDiffer DEF Name
<1>4. RoomsMarked'
  <2>1. \A p \in Run : stage'[p] \in {"backup"} \cup Making \cup {"replace"} => FALSE
    BY <1>1 DEF Making
  <2> QED BY <1>1, <2>1 DEF AInv, RoomsMarked, MarkedBy
<1>5. ASSUME NEW p \in Adders, AddsAlone(p)'
      PROVE  AdderInv(p)'
  <2>0. AdderInv(p)
    <3>1. AddsAlone(p)
      BY <1>1, <1>5 DEF AddsAlone, Run
    <3> QED BY <3>1 DEF AInv
  <2>1. stage'[p] \in {"idle", "done", "failed", "dead"} /\ (stage'[p] = "done" => stage[p] = "done")
    BY <1>1 DEF Run
  <2>2. BasisOf(p)'
    BY <2>1 DEF BasisOf, Making
  <2>3. PICK d \in mayBe : d = dir'
    BY <1>1
  <2>4. HasRoomOf(p, dir)' => HasRoomOf(p, d)
    BY <1>2, <1>3, <2>3 DEF HasRoomOf, ConfigOf
  <2>5. OldIn(p, d) => OldIn(p, dir)'
    BY <1>1, <1>2, <1>3, <2>3 DEF OldIn
  <2>6. BackedUpFor(p)'
    <3>1. HasRoomOf(p, dir)' => my'[p].replaced /\ OldIn(p, dir)'
      BY <1>1, <2>0, <2>4, <2>5 DEF AdderInv, BackedUpFor
    <3> QED BY <1>1, <2>1, <3>1 DEF BackedUpFor, HasRoomOf, OldIn, ConfigOf
  <2>7. AnnouncedBy(p)'
    <3>1. SUFFICES ASSUME stage[p] = "done" PROVE NewIn(p, dir)'
      BY <1>1, <2>1 DEF AnnouncedBy, NewIn, ConfigOf
    <3>2. NewIn(p, d)
      BY <2>0, <3>1 DEF AdderInv, AnnouncedBy
    <3> QED BY <1>1, <1>2, <1>3, <2>3, <3>2 DEF NewIn, ConfigOf
  <2> QED BY <2>2, <2>6, <2>7 DEF AdderInv
<1> QED BY <1>4, <1>5

LEMMA AdderInit == Init => AInv
BY FilesInit DEF Init, AInv, RoomsMarked, MarkedBy, AdderInv, BasisOf, BackedUpFor, AnnouncedBy,
  HasRoomOf, NoLocal, Making, Run, Name

\* A run that moves has started.
LEMMA MovesStarts ==
  ASSUME NEW p \in Run, Moves(p), TypeOK
  PROVE  stage'[p] # "idle"
<1>f. stage \in [Run -> Stage] /\ my[p].raised \in {"nothing", "error", "interrupt"}
  BY DEF TypeOK, Local
<1>1. CASE Install(p)
  BY <1>f, <1>1 DEF Install, Go
<1>2. CASE Configure(p)
  BY <1>f, <1>2 DEF Configure, Go
<1>3. CASE Read(p)
  BY <1>f, <1>3 DEF Read, Go
<1>4. CASE AddRoom(p)
  BY <1>f, <1>4 DEF AddRoom, Go
<1>5. CASE NameBackup(p)
  BY <1>f, <1>5 DEF NameBackup, Go
<1>6. CASE MakeTemp(p)
  BY <1>f, <1>6 DEF MakeTemp, Go
<1>7. CASE Fill(p)
  BY <1>f, <1>7 DEF Fill, Go
<1>8. CASE LinkConfig(p)
  BY <1>f, <1>8 DEF LinkConfig, Go
<1>9. CASE LinkBackup(p)
  BY <1>f, <1>9 DEF LinkBackup, Go
<1>10. CASE Replace(p)
  BY <1>f, <1>10 DEF Replace, Go
<1>11. CASE SyncDirectory(p)
  BY <1>f, <1>11 DEF SyncDirectory, Go
<1>12. CASE CallFails(p)
  BY <1>f, <1>12 DEF CallFails, Go
<1>13. CASE Undo(p)
  BY <1>f, <1>13 DEF Undo, Go
<1>14. CASE Unlink(p)
  BY <1>f, <1>14 DEF Unlink, Go
<1>15. CASE Interrupt(p)
  BY <1>f, <1>15 DEF Interrupt, Go
<1>16. CASE Kill(p)
  BY <1>f, <1>16 DEF Kill, Go
<1> QED BY <1>1, <1>2, <1>3, <1>4, <1>5, <1>6, <1>7, <1>8, <1>9, <1>10, <1>11, <1>12,
    <1>13, <1>14, <1>15, <1>16 DEF Moves, RunNext

\* Who is alone after a step was alone before it, and no other adder took it.
LEMMA AloneBefore ==
  ASSUME NEW p \in Adders, NEW q \in Run, Moves(q), TypeOK, AddsAlone(p)'
  PROVE  AddsAlone(p) /\ (q \in Adders => q = p)
<1>1. q \in Adders => q = p
  BY MovesStarts DEF AddsAlone
<1>2. ASSUME NEW r \in Adders \ {p}
      PROVE  stage[r] = "idle"
  <2>1. r \in Run /\ r # q
    BY <1>1 DEF Run
  <2> QED BY <2>1, OthersStay DEF AddsAlone, TypeOK
<1> QED BY <1>1, <1>2 DEF AddsAlone

\* The invariant holds.
LEMMA AdderInvariant == Spec => []AInv
<1>1. ASSUME AInv, [Next]_vars PROVE AInv'
  <2>0. FInv'
    BY <1>1, FilesStepAll DEF AInv
  <2>1. CASE UNCHANGED vars
    BY <1>1, <2>0, <2>1 DEF vars, AInv, AddsAlone, RoomsMarked, MarkedBy, AdderInv,
      BasisOf, BackedUpFor, AnnouncedBy, HasRoomOf, OldIn, NewIn, ConfigOf
  <2>2. CASE PowerLoss
    BY <2>0, <2>2, <1>1, AdderPowerLoss DEF AInv
  <2>3. ASSUME NEW q \in Run, Moves(q)
        PROVE  AInv'
    <3>1. FInv /\ RoomsMarked /\ RoomsMarked'
      BY <1>1, <2>3, MarkedStep DEF AInv, FInv
    <3>2. ASSUME NEW p \in Adders, AddsAlone(p)'
          PROVE  AdderInv(p)'
      <4>0. AddsAlone(p) /\ (q \in Adders => q = p)
        BY <2>3, <3>1, <3>2, AloneBefore DEF FInv
      <4>1. AdderInv(p)
        BY <1>1, <4>0 DEF AInv
      <4>2. BasisOf(p)'
        BY <2>3, <3>1, <4>0, <4>1, BasisStep DEF AdderInv
      <4> QED BY <2>3, <3>1, <4>0, <4>1, <4>2, BackedUpStep, AnnouncedStep DEF AdderInv
    <3> QED BY <2>0, <3>1, <3>2 DEF AInv
  <2>4. UNCHANGED vars \/ PowerLoss \/ \E q \in Run : Moves(q)
    BY <1>1 DEF Next, Moves
  <2> QED BY <2>1, <2>2, <2>3, <2>4
<1> QED BY <1>1, AdderInit, PTL DEF Spec

\* As long as no other --add-room starts, the rooms whose enrollment URLs were
\* printed are in config.json for good, also after a power loss, whatever
\* installers do meanwhile (add_rooms prints after replace_with_backup has
\* synced the directory).
THEOREM AnnouncedRoomsAreKept == Spec => []AnnouncedRoomsStay
<1>1. AInv => AnnouncedRoomsStay
  BY DEF AInv, AdderInv, AnnouncedBy, NewIn, AnnouncedRoomsStay
<1> QED BY <1>1, AdderInvariant, PTL

\* As long as no other --add-room starts, wherever config.json has the new
\* rooms, the configuration without them is in the backup, whatever failed, was
\* interrupted or killed in between (replace_with_backup takes the backup back
\* only if it did not replace): there is always a way back.
THEOREM BackupsHaveTheOld == Spec => []BackupHasTheOld
<1>1. AInv => BackupHasTheOld
  <2> SUFFICES ASSUME AInv, NEW p \in Adders, NEW d \in mayBe, AddsAlone(p),
                      my[p].replaced, d["config"] # 0,
                      my[p].added \subseteq ConfigOf(d).rooms
               PROVE  OldIn(p, d)
    BY DEF BackupHasTheOld, OldIn
  <2>1. my[p].added # {} /\ \A r \in my[p].added : r.by = p
    BY DEF AInv, RoomsMarked, MarkedBy, Run
  <2>2. HasRoomOf(p, d)
    BY <2>1 DEF HasRoomOf
  <2> QED BY <2>2 DEF AInv, AdderInv, BackedUpFor
<1> QED BY <1>1, AdderInvariant, PTL
==============================================================================
