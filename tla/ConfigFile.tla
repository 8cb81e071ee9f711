------------------------------ MODULE ConfigFile ------------------------------
(***************************************************************************)
(* config.json under install.sh and scripts/configure.py: the first install*)
(* creates it (configure, write_atomic), --add-room replaces it (add_rooms,*)
(* replace_with_backup).  Several runs may overlap, any system call may    *)
(* fail, a run may be interrupted or killed, and the power may go.         *)
(*                                                                         *)
(* A step is one system call on the directory or one file.  A file is its  *)
(* set of rooms and how far it is written; the directory maps names to     *)
(* files, so that two names of one file are a hard link.  What the disk    *)
(* would show after a power loss is any of the directories since the last  *)
(* fsync of the directory, and of a file only what was fsynced.            *)
(*                                                                         *)
(* A room is its id and the run that made it: secrets.token_urlsafe is     *)
(* taken never to repeat, so the run stands for the token as well.         *)
(***************************************************************************)
EXTENDS Naturals, Sequences, FiniteSets

CONSTANTS Installers,  \* runs of install.sh
          Adders,      \* runs of install.sh --add-room
          Backup,      \* names config.json.backup-<timestamp>[-<n>]
          RoomID,
          MaxRooms,    \* 100 in the code
          None

Run == Installers \cup Adders

ASSUME RunsDiffer == Installers \cap Adders = {}
\* The names of config.json, of temporary files and of backups are not alike.
ASSUME NamesDiffer == "config" \notin Run \cup Backup /\ Run \cap Backup = {}
ASSUME NoneIsNoBackup == None \notin Backup
ASSUME RoomForOne == MaxRooms \in Nat \ {0}

VARIABLES files,   \* all files ever made
          dir,     \* the directory: name to index in files, 0 if there is none
          mayBe,   \* the directories a power loss may leave
          stage,   \* where each run is
          my       \* its local variables

vars == <<files, dir, mayBe, stage, my>>

\* The temporary name mkstemp finds for a run.  (Mutated form: a fixed one.)
Temp_Fixed(p) == CHOOSE q \in Run : TRUE
Temp(p) == p

Name == {"config"} \cup Run \cup Backup

Room == [id : RoomID, by : Run]
File == [rooms : SUBSET Room, state : {"partial", "written", "synced"}]

Stage == {"idle", "ask", "backup", "mkstemp", "fill", "link", "replace", "sync",
          "undo", "unlink", "done", "failed", "dead"}

\* rooms: the configuration being put together; added: those to be announced;
\* backup, linked, replaced: as in replace_with_backup; raised: what is on its
\* way out.
Local == [rooms : SUBSET Room, added : SUBSET Room, backup : Backup \cup {None},
          linked : BOOLEAN, replaced : BOOLEAN,
          raised : {"nothing", "error", "interrupt"}]

NoLocal == [rooms |-> {}, added |-> {}, backup |-> None,
            linked |-> FALSE, replaced |-> FALSE, raised |-> "nothing"]

Exists(name) == dir[name] # 0
Config == files[dir["config"]]
Identifiers(rooms) == {r.id : r \in rooms}

Go(p, to) == stage' = [stage EXCEPT ![p] = to]

\* One change of the directory; none of it is on the disk for sure.
Edit(d) == dir' = d /\ mayBe' = mayBe \cup {d}

-----------------------------------------------------------------------------
Init == /\ files = <<>>
        /\ dir = [n \in Name |-> 0]
        /\ mayBe = {dir}
        /\ stage = [p \in Run |-> "idle"]
        /\ my = [p \in Run |-> NoLocal]

\* install.sh leaves a configuration that exists alone.
Install(p) ==
  /\ p \in Installers
  /\ stage[p] = "idle" /\ Go(p, IF Exists("config") THEN "done" ELSE "ask")
  /\ UNCHANGED <<files, dir, mayBe, my>>

\* configure: one room.
Configure(p) ==
  /\ p \in Installers
  /\ stage[p] = "ask" /\ Go(p, "mkstemp")
  /\ \E i \in RoomID : my' = [my EXCEPT ![p].rooms = {[id |-> i, by |-> p]}]
  /\ UNCHANGED <<files, dir, mayBe>>

\* add_rooms reads the configuration and validates it.
Extensible == /\ Exists("config") /\ Config.state # "partial"
              /\ Cardinality(Config.rooms) \in 1..(MaxRooms - 1)

Read(p) ==
  /\ p \in Adders
  /\ stage[p] = "idle"
  /\ \/ Extensible /\ Go(p, "ask") /\ my' = [my EXCEPT ![p].rooms = Config.rooms]
     \/ ~Extensible /\ Go(p, "failed") /\ UNCHANGED my
  /\ UNCHANGED <<files, dir, mayBe>>

\* The ids unique_identifier accepts.  (Mutated form: those not added just now.)
Acceptable_SeesOwn(p) == RoomID \ Identifiers(my[p].added)
Acceptable(p) == RoomID \ Identifiers(my[p].rooms)

\* One more room; then the limit, or the user, ends the questions.
AddRoom(p) ==
  /\ p \in Adders
  /\ stage[p] = "ask"
  /\ \E i \in Acceptable(p) :
       LET room == [id |-> i, by |-> p]
           more == Cardinality(my[p].rooms) + 1 < MaxRooms IN
       /\ my' = [my EXCEPT ![p].rooms = @ \cup {room}, ![p].added = @ \cup {room}]
       /\ \E next \in (IF more THEN {"ask", "backup"} ELSE {"backup"}) : Go(p, next)
  /\ UNCHANGED <<files, dir, mayBe>>

\* replace_with_backup: chmod of the destination, then the first backup name of
\* this second that is free.
NameBackup(p) ==
  /\ stage[p] = "backup"
  /\ \/ /\ Exists("config")
        /\ \E b \in Backup : ~Exists(b) /\ my' = [my EXCEPT ![p].backup = b]
        /\ Go(p, "mkstemp")
     \/ ~Exists("config") /\ Go(p, "failed") /\ UNCHANGED my
  /\ UNCHANGED <<files, dir, mayBe>>

\* write_atomic and replace_with_backup
MakeTemp(p) ==
  /\ stage[p] = "mkstemp" /\ Go(p, "fill")
  /\ files' = Append(files, [rooms |-> {}, state |-> "partial"])
  /\ Edit([dir EXCEPT ![Temp(p)] = Len(files) + 1])
  /\ UNCHANGED my

\* json.dump, flush and fsync.
Filled(p) == [rooms |-> my[p].rooms, state |-> "synced"]

Fill(p) ==
  /\ stage[p] = "fill" /\ Go(p, "link")
  /\ files' = [files EXCEPT ![dir[Temp(p)]] = Filled(p)]
  /\ UNCHANGED <<dir, mayBe, my>>

Raise(p, what) == my' = [my EXCEPT ![p].raised = what]

\* os.link refuses a name that exists.  (Mutated form: a rename, which does not.)
MayLink_Always(name) == TRUE
MayLink(name) == ~Exists(name)

\* os.link of the temporary file as config.json.
LinkConfig(p) ==
  /\ p \in Installers
  /\ stage[p] = "link" /\ Go(p, "unlink")
  /\ \/ MayLink("config") /\ Edit([dir EXCEPT !["config"] = dir[Temp(p)]]) /\ UNCHANGED my
     \/ ~MayLink("config") /\ Raise(p, "error") /\ UNCHANGED <<dir, mayBe>>
  /\ UNCHANGED files

\* os.link of config.json as the backup.
LinkBackup(p) ==
  LET b == my[p].backup IN
  /\ p \in Adders
  /\ stage[p] = "link"
  /\ \/ /\ MayLink(b) /\ Exists("config")
        /\ Edit([dir EXCEPT ![b] = dir["config"]])
        /\ my' = [my EXCEPT ![p].linked = TRUE]
        /\ Go(p, "replace")
     \/ /\ ~MayLink(b) \/ ~Exists("config")
        /\ Raise(p, "error") /\ Go(p, "undo")
        /\ UNCHANGED <<dir, mayBe>>
  /\ UNCHANGED files

\* os.replace
Replace(p) ==
  /\ stage[p] = "replace" /\ Go(p, "sync")
  /\ Edit([dir EXCEPT !["config"] = dir[Temp(p)], ![Temp(p)] = 0])
  /\ my' = [my EXCEPT ![p].replaced = TRUE]
  /\ UNCHANGED files

\* os.fsync of the directory.  (Mutated form: left out.)
Synced_Never == UNCHANGED mayBe
Synced == mayBe' = {dir}

SyncDirectory(p) ==
  /\ stage[p] = "sync" /\ Go(p, "unlink")
  /\ Synced
  /\ UNCHANGED <<files, dir, my>>

\* A system call fails, with no effect.
CallFails(p) ==
  /\ Raise(p, "error")
  /\ \/ stage[p] \in {"backup", "mkstemp"} /\ Go(p, "failed")
     \/ stage[p] \in {"fill", "link"} /\ p \in Installers /\ Go(p, "unlink")
     \/ stage[p] \in {"fill", "link", "replace", "sync"} /\ p \in Adders /\ Go(p, "undo")
  /\ UNCHANGED <<files, dir, mayBe>>

\* except: a backup of what was not replaced is taken back.  (Mutated forms: even
\* if it was replaced; never.)
TakesBack_Never(p) == FALSE
TakesBack_Always(p) == my[p].linked
TakesBack(p) == my[p].linked /\ ~my[p].replaced /\ Exists("config")

Undo(p) ==
  /\ stage[p] = "undo" /\ Go(p, "unlink")
  /\ \/ TakesBack(p) /\ Edit([dir EXCEPT ![my[p].backup] = 0])
     \/ ~TakesBack(p) /\ UNCHANGED <<dir, mayBe>>
  /\ UNCHANGED <<files, my>>

\* finally: the temporary name goes, if it is still there.  The run ends; if
\* nothing was raised, it announces what it did.
Unlink(p) ==
  /\ stage[p] = "unlink"
  /\ Go(p, CASE my[p].raised = "nothing" -> "done"
             [] my[p].raised = "error" -> "failed"
             [] my[p].raised = "interrupt" -> "dead")
  /\ \/ Exists(Temp(p)) /\ Edit([dir EXCEPT ![Temp(p)] = 0])
     \/ ~Exists(Temp(p)) /\ UNCHANGED <<dir, mayBe>>
  /\ UNCHANGED <<files, my>>

-----------------------------------------------------------------------------
\* Ctrl-C (no Exception, so the backup stays), or a signal that cannot be caught.
Interrupt(p) ==
  /\ \/ stage[p] \in {"ask", "backup", "mkstemp"} /\ Go(p, "dead") /\ UNCHANGED my
     \/ stage[p] \in {"fill", "link", "replace", "sync"} /\ Go(p, "unlink")
        /\ Raise(p, "interrupt")
  /\ UNCHANGED <<files, dir, mayBe>>

Kill(p) == /\ stage[p] \notin {"idle", "done", "failed", "dead"} /\ Go(p, "dead")
           /\ UNCHANGED <<files, dir, mayBe, my>>

\* The power goes and comes back: every run in progress is gone.
PowerLoss ==
  /\ \E d \in mayBe : dir' = d /\ mayBe' = {d}
  /\ files' = [i \in DOMAIN files |->
                 IF files[i].state = "synced" THEN files[i]
                 ELSE [rooms |-> {}, state |-> "partial"]]
  /\ stage' = [p \in Run |-> IF stage[p] \in {"idle", "done", "failed"}
                             THEN stage[p] ELSE "dead"]
  /\ UNCHANGED my

RunNext(p) ==
  \/ Install(p) \/ Configure(p) \/ Read(p) \/ AddRoom(p) \/ NameBackup(p)
  \/ MakeTemp(p) \/ Fill(p) \/ LinkConfig(p) \/ LinkBackup(p) \/ Replace(p)
  \/ SyncDirectory(p) \/ CallFails(p) \/ Undo(p) \/ Unlink(p)

Next == PowerLoss \/ \E p \in Run : RunNext(p) \/ Interrupt(p) \/ Kill(p)

Spec == Init /\ [][Next]_vars

-----------------------------------------------------------------------------
(* Properties                                                              *)

\* Names point at files, locals are typed, and a run finds its temporary file
\* wherever the code takes it to be there.
TypeOK == /\ files \in Seq(File)
          /\ dir \in mayBe
          /\ mayBe \subseteq [Name -> 0..Len(files)]
          /\ stage \in [Run -> Stage]
          /\ my \in [Run -> Local]
          /\ \A p \in Run : stage[p] \in {"fill", "replace"} => Exists(Temp(p))

ConfigOf(d) == files[d["config"]]

\* Whenever the server, an installer or the power comes, config.json is absent
\* or complete (write_atomic, replace_with_backup: fsync before link, replace).
ConfigWhole == \A d \in mayBe : d["config"] # 0 => ConfigOf(d).state = "synced"

\* However many runs add rooms to what they read, config.json is one the server
\* accepts: at most MaxRooms rooms, no id twice (core/config.go, Validate).
ConfigAcceptable ==
  \A d \in mayBe : d["config"] # 0 =>
    /\ Cardinality(ConfigOf(d).rooms) \in 1..MaxRooms
    /\ \A r, s \in ConfigOf(d).rooms : r.id = s.id => r = s

\* At any time the server may be started again with the configuration.
ConfigUsable == ConfigWhole /\ ConfigAcceptable

\* README.md:46, "The normal install/update path never overwrites an existing
\* config.json": even one that another run makes after install.sh looked.  Only
\* --add-room changes it, or a power loss takes back what was not synced.
InstallNeverOverwrites ==
  [][Exists("config") /\ dir'["config"] # dir["config"] =>
       dir' \in mayBe \/ \E p \in Adders : stage[p] = "replace"]_vars

\* A run that fails before it replaced anything leaves neither its temporary
\* file nor a backup behind, at whichever call it failed; the backup's name may
\* be in use only because another run took it first.
FailureLeavesNothing ==
  [][\A p \in Run :
       LET b == my[p].backup IN
       stage[p] # "failed" /\ stage'[p] = "failed" =>
         /\ dir'[Temp(p)] = 0
         /\ b # None /\ ~my[p].replaced /\ dir'[b] # 0 =>
              \E q \in Adders \ {p} : my[q].backup = b /\ my[q].linked]_vars

\* No other --add-room has started.
AddsAlone(p) == \A q \in Adders \ {p} : stage[q] = "idle"

\* Rooms whose enrollment URLs were printed are in config.json for good, also
\* after a power loss and beside any installers, as long as no other --add-room
\* starts.
AnnouncedRoomsStay ==
  \A p \in Adders : AddsAlone(p) /\ stage[p] = "done" =>
    \A d \in mayBe : d["config"] # 0 /\ my[p].added \subseteq ConfigOf(d).rooms

\* Where config.json has the new rooms, the configuration without them is in
\* the backup, whatever failed in between: there is always a way back, as long
\* as no other --add-room starts.
BackupHasTheOld ==
  \A p \in Adders : \A d \in mayBe :
    /\ AddsAlone(p) /\ my[p].replaced
    /\ d["config"] # 0 /\ my[p].added \subseteq ConfigOf(d).rooms
    => LET b == my[p].backup IN
       d[b] # 0 /\ files[d[b]].rooms = my[p].rooms \ my[p].added

\* README.md:181, "--add-room preserves existing rooms": no step, short of a
\* power loss, takes a room out of config.json.
RoomsPreserved ==
  [][Exists("config") =>
       dir' \in mayBe \/ Config.rooms \subseteq ConfigOf(dir)'.rooms]_vars

=============================================================================
