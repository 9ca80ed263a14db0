------------------------------- MODULE Update -------------------------------
(***************************************************************************)
(* Updating the server (update.sh), over the database and its backups of   *)
(* Restore: the script as one command a step, killed between any two, with *)
(* a new version that may migrate the database and then not come up.       *)
(*                                                                         *)
(* .env and compose.yaml are the version they name: an image, or the tag   *)
(* "latest" and what that stands for on this machine.                      *)
(*                                                                         *)
(* Assumed: an image that ran here can be had again, and a version either  *)
(* comes up on every database it can open or never comes up healthy.       *)
(* Nobody stops the server or runs its commands while the script is at     *)
(* work.  The move from the server's former name only renames things and   *)
(* is left out, as is where the script and compose.yaml come from.         *)
(***************************************************************************)
EXTENDS Restore

CONSTANT Newest   \* what the tag latest stands for in the registry

ASSUME UpdateAssumption == Newest \in Images /\ "latest" \notin Images

VARIABLES
  tag,      \* what .env says to run
  latest,   \* the image that latest is on this machine
  script,   \* how far it is, the tag that was saved, the image that ran, the
            \* backup it made, and whether putting that back failed
  works     \* external: images that come up

update == <<tag, latest, script, works>>
allvars == <<vars, update>>

Tags == Images \cup {"latest"}

Named(t) == IF t = "latest" THEN latest ELSE t

NoScript == [at |-> "off", saved |-> "latest", ran |-> First, backup |-> NoFile, lost |-> FALSE]

\* The script is not at work.
Idle == script.at \in {"off", "done"}

UpdateInit ==
  /\ Init
  /\ tag \in {"latest", First}
  /\ latest = First
  /\ script = NoScript
  /\ works \in {images \in SUBSET Images : First \in images}

----------------------------------------------------------------------------
(* Compose.                                                                *)

\* up -d: another image means another container, after the old one has stopped
\* in order or, out of time, has not.  Docker starts it (Start), as it does
\* whenever the server was not stopped by hand.
ComposeUp(version) ==
  /\ image' = version
  /\ IF version = image \/ server = "down"
     THEN UNCHANGED <<server, database, log>>
     ELSE /\ server' = "down"
          /\ \/ database' = Current /\ log' = NoLog
             \/ UNCHANGED <<database, log>>
  /\ UNCHANGED <<incoming, aside, backups, restore, history>>

\* The admin runs it, or the machine starts again.
UpByHand ==
  /\ Idle /\ restore.at = "idle" /\ Named(tag) # image
  /\ ComposeUp(Named(tag))
  /\ script' = NoScript
  /\ UNCHANGED <<tag, latest, works>>

----------------------------------------------------------------------------
(* The script, to where the new version is started.                        *)

\* set_env: the tag that was asked for is written down.
Follows(asked) == tag' = asked

\* After what there is now is saved.
Begins(asked) ==
  /\ Idle /\ restore.at = "idle"
  /\ script' = [NoScript EXCEPT !.at = "begun", !.saved = tag, !.ran = image]
  /\ Follows(asked)
  /\ UNCHANGED <<vars, latest, works>>

BacksUp ==
  /\ script.at = "begun" /\ server = "up" /\ Len(backups) < MaxBackups
  /\ backups' = BackupTo(image)
  /\ script' = [script EXCEPT !.at = "backed", !.backup = Last(backups')]
  /\ UNCHANGED <<image, database, log, incoming, aside, server, restore, history,
                 tag, latest, works>>

\* Not asked for, not running, or failed and to be done without.
NoBackup ==
  /\ script.at = "begun"
  /\ script' = [script EXCEPT !.at = "backed"]
  /\ UNCHANGED <<vars, tag, latest, works>>

Pulls ==
  /\ script.at = "backed"
  /\ latest' = IF tag = "latest" THEN Newest ELSE latest
  /\ script' = [script EXCEPT !.at = "pulled"]
  /\ UNCHANGED <<vars, tag, works>>

\* Compose refuses the files, the backup or the download fails: put_back.
NothingChanged ==
  /\ script.at \in {"begun", "backed"}
  /\ tag' = script.saved
  /\ script' = NoScript
  /\ UNCHANGED <<vars, latest, works>>

StartsNew ==
  /\ script.at = "pulled"
  /\ ComposeUp(Named(tag))
  /\ script' = [script EXCEPT !.at = "new"]
  /\ UNCHANGED <<tag, latest, works>>

----------------------------------------------------------------------------
(* And back, when the new version does not come up.                        *)

\* wait_healthy: nobody else answers with the server's own key.
Healthy == server = "up" /\ image \in works

ComesUp ==
  /\ script.at \in {"new", "old"} /\ Healthy
  /\ script' = [script EXCEPT !.at = "done"]
  /\ UNCHANGED <<vars, tag, latest, works>>

\* Mutant: the files go back to what they were, whichever version that means.
PinnedAsSaved == script.saved

\* The exact version that ran before.
Pinned == script.ran

\* It fell over, or was not healthy within two minutes.
GivesUpOnNew ==
  /\ script.at = "new"
  /\ tag' = Pinned
  /\ script' = [script EXCEPT !.at = "back"]
  /\ UNCHANGED <<vars, latest, works>>

StartsOld ==
  /\ script.at = "back"
  /\ ComposeUp(Named(tag))
  /\ script' = [script EXCEPT !.at = "old"]
  /\ UNCHANGED <<tag, latest, works>>

\* Without a backup there is nothing more to try.
GivesUpOnOld ==
  /\ script.at = "old" /\ ~script.backup.there
  /\ script' = [script EXCEPT !.at = "done"]
  /\ UNCHANGED <<vars, tag, latest, works>>

\* compose stop, so that nobody uses the database.
StopsForBackup ==
  /\ script.at = "old" /\ script.backup.there
  /\ IF server = "up" THEN Stop ELSE UNCHANGED vars
  /\ script' = [script EXCEPT !.at = "stopped"]
  /\ UNCHANGED <<tag, latest, works>>

PutsBackupBack ==
  /\ script.at = "stopped" /\ script.backup \in ToSet(backups)
  /\ RestoreChecks(Named(tag), script.backup)
  /\ script' = [script EXCEPT !.at = "restoring"]
  /\ UNCHANGED <<tag, latest, works>>

RestoreRefused ==
  /\ script.at = "stopped"
  /\ script' = [script EXCEPT !.at = "done", !.lost = TRUE]
  /\ UNCHANGED <<vars, tag, latest, works>>

\* The command it waits for returns, and up -d is next.
Returns(failed) ==
  /\ script' = IF script.at = "restoring" THEN [script EXCEPT !.at = "done", !.lost = failed]
                                          ELSE script
  /\ UNCHANGED <<tag, latest, works>>

\* Killed: the files stay as they are, and a command it waits for goes on.
Killed ==
  /\ ~Idle
  /\ script' = NoScript
  /\ UNCHANGED <<vars, tag, latest, works>>

PowerFails ==
  /\ Crash
  /\ script' = IF Idle THEN script ELSE NoScript
  /\ UNCHANGED <<tag, latest, works>>

----------------------------------------------------------------------------

\* What goes on by itself.
Alone == (script.at # "stopped" /\ Start) \/ Write \/ Nightly \/ Kill

\* Commands run in the container, or in one of the version that .env names.
ByHand ==
  /\ Idle
  /\ \/ BackupCommand(IF server = "up" THEN image ELSE Named(tag))
     \/ \E from \in ToSet(backups) : RestoreChecks(Named(tag), from)
     \/ restore.at = "idle" /\ Stop

UpdateNext ==
  \/ (Alone \/ ByHand) /\ UNCHANGED update
  \/ (RestoreCopies \/ RestoreNumbers \/ RestoreMovesAside \/ RestoreSwaps) /\ UNCHANGED update
  \/ (RestoreFails \/ RestoreStays \/ RestoreTakesBack) /\ Returns(TRUE)
  \/ RestoreCleans /\ Returns(FALSE)
  \/ UpByHand \/ \E asked \in Tags : Begins(asked)
  \/ BacksUp \/ NoBackup \/ Pulls \/ NothingChanged \/ StartsNew \/ ComesUp
  \/ GivesUpOnNew \/ StartsOld \/ GivesUpOnOld \/ StopsForBackup
  \/ PutsBackupBack \/ RestoreRefused \/ Killed \/ PowerFails

UpdateSpec == UpdateInit /\ [][UpdateNext]_allvars

----------------------------------------------------------------------------
(* Properties.                                                             *)

\* Type invariant of the script and of what it changes (update.sh).
UpdateTypeOK ==
  /\ tag \in Tags /\ latest \in Images /\ works \subseteq Images
  /\ script.at \in {"off", "begun", "backed", "pulled", "new", "back", "old", "stopped",
                    "restoring", "done"}
  /\ script.saved \in Tags /\ script.ran \in Images /\ script.backup \in File
  /\ script.lost \in BOOLEAN

\* An older server "would not keep up what the newer one added": whichever
\* version is installed over, taken back or run as a command, a server that is
\* up is on a database of exactly its schema (migrate).
SchemaFits ==
  /\ UpdateTypeOK
  /\ server = "up" => Current.schema = SCHEMA_VERSION[image]

\* "If it does not come back, the old version does": a script that ends by
\* itself, having made a backup of a version that works, leaves .env naming the
\* version that is installed, and one that works and opens the database, also
\* when the new one migrated it and did not come up, unless putting the backup
\* back failed (put_back, set_env and restore at the end of update.sh).
ComesBack ==
  script.at = "done" /\ script.backup.there /\ script.ran \in works /\ ~script.lost =>
    /\ Named(tag) = image
    /\ image \in works
    /\ CanOpen(image, Current)

=============================================================================
