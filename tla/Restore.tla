------------------------------ MODULE Restore ------------------------------
(***************************************************************************)
(* Backups, and putting one back (db/mod.rs, main.rs): the files beside    *)
(* the database as restore handles them, one file operation a step, with   *)
(* a crash between any two, and the numbers an account goes on from.       *)
(*                                                                         *)
(* One account is followed.  A file is the schema it has, the account's    *)
(* number in it and the last write it holds; or it does not know the       *)
(* account at all.  Writes go to the log beside the database until it is   *)
(* folded in.                                                              *)
(*                                                                         *)
(* Assumed: a restore runs alone.  That nobody uses the database is seen   *)
(* once, at its beginning, and nothing starts the server before its end.   *)
(* A server that runs makes it return an error with nothing changed.       *)
(***************************************************************************)
EXTENDS Integers, Sequences, SequencesExt

CONSTANTS
  Images,         \* versions of the server,
  SCHEMA_VERSION, \* the newest schema each knows,
  First,          \* and the one that is installed
  RESTORE_GAP,    \* how far a restore skips when nothing says how far to go
  BACKUPS_KEPT,
  MaxWrites,      \* bound: writes in all, fewer than the gap
  MaxBackups,     \* bound: backups there are at a time
  MaxAside,       \* bound: files restores have moved away
  MaxGuesses      \* bound: how often a restore may have to skip

ASSUME RestoreAssumption ==
  /\ First \in Images /\ SCHEMA_VERSION \in [Images -> Nat \ {0}]
  /\ RESTORE_GAP \in Nat /\ BACKUPS_KEPT \in Nat \ {0}
  /\ MaxWrites \in Nat /\ MaxWrites < RESTORE_GAP
  /\ MaxBackups \in Nat /\ MaxAside \in Nat /\ MaxGuesses \in Nat

VARIABLES
  image,      \* the version that is installed
  database,   \* the file in place
  log,        \* the write-ahead log beside it
  incoming,   \* the file a restore makes ready
  aside,      \* files restores have moved away, each under its own name
  backups,    \* backups, oldest first
  server,     \* whether it is up
  restore,    \* how far a restore is, of which backup, and what it replaces
  writes,     \* external: writes ever made,
  top,        \* the highest number handed out for one,
  guesses     \* and how often a restore had to skip

history == <<writes, top, guesses>>

vars == <<image, database, log, incoming, aside, backups, server, restore, history>>

----------------------------------------------------------------------------

NoFile == [there |-> FALSE, schema |-> 0, knows |-> FALSE, seq |-> 0, last |-> 0]
Fresh(version) == [NoFile EXCEPT !.there = TRUE, !.schema = SCHEMA_VERSION[version]]
\* A log has what the database will be once it is folded in.
NoLog == [there |-> FALSE, own |-> TRUE, after |-> NoFile]
NoRestore == [at |-> "idle", from |-> NoFile, replaced |-> FALSE]

\* What a reader of the database finds.
Current == IF log.there THEN log.after ELSE database

Init ==
  /\ image = First
  /\ database = [Fresh(First) EXCEPT !.knows = TRUE]
  /\ log = NoLog
  /\ incoming = NoFile
  /\ aside = <<>>
  /\ backups = <<>>
  /\ server = "up"
  /\ restore = NoRestore
  /\ writes = 0 /\ top = 0 /\ guesses = 0

----------------------------------------------------------------------------
(* The server.                                                             *)

\* Mutant: whichever schema the database has.
OpensAny(version, file) == TRUE

\* migrate: no version opens a database newer than itself.
CanOpen(version, file) == file.there => file.schema <= SCHEMA_VERSION[version]

Migrated(version, file) ==
  IF file.schema < SCHEMA_VERSION[version]
    THEN [file EXCEPT !.schema = SCHEMA_VERSION[version]] ELSE file

\* What Db::open leaves: a database where there was none, or the one there was,
\* at the schema of the version that opens it.
Opened(version) == IF database.there THEN Migrated(version, Current) ELSE Fresh(version)

\* The migration is in the log, like everything that is written.
Start ==
  /\ server = "down" /\ restore.at = "idle" /\ CanOpen(image, Current)
  /\ server' = "up"
  /\ IF database.there
     THEN /\ log' = IF Current = Opened(image)
                      THEN log ELSE [log EXCEPT !.there = TRUE, !.after = Opened(image)]
          /\ UNCHANGED database
     ELSE database' = Opened(image) /\ UNCHANGED log
  /\ UNCHANGED <<image, incoming, aside, backups, restore, history>>

\* A push hands out the next number.
Write ==
  /\ server = "up" /\ Current.knows /\ writes < MaxWrites
  /\ writes' = writes + 1
  /\ top' = IF Current.seq + 1 > top THEN Current.seq + 1 ELSE top
  /\ log' = [log EXCEPT !.there = TRUE,
                        !.after = [Current EXCEPT !.seq = @ + 1, !.last = writes + 1]]
  /\ UNCHANGED <<image, database, incoming, aside, backups, server, restore, guesses>>

\* The oldest backups go once there are too many.
KeepNewest(files) ==
  IF Len(files) > BACKUPS_KEPT THEN SubSeq(files, Len(files) - BACKUPS_KEPT + 1, Len(files))
                               ELSE files

\* backup_to: one consistent copy, what is in the log included.
BackupTo(version) == Append(backups, Opened(version))

\* The maintenance, once a day.
Nightly ==
  /\ server = "up"
  /\ backups' = KeepNewest(BackupTo(image))
  /\ UNCHANGED <<image, database, log, incoming, aside, server, restore, history>>

\* The command opens the database itself, whether or not the server has it
\* open, and keeps all backups there are.
BackupCommand(version) ==
  /\ restore.at = "idle" /\ Len(backups) < MaxBackups /\ CanOpen(version, Current)
  /\ backups' = BackupTo(version)
  /\ IF server = "up" THEN UNCHANGED <<database, log>>
                      ELSE database' = Opened(version) /\ log' = NoLog
  /\ UNCHANGED <<image, incoming, aside, server, restore, history>>

\* The last connection to close folds the log in.
Stop ==
  /\ server = "up"
  /\ server' = "down"
  /\ database' = Current
  /\ log' = NoLog
  /\ UNCHANGED <<image, incoming, aside, backups, restore, history>>

\* Or the server is killed, and it stays.
Kill ==
  /\ server = "up"
  /\ server' = "down"
  /\ UNCHANGED <<image, database, log, incoming, aside, backups, restore, history>>

----------------------------------------------------------------------------
(* Restore.                                                                *)

\* Mutant: the log is left to be removed with the rest.
FoldedLater == [database |-> database, log |-> log]

\* Leaving WAL mode needs the only connection, and folds the log in.
Folded == [database |-> Current, log |-> NoLog]

\* The backup is sound and not newer than the version that restores it, and the
\* database in use by nobody.
RestoreChecks(version, from) ==
  /\ restore.at = "idle" /\ server = "down" /\ Len(aside) < MaxAside
  /\ CanOpen(version, from)
  /\ restore' = [NoRestore EXCEPT !.at = "checked", !.from = from,
                                  !.replaced = database.there]
  /\ IF database.there THEN database' = Folded.database /\ log' = Folded.log
                       ELSE UNCHANGED <<database, log>>
  /\ UNCHANGED <<image, incoming, aside, backups, server, history>>

\* What an earlier restore left is removed, and the backup copied.
RestoreCopies ==
  /\ restore.at = "checked"
  /\ incoming' = restore.from
  /\ restore' = [restore EXCEPT !.at = "copied"]
  /\ UNCHANGED <<image, database, log, aside, backups, server, history>>

\* Mutant: the numbers go on from the backup's.
CarriedNot(file, before) == file.seq

\* carry_numbers_forward: from what the replaced database says, or from well
\* past the backup's.
Carried(file, before) ==
  IF before.knows THEN IF before.seq > file.seq THEN before.seq ELSE file.seq
                  ELSE file.seq + RESTORE_GAP

\* The replaced database may be too damaged to say.
RestoreNumbers ==
  \E before \in {NoFile} \cup (IF restore.replaced THEN {database} ELSE {}) :
    LET guess == incoming.knows /\ ~before.knows
    IN  /\ restore.at = "copied"
        /\ guess => guesses < MaxGuesses
        /\ incoming' = IF incoming.knows
                         THEN [incoming EXCEPT !.seq = Carried(incoming, before)]
                         ELSE incoming
        /\ guesses' = IF guess THEN guesses + 1 ELSE guesses
        /\ restore' = [restore EXCEPT !.at = "ready"]
        /\ UNCHANGED <<image, database, log, aside, backups, server, writes, top>>

\* A copy that fails halfway is removed.
RestoreFails ==
  /\ restore.at \in {"checked", "copied"}
  /\ incoming' = NoFile
  /\ restore' = NoRestore
  /\ UNCHANGED <<image, database, log, aside, backups, server, history>>

\* What was there could not be moved away: the copy stays, nothing else happens.
RestoreStays ==
  /\ restore.at = "ready" /\ restore.replaced
  /\ restore' = NoRestore
  /\ UNCHANGED <<image, database, log, incoming, aside, backups, server, history>>

\* A log left beside the database is not the log of the file that comes.
Disowned == [log EXCEPT !.own = ~log.there]

\* Mutant: one name for what restores move away, whichever restore it was.
KeptOneAside == <<database>>

KeptAside == Append(aside, database)

RestoreMovesAside ==
  /\ restore.at = "ready"
  /\ IF restore.replaced
     THEN /\ aside' = KeptAside
          /\ database' = NoFile
          /\ log' = Disowned
     ELSE UNCHANGED <<aside, database, log>>
  /\ restore' = [restore EXCEPT !.at = "moved"]
  /\ UNCHANGED <<image, incoming, backups, server, history>>

RestoreSwaps ==
  /\ restore.at = "moved"
  /\ database' = incoming
  /\ incoming' = NoFile
  /\ restore' = [restore EXCEPT !.at = "swapped"]
  /\ UNCHANGED <<image, log, aside, backups, server, history>>

\* The backup could not be put in place, and what was there is put back.
RestoreTakesBack ==
  /\ restore.at = "moved"
  /\ IF restore.replaced
     THEN /\ database' = Last(aside)
          /\ aside' = Front(aside)
          /\ log' = [log EXCEPT !.own = TRUE]
     ELSE UNCHANGED <<database, aside, log>>
  /\ restore' = NoRestore
  /\ UNCHANGED <<image, incoming, backups, server, history>>

\* A log that is still beside it goes.
RestoreCleans ==
  /\ restore.at = "swapped"
  /\ log' = NoLog
  /\ restore' = NoRestore
  /\ UNCHANGED <<image, database, incoming, aside, backups, server, history>>

\* Power fails anywhere in between, or what was moved cannot be put back, and
\* the files are as they are.
Crash ==
  /\ restore.at # "idle"
  /\ restore' = NoRestore
  /\ UNCHANGED <<image, database, log, incoming, aside, backups, server, history>>

Next ==
  \/ Start \/ Write \/ Nightly \/ BackupCommand(image) \/ Stop \/ Kill
  \/ \E from \in ToSet(backups) : RestoreChecks(image, from)
  \/ RestoreCopies \/ RestoreNumbers \/ RestoreFails \/ RestoreStays
  \/ RestoreMovesAside \/ RestoreSwaps \/ RestoreTakesBack \/ RestoreCleans \/ Crash

Spec == Init /\ [][Next]_vars

----------------------------------------------------------------------------
(* Properties.                                                             *)

Numbers == 0 .. MaxWrites + MaxGuesses * RESTORE_GAP

File == [there : BOOLEAN, schema : Nat, knows : BOOLEAN, seq : Numbers, last : 0 .. MaxWrites]

\* Type invariant of the files restore (db/mod.rs) and the backups handle: no
\* number is past what writes and gaps add up to.
TypeOK ==
  /\ image \in Images /\ database \in File /\ incoming \in File /\ restore.from \in File
  /\ ToSet(aside) \subseteq File /\ ToSet(backups) \subseteq File
  /\ log.after \in File /\ log.there \in BOOLEAN /\ log.own \in BOOLEAN
  /\ restore.at \in {"idle", "checked", "copied", "ready", "moved", "swapped"}
  /\ server \in {"up", "down"}

\* carry_numbers_forward: whichever backups were put back and wherever a
\* restore was cut, a write is numbered past every write before it, those a
\* restore took back included: devices never step back below what they read.
NumbersGrow == [][writes' > writes => Current'.seq > top]_vars

\* restore keeps what was there: the last write ever made is in the database or
\* in a file moved aside, at every step of a restore and after a crash at any.
KeepsNewest == \E file \in ToSet(aside) \cup {Current} : file.last = writes

\* A log beside the database is of the file in place whenever the server opens
\* it: it is never played over a backup, not after a crash before the leftover
\* log is removed either.
NoForeignLog ==
  /\ TypeOK
  /\ server = "up" => log.own

=============================================================================
