---------------------------- MODULE UpdateProofs ----------------------------
(***************************************************************************)
(* Updates and restores: theorems for any versions, any number of backups  *)
(* and of restores, whoever runs them and wherever they are cut.           *)
(***************************************************************************)
EXTENDS Update, SequenceTheorems, TLAPS

----------------------------------------------------------------------------
(* The inductive invariant.                                                *)

\* What a file looks like, and how far its numbers may go: Reach is where writes
\* and skips have brought an account at most.
Shape == [there : BOOLEAN, schema : Nat, knows : BOOLEAN, seq : Nat, last : Nat]
Reach == writes + guesses * RESTORE_GAP
Files(w, r) == {f \in Shape : f.last <= w /\ f.seq <= r}
FilesNow == Files(writes, Reach)
Backups(files) == {f \in files : f.there}

Typed ==
  /\ image \in Images /\ server \in {"up", "down"}
  /\ log \in [there : BOOLEAN, own : BOOLEAN, after : Shape]
  /\ restore \in [at : {"idle", "checked", "copied", "ready", "moved", "swapped"},
                  from : Shape, replaced : BOOLEAN]
  /\ database \in Shape /\ incoming \in Shape /\ aside \in Seq(Shape) /\ backups \in Seq(Shape)
  /\ writes \in Nat /\ writes <= MaxWrites /\ top \in Nat
  /\ guesses \in Nat /\ guesses <= MaxGuesses

ScriptTyped ==
  /\ script \in [at : {"off", "begun", "backed", "pulled", "new", "back", "old", "stopped",
                       "restoring", "done"},
                 saved : Tags, ran : Images, backup : Shape, lost : BOOLEAN]
  /\ tag \in Tags /\ latest \in Images /\ works \subseteq Images

\* Every file there is has numbers within reach.
FilesOK ==
  /\ database \in FilesNow /\ incoming \in FilesNow /\ aside \in Seq(FilesNow)
  /\ restore.from \in FilesNow /\ log.after \in FilesNow
  /\ backups \in Seq(Backups(FilesNow))

\* A log is the database's own; while a restore goes on there is none and the
\* server is down.
LogOK ==
  /\ log.own
  /\ ~database.there => database = NoFile
  /\ log.there => database.there /\ log.after.there
  /\ restore.at # "idle" => ~log.there /\ server = "down"

\* How far a restore is says which file is where.
RestoreOK ==
  /\ restore.at # "idle" => restore.from.there
  /\ restore.at \in {"checked", "copied", "ready"} => restore.replaced = database.there
  /\ restore.at \in {"copied", "ready", "moved"} =>
       incoming.there /\ incoming.schema = restore.from.schema
  /\ restore.at = "moved" => /\ database = NoFile
                             /\ restore.replaced => aside # <<>> /\ Last(aside).there
  /\ restore.at = "swapped" => database.there /\ database.schema = restore.from.schema

\* A script that went through, or found its way back.
Back == script.at = "done" /\ script.backup.there /\ script.ran \in works /\ ~script.lost

\* What the script knows of the version that runs; and whatever can become the
\* database of a server it brought back can be opened by its version.
ScriptOK ==
  /\ script.backup \in FilesNow
  /\ restore.at # "idle" => script.at \in {"off", "done", "restoring"}
  /\ script.at = "new" => Named(tag) = image
  /\ script.at = "back" => tag = script.ran
  /\ script.at \in {"old", "stopped", "restoring"} => tag = script.ran /\ image = script.ran
  /\ script.at = "restoring" => restore.at # "idle" /\ CanOpen(image, restore.from)
  /\ Back =>
       /\ Named(tag) = image /\ image \in works /\ CanOpen(image, Current)
       /\ restore.at # "idle" => CanOpen(image, restore.from)
       /\ restore.at = "moved" /\ restore.replaced => CanOpen(image, Last(aside))

\* A server that is up is on a database of its own schema.
Fits == server = "up" => Current.schema = SCHEMA_VERSION[image]

UpdateInv ==
  /\ Typed /\ ScriptTyped /\ FilesOK /\ LogOK /\ RestoreOK /\ ScriptOK /\ Fits /\ KeepsNewest

\* The number an account goes on from is past all that were handed out, in
\* whatever file becomes the database.
Past(file, n) == file.knows => file.seq >= n

NumbersOK ==
  /\ top <= Reach
  /\ Past(Current, top)
  /\ restore.at \in {"ready", "moved"} => Past(incoming, top)
  /\ restore.at = "moved" /\ restore.replaced => Past(Last(aside), top)

----------------------------------------------------------------------------
(* Files.                                                                  *)

\* The constant records, and the bounds.
LEMMA Constants ==
  /\ First \in Images /\ \A v \in Images : SCHEMA_VERSION[v] \in Nat
  /\ RESTORE_GAP \in Nat /\ MaxWrites \in Nat /\ MaxWrites < RESTORE_GAP /\ MaxGuesses \in Nat
  /\ NoFile \in Shape /\ ~NoFile.there /\ NoFile.last = 0 /\ NoFile.seq = 0 /\ ~NoFile.knows
  /\ NoLog.own /\ ~NoLog.there /\ NoLog.after = NoFile
  /\ NoLog \in [there : BOOLEAN, own : BOOLEAN, after : Shape]
  /\ NoRestore.at = "idle" /\ NoRestore.from = NoFile
  /\ NoRestore \in [at : {"idle", "checked", "copied", "ready", "moved", "swapped"},
                    from : Shape, replaced : BOOLEAN]
BY RestoreAssumption DEF NoFile, Shape, NoLog, NoRestore

\* A version's fresh database knows nobody.
LEMMA FreshIs ==
  ASSUME NEW v \in Images
  PROVE  /\ Fresh(v) \in Shape /\ Fresh(v).there /\ Fresh(v).schema = SCHEMA_VERSION[v]
         /\ Fresh(v).last = 0 /\ Fresh(v).seq = 0 /\ ~Fresh(v).knows
BY Constants DEF Fresh, Shape

\* What a reader finds is a file, there whenever the database is.
LEMMA CurrentIs ==
  ASSUME Typed, LogOK
  PROVE  /\ Current \in Shape /\ Current.there = database.there
         /\ ~database.there => Current = NoFile
         /\ restore.at # "idle" => Current = database
BY Constants DEF Typed, LogOK, Current

\* Opening a database changes nothing in it but its schema.
LEMMA OpenedIs ==
  ASSUME Typed, LogOK, NEW v \in Images
  PROVE  /\ Opened(v) \in Shape /\ Opened(v).there
         /\ Opened(v).last = Current.last /\ Opened(v).seq = Current.seq
         /\ Opened(v).knows = Current.knows
         /\ CanOpen(v, Current) => Opened(v).schema = SCHEMA_VERSION[v]
<1>1. CASE database.there
  <2>1. Current \in Shape /\ Current.there /\ SCHEMA_VERSION[v] \in Nat
    BY <1>1, CurrentIs, Constants
  <2> DEFINE c == Current
  <2>2. c \in Shape /\ c.there /\ Opened(v) = Migrated(v, c)
    BY <1>1, <2>1 DEF Opened
  <2> HIDE DEF c
  <2>3. CASE c.schema < SCHEMA_VERSION[v]
    BY <2>1, <2>2, <2>3 DEF Migrated, Shape, c
  <2>4. CASE ~(c.schema < SCHEMA_VERSION[v])
    BY <2>1, <2>2, <2>4 DEF Migrated, Shape, CanOpen, c
  <2> QED
    BY <2>3, <2>4
<1>2. CASE ~database.there
  <2>1. Opened(v) = Fresh(v) /\ Current = NoFile
    BY <1>2, CurrentIs DEF Opened
  <2>2. ~Fresh(v).knows /\ ~NoFile.knows /\ Fresh(v).knows = NoFile.knows
    BY FreshIs, Constants DEF Shape
  <2> QED
    BY <2>1, <2>2, FreshIs, Constants
<1> QED
  BY <1>1, <1>2

\* The newest backups are backups.
LEMMA KeptAreThere ==
  ASSUME NEW S, NEW s \in Seq(S)
  PROVE  /\ KeepNewest(s) \in Seq(S)
         /\ \A i \in DOMAIN KeepNewest(s) : \E j \in DOMAIN s : KeepNewest(s)[i] = s[j]
<1>0. BACKUPS_KEPT \in Nat \ {0} /\ Len(s) \in Nat /\ DOMAIN s = 1..Len(s)
      /\ s \in [1..Len(s) -> S]
  BY RestoreAssumption, LenProperties
<1>1. CASE Len(s) > BACKUPS_KEPT
  <2> DEFINE m == Len(s) - BACKUPS_KEPT + 1
             t == SubSeq(s, m, Len(s))
  <2>1. m \in Int /\ m >= 1 /\ Len(s) - m + 1 = BACKUPS_KEPT /\ m <= Len(s)
    BY <1>0, <1>1
  <2>2. \A i \in m..Len(s) : s[i] \in S
    BY <1>0, <2>1
  <2> HIDE DEF m
  <2>3. /\ t \in Seq(S) /\ Len(t) = Len(s) - m + 1
        /\ \A i \in 1..(Len(s) - m + 1) : t[i] = s[m + i - 1]
    BY <1>0, <2>1, <2>2, SubSeqProperties
  <2>4. ASSUME NEW i \in DOMAIN t PROVE \E j \in DOMAIN s : t[i] = s[j]
    <3>1. i \in 1..Len(t)
      BY <2>3, <2>4, LenProperties
    <3>2. t[i] = s[m + i - 1] /\ m + i - 1 \in DOMAIN s
      BY <1>0, <2>1, <2>3, <3>1
    <3> QED
      BY <3>2
  <2>5. KeepNewest(s) = t
    BY <1>1 DEF KeepNewest, m
  <2> QED
    BY <2>3, <2>4, <2>5
<1>2. CASE ~(Len(s) > BACKUPS_KEPT)
  BY <1>2 DEF KeepNewest
<1> QED
  BY <1>1, <1>2

\* A sequence with one more at its end.
LEMMA AppendIs ==
  ASSUME NEW S, NEW s \in Seq(S), NEW e \in S
  PROVE  /\ Append(s, e) \in Seq(S) /\ Append(s, e) # <<>>
         /\ \A i \in DOMAIN Append(s, e) : Append(s, e)[i] = e \/ \E j \in DOMAIN s : Append(s, e)[i] = s[j]
         /\ Last(Append(s, e)) = e
         /\ ToSet(Append(s, e)) = ToSet(s) \cup {e}
<1>1. Len(s) \in Nat /\ DOMAIN s = 1..Len(s)
  BY LenProperties
<1>2. /\ Append(s, e) \in Seq(S) /\ Append(s, e) # <<>> /\ Len(Append(s, e)) = Len(s) + 1
      /\ \A i \in 1..Len(s) : Append(s, e)[i] = s[i]
      /\ Append(s, e)[Len(s) + 1] = e
  BY AppendProperties
<1>3. DOMAIN Append(s, e) = 1..(Len(s) + 1)
  BY <1>2, LenProperties
<1>4. \A i \in DOMAIN Append(s, e) : Append(s, e)[i] = e \/ \E j \in DOMAIN s : Append(s, e)[i] = s[j]
  BY <1>1, <1>2, <1>3
<1>5. ToSet(Append(s, e)) = ToSet(s) \cup {e}
  <2>1. ToSet(s) \subseteq ToSet(Append(s, e)) /\ e \in ToSet(Append(s, e))
    BY <1>1, <1>2, <1>3 DEF ToSet
  <2>2. ToSet(Append(s, e)) \subseteq ToSet(s) \cup {e}
    BY <1>4 DEF ToSet
  <2> QED
    BY <2>1, <2>2
<1>6. Last(Append(s, e)) = e
  BY <1>2 DEF Last
<1> QED
  BY <1>2, <1>4, <1>5, <1>6

\* A sequence without its last element.
LEMMA FrontIs ==
  ASSUME NEW S, NEW s \in Seq(S), s # <<>>
  PROVE  /\ Front(s) \in Seq(S) /\ Last(s) \in S /\ Last(s) \in ToSet(s)
         /\ \E j \in DOMAIN s : Last(s) = s[j]
         /\ \A i \in DOMAIN Front(s) : \E j \in DOMAIN s : Front(s)[i] = s[j]
         /\ ToSet(s) = ToSet(Front(s)) \cup {Last(s)}
<1>1. Len(s) \in Nat \ {0} /\ DOMAIN s = 1..Len(s) /\ s \in [1..Len(s) -> S]
  BY LenProperties, EmptySeq
<1>2. Last(s) \in S /\ Last(s) \in ToSet(s) /\ \E j \in DOMAIN s : Last(s) = s[j]
  BY <1>1 DEF Last, ToSet
<1> DEFINE n == Len(s) - 1
<1>3. n \in Nat /\ n + 1 = Len(s) /\ \A i \in 1..n : s[i] \in S
  BY <1>1
<1> HIDE DEF n
<1>4. Front(s) = SubSeq(s, 1, n)
  BY DEF Front, n
<1>5. /\ Front(s) \in Seq(S) /\ Len(Front(s)) = n
      /\ \A i \in 1..n : Front(s)[i] = s[i]
  <2>1. /\ SubSeq(s, 1, n) \in Seq(S) /\ Len(SubSeq(s, 1, n)) = IF 1 <= n THEN n - 1 + 1 ELSE 0
        /\ \A i \in 1..(n - 1 + 1) : SubSeq(s, 1, n)[i] = s[1 + i - 1]
    BY <1>3, SubSeqProperties
  <2> QED
    BY <1>3, <1>4, <2>1
<1>6. DOMAIN Front(s) = 1..n
  BY <1>5, LenProperties
<1>7. \A i \in DOMAIN Front(s) : Front(s)[i] = s[i] /\ i \in DOMAIN s
  BY <1>1, <1>3, <1>5, <1>6
<1>8. ToSet(s) = ToSet(Front(s)) \cup {Last(s)}
  <2>1. ToSet(Front(s)) \subseteq ToSet(s)
    BY <1>7 DEF ToSet
  <2>2. ASSUME NEW i \in DOMAIN s PROVE s[i] \in ToSet(Front(s)) \cup {Last(s)}
    <3>1. CASE i = Len(s)
      BY <3>1 DEF Last
    <3>2. CASE i # Len(s)
      <4>1. i \in DOMAIN Front(s)
        BY <1>1, <1>3, <1>6, <3>2
      <4> QED
        BY <1>7, <4>1 DEF ToSet
    <3> QED
      BY <3>1, <3>2
  <2> QED
    BY <1>2, <2>1, <2>2 DEF ToSet
<1> QED
  BY <1>2, <1>5, <1>7, <1>8

----------------------------------------------------------------------------
(* Steps.                                                                  *)

\* The version a command is of: the one that is installed, or that .env names.
Ours == {image, Named(tag)}

\* What a step does to the server and its files, whoever takes it.
FilesStep ==
  \/ UNCHANGED vars
  \/ Start \/ Write \/ Nightly \/ Kill \/ Stop
  \/ (\E v \in Ours : BackupCommand(v)) \/ BacksUp
  \/ UpByHand \/ StartsNew \/ StartsOld
  \/ \E from \in ToSet(backups) : RestoreChecks(Named(tag), from)
  \/ RestoreCopies \/ RestoreNumbers \/ RestoreFails \/ RestoreStays
  \/ RestoreMovesAside \/ RestoreSwaps \/ RestoreTakesBack \/ RestoreCleans \/ Crash

\* Every step does one of these.
LEMMA StepsAre ==
  ASSUME [UpdateNext]_allvars
  PROVE  FilesStep /\ works' = works
<1>1. CASE UNCHANGED allvars
  BY <1>1 DEF allvars, FilesStep, update
<1>2. CASE (Alone \/ ByHand) /\ UNCHANGED update
  BY <1>2 DEF Alone, ByHand, FilesStep, Ours, update
<1>3. CASE \/ (RestoreCopies \/ RestoreNumbers \/ RestoreMovesAside \/ RestoreSwaps) /\ UNCHANGED update
           \/ (RestoreFails \/ RestoreStays \/ RestoreTakesBack) /\ Returns(TRUE)
           \/ RestoreCleans /\ Returns(FALSE)
  BY <1>3, Zenon DEF FilesStep, update, Returns
<1>4. CASE UpByHand \/ BacksUp \/ StartsNew \/ StartsOld
  BY <1>4 DEF FilesStep, UpByHand, BacksUp, StartsNew, StartsOld
<1>5. CASE \/ (\E asked \in Tags : Begins(asked)) \/ NoBackup \/ Pulls \/ NothingChanged
           \/ ComesUp \/ GivesUpOnNew \/ GivesUpOnOld \/ RestoreRefused \/ Killed
  BY <1>5 DEF FilesStep, Begins, Follows, NoBackup, Pulls, NothingChanged, ComesUp, GivesUpOnNew,
              GivesUpOnOld, RestoreRefused, Killed
<1>6. CASE StopsForBackup
  BY <1>6 DEF StopsForBackup, FilesStep
<1>7. CASE PutsBackupBack
  BY <1>7, Zenon DEF PutsBackupBack, FilesStep
<1>8. CASE PowerFails
  BY <1>8, Zenon DEF PowerFails, FilesStep
<1> QED
  BY <1>1, <1>2, <1>3, <1>4, <1>5, <1>6, <1>7, <1>8, Zenon DEF UpdateNext

\* Tags name images.
LEMMA NamesAre ==
  ASSUME Typed, ScriptTyped
  PROVE  Named(tag) \in Images /\ Ours \subseteq Images
BY DEF Typed, ScriptTyped, Tags, Named, Ours

\* The shapes of the server's files are kept.
LEMMA TypedStep ==
  ASSUME Typed, ScriptTyped, LogOK, RestoreOK, FilesOK, FilesStep
  PROVE  Typed'
<1>0. /\ \A v \in Ours \cup {image} : v \in Images /\ Opened(v) \in Shape
      /\ Current \in Shape /\ NoFile \in Shape
  BY NamesAre, CurrentIs, OpenedIs, Constants DEF Typed
<1> USE DEF Typed
<1>1. CASE UNCHANGED vars
  BY <1>1 DEF vars, history
<1>2. CASE Start
  <2>1. log' \in [there : BOOLEAN, own : BOOLEAN, after : Shape]
    <3>1. \/ log' = log
          \/ log' = [log EXCEPT !.there = TRUE, !.after = Opened(image)]
      BY <1>2 DEF Start
    <3>2. Opened(image) \in Shape
      BY <1>0
    <3> QED
      BY <3>1, <3>2
  <2>2. database' \in Shape
    BY <1>0, <1>2 DEF Start
  <2> QED
    BY <1>2, <2>1, <2>2 DEF Start, history
<1>3. CASE Write
  <2>1. [Current EXCEPT !.seq = @ + 1, !.last = writes + 1] \in Shape /\ Current.seq + 1 \in Nat
    <3> DEFINE c == Current
    <3>1. c \in Shape /\ writes + 1 \in Nat
      BY <1>0
    <3> HIDE DEF c
    <3>2. c.seq + 1 \in Nat
      BY <3>1 DEF Shape
    <3>3. [c EXCEPT !.seq = c.seq + 1, !.last = writes + 1] \in Shape
      BY <3>1, <3>2 DEF Shape
    <3> QED
      BY <3>2, <3>3 DEF c
  <2>2. log' \in [there : BOOLEAN, own : BOOLEAN, after : Shape]
    BY <1>3, <2>1 DEF Write
  <2>3. top' \in Nat /\ writes' \in Nat /\ writes' <= MaxWrites
    BY <1>3, <2>1, Constants DEF Write
  <2> QED
    BY <1>3, <2>2, <2>3 DEF Write
<1>4. CASE Nightly \/ BacksUp \/ \E v \in Ours : BackupCommand(v)
  <2>1. PICK v \in Images : /\ backups' = BackupTo(v) \/ backups' = KeepNewest(BackupTo(v))
                            /\ database' = database \/ database' = Opened(v)
                            /\ log' = log \/ log' = NoLog
    BY <1>0, <1>4 DEF Nightly, BacksUp, BackupCommand
  <2>2. Opened(v) \in Shape
    BY OpenedIs
  <2>3. BackupTo(v) \in Seq(Shape)
    BY <2>2, AppendIs DEF BackupTo
  <2>4. backups' \in Seq(Shape)
    BY <2>1, <2>3, KeptAreThere
  <2>5. UNCHANGED <<image, server, restore, incoming, aside, writes, top, guesses>>
    BY <1>4 DEF Nightly, BacksUp, BackupCommand, history
  <2> QED
    BY <2>1, <2>2, <2>4, <2>5, Constants
<1>5. CASE Kill \/ Stop
  BY <1>0, <1>5, Constants DEF Kill, Stop, history
<1>6. CASE UpByHand \/ StartsNew \/ StartsOld
  <2>1. ComposeUp(Named(tag)) /\ Named(tag) \in Images
    BY <1>6, NamesAre DEF UpByHand, StartsNew, StartsOld
  <2> QED
    BY <1>0, <2>1, Constants DEF ComposeUp, history
<1>7. ASSUME NEW from \in ToSet(backups), RestoreChecks(Named(tag), from)
      PROVE  Typed'
  <2>1. from \in Shape
    BY LenProperties DEF ToSet
  <2>2. /\ restore' = [NoRestore EXCEPT !.at = "checked", !.from = from, !.replaced = database.there]
        /\ database.there \in BOOLEAN
    BY <1>7 DEF RestoreChecks, Shape
  <2>3. restore' \in [at : {"idle", "checked", "copied", "ready", "moved", "swapped"},
                      from : Shape, replaced : BOOLEAN]
    BY <2>1, <2>2, Constants
  <2>4. database' \in Shape /\ log' \in [there : BOOLEAN, own : BOOLEAN, after : Shape]
    BY <1>0, <1>7, Constants DEF RestoreChecks, Folded
  <2> QED
    BY <1>7, <2>3, <2>4 DEF RestoreChecks, history
<1>8. CASE RestoreCopies \/ RestoreFails \/ RestoreStays \/ Crash
  <2>1. /\ restore' = [restore EXCEPT !.at = "copied"] \/ restore' = NoRestore
        /\ incoming' \in {incoming, restore.from, NoFile}
    BY <1>8 DEF RestoreCopies, RestoreFails, RestoreStays, Crash
  <2>2. UNCHANGED <<image, database, log, aside, backups, server, history>>
    BY <1>8 DEF RestoreCopies, RestoreFails, RestoreStays, Crash
  <2> QED
    BY <1>0, <2>1, <2>2, Constants DEF history
<1>9. CASE RestoreNumbers
  <2>1. PICK before \in {NoFile} \cup (IF restore.replaced THEN {database} ELSE {}) :
          LET guess == incoming.knows /\ ~before.knows
          IN  /\ guess => guesses < MaxGuesses
              /\ incoming' = IF incoming.knows
                               THEN [incoming EXCEPT !.seq = Carried(incoming, before)]
                               ELSE incoming
              /\ guesses' = IF guess THEN guesses + 1 ELSE guesses
              /\ restore' = [restore EXCEPT !.at = "ready"]
              /\ UNCHANGED <<image, database, log, aside, backups, server, writes, top>>
    BY <1>9 DEF RestoreNumbers
  <2>2. before \in Shape
    BY <1>0, <2>1
  <2>3. Carried(incoming, before) \in Nat
    <3>1. incoming.seq \in Nat /\ before.seq \in Nat
      BY <2>2 DEF Shape
    <3>2. incoming.seq + RESTORE_GAP \in Nat
      BY <3>1, RestoreAssumption
    <3> QED
      BY <3>1, <3>2 DEF Carried
  <2>4. incoming' \in Shape
    BY <2>1, <2>3 DEF Shape
  <2>5. guesses' \in Nat /\ guesses' <= MaxGuesses
    BY <2>1, Constants
  <2> QED
    BY <2>1, <2>4, <2>5
<1>10. CASE RestoreMovesAside
  <2>1. KeptAside \in Seq(Shape)
    BY AppendIs DEF KeptAside
  <2>2. Disowned \in [there : BOOLEAN, own : BOOLEAN, after : Shape]
    BY DEF Disowned
  <2> QED
    BY <1>0, <1>10, <2>1, <2>2 DEF RestoreMovesAside, history
<1>11. CASE RestoreSwaps
  BY <1>0, <1>11 DEF RestoreSwaps, history
<1>12. CASE RestoreTakesBack
  <2>1. restore.replaced => Front(aside) \in Seq(Shape) /\ Last(aside) \in Shape
    BY <1>12, FrontIs DEF RestoreTakesBack, RestoreOK
  <2>2. [log EXCEPT !.own = TRUE] \in [there : BOOLEAN, own : BOOLEAN, after : Shape]
    OBVIOUS
  <2>3. /\ database' \in Shape /\ aside' \in Seq(Shape)
        /\ log' \in [there : BOOLEAN, own : BOOLEAN, after : Shape]
    BY <1>12, <2>1, <2>2 DEF RestoreTakesBack
  <2> QED
    BY <1>12, <2>3, Constants DEF RestoreTakesBack, history
<1>13. CASE RestoreCleans
  BY <1>13, Constants DEF RestoreCleans, history
<1> QED
  BY <1>1, <1>2, <1>3, <1>4, <1>5, <1>6, <1>7, <1>8, <1>9, <1>10, <1>11, <1>12, <1>13
  DEF FilesStep

----------------------------------------------------------------------------
(* Numbers within reach.                                                   *)

\* How far numbers go after another write, and after another skip.
LEMMA ReachIs ==
  ASSUME NEW w \in Nat, NEW g \in Nat
  PROVE  /\ w + g * RESTORE_GAP \in Nat
         /\ (w + 1) + g * RESTORE_GAP = (w + g * RESTORE_GAP) + 1
         /\ w + (g + 1) * RESTORE_GAP = (w + g * RESTORE_GAP) + RESTORE_GAP
BY RestoreAssumption

\* What is within reach stays so.
LEMMA ReachGrows ==
  ASSUME Typed, Typed', FilesStep
  PROVE  /\ \A f \in FilesNow : f \in FilesNow'
         /\ \/ UNCHANGED <<writes, top, guesses>> /\ Reach' = Reach
            \/ Write /\ Reach' = Reach + 1
            \/ /\ RestoreNumbers /\ UNCHANGED <<writes, top>>
               /\ \/ UNCHANGED guesses /\ Reach' = Reach
                  \/ guesses' = guesses + 1 /\ Reach' = Reach + RESTORE_GAP
<1>0. writes \in Nat /\ guesses \in Nat /\ Reach \in Nat /\ RESTORE_GAP \in Nat
  BY ReachIs, RestoreAssumption DEF Typed, Reach
<1>1. ASSUME NEW f \in FilesNow, NEW r \in Nat, NEW w \in Nat, Reach <= r, writes <= w
      PROVE  f \in Files(w, r)
  BY <1>0, <1>1 DEF FilesNow, Files, Shape
<1>2. CASE UNCHANGED <<writes, top, guesses>>
  BY <1>2 DEF FilesNow, Reach
<1>3. CASE Write
  <2>1. writes' = writes + 1 /\ guesses' = guesses
    BY <1>3 DEF Write
  <2>2. Reach' = Reach + 1
    BY <1>0, <2>1, ReachIs DEF Reach
  <2>3. \A f \in FilesNow : f \in Files(writes + 1, Reach + 1)
    BY <1>0, <1>1
  <2> QED
    BY <1>3, <2>1, <2>2, <2>3 DEF FilesNow
<1>4. CASE RestoreNumbers
  <2>1. /\ UNCHANGED <<writes, top>> /\ (guesses' = guesses \/ guesses' = guesses + 1)
    BY <1>4 DEF RestoreNumbers
  <2>2. CASE guesses' = guesses
    BY <1>4, <2>1, <2>2 DEF FilesNow, Reach
  <2>3. CASE guesses' = guesses + 1
    <3>1. Reach' = Reach + RESTORE_GAP
      BY <1>0, <2>1, <2>3, ReachIs DEF Reach
    <3>2. \A f \in FilesNow : f \in Files(writes, Reach + RESTORE_GAP)
      BY <1>0, <1>1
    <3> QED
      BY <1>4, <2>1, <2>3, <3>1, <3>2 DEF FilesNow
  <2> QED
    BY <2>1, <2>2, <2>3
<1>5. Start \/ Nightly \/ Kill \/ Stop => UNCHANGED <<writes, top, guesses>>
  BY DEF Start, Nightly, Kill, Stop, history
<1>6. (\E v \in Ours : BackupCommand(v)) \/ BacksUp => UNCHANGED <<writes, top, guesses>>
  BY DEF BackupCommand, BacksUp, history
<1>7. UpByHand \/ StartsNew \/ StartsOld => UNCHANGED <<writes, top, guesses>>
  BY DEF UpByHand, StartsNew, StartsOld, ComposeUp, history
<1>8. (\E from \in ToSet(backups) : RestoreChecks(Named(tag), from)) \/ RestoreCopies \/ RestoreFails
        => UNCHANGED <<writes, top, guesses>>
  BY DEF RestoreChecks, RestoreCopies, RestoreFails, history
<1>9. RestoreStays \/ RestoreMovesAside \/ RestoreSwaps \/ RestoreTakesBack \/ RestoreCleans \/ Crash
        => UNCHANGED <<writes, top, guesses>>
  BY DEF RestoreStays, RestoreMovesAside, RestoreSwaps, RestoreTakesBack, RestoreCleans, Crash, history
<1>10. UNCHANGED vars => UNCHANGED <<writes, top, guesses>>
  BY DEF vars, history
<1> QED
  BY <1>2, <1>3, <1>4, <1>5, <1>6, <1>7, <1>8, <1>9, <1>10 DEF FilesStep

\* Files that come of files within reach are.
LEMMA NewFiles ==
  ASSUME Typed, LogOK, FilesOK
  PROVE  /\ NoFile \in FilesNow /\ Current \in FilesNow
         /\ \A v \in Images : Opened(v) \in Backups(FilesNow)
<1>1. NoFile \in FilesNow
  <2>1. writes \in Nat /\ Reach \in Nat
    BY ReachIs DEF Typed, Reach
  <2> QED
    BY <2>1, Constants DEF FilesNow, Files
<1>2. Current \in FilesNow
  BY DEF FilesOK, Current
<1>3. ASSUME NEW v \in Images PROVE Opened(v) \in Backups(FilesNow)
  BY <1>2, OpenedIs DEF FilesNow, Files, Backups
<1> QED
  BY <1>1, <1>2, <1>3

\* Where a step takes the files it leaves: from those there were, besides what a
\* write and the numbering of a restore put in them.
LEMMA FilesCome ==
  ASSUME Typed, Typed', ScriptTyped, RestoreOK, FilesStep, NEW G,
         NoFile \in G, Current \in G, \A v \in Images : Opened(v) \in Backups(G),
         database \in G, incoming \in G, restore.from \in G, log.after \in G,
         aside \in Seq(G), backups \in Seq(Backups(G)),
         Write => log'.after \in G, RestoreNumbers => incoming' \in G
  PROVE  /\ database' \in G /\ incoming' \in G /\ restore'.from \in G /\ log'.after \in G
         /\ aside' \in Seq(G) /\ backups' \in Seq(Backups(G))
<1>0. /\ Ours \subseteq Images /\ image \in Images /\ Backups(G) \subseteq G
      /\ NoRestore.from = NoFile /\ NoLog.after = NoFile
  BY NamesAre, Constants DEF Typed, Backups
<1>1. CASE UNCHANGED vars
  BY <1>1 DEF vars
<1>2. CASE Start
  <2>1. \/ log' = log
        \/ log' = [log EXCEPT !.there = TRUE, !.after = Opened(image)]
    BY <1>2 DEF Start
  <2>2. log'.after \in G
    BY <1>0, <2>1 DEF Typed
  <2>3. database' \in {database, Opened(image)} /\ UNCHANGED <<incoming, restore, aside, backups>>
    BY <1>2 DEF Start
  <2> QED
    BY <1>0, <2>2, <2>3
<1>3. CASE Write
  BY <1>3 DEF Write
<1>4. CASE Nightly \/ BacksUp \/ \E v \in Ours : BackupCommand(v)
  <2>1. PICK v \in Images : /\ backups' = BackupTo(v) \/ backups' = KeepNewest(BackupTo(v))
                            /\ database' = database \/ database' = Opened(v)
                            /\ log' = log \/ log' = NoLog
    BY <1>0, <1>4 DEF Nightly, BacksUp, BackupCommand
  <2>2. BackupTo(v) \in Seq(Backups(G))
    BY <1>0, AppendIs DEF BackupTo
  <2>3. backups' \in Seq(Backups(G))
    <3>1. KeepNewest(BackupTo(v)) \in Seq(Backups(G))
      BY <2>2, KeptAreThere
    <3> QED
      BY <2>1, <2>2, <3>1
  <2>4. UNCHANGED <<restore, incoming, aside>>
    BY <1>4 DEF Nightly, BacksUp, BackupCommand
  <2>5. Opened(v) \in G /\ NoLog.after \in G
    BY <1>0
  <2>6. database' \in G /\ log'.after \in G
    BY <2>1, <2>5
  <2> QED
    BY <2>3, <2>4, <2>6
<1>5. CASE Kill \/ Stop
  BY <1>0, <1>5 DEF Kill, Stop
<1>6. CASE UpByHand \/ StartsNew \/ StartsOld
  <2>1. ComposeUp(Named(tag))
    BY <1>6 DEF UpByHand, StartsNew, StartsOld
  <2> QED
    BY <1>0, <2>1 DEF ComposeUp
<1>7. CASE \E from \in ToSet(backups) : RestoreChecks(Named(tag), from)
  <2>1. PICK from \in ToSet(backups) : RestoreChecks(Named(tag), from)
    BY <1>7
  <2>2. from \in G
    BY <1>0, <2>1, LenProperties DEF ToSet
  <2>3. restore'.from = from
    BY <2>1, Constants DEF RestoreChecks
  <2> QED
    BY <1>0, <2>1, <2>2, <2>3 DEF RestoreChecks, Folded
<1>8. CASE RestoreCopies \/ RestoreFails \/ RestoreStays \/ Crash
  <2>1. /\ restore' = [restore EXCEPT !.at = "copied"] \/ restore' = NoRestore
        /\ incoming' \in {incoming, restore.from, NoFile}
    BY <1>8 DEF RestoreCopies, RestoreFails, RestoreStays, Crash
  <2>2. restore'.from \in {restore.from, NoFile}
    BY <1>0, <2>1 DEF Typed
  <2>3. UNCHANGED <<database, log, aside, backups>>
    BY <1>8 DEF RestoreCopies, RestoreFails, RestoreStays, Crash
  <2> QED
    BY <2>1, <2>2, <2>3
<1>9. CASE RestoreNumbers
  <2>1. restore'.from = restore.from
    BY <1>9 DEF RestoreNumbers, Typed
  <2>2. UNCHANGED <<database, log, aside, backups>>
    BY <1>9 DEF RestoreNumbers
  <2> QED
    BY <1>9, <2>1, <2>2
<1>10. CASE RestoreMovesAside
  <2>1. KeptAside \in Seq(G)
    BY AppendIs DEF KeptAside
  <2>2. Disowned.after = log.after /\ restore'.from = restore.from
    BY <1>10 DEF Disowned, Typed, RestoreMovesAside
  <2>3. /\ database' \in {database, NoFile} /\ aside' \in {aside, KeptAside}
        /\ log' \in {log, Disowned} /\ UNCHANGED <<incoming, backups>>
    BY <1>10 DEF RestoreMovesAside
  <2> QED
    BY <2>1, <2>2, <2>3
<1>11. CASE RestoreSwaps
  <2>1. restore'.from = restore.from
    BY <1>11 DEF RestoreSwaps, Typed
  <2> QED
    BY <1>11, <2>1 DEF RestoreSwaps
<1>12. CASE RestoreTakesBack
  <2>1. restore' = NoRestore /\ UNCHANGED <<incoming, backups>>
    BY <1>12 DEF RestoreTakesBack
  <2>2. CASE restore.replaced
    <3>1. Last(aside) \in G /\ Front(aside) \in Seq(G)
      BY <1>12, <2>2, FrontIs DEF RestoreTakesBack, RestoreOK
    <3>2. [log EXCEPT !.own = TRUE].after = log.after
      BY DEF Typed
    <3> QED
      BY <1>0, <1>12, <2>1, <2>2, <3>1, <3>2 DEF RestoreTakesBack
  <2>3. CASE ~restore.replaced
    BY <1>0, <1>12, <2>1, <2>3 DEF RestoreTakesBack
  <2> QED
    BY <2>2, <2>3
<1>13. CASE RestoreCleans
  BY <1>0, <1>13 DEF RestoreCleans
<1> QED
  BY <1>1, <1>2, <1>3, <1>4, <1>5, <1>6, <1>7, <1>8, <1>9, <1>10, <1>11, <1>12, <1>13
  DEF FilesStep

\* A write's file, and a numbered one, are within the reach they bring about.
LEMMA NumbersReach ==
  ASSUME Typed, Typed', LogOK, FilesOK, FilesStep
  PROVE  /\ Write => log'.after \in FilesNow' /\ log'.after.seq = Current.seq + 1
                     /\ log'.after.last = writes' /\ log'.there /\ log'.after.there = Current.there
                     /\ log'.after.schema = Current.schema /\ log'.after.knows = Current.knows
         /\ RestoreNumbers => incoming' \in FilesNow'
<1>0. Current \in Shape /\ Current \in FilesNow /\ writes \in Nat /\ Reach \in Nat
  BY CurrentIs, NewFiles, ReachIs DEF Typed, Reach
<1>1. ASSUME Write
      PROVE  log'.after \in FilesNow' /\ log'.after.seq = Current.seq + 1
             /\ log'.after.last = writes' /\ log'.there /\ log'.after.there = Current.there
             /\ log'.after.schema = Current.schema /\ log'.after.knows = Current.knows
  <2> DEFINE c == Current
             f == [c EXCEPT !.seq = c.seq + 1, !.last = writes + 1]
  <2>1. log'.after = f /\ log'.there
    BY <1>1 DEF Write, Typed
  <2>2. c \in Shape /\ c.seq <= Reach
    BY <1>0 DEF FilesNow, Files
  <2> HIDE DEF c
  <2>3. /\ f \in Shape /\ f.seq = c.seq + 1 /\ f.last = writes + 1
        /\ f.there = c.there /\ f.schema = c.schema /\ f.knows = c.knows
    <3>1. c.seq + 1 \in Nat /\ writes + 1 \in Nat
      BY <1>0, <2>2 DEF Shape
    <3> QED
      BY <2>2, <3>1 DEF Shape
  <2> HIDE DEF f
  <2>4. Reach' = Reach + 1 /\ writes' = writes + 1
    <3>1. writes' = writes + 1
      BY <1>1 DEF Write
    <3>2. writes + 1 # writes
      BY <1>0
    <3> QED
      BY <3>1, <3>2, ReachGrows
  <2>5. f \in Files(writes + 1, Reach + 1)
    BY <1>0, <2>2, <2>3 DEF Files, Shape
  <2>6. FilesNow' = Files(writes + 1, Reach + 1)
    BY <2>4 DEF FilesNow
  <2> QED
    BY <2>1, <2>3, <2>4, <2>5, <2>6 DEF c
<1>2. ASSUME RestoreNumbers PROVE incoming' \in FilesNow'
  <2>1. PICK before \in {NoFile} \cup (IF restore.replaced THEN {database} ELSE {}) :
          LET guess == incoming.knows /\ ~before.knows
          IN  /\ incoming' = IF incoming.knows
                               THEN [incoming EXCEPT !.seq = Carried(incoming, before)]
                               ELSE incoming
              /\ guesses' = IF guess THEN guesses + 1 ELSE guesses
              /\ restore' = [restore EXCEPT !.at = "ready"]
              /\ UNCHANGED <<image, database, log, aside, backups, server, writes, top>>
    BY <1>2 DEF RestoreNumbers
  <2>2. before \in FilesNow /\ incoming \in FilesNow
    BY <2>1, NewFiles DEF FilesOK
  <2>3. CASE ~incoming.knows
    BY <2>1, <2>2, <2>3, ReachGrows
  <2>4. CASE incoming.knows
    <3> DEFINE f == [incoming EXCEPT !.seq = Carried(incoming, before)]
    <3>1. /\ incoming.seq \in Nat /\ before.seq \in Nat /\ incoming.last \in Nat
          /\ incoming.seq <= Reach /\ before.seq <= Reach /\ incoming.last <= writes
          /\ incoming \in Shape /\ guesses \in Nat
      BY <2>2 DEF FilesNow, Files, Shape, Typed
    <3>2. incoming.seq + RESTORE_GAP \in Nat /\ incoming.seq + RESTORE_GAP <= Reach + RESTORE_GAP
      BY <1>0, <3>1, RestoreAssumption
    <3>3. Carried(incoming, before) \in Nat
      BY <3>1, <3>2 DEF Carried
    <3>4. f \in Shape /\ f.seq = Carried(incoming, before) /\ f.last = incoming.last
      BY <3>1, <3>3 DEF Shape
    <3>5. incoming' = f
      BY <2>1, <2>4
    <3> HIDE DEF f
    <3>6. CASE before.knows
      <4>1. guesses' = guesses /\ writes' = writes
        BY <2>1, <3>6
      <4>2. FilesNow' = FilesNow
        BY <4>1 DEF FilesNow, Reach
      <4>3. f.seq <= Reach /\ f.last <= writes
        BY <3>1, <3>4, <3>6 DEF Carried
      <4> QED
        BY <3>4, <3>5, <4>2, <4>3 DEF FilesNow, Files
    <3>7. CASE ~before.knows
      <4>1. guesses' = guesses + 1 /\ writes' = writes
        BY <2>1, <2>4, <3>7
      <4>2. Reach' = Reach + RESTORE_GAP
        BY <1>0, <3>1, <4>1, ReachIs DEF Reach
      <4>3. FilesNow' = Files(writes, Reach + RESTORE_GAP)
        BY <4>1, <4>2 DEF FilesNow
      <4>4. f.seq = incoming.seq + RESTORE_GAP
        BY <3>4, <3>7 DEF Carried
      <4> QED
        BY <3>1, <3>2, <3>4, <3>5, <4>3, <4>4 DEF Files
    <3> QED
      BY <3>6, <3>7
  <2> QED
    BY <2>3, <2>4
<1> QED
  BY <1>1, <1>2

\* The files there are stay within reach.
LEMMA FilesKept ==
  ASSUME Typed, Typed', ScriptTyped, LogOK, RestoreOK, FilesOK, FilesStep
  PROVE  FilesOK'
<1>1. PICK G : G = FilesNow'
  OBVIOUS
<1>2. FilesNow \subseteq G /\ Backups(FilesNow) \subseteq Backups(G)
  BY <1>1, ReachGrows DEF Backups
<1>3. aside \in Seq(G) /\ backups \in Seq(Backups(G))
  <2>1. aside \in Seq(FilesNow) /\ backups \in Seq(Backups(FilesNow))
    BY DEF FilesOK
  <2> QED
    BY <1>2, <2>1
<1>4. /\ NoFile \in G /\ Current \in G /\ \A v \in Images : Opened(v) \in Backups(G)
      /\ database \in G /\ incoming \in G /\ restore.from \in G /\ log.after \in G
  BY <1>2, NewFiles DEF FilesOK
<1>5. /\ Write => log'.after \in G
      /\ RestoreNumbers => incoming' \in G
  BY <1>1, NumbersReach
<1>6. /\ database' \in G /\ incoming' \in G /\ restore'.from \in G /\ log'.after \in G
      /\ aside' \in Seq(G) /\ backups' \in Seq(Backups(G))
  BY <1>3, <1>4, <1>5, FilesCome
<1>7. Backups(FilesNow)' = Backups(G)
  BY <1>1 DEF Backups
<1> QED
  BY <1>1, <1>6, <1>7 DEF FilesOK

----------------------------------------------------------------------------
(* The log, and how far a restore is.                                      *)

\* Every log stays the database's own.
LEMMA LogKept ==
  ASSUME Typed, ScriptTyped, LogOK, RestoreOK, FilesStep
  PROVE  LogOK'
<1>0. /\ \A v \in Ours : Opened(v).there
      /\ Opened(image).there
      /\ Current.there = database.there
      /\ ~Current.there => Current = NoFile
      /\ NoLog.own /\ ~NoLog.there /\ NoRestore.at = "idle" /\ NoFile.there = FALSE
  BY NamesAre, CurrentIs, OpenedIs, Constants DEF Typed
<1> USE DEF LogOK
<1>1. CASE UNCHANGED vars
  BY <1>1 DEF vars
<1>2. CASE Start
  <2>1. CASE database.there
    <3>1. \/ log' = log
          \/ log' = [log EXCEPT !.there = TRUE, !.after = Opened(image)]
      BY <1>2, <2>1 DEF Start
    <3>2. log'.own /\ (log'.there => log'.after.there)
      BY <1>0, <3>1 DEF Typed
    <3>3. UNCHANGED <<database, restore>> /\ restore.at = "idle"
      BY <1>2, <2>1 DEF Start
    <3> QED
      BY <2>1, <3>2, <3>3
  <2>2. CASE ~database.there
    BY <1>0, <1>2, <2>2 DEF Start
  <2> QED
    BY <2>1, <2>2
<1>3. CASE Write
  <2>1. database.there /\ Current.there
    BY <1>0, <1>3, Constants DEF Write
  <2>2. log'.own /\ log'.there /\ log'.after.there
    <3> DEFINE c == Current
               f == [c EXCEPT !.seq = c.seq + 1, !.last = writes + 1]
    <3>1. log' = [log EXCEPT !.there = TRUE, !.after = f]
      BY <1>3 DEF Write
    <3>2. c \in Shape
      BY CurrentIs
    <3> HIDE DEF c
    <3>3. f.there = c.there
      BY <3>2 DEF Shape
    <3> HIDE DEF f
    <3> QED
      BY <2>1, <3>1, <3>3 DEF Typed, c
  <2>3. UNCHANGED <<database, restore>> /\ restore.at = "idle"
    BY <1>3 DEF Write, Typed
  <2> QED
    BY <2>1, <2>2, <2>3
<1>4. CASE Nightly \/ Kill
  BY <1>4 DEF Nightly, Kill
<1>5. CASE Stop
  BY <1>0, <1>5 DEF Stop
<1>6. CASE BacksUp
  BY <1>6 DEF BacksUp
<1>7. ASSUME NEW v \in Ours, BackupCommand(v) PROVE LogOK'
  BY <1>0, <1>7 DEF BackupCommand
<1>8. CASE UpByHand \/ StartsNew \/ StartsOld
  <2>1. ComposeUp(Named(tag))
    BY <1>8 DEF UpByHand, StartsNew, StartsOld
  <2> QED
    BY <1>0, <2>1 DEF ComposeUp
<1>9. ASSUME NEW from \in ToSet(backups), RestoreChecks(Named(tag), from) PROVE LogOK'
  <2>1. UNCHANGED server /\ server = "down"
    BY <1>9 DEF RestoreChecks
  <2>2. \/ database' = Current /\ log' = NoLog /\ database.there
        \/ UNCHANGED <<database, log>> /\ ~database.there
    BY <1>9 DEF RestoreChecks, Folded
  <2> QED
    BY <1>0, <2>1, <2>2
<1>10. CASE RestoreCopies \/ RestoreNumbers \/ RestoreFails \/ RestoreStays \/ Crash
  <2>1. UNCHANGED <<server, database, log>> /\ restore.at # "idle"
    BY <1>10 DEF RestoreCopies, RestoreNumbers, RestoreFails, RestoreStays, Crash
  <2> QED
    BY <2>1
<1>11. CASE RestoreMovesAside
  <2>1. UNCHANGED server /\ server = "down" /\ ~log.there
    BY <1>11 DEF RestoreMovesAside
  <2>2. Disowned.own /\ ~Disowned.there
    BY <2>1 DEF Disowned, Typed
  <2> QED
    BY <1>0, <1>11, <2>1, <2>2 DEF RestoreMovesAside
<1>12. CASE RestoreSwaps
  BY <1>12 DEF RestoreSwaps, RestoreOK
<1>13. CASE RestoreTakesBack
  <2>1. UNCHANGED server /\ ~log.there
    BY <1>13 DEF RestoreTakesBack
  <2>2. [log EXCEPT !.own = TRUE].own /\ ~[log EXCEPT !.own = TRUE].there
    BY <2>1 DEF Typed
  <2> QED
    BY <1>0, <1>13, <2>1, <2>2 DEF RestoreTakesBack, RestoreOK
<1>14. CASE RestoreCleans
  BY <1>0, <1>14 DEF RestoreCleans
<1> QED
  BY <1>1, <1>2, <1>3, <1>4, <1>5, <1>6, <1>7, <1>8, <1>9, <1>10, <1>11, <1>12, <1>13, <1>14
  DEF FilesStep

\* How far a restore is keeps saying which file is where.
LEMMA RestoreKept ==
  ASSUME Typed, ScriptTyped, FilesOK, LogOK, RestoreOK, FilesStep
  PROVE  RestoreOK'
<1>0. /\ Current.there = database.there
      /\ NoRestore.at = "idle" /\ NoFile.there = FALSE
  BY CurrentIs, Constants
<1> USE DEF RestoreOK
<1>1. CASE restore'.at = "idle"
  BY <1>1
<1>2. CASE UNCHANGED <<restore, database, incoming, aside>>
  BY <1>2
<1>3. CASE Start \/ Write \/ Nightly \/ Kill \/ Stop \/ BacksUp \/ UNCHANGED vars
  <2>1. UNCHANGED <<restore, incoming, aside>>
    BY <1>3 DEF Start, Write, Nightly, Kill, Stop, BacksUp, vars
  <2>2. UNCHANGED database \/ restore.at = "idle"
    BY <1>3 DEF Start, Write, Nightly, Kill, Stop, BacksUp, vars, LogOK, Typed
  <2> QED
    BY <1>1, <1>2, <2>1, <2>2
<1>4. ASSUME NEW v \in Ours, BackupCommand(v) PROVE RestoreOK'
  BY <1>4 DEF BackupCommand
<1>5. CASE UpByHand \/ StartsNew \/ StartsOld
  <2>1. ComposeUp(Named(tag))
    BY <1>5 DEF UpByHand, StartsNew, StartsOld
  <2>2. UNCHANGED <<restore, incoming, aside>> /\ (UNCHANGED database \/ restore.at = "idle")
    BY <2>1 DEF ComposeUp, LogOK
  <2> QED
    BY <1>1, <1>2, <2>2
<1>6. ASSUME NEW from \in ToSet(backups), RestoreChecks(Named(tag), from) PROVE RestoreOK'
  <2>1. from.there
    BY LenProperties DEF ToSet, FilesOK, Backups
  <2>2. restore'.at = "checked" /\ restore'.from = from /\ restore'.replaced = database.there
    BY <1>6, Constants DEF RestoreChecks
  <2>3. database'.there = database.there
    BY <1>0, <1>6 DEF RestoreChecks, Folded
  <2> QED
    BY <2>1, <2>2, <2>3
<1>7. CASE RestoreCopies
  <2>1. /\ restore'.at = "copied" /\ restore'.from = restore.from /\ restore'.replaced = restore.replaced
        /\ incoming' = restore.from /\ UNCHANGED database /\ restore.at = "checked"
    BY <1>7 DEF RestoreCopies, Typed
  <2> QED
    BY <2>1
<1>8. CASE RestoreNumbers
  <2>1. /\ restore'.at = "ready" /\ restore'.from = restore.from /\ restore'.replaced = restore.replaced
        /\ UNCHANGED database /\ restore.at = "copied"
    BY <1>8 DEF RestoreNumbers, Typed
  <2>2. incoming'.there = incoming.there /\ incoming'.schema = incoming.schema
    <3>1. PICK n : incoming' \in {incoming, [incoming EXCEPT !.seq = n]}
      BY <1>8 DEF RestoreNumbers
    <3> QED
      BY <3>1 DEF Typed, Shape
  <2> QED
    BY <2>1, <2>2
<1>9. CASE RestoreFails \/ RestoreStays \/ RestoreTakesBack \/ RestoreCleans \/ Crash
  BY <1>0, <1>1, <1>9 DEF RestoreFails, RestoreStays, RestoreTakesBack, RestoreCleans, Crash
<1>10. CASE RestoreMovesAside
  <2>1. /\ restore'.at = "moved" /\ restore'.from = restore.from /\ restore'.replaced = restore.replaced
        /\ UNCHANGED incoming /\ restore.at = "ready"
    BY <1>10 DEF RestoreMovesAside, Typed
  <2>2. database' = NoFile
    BY <1>10, <2>1 DEF RestoreMovesAside, LogOK
  <2>3. restore.replaced => aside' # <<>> /\ Last(aside').there
    <3>1. KeptAside # <<>> /\ Last(KeptAside) = database
      BY AppendIs DEF KeptAside, Typed
    <3>2. restore.replaced => aside' = KeptAside /\ database.there
      BY <1>10, <2>1 DEF RestoreMovesAside
    <3> QED
      BY <3>1, <3>2
  <2> QED
    BY <2>1, <2>2, <2>3
<1>11. CASE RestoreSwaps
  <2>1. /\ restore'.at = "swapped" /\ restore'.from = restore.from
        /\ database' = incoming /\ restore.at = "moved"
    BY <1>11 DEF RestoreSwaps, Typed
  <2> QED
    BY <2>1
<1> QED
  BY <1>3, <1>4, <1>5, <1>6, <1>7, <1>8, <1>9, <1>10, <1>11
  DEF FilesStep

----------------------------------------------------------------------------
(* What a reader of the database finds.                                    *)

\* What becomes the database, and what is moved aside: nothing, the same at
\* another schema, one more write, or what a restore puts there.
LEMMA CurrentMoves ==
  ASSUME Typed, ScriptTyped, LogOK, LogOK', RestoreOK, FilesStep
  PROVE  \/ UNCHANGED <<Current, aside>>
         \/ /\ \E v \in Ours : CanOpen(v, Current) /\ Current' = Opened(v)
            /\ restore.at = "idle" /\ UNCHANGED <<image, restore, aside>>
         \/ Write /\ Current' = log'.after /\ UNCHANGED aside
         \/ RestoreMovesAside /\ restore.replaced /\ Current' = NoFile /\ aside' = Append(aside, Current)
         \/ RestoreSwaps /\ Current' = incoming /\ Current = NoFile /\ UNCHANGED aside
         \/ RestoreTakesBack /\ restore.replaced /\ Current' = Last(aside) /\ Current = NoFile
            /\ aside' = Front(aside) /\ aside # <<>>
<1>0. image \in Ours /\ ~NoLog.there
  BY Constants DEF Ours
<1>1. CASE UNCHANGED <<database, log, aside>>
  BY <1>1 DEF Current
<1>2. CASE Start
  <2>1. CASE database.there
    <3>1. Current' = Opened(image)
      <4>1. CASE Current = Opened(image)
        BY <1>2, <2>1, <4>1 DEF Start, Current
      <4>2. CASE Current # Opened(image)
        BY <1>2, <2>1, <4>2 DEF Start, Current, Typed
      <4> QED
        BY <4>1, <4>2
    <3> QED
      BY <1>0, <1>2, <3>1 DEF Start
  <2>2. CASE ~database.there
    <3>1. Current' = Opened(image)
      BY <1>2, <2>2 DEF Start, Current, LogOK
    <3> QED
      BY <1>0, <1>2, <3>1 DEF Start
  <2> QED
    BY <2>1, <2>2
<1>3. CASE Write
  BY <1>3 DEF Write, Current, Typed
<1>4. CASE Nightly \/ Kill \/ BacksUp \/ UNCHANGED vars
  BY <1>1, <1>4 DEF Nightly, Kill, BacksUp, vars
<1>5. CASE Stop
  <2>1. Current' = Current
    BY <1>0, <1>5 DEF Stop, Current
  <2> QED
    BY <1>5, <2>1 DEF Stop
<1>6. ASSUME NEW v \in Ours, BackupCommand(v)
      PROVE  \/ UNCHANGED <<Current, aside>>
             \/ /\ CanOpen(v, Current) /\ Current' = Opened(v)
                /\ restore.at = "idle" /\ UNCHANGED <<image, restore, aside>>
  <2>1. CASE server = "up"
    BY <1>6, <2>1 DEF BackupCommand, Current
  <2>2. CASE server # "up"
    <3>1. Current' = Opened(v)
      BY <1>0, <1>6, <2>2 DEF BackupCommand, Current
    <3> QED
      BY <1>6, <2>2, <3>1 DEF BackupCommand
  <2> QED
    BY <2>1, <2>2
<1>7. CASE UpByHand \/ StartsNew \/ StartsOld
  <2>1. ComposeUp(Named(tag))
    BY <1>7 DEF UpByHand, StartsNew, StartsOld
  <2>2. Current' = Current
    BY <1>0, <2>1 DEF ComposeUp, Current
  <2> QED
    BY <2>1, <2>2 DEF ComposeUp
<1>8. ASSUME NEW from \in ToSet(backups), RestoreChecks(Named(tag), from)
      PROVE  UNCHANGED <<Current, aside>>
  <2>1. Current' = Current
    BY <1>0, <1>8 DEF RestoreChecks, Folded, Current
  <2> QED
    BY <1>8, <2>1 DEF RestoreChecks
<1>9. CASE RestoreCopies \/ RestoreNumbers \/ RestoreFails \/ RestoreStays \/ Crash
  BY <1>1, <1>9 DEF RestoreCopies, RestoreNumbers, RestoreFails, RestoreStays, Crash
<1>10. CASE RestoreMovesAside
  <2>1. ~log.there /\ Current = database
    BY <1>10 DEF RestoreMovesAside, LogOK, Current
  <2>2. CASE restore.replaced
    <3>1. ~log'.there
      BY <1>10, <2>1, <2>2 DEF RestoreMovesAside, Disowned, Typed
    <3> QED
      BY <1>10, <2>1, <2>2, <3>1 DEF RestoreMovesAside, KeptAside, Current
  <2>3. CASE ~restore.replaced
    BY <1>1, <1>10, <2>3 DEF RestoreMovesAside
  <2> QED
    BY <2>2, <2>3
<1>11. CASE RestoreSwaps
  <2>1. ~log.there /\ ~log'.there
    BY <1>11 DEF RestoreSwaps, LogOK
  <2> QED
    BY <1>11, <2>1 DEF RestoreSwaps, RestoreOK, Current
<1>12. CASE RestoreTakesBack
  <2>1. ~log.there
    BY <1>12 DEF RestoreTakesBack, LogOK
  <2>2. CASE restore.replaced
    <3>1. ~log'.there
      BY <1>12, <2>1, <2>2 DEF RestoreTakesBack, Typed
    <3> QED
      BY <1>12, <2>1, <2>2, <3>1 DEF RestoreTakesBack, RestoreOK, Current
  <2>3. CASE ~restore.replaced
    BY <1>1, <1>12, <2>3 DEF RestoreTakesBack
  <2> QED
    BY <2>2, <2>3
<1>13. CASE RestoreCleans
  <2>1. ~log.there
    BY <1>13 DEF RestoreCleans, LogOK
  <2> QED
    BY <1>0, <1>13, <2>1 DEF RestoreCleans, Current
<1> QED
  BY <1>0, <1>2, <1>3, <1>4, <1>5, <1>6, <1>7, <1>8, <1>9, <1>10, <1>11, <1>12, <1>13
  DEF FilesStep

\* The last write stays in the database or among what was moved aside.
LEMMA NewestKept ==
  ASSUME Typed, Typed', ScriptTyped, FilesOK, LogOK, LogOK', RestoreOK, FilesStep, KeepsNewest
  PROVE  KeepsNewest'
<1>0. /\ writes \in Nat /\ aside \in Seq(Shape) /\ Current \in Shape /\ NoFile.last = 0
      /\ \A v \in Ours : Opened(v).last = Current.last
  BY NamesAre, CurrentIs, OpenedIs, Constants DEF Typed
<1>1. PICK file \in ToSet(aside) \cup {Current} : file.last = writes
  BY DEF KeepsNewest
<1>2. CASE Write
  <2>1. Current' = log'.after
    BY <1>2 DEF Write, Current, Typed
  <2>2. log'.after.last = writes'
    BY <1>2, NumbersReach
  <2> QED
    BY <2>1, <2>2 DEF KeepsNewest
<1>3. CASE ~Write
  <2>1. writes' = writes
    BY <1>3, ReachGrows
  <2>2. CASE UNCHANGED <<Current, aside>>
    BY <1>1, <2>1, <2>2 DEF KeepsNewest
  <2>3. ASSUME NEW v \in Ours, Current' = Opened(v), UNCHANGED aside PROVE KeepsNewest'
    BY <1>0, <1>1, <2>1, <2>3 DEF KeepsNewest
  <2>4. CASE aside' = Append(aside, Current)
    <3>1. file \in ToSet(aside')
      BY <1>0, <1>1, <2>4, AppendIs
    <3> QED
      BY <1>1, <2>1, <3>1 DEF KeepsNewest
  <2>5. CASE RestoreSwaps /\ Current' = incoming /\ Current = NoFile /\ UNCHANGED aside
    <3>1. CASE file \in ToSet(aside)
      BY <1>1, <2>1, <2>5, <3>1 DEF KeepsNewest
    <3>2. CASE file = NoFile
      <4>1. writes = 0 /\ incoming.last \in Nat /\ incoming.last <= writes
        BY <1>0, <1>1, <3>2 DEF FilesOK, FilesNow, Files, Shape
      <4>2. incoming.last = writes
        BY <4>1
      <4> QED
        BY <2>1, <2>5, <4>2 DEF KeepsNewest
    <3> QED
      BY <1>1, <2>5, <3>1, <3>2
  <2>6. CASE Current' = Last(aside) /\ Current = NoFile /\ aside' = Front(aside) /\ aside # <<>>
    <3>1. ToSet(aside) = ToSet(aside') \cup {Last(aside)} /\ Last(aside) \in FilesNow
      BY <2>6, FrontIs DEF FilesOK
    <3>2. CASE file \in ToSet(aside)
      BY <1>1, <2>1, <2>6, <3>1, <3>2 DEF KeepsNewest
    <3>3. CASE file = NoFile
      <4>1. writes = 0 /\ Last(aside).last \in Nat /\ Last(aside).last <= writes
        BY <1>0, <1>1, <3>1, <3>3 DEF FilesNow, Files, Shape
      <4>2. Last(aside).last = writes
        BY <4>1
      <4> QED
        BY <2>1, <2>6, <4>2 DEF KeepsNewest
    <3> QED
      BY <1>1, <2>6, <3>2, <3>3
  <2> QED
    BY <1>3, <2>2, <2>3, <2>4, <2>5, <2>6, CurrentMoves
<1> QED
  BY <1>2, <1>3

\* A server that is up stays on a database of its own schema.
LEMMA FitsKept ==
  ASSUME Typed, Typed', ScriptTyped, FilesOK, LogOK, LogOK', RestoreOK, FilesStep, Fits
  PROVE  Fits'
<1> SUFFICES ASSUME server' = "up"
             PROVE  Current'.schema = SCHEMA_VERSION[image']
  BY DEF Fits
<1>1. CASE Write
  <2>1. Current' = log'.after /\ server = "up" /\ image' = image
    BY <1>1 DEF Write, Current, Typed
  <2>2. log'.after.schema = Current.schema
    BY <1>1, NumbersReach
  <2> QED
    BY <2>1, <2>2 DEF Fits
<1>2. CASE Start
  <2>1. Current' = Opened(image) /\ CanOpen(image, Current) /\ image' = image
    <3>1. CASE database.there
      <4>1. CASE Current = Opened(image)
        BY <1>2, <3>1, <4>1 DEF Start, Current
      <4>2. CASE Current # Opened(image)
        BY <1>2, <3>1, <4>2 DEF Start, Current, Typed
      <4> QED
        BY <4>1, <4>2
    <3>2. CASE ~database.there
      BY <1>2, <3>2 DEF Start, Current, LogOK
    <3> QED
      BY <3>1, <3>2
  <2>2. image \in Images
    BY DEF Typed
  <2> QED
    BY <2>1, <2>2, OpenedIs
<1>3. CASE UNCHANGED <<image, server, database, log>>
  BY <1>3 DEF Fits, Current
<1>4. CASE Stop \/ Kill
  BY <1>4 DEF Stop, Kill
<1>5. CASE Nightly \/ BacksUp \/ \E v \in Ours : BackupCommand(v)
  BY <1>3, <1>5 DEF Nightly, BacksUp, BackupCommand
<1>6. CASE UpByHand \/ StartsNew \/ StartsOld
  <2>1. ComposeUp(Named(tag))
    BY <1>6 DEF UpByHand, StartsNew, StartsOld
  <2> QED
    BY <1>3, <2>1 DEF ComposeUp
<1>7. restore.at # "idle" => server = "down"
  BY DEF LogOK
<1>8. ~\E from \in ToSet(backups) : RestoreChecks(Named(tag), from)
  BY DEF RestoreChecks
<1>9. /\ ~(RestoreCopies \/ RestoreNumbers \/ RestoreFails \/ RestoreStays \/ Crash)
      /\ ~(RestoreMovesAside \/ RestoreSwaps \/ RestoreTakesBack \/ RestoreCleans)
  BY <1>7 DEF RestoreCopies, RestoreNumbers, RestoreFails, RestoreStays, Crash,
              RestoreMovesAside, RestoreSwaps, RestoreTakesBack, RestoreCleans
<1>10. UNCHANGED vars => UNCHANGED <<image, server, database, log>>
  BY DEF vars
<1> QED
  BY <1>1, <1>2, <1>3, <1>4, <1>5, <1>6, <1>8, <1>9, <1>10 DEF FilesStep

----------------------------------------------------------------------------
(* Numbers.                                                                *)

\* The steps of a restore, as far as files it made ready and moved aside go.
LEMMA RestoreMoves ==
  ASSUME Typed, ScriptTyped, LogOK, FilesStep
  PROVE  \/ restore'.at = "idle"
         \/ UNCHANGED <<restore, incoming, aside>> /\ (restore.at # "idle" => UNCHANGED Current)
         \/ /\ restore'.at = "checked" /\ restore.at = "idle" /\ UNCHANGED Current
            /\ \E from \in ToSet(backups) : RestoreChecks(Named(tag), from) /\ restore'.from = from
         \/ restore'.at = "copied" /\ restore.at = "checked" /\ restore'.from = restore.from
         \/ RestoreNumbers /\ restore.at = "copied" /\ restore'.at = "ready"
            /\ restore'.from = restore.from /\ UNCHANGED aside
         \/ RestoreMovesAside /\ restore.at = "ready" /\ restore'.at = "moved" /\ UNCHANGED incoming
            /\ restore'.from = restore.from /\ restore'.replaced = restore.replaced
         \/ RestoreSwaps /\ restore'.at = "swapped" /\ restore'.from = restore.from
<1>0. NoRestore.at = "idle" /\ ~NoLog.there
  BY Constants
<1>1. CASE restore'.at = "idle"
  BY <1>1
<1>2. CASE Start \/ Write \/ Nightly \/ Kill \/ Stop \/ BacksUp \/ UNCHANGED vars
  <2>1. UNCHANGED <<restore, incoming, aside>>
    BY <1>2 DEF Start, Write, Nightly, Kill, Stop, BacksUp, vars
  <2>2. UNCHANGED <<database, log>> \/ restore.at = "idle"
    BY <1>2 DEF Start, Write, Nightly, Kill, Stop, BacksUp, vars, LogOK
  <2> QED
    BY <2>1, <2>2 DEF Current
<1>3. CASE \E v \in Ours : BackupCommand(v)
  BY <1>3 DEF BackupCommand
<1>4. CASE UpByHand \/ StartsNew \/ StartsOld
  <2>1. ComposeUp(Named(tag))
    BY <1>4 DEF UpByHand, StartsNew, StartsOld
  <2> QED
    BY <1>0, <2>1 DEF ComposeUp, Current
<1>5. ASSUME NEW from \in ToSet(backups), RestoreChecks(Named(tag), from)
      PROVE  restore'.at = "checked" /\ restore.at = "idle" /\ UNCHANGED Current /\ restore'.from = from
  BY <1>0, <1>5, Constants DEF RestoreChecks, Folded, Current
<1>6. CASE RestoreCopies
  BY <1>6 DEF RestoreCopies, Typed
<1>7. CASE RestoreNumbers
  BY <1>7 DEF RestoreNumbers, Typed
<1>8. CASE RestoreFails \/ RestoreStays \/ RestoreTakesBack \/ RestoreCleans \/ Crash
  BY <1>0, <1>8 DEF RestoreFails, RestoreStays, RestoreTakesBack, RestoreCleans, Crash
<1>9. CASE RestoreMovesAside
  BY <1>9 DEF RestoreMovesAside, Typed
<1>10. CASE RestoreSwaps
  BY <1>10 DEF RestoreSwaps, Typed
<1> QED
  BY <1>2, <1>3, <1>4, <1>5, <1>6, <1>7, <1>8, <1>9, <1>10 DEF FilesStep

\* What a restore goes on from is past every number: the database's own, where
\* it says, or a gap no writes of one skip can fill.
LEMMA NumberedIsPast ==
  ASSUME MaxGuesses <= 1, Typed, Typed', FilesOK, LogOK, FilesStep, NumbersOK, RestoreNumbers
  PROVE  Past(incoming', top) /\ UNCHANGED <<top, aside>>
<1>1. PICK before \in {NoFile} \cup (IF restore.replaced THEN {database} ELSE {}) :
        LET guess == incoming.knows /\ ~before.knows
        IN  /\ guess => guesses < MaxGuesses
            /\ incoming' = IF incoming.knows
                             THEN [incoming EXCEPT !.seq = Carried(incoming, before)]
                             ELSE incoming
            /\ UNCHANGED <<aside, top>>
  BY DEF RestoreNumbers
<1>2. CASE ~incoming.knows
  BY <1>1, <1>2 DEF Past
<1>3. CASE incoming.knows
  <2> DEFINE n == Carried(incoming, before)
  <2>1. incoming'.seq = n
    BY <1>1, <1>3 DEF Typed, Shape
  <2>2. /\ incoming.seq \in Nat /\ before.seq \in Nat /\ top \in Nat /\ writes \in Nat
        /\ guesses \in Nat /\ writes <= MaxWrites
    BY <1>1, Constants DEF Typed, Shape
  <2>3. CASE before.knows
    <3>1. before = Current
      BY <1>1, <2>3, Constants DEF RestoreNumbers, LogOK, Current
    <3>2. before.seq >= top
      BY <2>3, <3>1 DEF NumbersOK, Past
    <3>3. n >= top
      BY <2>2, <2>3, <3>2 DEF Carried
    <3> QED
      BY <1>1, <2>1, <3>3 DEF Past
  <2>4. CASE ~before.knows
    <3>1. guesses = 0
      <4>1. guesses < MaxGuesses
        BY <1>1, <1>3, <2>4
      <4> QED
        BY <2>2, <4>1, RestoreAssumption
    <3>2. Reach = writes
      <4>1. 0 * RESTORE_GAP = 0
        BY RestoreAssumption
      <4> QED
        BY <2>2, <3>1, <4>1 DEF Reach
    <3>3. n = incoming.seq + RESTORE_GAP
      BY <2>4 DEF Carried
    <3>4. top <= writes
      BY <3>2 DEF NumbersOK
    <3>5. n >= top
      BY <2>2, <3>3, <3>4, RestoreAssumption
    <3> QED
      BY <1>1, <2>1, <3>5 DEF Past
  <2> QED
    BY <2>3, <2>4
<1> QED
  BY <1>2, <1>3, <1>1

\* Numbers stay past those handed out, and the next one is.
LEMMA NumbersKept ==
  ASSUME MaxGuesses <= 1, Typed, Typed', ScriptTyped, FilesOK, LogOK, LogOK', RestoreOK, FilesStep,
         NumbersOK
  PROVE  NumbersOK' /\ (writes' > writes => Current'.seq > top)
<1>0. /\ Current \in Shape /\ top \in Nat /\ Reach \in Nat /\ writes \in Nat
      /\ ~NoFile.knows /\ aside \in Seq(Shape)
  BY CurrentIs, ReachIs, Constants DEF Typed, Reach
<1>1. CASE Write
  <2>1. PICK c \in Nat : c = Current.seq
    BY <1>0 DEF Shape
  <2>2. Current.knows /\ c >= top /\ c <= Reach
    BY <1>1, <2>1, NewFiles DEF Write, NumbersOK, Past, FilesNow, Files
  <2>3. top' = IF c + 1 > top THEN c + 1 ELSE top
    BY <1>1, <2>1 DEF Write
  <2>4. top' = c + 1 /\ c + 1 > top
    BY <1>0, <2>1, <2>2, <2>3
  <2>5. Current' = log'.after /\ log'.after.seq = c + 1
    <3>1. Current' = log'.after
      BY <1>1 DEF Write, Current, Typed
    <3> QED
      BY <1>1, <2>1, <3>1, NumbersReach
  <2>6. Reach' = Reach + 1
    <3>1. writes' = writes + 1
      BY <1>1 DEF Write
    <3>2. writes + 1 # writes
      BY <1>0
    <3> QED
      BY <3>1, <3>2, ReachGrows
  <2>7. top' <= Reach'
    <3>1. c + 1 <= Reach + 1
      BY <1>0, <2>1, <2>2
    <3> QED
      BY <2>4, <2>6, <3>1
  <2>8. Past(Current', top')
    <3>1. c + 1 >= c + 1
      BY <2>1
    <3> QED
      BY <2>4, <2>5, <3>1 DEF Past
  <2>9. restore'.at = "idle"
    BY <1>1 DEF Write, LogOK
  <2> QED
    BY <2>4, <2>5, <2>7, <2>8, <2>9 DEF NumbersOK
<1>2. CASE ~Write
  <2>1. UNCHANGED <<top, writes>> /\ top <= Reach'
    <3>1. UNCHANGED <<top, writes>> /\ (Reach' = Reach \/ Reach' = Reach + RESTORE_GAP)
      BY <1>2, ReachGrows
    <3>2. top <= Reach /\ top <= Reach + RESTORE_GAP
      BY <1>0, RestoreAssumption DEF NumbersOK
    <3> QED
      BY <3>1, <3>2
  <2>2. ~(writes' > writes)
    BY <1>0, <2>1
  <2>3. Past(Current', top)
    <3>1. CASE UNCHANGED Current
      BY <3>1 DEF NumbersOK
    <3>2. ASSUME NEW v \in Ours, Current' = Opened(v) PROVE Past(Current', top)
      <4>1. Opened(v).seq = Current.seq /\ Opened(v).knows = Current.knows
        BY NamesAre, OpenedIs
      <4> QED
        BY <3>2, <4>1 DEF NumbersOK, Past
    <3>3. CASE Current' = NoFile
      BY <1>0, <3>3 DEF Past
    <3>4. CASE RestoreSwaps /\ Current' = incoming
      BY <3>4 DEF RestoreSwaps, NumbersOK
    <3>5. CASE RestoreTakesBack /\ restore.replaced /\ Current' = Last(aside)
      BY <3>5 DEF RestoreTakesBack, NumbersOK
    <3> QED
      BY <1>2, <3>1, <3>2, <3>3, <3>4, <3>5, CurrentMoves
  <2>4. restore'.at \in {"ready", "moved"} => Past(incoming', top)
    <3>1. CASE UNCHANGED <<restore, incoming, aside>>
      BY <3>1 DEF NumbersOK
    <3>2. CASE RestoreNumbers
      BY <3>2, NumberedIsPast
    <3>3. CASE restore.at = "ready" /\ UNCHANGED incoming
      BY <3>3 DEF NumbersOK
    <3> QED
      BY <3>1, <3>2, <3>3, RestoreMoves
  <2>5. restore'.at = "moved" /\ restore'.replaced => Past(Last(aside'), top)
    <3>1. CASE UNCHANGED <<restore, incoming, aside>>
      BY <3>1 DEF NumbersOK
    <3>2. CASE RestoreMovesAside /\ restore'.replaced = restore.replaced
      <4>1. restore.replaced => aside' = Append(aside, database) /\ database = Current
        BY <3>2 DEF RestoreMovesAside, KeptAside, LogOK, Current
      <4>2. Last(Append(aside, Current)) = Current
        BY <1>0, AppendIs
      <4> QED
        BY <3>2, <4>1, <4>2 DEF NumbersOK
    <3> QED
      BY <3>1, <3>2, RestoreMoves
  <2> QED
    BY <2>1, <2>2, <2>3, <2>4, <2>5 DEF NumbersOK
<1> QED
  BY <1>1, <1>2

----------------------------------------------------------------------------
(* The script.                                                             *)

\* Nothing is written down yet.
LEMMA NoScriptIs ==
  NoScript.at = "off" /\ ~NoScript.lost /\ NoScript.backup = NoFile /\ NoScript.ran \in Images
  /\ NoScript.saved \in Tags
BY Constants DEF NoScript, Tags

\* The backup it makes is the newest there is.
LEMMA BackupIs ==
  ASSUME Typed, LogOK, FilesOK, BacksUp
  PROVE  Last(backups') = Opened(image) /\ Opened(image) \in FilesNow /\ UNCHANGED <<FilesNow, image>>
<1>1. Opened(image) \in Shape /\ Opened(image) \in FilesNow /\ backups \in Seq(Shape)
  BY OpenedIs, NewFiles DEF Typed, Backups
<1>2. Last(Append(backups, Opened(image))) = Opened(image)
  BY <1>1, AppendIs
<1>3. backups' = Append(backups, Opened(image)) /\ UNCHANGED <<image, writes, guesses>>
  BY DEF BacksUp, BackupTo, history
<1> QED
  BY <1>1, <1>2, <1>3 DEF FilesNow, Reach

\* What the script writes down keeps its shape.
LEMMA ScriptTypedStep ==
  ASSUME Typed, ScriptTyped, LogOK, FilesOK, [UpdateNext]_allvars
  PROVE  ScriptTyped'
<1> USE DEF ScriptTyped
<1>0. /\ NoScript \in [at : {"off", "begun", "backed", "pulled", "new", "back", "old", "stopped",
                             "restoring", "done"},
                       saved : Tags, ran : Images, backup : Shape, lost : BOOLEAN]
      /\ image \in Images
  BY Constants DEF NoScript, Tags, Typed
<1>1. CASE UNCHANGED update \/ UNCHANGED allvars
  BY <1>1 DEF update, allvars
<1>2. CASE UpByHand \/ Killed \/ NothingChanged
  <2>1. script' = NoScript /\ tag' \in Tags /\ UNCHANGED <<latest, works>>
    BY <1>2 DEF UpByHand, Killed, NothingChanged
  <2> QED
    BY <1>0, <2>1
<1>3. ASSUME NEW asked \in Tags, Begins(asked) PROVE ScriptTyped'
  BY <1>0, <1>3 DEF Begins, Follows
<1>4. CASE BacksUp
  <2>1. Last(backups') \in Shape
    BY <1>4, BackupIs DEF FilesNow, Files
  <2> QED
    BY <1>4, <2>1 DEF BacksUp
<1>5. CASE NoBackup \/ StartsNew \/ ComesUp \/ StartsOld \/ GivesUpOnOld \/ StopsForBackup
           \/ PutsBackupBack
  <2>1. UNCHANGED <<tag, latest, works>> /\ \E a \in {"backed", "new", "done", "old", "stopped", "restoring"} :
                                              script' = [script EXCEPT !.at = a]
    BY <1>5, Zenon DEF NoBackup, StartsNew, ComesUp, StartsOld, GivesUpOnOld, StopsForBackup, PutsBackupBack
  <2> QED
    BY <2>1
<1>6. CASE Pulls
  BY <1>6, UpdateAssumption DEF Pulls
<1>7. CASE GivesUpOnNew
  BY <1>7 DEF GivesUpOnNew, Pinned, Tags
<1>8. CASE RestoreRefused
  BY <1>8 DEF RestoreRefused
<1>9. ASSUME NEW failed \in BOOLEAN, Returns(failed) PROVE ScriptTyped'
  BY <1>9 DEF Returns
<1>10. CASE PowerFails
  BY <1>0, <1>10 DEF PowerFails
<1> QED
  BY <1>1, <1>2, <1>3, <1>4, <1>5, <1>6, <1>7, <1>8, <1>9, <1>10 DEF UpdateNext

\* A backup the script can name stays within reach.
LEMMA ScriptBackupKept ==
  ASSUME Typed, Typed', ScriptTyped, FilesOK, LogOK, script.backup \in FilesNow,
         [UpdateNext]_allvars
  PROVE  script'.backup \in FilesNow'
<1>0. FilesStep /\ NoFile \in FilesNow
  BY StepsAre, NewFiles
<1>1. script'.backup \in {script.backup, NoFile} \/ BacksUp
  <2>1. UNCHANGED script \/ script' = NoScript \/ (\E a : script' = [script EXCEPT !.at = a])
        \/ (\E a, b : script' = [script EXCEPT !.at = a, !.lost = b])
        \/ (\E a, b, c : script' = [NoScript EXCEPT !.at = a, !.saved = b, !.ran = c]) \/ BacksUp
    BY Zenon DEF UpdateNext, update, allvars, UpByHand, Killed, NothingChanged, Begins, NoBackup, StartsNew,
           ComesUp, StartsOld, GivesUpOnOld, StopsForBackup, PutsBackupBack, Pulls, GivesUpOnNew,
           RestoreRefused, Returns, PowerFails
  <2>2. NoScript.backup = NoFile
    BY NoScriptIs
  <2>3. (\E a : script' = [script EXCEPT !.at = a]) => script'.backup = script.backup
    BY DEF ScriptTyped
  <2>4. (\E a, b : script' = [script EXCEPT !.at = a, !.lost = b]) => script'.backup = script.backup
    BY DEF ScriptTyped
  <2>5. (\E a, b, c : script' = [NoScript EXCEPT !.at = a, !.saved = b, !.ran = c])
          => script'.backup = NoFile
    BY DEF NoScript
  <2> QED
    BY <2>1, <2>2, <2>3, <2>4, <2>5
<1>2. CASE BacksUp
  <2>1. script'.backup = Last(backups')
    BY <1>2 DEF BacksUp, ScriptTyped
  <2> QED
    BY <1>2, <2>1, BackupIs
<1> QED
  BY <1>0, <1>1, <1>2, ReachGrows

\* What the version that was brought back opens, it opens after every step of
\* the server, of its commands and of a restore.
LEMMA OpensKept ==
  ASSUME Typed, Typed', ScriptTyped, FilesOK, LogOK, LogOK', RestoreOK, FilesStep,
         UNCHANGED image, Named(tag) = image, CanOpen(image, Current),
         restore.at # "idle" => CanOpen(image, restore.from),
         restore.at = "moved" /\ restore.replaced => CanOpen(image, Last(aside))
  PROVE  /\ CanOpen(image, Current')
         /\ restore'.at # "idle" => CanOpen(image, restore'.from)
         /\ restore'.at = "moved" /\ restore'.replaced => CanOpen(image, Last(aside'))
<1>0. image \in Images /\ Ours = {image} /\ ~NoFile.there
  BY Constants DEF Typed, Ours
<1>1. CanOpen(image, Current')
  <2>1. CASE \E v \in Ours : CanOpen(v, Current) /\ Current' = Opened(v)
    <3>1. SCHEMA_VERSION[image] \in Nat /\ Opened(image).schema = SCHEMA_VERSION[image]
      BY <1>0, <2>1, OpenedIs, Constants
    <3> QED
      BY <1>0, <2>1, <3>1 DEF CanOpen
  <2>2. CASE Write
    <3>1. /\ Current' = log'.after /\ log'.after.schema = Current.schema
          /\ log'.after.there = Current.there
      BY <2>2, NumbersReach DEF Write, Current, Typed
    <3> QED
      BY <3>1 DEF CanOpen
  <2>3. CASE Current' = NoFile
    BY <1>0, <2>3 DEF CanOpen
  <2>4. CASE RestoreSwaps /\ Current' = incoming
    BY <2>4 DEF RestoreSwaps, RestoreOK, CanOpen
  <2>5. CASE RestoreTakesBack /\ restore.replaced /\ Current' = Last(aside)
    BY <2>5 DEF RestoreTakesBack
  <2> QED
    BY <2>1, <2>2, <2>3, <2>4, <2>5, CurrentMoves
<1>2. restore'.at # "idle" => CanOpen(image, restore'.from)
  <2>1. CASE restore'.from = restore.from /\ restore.at # "idle"
    BY <2>1
  <2>2. CASE UNCHANGED restore
    BY <2>2
  <2>3. ASSUME NEW from, RestoreChecks(Named(tag), from), restore'.from = from
        PROVE  CanOpen(image, restore'.from)
    BY <2>3 DEF RestoreChecks
  <2>4. RestoreSwaps => restore.at # "idle"
    BY DEF RestoreSwaps
  <2> QED
    BY <2>1, <2>2, <2>3, <2>4, RestoreMoves
<1>3. restore'.at = "moved" /\ restore'.replaced => CanOpen(image, Last(aside'))
  <2>1. CASE UNCHANGED <<restore, incoming, aside>>
    BY <2>1
  <2>2. CASE RestoreMovesAside /\ restore'.replaced = restore.replaced
    <3>1. restore.replaced => aside' = Append(aside, database) /\ database = Current
      BY <2>2 DEF RestoreMovesAside, KeptAside, LogOK, Current
    <3>2. Last(Append(aside, Current)) = Current
      BY CurrentIs, AppendIs DEF Typed
    <3> QED
      BY <2>2, <3>1, <3>2
  <2> QED
    BY <2>1, <2>2, RestoreMoves
<1> QED
  BY <1>1, <1>2, <1>3

\* What the script knows of the version that runs stays true, while it is at
\* work and after it went through.
LEMMA ScriptKept ==
  ASSUME UpdateInv, Typed', ScriptTyped', LogOK', [UpdateNext]_allvars
  PROVE  ScriptOK'
<1> USE DEF UpdateInv
<1>0. /\ FilesStep /\ works' = works /\ script'.backup \in FilesNow'
      /\ NoRestore.at = "idle"
  BY StepsAre, ScriptBackupKept, Constants DEF ScriptOK
<1>1. script'.at = "off" /\ restore'.at = "idle" => ScriptOK'
  BY <1>0 DEF ScriptOK, Back
<1>2. ASSUME UNCHANGED <<image, tag, latest, script>>,
             restore'.at # "idle" => script.at \in {"off", "done", "restoring"},
             script.at = "restoring" => restore'.at # "idle" /\ restore'.from = restore.from
      PROVE  ScriptOK'
  <2>1. Named(tag)' = Named(tag)
    BY <1>2 DEF Named
  <2>2. ASSUME Back
        PROVE  /\ Named(tag) = image /\ image \in works /\ CanOpen(image, Current')
               /\ restore'.at # "idle" => CanOpen(image, restore'.from)
               /\ restore'.at = "moved" /\ restore'.replaced => CanOpen(image, Last(aside'))
    <3>1. /\ Named(tag) = image /\ image \in works /\ CanOpen(image, Current)
          /\ restore.at # "idle" => CanOpen(image, restore.from)
          /\ restore.at = "moved" /\ restore.replaced => CanOpen(image, Last(aside))
      BY <2>2 DEF ScriptOK
    <3> QED
      BY <1>0, <1>2, <3>1, OpensKept
  <2>3. Back' = Back
    BY <1>0, <1>2 DEF Back
  <2>4. script.at = "restoring" => CanOpen(image', restore'.from)
    BY <1>2 DEF ScriptOK
  <2> QED
    BY <1>0, <1>2, <2>1, <2>2, <2>3, <2>4 DEF ScriptOK
\* What goes on by itself, and what is done by hand.
<1>3. CASE (Alone \/ ByHand) /\ UNCHANGED update
  <2>1. UNCHANGED <<tag, latest, script>>
    BY <1>3 DEF update
  <2>2. UNCHANGED image /\ (UNCHANGED restore \/ script.at \in {"off", "done"})
    BY <1>3 DEF Alone, ByHand, Start, Write, Nightly, Kill, BackupCommand, RestoreChecks, Stop, Idle
  <2> QED
    BY <1>2, <2>1, <2>2 DEF ScriptOK
\* A restore goes on, and its command returns.
<1>4. CASE (RestoreCopies \/ RestoreNumbers \/ RestoreMovesAside \/ RestoreSwaps) /\ UNCHANGED update
  <2>1. UNCHANGED <<tag, latest, script, image>>
    BY <1>4 DEF update, RestoreCopies, RestoreNumbers, RestoreMovesAside, RestoreSwaps
  <2>2. restore.at # "idle" /\ \E a \in {"copied", "ready", "moved", "swapped"} : restore' = [restore EXCEPT !.at = a]
    BY <1>4 DEF RestoreCopies, RestoreNumbers, RestoreMovesAside, RestoreSwaps
  <2>3. restore'.at # "idle" /\ restore'.from = restore.from
    BY <2>2 DEF Typed
  <2> QED
    BY <1>2, <2>1, <2>2, <2>3 DEF ScriptOK
<1>5. CASE (RestoreFails \/ RestoreStays \/ RestoreTakesBack) /\ Returns(TRUE)
  <2>1. UNCHANGED image /\ restore'.at = "idle"
    BY <1>0, <1>5 DEF RestoreFails, RestoreStays, RestoreTakesBack
  <2>2. CASE script.at = "restoring"
    <3>1. script'.at = "done" /\ script'.lost
      BY <1>5, <2>2 DEF Returns, ScriptTyped
    <3> QED
      BY <1>0, <2>1, <3>1 DEF ScriptOK, Back
  <2>3. CASE script.at # "restoring"
    <3>1. UNCHANGED <<tag, latest, script>>
      BY <1>5, <2>3 DEF Returns
    <3> QED
      BY <1>2, <2>1, <2>3, <3>1
  <2> QED
    BY <2>2, <2>3
<1>6. CASE RestoreCleans /\ Returns(FALSE)
  <2>1. UNCHANGED image /\ restore'.at = "idle" /\ restore.at = "swapped"
    BY <1>0, <1>6 DEF RestoreCleans
  <2>2. CASE script.at = "restoring"
    <3>1. script'.at = "done" /\ script'.ran = script.ran /\ UNCHANGED <<tag, latest>>
      BY <1>6, <2>2 DEF Returns, ScriptTyped
    <3>2. Named(tag)' = image /\ image = script.ran
      BY <2>2, <3>1, UpdateAssumption DEF ScriptOK, Named, ScriptTyped
    <3>3. CanOpen(image, Current')
      <4>1. Current' = database /\ database.schema = restore.from.schema /\ restore.from.there
        BY <1>6, <2>1, Constants DEF RestoreCleans, Current, RestoreOK
      <4>2. CanOpen(image, restore.from)
        BY <2>2 DEF ScriptOK
      <4> QED
        BY <4>1, <4>2 DEF CanOpen
    <3> QED
      BY <1>0, <2>1, <3>1, <3>2, <3>3 DEF ScriptOK, Back
  <2>3. CASE script.at # "restoring"
    <3>1. UNCHANGED <<tag, latest, script>>
      BY <1>6, <2>3 DEF Returns
    <3> QED
      BY <1>2, <2>1, <2>3, <3>1
  <2> QED
    BY <2>2, <2>3
<1>7. CASE PowerFails
  <2>1. UNCHANGED <<image, tag, latest>> /\ restore'.at = "idle"
    BY <1>0, <1>7 DEF PowerFails, Crash
  <2>2. CASE Idle
    BY <1>2, <1>7, <2>1, <2>2 DEF PowerFails, Idle
  <2>3. CASE ~Idle
    BY <1>1, <1>7, <2>1, <2>3, NoScriptIs DEF PowerFails
  <2> QED
    BY <2>2, <2>3
\* The script's own steps.
<1>8. CASE UpByHand
  BY <1>1, <1>8, NoScriptIs DEF UpByHand, ComposeUp
<1>9. ASSUME NEW asked \in Tags, Begins(asked) PROVE ScriptOK'
  <2>1. script'.at = "begun" /\ UNCHANGED restore /\ restore.at = "idle"
    BY <1>9 DEF Begins, Follows, NoScript, vars
  <2> QED
    BY <1>0, <2>1 DEF ScriptOK, Back
<1>10. CASE BacksUp \/ NoBackup \/ Pulls
  <2>1. script'.at \in {"backed", "pulled"} /\ UNCHANGED restore /\ script.at \in {"begun", "backed"}
    BY <1>10 DEF BacksUp, NoBackup, Pulls, ScriptTyped, vars
  <2> QED
    BY <1>0, <2>1 DEF ScriptOK, Back
<1>11. CASE NothingChanged
  <2>1. UNCHANGED restore /\ restore.at = "idle"
    BY <1>11 DEF NothingChanged, vars, ScriptOK
  <2> QED
    BY <1>1, <1>11, <2>1, NoScriptIs DEF NothingChanged
<1>12. CASE StartsNew
  <2>1. script'.at = "new" /\ UNCHANGED restore /\ restore.at = "idle" /\ Named(tag)' = image'
    BY <1>12 DEF StartsNew, ComposeUp, ScriptTyped, ScriptOK, Named
  <2> QED
    BY <1>0, <2>1 DEF ScriptOK, Back
<1>13. CASE ComesUp
  <2>1. /\ script'.at = "done" /\ UNCHANGED <<restore, image, Current, tag, latest>>
        /\ restore.at = "idle" /\ server = "up" /\ image \in works
    BY <1>13 DEF ComesUp, Healthy, vars, Current, ScriptTyped, ScriptOK
  <2>2. Named(tag)' = image
    BY <1>13, <2>1, UpdateAssumption DEF ComesUp, ScriptTyped, ScriptOK, Named, Tags
  <2>3. CanOpen(image, Current)
    <3>1. Current.schema = SCHEMA_VERSION[image] /\ SCHEMA_VERSION[image] \in Nat
      BY <2>1, Constants DEF Fits, Typed
    <3> QED
      BY <3>1 DEF CanOpen
  <2> QED
    BY <1>0, <2>1, <2>2, <2>3 DEF ScriptOK, Back
<1>14. CASE GivesUpOnNew
  <2>1. /\ script'.at = "back" /\ script'.ran = script.ran /\ tag' = script.ran
        /\ UNCHANGED restore /\ restore.at = "idle"
    BY <1>14 DEF GivesUpOnNew, Pinned, vars, ScriptTyped, ScriptOK
  <2> QED
    BY <1>0, <2>1 DEF ScriptOK, Back
<1>15. CASE StartsOld
  <2>1. /\ script'.at = "old" /\ script'.ran = script.ran /\ tag' = script.ran /\ image' = script.ran
        /\ UNCHANGED restore /\ restore.at = "idle"
    BY <1>15, UpdateAssumption DEF StartsOld, ComposeUp, ScriptTyped, ScriptOK, Named
  <2> QED
    BY <1>0, <2>1 DEF ScriptOK, Back
<1>16. CASE GivesUpOnOld \/ RestoreRefused
  <2>1. /\ script'.at = "done" /\ (~script'.backup.there \/ script'.lost)
        /\ UNCHANGED restore /\ restore.at = "idle"
    BY <1>16 DEF GivesUpOnOld, RestoreRefused, vars, ScriptTyped, ScriptOK
  <2> QED
    BY <1>0, <2>1 DEF ScriptOK, Back
<1>17. CASE StopsForBackup
  <2>1. /\ script'.at = "stopped" /\ script'.ran = script.ran
        /\ UNCHANGED <<tag, image, restore>> /\ restore.at = "idle" /\ script.at = "old"
    BY <1>17 DEF StopsForBackup, Stop, vars, ScriptTyped, ScriptOK
  <2> QED
    BY <1>0, <2>1 DEF ScriptOK, Back
<1>18. CASE PutsBackupBack
  <2>1. /\ script'.at = "restoring" /\ script'.ran = script.ran
        /\ UNCHANGED <<tag, latest, image>> /\ script.at = "stopped"
    BY <1>18 DEF PutsBackupBack, RestoreChecks, ScriptTyped
  <2>2. tag = script.ran /\ image = script.ran /\ Named(tag) = image
    BY <2>1, UpdateAssumption DEF ScriptOK, Named, ScriptTyped
  <2>3. restore'.at = "checked" /\ restore'.from = script.backup /\ CanOpen(Named(tag), script.backup)
    BY <1>18, Constants DEF PutsBackupBack, RestoreChecks
  <2> QED
    BY <1>0, <2>1, <2>2, <2>3 DEF ScriptOK, Back
<1>19. CASE Killed
  <2>1. UNCHANGED restore
    BY <1>19 DEF Killed, vars
  <2> QED
    BY <1>0, <1>19, <2>1, NoScriptIs DEF Killed, ScriptOK, Back
<1>20. CASE UNCHANGED allvars
  BY <1>2, <1>20 DEF allvars, vars, update, ScriptOK
<1> QED
  BY <1>3, <1>4, <1>5, <1>6, <1>7, <1>8, <1>9, <1>10, <1>11, <1>12, <1>13, <1>14, <1>15, <1>16,
     <1>17, <1>18, <1>19, <1>20 DEF UpdateNext

----------------------------------------------------------------------------
(* The theorems.                                                           *)

\* It all begins so.
LEMMA UpdateInvInit ==
  ASSUME UpdateInit
  PROVE  UpdateInv /\ NumbersOK
<1> DEFINE f == [Fresh(First) EXCEPT !.knows = TRUE]
<1>1. /\ f \in Shape /\ f.there /\ f.schema = SCHEMA_VERSION[First] /\ f.last = 0 /\ f.seq = 0
      /\ First \in Images
  BY FreshIs, Constants DEF Shape
<1>2. database = f
  BY DEF UpdateInit, Init
<1> HIDE DEF f
<1>3. /\ writes = 0 /\ guesses = 0 /\ top = 0 /\ Reach = 0
      /\ log = NoLog /\ incoming = NoFile /\ restore = NoRestore /\ aside = <<>> /\ backups = <<>>
      /\ image = First /\ server = "up"
  <2>1. 0 * RESTORE_GAP = 0
    BY RestoreAssumption
  <2> QED
    BY <2>1 DEF UpdateInit, Init, Reach
<1>4. Current = f
  BY <1>2, <1>3, Constants DEF Current
<1>5. Typed
  BY <1>1, <1>2, <1>3, Constants DEF Typed
<1>6. ScriptTyped
  BY <1>1, Constants DEF ScriptTyped, UpdateInit, NoScript, Tags
<1>7. f \in FilesNow /\ NoFile \in FilesNow
  BY <1>1, <1>3, Constants DEF FilesNow, Files
<1>8. FilesOK /\ LogOK /\ RestoreOK
  BY <1>1, <1>2, <1>3, <1>7, Constants DEF FilesOK, LogOK, RestoreOK
<1>9. ScriptOK
  BY <1>3, <1>7, NoScriptIs, Constants DEF ScriptOK, UpdateInit, Back
<1>10. Fits /\ KeepsNewest
  BY <1>1, <1>3, <1>4 DEF Fits, KeepsNewest
<1>11. NumbersOK
  <2>1. Past(f, 0)
    BY <1>1 DEF Past
  <2> QED
    BY <1>3, <1>4, <2>1, Constants DEF NumbersOK
<1> QED
  BY <1>5, <1>6, <1>8, <1>9, <1>10, <1>11 DEF UpdateInv

\* And stays so.
LEMMA UpdateInvStep ==
  ASSUME UpdateInv, [UpdateNext]_allvars
  PROVE  UpdateInv' /\ FilesStep
<1> USE DEF UpdateInv
<1>1. FilesStep
  BY StepsAre
<1>2. Typed' /\ LogOK' /\ RestoreOK'
  BY <1>1, TypedStep, LogKept, RestoreKept
<1>3. FilesOK'
  BY <1>1, <1>2, FilesKept
<1>4. KeepsNewest' /\ Fits'
  BY <1>1, <1>2, NewestKept, FitsKept
<1>5. ScriptTyped'
  BY ScriptTypedStep
<1>6. ScriptOK'
  BY <1>2, <1>5, ScriptKept
<1> QED
  BY <1>1, <1>2, <1>3, <1>4, <1>5, <1>6

\* Files within reach are files.
LEMMA ReachIsFile ==
  ASSUME Typed
  PROVE  FilesNow \subseteq File
<1>1. PICK w \in Nat, g \in Nat : w = writes /\ g = guesses
  BY DEF Typed
<1>2. w <= MaxWrites /\ g <= MaxGuesses /\ MaxWrites \in Nat /\ MaxGuesses \in Nat /\ RESTORE_GAP \in Nat
  BY <1>1, RestoreAssumption DEF Typed
<1>3. g * RESTORE_GAP <= MaxGuesses * RESTORE_GAP
  BY <1>2
<1>4. g * RESTORE_GAP \in Nat /\ MaxGuesses * RESTORE_GAP \in Nat
  BY <1>2
<1>5. w + g * RESTORE_GAP <= MaxWrites + MaxGuesses * RESTORE_GAP
  BY <1>2, <1>3, <1>4
<1> DEFINE r == w + g * RESTORE_GAP
           m == MaxWrites + MaxGuesses * RESTORE_GAP
<1>6. r \in Nat /\ m \in Nat /\ r <= m
  BY <1>2, <1>4, <1>5
<1>7. FilesNow = Files(w, r) /\ Numbers = 0..m
  BY <1>1 DEF FilesNow, Reach, Numbers
<1> HIDE DEF r, m
<1>8. ASSUME NEW f \in Files(w, r) PROVE f \in File
  <2>1. f \in Shape /\ f.last <= w /\ f.seq <= r
    BY DEF Files
  <2>2. f.last \in 0..MaxWrites /\ f.seq \in 0..m
    BY <1>2, <1>6, <2>1 DEF Shape
  <2> DEFINE l == 0..MaxWrites
             n == 0..m
  <2>3. f.last \in l /\ f.seq \in n
    BY <2>2
  <2> HIDE DEF l, n
  <2>4. f \in [there : BOOLEAN, schema : Nat, knows : BOOLEAN, seq : n, last : l]
    BY <2>1, <2>3 DEF Shape
  <2> QED
    BY <1>7, <2>4 DEF File, l, n
<1> QED
  BY <1>7, <1>8

\* The invariant gives the properties the runs check.
LEMMA UpdateInvImplies ==
  ASSUME UpdateInv
  PROVE  KeepsNewest /\ NoForeignLog /\ SchemaFits /\ ComesBack
<1> USE DEF UpdateInv
<1>1. FilesNow \subseteq File
  BY ReachIsFile
<1>2. TypeOK
  <2>1. ToSet(aside) \subseteq FilesNow /\ ToSet(backups) \subseteq FilesNow
    BY LenProperties DEF FilesOK, Backups, ToSet
  <2> QED
    BY <1>1, <2>1 DEF TypeOK, Typed, FilesOK
<1>3. UpdateTypeOK
  BY <1>1 DEF UpdateTypeOK, ScriptTyped, ScriptOK
<1> QED
  BY <1>2, <1>3 DEF NoForeignLog, LogOK, SchemaFits, Fits, ComesBack, ScriptOK, Back

\* The inductive invariant, at every state: where every file is at every step of
\* a restore and of update.sh, and what the script knows of the version that runs.
THEOREM UpdateInvariant == UpdateSpec => []UpdateInv
<1>1. UpdateInit => UpdateInv
  BY UpdateInvInit
<1>2. UpdateInv /\ [UpdateNext]_allvars => UpdateInv'
  BY UpdateInvStep
<1> QED
  BY <1>1, <1>2, PTL DEF UpdateSpec

\* restore keeps what was there: the last write ever made is in the database or
\* in a file moved aside, however many restores are cut wherever, by whatever
\* versions, and whatever update.sh does in between.
THEOREM KeepsNewestCorrect == UpdateSpec => []KeepsNewest
BY UpdateInvariant, UpdateInvImplies, PTL

\* A log is never played over a file it is not of, and no number is past what
\* writes and skips add up to (Db::restore, Db::open).
THEOREM NoForeignLogCorrect == UpdateSpec => []NoForeignLog
BY UpdateInvariant, UpdateInvImplies, PTL

\* Whichever version is installed over, taken back or run as a command, a server
\* that is up is on a database of exactly its schema (migrate).
THEOREM SchemaFitsCorrect == UpdateSpec => []SchemaFits
BY UpdateInvariant, UpdateInvImplies, PTL

\* update.sh, having made a backup of a version that works, ends by itself with
\* one that works and opens the database, unless putting the backup back failed.
THEOREM ComesBackCorrect == UpdateSpec => []ComesBack
BY UpdateInvariant, UpdateInvImplies, PTL

\* carry_numbers_forward, as long as no restore has to skip twice: a write is
\* numbered past every write before it, those a restore took back included.
THEOREM NumbersGrowCorrect ==
  ASSUME MaxGuesses <= 1
  PROVE  UpdateSpec => NumbersGrow
<1>1. UpdateInit => UpdateInv /\ NumbersOK
  BY UpdateInvInit
<1>2. ASSUME UpdateInv, NumbersOK, [UpdateNext]_allvars
      PROVE  /\ UpdateInv' /\ NumbersOK'
             /\ [writes' > writes => Current'.seq > top]_vars
  <2>1. UpdateInv' /\ FilesStep
    BY <1>2, UpdateInvStep
  <2>2. NumbersOK' /\ (writes' > writes => Current'.seq > top)
    BY <1>2, <2>1, NumbersKept DEF UpdateInv
  <2> QED
    BY <2>1, <2>2
<1> QED
  BY <1>1, <1>2, PTL DEF UpdateSpec, NumbersGrow

=============================================================================
