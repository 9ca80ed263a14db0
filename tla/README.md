# UwUSync Server in TLA+

A verification project for the sync server in this repository: TLA+ modules of
its core, TLC configurations that check them on small instances, and theorems
about them that TLAPS proves for every instance. Paths below are relative to the
server's crate (`db/records.rs` is `src/db/records.rs`), those of scripts to the
repository.

## The system

UwUSync Server keeps the sealed records of accounts and hands them to the
account's devices. It cannot read a record: what it decides, it decides by
numbers, sizes, names and times. It is one process (axum on tokio) with one
SQLite connection behind one mutex, a few tables in memory each behind a mutex of
its own, a maintenance task, and a command line that opens the same database
from another process. It runs in a container that `update.sh` exchanges.

| Part | State | Operations | Shares with |
|---|---|---|---|
| Mailbox (`db/records.rs`, `api/records.rs`) | rows numbered by the account's `seq`, counts kept by hand, a cursor per device | push (a transaction), pull (a page, and the note that it was read), purge of tombstones, dropping of manifests | devices, maintenance, quota of all accounts |
| Sessions and challenges (`auth.rs`, `api/session.rs`) | tokens by token and by device; outstanding challenges | challenge, login, authenticate, drop, sweep | devices |
| Devices and enrolment (`db/devices.rs`, `db/invites.rs`, `api/devices.rs`) | device rows, enrolment tokens | invite, enrol, revoke | sessions, pairing, mailbox, streams |
| Accounts (`db/accounts.rs`, `api/accounts.rs`) | verifier and vault header, `seq`, counts, invites | redeem and create, prove, change password | devices, the start of the server |
| Pairing relay (`pairing.rs`, `api/pairing.rs`) | sessions with two slots of messages and a `Notify` | open, admit, post, read with a wait, close | revocation |
| Event streams (`state.rs`, `api/records.rs`) | streams per device, a channel per account, a queue per client | open, announce, hand on, the half-minute check, drop | sessions, mailbox |
| Rate limiter (`limits.rs`) | tries per address and bucket, tries per member, what is going at once | count, forgive, start, sweep | every handler |
| Connections (`connections.rs`) | how many are open, per address and in all; idle clocks | admit, read, answer, drop | the places requests hold |
| Backup and restore (`db/mod.rs`) | files beside the database, the database's schema | backup, restore, migrate | a stopped server, `update.sh` |
| Key (`tls.rs`, `health.rs`) | the key file every device pins | find, make, write, compare | the start, the commands |
| Commands (`main.rs`) | none of their own | start, `invite`, `new-key`, `fingerprint`, `device revoke`, `backup`, `restore`, maintenance | all |
| Update (`update.sh`, `compose.yaml`) | `.env`, the images on the machine | back up, pull, start, go back | backup and restore |

What is hard here is seldom one function. A handler authenticates under one lock
and works under another, and a revocation falls in between. An answer is lost
after the server has noted it as delivered. Statements that belong together run
under a mutex but not in a transaction, and the process dies between them. Tables
are at their limit, and the way room is made goes wrong. `PROJECT.json` lists
these hazards line by line, with the properties that would catch them.

What makes each part correct:

* Mailbox: no update is lost, a reader skips nothing, a deleted record never
  comes back, the counts are those of the rows, a quota is never passed.
* Sessions, devices, enrolment: one signature buys one session, one token one
  device, a device that is out is out for good, and somebody is always in.
* Founding: one key, made once and kept; invites and accounts add up; a server
  that started can be joined.
* Events: a stream is counted off once however it ends, and whoever listens
  hears that something changed, though not how often.
* Pairing: nobody speaks for another side, nothing is lost or doubled, nobody
  sleeps through a message.
* Limiter: bounded tables, and nobody held to more or less than their own tries.
* Connections and answers: counted off once however they end, never ended while
  something is answered, never kept when nothing is.
* Restore and update: whatever they are cut by, the newest data is in some file,
  numbers devices have read past are not handed out again, and the version that
  is left running can read the database it is left with.

## Modules

| Module | Models |
|---|---|
| `Mailbox` | one account: push, pull, purge, revocation, quota, restart |
| `RecordStore` | the abstract promise `Mailbox` implements |
| `MCMailbox` | instances of `Mailbox` |
| `MailboxProofs` | theorems: counts, quotas, no lost update, `Mailbox` implements `RecordStore`; then what devices know, pages, tombstones |
| `Access` | devices of one account: signing in, joining, being shut out |
| `Events` | extends `Access`: announcements and event streams |
| `MCAccess`, `MCEvents` | instances of the two |
| `AccessProofs` | theorems: tables, sessions, joining, revoking |
| `EventsProofs` | theorems: streams, announcements, and those of `Access` with streams |
| `Founding` | the start, the key, the commands beside it, invites, registration |
| `MCFounding` | an instance of `Founding` |
| `FoundingProofs` | theorems: the key, invites, accounts |
| `Pairing` | the relay and its handlers |
| `MCPairing` | an instance of `Pairing` |
| `PairingProofs` | theorems: sides, messages, wakeups, caps |
| `Limits` | the rate limiter, one bucket |
| `MCLimits` | an instance of `Limits` |
| `LimitsProofs` | theorems: the tables' room, and whose tries a member is refused for |
| `Connections` | the gate, and one connection with its clocks and its reader |
| `Answers` | extends `Connections`: its requests, and the places they take |
| `MCAnswers` | an instance of `Answers` |
| `ConnectionsProofs` | theorems: the gate's counts, when a connection is ended, the places, and that `Answers` implements `Connections` |
| `Restore` | the database's files, backups, schemas, and putting one back |
| `Update` | extends `Restore`: `update.sh` |
| `MCUpdate` | an instance of `Update` |
| `UpdateProofs` | theorems: what restores and updates leave, and numbers after a restore |

Operators named "Mutant: ..." in a comment are wrong on purpose. They stand next
to the operator they vary and are used by no specification; putting one in the
other's place must break the property `PROJECT.json` pairs it with.

### Mailbox

`account` is the account's row, `rows` the records table (number 0: no row),
`device` the device rows, `quota` the configuration. `tx` is the transaction of
the push that holds the mutex: `push_within` goes through its batch envelope by
envelope (`PushEnvelope`) on a copy of the rows, then refuses (`PushRefused`) or
commits (`PushCommit`). Everything else waits for the mutex (`Unlocked`).
Requests live in `req`: authenticated in one step (`PushArrives`, `PullArrives`),
worked on in another, answered (`pushed`, `pulled`), then delivered or lost.
`client` is what a device knows. Clients are not in this repository; they are
modelled as the handlers expect them, one request at a time, a push based on
the version the client has.

A pull makes the page, the note of how far the device has read and the flag
`has_more` under one lock (`PullAnswered`). The page is cut by number and by
bytes and holds one record whatever its size (`Page`); the cursor passes what the
device does not ask for, but not what had no room (`PageCursor`).

Time is one event, `Season`: everything held is ninety days old. It only happens
between requests, since no request lives that long. The purge takes the
tombstones that are old and that every live device has read. The command line
revokes in two steps with the server running in between (`RevokeByCommand`,
`DropManifests`).

Abstracted: an envelope is its record, its base and its length; a wrong vault or
nonce is refused like an empty blob; other accounts are the bytes they hold.

### RecordStore

A store of numbered versions: a step numbers some records above everything there
was, or forgets some, and records that are neither tombstones nor manifests are
never forgotten. `KeepsRecordStore`, in `Mailbox`, maps the committed rows to it.

### Access

Each table of the code is a variable: `device`, `password`, `enrolments`
(database), `by_token`, `by_device`, `challenges` (memory). `req` holds the requests
being worked on, one per worker, and `command` the device the command line is
revoking. A handler is as many steps as it takes locks: `login` is `LoginLooksUp`,
`LoginFinds`, `LoginSpends`, `LoginIssues`. Where a handler runs several
statements under the database's mutex without a transaction (`enrol`, right or wrong
password, and `revoke`), each is a step and `DbFree` keeps the other handlers out,
while `Restart` and the command line get in, and the next statement may fail
(`StatementFails`). A wrong password is counted (`CountWrong`) and then the count
looked at (`UseUp`); `unsettled`, which is not in the code, is how many were counted
and never looked at. Random values are numbers handed out upwards, so a list the
code keeps oldest first is a set of them, and who makes room is its least. A token,
challenge or enrolment expires at any time, and expiry is a flag.

### Events

A worker of `Access` that was let in with "events" is the stream's task from then
on. `streams` is the count per device, `channel` the account's entry in the map of
broadcast channels, `inbox` a receiver, `outbox` the queue to the client, `sending`
the number the task waits to hand on. The two tables have a mutex each and the
step that opens a stream takes one after the other, with nothing in between that
another step could tell. A push commits (`Push`) and announces once it has let the
database go (`Announce`), so `unsaid` holds numbers that may be announced in any
order. A listener that lags loses the oldest number it was sent (`Kept`).
`still_in` is asked only by a task that does not wait (`StreamEnds`). Restarting
empties everything in memory, numbers that were never announced with it.

### Founding

The server and each command are processes (`proc`) on one data directory: a file
operation or a statement is a step, and a process stops anywhere (`Stops`). `key` is
the key file, which a crash may leave without a key in it; keys are numbers and a
fingerprint is the key. The start asks whether there are accounts and makes a key
only if there are none (`Asks`), makes it with `create_new` (`CreatesFile`), then
makes and shows an invite when nobody could join (`ServerCounts`). Registration is
three statements under one lock (`joining`): redeem, create, add the device. It goes
no further when the process stops or one of the last two fails (`RegistrationFails`),
and what was written stays. Not in the code are `cut`, the registrations that ended
so, and `wasted`, that since the server looked an invite ran out or was spent on one. People
are external: they paste the code they were shown, and a device goes no further
than the handshake when the code names another key.

### Pairing

`sessions` by code; `call` is each party's request and how far it got; `heard` is
what a party was told, whose length is the `after` it sends. The read handler
fetches the waiter and enables it (`Listens`), looks (`Looks`), waits and looks again
(`LooksAgain`), each under its own lock, and every step may find the session over
(`Misses`). `standing` is a device's revocation: marked in the database first, its
sessions closed at the end, or never when it was the command line. Codes are
random in the code and fresh in the model.

### Limits

One bucket. `held` is whom the tables remember, `at` their tries; addresses share a
bounded table that is swept and then coarsened to networks and to one shared
count (`WithRoom`, `Coarser`); members have a table of their own. Two requests
overlap and turn out in either order. Tries that left the window are dropped from the
front (`Recent`), and a sweep looks at the last one alone (`Sweep`), as in the code.
`failed` is not in the code: it is when a member's tries failed, which is what the
limit is for, and together with the requests not answered yet it is what a member
may be held to (`Unforgiven`). Counting is one step at one moment; the code reads the
clock just before it takes the lock, so two requests may enter their moments the
other way round by as long as the wait for the lock takes, which is taken to be
less than a tick.

### Connections and Answers

`open` is the gate's two counts, kept apart as in the code; `others` are the
connections there are besides the followed one, whose life is `phase`. A poll of
the reader is two steps, the look at the socket (`ReadsNothing`, `ReadsBytes`, ...)
and the look at the `Activity` under its lock (`StillAnswering`, `IdleForNow`,
`IdleTooLong`), and `AnswerEnds`, on another task, gets in between. `task` has tokio's
rule: a task woken while it runs runs again. Time is relative (what is left of a
`Sleep`, how long nothing was answered), so it needs no bound. External: hyper reads
until there is nothing. On HTTP/2 it pings the client (`tune`), and a ping that is
not answered in time ends the connection whatever it is answering (`PingUnanswered`);
which HTTP a connection speaks is not followed, so the model lets any connection be
pinged. hyper's own deadline for the headers on HTTP/1.1 is as long as the idle one,
runs only while nothing is answered, and ends what the idle clock ends. The code
supposes that a request is at least `FIRST_BYTES` long (`connections.rs:66`); hyper
takes a shorter one too, without a `Host`, and so does `ReadsRequest`. Stopping in
order, which does cut answers after five seconds, is axum's and left out.

`NeverCutShort` is therefore about the two clocks of `Guarded`. But for a ping that
was not answered and for a request shorter than `FIRST_BYTES` after which nothing
came (its connection is ended when the first bytes are overdue, its answer with it),
the server ends no connection with something to answer. A request that short
has no room for a token, so its answer is a short one, out at once unless its client
does not read it.

`Answers` follows the requests of that connection and the places an account's
pulls and pushes take (`going`, the entries of `AtOnce`). A pull's place moves into
the body of its answer (`PageMade`), a push's goes when it is worked off; a
request is refused, fails, is reset or goes with its connection, in which case its
handler may outlive it (`RequestsDropped`). Requests of the account on other
connections are how many places they hold.

### Restore and Update

The files are variables: `database`, `log` beside it, `incoming`, what restores moved
`aside`, `backups`. One account is followed; a file is its schema, whether it knows
the account, the account's number, and the last write in it. A version opens a
database of its schema or an older one, which it migrates into the log (`Opened`),
and refuses a newer one (`CanOpen`). `restore` takes one file operation a step, and
`Crash` may come between any two; `RestoreFails`, `RestoreStays` and `RestoreTakesBack`
are its error paths. The database that is replaced may be too damaged to say how
far it had got. A restore is assumed to run alone: the code looks for other
connections once and closes its own before the swap. A database moved aside is
assumed to have a name of its own; the code names it to the second.

`Update` is `update.sh` as one command a step: `Begins` notes what runs and what
`.env` says, then `BacksUp`, `Pulls`, `StartsNew`, and, if the new version is not
healthy, `GivesUpOnNew` pins the exact version that ran, `StartsOld` starts it, and,
if that cannot open the database either, the backup is restored. The script is
killed between any two (`Killed`), power fails, and between updates the admin stops
the server, restores, backs up and brings versions up by hand. Docker starts a
server that was not stopped by hand. Assumed: an image that ran here can be had
again; a version comes up on every database it can open or on none; nobody runs
the server's commands while the script is at work.

## Runs

Every passing run checks for deadlock as well. The types of most modules are part
of another invariant of the run (`TablesAgree`, `StreamsCounted`, `OneKey`,
`SessionsCapped`, `TableBounded`, `NoForeignLog`, `SchemaFits`), so that one run does
not check two formulas a reader has to tell apart; those of `Mailbox` and
`Connections` are only proved.

| Run | Shows | Instance |
|---|---|---|
| `tombstones` | `NoGhosts`, `ForgottenOnlyOnceRead`, `NoLostUpdate` | one record, two devices that both write, one of which joins late; both are revoked in every way; three numbers, so a record is written, deleted, purged and written again |
| `pages` | `NothingSkipped`, `HasMoreIsHonest`, `EverythingIsRead` | two records, a writer and a reader that does not read manifests; pages cut by number and by bytes, and pages of no records asked for |
| `quota` | `CountsExact`, `QuotaHeld`, `KeepsRecordStore` | two quotas, blobs and batches on both sides of each limit, another account growing |
| `access` | `TablesAgree`, `OneSignatureOneSession`, `AccountReachable`, `OneTokenOneDevice`, `GuessesBounded` | three devices, one of them there to begin with, two workers, three tokens, a challenge, an enrolment token with two attempts, changes of the password, crashes and failed statements, one of which may fall between a wrong password and the look at how many there were |
| `events` | `StreamsCounted`, `NobodyIsCutOff`, `NewsOnItsWay`, `RevokedIsOut` | one device, two workers, two pushes, channel and queue of one, revocation by command racing with sign-ins and streams, restarts |
| `founding` | `PinsHold`, `OneKey`, `InvitesAccountFor`, `WayIn`, `AccountsCapped` | the server and one command at a time, two keys, two invites, two accounts, a limit of one or two, with and without invites; registrations cut by a crash or a failed statement |
| `pairing` | `OnlyTheirSide`, `InOrderOnce`, `NoLostWakeup`, `SessionsCapped`, `NotLockedOut` | an opener, two who want to join, two sessions one after the other, two messages a side |
| `limits` | `TableBounded`, `TriesHeld`, `RefusedForItsOwn` | three addresses in two networks, room for one address and one network, one member, two requests at once |
| `connections` | `GateExact`, `PlacesExact`, `NeverCutShort`, `IdleEnds` | two addresses, four connections in all and three from one, a timeout of three moments and of one for a ping, first bytes of two, two requests at once, short or not, one place for pulls and one for pushes |
| `update` | `KeepsNewest`, `NoForeignLog`, `NumbersGrow`, `SchemaFits`, `ComesBack` | two versions of which the newer may migrate and may never come up, two writes, one backup by hand and by night, two databases moved aside, one restore that has to guess |
| `lost_page` | violation of `NoGhosts` | as `tombstones`, and an answer may be lost |
| `foreign_cursor` | violation of `ForgottenOnlyOnceRead` | as `tombstones`, and a device arrives with a cursor from elsewhere |

Bounds. `MaxSeq` stops pushes from setting out, and `MaxTokens`, `MaxChallenges`,
`MaxEnrolments`, `MaxUnsettled`, `MaxOpened`, `MaxKeys`, `MaxInvites`,
`MaxAccounts`, `MaxPushes` and `MaxNow` bound what is ever handed out. Most are just
past the limit that the same instance gives the code (shares of one or two and one
more handed out), so that the limit is reached, passed and reached again. Two
workers are enough for the races of one table: each step touches one lock, and the
properties speak of pairs of requests. No second challenge fits into `access` in
reasonable time, so that a device's share of them is held is left to the theorem. A channel and a queue of one lag after two
pushes. One key more than the first is what `new-key` and a lost key need; of two
invites one can be wasted and the other used. Symmetry is used among workers and
among devices no formula tells apart, and only in runs without liveness.
`MaxWrites`, `MaxBackups`, `MaxAside` bound a history of `Restore`: enough for a
backup before and after a write, a restore of either, and a restore of what a cut
restore left. `MaxBackups` is one: a nightly backup replaces what there is, and by
hand and by the script one is only made where there is none yet, so the run has one
at a time and the theorems speak of any number; `MaxWrites` is below `RESTORE_GAP`,
as the code supposes of a million.

Fairness. A mutex is held for one short transaction, so whoever waits for it gets
it: strong fairness of the steps that take it, weak fairness of the steps that
hold it (`Mailbox!Fairness`). That devices keep pulling is what the property
supposes, not what the code does; it says "a device that keeps pulling". A
server that restarts for ever is excluded in the property itself. In `Events`,
tokio runs every task that is ready, the stream's half-minute timer fires, the
announcement a push ends with is made, the maintenance sweeps, tokens expire, and a
command that is run finishes; of a client it is supposed that it reads what it is
sent or hangs up, which is what `RevokedIsOut` needs (see below). In `Connections` and
`Answers`, a task that is woken runs and time passes; strong fairness of the empty
read says that no client keeps a socket full for ever. No answer is made to end.

## What the violations show

* `lost_page`. The pull handler stores the page's cursor as read when it makes
  the page. If the answer is lost, the device never got it, and once the
  tombstone in it is ninety days old it is purged. The device still has the
  record, the server has nothing, and the device's next edit brings it back.
  With answers that arrive (`tombstones`), the same properties hold.
* `foreign_cursor`. A cursor past the account's number is capped at that number,
  which is the newest there is, so every tombstone counts as read by a device
  that was given none.

Smaller disagreements of the same kind were met while modelling and have no run
of their own.

* An invitation let in before its device is revoked is stored afterwards, so that
  the enrolment token outlives the device it should die with (`api/devices.rs:40`,
  `db/invites.rs:81`).
* A wrong password against an enrolment token is counted in one statement and the
  token used up in another, and `peek_enrolment` looks at the second alone
  (`db/invites.rs:108`). When the process stops between them, or the second fails, a
  token whose last attempt was just used stays open and one password more is looked
  at, while `docs/security-review-2026-09.md:29` says five use it up; that one does.
  `GuessesBounded` says what holds: at most one guess more for each such crash or
  failure.
* A push on its way while its device is revoked leaves a manifest nothing drops
  (`api/records.rs:88`), and so does a crash between marking the device and
  dropping its manifests: revoking it again changes nothing and drops nothing
  (`db/devices.rs:140`). `NoGhosts` speaks of the devices that are in the account; a
  push that was let in before its device's revocation and is written after a purge
  is not one of theirs.
* Two changes of the master password at once both prove the first one
  (`api/accounts.rs:152`).
* `device revoke` may take the last device, although `db/devices.rs:145` says
  callers check (`main.rs:182`); it is therefore a step of `Events`, and not of
  `Access`, whose `AccountReachable` it would break.
* A stream asks every half minute whether its device is still in, says
  `api/records.rs:109`. While it waits for its client to take an event it asks
  nothing, so a client that neither reads nor hangs up keeps its stream past the
  revocation, until the connection goes. It is told nothing meanwhile that it
  takes; `RevokedIsOut` is checked for clients that read or go.
* The start makes an invite only when it counts none that is open, and it counts
  rows (`main.rs:243`). An `invite` command or an earlier start that stopped between
  storing an invite and showing its code leaves one that nobody can use, and an
  invite whose code names a key that was lost since is another. With either, a
  server without accounts comes up and says nothing, although `main.rs:241` has the
  first start say how it is joined, until the invite runs out or somebody runs
  `invite`. `WayIn` says what holds without such (`Stranded`).
* A registration whose account or device cannot be stored (`api/accounts.rs:71`, a
  full disk, say) has spent its invite all the same, and the server goes on. If it
  had no account, it has none and no open invite then, until the next start or
  until somebody runs `invite`. `InvitesAccountFor` and `WayIn` count these (`cut`,
  `wasted`).
* A start that stops between creating the key file and writing it leaves an empty
  file that every later start and `new-key` refuse until somebody removes it
  (`tls.rs:137`).
* A pairing session may be opened by a device whose sessions were just closed
  (`api/pairing.rs:37`). A pairing code may in principle be drawn again between
  being admitted and posting (`api/pairing.rs:77`); codes are fresh in the model.
* Of attempts that overlap, the limiter takes back the newest when one succeeds,
  whichever it was (`limits.rs:406`), so an older one leaves the window too early:
  one try more for each request that overlaps. `TriesHeld` says exactly that.
* A restore that has no number to go on from skips a million past the backup's
  (`db/mod.rs:224`); a second such restore of the same backup skips to the same
  place, and numbers handed out in between come again. `NumbersGrow` is therefore
  checked for one (`MaxGuesses`).
* `update.sh:638` does not look at whether the pinned version could be started. If
  its image cannot be had, the new container goes on, and should that come up after
  all, line 640 says that the version from before runs. The model assumes the image
  can be had. A script that is killed while it waits loses its way back: run again,
  it takes for "the one from before" what is running by then.

## What is proved

Every theorem holds for all values of the constants that the named assumptions
(`...Assumption`) allow; TLC evaluates these on every run. The bounds are constants
too, so a theorem is about histories of any length. Each component has one
inductive invariant, a conjunction of named parts, and its theorems follow from
that.

### Mailbox

`CountsCorrect` (`MailboxProofs`): `Spec => [](TypeOK /\ CountsExact)`, for any finite
sets of records and devices and any limits. The code never counts: it adds on a
push, replaces on an edit and subtracts on a purge. `CountsExact` alone is not
inductive, since a commit copies what the transaction has worked out. The
inductive invariant `CountsInv` adds that an open transaction's counts are those of
its own rows (`TxExact`), that blobs are within `MAX_BLOB_BYTES` and rows that do not
exist are empty (`RowsProper`), and that no number is above the account's (`Numbered`).
The bytes of rows are the cardinality of a set of cells, so that the lemmas
`WriteRow` and `RemoveRows` are about finite sets and need no induction over data. A
consequence is that the floor of zero in the code's subtraction never bites.

`QuotaCorrect`: `Spec => QuotaHeld`, from the same invariant: a commit that grows the
account was weighed with counts that are exact. `NoUpdateLost`: `Spec => NoLostUpdate`:
a transaction's row differs from the committed one only if the write it stems from
was based on that one. `ImplementsRecordStore`: `Spec => KeepsRecordStore`, step by
step: a commit is one write of the abstract store, numbered above everything
(`TxOnTop`), a purge and the dropping of manifests are what it may forget, and every
other step stutters.

`SyncCorrect`: `ForeignCursors = {} => (Spec => []NothingSkipped)`.
The premise is the one the run `foreign_cursor` shows to be needed for trust in a
cursor. `SyncInv` adds what devices know (`ViewOK`), what is on its way to them
(`AnswerOK`), and that a transaction only numbers above the account (`TxOnTop`). The
argument: rows move only upwards or away (`RowsMove`), so what was complete up to
a cursor stays complete; and a page holds everything between the cursor it
started from and the one it ends with (`PageComplete`). `HasMoreCorrect` needs no
premise: `has_more` is asked of the same rows as the page.

`NoGhostsEver` and `ForgottenOnceRead`: `NoGhosts` and `ForgottenOnlyOnceRead`, when no
cursor is foreign and no page is lost. Both premises are needed: the two runs that
expect a violation break the property without them. `GhostOK` says for each device
that the server notes no more than it was given, that it holds nothing alive that
is forgotten, and that an answer on its way to it brings nothing such back;
`RecordMoves` says what may become of a row while an answer is on its way.

### Access and Events

`AccessInv` (`AccessProofs`) has a part for each table. `HandedOK`: whoever asks for a
number gets one, and nothing is stored under a number that was not handed out.
`TablesOK`: `by_device` is `by_token` turned round, and no longer than a device's share;
the lemma behind it (`NewestIs`) is about the newest of a set of numbers.
`SignedOK`: a challenge is outstanding with one device, or one request was let in
with it, or one session is of it. `JoinOK` and `GuessOK` say the same of enrolment
tokens, between the statements of `enrol` as well: between counting a wrong password
and looking at the count, one request alone holds the database, and what it counted
is still in `unsettled` (`CountedOK`), so `failures` passes the limit only by what was
never looked at. From it follow `TablesCorrect`,
`OneSessionCorrect`, `OneDeviceCorrect` and `GuessesCorrect`. `ReachableCorrect`
(`AccountReachable`) is about `Access` alone, without the command line, which may
revoke the last device, and about accounts that have a device to begin with.

The lemmas about steps are about `[Next \/ Command]_vars`, because `Events` adds the
command line and its streams to `Access`. `EventsInv` (`EventsProofs`) is `AccessInv`, and
that streams and nobody else listen (`StreamsOK`), that the counts are the numbers of
streams (`CountsOK`), and `NewsOnItsWay` itself, which is inductive with them: a push is
unsaid, in a receiver or lagged behind one, or in the queue, until it is told.
`CountsCorrect`, `NobodyIsCutOffCorrect`, `NewsCorrect`; and `AccessCorrectWithEvents`, that
what is proved of sign-ins and joins holds with streams and the command line too.

### Founding

`FoundingInv` (`FoundingProofs`) says of each process what it may know at the step it
is at (`ProcOK`): one that is about to create or write a key found none and nobody
who pinned one, or is `new-key`. `KeysOK` relates the file to what was pinned,
and `JoiningOK` the three statements of a registration to each other. `WayKept` is that
a server which is nobody's has an open invite from its count on, while nothing is
spent for nothing; `ShownOK`, that a start which made one has shown it before it
listens, and that a code once shown stays. An open invite that is not stranded has
then a code with the key in the file, which is the server's (`KeysOK`), or a command
about to show one: `WayInCorrect`. `PinsCorrect` and `OneKeyCorrect` follow from `ProcOK`
and `KeysOK`.
`InvitesCorrect` needs a count: the invites that were redeemed without an account, and
the accounts without a device, are no more than the registrations that a crash or a
failed statement cut and the one that is going on (`InvitesOK`).
`AccountsCappedCorrect` is an action property from the same invariant.

### Restore and Update

`UpdateInv` (`UpdateProofs`): every file there is, under whatever name, holds a write
that was made and a number within `Reach`, which is the writes and a million for
each restore that had to skip (`FilesOK`); what the log belongs to (`LogOK`); where a
restore or the script stands and what it has in hand (`RestoreOK`, `ScriptOK`); and
`Fits` and `KeepsNewest`, inductive with these. A step is one of the files' or one of
the script's, with lemmas of its own for each (`FilesStep`). `KeepsNewestCorrect`,
`NoForeignLogCorrect`, `SchemaFitsCorrect` and `ComesBackCorrect` follow, for any number of
versions. `NumbersGrowCorrect` has the premise `MaxGuesses <= 1`, since the second
restore that skips from the same backup does repeat numbers (see above); its
invariant `NumbersOK` says that whichever file becomes the database goes on past all
numbers that were handed out.

### Pairing

`PairingInv` (`PairingProofs`): a party that was admitted to a session and is at it
still is its opener or the holder of its claim, for as long as the session is there
(`CallOK`, `IsSide`), so what it puts into a slot is the slot's side's (`SessionOK`); what a
party was told is a beginning of what was said in the session it was told it in
(`HeardOK`); whoever has looked and was not woken has heard everything; and everybody
about to open a session has a code left (`CodesLeft`). `StepMoves` says what any step may
do to a session and to a party, and each part is kept by that alone.
`OnlyTheirSideCorrect`, `InOrderCorrect`, `NoLostWakeupCorrect`, `CapsCorrect`, and
`NotLockedOutCorrect`, an action property. That codes are fresh is the model's
assumption and used here: a code that named a second session while somebody was
still at the first would break `CallOK`.

### Limits

`Inv` (`LimitsProofs`): what is remembered of a key is in order and within the bucket
(`KeyOK`), the table is within its room (`TableOK`), failed tries are told apart by
number (`FailedOK`), and a `Ledger` for each member and each moment in the window.
`Balanced` is its entry, about the tries after that moment. What is remembered of them
is never more than what did not turn out well. And what did not turn out well, if
anything, together with the requests of earlier moments still going on, is more than
what is remembered by fewer than there are workers, since only such a request takes
back a try that is not its own. `TriesHeld` and the counts of the window alone
are not inductive: a try that is taken back may be older or newer than the moment,
so it takes all moments at once and the requests that are still to be answered.

A count adds to both sides of a ledger or to neither (`CountedLedger`), an answer
moves a try from one part of a side to the other (`AnsweredKeeps`), taking back takes
from both, or from the requests of earlier moments (`ForgivenKeeps`), and time only
leaves fewer moments to speak of (`TickKeeps`). Beneath are lemmas about sequences in
order: what is newer than a moment is kept by dropping what left the window from the
front (`NewerRecent`, a bijection of positions) and is nothing for whoever a sweep
forgets (`NewerSwept`). `TableBoundedCorrect`, `TriesHeldCorrect` and
`RefusedForItsOwnCorrect` follow for any bucket, any room, whether a full bucket
coarsens or admits, and any number of addresses and of requests at once.

### Connections and Answers

`GateCorrect` (`ConnectionsProofs`): `Spec => [](TypeOK /\ GateExact)`, for any limits
and any finite set of addresses. The gate counts by address and in all, in two
places that are never compared. `IInv` has the counts by address; `TotalInv` has the
total as the cardinality of the set of connections numbered for each address,
which each step of the gate grows or shrinks by one pair (`GateMoves`, `OneMore`).

`AnswersFinish`: `Spec => NeverCutShort`: a connection the client
has not ended is ended only when nothing is being answered and nothing was for the
whole timeout, unless a ping was not answered or the first request was short. `IInv`
adds `FirstQuiet` for it: while the first bytes are missing and no short request was
read, none was, so their deadline and the idle time add up to the timeout. It is
kept because a request as long as the bytes waited for ends the wait; with the
comparison one byte off it fails, and so does the theorem.

`PlacesCorrect`: `AnswersSpec => []PlacesExact`, for any limits and
any number of requests. With types (`PlacesTyped`) the property is inductive: every
step moves a request between stages and its place with it, also when a connection
goes and some of its handlers do not (`DroppedKeeps`).

`AnswersImplement`: `AnswersSpec => Spec`. A step of `Answers` is a
step of `Connections` or leaves the connection alone (`StepIsStep`), so what is proved
of a connection that only counts its answers holds of one whose requests take
places.

### Only model-checked

Liveness, which the prover does not reach: `EverythingIsRead`, `RevokedIsOut`,
`IdleEnds`. Every other property of a passing run is a theorem. And that the two premises of
`NoGhostsEver` cannot be left out, which the two violations show.

## Not modelled, and what may come next

Models that are left: `Restore` together with `RecordStore`, that is, what a restore
means for the cursors of devices that had read further; and the order of version
strings in `updates.rs`, which compares parts of a pre-release as numbers when both
are and as text otherwise, so that it is an order only among tags of one convention
(9 < 10 < 1a < 9). Nothing but a line in the log depends on it.

Left out for good:

* `config.rs`: read once at the start; what is configured is a constant or, where
  it matters that it changes between starts (`Founding`), an input.
* `updates.rs`: one request a day whose answer is a line in the log.
* `error.rs`, `lib.rs`: wording, base64, hashes and random bytes.
* The certificate around the key, TLS itself, and permissions of files.
* `health.rs` apart from the comparison of keys, which is part of `OneKey`.
* `install.sh`, which writes files where there are none, and in `update.sh` the
  move from the server's former name and the question which files it may replace.
