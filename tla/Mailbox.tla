------------------------------ MODULE Mailbox ------------------------------
(***************************************************************************)
(* One account of the sync server as its devices use it: the numbered      *)
(* records of db/records.rs, the device rows of db/devices.rs, the push    *)
(* and pull handlers of api/records.rs and the nightly purge of main.rs.   *)
(*                                                                         *)
(* The database is one SQLite connection behind a mutex.  A push holds the *)
(* mutex for a whole transaction, so its loop over the batch is modelled   *)
(* envelope by envelope in the variable tx; every other operation needs    *)
(* tx to be closed.  A request is authenticated first and takes the mutex  *)
(* later, in a step of its own, so anything can happen in between.         *)
(*                                                                         *)
(* The devices themselves are not in this repository.  They are modelled   *)
(* as the handlers expect them: one request at a time, a push is based on  *)
(* the versions the device knows, a pull asks from its cursor.             *)
(***************************************************************************)
EXTENDS Integers, Sequences, FiniteSets, FiniteSetsExt

CONSTANTS
  Ids,              \* records the devices may write
  Manifests,        \* those of kind manifest; a record keeps its kind
  Devices,          \* devices the account may ever have
  Founders,         \* those enrolled to begin with
  ReadsManifests,   \* devices that ask for manifests when they pull
  Writers,          \* devices that push
  Nobody,           \* "no device holds the database"
  Sizes,            \* lengths of the blobs devices send
  Lengths,          \* records in the pushes devices send
  Limits,           \* page sizes devices ask for
  MAX_BATCH,        \* records in one request
  MAX_BATCH_BYTES,  \* sealed bytes in one request of several records
  MAX_BLOB_BYTES,   \* sealed bytes of one record
  Quotas,           \* quotas the server may be started with
  Elsewhere,        \* what the other accounts may come to hold, in bytes
  ForeignCursors,   \* cursors from another server a device may arrive with
  AnswersLost,      \* answers the network may lose: "pushed", "pulled"
  Disturbances,     \* what else happens: "season", "restart", "revoke"
  MaxSeq            \* bound: no push sets out once the account is here

ASSUME RecordsAssumption ==
  /\ IsFiniteSet(Ids) /\ Manifests \subseteq Ids
  /\ IsFiniteSet(Devices) /\ Founders \subseteq Devices /\ ReadsManifests \subseteq Devices
  /\ Writers \subseteq Devices
  /\ Nobody \notin Devices
  /\ AnswersLost \subseteq {"pushed", "pulled"} /\ MaxSeq \in Nat

ASSUME SizesAssumption ==
  /\ Sizes \subseteq Nat /\ Lengths \subseteq Nat /\ Limits \subseteq Nat
  /\ Elsewhere \subseteq Nat /\ 0 \in Elsewhere /\ ForeignCursors \subseteq Nat
  /\ MAX_BATCH \in Nat \ {0}
  /\ MAX_BATCH_BYTES \in Nat
  /\ MAX_BLOB_BYTES \in Nat
  /\ Quotas \subseteq [records : Nat, bytes : Nat, server_bytes : Nat]

VARIABLES
  account,    \* the account row: seq, record_count, record_bytes
  rows,       \* the records table: what is held of each record
  device,     \* the devices table: status and cursor
  tx,         \* the transaction of the push that holds the mutex, if any
  dropping,   \* devices revoked by command, their manifests not dropped yet
  quota,      \* the configuration the server runs with
  elsewhere,  \* record_bytes of all other accounts together
  req,        \* each device's request: on its way, authenticated, answered
  client      \* external: what each device knows, and its own cursor

vars == <<account, rows, device, tx, dropping, quota, elsewhere, req, client>>

----------------------------------------------------------------------------
(* Records and versions.  A row with number 0 is no row.                   *)

NoRow == [seq |-> 0, deleted |-> FALSE, len |-> 0, device |-> Nobody, old |-> FALSE]

Row == [seq : Nat, deleted : BOOLEAN, len : Nat, device : Devices \cup {Nobody},
        old : BOOLEAN]

Held(rs) == {id \in Ids : rs[id].seq # 0}

\* The sealed bytes of some records: one element for each byte of each blob.
Bytes(rs, S) ==
  Cardinality({p \in S \X (1..MAX_BLOB_BYTES) : p[2] <= rs[p[1]].len})

\* What a device is told of a record; Nothing when it is not told anything.
Version == [seq : Nat, deleted : BOOLEAN]
Nothing == [seq |-> 0, deleted |-> FALSE]
VersionOf(row) == [seq |-> row.seq, deleted |-> row.deleted]

\* The versions of the records in S, as an answer carries them.
Answer(rs, S) == [id \in Ids |-> IF id \in S THEN VersionOf(rs[id]) ELSE Nothing]

Envelope == [id : Ids, base_seq : Nat, deleted : BOOLEAN, len : Nat]

Request == [at : {"idle", "pushing", "pushed", "pulling", "pulled"},
            batch : Seq(Envelope), seq : Nat, versions : [Ids -> Version],
            cursor : Nat, has_more : BOOLEAN]

Silent == [id \in Ids |-> Nothing]

Idle == [at |-> "idle", batch |-> <<>>, seq |-> 0, versions |-> Silent,
         cursor |-> 0, has_more |-> FALSE]

NoTx == [by |-> Nobody, todo |-> <<>>, seq |-> 0, records |-> 0, bytes |-> 0,
         rows |-> [id \in Ids |-> NoRow]]

Unlocked == tx.by = Nobody

Live == {d \in Devices : device[d].status = "live"}

Init ==
  /\ account = [seq |-> 0, record_count |-> 0, record_bytes |-> 0]
  /\ rows = [id \in Ids |-> NoRow]
  /\ device = [d \in Devices |->
                 [status |-> IF d \in Founders THEN "live" ELSE "absent", cursor |-> 0]]
  /\ tx = NoTx
  /\ dropping = {}
  /\ quota \in Quotas
  /\ elsewhere = 0
  /\ req = [d \in Devices |-> Idle]
  /\ client = [d \in Devices |-> [since |-> 0, view |-> Silent]]

----------------------------------------------------------------------------
(* Push.                                                                   *)

\* What a device may offer: an edit or a delete of records, each based on
\* the version it knows.
Offers(d) ==
  {[id |-> id, base_seq |-> client[d].view[id].seq, deleted |-> deleted, len |-> len] :
     id \in Ids, deleted \in BOOLEAN, len \in Sizes}

\* The request is authenticated: the device is in, now.  The body is read
\* after that and the mutex taken later still.
PushArrives(d) ==
  /\ d \in Writers
  /\ device[d].status = "live"
  /\ req[d].at = "idle"
  /\ Unlocked
  /\ account.seq < MaxSeq
  /\ \E n \in Lengths : \E batch \in [1..n -> Offers(d)] :
       req' = [req EXCEPT ![d] = [Idle EXCEPT !.at = "pushing", !.batch = batch]]
  /\ UNCHANGED <<account, rows, device, tx, dropping, quota, elsewhere, client>>

\* check(): everything the server can tell about an envelope without a key.
\* A wrong vault or nonce is refused like an empty blob and is not told apart.
Proper(envelope) == envelope.len > 0 /\ envelope.len <= MAX_BLOB_BYTES

Sealed(batch) == SumFunction([i \in DOMAIN batch |-> batch[i].len])

Acceptable(batch) ==
  /\ Len(batch) <= MAX_BATCH
  /\ Len(batch) > 1 => Sealed(batch) <= MAX_BATCH_BYTES
  /\ \A i \in DOMAIN batch : Proper(batch[i])

\* Too large or malformed: refused before the transaction is opened.
PushTurnedAway(d) ==
  /\ req[d].at = "pushing"
  /\ Unlocked
  /\ ~Acceptable(req[d].batch)
  /\ req' = [req EXCEPT ![d] = Idle]
  /\ UNCHANGED <<account, rows, device, tx, dropping, quota, elsewhere, client>>

PushBegin(d) ==
  /\ req[d].at = "pushing"
  /\ Unlocked
  /\ Acceptable(req[d].batch)
  /\ tx' = [by |-> d, todo |-> req[d].batch, seq |-> account.seq,
            records |-> account.record_count, bytes |-> account.record_bytes,
            rows |-> rows]
  /\ UNCHANGED <<account, rows, device, dropping, quota, elsewhere, req, client>>

\* Mutant: an older version than the envelope's counts as a conflict, a newer
\* one does not.
ConflictsBackwards(rs, envelope) ==
  /\ rs[envelope.id].seq # 0
  /\ rs[envelope.id].seq < envelope.base_seq

\* A record the server holds in another version than the envelope is based on.
Conflicts(rs, envelope) ==
  /\ rs[envelope.id].seq # 0
  /\ rs[envelope.id].seq # envelope.base_seq

\* The next envelope of the batch: reported as a conflict, or taken and
\* numbered.
PushEnvelope ==
  /\ ~Unlocked
  /\ tx.todo # <<>>
  /\ LET envelope == Head(tx.todo)
         held == tx.rows[envelope.id]
     IN  tx' = IF Conflicts(tx.rows, envelope)
               THEN [tx EXCEPT !.todo = Tail(tx.todo)]
               ELSE [tx EXCEPT !.todo = Tail(tx.todo),
                               !.seq = tx.seq + 1,
                               !.records = IF held.seq = 0 THEN tx.records + 1
                                                           ELSE tx.records,
                               !.bytes = tx.bytes + envelope.len - held.len,
                               !.rows[envelope.id] =
                                  [seq |-> tx.seq + 1, deleted |-> envelope.deleted,
                                   len |-> envelope.len, device |-> tx.by, old |-> FALSE]]
  /\ UNCHANGED <<account, rows, device, dropping, quota, elsewhere, req, client>>

\* Mutant: the cap on all accounts together is not looked at.
OverOwnQuota ==
  \/ tx.records > account.record_count /\ tx.records > quota.records
  \/ tx.bytes > account.record_bytes /\ tx.bytes > quota.bytes

\* Whether the batch takes the account, or all accounts together, past what
\* they may hold.  A push that adds nothing is never over.
OverQuota ==
  \/ tx.records > account.record_count /\ tx.records > quota.records
  \/ tx.bytes > account.record_bytes /\ tx.bytes > quota.bytes
  \/ tx.bytes > account.record_bytes /\ elsewhere + tx.bytes > quota.server_bytes

\* Dropping the transaction takes back the whole batch.
PushRefused ==
  /\ ~Unlocked
  /\ tx.todo = <<>>
  /\ OverQuota
  /\ req' = [req EXCEPT ![tx.by] = Idle]
  /\ tx' = NoTx
  /\ UNCHANGED <<account, rows, device, dropping, quota, elsewhere, client>>

\* Mutant: the rows are written and the counts, the account's number is not.
PushCommitWithoutSeq ==
  /\ ~Unlocked
  /\ tx.todo = <<>>
  /\ ~OverQuota
  /\ account' = [account EXCEPT !.record_count = tx.records, !.record_bytes = tx.bytes]
  /\ rows' = tx.rows
  /\ req' = [req EXCEPT ![tx.by] = Idle]
  /\ tx' = NoTx
  /\ UNCHANGED <<device, dropping, quota, elsewhere, client>>

\* The commit.  The answer names the number of every record taken and holds
\* the version of every record in conflict: for each record of the batch, the
\* version the server now has.
PushCommit ==
  /\ ~Unlocked
  /\ tx.todo = <<>>
  /\ ~OverQuota
  /\ account' = [seq |-> tx.seq, record_count |-> tx.records, record_bytes |-> tx.bytes]
  /\ rows' = tx.rows
  /\ req' = LET batch == req[tx.by].batch
                ids == {batch[i].id : i \in DOMAIN batch}
            IN  [req EXCEPT ![tx.by] =
                   [Idle EXCEPT !.at = "pushed", !.versions = Answer(tx.rows, ids)]]
  /\ tx' = NoTx
  /\ UNCHANGED <<device, dropping, quota, elsewhere, client>>

----------------------------------------------------------------------------
(* Pull.                                                                   *)

\* Authentication reads the account row, whose seq caps the cursor later.
PullArrives(d) ==
  /\ device[d].status = "live"
  /\ req[d].at = "idle"
  /\ Unlocked
  /\ req' = [req EXCEPT ![d] = [Idle EXCEPT !.at = "pulling", !.seq = account.seq]]
  /\ UNCHANGED <<account, rows, device, tx, dropping, quota, elsewhere, client>>

After(since) == {id \in Held(rows) : rows[id].seq > since}

Readable(d, S) == IF d \in ReadsManifests THEN S ELSE S \ Manifests

\* Mutant: a page of no records when none are asked for.
ClampAbove(limit) == IF limit > MAX_BATCH THEN MAX_BATCH ELSE limit

Clamp(limit) == IF limit < 1 THEN 1 ELSE IF limit > MAX_BATCH THEN MAX_BATCH ELSE limit

\* The records of a page: in the order of their numbers, as many as the limit
\* and the bytes of one answer allow, and one whatever its size.
Page(S, limit) ==
  {id \in S : LET sofar == {other \in S : rows[other].seq <= rows[id].seq}
              IN  /\ Cardinality(sofar) <= limit
                  /\ sofar = {id} \/ Bytes(rows, sofar) <= MAX_BATCH_BYTES}

\* Mutant: the newest number there is, page or not.
PageCursorNewest(since, S, rest) == Max({since} \cup {rows[id].seq : id \in S})

\* Mutant: past the first record that had no room.
PageCursorOneTooFar(since, S, rest) ==
  Max({since} \cup {rows[id].seq : id \in
        {id \in S : \A other \in rest : rows[id].seq <= rows[other].seq}})

\* The cursor of a page: past every record it holds, and past the manifests
\* it leaves out, up to the first record that had no room.
PageCursor(since, S, rest) ==
  Max({since} \cup {rows[id].seq : id \in
        {id \in S : \A other \in rest : rows[id].seq < rows[other].seq}})

\* devices::seen: a device's stored cursor never goes back.
Seen(cursor, seq) == IF seq > cursor THEN seq ELSE cursor

\* What there is for a device to read, the part that goes into one page, the
\* part that does not, and the cursor the page ends with.
Unread(d) == Readable(d, After(client[d].since))
PageFor(d, limit) == Page(Unread(d), Clamp(limit))
LeftFor(d, limit) == Unread(d) \ PageFor(d, limit)
CursorFor(d, limit) ==
  PageCursor(client[d].since, After(client[d].since), LeftFor(d, limit))

\* The page and the note of how far the device has read, under one lock.  The
\* note is capped by the account's number as authentication found it.
PullAnswered(d) ==
  /\ req[d].at = "pulling"
  /\ Unlocked
  /\ \E limit \in Limits :
       LET cursor == CursorFor(d, limit)
       IN  /\ req' = [req EXCEPT ![d] =
                        [Idle EXCEPT !.at = "pulled",
                                     !.versions = Answer(rows, PageFor(d, limit)),
                                     !.cursor = cursor,
                                     !.has_more = LeftFor(d, limit) # {}]]
           /\ device' = [device EXCEPT ![d].cursor =
                           Seen(@, IF cursor < req[d].seq THEN cursor ELSE req[d].seq)]
  /\ UNCHANGED <<account, rows, tx, dropping, quota, elsewhere, client>>

----------------------------------------------------------------------------
(* Answers on their way to the device.                                     *)

\* What a device knows once it has taken in an answer: the newer version of
\* each record.
Learn(view, versions) ==
  [id \in Ids |-> IF versions[id].seq > view[id].seq THEN versions[id] ELSE view[id]]

\* The device takes in what came back.  Only a page moves its cursor: the
\* answer to a push says nothing of what others wrote in between.
Delivered(d) ==
  /\ req[d].at \in {"pushed", "pulled"}
  /\ client' = [client EXCEPT
                  ![d] = [since |-> IF req[d].at = "pulled" THEN req[d].cursor ELSE @.since,
                          view |-> Learn(@.view, req[d].versions)]]
  /\ req' = [req EXCEPT ![d] = Idle]
  /\ UNCHANGED <<account, rows, device, tx, dropping, quota, elsewhere>>

\* An answer that never arrives: the connection went, and the device will ask
\* again from where it was.
Lost(d) ==
  /\ req[d].at \in AnswersLost
  /\ req' = [req EXCEPT ![d] = Idle]
  /\ UNCHANGED <<account, rows, device, tx, dropping, quota, elsewhere, client>>

----------------------------------------------------------------------------
(* Devices come and go.                                                    *)

Enrolled(d) ==
  /\ device[d].status = "absent"
  /\ Unlocked
  /\ device' = [device EXCEPT ![d] = [status |-> "live", cursor |-> 0]]
  /\ \E since \in {0} \cup ForeignCursors :
       client' = [client EXCEPT ![d].since = since]
  /\ UNCHANGED <<account, rows, tx, dropping, quota, elsewhere, req>>

\* Mutant: the bytes of the rows that go are not given back.
ForgetKeepingBytes(gone) ==
  /\ rows' = [id \in Ids |-> IF id \in gone THEN NoRow ELSE rows[id]]
  /\ account' = [account EXCEPT !.record_count = Max({@ - Cardinality(gone), 0})]

\* The rows that go, and the account's counts less what they held.
Forget(gone) ==
  /\ rows' = [id \in Ids |-> IF id \in gone THEN NoRow ELSE rows[id]]
  /\ account' = [account EXCEPT
                   !.record_count = Max({@ - Cardinality(gone), 0}),
                   !.record_bytes = Max({@ - Bytes(rows, gone), 0})]

ManifestsOf(d) == {id \in Held(rows) : id \in Manifests /\ rows[id].device = d}

\* A device revokes another, or itself: not the last one, and its manifests go
\* before the mutex is let go.
Revoke(d) ==
  /\ "revoke" \in Disturbances
  /\ device[d].status = "live"
  /\ Unlocked
  /\ Cardinality(Live) > 1
  /\ device' = [device EXCEPT ![d].status = "revoked"]
  /\ Forget(ManifestsOf(d))
  /\ UNCHANGED <<tx, dropping, quota, elsewhere, req, client>>

\* The command line revokes from another process: it checks nothing first, and
\* the server runs on between the statement that marks the device and the
\* transaction that drops its manifests.
RevokeByCommand(d) ==
  /\ "revoke" \in Disturbances
  /\ device[d].status = "live"
  /\ Unlocked
  /\ device' = [device EXCEPT ![d].status = "revoked"]
  /\ dropping' = dropping \cup {d}
  /\ UNCHANGED <<account, rows, tx, quota, elsewhere, req, client>>

DropManifests(d) ==
  /\ d \in dropping
  /\ Unlocked
  /\ Forget(ManifestsOf(d))
  /\ dropping' = dropping \ {d}
  /\ UNCHANGED <<device, tx, quota, elsewhere, req, client>>

----------------------------------------------------------------------------
(* The nightly purge, and time.                                            *)

\* Ninety days go by.  No request is that slow (connections.rs).
Season ==
  /\ "season" \in Disturbances
  /\ \A d \in Devices : req[d].at = "idle"
  /\ rows' = [id \in Ids |-> IF id \in Held(rows) THEN [rows[id] EXCEPT !.old = TRUE]
                                                  ELSE rows[id]]
  /\ UNCHANGED <<account, device, tx, dropping, quota, elsewhere, req, client>>

\* Mutant: the highest cursor instead of the lowest.
ReadBySome(seq) == \E d \in Live : seq <= device[d].cursor

\* How far every device that still reads has read; nowhere when there is none.
ReadByAll(seq) == Live # {} /\ \A d \in Live : seq <= device[d].cursor

\* Mutant: age alone decides.
PurgeableByAge == {id \in Held(rows) : rows[id].deleted /\ rows[id].old}

Purgeable ==
  {id \in Held(rows) : rows[id].deleted /\ rows[id].old /\ ReadByAll(rows[id].seq)}

Purge ==
  /\ Unlocked
  /\ Purgeable # {}
  /\ Forget(Purgeable)
  /\ UNCHANGED <<device, tx, dropping, quota, elsewhere, req, client>>

----------------------------------------------------------------------------
(* The rest of the server.                                                 *)

\* Another account pushes or purges, under the same mutex and the same cap.
OtherAccounts ==
  /\ Unlocked
  /\ \E bytes \in Elsewhere :
       /\ bytes > elsewhere => bytes + account.record_bytes <= quota.server_bytes
       /\ elsewhere' = bytes
  /\ UNCHANGED <<account, rows, device, tx, dropping, quota, req, client>>

\* The server stops and starts again, perhaps with another quota.  An open
\* transaction is rolled back, requests are gone, and so are answers, of the
\* kinds that may be lost.
Restart ==
  /\ "restart" \in Disturbances
  /\ \A d \in Devices : req[d].at \in {"idle", "pushing", "pulling"} \cup AnswersLost
  /\ tx' = NoTx
  /\ req' = [d \in Devices |-> Idle]
  /\ quota' \in Quotas
  /\ UNCHANGED <<account, rows, device, dropping, elsewhere, client>>

----------------------------------------------------------------------------

Next ==
  \/ \E d \in Devices :
       \/ PushArrives(d) \/ PushTurnedAway(d) \/ PushBegin(d)
       \/ PullArrives(d) \/ PullAnswered(d)
       \/ Delivered(d) \/ Lost(d)
       \/ Enrolled(d) \/ Revoke(d) \/ RevokeByCommand(d) \/ DropManifests(d)
  \/ PushEnvelope \/ PushRefused \/ PushCommit
  \/ Season \/ Purge \/ OtherAccounts \/ Restart

Spec == Init /\ [][Next]_vars

----------------------------------------------------------------------------
(* What must hold.                                                         *)

\* Every variable has its type; above all, the counts an account is charged by
\* never go below zero (purge_tombstones and drop_manifests_of subtract).
TypeOK ==
  /\ account \in [seq : Nat, record_count : Nat, record_bytes : Nat]
  /\ rows \in [Ids -> Row]
  /\ device \in [Devices -> [status : {"absent", "live", "revoked"}, cursor : Nat]]
  /\ tx \in [by : Devices \cup {Nobody}, todo : Seq(Envelope), seq : Nat,
             records : Nat, bytes : Int, rows : [Ids -> Row]]
  /\ dropping \subseteq Devices
  /\ quota \in [records : Nat, bytes : Nat, server_bytes : Nat]
  /\ elsewhere \in Nat
  /\ req \in [Devices -> Request]
  /\ client \in [Devices -> [since : Nat, view : [Ids -> Version]]]

\* The counts an account is charged by are those of the rows it has, whatever
\* pushes, refusals, purges, revocations and restarts came before
\* (db/records.rs keeps them by adding and subtracting, never by counting).
CountsExact ==
  /\ account.record_count = Cardinality(Held(rows))
  /\ account.record_bytes = Bytes(rows, Held(rows))

\* The rows as a store of versions, with the account's number as its counter.
Store == INSTANCE RecordStore WITH
           store <- [id \in Ids |-> VersionOf(rows[id])],
           top <- account.seq

\* The server keeps the promise of RecordStore: pushes are atomic and number
\* upwards, and only tombstones and manifests ever go.
KeepsRecordStore == Store!Spec

\* What a device knows once a page on its way to it arrives, and the cursor
\* it will have then.
Known(d) == IF req[d].at = "pulled" THEN Learn(client[d].view, req[d].versions)
                                    ELSE client[d].view
Reached(d) == IF req[d].at = "pulled" THEN req[d].cursor ELSE client[d].since

\* A device has every record up to its cursor in the version the server holds:
\* paging under concurrent writes skips nothing (records::pull).
NothingSkipped ==
  \A d \in Live : \A id \in Readable(d, Held(rows)) :
    rows[id].seq <= client[d].since => client[d].view[id] = VersionOf(rows[id])

\* Once the server has forgotten a record, no device still has it alive.  One
\* that had would write it back, and a push of a record the server does not
\* have is never a conflict (purge_tombstones, lowest_cursor).
NoGhosts ==
  \A d \in Live : \A id \in Ids \ Manifests :
    rows[id].seq = 0 => Known(d)[id].seq = 0 \/ Known(d)[id].deleted

\* A record is only forgotten as a tombstone that every device in the account
\* has been given (main.rs purge, devices::seen in the pull handler).
ForgottenOnlyOnceRead ==
  [][\A id \in Ids \ Manifests : rows[id].seq # 0 /\ rows'[id].seq = 0 =>
       \A d \in Live : Known(d)[id] = VersionOf(rows[id])]_vars

\* Whoever replaces a version had seen it: no device overwrites what another
\* wrote meanwhile (push_within's comparison with base_seq, in one transaction).
NoLostUpdate ==
  [][\A id \in Ids : rows[id].seq # 0 /\ rows'[id].seq > rows[id].seq =>
       \E d \in Devices : \E i \in DOMAIN req[d].batch :
         /\ req[d].batch[i].id = id
         /\ req[d].batch[i].base_seq = rows[id].seq]_vars

\* What is really held grows only within the quota of the account and within
\* the cap on all accounts together (push_within's refusals).
QuotaHeld ==
  [][/\ Cardinality(Held(rows')) > Cardinality(Held(rows))
          => Cardinality(Held(rows')) <= quota.records
     /\ Bytes(rows', Held(rows')) > Bytes(rows, Held(rows))
          => /\ Bytes(rows', Held(rows')) <= quota.bytes
             /\ Bytes(rows', Held(rows')) + elsewhere <= quota.server_bytes]_vars

\* A page says there is more exactly when the device, having taken it in, has
\* records left to read (has_more of records::pull).
HasMoreIsHonest ==
  [][\A d \in Devices : req[d].at = "pulling" /\ req'[d].at = "pulled" =>
       (req'[d].has_more <=> Readable(d, After(req'[d].cursor)) # {})]_vars

\* The mutex is held for one short transaction at a time, so whoever waits for
\* it gets it; devices come back to pull, and the network delivers in the end.
Fairness ==
  /\ \A d \in Devices : /\ SF_vars(PullArrives(d)) /\ SF_vars(PullAnswered(d))
                        /\ SF_vars(PushTurnedAway(d)) /\ SF_vars(PushBegin(d))
                        /\ WF_vars(Delivered(d))
  /\ WF_vars(PushEnvelope) /\ WF_vars(PushRefused) /\ WF_vars(PushCommit)

FairSpec == Spec /\ Fairness

\* A device that keeps pulling reads everything there is for it to read, again
\* and again, however small its pages are, unless the server restarts for ever.
EverythingIsRead ==
  <>[][~Restart]_vars =>
    \A d \in Devices :
      []<>(d \in Live => Unread(d) = {})

=============================================================================
