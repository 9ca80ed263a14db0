------------------------------ MODULE Founding ------------------------------
(***************************************************************************)
(* How a server comes to have accounts: its start and the commands beside  *)
(* it (main.rs), the key every device pins (tls.rs), invites               *)
(* (db/invites.rs) and the registration that spends one (api/accounts.rs). *)
(*                                                                         *)
(* The server and each command are processes on one data directory.  What  *)
(* a process does with the key file is one file operation a step, with the *)
(* database one statement, and a crash comes between any two; a statement  *)
(* of a registration may also fail.  A key is a number, and its            *)
(* fingerprint the same: none comes twice.  TLS is on.                     *)
(*                                                                         *)
(* External: people paste the setup codes they are shown, and their device *)
(* goes no further than the handshake when the code names another key.     *)
(* The key file is lost, or put back from a copy, while nothing runs.      *)
(***************************************************************************)
EXTENDS Integers, FiniteSets

CONSTANTS
  Server, Operators,   \* the server's process, and those commands run in
  Commands,            \* commands that are run: "invite", "fingerprint", "new-key"
  Configurations,      \* registration and max_accounts the server may be started with
  MaxKeys,             \* bounds: keys,
  MaxInvites,          \* invites
  MaxAccounts          \* and accounts there may ever be

ASSUME FoundingAssumption ==
  /\ IsFiniteSet(Operators) /\ Server \notin Operators
  /\ Commands \subseteq {"invite", "fingerprint", "new-key"}
  /\ Configurations # {}
  /\ Configurations \subseteq [registration : {"invite", "open", "closed"}, max_accounts : Nat]
  /\ MaxKeys \in Nat /\ MaxInvites \in Nat /\ MaxAccounts \in Nat

VARIABLES
  key,        \* the key file: whether it is there, and the key in it, if whole
  invites,    \* the invites table, and the key in the code somebody was shown
  accounts,   \* the accounts table: what it was made with, and the key pinned
  proc,       \* the processes
  config,     \* the configuration the server runs with
  joining,    \* the registration that holds the database, if any
  minted,     \* keys and invites made so far
  lost,       \* history: keys whose file was lost,
  wasted,     \* whether an invite ran out, or was spent for nothing, since the
              \* server looked,
  cut         \* and registrations cut after their first statement, by a crash
              \* or by one that failed

vars == <<key, invites, accounts, proc, config, joining, minted, lost, wasted, cut>>

history == <<lost, wasted, cut>>

----------------------------------------------------------------------------

Processes == {Server} \cup Operators
Invites == 1..MaxInvites
Accounts == 1..MaxAccounts

NoKey == [there |-> FALSE, id |-> 0]

\* public_key_of: a file a crash left empty holds no key.
Whole == key.there /\ key.id # 0

NoInvite == [at |-> "none", code |-> 0]
NoAccount == [at |-> "none", via |-> 0, pin |-> 0, renewed |-> FALSE]
Off == [kind |-> "none", at |-> "off", may |-> FALSE, key |-> 0, invite |-> 0]
NotJoining == [at |-> "idle", invite |-> 0, account |-> 0]

Made == {a \in Accounts : accounts[a].at # "none"}
Ends(p) == proc' = [proc EXCEPT ![p] = Off]
Goes(p, at) == proc' = [proc EXCEPT ![p].at = at]

Init ==
  /\ key = NoKey
  /\ invites = [i \in Invites |-> NoInvite]
  /\ accounts = [a \in Accounts |-> NoAccount]
  /\ proc = [p \in Processes |-> Off]
  /\ config \in Configurations
  /\ joining = NotJoining
  /\ minted = [keys |-> 0, invites |-> 0]
  /\ lost = {} /\ wasted = FALSE /\ cut = 0

----------------------------------------------------------------------------
(* Processes.                                                              *)

FirstStep == [serve |-> "asks", invite |-> "invites", fingerprint |-> "asks"]

ServerStarts ==
  /\ proc[Server].at = "off"
  /\ config' \in Configurations
  /\ proc' = [proc EXCEPT ![Server] = [Off EXCEPT !.kind = "serve", !.at = FirstStep.serve]]
  /\ UNCHANGED <<key, invites, accounts, joining, minted, history>>

CommandStarts(p, command) ==
  /\ command \in Commands \ {"new-key"} /\ proc[p].at = "off"
  /\ proc' = [proc EXCEPT ![p] = [Off EXCEPT !.kind = command, !.at = FirstStep[command]]]
  /\ UNCHANGED <<key, invites, accounts, config, joining, minted, history>>

\* new-key is refused while there is a key, or what should be one.
NewKeyStarts(p) ==
  /\ "new-key" \in Commands /\ proc[p].at = "off"
  /\ ~key.there
  /\ proc' = [proc EXCEPT ![p] = [Off EXCEPT !.kind = "new-key", !.at = "loads", !.may = TRUE]]
  /\ UNCHANGED <<key, invites, accounts, config, joining, minted, history>>

\* create_invite: the invite command's first step, the server's last but two.
MakesInvite(p) ==
  LET new == minted.invites + 1
  IN  /\ proc[p].at = "invites" /\ new \in Invites
      /\ invites' = [invites EXCEPT ![new].at = "open"]
      /\ minted' = [minted EXCEPT !.invites = new]
      /\ proc' = [proc EXCEPT ![p].invite = new,
                              ![p].at = IF p = Server THEN "says" ELSE "asks"]
      /\ UNCHANGED <<key, accounts, config, joining, history>>

\* Mutant: a key is made wherever there is none.
MayCreateAlways == TRUE

\* has_accounts: a server somebody has pinned makes no new key.
MayCreate == Made = {}

Asks(p) ==
  /\ proc[p].at = "asks"
  /\ proc' = [proc EXCEPT ![p].may = MayCreate, ![p].at = "loads"]
  /\ UNCHANGED <<key, invites, accounts, config, joining, minted, history>>

\* tls::load: the key that is there.
LoadsKey(p) ==
  /\ proc[p].at = "loads" /\ Whole
  /\ proc' = [proc EXCEPT ![p].key = key.id, ![p].at = "keyed"]
  /\ UNCHANGED <<key, invites, accounts, config, joining, minted, history>>

\* A file without a whole key in it, or none where none may be made.
LoadFails(p) ==
  /\ proc[p].at = "loads" /\ ~Whole
  /\ key.there \/ ~proc[p].may
  /\ Ends(p)
  /\ UNCHANGED <<key, invites, accounts, config, joining, minted, history>>

GeneratesKey(p) ==
  /\ proc[p].at = "loads" /\ ~key.there /\ proc[p].may
  /\ Goes(p, "creates")
  /\ UNCHANGED <<key, invites, accounts, config, joining, minted, history>>

\* Mutant: the file is opened whether or not there is one.
CreateAnyway == TRUE

\* create_new: of two processes that found no key only one makes it.
CreateNew == ~key.there

CreatesFile(p) ==
  /\ proc[p].at = "creates"
  /\ IF CreateNew
     THEN key' = [there |-> TRUE, id |-> 0] /\ Goes(p, "writes")
     ELSE Ends(p) /\ UNCHANGED key
  /\ UNCHANGED <<invites, accounts, config, joining, minted, history>>

\* Whoever runs new-key knows that every device has to be set up again.
WritesKey(p) ==
  LET new == minted.keys + 1
  IN  /\ proc[p].at = "writes" /\ new <= MaxKeys
      /\ key' = [there |-> TRUE, id |-> new]
      /\ minted' = [minted EXCEPT !.keys = new]
      /\ proc' = [proc EXCEPT ![p].key = new, ![p].at = "keyed"]
      /\ accounts' = [a \in Accounts |->
           [accounts[a] EXCEPT !.renewed = @ \/ (proc[p].kind = "new-key" /\ a \in Made)]]
      /\ UNCHANGED <<invites, config, joining, history>>

\* Mutant: any invite there is will do.
NoInviteAtAll == minted.invites = 0

\* count_open_invites.
NoOpenInvite == \A i \in Invites : invites[i].at # "open"

\* "A server nobody can join is not much use, so the first start says how."
ServerCounts ==
  /\ proc[Server].at = "keyed"
  /\ Goes(Server, IF Made = {} /\ NoOpenInvite THEN "invites" ELSE "listens")
  /\ wasted' = FALSE
  /\ UNCHANGED <<key, invites, accounts, config, joining, minted, lost, cut>>

\* The setup code, to the log or to the terminal.
Says(p) ==
  /\ proc[p].at = "says" \/ (proc[p].at = "keyed" /\ proc[p].kind = "invite")
  /\ invites' = [invites EXCEPT ![proc[p].invite].code = proc[p].key]
  /\ IF p = Server THEN Goes(p, "listens") ELSE Ends(p)
  /\ UNCHANGED <<key, accounts, config, joining, minted, history>>

\* The fingerprint is printed.
CommandEnds(p) ==
  /\ proc[p].at = "keyed" /\ proc[p].kind \in {"fingerprint", "new-key"}
  /\ Ends(p)
  /\ UNCHANGED <<key, invites, accounts, config, joining, minted, history>>

Listens ==
  /\ proc[Server].at = "listens"
  /\ Goes(Server, "up")
  /\ UNCHANGED <<key, invites, accounts, config, joining, minted, history>>

\* A registration goes no further; what its statements did stays.
CutShort ==
  /\ joining' = NotJoining
  /\ cut' = IF joining.invite # 0 \/ joining.account # 0 THEN cut + 1 ELSE cut

\* A process stops, or is stopped, anywhere.
Stops(p) ==
  /\ proc[p].at # "off"
  /\ Ends(p)
  /\ IF p = Server THEN CutShort ELSE UNCHANGED <<joining, cut>>
  /\ UNCHANGED <<key, invites, accounts, config, minted, lost, wasted>>

----------------------------------------------------------------------------
(* Registration: one lock on the database, three statements.               *)

Up == proc[Server].at = "up"

\* Mutant: one more than there may be.
FullLate == Cardinality(Made) > config.max_accounts

Full == Cardinality(Made) >= config.max_accounts

\* redeem_invite.
Redeem(i) == invites' = [invites EXCEPT ![i].at = "used"]

\* Mutant: the invite first, and then whether there is room.
RedeemsEagerly(i) ==
  /\ Up /\ joining.at = "idle"
  /\ config.registration = "invite"
  /\ invites[i].at = "open" /\ invites[i].code = proc[Server].key
  /\ Redeem(i)
  /\ joining' = IF Full THEN NotJoining
                        ELSE [NotJoining EXCEPT !.at = "redeemed", !.invite = i]
  /\ UNCHANGED <<key, accounts, proc, config, minted, history>>

\* "Before the invite is spent, so a full server does not eat one."
Redeems(i) ==
  /\ Up /\ joining.at = "idle"
  /\ ~Full
  /\ config.registration = "invite"
  /\ invites[i].at = "open" /\ invites[i].code = proc[Server].key
  /\ Redeem(i)
  /\ joining' = [NotJoining EXCEPT !.at = "redeemed", !.invite = i]
  /\ UNCHANGED <<key, accounts, proc, config, minted, history>>

\* Where registration is open nothing is redeemed.
Registers ==
  /\ Up /\ joining.at = "idle"
  /\ ~Full
  /\ config.registration = "open"
  /\ joining' = [NotJoining EXCEPT !.at = "redeemed"]
  /\ UNCHANGED <<key, invites, accounts, proc, config, minted, history>>

\* The device that asks has pinned the key of this connection.
AccountCreated ==
  LET new == Cardinality(Made) + 1
  IN  /\ joining.at = "redeemed" /\ new \in Accounts
      /\ accounts' = [accounts EXCEPT ![new] =
           [at |-> "created", via |-> joining.invite, pin |-> proc[Server].key,
            renewed |-> FALSE]]
      /\ joining' = [joining EXCEPT !.at = "created", !.account = new]
      /\ UNCHANGED <<key, invites, proc, config, minted, history>>

DeviceAdded ==
  /\ joining.at = "created"
  /\ accounts' = [accounts EXCEPT ![joining.account].at = "founded"]
  /\ joining' = NotJoining
  /\ UNCHANGED <<key, invites, proc, config, minted, history>>

\* accounts::create or devices::add fails (the disk is full, the database busy),
\* and the server goes on.
RegistrationFails ==
  /\ joining.at \in {"redeemed", "created"}
  /\ CutShort
  /\ wasted' = (wasted \/ joining.invite # 0)
  /\ UNCHANGED <<key, invites, accounts, proc, config, minted, lost>>

----------------------------------------------------------------------------
(* Time, and the disk.                                                     *)

\* A week goes by.
InviteLapses(i) ==
  /\ invites[i].at = "open"
  /\ invites' = [invites EXCEPT ![i].at = "lapsed"]
  /\ wasted' = TRUE
  /\ UNCHANGED <<key, accounts, proc, config, joining, minted, lost, cut>>

\* And a month: the nightly purge.
InvitePurged(i) ==
  /\ Up /\ joining.at = "idle"
  /\ invites[i].at \in {"used", "lapsed"}
  /\ invites' = [invites EXCEPT ![i].at = "gone"]
  /\ UNCHANGED <<key, accounts, proc, config, joining, minted, history>>

Quiet == \A p \in Processes : proc[p].at = "off"

KeyLost ==
  /\ Quiet /\ key.there /\ minted.keys < MaxKeys
  /\ key' = NoKey
  /\ lost' = lost \cup ({key.id} \ {0})
  /\ UNCHANGED <<invites, accounts, proc, config, joining, minted, wasted, cut>>

\* "put it back from a copy of the data volume".
KeyPutBack ==
  /\ Quiet /\ ~key.there /\ minted.keys \in lost
  /\ key' = [there |-> TRUE, id |-> minted.keys]
  /\ UNCHANGED <<invites, accounts, proc, config, joining, minted, history>>

----------------------------------------------------------------------------

Load(p) ==
  \/ Asks(p) \/ LoadsKey(p) \/ LoadFails(p) \/ GeneratesKey(p) \/ CreatesFile(p) \/ WritesKey(p)

Next ==
  \/ \E p \in Processes : Load(p) \/ MakesInvite(p) \/ Says(p) \/ Stops(p)
  \/ \E p \in Operators :
       \/ \E command \in Commands : CommandStarts(p, command)
       \/ NewKeyStarts(p) \/ CommandEnds(p)
  \/ ServerStarts \/ ServerCounts \/ Listens
  \/ \E i \in Invites : Redeems(i) \/ InviteLapses(i) \/ InvitePurged(i)
  \/ Registers \/ AccountCreated \/ DeviceAdded \/ RegistrationFails
  \/ KeyLost \/ KeyPutBack

Spec == Init /\ [][Next]_vars

----------------------------------------------------------------------------
(* What must hold.                                                         *)

\* Every variable has its type, and whoever has come past tls::load holds a key
\* that was made.
TypeOK ==
  /\ key \in [there : BOOLEAN, id : 0..MaxKeys] /\ (key.id # 0 => key.there)
  /\ invites \in [Invites -> [at : {"none", "open", "used", "lapsed", "gone"},
                              code : 0..MaxKeys]]
  /\ accounts \in [Accounts -> [at : {"none", "created", "founded"}, via : 0..MaxInvites,
                                pin : 0..MaxKeys, renewed : BOOLEAN]]
  /\ proc \in [Processes ->
       [kind : {"none", "serve"} \cup Commands,
        at : {"off", "invites", "asks", "loads", "creates", "writes", "keyed", "says",
              "listens", "up"},
        may : BOOLEAN, key : 0..minted.keys, invite : 0..MaxInvites]]
  /\ \A p \in Processes : proc[p].at \in {"keyed", "says", "listens", "up"} => proc[p].key # 0
  /\ config \in Configurations
  /\ joining \in [at : {"idle", "redeemed", "created"}, invite : 0..MaxInvites,
                  account : 0..MaxAccounts]
  /\ minted \in [keys : 0..MaxKeys, invites : 0..MaxInvites]
  /\ lost \subseteq 1..MaxKeys /\ wasted \in BOOLEAN /\ cut \in Nat

\* "A server with accounts whose key is gone must not quietly make a new one":
\* whatever is started, killed and lost in between, a server that answers does
\* so with the key each account pinned, unless new-key was run since (tls::load,
\* has_accounts).
PinsHold == Up => \A a \in Made : accounts[a].pin = proc[Server].key \/ accounts[a].renewed

\* health::check: the other end holds the key that is in the file.
Healthy == Whole /\ proc[Server].key = key.id

\* Processes that race to make the key agree on it: the server that answers is
\* healthy, whoever came past tls::load has a key, and the key of every setup
\* code that was shown is the one in the file, unless that was lost since
\* (write_private's create_new).
OneKey ==
  /\ TypeOK
  /\ Up => Healthy
  /\ \A i \in Invites : invites[i].code \in {0, key.id} \cup lost

Wasted == {i \in Invites : /\ invites[i].at = "used"
                           /\ \A a \in Made : accounts[a].via # i}
Deviceless == {a \in Made : accounts[a].at = "created"}

\* An invite makes one account, across crashes between redeeming it, creating
\* the account and adding its device; and only such a crash, or one of the last
\* two statements failing, costs an invite its account or an account its device:
\* a full server eats none (redeem_invite comes first in create of
\* api/accounts.rs).
InvitesAccountFor ==
  /\ \A a, b \in Made : a # b /\ accounts[a].via # 0 => accounts[a].via # accounts[b].via
  /\ Cardinality(Wasted) + Cardinality(Deviceless)
       <= cut + (IF joining.at = "idle" THEN 0 ELSE 1)

\* A server takes another account only while it has fewer than it may have,
\* also after it was started with a smaller maximum.
AccountsCapped == [][Made' # Made => Cardinality(Made') <= config.max_accounts]_vars

\* Invites that let nobody in and that the server counts all the same: it was
\* never shown to anybody and nobody is about to, or the code names a key that
\* was lost, and no device gets past the handshake with it.
Stranded(i) ==
  /\ invites[i].at = "open"
  /\ IF invites[i].code = 0 THEN \A p \in Processes : proc[p].invite # i
                            ELSE invites[i].code # key.id

\* One that Redeems takes where an invite is asked for and there is room, or will
\* take once the command that made it has shown it.
Good(i) ==
  /\ invites[i].at = "open"
  /\ \/ invites[i].code = proc[Server].key
     \/ invites[i].code = 0 /\ \E p \in Operators : proc[p].invite = i

\* A server that was started and has no account has an invite that is good, with
\* the key it answers with, unless one ran out or was spent on a registration
\* that failed since it looked, or it counted one that is stranded: what a crash
\* in a registration cost is made up for by the next start (serve in main.rs).
WayIn ==
  Up /\ Made = {} /\ joining.at = "idle" /\ ~wasted /\ (\A i \in Invites : ~Stranded(i))
    => \E i \in Invites : Good(i)

=============================================================================
