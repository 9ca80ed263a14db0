--------------------------- MODULE FoundingProofs ---------------------------
(***************************************************************************)
(* How a server comes to have accounts: theorems for any number of         *)
(* commands run beside it, of keys, invites and accounts.                  *)
(***************************************************************************)
EXTENDS Founding, FiniteSetTheorems, TLAPS

----------------------------------------------------------------------------
(* The inductive invariant.                                                *)

\* Where a process is says what it has.  The key it holds is the one in the
\* file; one that may make a key knows that nobody pinned one, or there is a key
\* by now; and while one writes, the file is there and empty.
ProcOK(p) ==
  /\ proc[p].at = "off" => proc[p] = Off
  /\ proc[p].key # 0 => key.there /\ proc[p].key = key.id
  /\ proc[p].at = "creates" => proc[p].may
  /\ proc[p].at \in {"loads", "creates"} /\ proc[p].may
       => proc[p].kind = "new-key" \/ Made = {} \/ key.there
  /\ proc[p].at = "writes"
       => key.there /\ key.id = 0 /\ (proc[p].kind = "new-key" \/ Made = {})

\* The server is started as nothing else, and counts its invites with a key.
ServerOK ==
  /\ proc[Server].kind \in {"none", "serve"}
  /\ proc[Server].at = "invites" => proc[Server].key # 0

\* The key is the newest one made, what accounts pinned too unless new-key was
\* run, one process writes it, and every code names it or one that was lost.
KeysOK ==
  /\ key.id # 0 => key.id = minted.keys
  /\ \A p, q \in Processes : proc[p].at = "writes" /\ proc[q].at = "writes" => p = q
  /\ \A a \in Made : accounts[a].pin = minted.keys \/ accounts[a].renewed
  /\ \A i \in Invites : invites[i].code \in {0, key.id} \cup lost

\* Accounts are numbered from one.
MadeInOrder == Made = 1..Cardinality(Made) /\ Cardinality(Made) \in 0..MaxAccounts

\* A registration is the server's, and where it is says what it has.
JoiningOK ==
  /\ joining.at # "idle" => Up
  /\ joining.at = "idle" => joining = NotJoining
  /\ joining.at = "redeemed" =>
       /\ joining.account = 0 /\ Cardinality(Made) < config.max_accounts
       /\ joining.invite # 0 => /\ invites[joining.invite].at = "used"
                                /\ \A a \in Made : accounts[a].via # joining.invite
  /\ joining.at = "created" =>
       joining.account \in Made /\ accounts[joining.account].at = "created"

\* Registrations a crash would cut after their first statement.
Pending == IF joining.invite # 0 \/ joining.account # 0 THEN 1 ELSE 0

\* An invite that made an account is spent, and was made; no two accounts have
\* one in common; and what is wasted is accounted for.
InvitesOK ==
  /\ \A i \in Invites : i > minted.invites => invites[i].at = "none"
  /\ \A a \in Made : accounts[a].via # 0 => invites[accounts[a].via].at \in {"used", "gone"}
  /\ \A a, b \in Made : a # b /\ accounts[a].via # 0 => accounts[a].via # accounts[b].via
  /\ Cardinality(Wasted) + Cardinality(Deviceless) <= cut + Pending

\* A start has made no invite until it says so, and said it before it listens.
ShownOK ==
  LET s == proc[Server]
  IN  /\ s.at \notin {"says", "listens", "up"} => s.invite = 0
      /\ s.at = "says" => s.invite # 0
      /\ s.at \in {"listens", "up"} /\ s.invite # 0 => invites[s.invite].code # 0

\* From the count of its invites on, a server that is nobody's has one open.
WayKept ==
  /\ proc[Server].at \in {"says", "listens", "up"} /\ Made = {} /\ joining.invite = 0 /\ ~wasted
  => \E i \in Invites : invites[i].at = "open"

FoundingInv ==
  /\ TypeOK /\ ServerOK /\ KeysOK /\ MadeInOrder /\ JoiningOK /\ InvitesOK /\ ShownOK /\ WayKept
  /\ \A p \in Processes : ProcOK(p)

\* What each step leaves alone: which actions change which variable.
LEMMA Changes ==
  ASSUME [Next]_vars
  PROVE  /\ \/ UNCHANGED key
            \/ KeyLost \/ KeyPutBack
            \/ \E p \in Processes : CreatesFile(p) \/ WritesKey(p)
         /\ \/ UNCHANGED invites
            \/ \E p \in Processes : MakesInvite(p) \/ Says(p)
            \/ \E i \in Invites : Redeems(i) \/ InviteLapses(i) \/ InvitePurged(i)
         /\ \/ UNCHANGED accounts
            \/ AccountCreated \/ DeviceAdded \/ \E p \in Processes : WritesKey(p)
         /\ \/ UNCHANGED proc
            \/ ServerStarts \/ ServerCounts \/ Listens
            \/ \E p \in Processes : Load(p) \/ MakesInvite(p) \/ Says(p) \/ Stops(p)
            \/ \E p \in Operators : \/ NewKeyStarts(p) \/ CommandEnds(p)
                                    \/ \E command \in Commands : CommandStarts(p, command)
         /\ UNCHANGED config \/ ServerStarts
         /\ \/ UNCHANGED joining
            \/ Registers \/ AccountCreated \/ DeviceAdded
            \/ \E i \in Invites : Redeems(i)
            \/ Stops(Server) \/ RegistrationFails
         /\ UNCHANGED minted \/ \E p \in Processes : MakesInvite(p) \/ WritesKey(p)
         /\ UNCHANGED lost \/ KeyLost
         /\ \/ UNCHANGED wasted
            \/ ServerCounts \/ RegistrationFails \/ \E i \in Invites : InviteLapses(i)
         /\ UNCHANGED cut \/ Stops(Server) \/ RegistrationFails
<1>1. CASE UNCHANGED vars
  BY <1>1 DEF vars
<1>2. ASSUME NEW p \in Processes,
             Asks(p) \/ LoadsKey(p) \/ LoadFails(p) \/ GeneratesKey(p)
      PROVE  UNCHANGED <<key, invites, accounts, config, joining, minted, lost, wasted, cut>>
  BY <1>2 DEF Asks, LoadsKey, LoadFails, GeneratesKey, history
<1>3. ASSUME NEW p \in Processes, CreatesFile(p)
      PROVE  UNCHANGED <<invites, accounts, config, joining, minted, lost, wasted, cut>>
  BY <1>3 DEF CreatesFile, history
<1>4. ASSUME NEW p \in Processes, WritesKey(p)
      PROVE  UNCHANGED <<invites, config, joining, lost, wasted, cut>>
  BY <1>4 DEF WritesKey, history
<1>5. ASSUME NEW p \in Processes, MakesInvite(p)
      PROVE  UNCHANGED <<key, accounts, config, joining, lost, wasted, cut>>
  BY <1>5 DEF MakesInvite, history
<1>6. ASSUME NEW p \in Processes, Says(p)
      PROVE  UNCHANGED <<key, accounts, config, joining, minted, lost, wasted, cut>>
  BY <1>6 DEF Says, history
<1>7. ASSUME NEW p \in Processes, Stops(p)
      PROVE  /\ UNCHANGED <<key, invites, accounts, config, minted, lost, wasted>>
             /\ p # Server => UNCHANGED <<joining, cut>>
  BY <1>7 DEF Stops
<1>8. ASSUME NEW p \in Operators,
             NewKeyStarts(p) \/ CommandEnds(p) \/ \E c \in Commands : CommandStarts(p, c)
      PROVE  UNCHANGED <<key, invites, accounts, config, joining, minted, lost, wasted, cut>>
  BY <1>8 DEF NewKeyStarts, CommandEnds, CommandStarts, history
<1>9. CASE ServerStarts \/ Listens
  BY <1>9 DEF ServerStarts, Listens, history
<1>10. CASE ServerCounts
  BY <1>10 DEF ServerCounts
<1>11. ASSUME NEW i \in Invites, Redeems(i)
       PROVE  UNCHANGED <<key, accounts, proc, config, minted, lost, wasted, cut>>
  BY <1>11 DEF Redeems, history
<1>12. ASSUME NEW i \in Invites, InviteLapses(i) \/ InvitePurged(i)
       PROVE  UNCHANGED <<key, accounts, proc, config, joining, minted, lost, cut>>
              /\ (InvitePurged(i) => UNCHANGED wasted)
  BY <1>12 DEF InviteLapses, InvitePurged, history
<1>13. CASE Registers
  BY <1>13 DEF Registers, history
<1>14. CASE AccountCreated \/ DeviceAdded
  BY <1>14 DEF AccountCreated, DeviceAdded, history
<1>15. CASE KeyLost \/ KeyPutBack
  BY <1>15 DEF KeyLost, KeyPutBack, history
<1>16. CASE RegistrationFails
  BY <1>16 DEF RegistrationFails
<1> QED
  BY <1>1, <1>2, <1>3, <1>4, <1>5, <1>6, <1>7, <1>8, <1>9, <1>10, <1>11, <1>12, <1>13,
     <1>14, <1>15, <1>16, Zenon DEF Next, Load

----------------------------------------------------------------------------
(* Types.                                                                  *)

InviteRow == [at : {"none", "open", "used", "lapsed", "gone"}, code : 0..MaxKeys]
AccountRow == [at : {"none", "created", "founded"}, via : 0..MaxInvites, pin : 0..MaxKeys,
               renewed : BOOLEAN]
Process ==
  [kind : {"none", "serve"} \cup Commands,
   at : {"off", "invites", "asks", "loads", "creates", "writes", "keyed", "says", "listens",
         "up"},
   may : BOOLEAN, key : Nat, invite : 0..MaxInvites]

\* TypeOK, variable by variable.
KeyTyped == key \in [there : BOOLEAN, id : 0..MaxKeys] /\ (key.id # 0 => key.there)
ProcTyped ==
  /\ proc \in [Processes -> Process]
  /\ \A p \in Processes : proc[p].key <= minted.keys
  /\ \A p \in Processes : proc[p].at \in {"keyed", "says", "listens", "up"} => proc[p].key # 0
MintedTyped == minted \in [keys : 0..MaxKeys, invites : 0..MaxInvites]
InviteNumbers == 0..MaxInvites
AccountNumbers == 0..MaxAccounts
Joining == [at : {"idle", "redeemed", "created"}, invite : InviteNumbers,
            account : AccountNumbers]
JoiningTyped == joining \in Joining
InvitesTyped == invites \in [Invites -> InviteRow]
AccountsTyped == accounts \in [Accounts -> AccountRow]
ConfigTyped == config \in Configurations
HistoryTyped == lost \subseteq 1..MaxKeys /\ wasted \in BOOLEAN /\ cut \in Nat

\* The parts are the whole.
LEMMA TypeParts ==
  TypeOK <=> /\ KeyTyped /\ ProcTyped /\ MintedTyped /\ JoiningTyped /\ HistoryTyped
             /\ InvitesTyped /\ AccountsTyped /\ ConfigTyped
<1>1. MintedTyped => minted.keys \in Nat
  BY FoundingAssumption DEF MintedTyped
<1>2. ASSUME minted.keys \in Nat
      PROVE  ProcTyped <=>
        /\ proc \in [Processes ->
             [kind : {"none", "serve"} \cup Commands,
              at : {"off", "invites", "asks", "loads", "creates", "writes", "keyed", "says",
                    "listens", "up"},
              may : BOOLEAN, key : 0..minted.keys, invite : 0..MaxInvites]]
        /\ \A p \in Processes : proc[p].at \in {"keyed", "says", "listens", "up"} => proc[p].key # 0
  BY <1>2 DEF ProcTyped, Process
<1> QED
  BY <1>1, <1>2
  DEF TypeOK, KeyTyped, MintedTyped, JoiningTyped, HistoryTyped, InvitesTyped, AccountsTyped,
      ConfigTyped, InviteRow, AccountRow, Joining, InviteNumbers, AccountNumbers

\* The records steps make are well typed.
LEMMA Records ==
  /\ MaxKeys \in Nat /\ MaxInvites \in Nat /\ MaxAccounts \in Nat
  /\ Server \in Processes /\ Server \notin Operators /\ Operators \subseteq Processes
  /\ Off \in Process /\ Off.key = 0 /\ Off.at = "off" /\ Off.kind = "none"
  /\ NoKey \in [there : BOOLEAN, id : 0..MaxKeys] /\ NoKey.id = 0
  /\ NoInvite \in InviteRow /\ NoAccount \in AccountRow
  /\ NotJoining \in Joining
BY FoundingAssumption
DEF Processes, Off, Process, NoKey, NoInvite, InviteRow, NoAccount, AccountRow, NotJoining, Joining,
    InviteNumbers, AccountNumbers

\* Keys and invites are counted upwards, within their bounds.
LEMMA MintedStep ==
  ASSUME TypeOK, [Next]_vars
  PROVE  MintedTyped' /\ minted.keys \in Nat /\ minted'.keys \in Nat
         /\ minted.keys <= minted'.keys
<1>1. MintedTyped /\ minted.keys \in Nat
  BY TypeParts, Records DEF MintedTyped
<1>2. MintedTyped' /\ minted.keys <= minted'.keys
  <2>1. CASE UNCHANGED minted
    BY <1>1, <2>1 DEF MintedTyped
  <2>2. ASSUME NEW p \in Processes, MakesInvite(p) PROVE MintedTyped' /\ minted.keys <= minted'.keys
    BY <1>1, <2>2 DEF MakesInvite, MintedTyped, Invites
  <2>3. ASSUME NEW p \in Processes, WritesKey(p) PROVE MintedTyped' /\ minted.keys <= minted'.keys
    BY <1>1, <2>3, Records DEF WritesKey, MintedTyped
  <2> QED
    BY <2>1, <2>2, <2>3, Changes
<1> QED
  BY <1>1, <1>2, Records DEF MintedTyped

\* A process that starts has no key yet.
LEMMA Started ==
  ASSUME NEW command \in {"serve"} \cup Commands, NEW at \in {"invites", "asks", "loads"}
  PROVE  LET r == [Off EXCEPT !.kind = command, !.at = at]
             s == [Off EXCEPT !.kind = command, !.at = at, !.may = TRUE]
         IN  /\ r \in Process /\ r.key = 0 /\ r.at = at /\ r.kind = command /\ ~r.may
             /\ s \in Process /\ s.key = 0 /\ s.at = at /\ s.kind = command
<1>1. Off \in Process /\ Off.key = 0 /\ ~Off.may
  BY Records DEF Off
<1> QED
  BY <1>1 DEF Process

\* What a step may make of a process: another well-typed one, with a key if it
\* is past tls::load.
Becomes(p, r) ==
  /\ r \in Process /\ r.key <= minted'.keys
  /\ r.at \in {"keyed", "says", "listens", "up"} => r.key # 0
  /\ proc' = [proc EXCEPT ![p] = r]

\* The processes stay well typed.
LEMMA ProcStep ==
  ASSUME TypeOK, ServerOK, KeysOK, [Next]_vars
  PROVE  ProcTyped'
<1>n. minted.keys \in Nat /\ minted'.keys \in Nat /\ minted.keys <= minted'.keys
  BY MintedStep
<1>0. /\ KeyTyped /\ 0 <= minted'.keys
      /\ proc \in [Processes -> Process]
      /\ \A p \in Processes : /\ proc[p] \in Process /\ proc[p].key <= minted.keys
                              /\ proc[p].at \in {"keyed", "says", "listens", "up"} => proc[p].key # 0
  BY <1>n, TypeParts DEF ProcTyped
<1>1. \A p \in Processes : proc[p].key \in Nat /\ proc[p].key <= minted'.keys
  <2>1. \A p \in Processes : proc[p].key \in Nat
    BY <1>0 DEF Process
  <2>2. \A p \in Processes : proc[p].key <= minted.keys
    BY <1>0
  <2> QED
    BY <1>n, <2>1, <2>2
<1>2. ASSUME NEW p \in Processes, NEW r, Becomes(p, r) PROVE ProcTyped'
  BY <1>0, <1>1, <1>2 DEF Becomes, ProcTyped
<1>3. ASSUME NEW p \in Processes, Ends(p) PROVE ProcTyped'
  <2>1. Becomes(p, Off)
    BY <1>0, <1>3, Records DEF Ends, Becomes
  <2> QED
    BY <1>2, <2>1
<1>4. ASSUME NEW p \in Processes, NEW at \in {"creates", "writes", "invites", "listens", "up"}, Goes(p, at),
             at \in {"listens", "up"} => proc[p].key # 0
      PROVE  ProcTyped'
  <2>1. Becomes(p, [proc[p] EXCEPT !.at = at])
    BY <1>0, <1>1, <1>4 DEF Goes, Becomes, Process
  <2> QED
    BY <1>2, <2>1
<1>5. ASSUME NEW p \in Processes, Asks(p) PROVE ProcTyped'
  <2>1. Becomes(p, [proc[p] EXCEPT !.may = MayCreate, !.at = "loads"])
    BY <1>0, <1>1, <1>5 DEF Asks, Becomes, Process, MayCreate
  <2> QED
    BY <1>2, <2>1
<1>6. ASSUME NEW p \in Processes, LoadsKey(p) PROVE ProcTyped'
  <2>1. key.id \in Nat /\ key.id # 0 /\ key.id = minted.keys
    BY <1>0, <1>6, Records DEF LoadsKey, Whole, KeysOK, KeyTyped
  <2>2. Becomes(p, [proc[p] EXCEPT !.key = key.id, !.at = "keyed"])
    BY <1>0, <1>1, <1>6, <2>1 DEF LoadsKey, Becomes, Process
  <2> QED
    BY <1>2, <2>2
<1>7. ASSUME NEW p \in Processes, LoadFails(p) \/ GeneratesKey(p) \/ CreatesFile(p) PROVE ProcTyped'
  BY <1>3, <1>4, <1>7 DEF LoadFails, GeneratesKey, CreatesFile
<1>8. ASSUME NEW p \in Processes, WritesKey(p) PROVE ProcTyped'
  <2>1. minted'.keys = minted.keys + 1
    BY <1>0, <1>8, TypeParts DEF WritesKey, MintedTyped
  <2>2. Becomes(p, [proc[p] EXCEPT !.key = minted.keys + 1, !.at = "keyed"])
    BY <1>0, <1>1, <1>8, <2>1 DEF WritesKey, Becomes, Process
  <2> QED
    BY <1>2, <2>2
<1>9. ASSUME NEW p \in Processes, MakesInvite(p) PROVE ProcTyped'
  <2>1. minted.invites + 1 \in 0..MaxInvites
    BY <1>9, TypeParts, Records DEF MakesInvite, Invites, MintedTyped
  <2>2. Becomes(p, [proc[p] EXCEPT !.invite = minted.invites + 1,
                                   !.at = IF p = Server THEN "says" ELSE "asks"])
    BY <1>0, <1>1, <1>9, <2>1 DEF MakesInvite, Becomes, Process, ServerOK
  <2> QED
    BY <1>2, <2>2
<1>10. ASSUME NEW p \in Processes, Says(p) PROVE ProcTyped'
  BY <1>0, <1>3, <1>4, <1>10 DEF Says
<1>11. ASSUME NEW p \in Operators, NEW command \in Commands, CommandStarts(p, command)
       PROVE  ProcTyped'
  <2>1. PICK at \in {"invites", "asks"} : at = FirstStep[command]
    BY <1>11, FoundingAssumption DEF CommandStarts, FirstStep
  <2> DEFINE r == [Off EXCEPT !.kind = command, !.at = at]
  <2>2. r \in Process /\ r.key = 0 /\ r.at = at
    <3>1. Off \in Process /\ Off.key = 0
      BY Records
    <3> QED
      BY <3>1 DEF Process
  <2>3. proc' = [proc EXCEPT ![p] = r]
    BY <1>11, <2>1 DEF CommandStarts
  <2> HIDE DEF r
  <2>4. Becomes(p, r)
    BY <1>0, <2>1, <2>2, <2>3 DEF Becomes
  <2> QED
    BY <1>2, <2>4, Records
<1>12. ASSUME NEW p \in Operators, NewKeyStarts(p) PROVE ProcTyped'
  <2> DEFINE r == [Off EXCEPT !.kind = "new-key", !.at = "loads", !.may = TRUE]
  <2>2. r \in Process /\ r.key = 0 /\ r.at = "loads"
    BY <1>12, Started DEF NewKeyStarts
  <2>3. proc' = [proc EXCEPT ![p] = r]
    BY <1>12 DEF NewKeyStarts
  <2> HIDE DEF r
  <2>1. Becomes(p, r)
    BY <1>0, <2>2, <2>3 DEF Becomes
  <2> QED
    BY <1>2, <2>1, Records
<1>13. ASSUME NEW p \in Operators, CommandEnds(p) PROVE ProcTyped'
  BY <1>3, <1>13, Records DEF CommandEnds
<1>14. CASE ServerStarts
  <2> DEFINE r == [Off EXCEPT !.kind = "serve", !.at = "asks"]
  <2>2. r \in Process /\ r.key = 0 /\ r.at = "asks"
    BY Started
  <2>3. proc' = [proc EXCEPT ![Server] = r]
    BY <1>14 DEF ServerStarts, FirstStep
  <2> HIDE DEF r
  <2>1. Becomes(Server, r)
    BY <1>0, <2>2, <2>3 DEF Becomes
  <2> QED
    BY <1>2, <2>1, Records
<1>15. CASE ServerCounts \/ Listens
  <2>1. proc[Server].key # 0
    BY <1>0, <1>15, Records DEF ServerCounts, Listens
  <2> QED
    BY <1>4, <1>15, <2>1, Records DEF ServerCounts, Listens
<1>16. ASSUME NEW p \in Processes, Stops(p) PROVE ProcTyped'
  BY <1>3, <1>16 DEF Stops
<1>17. CASE UNCHANGED proc
  BY <1>0, <1>1, <1>17 DEF ProcTyped
<1> QED
  BY <1>5, <1>6, <1>7, <1>8, <1>9, <1>10, <1>11, <1>12, <1>13, <1>14, <1>15, <1>16, <1>17,
     Changes DEF Load

\* A new server is well typed.
LEMMA InitTypes == Init => TypeOK
<1> SUFFICES ASSUME Init PROVE TypeOK
  OBVIOUS
<1>1. JoiningTyped /\ HistoryTyped /\ ConfigTyped
  BY Records DEF Init, JoiningTyped, HistoryTyped, ConfigTyped
<1>2. ProcTyped
  BY Records DEF Init, ProcTyped
<1>3. InvitesTyped /\ AccountsTyped
  BY Records DEF Init, InvitesTyped, AccountsTyped
<1>4. KeyTyped
  BY Records DEF Init, KeyTyped
<1>5. MintedTyped
  BY Records DEF Init, MintedTyped
<1> QED
  BY <1>1, <1>2, <1>3, <1>4, <1>5, TypeParts

\* The tables stay well typed.
LEMMA TablesStep ==
  ASSUME TypeOK, KeysOK, [Next]_vars
  PROVE  InvitesTyped' /\ AccountsTyped'
<1> USE DEF InvitesTyped, AccountsTyped
<1>0. /\ invites \in [Invites -> InviteRow] /\ accounts \in [Accounts -> AccountRow]
      /\ MaxKeys \in Nat /\ MaxInvites \in Nat /\ MintedTyped /\ JoiningTyped
      /\ \A p \in Processes : proc[p].key \in 0..MaxKeys
  <2>1. \A p \in Processes : proc[p].key \in Nat /\ proc[p].key <= minted.keys
    BY TypeParts DEF ProcTyped, Process
  <2>2. minted.keys \in Nat /\ minted.keys <= MaxKeys /\ MaxKeys \in Nat
    BY TypeParts, Records DEF MintedTyped
  <2>3. \A p \in Processes : proc[p].key \in 0..MaxKeys
    BY <2>1, <2>2
  <2> QED
    BY <2>3, TypeParts, Records
<1>1. invites' \in [Invites -> InviteRow]
  <2>1. ASSUME NEW p \in Processes, MakesInvite(p) PROVE invites' \in [Invites -> InviteRow]
    BY <1>0, <2>1 DEF MakesInvite, InviteRow
  <2>2. ASSUME NEW p \in Processes, Says(p) PROVE invites' \in [Invites -> InviteRow]
    BY <1>0, <2>2 DEF Says, InviteRow
  <2>3. ASSUME NEW i \in Invites, Redeems(i) \/ InviteLapses(i) \/ InvitePurged(i)
        PROVE  invites' \in [Invites -> InviteRow]
    BY <1>0, <2>3 DEF Redeems, Redeem, InviteLapses, InvitePurged, InviteRow
  <2> QED
    BY <1>0, <2>1, <2>2, <2>3, Changes
<1>2. accounts' \in [Accounts -> AccountRow]
  <2>1. ASSUME NEW p \in Processes, WritesKey(p) PROVE accounts' \in [Accounts -> AccountRow]
    BY <1>0, <2>1 DEF WritesKey, AccountRow
  <2>2. CASE AccountCreated
    <3>1. joining.invite \in 0..MaxInvites /\ proc[Server].key \in 0..MaxKeys
      BY <1>0, Records DEF JoiningTyped, Joining, InviteNumbers
    <3> QED
      BY <1>0, <2>2, <3>1 DEF AccountCreated, AccountRow
  <2>3. CASE DeviceAdded
    BY <1>0, <2>3 DEF DeviceAdded, AccountRow
  <2> QED
    BY <1>0, <2>1, <2>2, <2>3, Changes
<1> QED
  BY <1>1, <1>2

\* The key file stays well typed: where there is none there is no key.
LEMMA KeyStep ==
  ASSUME TypeOK, [Next]_vars
  PROVE  KeyTyped'
<1>0. KeyTyped /\ MintedTyped /\ MaxKeys \in Nat
  BY TypeParts, Records
<1>1. ASSUME NEW p \in Processes, CreatesFile(p) PROVE KeyTyped'
  <2>1. key' = [there |-> TRUE, id |-> 0] \/ key' = key
    BY <1>1 DEF CreatesFile
  <2>2. CASE key' = [there |-> TRUE, id |-> 0]
    BY <1>0, <2>2 DEF KeyTyped
  <2> QED
    BY <1>0, <2>1, <2>2 DEF KeyTyped
<1>2. ASSUME NEW p \in Processes, WritesKey(p) PROVE KeyTyped'
  BY <1>0, <1>2 DEF WritesKey, KeyTyped, MintedTyped
<1>3. CASE KeyLost
  BY <1>3, Records DEF KeyLost, KeyTyped
<1>4. CASE KeyPutBack
  BY <1>0, <1>4 DEF KeyPutBack, KeyTyped, MintedTyped
<1> QED
  BY <1>0, <1>1, <1>2, <1>3, <1>4, Changes DEF KeyTyped

\* The registration stays well typed.
LEMMA JoiningStep ==
  ASSUME TypeOK, [Next]_vars
  PROVE  JoiningTyped'
<1>0. JoiningTyped /\ NotJoining \in Joining
  BY TypeParts, Records
<1>1. ASSUME NEW i \in Invites, Redeems(i) PROVE JoiningTyped'
  <2>1. i \in InviteNumbers
    BY DEF Invites, InviteNumbers
  <2> QED
    BY <1>0, <1>1, <2>1 DEF Redeems, JoiningTyped, Joining
<1>2. CASE Registers
  BY <1>0, <1>2 DEF Registers, JoiningTyped, Joining
<1>3. CASE AccountCreated
  <2>1. Cardinality(Made) + 1 \in AccountNumbers
    BY <1>3 DEF AccountCreated, Accounts, AccountNumbers
  <2> QED
    BY <1>0, <1>3, <2>1 DEF AccountCreated, JoiningTyped, Joining
<1>4. CASE DeviceAdded \/ Stops(Server) \/ RegistrationFails
  BY <1>0, <1>4 DEF DeviceAdded, Stops, RegistrationFails, CutShort, JoiningTyped
<1> QED
  BY <1>0, <1>1, <1>2, <1>3, <1>4, Changes DEF JoiningTyped

\* Every step keeps the types, and a process that has come past tls::load has a
\* key.
LEMMA TypeStep ==
  ASSUME TypeOK, ServerOK, KeysOK, [Next]_vars
  PROVE  TypeOK'
<1>0. KeyTyped /\ HistoryTyped /\ ConfigTyped
  BY TypeParts
<1>1. MintedTyped' /\ ProcTyped' /\ InvitesTyped' /\ AccountsTyped' /\ KeyTyped' /\ JoiningTyped'
  BY MintedStep, ProcStep, TablesStep, KeyStep, JoiningStep
<1>2. HistoryTyped'
  <2>1. lost' \subseteq 1..MaxKeys
    <3>1. CASE KeyLost
      <4>1. {key.id} \ {0} \subseteq 1..MaxKeys
        BY <1>0 DEF KeyTyped
      <4> QED
        BY <1>0, <3>1, <4>1 DEF KeyLost, HistoryTyped
    <3> QED
      BY <1>0, <3>1, Changes DEF HistoryTyped
  <2>2. wasted' \in BOOLEAN
    BY <1>0, Changes DEF HistoryTyped, ServerCounts, RegistrationFails, InviteLapses
  <2>3. cut' \in Nat
    BY <1>0, Changes DEF HistoryTyped, Stops, RegistrationFails, CutShort
  <2> QED
    BY <2>1, <2>2, <2>3 DEF HistoryTyped
<1>3. ConfigTyped'
  BY <1>0, Changes DEF ServerStarts, ConfigTyped
<1> QED
  BY <1>1, <1>2, <1>3, TypeParts, PTL

----------------------------------------------------------------------------
(* Processes and the key.                                                  *)

\* The accounts there are: only a registration adds to them, and for that the
\* server must be up.
LEMMA MadeMoves ==
  ASSUME AccountsTyped, JoiningOK, [Next]_vars
  PROVE  \/ Made' = Made
         \/ AccountCreated /\ Up /\ Made' = Made \cup {Cardinality(Made) + 1}
<1>1. CASE UNCHANGED accounts
  BY <1>1 DEF Made
<1>2. ASSUME NEW p \in Processes, WritesKey(p) PROVE Made' = Made
  BY <1>2 DEF WritesKey, Made, AccountsTyped, AccountRow
<1>3. CASE DeviceAdded
  <2>1. /\ joining.account \in Made
        /\ accounts' = [accounts EXCEPT ![joining.account].at = "founded"]
    BY <1>3 DEF DeviceAdded, JoiningOK
  <2> QED
    BY <2>1 DEF Made, AccountsTyped, AccountRow
<1>4. CASE AccountCreated
  <2>1. Cardinality(Made) + 1 \in Accounts /\ Up
    BY <1>4 DEF AccountCreated, JoiningOK
  <2>2. /\ accounts'[Cardinality(Made) + 1].at = "created"
        /\ \A a \in Accounts : a # Cardinality(Made) + 1 => accounts'[a] = accounts[a]
    BY <1>4, <2>1 DEF AccountCreated, AccountsTyped
  <2> QED
    BY <1>4, <2>1, <2>2 DEF Made
<1> QED
  BY <1>1, <1>2, <1>3, <1>4, Changes

\* While the server answers, the key is whole.
LEMMA UpIsWhole ==
  ASSUME ProcTyped, NEW p \in Processes, ProcOK(p),
         proc[p].at \in {"keyed", "says", "listens", "up"}
  PROVE  key.there /\ key.id # 0 /\ proc[p].key = key.id
BY DEF ProcTyped, ProcOK

\* How the key file changes: when every process is off, by whoever may make it
\* where there is none, and by whoever then writes it.
LEMMA KeyMoves ==
  ASSUME ProcTyped, \A p \in Processes : ProcOK(p), [Next]_vars
  PROVE  \/ UNCHANGED key
         \/ UNCHANGED <<proc, accounts>> /\ \A p \in Processes : proc[p] = Off
         \/ \E q \in Processes : /\ proc[q].at = "creates" /\ proc'[q].at = "writes"
                                 /\ ~key.there /\ key' = [there |-> TRUE, id |-> 0]
                                 /\ UNCHANGED <<accounts, joining>>
         \/ \E q \in Processes : WritesKey(q)
<1>1. CASE KeyLost \/ KeyPutBack
  BY <1>1 DEF KeyLost, KeyPutBack, Quiet, ProcOK
<1>2. ASSUME NEW q \in Processes, CreatesFile(q), ~ UNCHANGED key
      PROVE  /\ proc[q].at = "creates" /\ proc'[q].at = "writes"
             /\ ~key.there /\ key' = [there |-> TRUE, id |-> 0]
             /\ UNCHANGED <<accounts, joining>>
  BY <1>2 DEF CreatesFile, CreateNew, Goes, ProcTyped, Process
<1> QED
  BY <1>1, <1>2, Changes

\* A process that does not move stays in order whatever the others do.
LEMMA ProcKept ==
  ASSUME FoundingInv, [Next]_vars, NEW p \in Processes, proc'[p] = proc[p]
  PROVE  ProcOK(p)'
<1>0. /\ ProcOK(p) /\ ProcTyped /\ KeysOK /\ KeyTyped /\ Server \in Processes
      /\ \A q \in Processes : ProcOK(q)
  BY TypeParts, Records DEF FoundingInv
<1>1. \/ UNCHANGED key
      \/ proc[p] = Off
      \/ /\ ~key.there /\ proc[p].at # "writes" /\ proc[p].key = 0 /\ key'.there
      \/ /\ key.there /\ proc[p].at # "writes" /\ proc[p].key = 0 /\ key'.there
  <2>1. ASSUME NEW q \in Processes, WritesKey(q)
        PROVE  key.there /\ proc[p].at # "writes" /\ proc[p].key = 0 /\ key'.there
    <3>1. proc[q].at = "writes" /\ proc'[q].at = "keyed" /\ key'.there
      BY <1>0, <2>1 DEF WritesKey, ProcTyped, Process
    <3>2. key.there /\ key.id = 0
      BY <1>0, <3>1 DEF ProcOK
    <3> QED
      BY <1>0, <3>1, <3>2 DEF ProcOK, KeysOK
  <2>2. ASSUME ~key.there PROVE proc[p].at # "writes" /\ proc[p].key = 0
    BY <1>0, <2>2 DEF ProcOK
  <2> QED
    BY <1>0, <2>1, <2>2, KeyMoves
<1>2. Made' = Made \/ (UNCHANGED key /\ key.there /\ key.id # 0)
  <2>1. CASE AccountCreated /\ Up
    <3>1. UNCHANGED key
      BY <2>1 DEF AccountCreated
    <3> QED
      BY <1>0, <2>1, <3>1, UpIsWhole DEF Up
  <2> QED
    BY <2>1, MadeMoves, TypeParts DEF FoundingInv
<1>3. Off.at = "off" /\ Off.key = 0
  BY Records
<1>4. proc'[p].key # 0 => key'.there /\ proc'[p].key = key'.id
  BY <1>0, <1>1, <1>3 DEF ProcOK
<1>5. proc'[p].at \in {"loads", "creates"} /\ proc'[p].may
        => proc'[p].kind = "new-key" \/ Made' = {} \/ key'.there
  BY <1>0, <1>1, <1>2, <1>3 DEF ProcOK
<1>6. proc'[p].at = "writes"
        => key'.there /\ key'.id = 0 /\ (proc'[p].kind = "new-key" \/ Made' = {})
  BY <1>0, <1>1, <1>2, <1>3 DEF ProcOK
<1>7. (proc'[p].at = "off" => proc'[p] = Off) /\ (proc'[p].at = "creates" => proc'[p].may)
  BY <1>0 DEF ProcOK
<1> QED
  BY <1>4, <1>5, <1>6, <1>7 DEF ProcOK, Off

\* A process after a step of its own: r is what the step made of it.
Fits(r) ==
  /\ r.at = "off" => r = Off
  /\ r.key # 0 => key'.there /\ r.key = key'.id
  /\ r.at = "creates" => r.may
  /\ r.at \in {"loads", "creates"} /\ r.may => r.kind = "new-key" \/ Made' = {} \/ key'.there
  /\ r.at = "writes" => key'.there /\ key'.id = 0 /\ (r.kind = "new-key" \/ Made' = {})

\* A process that moved is in order again, and no other moved with it.
Moved(p) == \E r : Fits(r) /\ proc' = [proc EXCEPT ![p] = r]

\* Whoever moves is in order again.
LEMMA ProcMoves ==
  ASSUME FoundingInv, [Next]_vars
  PROVE  UNCHANGED proc \/ \E p \in Processes : Moved(p)
<1>0. /\ ProcTyped /\ KeysOK /\ KeyTyped /\ MintedTyped /\ ServerOK /\ Server \in Processes
      /\ Operators \subseteq Processes /\ \A p \in Processes : ProcOK(p)
      /\ \A p \in Processes : proc[p] \in Process
  BY TypeParts, Records DEF FoundingInv, ProcTyped
<1>1. ASSUME NEW p \in Processes, Ends(p) PROVE Moved(p)
  <2>1. Fits(Off)
    BY Records DEF Fits
  <2> QED
    BY <1>1, <2>1 DEF Moved, Ends
<1>2. ASSUME NEW p \in Processes, NEW at \in {"invites", "listens", "up"},
             Goes(p, at), UNCHANGED key
      PROVE  Moved(p)
  <2> DEFINE r == [proc[p] EXCEPT !.at = at]
  <2>1. r.at = at /\ r.key = proc[p].key
    BY <1>0 DEF Process
  <2>2. proc' = [proc EXCEPT ![p] = r]
    BY <1>2 DEF Goes
  <2> HIDE DEF r
  <2>3. Fits(r)
    BY <1>0, <1>2, <2>1 DEF Fits, ProcOK
  <2> QED
    BY <2>2, <2>3 DEF Moved
<1>3. ASSUME NEW p \in Processes, Asks(p) PROVE Moved(p)
  <2> DEFINE r == [proc[p] EXCEPT !.may = MayCreate, !.at = "loads"]
  <2>1. r.at = "loads" /\ r.key = proc[p].key /\ (r.may => Made = {})
    BY <1>0 DEF Process, MayCreate
  <2>2. proc' = [proc EXCEPT ![p] = r] /\ UNCHANGED <<key, accounts>>
    BY <1>3 DEF Asks
  <2> HIDE DEF r
  <2>3. Fits(r)
    BY <1>0, <2>1, <2>2 DEF Fits, ProcOK, Made
  <2> QED
    BY <2>2, <2>3 DEF Moved
<1>4. ASSUME NEW p \in Processes, LoadsKey(p) PROVE Moved(p)
  <2> DEFINE r == [proc[p] EXCEPT !.key = key.id, !.at = "keyed"]
  <2>1. r.at = "keyed" /\ r.key = key.id
    BY <1>0 DEF Process
  <2>2. proc' = [proc EXCEPT ![p] = r] /\ UNCHANGED key /\ key.there
    BY <1>4 DEF LoadsKey, Whole
  <2> HIDE DEF r
  <2>3. Fits(r)
    BY <2>1, <2>2 DEF Fits
  <2> QED
    BY <2>2, <2>3 DEF Moved
<1>5. ASSUME NEW p \in Processes, GeneratesKey(p) PROVE Moved(p)
  <2> DEFINE r == [proc[p] EXCEPT !.at = "creates"]
  <2>1. r.at = "creates" /\ r.key = proc[p].key /\ r.may = proc[p].may /\ r.kind = proc[p].kind
    BY <1>0 DEF Process
  <2>2. /\ proc' = [proc EXCEPT ![p] = r] /\ UNCHANGED <<key, accounts>>
        /\ proc[p].at = "loads" /\ proc[p].may
    BY <1>5 DEF GeneratesKey, Goes
  <2> HIDE DEF r
  <2>3. Fits(r)
    BY <1>0, <2>1, <2>2 DEF Fits, ProcOK, Made
  <2> QED
    BY <2>2, <2>3 DEF Moved
<1>6. ASSUME NEW p \in Processes, CreatesFile(p) PROVE Moved(p)
  <2>1. CASE ~key.there
    <3> DEFINE r == [proc[p] EXCEPT !.at = "writes"]
    <3>1. r.at = "writes" /\ r.key = proc[p].key /\ r.may = proc[p].may /\ r.kind = proc[p].kind
      BY <1>0 DEF Process
    <3>2. /\ proc' = [proc EXCEPT ![p] = r] /\ UNCHANGED accounts
          /\ key'.there /\ key'.id = 0 /\ proc[p].at = "creates"
      BY <1>6, <2>1 DEF CreatesFile, CreateNew, Goes
    <3> HIDE DEF r
    <3>3. Fits(r)
      BY <1>0, <2>1, <3>1, <3>2 DEF Fits, ProcOK, Made
    <3> QED
      BY <3>2, <3>3 DEF Moved
  <2>2. CASE key.there
    BY <1>1, <1>6, <2>2 DEF CreatesFile, CreateNew
  <2> QED
    BY <2>1, <2>2
<1>7. ASSUME NEW p \in Processes, WritesKey(p) PROVE Moved(p)
  <2> DEFINE r == [proc[p] EXCEPT !.key = minted.keys + 1, !.at = "keyed"]
  <2>1. r.at = "keyed" /\ r.key = minted.keys + 1
    BY <1>0 DEF Process
  <2>2. /\ proc' = [proc EXCEPT ![p] = r]
        /\ key'.there /\ key'.id = minted.keys + 1
    BY <1>7 DEF WritesKey
  <2> HIDE DEF r
  <2>3. Fits(r)
    BY <2>1, <2>2 DEF Fits
  <2> QED
    BY <2>2, <2>3 DEF Moved
<1>8. ASSUME NEW p \in Processes, MakesInvite(p) PROVE Moved(p)
  <2> DEFINE r == [proc[p] EXCEPT !.invite = minted.invites + 1,
                                  !.at = IF p = Server THEN "says" ELSE "asks"]
  <2>1. r.at \in {"says", "asks"} /\ r.key = proc[p].key
    BY <1>0 DEF Process
  <2>2. proc' = [proc EXCEPT ![p] = r] /\ UNCHANGED key
    BY <1>8 DEF MakesInvite
  <2> HIDE DEF r
  <2>3. Fits(r)
    BY <1>0, <2>1, <2>2 DEF Fits, ProcOK
  <2> QED
    BY <2>2, <2>3 DEF Moved
<1>9. ASSUME NEW p \in Processes, NEW r, r.key = 0, r.at \in {"invites", "asks", "loads"},
             r.may => r.kind = "new-key", proc' = [proc EXCEPT ![p] = r]
      PROVE  Moved(p)
  <2>1. Fits(r)
    BY <1>9 DEF Fits
  <2> QED
    BY <1>9, <2>1 DEF Moved
<1>10. ASSUME NEW p \in Operators, NEW command \in Commands, CommandStarts(p, command)
       PROVE  Moved(p)
  <2>1. PICK at \in {"invites", "asks"} : at = FirstStep[command]
    BY <1>10, FoundingAssumption DEF CommandStarts, FirstStep
  <2> DEFINE r == [Off EXCEPT !.kind = command, !.at = at]
  <2>2. r.key = 0 /\ r.at = at /\ ~r.may
    <3>1. Off \in Process /\ Off.key = 0 /\ ~Off.may
      BY Records DEF Off
    <3> QED
      BY <3>1 DEF Process
  <2>3. proc' = [proc EXCEPT ![p] = r]
    BY <1>10, <2>1 DEF CommandStarts
  <2> HIDE DEF r
  <2> QED
    BY <1>0, <1>9, <2>2, <2>3
<1>11. ASSUME NEW p \in Operators, NewKeyStarts(p) PROVE Moved(p)
  <2> DEFINE r == [Off EXCEPT !.kind = "new-key", !.at = "loads", !.may = TRUE]
  <2>2. r.key = 0 /\ r.at = "loads" /\ r.kind = "new-key"
    BY <1>11, Started DEF NewKeyStarts
  <2>3. proc' = [proc EXCEPT ![p] = r]
    BY <1>11 DEF NewKeyStarts
  <2> HIDE DEF r
  <2> QED
    BY <1>0, <1>9, <2>2, <2>3
<1>12. CASE ServerStarts
  <2> DEFINE r == [Off EXCEPT !.kind = "serve", !.at = "asks"]
  <2>2. r.key = 0 /\ r.at = "asks" /\ ~r.may
    BY Started
  <2>3. proc' = [proc EXCEPT ![Server] = r]
    BY <1>12 DEF ServerStarts, FirstStep
  <2> HIDE DEF r
  <2> QED
    BY <1>0, <1>9, <2>2, <2>3
<1>13. CASE ServerCounts \/ Listens
  BY <1>0, <1>2, <1>13 DEF ServerCounts, Listens
<1>14. ASSUME NEW p \in Processes, Says(p) \/ LoadFails(p) \/ Stops(p) PROVE Moved(p)
  BY <1>1, <1>2, <1>14 DEF Says, LoadFails, Stops
<1>15. ASSUME NEW p \in Operators, CommandEnds(p) PROVE Moved(p)
  BY <1>0, <1>1, <1>15 DEF CommandEnds
<1> QED
  BY <1>0, <1>3, <1>4, <1>5, <1>6, <1>7, <1>8, <1>10, <1>11, <1>12, <1>13, <1>14, <1>15,
     Changes DEF Load

\* Every process stays in order.
LEMMA ProcessesStep ==
  ASSUME FoundingInv, [Next]_vars
  PROVE  \A p \in Processes : ProcOK(p)'
<1> SUFFICES ASSUME NEW p \in Processes PROVE ProcOK(p)'
  OBVIOUS
<1>1. CASE proc'[p] = proc[p]
  BY <1>1, ProcKept
<1>2. CASE proc'[p] # proc[p]
  <2>0. proc \in [Processes -> Process]
    BY TypeParts DEF FoundingInv, ProcTyped
  <2>1. PICK q \in Processes : \E r : Fits(r) /\ proc' = [proc EXCEPT ![q] = r]
    BY <1>2, ProcMoves DEF Moved
  <2>2. Fits(proc'[p])
    BY <1>2, <2>0, <2>1
  <2> QED
    BY <2>2 DEF Fits, ProcOK, Off
<1> QED
  BY <1>1, <1>2

\* The server is started by nobody but serve, and asks for an invite with a key.
LEMMA ServerStep ==
  ASSUME FoundingInv, [Next]_vars
  PROVE  ServerOK'
<1>0. /\ proc \in [Processes -> Process] /\ Server \in Processes /\ Server \notin Operators
      /\ ServerOK /\ Off.at = "off" /\ Off.kind = "none"
      /\ \A p \in Processes : proc[p].at = "keyed" => proc[p].key # 0
  BY TypeParts, Records DEF FoundingInv, ProcTyped
<1>1. CASE UNCHANGED proc
  BY <1>0, <1>1 DEF ServerOK
<1>2. ASSUME NEW p \in Processes, NEW r, proc' = [proc EXCEPT ![p] = r],
             p = Server => r.kind \in {"none", "serve"} /\ (r.at = "invites" => r.key # 0)
      PROVE  ServerOK'
  BY <1>0, <1>2 DEF ServerOK
<1>3. ASSUME NEW p \in Processes, Ends(p) PROVE ServerOK'
  BY <1>0, <1>2, <1>3 DEF Ends
<1>4. ASSUME NEW p \in Processes, NEW at, Goes(p, at), at = "invites" => proc[p].key # 0
      PROVE  ServerOK'
  <2> DEFINE r == [proc[p] EXCEPT !.at = at]
  <2>1. r.at = at /\ r.key = proc[p].key /\ r.kind = proc[p].kind
    BY <1>0 DEF Process
  <2>2. proc' = [proc EXCEPT ![p] = r]
    BY <1>4 DEF Goes
  <2> HIDE DEF r
  <2> QED
    BY <1>0, <1>2, <1>4, <2>1, <2>2 DEF ServerOK
<1>5. ASSUME NEW p \in Processes, Load(p) PROVE ServerOK'
  <2>1. CASE Asks(p)
    BY <1>0, <2>1 DEF Asks, ServerOK, Process
  <2>2. CASE LoadsKey(p)
    BY <1>0, <2>2 DEF LoadsKey, ServerOK, Process
  <2>3. CASE WritesKey(p)
    BY <1>0, <2>3 DEF WritesKey, ServerOK, Process
  <2>4. CASE LoadFails(p) \/ GeneratesKey(p) \/ CreatesFile(p)
    BY <1>1, <1>3, <1>4, <2>4 DEF LoadFails, GeneratesKey, CreatesFile
  <2> QED
    BY <1>5, <2>1, <2>2, <2>3, <2>4 DEF Load
<1>6. ASSUME NEW p \in Processes, MakesInvite(p) PROVE ServerOK'
  BY <1>0, <1>6 DEF MakesInvite, ServerOK, Process
<1>7. ASSUME NEW p \in Processes, Says(p) \/ Stops(p) PROVE ServerOK'
  BY <1>3, <1>4, <1>7 DEF Says, Stops
<1>8. ASSUME NEW p \in Operators, \/ NewKeyStarts(p) \/ CommandEnds(p)
                                  \/ \E command \in Commands : CommandStarts(p, command)
      PROVE  ServerOK'
  BY <1>0, <1>8 DEF NewKeyStarts, CommandEnds, CommandStarts, Ends, ServerOK
<1>9. CASE ServerStarts
  <2> DEFINE r == [Off EXCEPT !.kind = "serve", !.at = "asks"]
  <2>1. r.kind = "serve" /\ r.at = "asks"
    BY Started
  <2>2. proc' = [proc EXCEPT ![Server] = r]
    BY <1>9 DEF ServerStarts, FirstStep
  <2> HIDE DEF r
  <2> QED
    BY <1>0, <1>2, <2>1, <2>2
<1>10. CASE ServerCounts \/ Listens
  BY <1>0, <1>4, <1>10 DEF ServerCounts, Listens
<1> QED
  BY <1>1, <1>5, <1>6, <1>7, <1>8, <1>9, <1>10, Changes

\* One process at most writes the key: it made the file.
LEMMA WritersStep ==
  ASSUME FoundingInv, [Next]_vars
  PROVE  \A p, q \in Processes : proc'[p].at = "writes" /\ proc'[q].at = "writes" => p = q
<1>0. /\ proc \in [Processes -> Process] /\ KeysOK /\ Server \in Processes
      /\ Operators \subseteq Processes /\ Off.at = "off" /\ ServerOK
      /\ \A p \in Processes : ProcOK(p)
  BY TypeParts, Records DEF FoundingInv, ProcTyped
<1>1. ASSUME NEW p \in Processes, proc'[p].at = "writes", proc[p].at # "writes"
      PROVE  CreatesFile(p) /\ ~key.there
  <2>1. ASSUME NEW q \in Processes, Load(q) PROVE q = p /\ CreatesFile(p) /\ ~key.there
    <3>1. CASE Asks(q)
      BY <1>0, <1>1, <3>1 DEF Asks, Process
    <3>2. CASE LoadsKey(q)
      BY <1>0, <1>1, <3>2 DEF LoadsKey, Process
    <3>3. CASE WritesKey(q)
      BY <1>0, <1>1, <3>3 DEF WritesKey, Process
    <3>4. CASE LoadFails(q) \/ GeneratesKey(q)
      BY <1>0, <1>1, <3>4 DEF LoadFails, GeneratesKey, Ends, Goes, Process
    <3>5. CASE CreatesFile(q)
      BY <1>0, <1>1, <3>5 DEF CreatesFile, CreateNew, Ends, Goes, Process
    <3> QED
      BY <2>1, <3>1, <3>2, <3>3, <3>4, <3>5 DEF Load
  <2>2. ASSUME NEW q \in Processes, MakesInvite(q) PROVE FALSE
    BY <1>0, <1>1, <2>2 DEF MakesInvite, Process
  <2>3. ASSUME NEW q \in Processes, Says(q) \/ Stops(q) PROVE FALSE
    BY <1>0, <1>1, <2>3 DEF Says, Stops, Ends, Goes, Process
  <2>4. ASSUME NEW q \in Operators, NEW command \in Commands, CommandStarts(q, command)
        PROVE  FALSE
    <3>1. PICK at \in {"invites", "asks"} : at = FirstStep[command]
      BY <2>4, FoundingAssumption DEF CommandStarts, FirstStep
    <3> DEFINE r == [Off EXCEPT !.kind = command, !.at = at]
    <3>2. r.at = at
      BY Records DEF Process
    <3>3. proc' = [proc EXCEPT ![q] = r]
      BY <2>4, <3>1 DEF CommandStarts
    <3> HIDE DEF r
    <3> QED
      BY <1>0, <1>1, <3>1, <3>2, <3>3
  <2>5. ASSUME NEW q \in Operators, NewKeyStarts(q) PROVE FALSE
    <3> DEFINE r == [Off EXCEPT !.kind = "new-key", !.at = "loads", !.may = TRUE]
    <3>2. r.at = "loads"
      BY Records DEF Process
    <3>3. proc' = [proc EXCEPT ![q] = r]
      BY <2>5 DEF NewKeyStarts
    <3> HIDE DEF r
    <3> QED
      BY <1>0, <1>1, <3>2, <3>3
  <2>6. ASSUME NEW q \in Operators, CommandEnds(q) PROVE FALSE
    BY <1>0, <1>1, <2>6 DEF CommandEnds, Ends
  <2>7. CASE ServerStarts
    <3> DEFINE r == [Off EXCEPT !.kind = "serve", !.at = "asks"]
    <3>2. r.at = "asks"
      BY Records DEF Process
    <3>3. proc' = [proc EXCEPT ![Server] = r]
      BY <2>7 DEF ServerStarts, FirstStep
    <3> HIDE DEF r
    <3> QED
      BY <1>0, <1>1, <3>2, <3>3
  <2>8. CASE ServerCounts \/ Listens
    BY <1>0, <1>1, <2>8 DEF ServerCounts, Listens, Goes, Process
  <2>9. CASE UNCHANGED proc
    BY <1>1, <2>9
  <2> QED
    BY <2>1, <2>2, <2>3, <2>4, <2>5, <2>6, <2>7, <2>8, <2>9, Changes
<1>2. SUFFICES ASSUME NEW p \in Processes, NEW q \in Processes, p # q,
                      proc'[p].at = "writes", proc'[q].at = "writes"
               PROVE  FALSE
  OBVIOUS
<1>3. ASSUME NEW a \in Processes, NEW b \in Processes, a # b,
             proc'[a].at = "writes", proc'[b].at = "writes", CreatesFile(a), ~key.there
      PROVE  FALSE
  <2>1. proc[b].at # "writes"
    BY <1>0, <1>3 DEF ProcOK
  <2>2. proc'[b] = proc[b]
    BY <1>0, <1>3 DEF CreatesFile, CreateNew, Goes
  <2> QED
    BY <1>3, <2>1, <2>2
<1> QED
  BY <1>0, <1>1, <1>2, <1>3 DEF KeysOK

\* Only a process that writes the key makes a new one; whoever makes an invite
\* makes no key.
LEMMA KeysMade ==
  ASSUME MintedTyped, [Next]_vars
  PROVE  minted'.keys = minted.keys \/ \E p \in Processes : WritesKey(p)
<1>1. ASSUME NEW p \in Processes, MakesInvite(p) PROVE minted'.keys = minted.keys
  BY <1>1 DEF MakesInvite, MintedTyped
<1> QED
  BY <1>1, Changes

\* What a process finds where it writes the key, and what it leaves.
LEMMA Writing ==
  ASSUME FoundingInv, NEW p \in Processes, WritesKey(p)
  PROVE  /\ key.there /\ key.id = 0 /\ (proc[p].kind = "new-key" \/ Made = {})
         /\ ~Up /\ minted'.keys = minted.keys + 1 /\ key'.id = minted'.keys /\ key'.there
         /\ \A q \in Processes : proc[q].key = 0
<1>1. MintedTyped /\ ProcTyped /\ Server \in Processes /\ \A q \in Processes : ProcOK(q)
  BY TypeParts, Records DEF FoundingInv
<1>2. /\ key.there /\ key.id = 0 /\ (proc[p].kind = "new-key" \/ Made = {})
      /\ \A q \in Processes : proc[q].key = 0
  BY <1>1 DEF WritesKey, ProcOK
<1>3. ~Up
  BY <1>1, <1>2, UpIsWhole DEF Up
<1>4. minted'.keys = minted.keys + 1 /\ key'.id = minted'.keys /\ key'.there
  BY <1>1 DEF WritesKey, MintedTyped
<1> QED
  BY <1>2, <1>3, <1>4

\* Accounts keep the newest key pinned until new-key makes another.
LEMMA PinsStep ==
  ASSUME FoundingInv, [Next]_vars
  PROVE  \A a \in Made' : accounts'[a].pin = minted'.keys \/ accounts'[a].renewed
<1>0. /\ AccountsTyped /\ KeysOK /\ JoiningOK /\ ProcTyped /\ MintedTyped
      /\ Server \in Processes /\ \A p \in Processes : ProcOK(p)
  BY TypeParts, Records DEF FoundingInv
<1>1. CASE UNCHANGED accounts /\ minted'.keys = minted.keys
  BY <1>0, <1>1 DEF KeysOK, Made
<1>2. ASSUME NEW p \in Processes, WritesKey(p)
      PROVE  \A a \in Made' : accounts'[a].pin = minted'.keys \/ accounts'[a].renewed
  <2>1. Made' = Made
    BY <1>0, <1>2 DEF WritesKey, Made, AccountsTyped, AccountRow
  <2>2. CASE Made = {}
    BY <2>1, <2>2
  <2>3. CASE proc[p].kind = "new-key"
    <3>1. ASSUME NEW a \in Made PROVE accounts'[a].renewed
      BY <1>0, <1>2, <2>3, <3>1 DEF WritesKey, Made, AccountsTyped, AccountRow
    <3> QED
      BY <2>1, <3>1
  <2> QED
    BY <1>2, <2>2, <2>3, Writing
<1>3. CASE AccountCreated
  <2>1. proc[Server].key = minted.keys /\ UNCHANGED minted
    BY <1>0, <1>3, UpIsWhole DEF AccountCreated, JoiningOK, Up, KeysOK
  <2>2. /\ Cardinality(Made) + 1 \in Accounts
        /\ accounts' = [accounts EXCEPT ![Cardinality(Made) + 1] =
             [at |-> "created", via |-> joining.invite, pin |-> proc[Server].key,
              renewed |-> FALSE]]
    BY <1>3 DEF AccountCreated
  <2>3. SUFFICES ASSUME NEW a \in Made'
                 PROVE  accounts'[a].pin = minted'.keys \/ accounts'[a].renewed
    OBVIOUS
  <2>4. CASE a = Cardinality(Made) + 1
    BY <1>0, <2>1, <2>2, <2>4 DEF AccountsTyped
  <2>5. CASE a # Cardinality(Made) + 1
    <3>1. a \in Accounts /\ accounts'[a] = accounts[a] /\ a \in Made
      BY <1>0, <2>2, <2>5 DEF AccountsTyped, Made
    <3> QED
      BY <1>0, <2>1, <3>1 DEF KeysOK
  <2> QED
    BY <2>4, <2>5
<1>4. CASE DeviceAdded
  <2>1. joining.account \in Accounts /\ UNCHANGED minted
    BY <1>0, <1>4 DEF DeviceAdded, JoiningOK, Made
  <2>2. /\ Made' = Made
        /\ \A a \in Accounts : /\ accounts'[a].pin = accounts[a].pin
                               /\ accounts'[a].renewed = accounts[a].renewed
    BY <1>0, <1>4, <2>1 DEF DeviceAdded, Made, AccountsTyped, AccountRow, JoiningOK
  <2> QED
    BY <1>0, <2>1, <2>2 DEF KeysOK, Made
<1> QED
  BY <1>0, <1>1, <1>2, <1>3, <1>4, Changes, KeysMade

\* Every code that was shown names the key there is, or one that was lost.
LEMMA CodesStep ==
  ASSUME FoundingInv, [Next]_vars
  PROVE  \A i \in Invites : invites'[i].code \in {0, key'.id} \cup lost'
<1>0. /\ InvitesTyped /\ KeysOK /\ ProcTyped /\ KeyTyped /\ NoKey.id = 0
      /\ Server \in Processes /\ \A p \in Processes : ProcOK(p)
  BY TypeParts, Records DEF FoundingInv
<1>1. key'.id = key.id \/ key.id = 0 \/ (key.id \in lost' /\ key'.id = 0)
  <2>1. CASE KeyLost
    BY <1>0, <2>1 DEF KeyLost
  <2>2. CASE KeyPutBack
    BY <1>0, <2>2 DEF KeyPutBack, KeyTyped
  <2>3. ASSUME NEW p \in Processes, CreatesFile(p) PROVE key'.id = key.id \/ key.id = 0
    BY <1>0, <2>3 DEF CreatesFile, CreateNew, KeyTyped
  <2>4. ASSUME NEW p \in Processes, WritesKey(p) PROVE key.id = 0
    BY <2>4, Writing
  <2> QED
    BY <2>1, <2>2, <2>3, <2>4, Changes
<1>2. lost \subseteq lost'
  BY Changes DEF KeyLost
<1>3. ASSUME NEW i \in Invites PROVE invites'[i].code = invites[i].code
                                     \/ (invites'[i].code \in {0, key.id} /\ UNCHANGED key)
  <2>1. ASSUME NEW p \in Processes, MakesInvite(p) PROVE invites'[i].code = invites[i].code
    BY <1>0, <2>1 DEF MakesInvite, InvitesTyped, InviteRow
  <2>2. ASSUME NEW p \in Processes, Says(p)
        PROVE  \/ invites'[i].code = invites[i].code
               \/ invites'[i].code \in {0, key.id} /\ UNCHANGED key
    <3>1. proc[p].key \in {0, key.id} /\ UNCHANGED key
      BY <1>0, <2>2 DEF Says, ProcOK
    <3>2. /\ invites' = [invites EXCEPT ![proc[p].invite].code = proc[p].key]
          /\ invites[i] \in InviteRow
      BY <1>0, <2>2 DEF Says, InvitesTyped
    <3>3. CASE i = proc[p].invite
      BY <1>0, <3>1, <3>2, <3>3 DEF InvitesTyped, InviteRow
    <3>4. CASE i # proc[p].invite
      BY <1>0, <3>2, <3>4 DEF InvitesTyped
    <3> QED
      BY <3>3, <3>4
  <2>3. ASSUME NEW j \in Invites, Redeems(j) \/ InviteLapses(j) \/ InvitePurged(j)
        PROVE  invites'[i].code = invites[i].code
    BY <1>0, <2>3 DEF Redeems, Redeem, InviteLapses, InvitePurged, InvitesTyped, InviteRow
  <2> QED
    BY <2>1, <2>2, <2>3, Changes
<1> QED
  BY <1>0, <1>1, <1>2, <1>3 DEF KeysOK

\* The key there is stays the newest one made.
LEMMA KeysStep ==
  ASSUME FoundingInv, [Next]_vars
  PROVE  KeysOK'
<1>0. KeysOK /\ KeyTyped /\ MintedTyped /\ NoKey.id = 0
  BY TypeParts, Records DEF FoundingInv
<1>1. key'.id # 0 => key'.id = minted'.keys
  <2>1. CASE KeyLost
    BY <1>0, <2>1 DEF KeyLost
  <2>2. CASE KeyPutBack
    BY <1>0, <2>2 DEF KeyPutBack
  <2>3. ASSUME NEW p \in Processes, CreatesFile(p) PROVE key'.id # 0 => key'.id = minted'.keys
    BY <1>0, <2>3 DEF CreatesFile, KeysOK
  <2>4. ASSUME NEW p \in Processes, WritesKey(p) PROVE key'.id = minted'.keys
    BY <2>4, Writing
  <2>5. CASE UNCHANGED key /\ minted'.keys = minted.keys
    BY <1>0, <2>5 DEF KeysOK
  <2> QED
    BY <1>0, <2>1, <2>2, <2>3, <2>4, <2>5, Changes, KeysMade
<1> QED
  BY <1>1, WritersStep, PinsStep, CodesStep DEF KeysOK

----------------------------------------------------------------------------
(* Registrations.                                                          *)

\* What moves the server: its own steps.
LEMMA ServerMoves ==
  ASSUME ProcTyped, [Next]_vars
  PROVE  \/ proc'[Server] = proc[Server]
         \/ ServerStarts \/ Load(Server) \/ ServerCounts \/ MakesInvite(Server)
         \/ Says(Server) \/ Listens \/ Stops(Server)
<1>0. proc \in [Processes -> Process] /\ Server \in Processes /\ Server \notin Operators
  BY Records DEF ProcTyped
<1>1. ASSUME NEW p \in Processes, p # Server, Load(p)
      PROVE  proc'[Server] = proc[Server]
  BY <1>0, <1>1 DEF Load, Asks, LoadsKey, LoadFails, GeneratesKey, CreatesFile, WritesKey, Ends, Goes
<1>2. ASSUME NEW p \in Processes, p # Server, MakesInvite(p) \/ Says(p) \/ Stops(p)
      PROVE  proc'[Server] = proc[Server]
  BY <1>0, <1>2 DEF MakesInvite, Says, Stops, Ends, Goes
<1>3. ASSUME NEW p \in Operators, \/ NewKeyStarts(p) \/ CommandEnds(p)
                                  \/ \E command \in Commands : CommandStarts(p, command)
      PROVE  proc'[Server] = proc[Server]
  BY <1>0, <1>3 DEF NewKeyStarts, CommandEnds, CommandStarts, Ends
<1> QED
  BY <1>1, <1>2, <1>3, Changes

\* A server that answers goes on doing so until it stops.
LEMMA UpStays ==
  ASSUME ProcTyped, [Next]_vars, Up
  PROVE  proc'[Server] = proc[Server] \/ Stops(Server)
<1>1. ~ServerStarts /\ ~ServerCounts /\ ~Listens /\ ~MakesInvite(Server)
  BY DEF Up, ServerStarts, ServerCounts, Listens, MakesInvite
<1>2. ~Says(Server) /\ ~Load(Server)
  BY DEF Up, Says, Load, Asks, LoadsKey, LoadFails, GeneratesKey, CreatesFile, WritesKey
<1> QED
  BY <1>1, <1>2, ServerMoves

\* Accounts stay numbered from one.
LEMMA MadeStep ==
  ASSUME FoundingInv, [Next]_vars
  PROVE  MadeInOrder'
<1>0. AccountsTyped /\ JoiningOK /\ MadeInOrder /\ MaxAccounts \in Nat
  BY TypeParts, Records DEF FoundingInv
<1>1. CASE Made' = Made
  BY <1>0, <1>1 DEF MadeInOrder
<1>2. CASE AccountCreated /\ Made' = Made \cup {Cardinality(Made) + 1}
  <2> DEFINE n == Cardinality(Made)
  <2>1. n \in Nat /\ n + 1 <= MaxAccounts /\ Made = 1..n
    BY <1>0, <1>2 DEF AccountCreated, Accounts, MadeInOrder
  <2> HIDE DEF n
  <2>2. 1..n \cup {n + 1} = 1..(n + 1)
    BY <2>1
  <2>3. Made' = 1..(n + 1)
    BY <1>2, <2>1, <2>2 DEF n
  <2>4. Cardinality(1..(n + 1)) = n + 1
    BY <2>1, FS_Interval
  <2> QED
    BY <1>0, <2>1, <2>3, <2>4 DEF MadeInOrder
<1> QED
  BY <1>0, <1>1, <1>2, MadeMoves

\* What becomes of an invite: it is made once, and then spent, or runs out.
LEMMA InviteMoves ==
  ASSUME InvitesTyped, MintedTyped, [Next]_vars, NEW i \in Invites
  PROVE  \/ invites'[i].at = invites[i].at
         \/ /\ i = minted.invites + 1 /\ minted'.invites = i /\ invites'[i].at = "open"
            /\ \E p \in Processes : MakesInvite(p)
         \/ invites[i].at = "open" /\ invites'[i].at = "used" /\ Redeems(i)
         \/ invites[i].at = "open" /\ invites'[i].at = "lapsed" /\ InviteLapses(i)
         \/ invites[i].at \in {"used", "lapsed"} /\ invites'[i].at = "gone" /\ InvitePurged(i)
<1>0. invites[i] \in InviteRow /\ invites \in [Invites -> InviteRow]
  BY DEF InvitesTyped
<1>1. ASSUME NEW p \in Processes, MakesInvite(p)
      PROVE  \/ invites'[i].at = invites[i].at
             \/ i = minted.invites + 1 /\ minted'.invites = i /\ invites'[i].at = "open"
  BY <1>0, <1>1 DEF MakesInvite, InviteRow, MintedTyped
<1>2. ASSUME NEW p \in Processes, Says(p) PROVE invites'[i].at = invites[i].at
  <2>1. invites' = [invites EXCEPT ![proc[p].invite].code = proc[p].key]
    BY <1>2 DEF Says
  <2>2. CASE i = proc[p].invite
    BY <1>0, <2>1, <2>2 DEF InviteRow
  <2>3. CASE i # proc[p].invite
    BY <1>0, <2>1, <2>3
  <2> QED
    BY <2>2, <2>3
<1>3. ASSUME NEW j \in Invites, Redeems(j)
      PROVE  \/ invites'[i].at = invites[i].at
             \/ invites[i].at = "open" /\ invites'[i].at = "used" /\ i = j
  BY <1>0, <1>3 DEF Redeems, Redeem, InviteRow
<1>4. ASSUME NEW j \in Invites, InviteLapses(j)
      PROVE  \/ invites'[i].at = invites[i].at
             \/ invites[i].at = "open" /\ invites'[i].at = "lapsed" /\ i = j
  BY <1>0, <1>4 DEF InviteLapses, InviteRow
<1>5. ASSUME NEW j \in Invites, InvitePurged(j)
      PROVE  \/ invites'[i].at = invites[i].at
             \/ invites[i].at \in {"used", "lapsed"} /\ invites'[i].at = "gone" /\ i = j
  BY <1>0, <1>5 DEF InvitePurged, InviteRow
<1> QED
  BY <1>1, <1>2, <1>3, <1>4, <1>5, Changes

\* What becomes of the accounts: none is lost or has its invite changed, a new
\* one has the invite of the registration, and adding a device touches that one.
LEMMA AccountsMove ==
  ASSUME FoundingInv, [Next]_vars
  PROVE  /\ \A a \in Made : accounts'[a].via = accounts[a].via
         /\ \A a \in Made : ~DeviceAdded \/ a # joining.account
                              => accounts'[a].at = accounts[a].at
         /\ DeviceAdded => Made' = Made /\ accounts'[joining.account].at = "founded"
         /\ \/ Made' = Made
            \/ LET new == Cardinality(Made) + 1
               IN  /\ AccountCreated /\ new \in Accounts \ Made /\ Made' = Made \cup {new}
                   /\ accounts'[new].via = joining.invite /\ accounts'[new].at = "created"
<1>0. AccountsTyped /\ JoiningOK /\ MadeInOrder
  BY TypeParts DEF FoundingInv
<1>1. CASE UNCHANGED accounts /\ ~DeviceAdded
  BY <1>1 DEF Made
<1>2. ASSUME NEW p \in Processes, WritesKey(p)
      PROVE  /\ Made' = Made /\ ~DeviceAdded
             /\ \A a \in Made : accounts'[a].via = accounts[a].via /\ accounts'[a].at = accounts[a].at
  <2>2. ~DeviceAdded
    <3>1. ~Up
      BY <1>2, Writing
    <3> QED
      BY <1>0, <3>1 DEF DeviceAdded, JoiningOK
  <2> QED
    BY <1>0, <1>2, <2>2 DEF WritesKey, Made, AccountsTyped, AccountRow
<1>3. CASE DeviceAdded
  <2>1. /\ joining.account \in Made
        /\ accounts' = [accounts EXCEPT ![joining.account].at = "founded"]
    BY <1>0, <1>3 DEF DeviceAdded, JoiningOK
  <2> QED
    BY <1>0, <1>3, <2>1 DEF Made, AccountsTyped, AccountRow
<1>4. CASE AccountCreated
  <2> DEFINE new == Cardinality(Made) + 1
  <2>1. /\ new \in Accounts
        /\ accounts' = [accounts EXCEPT ![new] =
             [at |-> "created", via |-> joining.invite, pin |-> proc[Server].key,
              renewed |-> FALSE]]
    BY <1>4 DEF AccountCreated
  <2>2. new \notin Made /\ ~DeviceAdded
    BY <1>0, <1>4 DEF MadeInOrder, AccountCreated, DeviceAdded
  <2> HIDE DEF new
  <2>3. Made' = Made \cup {new}
    BY <1>0, <2>1 DEF Made, AccountsTyped
  <2>4. \A a \in Made : accounts'[a] = accounts[a]
    BY <1>0, <2>1, <2>2 DEF Made, AccountsTyped
  <2>5. accounts'[new].via = joining.invite /\ accounts'[new].at = "created"
    BY <1>0, <2>1 DEF AccountsTyped
  <2> QED
    BY <1>4, <2>1, <2>2, <2>3, <2>4, <2>5 DEF new
<1> QED
  BY <1>1, <1>2, <1>3, <1>4, Changes

\* A registration stays the server's, with the invite it redeemed and the
\* account it made.
LEMMA JoiningKept ==
  ASSUME FoundingInv, [Next]_vars
  PROVE  JoiningOK'
<1>0. /\ JoiningOK /\ InvitesOK /\ MadeInOrder /\ JoiningTyped /\ InvitesTyped /\ ProcTyped
      /\ MintedTyped
  BY TypeParts DEF FoundingInv
<1>1. CASE joining' = NotJoining
  BY <1>1 DEF JoiningOK, NotJoining
<1>2. ASSUME Up, ~Stops(Server) PROVE Up' /\ UNCHANGED config
  <2>1. Up'
    BY <1>0, <1>2, UpStays DEF Up
  <2> QED
    BY <1>2, <2>1, Changes DEF ServerStarts, Up
<1>3. ASSUME NEW i \in Invites, Redeems(i) PROVE JoiningOK'
  <2>1. /\ joining'.at = "redeemed" /\ joining'.account = 0 /\ joining'.invite = i
        /\ UNCHANGED <<proc, accounts, config>> /\ Up /\ ~Full
        /\ invites' = [invites EXCEPT ![i].at = "used"] /\ invites[i].at = "open"
    BY <1>3 DEF Redeems, Redeem, NotJoining
  <2>2. invites'[i].at = "used"
    BY <1>0, <2>1 DEF InvitesTyped, InviteRow
  <2>3. \A a \in Made : accounts[a].via # i
    <3>1. i # 0
      BY DEF Invites
    <3> QED
      BY <1>0, <2>1, <3>1 DEF InvitesOK
  <2>4. Up' /\ Made' = Made
    BY <2>1 DEF Up, Made
  <2>5. Cardinality(Made) < config.max_accounts
    <3>1. Cardinality(Made) \in Nat /\ config \in Configurations
      BY <1>0, Records, TypeParts DEF MadeInOrder, FoundingInv, ConfigTyped
    <3>2. config.max_accounts \in Nat
      BY <3>1, FoundingAssumption
    <3> QED
      BY <2>1, <3>1, <3>2 DEF Full
  <2> QED
    BY <2>1, <2>2, <2>3, <2>4, <2>5 DEF JoiningOK
<1>4. CASE Registers
  <2>1. /\ joining'.at = "redeemed" /\ joining'.account = 0 /\ joining'.invite = 0
        /\ UNCHANGED <<proc, accounts, config>> /\ Up /\ ~Full
    BY <1>4 DEF Registers, NotJoining
  <2>2. Cardinality(Made) < config.max_accounts
    <3>1. Cardinality(Made) \in Nat /\ config \in Configurations
      BY <1>0, Records, TypeParts DEF MadeInOrder, FoundingInv, ConfigTyped
    <3>2. config.max_accounts \in Nat
      BY <3>1, FoundingAssumption
    <3> QED
      BY <2>1, <3>1, <3>2 DEF Full
  <2>3. Up' /\ Made' = Made
    BY <2>1 DEF Up, Made
  <2> QED
    BY <2>1, <2>2, <2>3 DEF JoiningOK
<1>5. CASE AccountCreated
  <2>1. /\ joining'.at = "created" /\ joining'.account = Cardinality(Made) + 1
        /\ UNCHANGED proc /\ Up
    BY <1>0, <1>5 DEF AccountCreated, JoiningTyped, Joining, JoiningOK
  <2>2. ~DeviceAdded /\ Made' # Made
    <3>1. Cardinality(Made) + 1 \notin Made
      BY <1>0 DEF MadeInOrder
    <3>2. Cardinality(Made) + 1 \in Made'
      BY <1>5, TypeParts DEF AccountCreated, FoundingInv, AccountsTyped, Made
    <3> QED
      BY <1>5, <3>1, <3>2 DEF AccountCreated, DeviceAdded
  <2>3. joining'.account \in Made' /\ accounts'[joining'.account].at = "created"
    BY <2>1, <2>2, AccountsMove
  <2> QED
    BY <2>1, <2>3 DEF JoiningOK, Up
<1>6. CASE UNCHANGED joining /\ joining.at # "idle" /\ ~Stops(Server)
  <2>1. Up /\ Up' /\ UNCHANGED config
    BY <1>0, <1>2, <1>6 DEF JoiningOK
  <2>2. ~AccountCreated /\ ~DeviceAdded /\ Made' = Made
    <3>1. ~AccountCreated
      BY <1>0, <1>6 DEF AccountCreated, JoiningTyped, Joining
    <3>2. ~DeviceAdded
      BY <1>6, Records DEF DeviceAdded, NotJoining
    <3> QED
      BY <3>1, <3>2, AccountsMove
  <2>3. \A a \in Made : accounts'[a].via = accounts[a].via /\ accounts'[a].at = accounts[a].at
    BY <2>2, AccountsMove
  <2>4. CASE joining.at = "redeemed"
    <3>1. /\ joining.account = 0 /\ Cardinality(Made) < config.max_accounts
      BY <1>0, <2>4 DEF JoiningOK
    <3>2. ASSUME joining.invite # 0
          PROVE  /\ invites'[joining.invite].at = "used"
                 /\ \A a \in Made : accounts[a].via # joining.invite
      <4>1. /\ joining.invite \in Invites
            /\ invites[joining.invite].at = "used"
            /\ \A a \in Made : accounts[a].via # joining.invite
        BY <1>0, <2>4, <3>2, Records DEF JoiningOK, JoiningTyped, Joining, Invites, InviteNumbers
      <4>2. ~InvitePurged(joining.invite)
        BY <1>6 DEF InvitePurged
      <4>3. joining.invite # minted.invites + 1
        <5>1. minted.invites + 1 > minted.invites
          BY <1>0, Records DEF MintedTyped
        <5> QED
          BY <1>0, <4>1, <5>1 DEF InvitesOK
      <4> QED
        BY <1>0, <4>1, <4>2, <4>3, InviteMoves
    <3> QED
      BY <1>6, <2>1, <2>2, <2>3, <2>4, <3>1, <3>2 DEF JoiningOK
  <2>5. CASE joining.at = "created"
    BY <1>0, <1>6, <2>1, <2>2, <2>3, <2>5 DEF JoiningOK
  <2> QED
    BY <1>0, <1>6, <2>4, <2>5 DEF JoiningTyped, Joining
<1>7. CASE UNCHANGED joining /\ joining.at = "idle"
  BY <1>0, <1>1, <1>7 DEF JoiningOK
<1> QED
  BY <1>1, <1>3, <1>4, <1>5, <1>6, <1>7, Changes
  DEF DeviceAdded, Stops, RegistrationFails, CutShort

\* An invite that made an account stays spent, and makes no other.
LEMMA SpentStep ==
  ASSUME FoundingInv, [Next]_vars
  PROVE  /\ \A i \in Invites : i > minted'.invites => invites'[i].at = "none"
         /\ \A a \in Made' :
              accounts'[a].via # 0 => invites'[accounts'[a].via].at \in {"used", "gone"}
         /\ \A a, b \in Made' :
              a # b /\ accounts'[a].via # 0 => accounts'[a].via # accounts'[b].via
<1>0. /\ InvitesOK /\ JoiningOK /\ JoiningTyped /\ InvitesTyped /\ MintedTyped /\ MintedTyped'
      /\ AccountsTyped /\ MaxInvites \in Nat
  BY TypeParts, MintedStep, Records DEF FoundingInv
<1>1. \A i \in Invites : i > minted'.invites => invites'[i].at = "none"
  <2>1. minted.invites \in Nat /\ minted'.invites \in Nat /\ minted.invites <= minted'.invites
    <3>1. \A p \in Processes : WritesKey(p) => minted'.invites = minted.invites
      BY <1>0 DEF WritesKey, MintedTyped
    <3>2. \A p \in Processes : MakesInvite(p) => minted'.invites = minted.invites + 1
      BY <1>0 DEF MakesInvite, MintedTyped
    <3> QED
      BY <1>0, <3>1, <3>2, Changes DEF MintedTyped
  <2>2. SUFFICES ASSUME NEW i \in Invites, i > minted'.invites PROVE invites'[i].at = "none"
    OBVIOUS
  <2>3. i > minted.invites /\ invites[i].at = "none" /\ minted'.invites # i
    BY <1>0, <2>1, <2>2 DEF InvitesOK, Invites
  <2> QED
    BY <1>0, <2>3, InviteMoves
<1>2. ASSUME NEW i \in Invites, invites[i].at \in {"used", "gone"}
      PROVE  invites'[i].at \in {"used", "gone"}
  <2>1. i # minted.invites + 1
    BY <1>0, <1>2 DEF InvitesOK, MintedTyped
  <2> QED
    BY <1>0, <1>2, <2>1, InviteMoves
<1>3. \A a \in Made : accounts[a].via # 0 => accounts[a].via \in Invites
  BY <1>0 DEF Made, AccountsTyped, AccountRow, Invites
<1>4. CASE Made' = Made
  <2>1. \A a \in Made : accounts'[a].via = accounts[a].via
    BY AccountsMove
  <2> QED
    BY <1>0, <1>1, <1>2, <1>3, <1>4, <2>1 DEF InvitesOK
<1>5. CASE Made' # Made
  <2> DEFINE new == Cardinality(Made) + 1
  <2>1. /\ AccountCreated /\ new \in Accounts \ Made /\ Made' = Made \cup {new}
        /\ accounts'[new].via = joining.invite
        /\ \A a \in Made : accounts'[a].via = accounts[a].via
    BY <1>5, AccountsMove
  <2> HIDE DEF new
  <2>2. /\ UNCHANGED invites
        /\ joining.invite # 0 => /\ invites[joining.invite].at = "used"
                                 /\ \A a \in Made : accounts[a].via # joining.invite
    BY <1>0, <2>1 DEF AccountCreated, JoiningOK
  <2> QED
    BY <1>0, <1>1, <2>1, <2>2 DEF InvitesOK
<1> QED
  BY <1>4, <1>5

\* Finite sets that were added to, taken from, or neither.
LEMMA Counting ==
  ASSUME NEW S, NEW T, IsFiniteSet(S)
  PROVE  /\ Cardinality(S) \in Nat
         /\ T \subseteq S => Cardinality(T) \in Nat /\ Cardinality(T) <= Cardinality(S)
         /\ \A x : T \subseteq S \cup {x}
                     => Cardinality(T) \in Nat /\ Cardinality(T) <= Cardinality(S) + 1
         /\ \A x \in S : T \subseteq S \ {x}
                     => Cardinality(T) \in Nat /\ Cardinality(T) <= Cardinality(S) - 1
<1>1. Cardinality(S) \in Nat
  BY FS_CardinalityType
<1>2. ASSUME NEW R, IsFiniteSet(R), T \subseteq R
      PROVE  Cardinality(T) \in Nat /\ Cardinality(T) <= Cardinality(R)
  BY <1>2, FS_Subset, FS_CardinalityType
<1>3. ASSUME NEW x, T \subseteq S \cup {x}
      PROVE  Cardinality(T) \in Nat /\ Cardinality(T) <= Cardinality(S) + 1
  <2>1. IsFiniteSet(S \cup {x}) /\ Cardinality(S \cup {x}) \in {Cardinality(S), Cardinality(S) + 1}
    BY FS_AddElement
  <2> QED
    BY <1>1, <1>2, <1>3, <2>1
<1>4. ASSUME NEW x \in S, T \subseteq S \ {x}
      PROVE  Cardinality(T) \in Nat /\ Cardinality(T) <= Cardinality(S) - 1
  <2>1. IsFiniteSet(S \ {x}) /\ Cardinality(S \ {x}) = Cardinality(S) - 1
    BY FS_RemoveElement
  <2> QED
    BY <1>2, <1>4, <2>1
<1> QED
  BY <1>1, <1>2, <1>3, <1>4

\* An account without a device, or a spent invite without an account, is what a
\* crash, a failed statement or the registration going on is behind.
LEMMA WasteStep ==
  ASSUME FoundingInv, [Next]_vars
  PROVE  Cardinality(Wasted') + Cardinality(Deviceless') <= cut' + Pending'
<1>0. /\ InvitesOK /\ JoiningOK /\ JoiningTyped /\ InvitesTyped /\ MintedTyped /\ AccountsTyped
      /\ cut \in Nat /\ MaxInvites \in Nat /\ MaxAccounts \in Nat
  BY TypeParts, Records DEF FoundingInv, HistoryTyped
<1>1. IsFiniteSet(Wasted) /\ IsFiniteSet(Deviceless)
  <2>1. IsFiniteSet(Invites) /\ IsFiniteSet(Accounts)
    BY <1>0, FS_Interval DEF Invites, Accounts
  <2> QED
    BY <2>1, FS_Subset DEF Wasted, Deviceless, Made
<1>2. /\ Cardinality(Wasted) \in Nat /\ Cardinality(Deviceless) \in Nat
      /\ Cardinality(Wasted) + Cardinality(Deviceless) <= cut + Pending
      /\ Pending \in {0, 1} /\ Pending' \in {0, 1} /\ Pending \in Nat /\ Pending' \in Nat
  BY <1>0, <1>1, FS_CardinalityType DEF InvitesOK, Pending
\* No account is made: a wasted invite was wasted, or was redeemed just now.
<1>3. ASSUME Made' = Made, NEW i \in Wasted', i \notin Wasted PROVE Redeems(i)
  <2>1. i \in Invites /\ invites'[i].at = "used" /\ invites[i].at # "used"
    BY <1>3, AccountsMove DEF Wasted
  <2> QED
    BY <1>0, <2>1, InviteMoves
<1>4. ASSUME Made' = Made PROVE Deviceless' \subseteq Deviceless
  <2>1. SUFFICES ASSUME NEW a \in Deviceless', a \notin Deviceless PROVE FALSE
    OBVIOUS
  <2>2. a \in Made /\ accounts'[a].at = "created" /\ accounts[a].at # "created"
    BY <1>4, <2>1 DEF Deviceless
  <2> QED
    BY <2>2, AccountsMove
<1>5. ASSUME NEW i \in Invites, Redeems(i)
      PROVE  Cardinality(Wasted') + Cardinality(Deviceless') <= cut' + Pending'
  <2>1. /\ joining.at = "idle" /\ joining' = [NotJoining EXCEPT !.at = "redeemed", !.invite = i]
        /\ UNCHANGED <<cut, accounts>> /\ i # 0
    BY <1>5 DEF Redeems, history, Invites
  <2>2. Pending = 0 /\ Pending' = 1
    BY <1>0, <2>1 DEF Pending, JoiningOK, NotJoining
  <2>3. Made' = Made
    BY <2>1 DEF Made
  <2>4. Wasted' \subseteq Wasted \cup {i}
    <3>1. \A j \in Wasted' : j \in Wasted \/ j = i
      <4>1. SUFFICES ASSUME NEW j \in Wasted', j \notin Wasted, j # i PROVE FALSE
        OBVIOUS
      <4>2. invites[j].at # "used" /\ invites'[j].at = "used" /\ j \in Invites
        BY <2>3, <4>1, AccountsMove DEF Wasted
      <4>3. invites'[j] = invites[j]
        BY <1>0, <1>5, <4>1, <4>2 DEF Redeems, Redeem, InvitesTyped
      <4> QED
        BY <4>2, <4>3
    <3> QED
      BY <3>1
  <2>5. /\ Cardinality(Wasted') \in Nat /\ Cardinality(Wasted') <= Cardinality(Wasted) + 1
        /\ Cardinality(Deviceless') \in Nat /\ Cardinality(Deviceless') <= Cardinality(Deviceless)
    BY <1>1, <1>4, <2>3, <2>4, Counting
  <2> QED
    BY <1>0, <1>2, <2>1, <2>2, <2>5
<1>6. CASE DeviceAdded
  <2>1. /\ joining.at = "created" /\ joining' = NotJoining /\ UNCHANGED <<cut, invites>>
        /\ joining.account \in Deviceless /\ joining.account # 0
    BY <1>0, <1>6 DEF DeviceAdded, JoiningOK, Deviceless, history, Made, Accounts
  <2>2. Pending = 1 /\ Pending' = 0
    BY <2>1 DEF Pending, NotJoining
  <2>3. Made' = Made /\ joining.account \notin Deviceless'
    BY <1>6, AccountsMove DEF Deviceless
  <2>4. Wasted' \subseteq Wasted
    BY <2>1, <2>3, AccountsMove DEF Wasted
  <2>5. Deviceless' \subseteq Deviceless \ {joining.account}
    BY <1>4, <2>3
  <2>6. Cardinality(Wasted') \in Nat /\ Cardinality(Wasted') <= Cardinality(Wasted)
    BY <1>1, <2>4, Counting
  <2>7. Cardinality(Deviceless') \in Nat /\ Cardinality(Deviceless') <= Cardinality(Deviceless) - 1
    BY <1>1, <2>1, <2>5, Counting
  <2> QED
    BY <1>0, <1>2, <2>1, <2>2, <2>6, <2>7
<1>7. CASE Made' # Made
  <2> DEFINE new == Cardinality(Made) + 1
  <2>1. /\ AccountCreated /\ new \in Accounts \ Made /\ Made' = Made \cup {new}
        /\ accounts'[new].via = joining.invite
        /\ \A a \in Made : accounts'[a].via = accounts[a].via
    BY <1>7, AccountsMove
  <2>2. joining'.account = new /\ joining'.invite = joining.invite
    BY <1>0, <2>1 DEF AccountCreated, JoiningTyped, Joining
  <2> HIDE DEF new
  <2>3. /\ joining.at = "redeemed" /\ joining.account = 0 /\ UNCHANGED <<invites, cut>>
        /\ joining.invite # 0 => /\ invites[joining.invite].at = "used"
                                 /\ \A a \in Made : accounts[a].via # joining.invite
    BY <1>0, <2>1 DEF AccountCreated, JoiningOK, history
  <2>4. Pending' = 1
    BY <2>1, <2>2 DEF Pending, Accounts
  <2>5. Deviceless' \subseteq Deviceless \cup {new}
    <3>1. ~DeviceAdded
      BY <2>3 DEF DeviceAdded
    <3>2. \A a \in Made : accounts'[a].at = accounts[a].at
      BY <3>1, AccountsMove
    <3> QED
      BY <2>1, <3>2 DEF Deviceless
  <2>6. Wasted' \subseteq Wasted
    BY <2>1, <2>3 DEF Wasted
  <2>7. /\ Cardinality(Wasted') \in Nat /\ Cardinality(Wasted') <= Cardinality(Wasted)
        /\ Cardinality(Deviceless') \in Nat
        /\ Cardinality(Deviceless') <= Cardinality(Deviceless) + 1
    BY <1>1, <2>5, <2>6, Counting
  <2>8. CASE joining.invite = 0
    <3>1. Pending = 0
      BY <2>3, <2>8 DEF Pending
    <3> QED
      BY <1>0, <1>2, <2>3, <2>4, <2>7, <3>1
  <2>9. CASE joining.invite # 0
    <3>1. joining.invite \in Wasted /\ joining.invite \notin Wasted' /\ Pending = 1
      BY <1>0, <2>1, <2>3, <2>9
      DEF Wasted, Pending, JoiningTyped, Joining, InviteNumbers, Invites
    <3>2. Wasted' \subseteq Wasted \ {joining.invite}
      BY <2>6, <3>1
    <3>3. Cardinality(Wasted') <= Cardinality(Wasted) - 1
      BY <1>1, <3>1, <3>2, Counting
    <3> QED
      BY <1>0, <1>2, <2>3, <2>4, <2>7, <3>1, <3>3
  <2> QED
    BY <2>8, <2>9
\* Whatever else the step is, a registration that ends was cut.
<1>8. CASE Made' = Made /\ ~DeviceAdded /\ \A i \in Invites : ~Redeems(i)
  <2>1. Wasted' \subseteq Wasted
    BY <1>3, <1>8 DEF Wasted
  <2>2. Deviceless' \subseteq Deviceless
    BY <1>4, <1>8
  <2>3. /\ Cardinality(Wasted') \in Nat /\ Cardinality(Wasted') <= Cardinality(Wasted)
        /\ Cardinality(Deviceless') \in Nat /\ Cardinality(Deviceless') <= Cardinality(Deviceless)
    BY <1>1, <2>1, <2>2, Counting
  <2>4. cut' \in Nat /\ cut + Pending <= cut' + Pending'
    <3>1. CASE Stops(Server) \/ RegistrationFails
      BY <1>0, <3>1 DEF Stops, RegistrationFails, CutShort, Pending, NotJoining
    <3>2. CASE ~Stops(Server) /\ Registers
      <4>1. joining.at = "idle" /\ UNCHANGED cut
        BY <3>2 DEF Registers, history
      <4>2. Pending = 0
        BY <1>0, <4>1 DEF JoiningOK, Pending, NotJoining
      <4> QED
        BY <1>0, <1>2, <4>1, <4>2 DEF Pending
    <3>3. CASE ~Stops(Server) /\ ~RegistrationFails /\ ~Registers
      <4>1. UNCHANGED cut
        BY <3>3, Changes
      <4>2. ~AccountCreated
        <5>1. AccountCreated => Cardinality(Made) + 1 \in Made'
          BY <1>0 DEF AccountCreated, AccountsTyped, Made
        <5>2. Cardinality(Made) + 1 \notin Made
          BY DEF FoundingInv, MadeInOrder
        <5> QED
          BY <1>8, <5>1, <5>2
      <4>3. UNCHANGED joining
        BY <1>8, <3>3, <4>2, Changes
      <4> QED
        BY <1>0, <1>2, <4>1, <4>3 DEF Pending
    <3> QED
      BY <3>1, <3>2, <3>3
  <2>5. Cardinality(Wasted') + Cardinality(Deviceless')
          <= Cardinality(Wasted) + Cardinality(Deviceless)
    BY <1>2, <2>3
  <2>6. /\ Cardinality(Wasted') + Cardinality(Deviceless') \in Nat
        /\ Cardinality(Wasted) + Cardinality(Deviceless) \in Nat
    BY <1>2, <2>3
  <2>7. PICK m \in Nat, n \in Nat, k \in Nat : m = Pending /\ n = Pending' /\ k = cut'
    BY <1>2, <2>4
  <2>8. Cardinality(Wasted) + Cardinality(Deviceless) <= cut + m /\ cut + m <= k + n
    BY <1>2, <2>4, <2>7, Zenon
  <2>9. cut + m \in Nat /\ k + n \in Nat
    BY <1>0
  <2>10. Cardinality(Wasted') + Cardinality(Deviceless') <= k + n
    BY <2>5, <2>6, <2>8, <2>9
  <2> QED
    BY <2>7, <2>10, Zenon
<1> QED
  BY <1>5, <1>6, <1>7, <1>8

\* A code that was shown stays shown.
LEMMA CodeStays ==
  ASSUME InvitesTyped, ProcTyped, ServerOK, [Next]_vars, NEW i \in Invites, invites[i].code # 0
  PROVE  invites'[i].code # 0
<1>0. /\ invites \in [Invites -> InviteRow] /\ invites[i] \in InviteRow
      /\ \A p \in Processes : proc[p].at \in {"keyed", "says"} => proc[p].key # 0
  BY DEF InvitesTyped, ProcTyped
<1>1. ASSUME NEW p \in Processes, MakesInvite(p) PROVE invites'[i].code = invites[i].code
  BY <1>0, <1>1 DEF MakesInvite, InviteRow
<1>2. ASSUME NEW p \in Processes, Says(p) PROVE invites'[i].code # 0
  <2>1. /\ invites' = [invites EXCEPT ![proc[p].invite].code = proc[p].key]
        /\ proc[p].key # 0
    BY <1>0, <1>2 DEF Says
  <2>2. CASE i = proc[p].invite
    BY <1>0, <2>1, <2>2 DEF InviteRow
  <2>3. CASE i # proc[p].invite
    BY <1>0, <2>1, <2>3
  <2> QED
    BY <2>2, <2>3
<1>3. ASSUME NEW j \in Invites, Redeems(j) \/ InviteLapses(j) \/ InvitePurged(j)
      PROVE  invites'[i].code = invites[i].code
  BY <1>0, <1>3 DEF Redeems, Redeem, InviteLapses, InvitePurged, InviteRow
<1> QED
  BY <1>1, <1>2, <1>3, Changes

\* What the server does before it has counted its invites makes none.
LEMMA BeforeCounting ==
  ASSUME ProcTyped, ServerOK, ShownOK, ServerStarts \/ Load(Server) \/ Stops(Server)
  PROVE  proc'[Server].at \notin {"says", "listens", "up"} /\ proc'[Server].invite = 0
<1>0. /\ proc \in [Processes -> Process] /\ Server \in Processes /\ proc[Server] \in Process
      /\ Off.at = "off" /\ Off.invite = 0
  BY Records DEF ProcTyped, Off
<1>1. CASE ServerStarts
  <2> DEFINE r == [Off EXCEPT !.kind = "serve", !.at = "asks"]
  <2>1. r.at = "asks" /\ r.invite = 0
    <3>1. Off \in Process
      BY Records
    <3> QED
      BY <1>0, <3>1 DEF Process
  <2>2. proc' = [proc EXCEPT ![Server] = r]
    BY <1>1 DEF ServerStarts, FirstStep
  <2> HIDE DEF r
  <2> QED
    BY <1>0, <2>1, <2>2
<1>2. ASSUME Ends(Server)
      PROVE  proc'[Server].at \notin {"says", "listens", "up"} /\ proc'[Server].invite = 0
  BY <1>0, <1>2 DEF Ends
<1>3. ASSUME NEW at \in {"creates", "writes"}, Goes(Server, at), ShownOK,
             proc[Server].at \in {"loads", "creates"}
      PROVE  proc'[Server].at \notin {"says", "listens", "up"} /\ proc'[Server].invite = 0
  BY <1>0, <1>3 DEF Goes, Process, ShownOK
<1>4. CASE Asks(Server) \/ LoadsKey(Server) \/ WritesKey(Server)
  BY <1>0, <1>4 DEF Asks, LoadsKey, WritesKey, Process, ShownOK
<1>5. CASE LoadFails(Server) \/ GeneratesKey(Server) \/ CreatesFile(Server)
  BY <1>2, <1>3, <1>5 DEF LoadFails, GeneratesKey, CreatesFile
<1>6. CASE Stops(Server)
  BY <1>2, <1>6 DEF Stops
<1> QED
  BY <1>1, <1>4, <1>5, <1>6 DEF Load

\* The server says what it made, and then listens.
LEMMA ShownStep ==
  ASSUME FoundingInv, [Next]_vars
  PROVE  ShownOK'
<1>0. /\ ShownOK /\ ServerOK /\ ProcTyped /\ InvitesTyped /\ MintedTyped /\ MaxInvites \in Nat
      /\ proc \in [Processes -> Process] /\ Server \in Processes /\ proc[Server] \in Process
  BY TypeParts, Records DEF FoundingInv, ProcTyped
<1>1. ASSUME proc'[Server].invite = proc[Server].invite,
             \/ proc'[Server].at = proc[Server].at
             \/ proc[Server].at = "listens" /\ proc'[Server].at = "up"
      PROVE  ShownOK'
  <2>1. ASSUME proc[Server].invite # 0, proc[Server].at \in {"listens", "up"}
        PROVE  invites'[proc[Server].invite].code # 0
    <3>1. proc[Server].invite \in Invites /\ invites[proc[Server].invite].code # 0
      BY <1>0, <2>1 DEF ShownOK, Process, Invites
    <3> QED
      BY <1>0, <3>1, CodeStays
  <2> QED
    BY <1>0, <1>1, <2>1 DEF ShownOK
<1>2. CASE ServerStarts \/ Load(Server) \/ Stops(Server)
  BY <1>0, <1>2, BeforeCounting DEF ShownOK
<1>3. CASE ServerCounts
  <2>1. proc'[Server].at \in {"invites", "listens"} /\ proc'[Server].invite = 0
    BY <1>0, <1>3 DEF ServerCounts, Goes, Process, ShownOK
  <2> QED
    BY <2>1 DEF ShownOK
<1>4. CASE MakesInvite(Server)
  <2>1. proc'[Server].at = "says" /\ proc'[Server].invite = minted.invites + 1
    BY <1>0, <1>4 DEF MakesInvite, Process
  <2>2. minted.invites + 1 # 0
    BY <1>0 DEF MintedTyped
  <2> QED
    BY <2>1, <2>2 DEF ShownOK
<1>5. CASE Says(Server)
  <2>1. proc[Server].at = "says" /\ proc[Server].key # 0 /\ proc[Server].invite # 0
    BY <1>0, <1>5 DEF Says, ServerOK, ProcTyped, ShownOK
  <2>2. proc[Server].invite \in Invites
    BY <1>0, <2>1 DEF Process, Invites
  <2>3. invites'[proc[Server].invite].code = proc[Server].key
    BY <1>0, <1>5, <2>2 DEF Says, InvitesTyped, InviteRow
  <2>4. proc'[Server].at = "listens" /\ proc'[Server].invite = proc[Server].invite
    BY <1>0, <1>5 DEF Says, Goes, Process
  <2> QED
    BY <2>1, <2>3, <2>4 DEF ShownOK
<1>6. CASE Listens
  BY <1>0, <1>1, <1>6 DEF Listens, Goes, Process
<1> QED
  BY <1>0, <1>1, <1>2, <1>3, <1>4, <1>5, <1>6, ServerMoves

\* A registration knows the invite it redeemed.
LEMMA Spends ==
  ASSUME NEW i \in Invites, Redeems(i)
  PROVE  joining'.invite # 0
<1>1. i # 0
  BY FoundingAssumption DEF Invites
<1> QED
  BY <1>1 DEF Redeems, NotJoining

\* A server that counted its invites and is nobody's has one open, until one
\* runs out or is spent on a registration that failed.
LEMMA WayStep ==
  ASSUME FoundingInv, [Next]_vars
  PROVE  WayKept'
<1>0. /\ WayKept /\ JoiningOK /\ ProcTyped /\ InvitesTyped /\ MintedTyped /\ InvitesOK
      /\ HistoryTyped /\ Server \in Processes /\ proc[Server] \in Process
  BY TypeParts, Records DEF FoundingInv, ProcTyped
<1>1. SUFFICES ASSUME proc'[Server].at \in {"says", "listens", "up"}, Made' = {},
                      joining'.invite = 0, ~wasted'
               PROVE  \E i \in Invites : invites'[i].at = "open"
  BY DEF WayKept
<1>2. Made = {} /\ ~DeviceAdded /\ ~Stops(Server) /\ Made' = Made
  <2>1. Made = {} /\ Made' = Made
    BY <1>1, AccountsMove
  <2>2. ~DeviceAdded
    BY <1>0, <2>1 DEF DeviceAdded, JoiningOK
  <2>3. ~Stops(Server)
    <3>1. ASSUME Stops(Server) PROVE proc'[Server] = Off
      BY <1>0, <3>1 DEF Stops, Ends, ProcTyped
    <3> QED
      BY <1>1, <3>1, Records
  <2> QED
    BY <2>1, <2>2, <2>3
\* One that is open stays so.
<1>3. ASSUME NEW i \in Invites, invites[i].at = "open" PROVE invites'[i].at = "open"
  <2>1. ~Redeems(i)
    BY <1>1, Spends
  <2>2. ~InviteLapses(i)
    BY <1>1 DEF InviteLapses
  <2> QED
    BY <1>0, <1>3, <2>1, <2>2, InviteMoves
<1>4. CASE MakesInvite(Server)
  BY <1>0, <1>4 DEF MakesInvite, InvitesTyped
<1>5. CASE ServerCounts
  <2>1. ~NoOpenInvite
    BY <1>0, <1>1, <1>2, <1>5 DEF ServerCounts, Goes, ProcTyped, Process
  <2> QED
    BY <1>3, <2>1 DEF NoOpenInvite
<1>6. CASE ~MakesInvite(Server) /\ ~ServerCounts
  <2>1. proc[Server].at \in {"says", "listens", "up"}
    <3>1. ~ServerStarts /\ ~Load(Server)
      BY <1>0, <1>1, BeforeCounting DEF FoundingInv
    <3>2. Says(Server) => proc[Server].at = "says"
      <4>1. Says(Server) /\ proc[Server].at # "says" => proc[Server].kind = "invite"
        BY DEF Says
      <4> QED
        BY <4>1 DEF FoundingInv, ServerOK
    <3>3. Listens => proc[Server].at = "listens"
      BY DEF Listens
    <3> QED
      BY <1>0, <1>1, <1>2, <1>6, <3>1, <3>2, <3>3, ServerMoves
  <2>2. ~wasted
    <3>1. UNCHANGED wasted \/ RegistrationFails \/ \E i \in Invites : InviteLapses(i)
      BY <1>6, Changes
    <3>2. \A i \in Invites : ~InviteLapses(i)
      BY <1>1 DEF InviteLapses
    <3>3. RegistrationFails => ~wasted
      BY <1>0, <1>1 DEF RegistrationFails, HistoryTyped
    <3> QED
      BY <1>1, <3>1, <3>2, <3>3
  <2>3. joining.invite = 0
    <3>1. \/ UNCHANGED joining \/ Registers \/ AccountCreated \/ RegistrationFails
          \/ \E i \in Invites : Redeems(i)
      BY <1>2, Changes
    <3>2. \A i \in Invites : ~Redeems(i)
      BY <1>1, Spends
    <3>3. Registers => joining.invite = 0
      BY <1>0 DEF Registers, JoiningOK, NotJoining
    <3>4. AccountCreated => joining'.invite = joining.invite
      <4>1. joining \in Joining
        BY TypeParts DEF FoundingInv, JoiningTyped
      <4> QED
        BY <4>1 DEF AccountCreated, Joining
    <3>5. RegistrationFails => joining.invite = 0
      BY <1>0, <1>1 DEF RegistrationFails, HistoryTyped
    <3> QED
      BY <1>1, <3>1, <3>2, <3>3, <3>4, <3>5
  <2> QED
    BY <1>0, <1>2, <1>3, <2>1, <2>2, <2>3 DEF WayKept
<1> QED
  BY <1>4, <1>5, <1>6

----------------------------------------------------------------------------
(* The theorems.                                                           *)

\* A data directory starts empty, with nothing running.
LEMMA FoundingInit == Init => FoundingInv
<1> SUFFICES ASSUME Init PROVE FoundingInv
  OBVIOUS
<1>1. TypeOK
  BY InitTypes
<1>2. /\ proc = [p \in Processes |-> Off] /\ accounts = [a \in Accounts |-> NoAccount]
      /\ invites = [i \in Invites |-> NoInvite] /\ joining = NotJoining
      /\ cut = 0 /\ key = NoKey
  BY DEF Init
<1>3. Made = {}
  BY <1>2 DEF Made, NoAccount
<1>4. \A p \in Processes : proc[p] = Off
  BY <1>2
<1>5. \A p \in Processes : ProcOK(p)
  BY <1>4, Records DEF ProcOK
<1>6. ServerOK
  BY <1>4, Records DEF ServerOK
<1>7. KeysOK
  BY <1>2, <1>3, <1>4, Records DEF KeysOK, NoInvite
<1>8. MadeInOrder
  BY <1>3, FS_EmptySet, Records DEF MadeInOrder
<1>9. JoiningOK
  BY <1>2 DEF JoiningOK, NotJoining
<1>10. WayKept /\ ShownOK
  BY <1>4, Records DEF WayKept, ShownOK, Off
<1>11. InvitesOK
  <2>1. Wasted = {} /\ Deviceless = {}
    BY <1>2, <1>3 DEF Wasted, Deviceless, NoInvite
  <2>2. Pending = 0
    BY <1>2 DEF Pending, NotJoining
  <2>3. \A i \in Invites : invites[i].at = "none"
    BY <1>2 DEF NoInvite
  <2> QED
    BY <1>2, <1>3, <2>1, <2>2, <2>3, FS_EmptySet DEF InvitesOK
<1> QED
  BY <1>1, <1>5, <1>6, <1>7, <1>8, <1>9, <1>10, <1>11 DEF FoundingInv

\* The invariant is inductive.
LEMMA FoundingKept == FoundingInv /\ [Next]_vars => FoundingInv'
<1> SUFFICES ASSUME FoundingInv, [Next]_vars PROVE FoundingInv'
  OBVIOUS
<1>1. TypeOK'
  BY TypeStep DEF FoundingInv
<1>2. InvitesOK'
  BY SpentStep, WasteStep DEF InvitesOK
<1>3. ServerOK' /\ KeysOK' /\ MadeInOrder' /\ JoiningOK' /\ ShownOK' /\ WayKept'
      /\ \A p \in Processes : ProcOK(p)'
  BY ServerStep, KeysStep, MadeStep, JoiningKept, ShownStep, WayStep, ProcessesStep
<1> QED
  BY <1>1, <1>2, <1>3 DEF FoundingInv

\* Whatever is started, killed and lost, the invariant holds.
THEOREM FoundingInvariant == Spec => []FoundingInv
BY FoundingInit, FoundingKept, PTL DEF Spec

\* A server that answers does so with the key each account pinned, unless
\* new-key was run since, whatever was started, killed and lost in between
\* (tls::load, has_accounts).
THEOREM PinsCorrect == Spec => []PinsHold
<1>1. FoundingInv => PinsHold
  <2>1. SUFFICES ASSUME FoundingInv, Up PROVE proc[Server].key = minted.keys
    BY DEF PinsHold, FoundingInv, KeysOK
  <2>2. ProcTyped /\ Server \in Processes /\ ProcOK(Server) /\ KeysOK
    BY <2>1, TypeParts, Records DEF FoundingInv
  <2> QED
    BY <2>1, <2>2, UpIsWhole DEF Up, KeysOK
<1> QED
  BY <1>1, FoundingInvariant, PTL

\* Processes that race to make the key agree on it: the server that answers holds
\* the key in the file, and every setup code that was shown names it or one that
\* was lost (write_private's create_new).
THEOREM OneKeyCorrect == Spec => []OneKey
<1>1. FoundingInv => OneKey
  <2>1. SUFFICES ASSUME FoundingInv PROVE Up => Healthy
    BY DEF OneKey, FoundingInv, KeysOK
  <2>2. ProcTyped /\ Server \in Processes /\ ProcOK(Server)
    BY <2>1, TypeParts, Records DEF FoundingInv
  <2> QED
    BY <2>2, UpIsWhole DEF Up, Healthy, Whole
<1> QED
  BY <1>1, FoundingInvariant, PTL

\* An invite makes one account, and only a crash in a registration, or one of its
\* last two statements failing, costs an invite its account or an account its
\* device (redeem_invite and create of api/accounts.rs).
THEOREM InvitesCorrect == Spec => []InvitesAccountFor
<1>1. FoundingInv => InvitesAccountFor
  <2>1. SUFFICES ASSUME FoundingInv
                 PROVE  Cardinality(Wasted) + Cardinality(Deviceless)
                          <= cut + (IF joining.at = "idle" THEN 0 ELSE 1)
    BY DEF InvitesAccountFor, FoundingInv, InvitesOK
  <2>2. Cardinality(Wasted) + Cardinality(Deviceless) <= cut + Pending
    BY <2>1 DEF FoundingInv, InvitesOK
  <2>3. cut \in Nat /\ Cardinality(Wasted) \in Nat /\ Cardinality(Deviceless) \in Nat
    <3>1. IsFiniteSet(Invites) /\ IsFiniteSet(Accounts)
      BY FoundingAssumption, FS_Interval DEF Invites, Accounts
    <3>2. IsFiniteSet(Wasted) /\ IsFiniteSet(Deviceless)
      BY <3>1, FS_Subset DEF Wasted, Deviceless, Made
    <3> QED
      BY <2>1, <3>2, FS_CardinalityType, TypeParts DEF FoundingInv, HistoryTyped
  <2>4. CASE joining.at = "idle"
    <3>1. Pending = 0
      BY <2>1, <2>4 DEF FoundingInv, JoiningOK, Pending, NotJoining
    <3> QED
      BY <2>2, <2>4, <3>1
  <2>5. CASE joining.at # "idle"
    <3>1. Pending = 0 \/ Pending = 1
      BY DEF Pending
    <3> QED
      BY <2>2, <2>3, <2>5, <3>1
  <2> QED
    BY <2>4, <2>5
<1> QED
  BY <1>1, FoundingInvariant, PTL

\* A server that was started and has no account has an invite that is good, with
\* the key it answers with, unless one ran out or was spent on a registration
\* that failed since it looked, or it counted one that is stranded (serve in
\* main.rs).
THEOREM WayInCorrect == Spec => []WayIn
<1>1. FoundingInv => WayIn
  <2>1. SUFFICES ASSUME FoundingInv, Up, Made = {}, joining.at = "idle", ~wasted,
                        \A i \in Invites : ~Stranded(i)
                 PROVE  \E i \in Invites : Good(i)
    BY DEF WayIn
  <2>2. /\ ProcTyped /\ Server \in Processes /\ ProcOK(Server) /\ KeysOK /\ ShownOK
        /\ joining.invite = 0
    BY <2>1, TypeParts, Records DEF FoundingInv, JoiningOK, NotJoining
  <2>3. PICK i \in Invites : invites[i].at = "open"
    BY <2>1, <2>2 DEF FoundingInv, WayKept, Up
  <2>4. CASE invites[i].code # 0
    <3>1. proc[Server].key = key.id
      BY <2>1, <2>2, UpIsWhole DEF Up
    <3>2. invites[i].code = key.id
      BY <2>1, <2>3, <2>4 DEF Stranded
    <3> QED
      BY <2>3, <3>1, <3>2 DEF Good
  <2>5. CASE invites[i].code = 0
    <3>1. PICK p \in Processes : proc[p].invite = i
      BY <2>1, <2>3, <2>5 DEF Stranded
    <3>2. p # Server
      BY <2>1, <2>2, <2>5, <3>1 DEF ShownOK, Up, Invites
    <3> QED
      BY <2>3, <2>5, <3>1, <3>2 DEF Good, Processes
  <2> QED
    BY <2>4, <2>5
<1> QED
  BY <1>1, FoundingInvariant, PTL

\* A server takes another account only while it has fewer than it may have, also
\* after it was started with a smaller maximum (create of api/accounts.rs).
THEOREM AccountsCappedCorrect == Spec => AccountsCapped
<1>1. FoundingInv /\ [Next]_vars => [Made' # Made => Cardinality(Made') <= config.max_accounts]_vars
  <2> SUFFICES ASSUME FoundingInv, [Next]_vars, Made' # Made
               PROVE  Cardinality(Made') <= config.max_accounts
    OBVIOUS
  <2> DEFINE n == Cardinality(Made)
  <2>1. AccountCreated /\ Made' = Made \cup {n + 1} /\ n + 1 \notin Made
    BY AccountsMove
  <2>2. n < config.max_accounts /\ n \in Nat /\ Made = 1..n
    BY <2>1 DEF FoundingInv, JoiningOK, AccountCreated, MadeInOrder
  <2>3. config.max_accounts \in Nat
    BY TypeParts, FoundingAssumption DEF FoundingInv, ConfigTyped
  <2>4. Cardinality(Made') = n + 1
    <3>1. IsFiniteSet(Made)
      BY <2>2, FS_Interval
    <3> QED
      BY <2>1, <3>1, FS_AddElement
  <2> HIDE DEF n
  <2> QED
    BY <2>2, <2>3, <2>4
<1> QED
  BY <1>1, FoundingInvariant, PTL DEF Spec, AccountsCapped

=============================================================================
