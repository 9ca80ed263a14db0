----------------------------- MODULE Connections -----------------------------
(***************************************************************************)
(* Connections (connections.rs): the gate that counts them, and one        *)
(* connection with its two clocks, its reader and what it answers.         *)
(*                                                                         *)
(* One connection is followed through its life, again and again; the       *)
(* others are how many each address has open.  Time is what is left of a   *)
(* deadline and how long nothing has been answered, neither past the       *)
(* timeout.  The task reading the connection runs when it is woken, and    *)
(* the tasks that send answers run beside it.                              *)
(*                                                                         *)
(* External: hyper reads until there is nothing to read, and then sleeps;  *)
(* and on HTTP/2 it pings the client (tune).  On HTTP/1.1 it never does,   *)
(* and its deadline for a request's headers is the idle one at the latest. *)
(***************************************************************************)
EXTENDS Integers, FiniteSets

CONSTANTS
  Addresses, Home,   \* where connections come from, and the followed one
  max, per_address,  \* open at once, in all and from one address (0: any)
  header_timeout,    \* for the first bytes, and for having nothing to answer
  FIRST_BYTES,       \* how much says which HTTP it is
  PING_TIMEOUT,      \* H2_PING_TIMEOUT: for the answer to a ping
  H2_STREAMS         \* requests being answered on one connection

ASSUME ConnectionsAssumption ==
  /\ Home \in Addresses /\ IsFiniteSet(Addresses)
  /\ max \in Nat /\ per_address \in Nat /\ header_timeout \in Nat
  /\ FIRST_BYTES \in Nat \ {0} /\ PING_TIMEOUT \in Nat /\ H2_STREAMS \in Nat

VARIABLES
  open,      \* the gate's counts
  others,    \* external: what other connections each address has
  phase,     \* of the followed connection
  inbox,     \* external: what its client has sent and nobody has read
  first,     \* its first bytes and their deadline; history: whether a request
             \* was shorter than they are
  doing,     \* its Activity: requests being answered, for how long none is,
             \* and whether the reader is to be told
  idle,      \* the clock for that
  ping,      \* hyper's ping that is not answered, and its clock
  task       \* the reader, and whether it was woken while it ran

connection == <<inbox, first, doing, idle, ping, task>>
vars == <<open, others, phase, connection>>

Of(address) == others[address] + (IF phase # "none" /\ address = Home THEN 1 ELSE 0)

----------------------------------------------------------------------------

NoFirst == [on |-> FALSE, seen |-> 0, left |-> 0, set |-> FALSE, short |-> FALSE]
NewFirst == [NoFirst EXCEPT !.on = TRUE, !.left = header_timeout]
NewDoing == [answering |-> 0, idle_for |-> 0, reader |-> FALSE]
NewIdle == [left |-> header_timeout, set |-> FALSE]
NoPing == [sent |-> FALSE, left |-> 0]
NewTask == [at |-> "woken", again |-> FALSE]

NoConnection ==
  /\ phase' = "none"
  /\ inbox' = "nothing"
  /\ first' = NoFirst
  /\ doing' = NewDoing
  /\ idle' = NewIdle
  /\ ping' = NoPing
  /\ task' = NewTask

Init ==
  /\ open = [all |-> 0, by_address |-> [a \in Addresses |-> 0]]
  /\ others = [a \in Addresses |-> 0]
  /\ phase = "none"
  /\ inbox = "nothing"
  /\ first = NoFirst
  /\ doing = NewDoing
  /\ idle = NewIdle
  /\ ping = NoPing
  /\ task = NewTask

----------------------------------------------------------------------------
(* The gate.                                                               *)

\* admit: whoever finds no room is closed before anything else.
Room(address) ==
  /\ open.all < max
  /\ per_address > 0 => open.by_address[address] < per_address

Admitted(address) ==
  [all |-> open.all + 1, by_address |-> [open.by_address EXCEPT ![address] = @ + 1]]

\* Mutant: only the address is counted off.
DroppedForAddress(address) ==
  [open EXCEPT !.by_address[address] = IF @ > 0 THEN @ - 1 ELSE 0]

\* Admitted::drop.
Dropped(address) ==
  [all |-> IF open.all > 0 THEN open.all - 1 ELSE 0,
   by_address |-> [open.by_address EXCEPT ![address] = IF @ > 0 THEN @ - 1 ELSE 0]]

OtherOpens(address) ==
  /\ Room(address)
  /\ open' = Admitted(address)
  /\ others' = [others EXCEPT ![address] = @ + 1]
  /\ UNCHANGED <<phase, connection>>

OtherCloses(address) ==
  /\ others[address] > 0
  /\ open' = Dropped(address)
  /\ others' = [others EXCEPT ![address] = @ - 1]
  /\ UNCHANGED <<phase, connection>>

\* accept: room first, then the handshake.
Accepts ==
  /\ phase = "none" /\ Room(Home)
  /\ phase' = "handshake"
  /\ open' = Admitted(Home)
  /\ UNCHANGED <<others, connection>>

HandshakeFails ==
  /\ phase = "handshake"
  /\ phase' = "none"
  /\ open' = Dropped(Home)
  /\ UNCHANGED <<others, connection>>

HandshakeDone ==
  /\ phase = "handshake"
  /\ phase' = "open"
  /\ first' = NewFirst
  /\ UNCHANGED <<open, others, inbox, doing, idle, ping, task>>

\* The connection is dropped, and its room with it.
Closes ==
  /\ NoConnection
  /\ open' = Dropped(Home)
  /\ UNCHANGED others

----------------------------------------------------------------------------
(* The client, the answers and the clocks.                                 *)

\* A task that is woken while it runs runs again.
Woken == IF task.at = "asleep" THEN [task EXCEPT !.at = "woken"]
                               ELSE [task EXCEPT !.again = TRUE]

\* Some bytes (a ping, a beginning), a request, the answer to a ping, or the end.
Sends(what) ==
  /\ phase = "open" /\ inbox = "nothing"
  /\ what = "request" => doing.answering < H2_STREAMS
  /\ what = "pong" => ping.sent
  /\ inbox' = what
  /\ task' = Woken
  /\ UNCHANGED <<open, others, phase, first, doing, idle, ping>>

\* Answering::drop: an answer is sent in full or given up on, and after the
\* last the reader is told, if it asked to be.
AnswerEnds ==
  LET last == doing.answering = 1
  IN  /\ phase = "open" /\ doing.answering > 0
      /\ doing' = [answering |-> doing.answering - 1,
                   idle_for |-> IF last THEN 0 ELSE doing.idle_for,
                   reader |-> doing.reader /\ ~last]
      /\ task' = IF last /\ doing.reader THEN Woken ELSE task
      /\ UNCHANGED <<open, others, phase, inbox, first, idle, ping>>

\* A moment passes; a clock that was set and runs out wakes the reader.
Later(clock) ==
  [clock EXCEPT !.left = IF @ > 0 THEN @ - 1 ELSE 0, !.set = @ /\ clock.left > 1]

Tick ==
  /\ phase = "open"
  /\ first' = Later(first)
  /\ idle' = Later(idle)
  /\ doing' = [doing EXCEPT !.idle_for = IF @ < header_timeout THEN @ + 1 ELSE @]
  /\ ping' = [ping EXCEPT !.left = IF @ > 0 THEN @ - 1 ELSE 0]
  /\ task' = IF (first.set /\ ~first'.set) \/ (idle.set /\ ~idle'.set) THEN Woken ELSE task
  /\ UNCHANGED <<open, others, phase, inbox>>

\* keep_alive_interval: what a connection says first on HTTP/2 is FIRST_BYTES long.
Pings ==
  /\ phase = "open" /\ ~first.on /\ ~ping.sent
  /\ ping' = [sent |-> TRUE, left |-> PING_TIMEOUT]
  /\ UNCHANGED <<open, others, phase, inbox, first, doing, idle, task>>

\* keep_alive_timeout, whatever is being answered.
PingUnanswered ==
  /\ phase = "open" /\ task.at # "pending"
  /\ ping.sent /\ ping.left = 0
  /\ Closes

----------------------------------------------------------------------------
(* The reader: poll_read, as long as there is something.                   *)

\* Mutant: one byte more than the shortest request has.
SaidMore(seen) == seen > FIRST_BYTES

Said(seen) == seen >= FIRST_BYTES

FirstAfter(bytes) ==
  IF ~first.on THEN first
  ELSE IF Said(first.seen + bytes) THEN NoFirst
  ELSE [first EXCEPT !.seen = @ + bytes]

ReadsBytes ==
  /\ phase = "open" /\ task.at = "woken" /\ inbox = "bytes"
  /\ inbox' = "nothing"
  /\ first' = FirstAfter(1)
  /\ UNCHANGED <<open, others, phase, doing, idle, ping, task>>

\* Tracked::call: counted before the answer is started.  hyper takes a request
\* that is shorter than the first bytes, too: one that names no host.
ReadsRequest ==
  /\ phase = "open" /\ task.at = "woken" /\ inbox = "request"
  /\ inbox' = "nothing"
  /\ \E bytes \in 1..FIRST_BYTES :
       first' = [FirstAfter(bytes) EXCEPT
                   !.short = @ \/ (first.on /\ first.seen + bytes < FIRST_BYTES)]
  /\ doing' = [doing EXCEPT !.answering = @ + 1]
  /\ UNCHANGED <<open, others, phase, idle, ping, task>>

ReadsPong ==
  /\ phase = "open" /\ task.at = "woken" /\ inbox = "pong"
  /\ inbox' = "nothing"
  /\ first' = FirstAfter(1)
  /\ ping' = NoPing
  /\ UNCHANGED <<open, others, phase, doing, idle, task>>

ReadsEnd ==
  /\ phase = "open" /\ task.at = "woken" /\ inbox = "end"
  /\ Closes

\* Nothing there, and the first bytes still missing after their deadline.
FirstTooLate ==
  /\ phase = "open" /\ task.at = "woken" /\ inbox = "nothing"
  /\ first.on /\ first.left = 0
  /\ Closes

\* Nothing there: the reader will be woken for more, and its deadline is set.
ReadsNothing ==
  /\ phase = "open" /\ task.at = "woken" /\ inbox = "nothing"
  /\ ~(first.on /\ first.left = 0)
  /\ first' = [first EXCEPT !.set = first.on]
  /\ task' = [at |-> "pending", again |-> FALSE]
  /\ UNCHANGED <<open, others, phase, inbox, doing, idle, ping>>

Sleeps == task' = [at |-> IF task.again THEN "woken" ELSE "asleep", again |-> FALSE]

\* Mutant: the reader asks to be told only once it is idle.
ToldWhenIdle == [doing EXCEPT !.reader = @ \/ doing.answering = 0]

ToldAfterwards == [doing EXCEPT !.reader = TRUE]

\* idle_too_long, under the Activity's lock: something is being answered.
StillAnswering ==
  /\ phase = "open" /\ task.at = "pending"
  /\ doing.answering > 0
  /\ doing' = ToldAfterwards
  /\ Sleeps
  /\ UNCHANGED <<open, others, phase, inbox, first, idle, ping>>

\* The clock runs from the end of the last answer.
Left == header_timeout - doing.idle_for

IdleForNow ==
  /\ phase = "open" /\ task.at = "pending"
  /\ doing.answering = 0 /\ Left > 0
  /\ doing' = ToldAfterwards
  /\ idle' = [left |-> Left, set |-> TRUE]
  /\ Sleeps
  /\ UNCHANGED <<open, others, phase, inbox, first, ping>>

IdleTooLong ==
  /\ phase = "open" /\ task.at = "pending"
  /\ doing.answering = 0 /\ Left = 0
  /\ Closes

----------------------------------------------------------------------------

Reader ==
  \/ ReadsBytes \/ ReadsRequest \/ ReadsPong \/ ReadsEnd \/ FirstTooLate \/ ReadsNothing
  \/ StillAnswering \/ IdleForNow \/ IdleTooLong

Next ==
  \/ \E a \in Addresses : OtherOpens(a) \/ OtherCloses(a)
  \/ Accepts \/ HandshakeFails \/ HandshakeDone
  \/ \E what \in {"bytes", "request", "pong", "end"} : Sends(what)
  \/ AnswerEnds \/ Tick \/ Pings \/ PingUnanswered \/ Reader

Spec == Init /\ [][Next]_vars

\* A task that is ready runs and time passes.  Strong fairness: no client keeps
\* the socket full for ever.
FairSpec ==
  /\ Spec
  /\ WF_vars(Reader) /\ WF_vars(Tick)
  /\ SF_vars(ReadsNothing) /\ SF_vars(FirstTooLate)

----------------------------------------------------------------------------
(* Properties.                                                             *)

Clock == [left : 0 .. header_timeout, set : BOOLEAN]

\* Type invariant of the gate and of one connection (connections.rs); the
\* counts are within the limits.
TypeOK ==
  /\ open.all \in 0 .. max
  /\ open.by_address \in [Addresses -> Nat]
  /\ others \in [Addresses -> Nat]
  /\ phase \in {"none", "handshake", "open"}
  /\ inbox \in {"nothing", "bytes", "request", "pong", "end"}
  /\ first \in [on : BOOLEAN, seen : Nat, left : 0 .. header_timeout, set : BOOLEAN,
                short : BOOLEAN]
  /\ doing \in [answering : Nat, idle_for : 0 .. header_timeout, reader : BOOLEAN]
  /\ idle \in Clock
  /\ ping \in [sent : BOOLEAN, left : 0 .. PING_TIMEOUT]
  /\ task \in [at : {"woken", "pending", "asleep"}, again : BOOLEAN]

\* The connections there are, each by its address and its number there.
Connected == UNION {{a} \X (1 .. Of(a)) : a \in Addresses}

\* Each address is counted for what it has, and has no more than its share.
SharesExact ==
  \A a \in Addresses : /\ open.by_address[a] = Of(a)
                       /\ per_address > 0 => Of(a) <= per_address

\* And all of them together, although the two counts are kept apart.
TotalExact == open.all = Cardinality(Connected) /\ Cardinality(Connected) <= max

\* Gate::admit counts a connection, and whichever way it ends (no handshake,
\* out of time, idle, closed by the client) it is counted off once: the counts,
\* by address and in all, are those of the connections there are, and within
\* the limits.
GateExact == SharesExact /\ TotalExact

\* The two ends of a connection that have nothing to do with how long nothing was
\* answered: its client did not answer hyper's ping in time, or sent a request
\* shorter than FIRST_BYTES and nothing more by the deadline for those.
PingLost == ping.sent /\ ping.left = 0
CutOffShort == first.on /\ first.left = 0 /\ first.short

\* "What is being answered is never cut short by any of this", by Guarded's two
\* clocks: but for the two ends above, the server ends a connection the client has
\* not ended only when nothing is being answered and nothing was for the whole
\* timeout, counted from the end of its last answer.
NeverCutShort ==
  [][phase = "open" /\ phase' = "none" /\ inbox # "end" /\ ~PingLost /\ ~CutOffShort
       => doing.answering = 0 /\ doing.idle_for = header_timeout]_vars

\* A connection with nothing to answer ends or is asked something: its reader
\* does not sleep on when the last answer ends, and pings do not keep it.
IdleEnds ==
  phase = "open" /\ doing.answering = 0 ~> phase # "open" \/ doing.answering > 0

=============================================================================
