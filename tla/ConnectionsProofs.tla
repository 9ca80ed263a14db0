------------------------- MODULE ConnectionsProofs -------------------------
(***************************************************************************)
(* The gate's counts, and that the reader's deadlines end a connection     *)
(* only after nothing was answered on it for the whole timeout, for any    *)
(* limits.                                                                 *)
(***************************************************************************)
EXTENDS Answers, FiniteSetTheorems, TLAPS

\* The deadline for the first bytes and the time without an answer are the
\* same clock until the first request, unless that is shorter than they are.
FirstQuiet ==
  first.on /\ ~first.short => doing.answering = 0 /\ first.left + doing.idle_for = header_timeout

\* Before it is open, a connection has done nothing.
Unopened == phase # "open" => first = NoFirst /\ doing = NewDoing

IInv == TypeOK /\ SharesExact /\ FirstQuiet /\ Unopened

\* Connections numbered for each address, as many as count says.
Numbered(count) == UNION {{a} \X (1 .. count[a]) : a \in Addresses}

\* The count of all is that of the counts by address.
TotalInv ==
  /\ IsFiniteSet(Numbered(open.by_address))
  /\ open.all = Cardinality(Numbered(open.by_address))

\* The types of the reader's task, of the Activity, of the first bytes and of the
\* ping.
Task == [at : {"woken", "pending", "asleep"}, again : BOOLEAN]
Doing == [answering : Nat, idle_for : 0 .. header_timeout, reader : BOOLEAN]

First == [on : BOOLEAN, seen : Nat, left : 0 .. header_timeout, set : BOOLEAN, short : BOOLEAN]
Ping == [sent : BOOLEAN, left : 0 .. PING_TIMEOUT]

\* The state a new server is in (Gate::new) satisfies the invariant.
LEMMA InitIInv == Init => IInv
BY ConnectionsAssumption
DEF Init, IInv, TypeOK, SharesExact, FirstQuiet, Unopened, Of, NoFirst, NewDoing, NewIdle,
    NoPing, NewTask, Clock

\* Gate::admit: a connection is counted within the limits.
LEMMA AdmitCounts ==
  ASSUME TypeOK, NEW a \in Addresses, Room(a)
  PROVE  /\ Admitted(a).all \in 0 .. max
         /\ Admitted(a).by_address \in [Addresses -> Nat]
         /\ per_address > 0 => Admitted(a).by_address[a] <= per_address
         /\ Admitted(a).by_address[a] = open.by_address[a] + 1
         /\ \A b \in Addresses \ {a} : Admitted(a).by_address[b] = open.by_address[b]
BY ConnectionsAssumption DEF TypeOK, Room, Admitted

\* Admitted::drop: a connection that was counted is counted off, once.
LEMMA DropCounts ==
  ASSUME TypeOK, NEW a \in Addresses, open.by_address[a] > 0
  PROVE  /\ Dropped(a).all \in 0 .. max
         /\ Dropped(a).by_address \in [Addresses -> Nat]
         /\ Dropped(a).by_address[a] = open.by_address[a] - 1
         /\ \A b \in Addresses \ {a} : Dropped(a).by_address[b] = open.by_address[b]
BY ConnectionsAssumption DEF TypeOK, Dropped

\* A connection that ends leaves the counts of those that are left.
LEMMA CloseKeeps == IInv /\ phase # "none" /\ Closes => IInv'
<1> SUFFICES ASSUME IInv, phase # "none", Closes PROVE IInv'
  OBVIOUS
<1> USE ConnectionsAssumption
<1>1. open.by_address[Home] > 0
  BY DEF IInv, TypeOK, SharesExact, Of
<1>2. /\ open'.all \in 0 .. max
      /\ open'.by_address \in [Addresses -> Nat]
      /\ open'.by_address[Home] = open.by_address[Home] - 1
      /\ \A b \in Addresses \ {Home} : open'.by_address[b] = open.by_address[b]
  BY <1>1, DropCounts DEF IInv, Closes
<1>3. TypeOK'
  BY <1>2 DEF IInv, TypeOK, Closes, NoConnection, NoFirst, NewDoing, NewIdle, NoPing,
              NewTask, Clock
<1>4. SharesExact'
  BY <1>2 DEF IInv, TypeOK, SharesExact, Of, Closes, NoConnection
<1>5. FirstQuiet' /\ Unopened'
  BY DEF Closes, NoConnection, FirstQuiet, Unopened, NoFirst, NewDoing
<1> QED
  BY <1>3, <1>4, <1>5 DEF IInv

\* What the gate does for other connections, and for the one that is followed
\* until it is open.
LEMMA GateKeeps ==
  ASSUME IInv,
         \/ \E a \in Addresses : OtherOpens(a) \/ OtherCloses(a)
         \/ Accepts \/ HandshakeFails \/ HandshakeDone
  PROVE  IInv'
<1> USE ConnectionsAssumption
<1>1. ASSUME NEW a \in Addresses, OtherOpens(a) PROVE IInv'
  <2>1. /\ open'.all \in 0 .. max
        /\ open'.by_address \in [Addresses -> Nat]
        /\ per_address > 0 => open'.by_address[a] <= per_address
        /\ open'.by_address[a] = open.by_address[a] + 1
        /\ \A b \in Addresses \ {a} : open'.by_address[b] = open.by_address[b]
    BY <1>1, AdmitCounts DEF IInv, OtherOpens
  <2>2. TypeOK'
    BY <1>1, <2>1 DEF IInv, TypeOK, OtherOpens, connection, Clock
  <2>3. SharesExact'
    BY <1>1, <2>1 DEF IInv, TypeOK, SharesExact, Of, OtherOpens
  <2>4. FirstQuiet' /\ Unopened'
    BY <1>1 DEF IInv, FirstQuiet, Unopened, OtherOpens, connection
  <2> QED
    BY <2>2, <2>3, <2>4 DEF IInv
<1>2. ASSUME NEW a \in Addresses, OtherCloses(a) PROVE IInv'
  <2>1. open.by_address[a] > 0
    BY <1>2 DEF IInv, TypeOK, SharesExact, Of, OtherCloses
  <2>2. /\ open'.all \in 0 .. max
        /\ open'.by_address \in [Addresses -> Nat]
        /\ open'.by_address[a] = open.by_address[a] - 1
        /\ \A b \in Addresses \ {a} : open'.by_address[b] = open.by_address[b]
    BY <1>2, <2>1, DropCounts DEF IInv, OtherCloses
  <2>3. TypeOK'
    BY <1>2, <2>2 DEF IInv, TypeOK, OtherCloses, connection, Clock
  <2>4. SharesExact'
    BY <1>2, <2>2 DEF IInv, TypeOK, SharesExact, Of, OtherCloses
  <2>5. FirstQuiet' /\ Unopened'
    BY <1>2 DEF IInv, FirstQuiet, Unopened, OtherCloses, connection
  <2> QED
    BY <2>3, <2>4, <2>5 DEF IInv
<1>3. ASSUME Accepts PROVE IInv'
  <2>1. /\ open'.all \in 0 .. max
        /\ open'.by_address \in [Addresses -> Nat]
        /\ per_address > 0 => open'.by_address[Home] <= per_address
        /\ open'.by_address[Home] = open.by_address[Home] + 1
        /\ \A b \in Addresses \ {Home} : open'.by_address[b] = open.by_address[b]
    BY <1>3, AdmitCounts DEF IInv, Accepts
  <2>2. TypeOK'
    BY <1>3, <2>1 DEF IInv, TypeOK, Accepts, connection, Clock
  <2>3. SharesExact'
    BY <1>3, <2>1 DEF IInv, TypeOK, SharesExact, Of, Accepts
  <2>4. FirstQuiet' /\ Unopened'
    BY <1>3 DEF IInv, FirstQuiet, Unopened, Accepts, connection
  <2> QED
    BY <2>2, <2>3, <2>4 DEF IInv
<1>4. ASSUME HandshakeFails PROVE IInv'
  <2>1. open.by_address[Home] > 0
    BY <1>4 DEF IInv, TypeOK, SharesExact, Of, HandshakeFails
  <2>2. /\ open'.all \in 0 .. max
        /\ open'.by_address \in [Addresses -> Nat]
        /\ open'.by_address[Home] = open.by_address[Home] - 1
        /\ \A b \in Addresses \ {Home} : open'.by_address[b] = open.by_address[b]
    BY <1>4, <2>1, DropCounts DEF IInv, HandshakeFails
  <2>3. TypeOK'
    BY <1>4, <2>2 DEF IInv, TypeOK, HandshakeFails, connection, Clock
  <2>4. SharesExact'
    BY <1>4, <2>2 DEF IInv, TypeOK, SharesExact, Of, HandshakeFails
  <2>5. FirstQuiet' /\ Unopened'
    BY <1>4 DEF IInv, FirstQuiet, Unopened, HandshakeFails, connection
  <2> QED
    BY <2>3, <2>4, <2>5 DEF IInv
<1>5. ASSUME HandshakeDone PROVE IInv'
  <2>1. TypeOK'
    <3>1. NoFirst \in First /\ header_timeout \in 0 .. header_timeout
      BY DEF NoFirst, First
    <3>2. first' \in First
      BY <1>5, <3>1 DEF HandshakeDone, NewFirst, First
    <3> QED
      BY <1>5, <3>2 DEF IInv, TypeOK, HandshakeDone, First, Clock
  <2>2. SharesExact'
    BY <1>5 DEF IInv, SharesExact, Of, HandshakeDone
  <2>3. FirstQuiet' /\ Unopened'
    BY <1>5 DEF IInv, FirstQuiet, Unopened, HandshakeDone, NewFirst, NoFirst, NewDoing
  <2> QED
    BY <2>1, <2>2, <2>3 DEF IInv
<1> QED
  BY <1>1, <1>2, <1>3, <1>4, <1>5

\* The counts stay exact while the gate and the connections of others do not
\* move and this one stays open.
LEMMA SharesStay ==
  ASSUME SharesExact, phase = "open", UNCHANGED <<open, others, phase>>
  PROVE  SharesExact'
BY DEF SharesExact, Of

\* Waking the reader, and letting it sleep, leaves it a task.
LEMMA TaskTypes == task \in Task => Woken \in Task /\ (Sleeps => task' \in Task)
<1> SUFFICES ASSUME task \in Task PROVE Woken \in Task /\ (Sleeps => task' \in Task)
  OBVIOUS
<1>1. Woken \in Task
  BY DEF Task, Woken
<1>2. ASSUME Sleeps PROVE task' \in Task
  <2>1. CASE task.again
    BY <1>2, <2>1 DEF Task, Sleeps
  <2>2. CASE ~task.again
    BY <1>2, <2>2 DEF Task, Sleeps
  <2> QED
    BY <2>1, <2>2
<1> QED
  BY <1>1, <1>2

\* A moment less on a clock, and whether it is still set.
LEMMA LaterTypes ==
  ASSUME first \in First,
         idle \in Clock
  PROVE  /\ Later(first) \in First
         /\ Later(idle) \in Clock
<1> DEFINE less(n) == IF n > 0 THEN n - 1 ELSE 0
           still(clock) == clock.set /\ clock.left > 1
<1>1. less(first.left) \in 0 .. header_timeout /\ less(idle.left) \in 0 .. header_timeout
  BY ConnectionsAssumption DEF Clock, First
<1>2. still(first) \in BOOLEAN /\ still(idle) \in BOOLEAN
  OBVIOUS
<1>3. /\ Later(first) = [first EXCEPT !.left = less(first.left), !.set = still(first)]
      /\ Later(idle) = [idle EXCEPT !.left = less(idle.left), !.set = still(idle)]
  BY Zenon DEF Later, Clock
<1> HIDE DEF less, still
<1> QED
  BY <1>1, <1>2, <1>3 DEF Clock, First

\* What an open connection's client, answers, clocks and reader do keeps the
\* invariant: the first request ends the wait for the first bytes, or is short.
LEMMA OpenKeeps ==
  ASSUME IInv,
         \/ \E what \in {"bytes", "request", "pong", "end"} : Sends(what)
         \/ AnswerEnds \/ Tick \/ Pings \/ PingUnanswered \/ Reader
  PROVE  IInv'
<1> USE ConnectionsAssumption
<1>1. ASSUME NEW what \in {"bytes", "request", "pong", "end"}, Sends(what) PROVE IInv'
  <2>1. TypeOK'
    BY <1>1 DEF IInv, TypeOK, Sends, Woken, Clock
  <2>2. SharesExact'
    BY <1>1, SharesStay DEF IInv, Sends
  <2>3. FirstQuiet' /\ Unopened'
    BY <1>1 DEF IInv, FirstQuiet, Unopened, Sends
  <2> QED
    BY <2>1, <2>2, <2>3 DEF IInv
<1>2. ASSUME AnswerEnds PROVE IInv'
  <2>1. TypeOK'
    <3>1. task' \in Task
      BY <1>2, TaskTypes DEF IInv, TypeOK, Task, AnswerEnds
    <3>2. doing.answering - 1 \in Nat /\ 0 \in 0 .. header_timeout
      BY <1>2 DEF IInv, TypeOK, AnswerEnds
    <3>3. (doing.reader /\ ~(doing.answering = 1)) \in BOOLEAN
      OBVIOUS
    <3>4. doing' \in Doing
      BY <1>2, <3>2, <3>3 DEF IInv, TypeOK, AnswerEnds, Doing
    <3> QED
      BY <1>2, <3>1, <3>4 DEF IInv, TypeOK, AnswerEnds, Task, Doing, Clock
  <2>2. SharesExact'
    BY <1>2, SharesStay DEF IInv, AnswerEnds
  <2>3. FirstQuiet' /\ Unopened'
    BY <1>2 DEF IInv, TypeOK, FirstQuiet, Unopened, AnswerEnds
  <2> QED
    BY <2>1, <2>2, <2>3 DEF IInv
<1>3. ASSUME Tick PROVE IInv'
  <2>1. TypeOK'
    <3>1. task' \in Task
      BY <1>3, TaskTypes DEF IInv, TypeOK, Task, Tick
    <3>2. doing' \in Doing
      BY <1>3 DEF IInv, TypeOK, Tick, Doing
    <3>3. idle' \in Clock
      BY <1>3, LaterTypes DEF IInv, TypeOK, Tick, First
    <3>4. first' \in First
      BY <1>3, LaterTypes DEF IInv, TypeOK, Tick, First
    <3>5. ping' \in Ping
      BY <1>3 DEF IInv, TypeOK, Tick, Ping
    <3> QED
      BY <1>3, <3>1, <3>2, <3>3, <3>4, <3>5 DEF IInv, TypeOK, Tick, Task, Doing, First, Ping
  <2>2. SharesExact'
    BY <1>3, SharesStay DEF IInv, Tick
  <2>3. FirstQuiet' /\ Unopened'
    BY <1>3 DEF IInv, TypeOK, FirstQuiet, Unopened, Tick, Later
  <2> QED
    BY <2>1, <2>2, <2>3 DEF IInv
<1>4. ASSUME ReadsBytes PROVE IInv'
  <2>1. TypeOK'
    BY <1>4 DEF IInv, TypeOK, ReadsBytes, FirstAfter, Said, NoFirst, Clock
  <2>2. SharesExact'
    BY <1>4, SharesStay DEF IInv, ReadsBytes
  <2>3. FirstQuiet' /\ Unopened'
    BY <1>4 DEF IInv, TypeOK, FirstQuiet, Unopened, ReadsBytes, FirstAfter, NoFirst
  <2> QED
    BY <2>1, <2>2, <2>3 DEF IInv
<1>5. ASSUME ReadsRequest PROVE IInv'
  <2>1. PICK bytes \in 1..FIRST_BYTES :
          first' = [FirstAfter(bytes) EXCEPT
                      !.short = @ \/ (first.on /\ first.seen + bytes < FIRST_BYTES)]
    BY <1>5 DEF ReadsRequest
  <2>2. first \in First /\ FirstAfter(bytes) \in First
    BY DEF IInv, TypeOK, First, FirstAfter, NoFirst
  <2> DEFINE few == first.on /\ first.seen + bytes < FIRST_BYTES
  <2>3. first' = [FirstAfter(bytes) EXCEPT !.short = @ \/ few] /\ few \in BOOLEAN
    BY <2>1
  <2>4. first.on /\ ~few => ~FirstAfter(bytes).on
    BY <2>2 DEF FirstAfter, Said, NoFirst, First
  <2>5. ~first.on => ~FirstAfter(bytes).on
    BY DEF FirstAfter
  <2> HIDE DEF few
  <2>6. first' \in First /\ (first'.on => first'.short)
    <3>1. first' \in First
      BY <2>2, <2>3 DEF First
    <3>2. CASE few
      BY <2>2, <2>3, <3>2 DEF First
    <3>3. CASE ~few
      <4>1. ~FirstAfter(bytes).on
        BY <2>4, <2>5, <3>3
      <4> QED
        BY <2>2, <2>3, <4>1 DEF First
    <3> QED
      BY <3>1, <3>2, <3>3
  <2>7. TypeOK'
    BY <1>5, <2>6 DEF IInv, TypeOK, ReadsRequest, First, Clock
  <2>8. SharesExact'
    BY <1>5, SharesStay DEF IInv, ReadsRequest
  <2>9. FirstQuiet' /\ Unopened'
    BY <1>5, <2>6 DEF FirstQuiet, Unopened, ReadsRequest
  <2> QED
    BY <2>7, <2>8, <2>9 DEF IInv
<1>6. ASSUME ReadsEnd \/ FirstTooLate \/ IdleTooLong \/ PingUnanswered PROVE IInv'
  BY <1>6, CloseKeeps DEF ReadsEnd, FirstTooLate, IdleTooLong, PingUnanswered
<1>7. ASSUME ReadsNothing PROVE IInv'
  <2>1. TypeOK'
    BY <1>7 DEF IInv, TypeOK, ReadsNothing, Clock
  <2>2. SharesExact'
    BY <1>7, SharesStay DEF IInv, ReadsNothing
  <2>3. FirstQuiet' /\ Unopened'
    BY <1>7 DEF IInv, TypeOK, FirstQuiet, Unopened, ReadsNothing
  <2> QED
    BY <2>1, <2>2, <2>3 DEF IInv
<1>8. ASSUME StillAnswering PROVE IInv'
  <2>1. TypeOK'
    BY <1>8 DEF IInv, TypeOK, StillAnswering, ToldAfterwards, Sleeps, Clock
  <2>2. SharesExact'
    BY <1>8, SharesStay DEF IInv, StillAnswering
  <2>3. FirstQuiet' /\ Unopened'
    BY <1>8 DEF IInv, TypeOK, FirstQuiet, Unopened, StillAnswering, ToldAfterwards
  <2> QED
    BY <2>1, <2>2, <2>3 DEF IInv
<1>9. ASSUME IdleForNow PROVE IInv'
  <2>1. TypeOK'
    <3>1. task' \in Task
      BY <1>9, TaskTypes DEF IInv, TypeOK, Task, IdleForNow
    <3>2. doing' \in Doing
      BY <1>9 DEF IInv, TypeOK, IdleForNow, ToldAfterwards, Doing
    <3>3. idle' \in Clock
      BY <1>9 DEF IInv, TypeOK, IdleForNow, Left, Clock
    <3> QED
      BY <1>9, <3>1, <3>2, <3>3 DEF IInv, TypeOK, IdleForNow, Task, Doing
  <2>2. SharesExact'
    BY <1>9, SharesStay DEF IInv, IdleForNow
  <2>3. FirstQuiet' /\ Unopened'
    BY <1>9 DEF IInv, TypeOK, FirstQuiet, Unopened, IdleForNow, ToldAfterwards
  <2> QED
    BY <2>1, <2>2, <2>3 DEF IInv
<1>10. ASSUME Pings PROVE IInv'
  <2>1. TypeOK'
    BY <1>10 DEF IInv, TypeOK, Pings, Clock
  <2>2. SharesExact'
    BY <1>10, SharesStay DEF IInv, Pings
  <2>3. FirstQuiet' /\ Unopened'
    BY <1>10 DEF IInv, FirstQuiet, Unopened, Pings
  <2> QED
    BY <2>1, <2>2, <2>3 DEF IInv
<1>11. ASSUME ReadsPong PROVE IInv'
  <2>1. TypeOK'
    BY <1>11 DEF IInv, TypeOK, ReadsPong, FirstAfter, Said, NoFirst, NoPing, Clock
  <2>2. SharesExact'
    BY <1>11, SharesStay DEF IInv, ReadsPong
  <2>3. FirstQuiet' /\ Unopened'
    BY <1>11 DEF IInv, TypeOK, FirstQuiet, Unopened, ReadsPong, FirstAfter, NoFirst
  <2> QED
    BY <2>1, <2>2, <2>3 DEF IInv
<1> QED
  BY <1>1, <1>2, <1>3, <1>4, <1>5, <1>6, <1>7, <1>8, <1>9, <1>10, <1>11 DEF Reader

\* Every step keeps the invariant.
LEMMA NextKeeps == IInv /\ [Next]_vars => IInv'
<1> SUFFICES ASSUME IInv, [Next]_vars PROVE IInv'
  OBVIOUS
<1>1. CASE UNCHANGED vars
  BY <1>1 DEF IInv, TypeOK, SharesExact, Of, FirstQuiet, Unopened, vars, connection, Clock
<1>2. CASE Next
  BY <1>2, GateKeeps, OpenKeeps DEF Next
<1> QED
  BY <1>1, <1>2

\* A step that ends an open connection the client has not ended is one of the
\* two deadlines or a ping that was lost, and both deadlines mean that nothing was
\* answered for the timeout.
LEMMA EndsIdle ==
  ASSUME IInv, [Next]_vars, phase = "open", phase' = "none", inbox # "end",
         ~PingLost, ~CutOffShort
  PROVE  doing.answering = 0 /\ doing.idle_for = header_timeout
<1>1. FirstTooLate \/ IdleTooLong
  <2>1. ~PingUnanswered
    BY DEF PingUnanswered, PingLost
  <2> QED
    BY <2>1
    DEF Next, vars, connection, Reader, OtherOpens, OtherCloses, Accepts, HandshakeFails,
        HandshakeDone, Sends, AnswerEnds, Tick, Pings, ReadsBytes, ReadsRequest, ReadsPong,
        ReadsEnd, ReadsNothing, StillAnswering, IdleForNow
<1>2. CASE FirstTooLate
  BY <1>2, ConnectionsAssumption DEF IInv, TypeOK, FirstQuiet, FirstTooLate, CutOffShort
<1>3. CASE IdleTooLong
  BY <1>3, ConnectionsAssumption DEF IInv, TypeOK, IdleTooLong, Left
<1> QED
  BY <1>1, <1>2, <1>3

----------------------------------------------------------------------------
(* All connections together.                                               *)

\* One connection more at an address is one more in all.
LEMMA OneMore ==
  ASSUME NEW a \in Addresses, NEW f \in [Addresses -> Nat], NEW g \in [Addresses -> Nat],
         g[a] = f[a] + 1, \A b \in Addresses \ {a} : g[b] = f[b],
         IsFiniteSet(Numbered(f))
  PROVE  /\ IsFiniteSet(Numbered(g))
         /\ Cardinality(Numbered(g)) = Cardinality(Numbered(f)) + 1
<1> DEFINE new == <<a, g[a]>>
<1>1. Numbered(g) = Numbered(f) \cup {new}
  <2>1. \A p \in Numbered(g) : p \in Numbered(f) \/ p = new
    BY DEF Numbered
  <2>2. Numbered(f) \subseteq Numbered(g) /\ new \in Numbered(g)
    BY DEF Numbered
  <2> QED
    BY <2>1, <2>2
<1>2. new \notin Numbered(f)
  BY DEF Numbered
<1> HIDE DEF new
<1> QED
  BY <1>1, <1>2, FS_AddElement

\* The gate's step: it lets one in, takes one off, or leaves the counts alone.
LEMMA GateMoves ==
  ASSUME IInv, [Next]_vars
  PROVE  \/ UNCHANGED open
         \/ \E a \in Addresses : Room(a) /\ open' = Admitted(a)
         \/ \E a \in Addresses : open.by_address[a] > 0 /\ open' = Dropped(a)
<1>1. Home \in Addresses /\ \A a \in Addresses : Of(a) > 0 => open.by_address[a] > 0
  BY ConnectionsAssumption DEF IInv, SharesExact
<1>2. phase # "none" => Of(Home) > 0
  BY <1>1 DEF IInv, TypeOK, Of
<1>3. \A a \in Addresses : OtherCloses(a) => Of(a) > 0
  BY DEF IInv, TypeOK, Of, OtherCloses
<1>4. ASSUME NEW a \in Addresses, OtherOpens(a) \/ OtherCloses(a)
      PROVE  \/ Room(a) /\ open' = Admitted(a)
             \/ open.by_address[a] > 0 /\ open' = Dropped(a)
  BY <1>1, <1>3, <1>4 DEF OtherOpens, OtherCloses
<1>5. Accepts => Room(Home) /\ open' = Admitted(Home)
  BY DEF Accepts
<1>6. HandshakeFails \/ ReadsEnd \/ FirstTooLate \/ IdleTooLong \/ PingUnanswered
        => open.by_address[Home] > 0 /\ open' = Dropped(Home)
  BY <1>1, <1>2 DEF HandshakeFails, ReadsEnd, FirstTooLate, IdleTooLong, PingUnanswered, Closes
<1>7. ASSUME \/ HandshakeDone \/ \E what \in {"bytes", "request", "pong", "end"} : Sends(what)
             \/ AnswerEnds \/ Tick \/ Pings \/ ReadsBytes \/ ReadsRequest \/ ReadsPong
             \/ ReadsNothing \/ StillAnswering \/ IdleForNow
      PROVE  UNCHANGED open
  BY <1>7 DEF HandshakeDone, Sends, AnswerEnds, Tick, Pings, ReadsBytes, ReadsRequest, ReadsPong,
         ReadsNothing, StillAnswering, IdleForNow
<1>8. CASE \E a \in Addresses : OtherOpens(a) \/ OtherCloses(a)
  <2>1. PICK a \in Addresses : OtherOpens(a) \/ OtherCloses(a)
    BY <1>8
  <2>2. \/ Room(a) /\ open' = Admitted(a)
        \/ open.by_address[a] > 0 /\ open' = Dropped(a)
    BY <1>4, <2>1
  <2> QED
    BY <2>2
<1>9. CASE Accepts
  BY <1>1, <1>5, <1>9
<1>10. CASE HandshakeFails \/ ReadsEnd \/ FirstTooLate \/ IdleTooLong \/ PingUnanswered
  BY <1>1, <1>6, <1>10
<1>11. CASE UNCHANGED vars
  BY <1>11 DEF vars
<1>12. CASE Next
  <2>1. \/ \E a \in Addresses : OtherOpens(a) \/ OtherCloses(a)
        \/ Accepts
        \/ HandshakeFails \/ ReadsEnd \/ FirstTooLate \/ IdleTooLong \/ PingUnanswered
        \/ HandshakeDone \/ \E what \in {"bytes", "request", "pong", "end"} : Sends(what)
        \/ AnswerEnds \/ Tick \/ Pings \/ ReadsBytes \/ ReadsRequest \/ ReadsPong
        \/ ReadsNothing \/ StillAnswering \/ IdleForNow
    BY <1>12, Zenon DEF Next, Reader
  <2>2. CASE \/ HandshakeDone \/ \E what \in {"bytes", "request", "pong", "end"} : Sends(what)
             \/ AnswerEnds \/ Tick \/ Pings \/ ReadsBytes \/ ReadsRequest \/ ReadsPong
             \/ ReadsNothing \/ StillAnswering \/ IdleForNow
    BY <1>7, <2>2
  <2> QED
    BY <1>8, <1>9, <1>10, <2>1, <2>2, Zenon
<1> QED
  BY <1>11, <1>12

\* What is counted, by address and in all, stays the same number.
LEMMA TotalKeeps == IInv /\ IInv' /\ TotalInv /\ [Next]_vars => TotalInv'
<1> SUFFICES ASSUME IInv, IInv', TotalInv, [Next]_vars PROVE TotalInv'
  OBVIOUS
<1> USE ConnectionsAssumption
<1> DEFINE f == open.by_address
           g == open'.by_address
<1>1. f \in [Addresses -> Nat] /\ g \in [Addresses -> Nat] /\ open.all \in 0 .. max
  BY DEF IInv, TypeOK
<1>2. IsFiniteSet(Numbered(f)) /\ open.all = Cardinality(Numbered(f))
  BY DEF TotalInv
<1>3. CASE UNCHANGED open
  BY <1>3 DEF TotalInv
<1>4. ASSUME NEW a \in Addresses, Room(a), open' = Admitted(a) PROVE TotalInv'
  <2>1. /\ g[a] = f[a] + 1 /\ \A b \in Addresses \ {a} : g[b] = f[b]
        /\ open'.all = open.all + 1
    BY <1>1, <1>4 DEF Admitted
  <2> HIDE DEF f, g
  <2>2. IsFiniteSet(Numbered(g)) /\ Cardinality(Numbered(g)) = Cardinality(Numbered(f)) + 1
    BY <1>1, <1>2, <2>1, OneMore
  <2> QED
    BY <1>2, <2>1, <2>2 DEF TotalInv, g
<1>5. ASSUME NEW a \in Addresses, f[a] > 0, open' = Dropped(a) PROVE TotalInv'
  <2>1. f[a] = g[a] + 1 /\ \A b \in Addresses \ {a} : f[b] = g[b]
    BY <1>1, <1>5 DEF Dropped
  <2>2. open'.all = IF open.all > 0 THEN open.all - 1 ELSE 0
    BY <1>5 DEF Dropped
  <2> HIDE DEF f, g
  <2>3. Numbered(g) \subseteq Numbered(f)
    BY <1>1, <2>1 DEF Numbered
  <2>4. IsFiniteSet(Numbered(g))
    BY <1>2, <2>3, FS_Subset
  <2>5. Cardinality(Numbered(f)) = Cardinality(Numbered(g)) + 1
    BY <1>1, <2>1, <2>4, OneMore
  <2>6. Cardinality(Numbered(g)) \in Nat
    BY <2>4, FS_CardinalityType
  <2>7. open'.all = Cardinality(Numbered(g))
    BY <1>2, <2>2, <2>5, <2>6
  <2> QED
    BY <2>4, <2>7 DEF TotalInv, g
<1> QED
  BY <1>3, <1>4, <1>5, GateMoves

\* A new server has no connections and counts none.
LEMMA InitTotal == Init => TotalInv
<1> SUFFICES ASSUME Init PROVE TotalInv
  OBVIOUS
<1>1. Numbered(open.by_address) = {}
  BY DEF Init, Numbered
<1> QED
  BY <1>1, FS_EmptySet DEF Init, TotalInv

\* The gate (Gate::admit, Admitted::drop) counts exactly the connections there
\* are, by address and in all, and neither passes its limit, whatever it is.
THEOREM GateCorrect == Spec => [](TypeOK /\ GateExact)
<1>1. IInv /\ TotalInv => TypeOK /\ GateExact
  <2> SUFFICES ASSUME IInv, TotalInv PROVE GateExact
    BY DEF IInv
  <2>1. Connected = Numbered(open.by_address)
    BY DEF Connected, Numbered, IInv, SharesExact
  <2> QED
    BY <2>1, ConnectionsAssumption DEF GateExact, TotalExact, TotalInv, IInv, TypeOK
<1>2. Spec => []IInv
  BY InitIInv, NextKeeps, PTL DEF Spec
<1>3. Spec => []TotalInv
  BY <1>2, InitTotal, TotalKeeps, PTL DEF Spec
<1> QED
  BY <1>1, <1>2, <1>3, PTL

\* No deadline of poll_read cuts an answer short, and none ends a connection
\* before its whole timeout without an answer, unless the first request was shorter
\* than FIRST_BYTES; only a ping that was not answered may.
THEOREM AnswersFinish == Spec => NeverCutShort
<1>1. IInv /\ [Next]_vars
        => [phase = "open" /\ phase' = "none" /\ inbox # "end" /\ ~PingLost /\ ~CutOffShort
              => doing.answering = 0 /\ doing.idle_for = header_timeout]_vars
  BY EndsIdle
<1> QED
  BY InitIInv, NextKeeps, <1>1, PTL DEF Spec, NeverCutShort

----------------------------------------------------------------------------
(* The places of an account's requests are counted exactly, for any        *)
(* limits, and the connection that carries them is still that of           *)
(* Connections: what is proved there holds here.                           *)


Stages == [asked : Nat, worked_on : Nat, page : Nat]

PlacesTyped ==
  /\ going \in [Places -> Nat]
  /\ here \in [Places -> Stages]
  /\ elsewhere \in [Places -> Nat]

PlacesInv == PlacesTyped /\ PlacesExact

\* A server that just started has nothing going.
LEMMA InitPlaces == AnswersInit => PlacesInv
BY AnswersAssumption
DEF AnswersInit, PlacesInv, PlacesTyped, Stages, PlacesExact, HeldHere, NoneHere

\* start: a place that is taken is one that was left.
LEMMA TakenKeeps ==
  ASSUME PlacesInv, NEW k \in Places, Starts(k) \/ ElsewhereStarts(k)
  PROVE  PlacesInv'
<1> USE AnswersAssumption DEF PlacesInv, PlacesTyped, Stages, PlacesExact, HeldHere
<1>1. CASE Starts(k)
  BY <1>1 DEF Starts, PlaceLeft, Moves, Taken
<1>2. CASE ElsewhereStarts(k)
  BY <1>2 DEF ElsewhereStarts, PlaceLeft, Taken
<1> QED
  BY <1>1, <1>2

\* Going::drop: a place that is given back was held.
LEMMA GivenBackKeeps ==
  ASSUME PlacesInv, NEW k \in Places, NEW stage \in {"asked", "worked_on", "page"},
         WorkEnds(k) \/ ElsewhereEnds(k) \/ RequestEnds(k, stage)
  PROVE  PlacesInv'
<1> USE AnswersAssumption DEF PlacesInv, PlacesTyped, Stages, PlacesExact, HeldHere
<1>1. CASE WorkEnds(k)
  BY <1>1 DEF WorkEnds, Leaves, GivenBack
<1>2. CASE ElsewhereEnds(k)
  BY <1>2 DEF ElsewhereEnds, GivenBack
<1>3. CASE RequestEnds(k, stage)
  <2>1. CASE stage = "asked"
    BY <1>3, <2>1 DEF RequestEnds, Leaves
  <2>2. CASE stage = "worked_on"
    BY <1>3, <2>2 DEF RequestEnds, Leaves, GivenBack
  <2>3. CASE stage = "page"
    BY <1>3, <2>3 DEF RequestEnds, Leaves, GivenBack
  <2> QED
    BY <2>1, <2>2, <2>3
<1> QED
  BY <1>1, <1>2, <1>3

\* A connection that ends gives back what its requests held, or leaves it with
\* those that go on.
LEMMA DroppedKeeps == PlacesInv /\ RequestsDropped => PlacesInv'
<1> SUFFICES ASSUME PlacesInv, RequestsDropped PROVE PlacesInv'
  OBVIOUS
<1> USE AnswersAssumption, ConnectionsAssumption
    DEF PlacesInv, PlacesTyped, Stages, PlacesExact, HeldHere
<1>1. PICK late \in [Places -> 0..H2_STREAMS] :
        /\ \A k \in Places : late[k] <= here[k].worked_on + here[k].page
        /\ here' = NoneHere
        /\ elsewhere' = [k \in Places |-> elsewhere[k] + late[k]]
        /\ going' = [k \in Places |-> going[k] - (here[k].worked_on + here[k].page - late[k])]
  BY DEF RequestsDropped
<1>2. ASSUME NEW k \in Places
      PROVE  /\ here'[k] = [asked |-> 0, worked_on |-> 0, page |-> 0]
             /\ elsewhere'[k] = elsewhere[k] + late[k]
             /\ going'[k] = elsewhere'[k]
             /\ elsewhere'[k] \in Nat
             /\ going'[k] <= AT_ONCE[k]
  BY <1>1, <1>2 DEF NoneHere
<1>3. PlacesTyped'
  BY <1>1, <1>2 DEF NoneHere
<1>4. PlacesExact'
  BY <1>2, <1>3
<1> QED
  BY <1>3, <1>4

\* Every step keeps the places exact.
LEMMA StepPlaces == PlacesInv /\ [AnswersNext]_everything => PlacesInv'
<1> SUFFICES ASSUME PlacesInv, [AnswersNext]_everything PROVE PlacesInv'
  OBVIOUS
<1>1. CASE UNCHANGED places
  BY <1>1 DEF places, PlacesInv, PlacesTyped, PlacesExact, HeldHere
<1>2. CASE Arrives
  BY <1>2 DEF Arrives, PlacesInv, PlacesTyped, Stages, PlacesExact, HeldHere
<1>3. CASE Pulled
  BY <1>3 DEF Pulled, PageMade, Moves, Places, PlacesInv, PlacesTyped, Stages, PlacesExact, HeldHere
<1>4. CASE ConnectionEnds
  BY <1>4, DroppedKeeps DEF ConnectionEnds
<1>5. ASSUME NEW k \in Places, Refused(k) PROVE PlacesInv'
  BY <1>5 DEF Refused, Leaves, PlacesInv, PlacesTyped, Stages, PlacesExact, HeldHere
<1>6. ASSUME NEW k \in Places, Starts(k) \/ ElsewhereStarts(k) PROVE PlacesInv'
  BY <1>6, TakenKeeps
<1>7. ASSUME NEW k \in Places, NEW stage \in {"asked", "worked_on", "page"},
             WorkEnds(k) \/ ElsewhereEnds(k) \/ RequestEnds(k, stage)
      PROVE  PlacesInv'
  BY <1>7, GivenBackKeeps
<1> QED
  BY <1>1, <1>2, <1>3, <1>4, <1>5, <1>6, <1>7 DEF AnswersNext, OtherEnds, everything

\* For any limits, what an account has going is what holds a place, and no
\* more than there is room for (start, Going, Holding).
THEOREM PlacesCorrect == AnswersSpec => []PlacesExact
<1>1. PlacesInv => PlacesExact
  BY DEF PlacesInv
<1> QED
  BY <1>1, InitPlaces, StepPlaces, PTL DEF AnswersSpec

\* A step with places is a step of the connection, or none of its business.
LEMMA StepIsStep == [AnswersNext]_everything => [Next]_vars
<1> SUFFICES ASSUME [AnswersNext]_everything PROVE [Next]_vars
  OBVIOUS
<1>1. CASE UNCHANGED vars
  BY <1>1
<1>2. CASE Meanwhile
  BY <1>2 DEF Meanwhile, Next, Reader
<1>3. CASE Arrives \/ ConnectionEnds
  BY <1>3 DEF Arrives, ConnectionEnds, Next, Reader
<1>4. CASE AnswerEnds
  BY <1>4 DEF Next
<1> QED
  BY <1>1, <1>2, <1>3, <1>4
  DEF AnswersNext, everything, Pulled, Starts, Refused, WorkEnds, RequestEnds, OtherEnds,
      ElsewhereStarts, ElsewhereEnds

\* The connection with its requests and their places implements the one that
\* only counts answers, so what is proved of the one holds of the other.
THEOREM AnswersImplement == AnswersSpec => Spec
<1>1. AnswersInit => Init
  BY DEF AnswersInit
<1> QED
  BY <1>1, StepIsStep, PTL DEF AnswersSpec, Spec

=============================================================================
