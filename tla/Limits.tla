------------------------------- MODULE Limits -------------------------------
(***************************************************************************)
(* The rate limiter of limits.rs: one bucket, with its table of addresses  *)
(* and the table of accounts and devices, and requests that are counted    *)
(* when they arrive and taken back when they turn out well.                *)
(*                                                                         *)
(* Time is a clock that ticks.  An attempt is counted at the tick it comes *)
(* in, and turns out well or badly at any tick after.                      *)
(***************************************************************************)
EXTENDS Integers, Sequences, FiniteSets

CONSTANTS
  Addresses,         \* who is counted by address
  Members,           \* accounts and devices, counted as such
  Networks, NetworkOf, \* the network each address is in
  Everybody,         \* the count shared by whoever has no other
  max, window,       \* the bucket
  Coarsen,           \* whether a full bucket counts by network, or not at all
  Forgives,          \* whether an attempt that turns out well is taken back
  MAX_ADDRESSES, MAX_NETWORKS,
  SWEEP_EVERY, SWEEP_WHEN_FULL,
  Workers,           \* requests at once
  MaxNow             \* bound: the clock stops here

ASSUME LimitsAssumption ==
  /\ IsFiniteSet(Addresses) /\ IsFiniteSet(Networks) /\ IsFiniteSet(Workers)
  /\ NetworkOf \in [Addresses -> Networks]
  /\ Members \cap (Addresses \cup Networks) = {} /\ Everybody \notin Members
  /\ max \in Nat \ {0} /\ window \in Nat \ {0}
  /\ Coarsen \in BOOLEAN /\ Forgives \in BOOLEAN
  /\ MAX_ADDRESSES \in Nat \ {0} /\ MAX_NETWORKS \in Nat
  /\ SWEEP_EVERY \in Nat \ {0} /\ SWEEP_WHEN_FULL \in Nat \ {0}
  /\ MaxNow \in Nat

VARIABLES
  now,         \* the clock
  held,        \* whom the tables remember: addresses, networks, members
  at,          \* when each of them tried, oldest first
  swept,       \* when the tables were last swept
  swept_full,  \* when the address table was last swept because it was full
  attempt,     \* the requests being worked on
  failed       \* history: the tries of each member that did not turn out well
               \* while in the window, <<t, n>> being the n-th of those made at t

vars == <<now, held, at, swept, swept_full, attempt, failed>>

----------------------------------------------------------------------------

Who == Addresses \cup Members
Keys == Who \cup Networks \cup {Everybody}
NoAttempt == [at |-> "idle", who |-> Everybody, since |-> 0]

Init ==
  /\ now = 0
  /\ held = {}
  /\ at = [k \in Keys |-> <<>>]
  /\ swept = 0
  /\ swept_full = -SWEEP_WHEN_FULL
  /\ attempt = [w \in Workers |-> NoAttempt]
  /\ failed = [m \in Members |-> {}]

\* Tries that still count: those that left the window are dropped from the front.
Recent(times) ==
  LET gone == {i \in DOMAIN times : \A j \in 1..i : now - times[j] >= window}
  IN  SubSeq(times, Cardinality(gone) + 1, Len(times))

\* Mutant: whoever has a try that left the window is forgotten.
SweepByOldest(h) == {k \in h : at[k] # <<>> /\ now - at[k][1] < window}

\* Whoever's last try left the window is forgotten.
Sweep(h) == {k \in h : at[k] # <<>> /\ now - at[k][Len(at[k])] < window}

InTable(h) == Cardinality(h \ Members)

\* The sweep that is due once a minute.
AfterSweep == IF now - swept >= SWEEP_EVERY THEN Sweep(held) ELSE held

\* An address the full table does not know.
Newcomer(who, h) == who \in Addresses \ h /\ InTable(h) >= MAX_ADDRESSES

\* Before a newcomer is counted coarser, the address table is swept, but not
\* more than once a second.
SweepsForRoom(who) == Newcomer(who, AfterSweep) /\ now - swept_full >= SWEEP_WHEN_FULL
WithRoom(who) ==
  IF SweepsForRoom(who) THEN Sweep(AfterSweep) \cup (AfterSweep \cap Members) ELSE AfterSweep

\* Mutant: there is always room for one more network.
CoarserUnbounded(who, h) == NetworkOf[who]

\* The network, or the one count everybody else shares.
Coarser(who, h) ==
  IF NetworkOf[who] \in h \/ InTable(h) < MAX_ADDRESSES + MAX_NETWORKS
  THEN NetworkOf[who] ELSE Everybody

\* Mutant: newcomers share a count with whoever else is new.
CountedAsEverybody(who, h) == IF who \in h THEN who ELSE Everybody

\* Under which key an attempt is counted.
CountedAs(who, h) == IF Newcomer(who, h) THEN Coarser(who, h) ELSE who

TooMany(past) == Len(past) >= max

\* RateLimiter::count.
Counted(w, who) ==
  LET h == WithRoom(who)
      uncounted == Newcomer(who, h) /\ ~Coarsen
      key == CountedAs(who, h)
      past == IF key \in h THEN Recent(at[key]) ELSE <<>>
      refused == ~uncounted /\ TooMany(past)
  IN  /\ attempt[w].at = "idle"
      /\ held' = IF uncounted THEN h ELSE h \cup {key}
      /\ at' = [k \in Keys |-> IF k \notin held' THEN <<>>
                               ELSE IF uncounted \/ k # key THEN at[k]
                               ELSE IF refused THEN past ELSE Append(past, now)]
      /\ swept' = IF now - swept >= SWEEP_EVERY THEN now ELSE swept
      /\ swept_full' = IF SweepsForRoom(who) THEN now ELSE swept_full
      /\ attempt' = [attempt EXCEPT ![w] =
                       [at |-> IF refused THEN "refused" ELSE "tried", who |-> who, since |-> now]]
      /\ UNCHANGED <<now, failed>>

\* One more failed try of those made at t.
OneMore(tries, t) == tries \cup {<<t, Cardinality({x \in tries : x[1] = t}) + 1>>}

\* Answered with nothing taken back, a try still in the window has failed.
Fails(w, m) ==
  attempt[w].at = "tried" /\ attempt[w].who = m /\ now - attempt[w].since < window

Answered(w) ==
  /\ attempt[w].at # "idle"
  /\ failed' = [m \in Members |->
                  IF Fails(w, m) THEN OneMore(failed[m], attempt[w].since) ELSE failed[m]]
  /\ attempt' = [attempt EXCEPT ![w] = NoAttempt]
  /\ UNCHANGED <<now, held, at, swept, swept_full>>

\* forgive: the newest try goes, of whoever it was counted for by name.
Forgiven(w) ==
  LET who == attempt[w].who
  IN  /\ Forgives
      /\ attempt[w].at = "tried"
      /\ at' = [at EXCEPT ![who] = IF @ = <<>> THEN @ ELSE SubSeq(@, 1, Len(@) - 1)]
      /\ attempt' = [attempt EXCEPT ![w] = NoAttempt]
      /\ UNCHANGED <<now, held, swept, swept_full, failed>>

Tick ==
  /\ now < MaxNow
  /\ now' = now + 1
  /\ failed' = [m \in Members |-> {x \in failed[m] : now' - x[1] < window}]
  /\ UNCHANGED <<held, at, swept, swept_full, attempt>>

Next ==
  \/ \E w \in Workers :
       \/ \E who \in Who : Counted(w, who)
       \/ Answered(w) \/ Forgiven(w)
  \/ Tick

Spec == Init /\ [][Next]_vars

----------------------------------------------------------------------------
(* What must hold.                                                         *)

\* Every variable has its type, and nobody has more tries remembered than its
\* bucket has (RateLimiter::count).
TypeOK ==
  /\ now \in 0..MaxNow
  /\ held \subseteq Keys
  /\ \A k \in Keys : /\ Len(at[k]) <= max
                     /\ \A i \in DOMAIN at[k] : at[k][i] \in 0..now
                     /\ k \notin held => at[k] = <<>>
  /\ swept \in 0..now /\ swept_full \in -SWEEP_WHEN_FULL..now
  /\ \A w \in Workers : /\ attempt[w].at \in {"idle", "tried", "refused"}
                        /\ attempt[w].who \in Who \cup {Everybody}

\* However many addresses are made up, the table does not grow past its room
\* for addresses and for networks, next to the one count for everybody else
\* (MAX_ADDRESSES, MAX_NETWORKS), and neither does what is remembered of one.
TableBounded ==
  /\ TypeOK
  /\ InTable(held \ {Everybody}) <= MAX_ADDRESSES + (IF Coarsen THEN MAX_NETWORKS ELSE 0)

\* The tries of a member that came in after a moment and did not turn out well,
\* as far as known: those that failed and those not answered yet.
Unforgiven(m, moment) ==
  Cardinality({x \in failed[m] : x[1] > moment})
    + Cardinality({w \in Workers : /\ attempt[w].at = "tried" /\ attempt[w].who = m
                                   /\ attempt[w].since > moment})

\* An account or a device gets no more tries into a window than its bucket has
\* that did not turn out well, whoever else is counted and swept meanwhile, and
\* one more for each of its requests that overlap: the try that is taken back is
\* the newest, not the one that turned out well (forgive).
TriesHeld ==
  \A m \in Members : Unforgiven(m, now - window) <= max + Cardinality(Workers) - 1

\* An account or a device is refused for its own tries alone, and never for
\* want of room (members are a table of their own).
RefusedForItsOwn ==
  [][\A w \in Workers :
       attempt[w].at = "idle" /\ attempt'[w].at = "refused" /\ attempt'[w].who \in Members =>
         Unforgiven(attempt'[w].who, now - window) >= max]_vars

=============================================================================
