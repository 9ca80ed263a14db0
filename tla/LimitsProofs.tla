---------------------------- MODULE LimitsProofs ----------------------------
(***************************************************************************)
(* Theorems about the rate limiter for any bucket, any number of           *)
(* addresses, networks, members and requests at once, and any room.        *)
(***************************************************************************)
EXTENDS Limits, FiniteSetTheorems, SequenceTheorems, TLAPS

----------------------------------------------------------------------------
(* Tries as sequences of moments.                                          *)

\* How many tries of a sequence came in after a moment.
NewerAt(times, moment) == {i \in DOMAIN times : times[i] > moment}
Newer(times, moment) == Cardinality(NewerAt(times, moment))

\* Oldest first, and none of them from the future.
InOrder(times) ==
  /\ \A i, j \in DOMAIN times : i <= j => times[i] <= times[j]
  /\ \A i \in DOMAIN times : times[i] \in 0..now

\* A set of positions that holds every one before each it holds is an interval.
LEMMA Initial ==
  ASSUME NEW n \in Nat, NEW S \in SUBSET (1..n),
         \A i \in S : \A j \in 1..i : j \in S
  PROVE  S = 1..Cardinality(S) /\ Cardinality(S) \in 0..n
<1>1. IsFiniteSet(1..n) /\ Cardinality(1..n) = n
  BY FS_Interval
<1>2. IsFiniteSet(S) /\ Cardinality(S) <= Cardinality(1..n)
  BY <1>1, FS_Subset
<1>3. Cardinality(S) \in Nat
  BY <1>2, FS_CardinalityType
<1>4. PICK c \in Nat : c = Cardinality(S)
  BY <1>3
<1>5. ASSUME NEW i \in S PROVE i <= c
  <2>1. i \in 1..n /\ 1..i \subseteq S
    OBVIOUS
  <2>2. Cardinality(1..i) = i
    BY <2>1, FS_Interval
  <2>3. Cardinality(1..i) <= Cardinality(S)
    BY <1>2, <2>1, FS_Subset
  <2> QED
    BY <1>4, <2>2, <2>3
<1>6. S \subseteq 1..c
  BY <1>5
<1>7. IsFiniteSet(1..c) /\ Cardinality(1..c) = c
  BY FS_Interval
<1>8. S = 1..c
  BY <1>4, <1>6, <1>7, FS_Subset
<1>9. c <= n
  BY <1>1, <1>2, <1>4
<1> QED
  BY <1>4, <1>8, <1>9

\* The positions of newer tries are finitely many, no more than there are tries.
LEMMA NewerType ==
  ASSUME NEW times \in Seq(Int), NEW moment \in Int
  PROVE  /\ IsFiniteSet(NewerAt(times, moment))
         /\ Newer(times, moment) \in Nat
         /\ Newer(times, moment) <= Len(times)
<1>1. DOMAIN times = 1..Len(times) /\ Len(times) \in Nat
  BY LenProperties
<1>2. IsFiniteSet(1..Len(times)) /\ Cardinality(1..Len(times)) = Len(times)
  BY <1>1, FS_Interval
<1>3. NewerAt(times, moment) \subseteq 1..Len(times)
  BY <1>1 DEF NewerAt
<1>4. /\ IsFiniteSet(NewerAt(times, moment))
      /\ Cardinality(NewerAt(times, moment)) <= Cardinality(1..Len(times))
  BY <1>2, <1>3, FS_Subset
<1> QED
  BY <1>2, <1>4, FS_CardinalityType DEF Newer

\* Nobody has tried, or nobody since.
LEMMA NewerNone ==
  ASSUME NEW times \in Seq(Int), NEW moment \in Int,
         \A i \in DOMAIN times : times[i] <= moment
  PROVE  Newer(times, moment) = 0
<1>1. NewerAt(times, moment) = {}
  <2> SUFFICES ASSUME NEW i \in NewerAt(times, moment) PROVE FALSE
    OBVIOUS
  <2>1. i \in DOMAIN times /\ times[i] > moment
    BY DEF NewerAt
  <2>2. DOMAIN times = 1..Len(times) /\ times \in [1..Len(times) -> Int]
    BY LenProperties
  <2>3. times[i] \in Int
    BY <2>1, <2>2
  <2> QED
    BY <2>1, <2>3
<1> QED
  BY <1>1, FS_EmptySet DEF Newer

\* One more try.
LEMMA NewerAppend ==
  ASSUME NEW times \in Seq(Int), NEW t \in Int, NEW moment \in Int
  PROVE  Newer(Append(times, t), moment) = Newer(times, moment) + (IF t > moment THEN 1 ELSE 0)
<1>1. PICK n \in Nat : n = Len(times) /\ DOMAIN times = 1..n
  BY LenProperties
<1>2. /\ DOMAIN Append(times, t) = 1..(n + 1)
      /\ \A i \in 1..n : Append(times, t)[i] = times[i]
      /\ Append(times, t)[n + 1] = t
  <2>1. Append(times, t) \in Seq(Int) /\ Len(Append(times, t)) = n + 1
    BY <1>1, AppendProperties
  <2>2. DOMAIN Append(times, t) = 1..(n + 1)
    BY <2>1, LenProperties
  <2> QED
    BY <1>1, <2>2, AppendProperties
<1>3. NewerAt(times, moment) \subseteq 1..n /\ n + 1 \notin NewerAt(times, moment)
  BY <1>1 DEF NewerAt
<1>4. IsFiniteSet(NewerAt(times, moment)) /\ Newer(times, moment) \in Nat
  BY NewerType
<1>5. CASE t > moment
  <2>1. NewerAt(Append(times, t), moment) = NewerAt(times, moment) \cup {n + 1}
    <3>1. 1..(n + 1) = (1..n) \cup {n + 1}
      OBVIOUS
    <3> QED
      BY <1>1, <1>2, <1>5, <3>1 DEF NewerAt
  <2>2. Cardinality(NewerAt(times, moment) \cup {n + 1}) = Cardinality(NewerAt(times, moment)) + 1
    BY <1>3, <1>4, FS_AddElement
  <2> QED
    BY <1>5, <2>1, <2>2 DEF Newer
<1>6. CASE ~(t > moment)
  <2>1. NewerAt(Append(times, t), moment) = NewerAt(times, moment)
    <3>1. 1..(n + 1) = (1..n) \cup {n + 1}
      OBVIOUS
    <3> QED
      BY <1>1, <1>2, <1>6, <3>1 DEF NewerAt
  <2> QED
    BY <1>4, <1>6, <2>1 DEF Newer
<1> QED
  BY <1>5, <1>6

\* The newest try taken back.
LEMMA NewerPop ==
  ASSUME NEW times \in Seq(Int), times # <<>>, NEW moment \in Int
  PROVE  /\ SubSeq(times, 1, Len(times) - 1) \in Seq(Int)
         /\ Len(SubSeq(times, 1, Len(times) - 1)) = Len(times) - 1
         /\ \A i \in 1..(Len(times) - 1) : SubSeq(times, 1, Len(times) - 1)[i] = times[i]
         /\ Newer(times, moment) = Newer(SubSeq(times, 1, Len(times) - 1), moment)
                                     + (IF times[Len(times)] > moment THEN 1 ELSE 0)
<1>1. PICK n \in Nat : n + 1 = Len(times) /\ times \in [1..(n + 1) -> Int]
  <2>1. Len(times) \in Nat /\ times \in [1..Len(times) -> Int] /\ Len(times) # 0
    BY LenProperties, EmptySeq
  <2>2. Len(times) - 1 \in Nat /\ (Len(times) - 1) + 1 = Len(times)
    BY <2>1
  <2> QED
    BY <2>1, <2>2
<1> DEFINE rest == SubSeq(times, 1, n)
           last == times[n + 1]
<1>2. Len(times) - 1 = n /\ last \in Int
  BY <1>1
<1>3. \A i \in 1..n : times[i] \in Int
  BY <1>1
<1>4. rest \in Seq(Int) /\ Len(rest) = n /\ \A i \in 1..n : rest[i] = times[i]
  <2>1. rest \in Seq(Int) /\ Len(rest) = (IF 1 <= n THEN n - 1 + 1 ELSE 0)
    BY <1>3, SubSeqProperties
  <2>2. \A i \in 1..(n - 1 + 1) : rest[i] = times[1 + i - 1]
    BY <1>3, SubSeqProperties
  <2>3. \A i \in 1..n : i \in 1..(n - 1 + 1) /\ 1 + i - 1 = i
    OBVIOUS
  <2> QED
    BY <2>1, <2>2, <2>3
<1>5. Append(rest, last) = times
  <2>1. Append(rest, last) \in Seq(Int) /\ Len(Append(rest, last)) = n + 1
    BY <1>2, <1>4, AppendProperties
  <2>2. \A i \in 1..n : Append(rest, last)[i] = rest[i]
    BY <1>2, <1>4, AppendProperties
  <2>3. Append(rest, last)[n + 1] = last
    BY <1>2, <1>4, AppendProperties
  <2>4. \A i \in 1..(n + 1) : Append(rest, last)[i] = times[i]
    BY <1>4, <2>2, <2>3
  <2> QED
    BY <1>1, <2>1, <2>4, SeqEqual
<1>6. Newer(Append(rest, last), moment) = Newer(rest, moment) + (IF last > moment THEN 1 ELSE 0)
  BY <1>2, <1>4, NewerAppend
<1> QED
  BY <1>1, <1>2, <1>4, <1>5, <1>6

\* The tries that still count are those after the ones dropped from the front,
\* and the first of them is in the window.
LEMMA RecentIs ==
  ASSUME NEW times \in Seq(Int), now \in Int, window \in Int
  PROVE  \E gone \in 0..Len(times) :
           /\ Recent(times) \in Seq(Int)
           /\ Len(Recent(times)) = Len(times) - gone
           /\ \A i \in 1..(Len(times) - gone) : Recent(times)[i] = times[i + gone]
           /\ \A i \in 1..gone : times[i] <= now - window
           /\ gone < Len(times) => times[gone + 1] > now - window
<1>1. PICK n \in Nat : n = Len(times) /\ times \in [1..n -> Int] /\ DOMAIN times = 1..n
  BY LenProperties
<1> DEFINE Gone == {i \in DOMAIN times : \A j \in 1..i : now - times[j] >= window}
<1>2. Gone \subseteq 1..n
  BY <1>1
<1>3. \A i \in Gone : \A j \in 1..i : j \in Gone
  <2> SUFFICES ASSUME NEW i \in Gone, NEW j \in 1..i PROVE j \in Gone
    OBVIOUS
  <2>1. i \in 1..n /\ \A h \in 1..i : now - times[h] >= window
    BY <1>1
  <2>2. j \in 1..n /\ 1..j \subseteq 1..i
    BY <2>1
  <2> QED
    BY <1>1, <2>1, <2>2
<1>4. PICK g \in 0..n : g = Cardinality(Gone) /\ Gone = 1..g
  <2> HIDE DEF Gone
  <2> QED
    BY <1>1, <1>2, <1>3, Initial
<1>5. Recent(times) = SubSeq(times, g + 1, n)
  BY <1>1, <1>4 DEF Recent
<1>6. \A i \in (g + 1)..n : times[i] \in Int
  BY <1>1
<1>7. /\ Recent(times) \in Seq(Int)
      /\ Len(Recent(times)) = (IF g + 1 <= n THEN n - (g + 1) + 1 ELSE 0)
      /\ \A i \in 1..(n - (g + 1) + 1) : Recent(times)[i] = times[(g + 1) + i - 1]
  BY <1>5, <1>6, SubSeqProperties
<1>8. Len(Recent(times)) = n - g
  BY <1>7
<1>9. \A i \in 1..(n - g) : Recent(times)[i] = times[i + g]
  <2>1. \A i \in 1..(n - g) : i \in 1..(n - (g + 1) + 1) /\ (g + 1) + i - 1 = i + g
    OBVIOUS
  <2> QED
    BY <1>7, <2>1
<1>10. \A i \in 1..g : times[i] <= now - window
  <2> SUFFICES ASSUME NEW i \in 1..g PROVE times[i] <= now - window
    OBVIOUS
  <2>1. i \in Gone
    BY <1>4
  <2>2. now - times[i] >= window /\ times[i] \in Int
    BY <1>1, <2>1
  <2> QED
    BY <2>2
<1>11. ASSUME g < n PROVE times[g + 1] > now - window
  <2>1. g + 1 \in 1..n /\ g + 1 \notin Gone
    <3>1. g + 1 \in 1..n /\ g + 1 \notin 1..g
      BY <1>11
    <3> HIDE DEF Gone
    <3> QED
      BY <1>4, <3>1
  <2>2. PICK j \in 1..(g + 1) : ~(now - times[j] >= window)
    BY <1>1, <2>1
  <2>3. j \notin 1..g
    <3>1. ASSUME j \in 1..g PROVE FALSE
      <4>1. times[j] <= now - window /\ times[j] \in Int
        BY <1>1, <1>10, <3>1
      <4> QED
        BY <2>2, <4>1
    <3> QED
      BY <3>1
  <2>4. j = g + 1
    BY <2>3
  <2>5. ~(now - times[g + 1] >= window) /\ times[g + 1] \in Int
    BY <1>1, <2>1, <2>2, <2>4
  <2> QED
    BY <2>5
<1> QED
  BY <1>1, <1>7, <1>8, <1>9, <1>10, <1>11

\* Nothing newer than the window is dropped with the tries that left it.
LEMMA NewerRecent ==
  ASSUME NEW times \in Seq(Int), now \in Int, window \in Int,
         NEW moment \in Int, moment >= now - window
  PROVE  Newer(Recent(times), moment) = Newer(times, moment)
<1>1. PICK n \in Nat : n = Len(times) /\ times \in [1..n -> Int] /\ DOMAIN times = 1..n
  BY LenProperties
<1>2. PICK g \in 0..n :
        /\ Recent(times) \in Seq(Int)
        /\ Len(Recent(times)) = n - g
        /\ \A i \in 1..(n - g) : Recent(times)[i] = times[i + g]
        /\ \A i \in 1..g : times[i] <= now - window
  BY <1>1, RecentIs
<1>3. DOMAIN Recent(times) = 1..(n - g)
  BY <1>2, LenProperties
<1> DEFINE S == NewerAt(Recent(times), moment)
           T == NewerAt(times, moment)
           f == [i \in S |-> i + g]
<1>4. \A i \in S : i \in 1..(n - g) /\ i + g \in T
  <2> SUFFICES ASSUME NEW i \in S PROVE i \in 1..(n - g) /\ i + g \in T
    OBVIOUS
  <2>1. i \in 1..(n - g) /\ Recent(times)[i] > moment
    BY <1>3 DEF NewerAt
  <2>2. i + g \in 1..n /\ times[i + g] > moment
    BY <1>2, <2>1
  <2> QED
    BY <1>1, <2>1, <2>2 DEF NewerAt
<1>5. \A k \in T : k - g \in S /\ k \in 1..n
  <2> SUFFICES ASSUME NEW k \in T PROVE k - g \in S /\ k \in 1..n
    OBVIOUS
  <2>1. k \in 1..n /\ times[k] > moment /\ times[k] \in Int
    BY <1>1 DEF NewerAt
  <2>2. k \notin 1..g
    BY <1>2, <2>1
  <2>3. k - g \in 1..(n - g) /\ (k - g) + g = k
    BY <2>1, <2>2
  <2>4. Recent(times)[k - g] > moment
    BY <1>2, <2>1, <2>3
  <2> QED
    BY <1>3, <2>1, <2>3, <2>4 DEF NewerAt
<1>6. f \in Bijection(S, T)
  <2> HIDE DEF S, T
  <2>1. f \in [S -> T]
    BY <1>4
  <2>2. \A i, j \in S : f[i] = f[j] => i = j
    BY <1>4
  <2>3. \A k \in T : \E i \in S : f[i] = k
    <3> SUFFICES ASSUME NEW k \in T PROVE \E i \in S : f[i] = k
      OBVIOUS
    <3>1. k - g \in S /\ (k - g) + g = k
      BY <1>5
    <3> QED
      BY <3>1
  <2> QED
    BY <2>1, <2>2, <2>3 DEF Bijection, Injection, Surjection, IsInjective
<1>7. IsFiniteSet(S)
  BY <1>2, NewerType
<1>8. Cardinality(T) = Cardinality(S)
  <2> HIDE DEF S, T, f
  <2>1. ExistsBijection(S, T)
    BY <1>6 DEF ExistsBijection
  <2> QED
    BY <1>7, <2>1, FS_Bijection
<1> QED
  BY <1>8 DEF Newer

\* In order, all the tries that still count are in the window.
LEMMA RecentAllNewer ==
  ASSUME NEW times \in Seq(Int), now \in Int, window \in Int,
         InOrder(times)
  PROVE  Newer(times, now - window) = Len(Recent(times))
<1>1. PICK n \in Nat : n = Len(times) /\ times \in [1..n -> Int] /\ DOMAIN times = 1..n
  BY LenProperties
<1>2. PICK g \in 0..n :
        /\ Recent(times) \in Seq(Int)
        /\ Len(Recent(times)) = n - g
        /\ \A i \in 1..(n - g) : Recent(times)[i] = times[i + g]
        /\ g < n => times[g + 1] > now - window
  BY <1>1, RecentIs
<1>3. DOMAIN Recent(times) = 1..(n - g)
  BY <1>2, LenProperties
<1>4. \A i \in 1..(n - g) : Recent(times)[i] > now - window
  <2> SUFFICES ASSUME NEW i \in 1..(n - g) PROVE Recent(times)[i] > now - window
    OBVIOUS
  <2>1. g + 1 \in 1..n /\ i + g \in 1..n /\ g + 1 <= i + g /\ g < n
    OBVIOUS
  <2>2. times[g + 1] <= times[i + g] /\ times[g + 1] > now - window
    BY <1>1, <1>2, <2>1 DEF InOrder
  <2>3. times[g + 1] \in Int /\ times[i + g] \in Int
    BY <1>1, <2>1
  <2>4. times[i + g] > now - window
    BY <2>2, <2>3
  <2> QED
    BY <1>2, <2>4
<1>5. NewerAt(Recent(times), now - window) = 1..(n - g)
  BY <1>3, <1>4 DEF NewerAt
<1>6. Cardinality(1..(n - g)) = n - g
  BY FS_Interval
<1>7. Newer(Recent(times), now - window) = n - g
  BY <1>5, <1>6 DEF Newer
<1>8. now - window \in Int /\ now - window >= now - window
  OBVIOUS
<1> QED
  BY <1>2, <1>7, <1>8, NewerRecent

\* Whoever's last try left the window has none that is newer than the window.
LEMMA NewerSwept ==
  ASSUME NEW times \in Seq(Int), now \in Int, window \in Int, InOrder(times),
         times = <<>> \/ now - times[Len(times)] >= window,
         NEW moment \in Int, moment >= now - window
  PROVE  Newer(times, moment) = 0
<1>1. PICK n \in Nat : n = Len(times) /\ times \in [1..n -> Int] /\ DOMAIN times = 1..n
  BY LenProperties
<1>2. \A i \in DOMAIN times : times[i] <= moment
  <2> SUFFICES ASSUME NEW i \in 1..n PROVE times[i] <= moment
    BY <1>1
  <2>1. n \in 1..n /\ i <= n /\ times # <<>>
    BY <1>1, EmptySeq
  <2>2. times[i] <= times[n] /\ now - times[n] >= window
    BY <1>1, <2>1 DEF InOrder
  <2>3. times[i] \in Int /\ times[n] \in Int
    BY <1>1, <2>1
  <2> QED
    BY <2>2, <2>3
<1> QED
  BY <1>2, NewerNone

\* If the newest try is not newer, none is.
LEMMA NewerLast ==
  ASSUME NEW times \in Seq(Int), InOrder(times), now \in Int, times # <<>>,
         NEW moment \in Int, ~(times[Len(times)] > moment)
  PROVE  Newer(times, moment) = 0
<1>1. PICK n \in Nat : n = Len(times) /\ times \in [1..n -> Int] /\ DOMAIN times = 1..n
  BY LenProperties
<1>2. \A i \in DOMAIN times : times[i] <= moment
  <2> SUFFICES ASSUME NEW i \in 1..n PROVE times[i] <= moment
    BY <1>1
  <2>1. n \in 1..n /\ i <= n
    OBVIOUS
  <2>2. times[i] <= times[n] /\ ~(times[n] > moment)
    BY <1>1, <2>1 DEF InOrder
  <2>3. times[i] \in Int /\ times[n] \in Int
    BY <1>1, <2>1
  <2> QED
    BY <2>2, <2>3
<1> QED
  BY <1>2, NewerNone

\* Order is kept by what is dropped, added and taken back.
LEMMA InOrderKept ==
  ASSUME NEW times \in Seq(Int), now \in Nat, window \in Int, InOrder(times)
  PROVE  /\ InOrder(Recent(times))
         /\ InOrder(Append(Recent(times), now))
         /\ InOrder(Append(times, now))
         /\ times # <<>> => InOrder(SubSeq(times, 1, Len(times) - 1))
<1>0. PICK n \in Nat : n = Len(times) /\ times \in [1..n -> Int] /\ DOMAIN times = 1..n
  BY LenProperties
<1>1. ASSUME NEW s \in Seq(Int), InOrder(s) PROVE InOrder(Append(s, now))
  <2>1. PICK k \in Nat : k = Len(s) /\ s \in [1..k -> Int] /\ DOMAIN s = 1..k
    BY LenProperties
  <2>2. Append(s, now) \in Seq(Int) /\ Len(Append(s, now)) = k + 1
    BY <2>1, AppendProperties
  <2>3. DOMAIN Append(s, now) = 1..(k + 1)
    BY <2>2, LenProperties
  <2>4. /\ \A i \in 1..k : Append(s, now)[i] = s[i]
        /\ Append(s, now)[k + 1] = now
    BY <2>1, AppendProperties
  <2>5. \A i \in 1..k : s[i] \in 0..now /\ \A j \in 1..k : i <= j => s[i] <= s[j]
    BY <1>1, <2>1 DEF InOrder
  <2>6. \A i \in 1..(k + 1) : Append(s, now)[i] \in 0..now
    <3> TAKE i \in 1..(k + 1)
    <3>1. CASE i \in 1..k
      BY <2>4, <2>5, <3>1
    <3>2. CASE i = k + 1
      <4>1. now \in 0..now
        OBVIOUS
      <4> QED
        BY <2>4, <3>2, <4>1, Zenon
    <3>3. i \in 1..k \/ i = k + 1
      OBVIOUS
    <3> QED
      BY <3>1, <3>2, <3>3
  <2>7. \A i, j \in 1..(k + 1) : i <= j => Append(s, now)[i] <= Append(s, now)[j]
    <3> TAKE i, j \in 1..(k + 1)
    <3> HAVE i <= j
    <3>1. CASE i \in 1..k /\ j \in 1..k
      BY <2>4, <2>5, <3>1
    <3>2. CASE j = k + 1
      <4>1. \A v \in 0..now : v <= now
        OBVIOUS
      <4> QED
        BY <2>4, <2>6, <3>2, <4>1, Zenon
    <3>3. (i \in 1..k /\ j \in 1..k) \/ j = k + 1
      OBVIOUS
    <3> QED
      BY <3>1, <3>2, <3>3
  <2> QED
    BY <2>3, <2>6, <2>7 DEF InOrder
<1>2. Recent(times) \in Seq(Int) /\ InOrder(Recent(times))
  <2>1. PICK g \in 0..n :
          /\ Recent(times) \in Seq(Int)
          /\ Len(Recent(times)) = n - g
          /\ \A i \in 1..(n - g) : Recent(times)[i] = times[i + g]
    <3>1. now \in Int
      OBVIOUS
    <3> QED
      BY <1>0, <3>1, RecentIs
  <2>2. DOMAIN Recent(times) = 1..(n - g)
    BY <2>1, LenProperties
  <2>3. \A i \in 1..(n - g) : Recent(times)[i] \in 0..now
    <3> TAKE i \in 1..(n - g)
    <3>1. i + g \in 1..n
      OBVIOUS
    <3> QED
      BY <1>0, <2>1, <3>1 DEF InOrder
  <2>4. \A i, j \in 1..(n - g) : i <= j => Recent(times)[i] <= Recent(times)[j]
    <3> TAKE i, j \in 1..(n - g)
    <3> HAVE i <= j
    <3>1. i + g \in 1..n /\ j + g \in 1..n /\ i + g <= j + g
      OBVIOUS
    <3> QED
      BY <1>0, <2>1, <3>1 DEF InOrder
  <2> QED
    BY <2>1, <2>2, <2>3, <2>4 DEF InOrder
<1>3. ASSUME times # <<>> PROVE InOrder(SubSeq(times, 1, Len(times) - 1))
  <2> DEFINE s == SubSeq(times, 1, Len(times) - 1)
  <2>1. s \in Seq(Int) /\ Len(s) = n - 1 /\ \A i \in 1..(n - 1) : s[i] = times[i]
    BY <1>0, <1>3, 0 \in Int, NewerPop
  <2>2. DOMAIN s = 1..(n - 1)
    BY <2>1, LenProperties
  <2>3. \A i \in 1..(n - 1) : i \in 1..n
    OBVIOUS
  <2> HIDE DEF s
  <2>4. InOrder(s)
    BY <1>0, <2>1, <2>2, <2>3 DEF InOrder
  <2> QED
    BY <2>4 DEF s
<1> QED
  BY <1>1, <1>2, <1>3

----------------------------------------------------------------------------
(* Requests that are worked on, and tries that failed.                     *)

AttemptType == [at : {"idle", "tried", "refused"}, who : Who \cup {Everybody}, since : Int]

\* The requests of a member that were counted after a moment, and until then.
After(work, m, moment) ==
  {w \in Workers : work[w].at = "tried" /\ work[w].who = m /\ work[w].since > moment}
Until(work, m, moment) ==
  {w \in Workers : work[w].at = "tried" /\ work[w].who = m /\ work[w].since <= moment}

\* There are no more of either than there are workers.
LEMMA WorkFinite ==
  ASSUME NEW work, NEW m, NEW moment, IsFiniteSet(Workers)
  PROVE  /\ IsFiniteSet(After(work, m, moment)) /\ IsFiniteSet(Until(work, m, moment))
         /\ Cardinality(After(work, m, moment)) \in Nat
         /\ Cardinality(Until(work, m, moment)) \in Nat
         /\ Cardinality(Workers) \in Nat
<1>1. After(work, m, moment) \subseteq Workers /\ Until(work, m, moment) \subseteq Workers
  BY DEF After, Until
<1>2. IsFiniteSet(After(work, m, moment)) /\ IsFiniteSet(Until(work, m, moment))
  BY <1>1, FS_Subset
<1> QED
  BY <1>2, FS_CardinalityType

\* A request that ends is in neither any more.
LEMMA WorkEnds ==
  ASSUME NEW work \in [Workers -> AttemptType], NEW w \in Workers, NEW m, NEW moment,
         IsFiniteSet(Workers), NEW later,
         later[w].at = "idle", \A u \in Workers \ {w} : later[u] = work[u]
  PROVE  /\ Cardinality(After(later, m, moment)) = Cardinality(After(work, m, moment))
              - (IF w \in After(work, m, moment) THEN 1 ELSE 0)
         /\ Cardinality(Until(later, m, moment)) = Cardinality(Until(work, m, moment))
              - (IF w \in Until(work, m, moment) THEN 1 ELSE 0)
<1> DEFINE A == After(work, m, moment)
           U == Until(work, m, moment)
<1>2. After(later, m, moment) = A \ {w} /\ Until(later, m, moment) = U \ {w}
  BY DEF After, Until
<1>3. IsFiniteSet(A) /\ IsFiniteSet(U) /\ Cardinality(A) \in Nat /\ Cardinality(U) \in Nat
  BY WorkFinite
<1> HIDE DEF A, U
<1>4. Cardinality(A \ {w}) = IF w \in A THEN Cardinality(A) - 1 ELSE Cardinality(A)
  BY <1>3, FS_RemoveElement
<1>5. Cardinality(U \ {w}) = IF w \in U THEN Cardinality(U) - 1 ELSE Cardinality(U)
  BY <1>3, FS_RemoveElement
<1>6. Cardinality(A \ {w}) = Cardinality(A) - (IF w \in A THEN 1 ELSE 0)
  BY <1>3, <1>4
<1>7. Cardinality(U \ {w}) = Cardinality(U) - (IF w \in U THEN 1 ELSE 0)
  BY <1>3, <1>5
<1> QED
  BY <1>2, <1>6, <1>7 DEF A, U

\* A request that is counted was in neither before, and may be in one after.
LEMMA WorkBegins ==
  ASSUME NEW work \in [Workers -> AttemptType], NEW w \in Workers, NEW m, NEW moment,
         IsFiniteSet(Workers), work[w].at = "idle",
         NEW later, \A u \in Workers \ {w} : later[u] = work[u]
  PROVE  /\ Cardinality(After(later, m, moment)) = Cardinality(After(work, m, moment))
              + (IF w \in After(later, m, moment) THEN 1 ELSE 0)
         /\ w \notin Until(later, m, moment) =>
              Cardinality(Until(later, m, moment)) = Cardinality(Until(work, m, moment))
         /\ Cardinality(Until(work, m, moment)) <= Cardinality(Workers) - 1
<1> DEFINE A == After(work, m, moment)
           U == Until(work, m, moment)
           B == After(later, m, moment)
<1>2. w \notin A /\ w \notin U /\ B \ {w} = A
  BY DEF After, Until
<1>3. w \notin Until(later, m, moment) => Until(later, m, moment) = U
  BY DEF Until
<1>4. /\ IsFiniteSet(A) /\ IsFiniteSet(U) /\ U \subseteq Workers
      /\ Cardinality(A) \in Nat /\ Cardinality(U) \in Nat /\ Cardinality(Workers) \in Nat
  <2>1. U \subseteq Workers
    BY DEF Until
  <2> QED
    BY <2>1, WorkFinite
<1> HIDE DEF A, U, B
<1>5. Cardinality(B) = Cardinality(A) + (IF w \in B THEN 1 ELSE 0)
  <2>1. CASE w \in B
    <3>1. B = A \cup {w}
      BY <1>2, <2>1
    <3>2. Cardinality(A \cup {w}) = Cardinality(A) + 1
      BY <1>2, <1>4, FS_AddElement
    <3> QED
      BY <2>1, <3>1, <3>2
  <2>2. CASE w \notin B
    <3>1. B = A
      BY <1>2, <2>2
    <3> QED
      BY <1>4, <2>2, <3>1
  <2> QED
    BY <2>1, <2>2
<1>6. Cardinality(U) <= Cardinality(Workers) - 1
  <2>1. U \subseteq Workers \ {w}
    BY <1>2, <1>4
  <2>2. IsFiniteSet(Workers \ {w}) /\ Cardinality(Workers \ {w}) = Cardinality(Workers) - 1
    BY FS_RemoveElement
  <2>3. Cardinality(U) <= Cardinality(Workers \ {w})
    BY <2>1, <2>2, FS_Subset
  <2> QED
    BY <1>4, <2>2, <2>3
<1> QED
  BY <1>3, <1>5, <1>6 DEF A, U, B

\* The failed tries of a member that came in after a moment.
FailedAfter(tries, moment) == {x \in tries : x[1] > moment}

\* The tries of one moment are numbered, and there are as many as the number.
Numbered(tries) == \A x \in tries : x[2] <= Cardinality({y \in tries : y[1] = x[1]})

\* One more failed try is a new one.
LEMMA OneMoreIs ==
  ASSUME NEW tries \in SUBSET (Int \X Nat), IsFiniteSet(tries), Numbered(tries),
         NEW t \in Int, NEW moment \in Int
  PROVE  /\ OneMore(tries, t) \in SUBSET (Int \X Nat)
         /\ IsFiniteSet(OneMore(tries, t)) /\ Numbered(OneMore(tries, t))
         /\ \A x \in OneMore(tries, t) : x \in tries \/ x[1] = t
         /\ IsFiniteSet(FailedAfter(tries, moment))
         /\ Cardinality(FailedAfter(tries, moment)) \in Nat
         /\ Cardinality(FailedAfter(OneMore(tries, t), moment)) =
              Cardinality(FailedAfter(tries, moment)) + (IF t > moment THEN 1 ELSE 0)
<1> DEFINE Of(S, u) == {y \in S : y[1] = u}
<1>1. ASSUME NEW u PROVE IsFiniteSet(Of(tries, u)) /\ Cardinality(Of(tries, u)) \in Nat
  <2>1. Of(tries, u) \subseteq tries
    OBVIOUS
  <2>2. IsFiniteSet(Of(tries, u))
    BY <2>1, FS_Subset
  <2> QED
    BY <2>2, FS_CardinalityType
<1>2. PICK c \in Nat : c = Cardinality(Of(tries, t))
  BY <1>1
<1> DEFINE new == <<t, c + 1>>
<1>3. OneMore(tries, t) = tries \cup {new} /\ new \in Int \X Nat /\ new[1] = t /\ new[2] = c + 1
  BY <1>2 DEF OneMore
<1> HIDE DEF new
<1>4. new \notin tries
  <2> SUFFICES ASSUME new \in tries PROVE FALSE
    OBVIOUS
  <2>1. new[2] <= Cardinality(Of(tries, t))
    BY <1>3 DEF Numbered
  <2> QED
    BY <1>2, <1>3, <2>1
<1>5. IsFiniteSet(tries \cup {new})
  BY FS_AddElement
<1>6. Of(tries \cup {new}, t) = Of(tries, t) \cup {new} /\ new \notin Of(tries, t)
  BY <1>3, <1>4
<1>7. Cardinality(Of(tries, t) \cup {new}) = c + 1
  <2>1. IsFiniteSet(Of(tries, t))
    BY <1>1
  <2> HIDE DEF Of
  <2>2. Cardinality(Of(tries, t) \cup {new}) = Cardinality(Of(tries, t)) + 1
    BY <1>6, <2>1, FS_AddElement
  <2> QED
    BY <1>2, <2>2
<1>8. Numbered(tries \cup {new})
  <2> SUFFICES ASSUME NEW x \in tries \cup {new}
               PROVE  x[2] <= Cardinality(Of(tries \cup {new}, x[1]))
    BY DEF Numbered
  <2>0. x[2] \in Nat
    BY <1>3
  <2>1. CASE x[1] = t
    <3>1. x[2] <= c + 1
      <4>1. CASE x = new
        BY <1>3, <4>1
      <4>2. CASE x \in tries
        <5>1. x[2] <= Cardinality(Of(tries, t))
          BY <2>1, <4>2 DEF Numbered
        <5> QED
          BY <1>2, <2>0, <5>1
      <4> QED
        BY <4>1, <4>2
    <3> QED
      BY <1>6, <1>7, <2>1, <3>1
  <2>2. CASE x[1] # t
    <3>1. x \in tries /\ Of(tries \cup {new}, x[1]) = Of(tries, x[1])
      BY <1>3, <2>2
    <3> QED
      BY <3>1 DEF Numbered
  <2> QED
    BY <2>1, <2>2
<1>9. FailedAfter(tries, moment) \subseteq tries /\ new \notin FailedAfter(tries, moment)
  BY <1>4 DEF FailedAfter
<1>10. /\ IsFiniteSet(FailedAfter(tries, moment))
       /\ Cardinality(FailedAfter(tries, moment)) \in Nat
  <2>1. IsFiniteSet(FailedAfter(tries, moment))
    BY <1>9, FS_Subset
  <2> QED
    BY <2>1, FS_CardinalityType
<1>11. Cardinality(FailedAfter(tries \cup {new}, moment)) =
         Cardinality(FailedAfter(tries, moment)) + (IF t > moment THEN 1 ELSE 0)
  <2>1. CASE t > moment
    <3>1. FailedAfter(tries \cup {new}, moment) = FailedAfter(tries, moment) \cup {new}
      BY <1>3, <2>1 DEF FailedAfter
    <3>2. Cardinality(FailedAfter(tries, moment) \cup {new}) =
            Cardinality(FailedAfter(tries, moment)) + 1
      BY <1>9, <1>10, FS_AddElement
    <3> QED
      BY <2>1, <3>1, <3>2
  <2>2. CASE ~(t > moment)
    <3>1. FailedAfter(tries \cup {new}, moment) = FailedAfter(tries, moment)
      BY <1>3, <2>2 DEF FailedAfter
    <3> QED
      BY <1>10, <2>2, <3>1
  <2> QED
    BY <2>1, <2>2
<1>12. \A x \in tries \cup {new} : x \in tries \/ x[1] = t
  BY <1>3
<1> QED
  BY <1>3, <1>5, <1>8, <1>10, <1>11, <1>12

----------------------------------------------------------------------------
(* The inductive invariant.                                                *)

Typed ==
  /\ now \in 0..MaxNow
  /\ held \subseteq Keys
  /\ at \in [Keys -> Seq(Int)]
  /\ swept \in 0..now /\ swept_full \in -SWEEP_WHEN_FULL..now
  /\ attempt \in [Workers -> AttemptType]
  /\ failed \in [Members -> SUBSET (Int \X Nat)]

\* What is remembered is in order and within the bucket, and of nobody else.
KeyOK(k) ==
  /\ InOrder(at[k])
  /\ Len(at[k]) <= max
  /\ k \notin held => at[k] = <<>>

AttemptOK(w) ==
  /\ attempt[w].since \in 0..now
  /\ attempt[w].at = "tried" => attempt[w].who \in Who

FailedOK(m) ==
  /\ IsFiniteSet(failed[m])
  /\ Numbered(failed[m])
  /\ \A x \in failed[m] : x[1] <= now

\* The table has room for addresses and for networks, next to everybody else.
TableOK ==
  InTable(held \ {Everybody}) <= MAX_ADDRESSES + (IF Coarsen THEN MAX_NETWORKS ELSE 0)

\* Of the tries after a moment, what is remembered is never more than what did
\* not turn out well, so nobody is refused for more; and what did not turn out
\* well is more than what is remembered by fewer than there are workers, less the
\* requests of earlier moments that may take one of them back instead of their own.
Balanced(remembered, unforgiven, earlier) ==
  /\ remembered <= unforgiven
  /\ \/ unforgiven = 0
     \/ unforgiven + earlier <= remembered + Cardinality(Workers) - 1

Ledger(m, moment) ==
  Balanced(Newer(at[m], moment), Unforgiven(m, moment), Cardinality(Until(attempt, m, moment)))

Inv ==
  /\ Typed
  /\ \A k \in Keys : KeyOK(k)
  /\ \A w \in Workers : AttemptOK(w)
  /\ \A m \in Members : FailedOK(m)
  /\ TableOK
  /\ \A m \in Members : \A moment \in Int : moment >= now - window => Ledger(m, moment)

\* What did not turn out well are the failed tries and those not answered yet.
LEMMA UnforgivenIs ==
  ASSUME NEW m, NEW moment
  PROVE  /\ Unforgiven(m, moment) = Cardinality(FailedAfter(failed[m], moment))
                                     + Cardinality(After(attempt, m, moment))
         /\ Unforgiven(m, moment)' = Cardinality(FailedAfter(failed'[m], moment))
                                     + Cardinality(After(attempt', m, moment))
BY DEF Unforgiven, FailedAfter, After

\* The numbers of a ledger are natural numbers.
LEMMA LedgerTypes ==
  ASSUME Typed, NEW m \in Members, FailedOK(m), NEW moment \in Int
  PROVE  /\ Newer(at[m], moment) \in Nat
         /\ IsFiniteSet(FailedAfter(failed[m], moment))
         /\ Cardinality(FailedAfter(failed[m], moment)) \in Nat
         /\ Cardinality(After(attempt, m, moment)) \in Nat
         /\ Cardinality(Until(attempt, m, moment)) \in Nat
         /\ Cardinality(Workers) \in Nat
<1>1. m \in Keys /\ at[m] \in Seq(Int)
  BY DEF Typed, Keys, Who
<1>2. Newer(at[m], moment) \in Nat
  BY <1>1, NewerType
<1>3. FailedAfter(failed[m], moment) \subseteq failed[m]
  BY DEF FailedAfter
<1>4. IsFiniteSet(FailedAfter(failed[m], moment))
  BY <1>3, FS_Subset DEF FailedOK
<1> QED
  BY <1>2, <1>4, FS_CardinalityType, WorkFinite, LimitsAssumption

\* The tables start empty and nobody has tried.
LEMMA Starts == Init => Inv
<1> SUFFICES ASSUME Init PROVE Inv
  OBVIOUS
<1>1. NoAttempt \in AttemptType /\ NoAttempt.at = "idle" /\ NoAttempt.since = 0
  BY DEF NoAttempt, AttemptType
<1>2. Typed
  <2>1. now \in 0..MaxNow /\ held \subseteq Keys
    BY LimitsAssumption DEF Init
  <2>2. at \in [Keys -> Seq(Int)]
    BY EmptySeq DEF Init
  <2>3. swept \in 0..now /\ swept_full \in -SWEEP_WHEN_FULL..now
    BY LimitsAssumption DEF Init
  <2>4. attempt \in [Workers -> AttemptType]
    BY <1>1 DEF Init
  <2>5. failed \in [Members -> SUBSET (Int \X Nat)]
    BY DEF Init
  <2> QED
    BY <2>1, <2>2, <2>3, <2>4, <2>5 DEF Typed
<1>3. ASSUME NEW k \in Keys PROVE KeyOK(k)
  <2>1. at[k] = <<>> /\ DOMAIN <<>> = {} /\ Len(<<>>) = 0
    BY <1>3 DEF Init
  <2> QED
    BY <2>1, LimitsAssumption DEF KeyOK, InOrder
<1>4. \A w \in Workers : AttemptOK(w)
  BY <1>1 DEF Init, AttemptOK
<1>5. \A m \in Members : FailedOK(m)
  BY FS_EmptySet DEF Init, FailedOK, Numbered
<1>6. TableOK
  <2>1. (held \ {Everybody}) \ Members = {}
    BY DEF Init
  <2>2. InTable(held \ {Everybody}) = 0
    BY <2>1, FS_EmptySet DEF InTable
  <2>3. MAX_ADDRESSES \in Nat /\ MAX_NETWORKS \in Nat
    BY LimitsAssumption
  <2> QED
    BY <2>2, <2>3 DEF TableOK
<1>7. ASSUME NEW m \in Members, NEW moment \in Int PROVE Ledger(m, moment)
  <2>1. at[m] = <<>> /\ failed[m] = {}
    BY DEF Init, Keys, Who
  <2>2. Newer(at[m], moment) = 0
    <3>1. <<>> \in Seq(Int) /\ DOMAIN <<>> = {}
      OBVIOUS
    <3> QED
      BY <2>1, <3>1, NewerNone
  <2>3. FailedAfter(failed[m], moment) = {}
    BY <2>1 DEF FailedAfter
  <2>4. After(attempt, m, moment) = {}
    BY <1>1 DEF Init, After
  <2>5. Unforgiven(m, moment) = 0
    <3>1. Cardinality({}) = 0 /\ 0 + 0 = 0
      BY FS_EmptySet
    <3>2. Unforgiven(m, moment) = Cardinality({}) + Cardinality({})
      BY <2>3, <2>4, UnforgivenIs
    <3> QED
      BY <3>1, <3>2
  <2> QED
    BY <2>2, <2>5 DEF Ledger, Balanced
<1> QED
  BY <1>2, <1>3, <1>4, <1>5, <1>6, <1>7 DEF Inv

\* Time passes: tries leave the window, and there are no new ones.
LEMMA TickKeeps == Inv /\ Tick => Inv'
<1> SUFFICES ASSUME Inv, Tick PROVE Inv'
  OBVIOUS
<1>0. /\ now \in Nat /\ MaxNow \in Nat /\ now < MaxNow /\ now' = now + 1
      /\ window \in Nat /\ SWEEP_WHEN_FULL \in Nat
      /\ held' = held /\ at' = at /\ swept' = swept /\ swept_full' = swept_full
      /\ attempt' = attempt
  BY LimitsAssumption DEF Inv, Typed, Tick
<1>1. \A m \in Members : failed'[m] = {x \in failed[m] : now' - x[1] < window}
  BY DEF Tick
<1>2. Typed'
  <2>1. failed' \in [Members -> SUBSET (Int \X Nat)]
    BY <1>0 DEF Inv, Typed, Tick
  <2>2. now' \in 0..MaxNow /\ swept' \in 0..now' /\ swept_full' \in -SWEEP_WHEN_FULL..now'
    BY <1>0 DEF Inv, Typed
  <2> QED
    BY <1>0, <2>1, <2>2 DEF Inv, Typed
<1>3. ASSUME NEW k \in Keys PROVE KeyOK(k)'
  <2>1. \A t \in 0..now : t \in 0..now'
    BY <1>0
  <2> QED
    BY <1>0, <2>1 DEF Inv, KeyOK, InOrder
<1>4. ASSUME NEW w \in Workers PROVE AttemptOK(w)'
  <2>1. \A t \in 0..now : t \in 0..now'
    BY <1>0
  <2> QED
    BY <1>0, <2>1 DEF Inv, AttemptOK
<1>5. ASSUME NEW m \in Members PROVE FailedOK(m)'
  <2>1. failed[m] \in SUBSET (Int \X Nat) /\ IsFiniteSet(failed[m]) /\ Numbered(failed[m])
    BY DEF Inv, Typed, FailedOK
  <2>2. IsFiniteSet(failed'[m])
    BY <1>1, <2>1, FS_Subset
  <2>3. ASSUME NEW x \in failed'[m]
        PROVE  x[1] <= now' /\ x[2] <= Cardinality({y \in failed'[m] : y[1] = x[1]})
    <3>1. x \in failed[m] /\ {y \in failed'[m] : y[1] = x[1]} = {y \in failed[m] : y[1] = x[1]}
      BY <1>1
    <3>2. x[1] <= now /\ x[1] \in Int
      BY <2>1, <3>1 DEF Inv, FailedOK
    <3> QED
      BY <1>0, <2>1, <3>1, <3>2 DEF Numbered
  <2> QED
    BY <2>2, <2>3 DEF FailedOK, Numbered
<1>6. TableOK'
  BY <1>0 DEF Inv, TableOK, InTable
<1>7. ASSUME NEW m \in Members, NEW moment \in Int, moment >= now' - window
      PROVE  Ledger(m, moment)'
  <2>1. Ledger(m, moment)
    BY <1>0, <1>7 DEF Inv
  <2>2. FailedAfter(failed'[m], moment) = FailedAfter(failed[m], moment)
    <3>1. ASSUME NEW x \in failed[m], x[1] > moment PROVE now' - x[1] < window
      <4>1. x[1] \in Int
        BY DEF Inv, Typed
      <4> QED
        BY <1>0, <1>7, <3>1, <4>1
    <3> QED
      BY <1>1, <3>1 DEF FailedAfter
  <2>3. Unforgiven(m, moment)' = Unforgiven(m, moment)
    BY <1>0, <2>2, UnforgivenIs
  <2> QED
    BY <1>0, <2>1, <2>3 DEF Ledger
<1> QED
  BY <1>2, <1>3, <1>4, <1>5, <1>6, <1>7 DEF Inv

\* What a request that ends leaves as it was, whether its try is taken back or not.
LEMMA EndKeeps ==
  ASSUME Inv, NEW w \in Workers, attempt' = [attempt EXCEPT ![w] = NoAttempt],
         UNCHANGED <<now, held, swept, swept_full>>
  PROVE  /\ attempt' \in [Workers -> AttemptType]
         /\ \A u \in Workers : AttemptOK(u)'
         /\ TableOK'
<1>1. NoAttempt \in AttemptType /\ NoAttempt.at = "idle" /\ NoAttempt.since = 0
  BY DEF NoAttempt, AttemptType
<1>2. attempt \in [Workers -> AttemptType] /\ now \in Nat
  BY LimitsAssumption DEF Inv, Typed
<1>3. attempt' \in [Workers -> AttemptType]
  BY <1>1, <1>2
<1>4. ASSUME NEW u \in Workers PROVE AttemptOK(u)'
  <2>1. CASE u = w
    <3>1. attempt'[u] = NoAttempt /\ now' = now /\ 0 \in 0..now
      BY <1>2, <2>1
    <3> QED
      BY <1>1, <3>1 DEF AttemptOK
  <2>2. CASE u # w
    <3>1. attempt'[u] = attempt[u] /\ now' = now
      BY <1>2, <2>2
    <3> QED
      BY <3>1 DEF Inv, AttemptOK
  <2> QED
    BY <2>1, <2>2
<1> QED
  BY <1>3, <1>4 DEF Inv, TableOK, InTable

\* The answer moves a try from those not answered to those that failed.
LEMMA AnsweredKeeps ==
  ASSUME Inv, NEW w \in Workers, Answered(w)
  PROVE  Inv'
<1>0. /\ now' = now /\ held' = held /\ at' = at /\ swept' = swept /\ swept_full' = swept_full
      /\ attempt' = [attempt EXCEPT ![w] = NoAttempt]
      /\ now \in Nat /\ window \in Nat
      /\ attempt \in [Workers -> AttemptType] /\ IsFiniteSet(Workers)
      /\ attempt[w].since \in 0..now
  BY LimitsAssumption DEF Inv, Typed, Answered, AttemptOK, NoAttempt
<1>a. /\ attempt \in [Workers -> AttemptType] /\ IsFiniteSet(Workers)
      /\ attempt'[w].at = "idle" /\ \A u \in Workers \ {w} : attempt'[u] = attempt[u]
  BY <1>0 DEF NoAttempt
<1>1. /\ attempt' \in [Workers -> AttemptType] /\ TableOK'
      /\ \A u \in Workers : AttemptOK(u)'
  BY <1>0, EndKeeps
<1>2. \A m \in Members :
        failed'[m] = IF Fails(w, m) THEN OneMore(failed[m], attempt[w].since) ELSE failed[m]
  BY DEF Answered
<1>3. ASSUME NEW m \in Members, NEW moment \in Int
      PROVE  /\ failed[m] \in SUBSET (Int \X Nat) /\ IsFiniteSet(failed[m]) /\ Numbered(failed[m])
             /\ OneMore(failed[m], attempt[w].since) \in SUBSET (Int \X Nat)
             /\ IsFiniteSet(OneMore(failed[m], attempt[w].since))
             /\ Numbered(OneMore(failed[m], attempt[w].since))
             /\ \A x \in OneMore(failed[m], attempt[w].since) :
                  x \in failed[m] \/ x[1] = attempt[w].since
             /\ Cardinality(FailedAfter(OneMore(failed[m], attempt[w].since), moment)) =
                  Cardinality(FailedAfter(failed[m], moment))
                    + (IF attempt[w].since > moment THEN 1 ELSE 0)
  <2>1. failed[m] \in SUBSET (Int \X Nat) /\ IsFiniteSet(failed[m]) /\ Numbered(failed[m])
    BY DEF Inv, Typed, FailedOK
  <2>2. attempt[w].since \in Int
    BY <1>0
  <2> QED
    BY <2>1, <2>2, OneMoreIs
<1>4. Typed'
  <2>1. \A m \in Members : failed'[m] \in SUBSET (Int \X Nat)
    BY <1>2, <1>3, 0 \in Int
  <2>2. failed' = [m \in Members |-> failed'[m]]
    BY DEF Answered
  <2>3. failed' \in [Members -> SUBSET (Int \X Nat)]
    BY <2>1, <2>2
  <2> QED
    BY <1>0, <1>1, <2>3 DEF Inv, Typed
<1>5. \A k \in Keys : KeyOK(k)'
  BY <1>0 DEF Inv, KeyOK, InOrder
<1>6. ASSUME NEW m \in Members PROVE FailedOK(m)'
  <2>1. IsFiniteSet(failed'[m]) /\ Numbered(failed'[m])
    BY <1>2, <1>3, 0 \in Int
  <2>2. \A x \in failed'[m] : x \in failed[m] \/ x[1] = attempt[w].since
    BY <1>2, <1>3, 0 \in Int
  <2>3. attempt[w].since <= now
    BY <1>0
  <2>4. \A x \in failed'[m] : x[1] <= now'
    BY <1>0, <2>2, <2>3 DEF Inv, FailedOK
  <2> QED
    BY <2>1, <2>4 DEF FailedOK
<1>7. ASSUME NEW m \in Members, NEW moment \in Int, moment >= now' - window
      PROVE  Ledger(m, moment)'
  <2>1. moment >= now - window /\ Ledger(m, moment) /\ FailedOK(m) /\ Typed
    BY <1>0, <1>7 DEF Inv
  <2>2. PICK f \in Nat : f = Cardinality(FailedAfter(failed[m], moment))
    BY <2>1, LedgerTypes
  <2>3. PICK a \in Nat : a = Cardinality(After(attempt, m, moment))
    BY <2>1, LedgerTypes
  <2>4. PICK u \in Nat : u = Cardinality(Until(attempt, m, moment))
    BY <2>1, LedgerTypes
  <2>5. PICK r \in Nat : r = Newer(at[m], moment)
    BY <2>1, LedgerTypes
  <2>6. PICK n \in Nat : n = Cardinality(Workers)
    BY <2>1, LedgerTypes
  <2>7. r <= f + a /\ (f + a = 0 \/ f + a + u <= r + n - 1)
    BY <2>1, <2>2, <2>3, <2>4, <2>5, <2>6, UnforgivenIs DEF Ledger, Balanced
  <2>8. Cardinality(Until(attempt', m, moment)) = u
          - (IF w \in Until(attempt, m, moment) THEN 1 ELSE 0)
    <3>1. Cardinality(Until(attempt', m, moment)) = Cardinality(Until(attempt, m, moment))
            - (IF w \in Until(attempt, m, moment) THEN 1 ELSE 0)
      BY <1>a, WorkEnds
    <3> QED
      BY <2>4, <3>1
  <2>9. Cardinality(After(attempt', m, moment)) = a
          - (IF w \in After(attempt, m, moment) THEN 1 ELSE 0)
    <3>1. Cardinality(After(attempt', m, moment)) = Cardinality(After(attempt, m, moment))
            - (IF w \in After(attempt, m, moment) THEN 1 ELSE 0)
      BY <1>a, WorkEnds
    <3> QED
      BY <2>3, <3>1
  <2>10. Unforgiven(m, moment)' = f + a
    <3>1. CASE w \in After(attempt, m, moment)
      <4>1. attempt[w].at = "tried" /\ attempt[w].who = m /\ attempt[w].since > moment
        BY <3>1 DEF After
      <4>2. Fails(w, m)
        BY <1>0, <2>1, <4>1 DEF Fails
      <4>3. Cardinality(FailedAfter(failed'[m], moment)) = f + 1
        BY <1>2, <1>3, <2>2, <4>1, <4>2
      <4>4. Cardinality(After(attempt', m, moment)) = a - 1
        BY <2>9, <3>1
      <4>5. (f + 1) + (a - 1) = f + a
        OBVIOUS
      <4> QED
        BY <4>3, <4>4, <4>5, UnforgivenIs
    <3>2. CASE w \notin After(attempt, m, moment)
      <4>1. Cardinality(FailedAfter(failed'[m], moment)) = f
        <5>1. CASE Fails(w, m)
          <6>1. ~(attempt[w].since > moment)
            BY <3>2, <5>1 DEF Fails, After
          <6> QED
            BY <1>2, <1>3, <2>2, <5>1, <6>1
        <5>2. CASE ~Fails(w, m)
          BY <1>2, <2>2, <5>2
        <5> QED
          BY <5>1, <5>2
      <4>2. Cardinality(After(attempt', m, moment)) = a
        BY <2>9, <3>2
      <4> QED
        BY <4>1, <4>2, UnforgivenIs
    <3> QED
      BY <3>1, <3>2
  <2>11. PICK v \in Int : v = Cardinality(Until(attempt', m, moment)) /\ v <= u
    <3>1. CASE w \in Until(attempt, m, moment)
      BY <2>8, <3>1
    <3>2. CASE w \notin Until(attempt, m, moment)
      BY <2>8, <3>2
    <3> QED
      BY <3>1, <3>2
  <2>12. Balanced(r, f + a, v)
    BY <2>6, <2>7, <2>11 DEF Balanced
  <2> QED
    BY <1>0, <2>5, <2>10, <2>11, <2>12 DEF Ledger
<1> QED
  BY <1>1, <1>4, <1>5, <1>6, <1>7 DEF Inv

\* A try that turns out well is no longer held against its member, and the
\* newest that is remembered goes, whichever it was.
LEMMA ForgivenKeeps ==
  ASSUME Inv, NEW w \in Workers, Forgiven(w)
  PROVE  Inv'
<1> DEFINE who == attempt[w].who
           since == attempt[w].since
           popped == IF at[who] = <<>> THEN at[who] ELSE SubSeq(at[who], 1, Len(at[who]) - 1)
<1>0. /\ now' = now /\ held' = held /\ swept' = swept /\ swept_full' = swept_full
      /\ failed' = failed
      /\ attempt' = [attempt EXCEPT ![w] = NoAttempt]
      /\ now \in Nat /\ window \in Nat
      /\ attempt \in [Workers -> AttemptType] /\ IsFiniteSet(Workers)
      /\ attempt[w].at = "tried" /\ who \in Keys /\ since \in Int
      /\ at \in [Keys -> Seq(Int)]
  <2>1. attempt[w].at = "tried" /\ since \in 0..now /\ now \in Nat /\ window \in Nat
    BY LimitsAssumption DEF Inv, Typed, Forgiven, AttemptOK
  <2>2. who \in Keys
    BY <2>1 DEF Inv, AttemptOK, Keys
  <2> QED
    BY <2>1, <2>2, LimitsAssumption DEF Inv, Typed, Forgiven, NoAttempt
<1>a. /\ attempt \in [Workers -> AttemptType] /\ IsFiniteSet(Workers)
      /\ attempt'[w].at = "idle" /\ \A u \in Workers \ {w} : attempt'[u] = attempt[u]
  BY <1>0 DEF NoAttempt
<1>1. /\ attempt' \in [Workers -> AttemptType] /\ TableOK'
      /\ \A u \in Workers : AttemptOK(u)'
  BY <1>0, EndKeeps
<1>2. at' = [at EXCEPT ![who] = popped]
  BY DEF Forgiven
<1>3. \A k \in Keys : at'[k] = IF k = who THEN popped ELSE at[k]
  BY <1>0, <1>2
<1>4. /\ InOrder(at[who]) /\ Len(at[who]) <= max /\ (who \notin held => at[who] = <<>>)
      /\ at[who] \in Seq(Int)
  BY <1>0 DEF Inv, KeyOK
<1>5. /\ popped \in Seq(Int) /\ InOrder(popped) /\ Len(popped) <= max
      /\ who \notin held => popped = <<>>
  <2>1. CASE at[who] = <<>>
    BY <1>4, <2>1
  <2>2. CASE at[who] # <<>>
    <3>1. /\ SubSeq(at[who], 1, Len(at[who]) - 1) \in Seq(Int)
          /\ Len(SubSeq(at[who], 1, Len(at[who]) - 1)) = Len(at[who]) - 1
      BY <1>4, <2>2, 0 \in Int, NewerPop
    <3>2. InOrder(SubSeq(at[who], 1, Len(at[who]) - 1))
      BY <1>0, <1>4, <2>2, InOrderKept
    <3>3. Len(at[who]) \in Nat /\ max \in Nat
      BY <1>4, LenProperties, LimitsAssumption
    <3>4. Len(at[who]) - 1 <= max
      BY <1>4, <3>3
    <3> QED
      BY <1>4, <2>2, <3>1, <3>2, <3>4
  <2> QED
    BY <2>1, <2>2
<1> HIDE DEF popped, who, since
<1>6. Typed'
  <2>1. at' \in [Keys -> Seq(Int)]
    BY <1>0, <1>2, <1>5
  <2> QED
    BY <1>0, <1>1, <2>1 DEF Inv, Typed
<1>7. ASSUME NEW k \in Keys PROVE KeyOK(k)'
  <2>1. InOrder(at'[k]) /\ Len(at'[k]) <= max /\ (k \notin held => at'[k] = <<>>)
    BY <1>3, <1>5 DEF Inv, KeyOK
  <2> QED
    BY <1>0, <2>1 DEF KeyOK, InOrder
<1>8. \A m \in Members : FailedOK(m)'
  BY <1>0 DEF Inv, FailedOK, Numbered
<1>9. ASSUME NEW m \in Members, NEW moment \in Int, moment >= now' - window
      PROVE  Ledger(m, moment)'
  <2>1. /\ moment >= now - window /\ Ledger(m, moment) /\ FailedOK(m) /\ Typed
        /\ m \in Keys
    BY <1>0, <1>9 DEF Inv, Keys, Who
  <2>2. PICK f \in Nat : f = Cardinality(FailedAfter(failed[m], moment))
    BY <2>1, LedgerTypes
  <2>3. PICK a \in Nat : a = Cardinality(After(attempt, m, moment))
    BY <2>1, LedgerTypes
  <2>4. PICK u \in Nat : u = Cardinality(Until(attempt, m, moment))
    BY <2>1, LedgerTypes
  <2>5. PICK r \in Nat : r = Newer(at[m], moment)
    BY <2>1, LedgerTypes
  <2>6. PICK n \in Nat : n = Cardinality(Workers)
    BY <2>1, LedgerTypes
  <2>7. r <= f + a /\ (f + a = 0 \/ f + a + u <= r + n - 1)
    BY <2>1, <2>2, <2>3, <2>4, <2>5, <2>6, UnforgivenIs DEF Ledger, Balanced
  <2>8. Cardinality(Until(attempt', m, moment)) = u
          - (IF w \in Until(attempt, m, moment) THEN 1 ELSE 0)
    <3>1. Cardinality(Until(attempt', m, moment)) = Cardinality(Until(attempt, m, moment))
            - (IF w \in Until(attempt, m, moment) THEN 1 ELSE 0)
      BY <1>a, WorkEnds
    <3> QED
      BY <2>4, <3>1
  <2>9. Cardinality(After(attempt', m, moment)) = a
          - (IF w \in After(attempt, m, moment) THEN 1 ELSE 0)
    <3>1. Cardinality(After(attempt', m, moment)) = Cardinality(After(attempt, m, moment))
            - (IF w \in After(attempt, m, moment) THEN 1 ELSE 0)
      BY <1>a, WorkEnds
    <3> QED
      BY <2>3, <3>1
  <2>10. Unforgiven(m, moment)' = f + Cardinality(After(attempt', m, moment))
    BY <1>0, <2>2, UnforgivenIs
  <2>11. CASE m # who
    <3>1. w \notin After(attempt, m, moment) /\ w \notin Until(attempt, m, moment)
      BY <2>11 DEF After, Until, who
    <3>2. Unforgiven(m, moment)' = f + a /\ Cardinality(Until(attempt', m, moment)) = u
      BY <2>8, <2>9, <2>10, <3>1
    <3>3. at'[m] = at[m]
      BY <1>3, <2>1, <2>11
    <3>4. Balanced(r, f + a, u)
      BY <2>6, <2>7 DEF Balanced
    <3> QED
      BY <2>5, <3>2, <3>3, <3>4 DEF Ledger
  <2>12. CASE m = who
    <3>1. at'[m] = popped
      BY <1>3, <2>1, <2>12
    <3>2. PICK s \in Nat : s = Newer(popped, moment)
      BY <1>5, NewerType
    <3>3. s = r - 1 \/ (s = 0 /\ r = 0)
      <4>1. CASE at[who] = <<>>
        <5>1. popped = at[who] /\ Newer(at[who], moment) = 0
          <6>1. <<>> \in Seq(Int) /\ DOMAIN <<>> = {}
            OBVIOUS
          <6>2. Newer(<<>>, moment) = 0
            BY <6>1, NewerNone
          <6> QED
            BY <4>1, <6>2 DEF popped
        <5> QED
          BY <2>5, <2>12, <3>2, <5>1
      <4>2. CASE at[who] # <<>>
        <5>1. /\ popped = SubSeq(at[who], 1, Len(at[who]) - 1)
              /\ r = s + (IF at[who][Len(at[who])] > moment THEN 1 ELSE 0)
          BY <1>4, <2>5, <2>12, <3>2, <4>2, NewerPop DEF popped
        <5>2. CASE at[who][Len(at[who])] > moment
          BY <5>1, <5>2
        <5>3. CASE ~(at[who][Len(at[who])] > moment)
          <6>1. Newer(at[who], moment) = 0
            BY <1>0, <1>4, <4>2, <5>3, NewerLast
          <6> QED
            BY <2>5, <2>12, <5>1, <5>3, <6>1
        <5> QED
          BY <5>2, <5>3
      <4> QED
        BY <4>1, <4>2
    <3>4. CASE since > moment
      <4>1. w \in After(attempt, m, moment) /\ w \notin Until(attempt, m, moment)
        BY <1>0, <2>12, <3>4 DEF After, Until, who, since
      <4>2. Unforgiven(m, moment)' = f + (a - 1) /\ Cardinality(Until(attempt', m, moment)) = u
        BY <2>8, <2>9, <2>10, <4>1
      <4>3. a - 1 \in Nat
        <5>1. a # 0
          <6>1. IsFiniteSet(After(attempt, m, moment))
            BY <1>0, WorkFinite
          <6> QED
            BY <2>3, <4>1, <6>1, FS_EmptySet
        <5> QED
          BY <5>1
      <4>4. Balanced(s, f + (a - 1), u)
        BY <2>6, <2>7, <3>3, <4>3 DEF Balanced
      <4> QED
        BY <3>1, <3>2, <4>2, <4>4 DEF Ledger
    <3>5. CASE ~(since > moment)
      <4>1. w \notin After(attempt, m, moment) /\ w \in Until(attempt, m, moment)
        BY <1>0, <2>12, <3>5 DEF After, Until, who, since
      <4>2. Unforgiven(m, moment)' = f + a /\ Cardinality(Until(attempt', m, moment)) = u - 1
        BY <2>8, <2>9, <2>10, <4>1
      <4>3. Balanced(s, f + a, u - 1)
        BY <2>6, <2>7, <3>3 DEF Balanced
      <4> QED
        BY <3>1, <3>2, <4>2, <4>3 DEF Ledger
    <3> QED
      BY <3>4, <3>5
  <2> QED
    BY <2>11, <2>12
<1> QED
  BY <1>1, <1>6, <1>7, <1>8, <1>9 DEF Inv

----------------------------------------------------------------------------
(* Counting: what one step of RateLimiter::count does.                     *)

Uncounted(who) == Newcomer(who, WithRoom(who)) /\ ~Coarsen
KeyOf(who) == CountedAs(who, WithRoom(who))
PastOf(who) == IF KeyOf(who) \in WithRoom(who) THEN Recent(at[KeyOf(who)]) ELSE <<>>
Refused(who) == ~Uncounted(who) /\ TooMany(PastOf(who))
NextAttempt(who) ==
  [at |-> IF Refused(who) THEN "refused" ELSE "tried", who |-> who, since |-> now]

\* The step, in these words.
LEMMA CountedIs ==
  ASSUME NEW w, NEW who, Counted(w, who)
  PROVE  /\ attempt[w].at = "idle"
         /\ held' = IF Uncounted(who) THEN WithRoom(who) ELSE WithRoom(who) \cup {KeyOf(who)}
         /\ at' = [k \in Keys |-> IF k \notin held' THEN <<>>
                                  ELSE IF Uncounted(who) \/ k # KeyOf(who) THEN at[k]
                                  ELSE IF Refused(who) THEN PastOf(who)
                                  ELSE Append(PastOf(who), now)]
         /\ swept' = IF now - swept >= SWEEP_EVERY THEN now ELSE swept
         /\ swept_full' = IF SweepsForRoom(who) THEN now ELSE swept_full
         /\ attempt' = [attempt EXCEPT ![w] = NextAttempt(who)]
         /\ now' = now /\ failed' = failed
BY Zenon DEF Counted, Uncounted, KeyOf, PastOf, Refused, NextAttempt

\* A sweep forgets nobody whose last try is in the window.
LEMMA RoomIs ==
  ASSUME Inv, NEW who \in Who
  PROVE  /\ WithRoom(who) \subseteq held
         /\ \A k \in held \ WithRoom(who) :
              at[k] = <<>> \/ now - at[k][Len(at[k])] >= window
<1>1. ASSUME NEW k \in held, at[k] # <<>>
      PROVE  now - at[k][Len(at[k])] \in Int
  <2>1. at[k] \in Seq(Int) /\ now \in Int
    BY LimitsAssumption DEF Inv, Typed
  <2>2. Len(at[k]) \in 1..Len(at[k]) /\ at[k] \in [1..Len(at[k]) -> Int]
    BY <1>1, <2>1, LenProperties, EmptySeq
  <2> QED
    BY <2>1, <2>2
<1>2. window \in Int
  BY LimitsAssumption
<1>3. AfterSweep \subseteq held /\ WithRoom(who) \subseteq AfterSweep
  BY DEF AfterSweep, WithRoom, Sweep
<1>4. ASSUME NEW k \in held, k \notin WithRoom(who), at[k] # <<>>
      PROVE  ~(now - at[k][Len(at[k])] < window)
  BY <1>4 DEF AfterSweep, WithRoom, Sweep
<1>5. ASSUME NEW k \in held, k \notin WithRoom(who), at[k] # <<>>
      PROVE  now - at[k][Len(at[k])] >= window
  <2>1. PICK d \in Int : d = now - at[k][Len(at[k])]
    BY <1>1, <1>5
  <2>2. ~(d < window)
    BY <1>4, <1>5, <2>1
  <2>3. d >= window
    BY <1>2, <2>2
  <2> QED
    BY <2>1, <2>3
<1> QED
  BY <1>3, <1>5

\* An attempt is counted under a key there is, a member's under its own.
LEMMA KeyIs ==
  ASSUME NEW who \in Who
  PROVE  /\ KeyOf(who) \in Keys
         /\ who \in Members => KeyOf(who) = who /\ ~Uncounted(who)
         /\ KeyOf(who) \in Members => KeyOf(who) = who
<1>1. who \in Addresses => NetworkOf[who] \in Networks
  BY LimitsAssumption
<1>2. CASE Newcomer(who, WithRoom(who))
  <2>1. who \in Addresses /\ who \notin Members
    BY <1>2, LimitsAssumption DEF Newcomer
  <2>2. KeyOf(who) = NetworkOf[who] \/ KeyOf(who) = Everybody
    BY <1>2 DEF KeyOf, CountedAs, Coarser
  <2> QED
    BY <1>1, <2>1, <2>2, LimitsAssumption DEF Keys
<1>3. CASE ~Newcomer(who, WithRoom(who))
  BY <1>3 DEF KeyOf, CountedAs, Uncounted, Keys
<1> QED
  BY <1>2, <1>3

\* What the key tried before is what its bucket remembers of the window.
LEMMA PastIs ==
  ASSUME Inv, NEW who \in Who
  PROVE  /\ PastOf(who) \in Seq(Int) /\ InOrder(PastOf(who)) /\ Len(PastOf(who)) <= max
         /\ \A moment \in Int : moment >= now - window =>
              Newer(PastOf(who), moment) = Newer(at[KeyOf(who)], moment)
         /\ Newer(at[KeyOf(who)], now - window) = Len(PastOf(who))
<1> DEFINE key == KeyOf(who)
           times == at[key]
<1>1. /\ key \in Keys /\ times \in Seq(Int) /\ InOrder(times) /\ Len(times) <= max
      /\ key \notin held => times = <<>>
      /\ now \in Nat /\ now \in Int /\ window \in Int /\ max \in Nat
  BY KeyIs, LimitsAssumption DEF Inv, Typed, KeyOK
<1>2. now - window \in Int /\ now - window >= now - window
  BY <1>1
<1> HIDE DEF key
<1>3. CASE key \in WithRoom(who)
  <2>1. PastOf(who) = Recent(times)
    BY <1>3 DEF PastOf, key
  <2>2. Recent(times) \in Seq(Int) /\ Len(Recent(times)) <= Len(times)
    <3>1. PICK g \in 0..Len(times) :
            Recent(times) \in Seq(Int) /\ Len(Recent(times)) = Len(times) - g
      BY <1>1, RecentIs
    <3>2. Len(times) \in Nat
      BY <1>1, LenProperties
    <3> QED
      BY <3>1, <3>2
  <2>3. Len(Recent(times)) <= max
    <3>1. Len(times) \in Nat /\ Len(Recent(times)) \in Nat
      BY <1>1, <2>2, LenProperties
    <3> QED
      BY <1>1, <2>2, <3>1
  <2>4. InOrder(Recent(times))
    BY <1>1, InOrderKept
  <2>5. \A moment \in Int : moment >= now - window =>
          Newer(Recent(times), moment) = Newer(times, moment)
    BY <1>1, NewerRecent
  <2>6. Newer(times, now - window) = Len(Recent(times))
    BY <1>1, RecentAllNewer
  <2> QED
    BY <2>1, <2>2, <2>3, <2>4, <2>5, <2>6 DEF key
<1>4. CASE key \notin WithRoom(who)
  <2>1. PastOf(who) = <<>>
    BY <1>4 DEF PastOf, key
  <2>2. <<>> \in Seq(Int) /\ Len(<<>>) = 0 /\ DOMAIN <<>> = {}
    OBVIOUS
  <2>3. InOrder(<<>>) /\ Len(<<>>) <= max
    BY <1>1, <2>2 DEF InOrder
  <2>4. times = <<>> \/ now - times[Len(times)] >= window
    BY <1>1, <1>4, RoomIs
  <2>5. \A moment \in Int : moment >= now - window => Newer(times, moment) = 0
    BY <1>1, <2>4, NewerSwept
  <2>6. \A moment \in Int : Newer(<<>>, moment) = 0
    BY <2>2, NewerNone
  <2> QED
    BY <1>2, <2>1, <2>2, <2>3, <2>5, <2>6 DEF key
<1> QED
  BY <1>3, <1>4

\* What is remembered of each key afterwards.
LEMMA CountedTimes ==
  ASSUME Inv, NEW w \in Workers, NEW who \in Who, Counted(w, who), NEW k \in Keys
  PROVE  /\ at'[k] \in Seq(Int) /\ InOrder(at'[k]) /\ Len(at'[k]) <= max
         /\ k \notin held' => at'[k] = <<>>
         /\ \A moment \in Int : moment >= now - window =>
              Newer(at'[k], moment) = Newer(at[k], moment)
                + (IF k = KeyOf(who) /\ ~Uncounted(who) /\ ~Refused(who) /\ now > moment
                   THEN 1 ELSE 0)
<1>1. /\ at[k] \in Seq(Int) /\ InOrder(at[k]) /\ Len(at[k]) <= max
      /\ k \notin held => at[k] = <<>>
      /\ now \in Nat /\ now \in Int /\ window \in Int /\ max \in Nat \ {0}
  BY LimitsAssumption DEF Inv, Typed, KeyOK
<1>2. /\ held' = IF Uncounted(who) THEN WithRoom(who) ELSE WithRoom(who) \cup {KeyOf(who)}
      /\ at'[k] = IF k \notin held' THEN <<>>
                  ELSE IF Uncounted(who) \/ k # KeyOf(who) THEN at[k]
                  ELSE IF Refused(who) THEN PastOf(who)
                  ELSE Append(PastOf(who), now)
  BY CountedIs
<1>3. /\ PastOf(who) \in Seq(Int) /\ InOrder(PastOf(who)) /\ Len(PastOf(who)) <= max
      /\ \A moment \in Int : moment >= now - window =>
           Newer(PastOf(who), moment) = Newer(at[KeyOf(who)], moment)
  BY PastIs
<1>4. \A moment \in Int : Newer(at[k], moment) \in Nat
  BY <1>1, NewerType
<1>5. CASE k \notin held'
  <2>1. at'[k] = <<>> /\ k \notin WithRoom(who)
    BY <1>2, <1>5
  <2>2. ~(k = KeyOf(who) /\ ~Uncounted(who))
    BY <1>2, <1>5
  <2>3. <<>> \in Seq(Int) /\ Len(<<>>) = 0 /\ DOMAIN <<>> = {}
    OBVIOUS
  <2>4. InOrder(<<>>) /\ Len(<<>>) <= max
    BY <1>1, <2>3 DEF InOrder
  <2>5. at[k] = <<>> \/ now - at[k][Len(at[k])] >= window
    BY <1>1, <2>1, RoomIs
  <2>6. \A moment \in Int : moment >= now - window => Newer(at[k], moment) = 0
    BY <1>1, <2>5, NewerSwept
  <2>7. \A moment \in Int : Newer(<<>>, moment) = 0
    BY <2>3, NewerNone
  <2> QED
    BY <2>1, <2>2, <2>3, <2>4, <2>6, <2>7
<1>6. CASE k \in held' /\ (Uncounted(who) \/ k # KeyOf(who))
  <2>1. at'[k] = at[k]
    BY <1>2, <1>6
  <2>2. ~(k = KeyOf(who) /\ ~Uncounted(who))
    BY <1>6
  <2>3. \A moment \in Int : Newer(at'[k], moment) = Newer(at[k], moment) + 0
    BY <1>4, <2>1
  <2> QED
    BY <1>1, <1>6, <2>1, <2>2, <2>3
<1>7. CASE k \in held' /\ ~Uncounted(who) /\ k = KeyOf(who) /\ Refused(who)
  <2>1. at'[k] = PastOf(who)
    BY <1>2, <1>7
  <2> QED
    BY <1>3, <1>4, <1>7, <2>1
<1>8. CASE k \in held' /\ ~Uncounted(who) /\ k = KeyOf(who) /\ ~Refused(who)
  <2>1. at'[k] = Append(PastOf(who), now)
    BY <1>2, <1>8
  <2>2. /\ Append(PastOf(who), now) \in Seq(Int)
        /\ Len(Append(PastOf(who), now)) = Len(PastOf(who)) + 1
    BY <1>1, <1>3, AppendProperties
  <2>3. Len(PastOf(who)) + 1 <= max
    <3>1. ~(Len(PastOf(who)) >= max)
      BY <1>8 DEF Refused, TooMany
    <3>2. Len(PastOf(who)) \in Nat
      BY <1>3, LenProperties
    <3> QED
      BY <1>1, <3>1, <3>2
  <2>4. InOrder(Append(PastOf(who), now))
    BY <1>1, <1>3, InOrderKept
  <2>5. \A moment \in Int :
          Newer(Append(PastOf(who), now), moment) =
            Newer(PastOf(who), moment) + (IF now > moment THEN 1 ELSE 0)
    BY <1>1, <1>3, NewerAppend
  <2>6. \A moment \in Int : moment >= now - window =>
          Newer(at'[k], moment) = Newer(at[k], moment) + (IF now > moment THEN 1 ELSE 0)
    BY <1>3, <1>8, <2>1, <2>5
  <2> QED
    BY <1>8, <2>1, <2>2, <2>3, <2>4, <2>6
<1> QED
  BY <1>5, <1>6, <1>7, <1>8

\* The table takes a newcomer only while there is room.
LEMMA CountedTable ==
  ASSUME Inv, NEW w \in Workers, NEW who \in Who, Counted(w, who)
  PROVE  TableOK'
<1> DEFINE h == WithRoom(who)
           key == KeyOf(who)
           T(S) == (S \ {Everybody}) \ Members
           room == IF Coarsen THEN MAX_NETWORKS ELSE 0
<1>1. held' = IF Uncounted(who) THEN h ELSE h \cup {key}
  BY CountedIs
<1>2. h \subseteq held /\ held \subseteq Keys /\ key \in Keys
  BY RoomIs, KeyIs DEF Inv, Typed
<1>3. IsFiniteSet(Addresses \cup Networks \cup {Everybody})
  <2>1. IsFiniteSet(Addresses \cup Networks)
    BY LimitsAssumption, FS_Union
  <2> QED
    BY <2>1, FS_AddElement
<1>4. ASSUME NEW S, S \subseteq Keys
      PROVE  /\ IsFiniteSet(S \ Members) /\ Cardinality(S \ Members) \in Nat
             /\ IsFiniteSet(T(S)) /\ Cardinality(T(S)) \in Nat
             /\ Cardinality(T(S)) <= Cardinality(S \ Members)
  <2>1. S \ Members \subseteq Addresses \cup Networks \cup {Everybody} /\ T(S) \subseteq S \ Members
    BY <1>4 DEF Keys, Who
  <2>2. IsFiniteSet(S \ Members)
    BY <1>3, <2>1, FS_Subset
  <2>3. IsFiniteSet(T(S)) /\ Cardinality(T(S)) <= Cardinality(S \ Members)
    BY <2>1, <2>2, FS_Subset
  <2> QED
    BY <2>2, <2>3, FS_CardinalityType
<1>5. room \in Nat /\ MAX_ADDRESSES \in Nat /\ MAX_NETWORKS \in Nat
  BY LimitsAssumption
<1>6. Cardinality(T(held)) <= MAX_ADDRESSES + room
  BY DEF Inv, TableOK, InTable
<1>7. Cardinality(T(h)) <= MAX_ADDRESSES + room
  <2>1. T(h) \subseteq T(held)
    BY <1>2
  <2>2. IsFiniteSet(T(held)) /\ Cardinality(T(held)) \in Nat
    BY <1>2, <1>4
  <2>3. Cardinality(T(h)) <= Cardinality(T(held))
    BY <2>1, <2>2, FS_Subset
  <2>4. Cardinality(T(h)) \in Nat
    BY <1>2, <1>4
  <2> QED
    BY <1>5, <1>6, <2>2, <2>3, <2>4
<1>8. Cardinality(T(held')) <= MAX_ADDRESSES + room
  <2>1. CASE Uncounted(who)
    BY <1>1, <1>7, <2>1
  <2>2. CASE ~Uncounted(who) /\ (key \in h \/ key \in Members \/ key = Everybody)
    <3>1. T(held') = T(h)
      BY <1>1, <2>2
    <3> QED
      BY <1>7, <3>1
  <2>3. CASE ~Uncounted(who) /\ key \notin h /\ key \notin Members /\ key # Everybody
    <3>1. T(held') = T(h) \cup {key}
      BY <1>1, <2>3
    <3>2. IsFiniteSet(T(h)) /\ Cardinality(T(h)) \in Nat /\ Cardinality(h \ Members) \in Nat
          /\ Cardinality(T(h)) <= Cardinality(h \ Members)
      BY <1>2, <1>4
    <3>3. Cardinality(T(held')) = Cardinality(T(h)) + 1
      <4>1. key \notin T(h)
        BY <2>3
      <4>2. Cardinality(T(h) \cup {key}) = Cardinality(T(h)) + 1
        <5> HIDE DEF T, key, h
        <5> QED
          BY <3>2, <4>1, FS_AddElement
      <4> QED
        BY <3>1, <4>2
    <3>4. CASE Newcomer(who, h)
      <4>1. Coarsen /\ room = MAX_NETWORKS
        BY <2>3, <3>4 DEF Uncounted
      <4>2. key = Coarser(who, h)
        BY <3>4 DEF KeyOf, CountedAs
      <4>3. Cardinality(h \ Members) < MAX_ADDRESSES + MAX_NETWORKS
        BY <2>3, <4>2 DEF Coarser, InTable
      <4> QED
        BY <1>5, <3>2, <3>3, <4>1, <4>3
    <3>5. CASE ~Newcomer(who, h)
      <4>1. key = who
        BY <3>5 DEF KeyOf, CountedAs
      <4>2. ~(Cardinality(h \ Members) >= MAX_ADDRESSES)
        BY <2>3, <3>5, <4>1 DEF Newcomer, InTable, Who
      <4> QED
        BY <1>5, <3>2, <3>3, <4>2
    <3> QED
      BY <3>4, <3>5
  <2> QED
    BY <2>1, <2>2, <2>3
<1> QED
  BY <1>8 DEF TableOK, InTable

\* A count is held against its member and remembered of it, both or neither.
LEMMA CountedLedger ==
  ASSUME Inv, NEW w \in Workers, NEW who \in Who, Counted(w, who),
         NEW m \in Members, NEW moment \in Int, moment >= now' - window
  PROVE  Ledger(m, moment)'
<1> DEFINE counts == m = who /\ ~Refused(who)
<1>0. /\ now' = now /\ failed' = failed /\ attempt[w].at = "idle"
      /\ now \in Nat /\ window \in Nat
  BY CountedIs, LimitsAssumption DEF Inv, Typed
<1>a. /\ attempt \in [Workers -> AttemptType] /\ IsFiniteSet(Workers)
      /\ attempt'[w] = NextAttempt(who)
      /\ \A u \in Workers \ {w} : attempt'[u] = attempt[u]
  BY CountedIs, LimitsAssumption DEF Inv, Typed
<1>1. /\ moment >= now - window /\ Ledger(m, moment) /\ FailedOK(m) /\ Typed
      /\ m \in Keys
  BY <1>0 DEF Inv, Keys, Who
<1>2. PICK f \in Nat : f = Cardinality(FailedAfter(failed[m], moment))
  BY <1>1, LedgerTypes
<1>3. PICK a \in Nat : a = Cardinality(After(attempt, m, moment))
  BY <1>1, LedgerTypes
<1>4. PICK u \in Nat : u = Cardinality(Until(attempt, m, moment))
  BY <1>1, LedgerTypes
<1>5. PICK r \in Nat : r = Newer(at[m], moment)
  BY <1>1, LedgerTypes
<1>6. PICK n \in Nat : n = Cardinality(Workers)
  BY <1>1, LedgerTypes
<1>7. r <= f + a /\ (f + a = 0 \/ f + a + u <= r + n - 1)
  BY <1>1, <1>2, <1>3, <1>4, <1>5, <1>6, UnforgivenIs DEF Ledger, Balanced
<1>8. u <= n - 1
  <2>1. Cardinality(Until(attempt, m, moment)) <= Cardinality(Workers) - 1
    BY <1>0, <1>a, WorkBegins
  <2> QED
    BY <1>4, <1>6, <2>1
<1>9. Cardinality(After(attempt', m, moment)) =
        Cardinality(After(attempt, m, moment)) + (IF w \in After(attempt', m, moment) THEN 1 ELSE 0)
  BY <1>0, <1>a, WorkBegins
<1>10. w \notin Until(attempt', m, moment) =>
         Cardinality(Until(attempt', m, moment)) = Cardinality(Until(attempt, m, moment))
  BY <1>0, <1>a, WorkBegins
<1>11. /\ w \in After(attempt', m, moment) <=> (counts /\ now > moment)
       /\ w \in Until(attempt', m, moment) <=> (counts /\ now <= moment)
  BY <1>a DEF After, Until, NextAttempt
<1>12. Unforgiven(m, moment)' = f + Cardinality(After(attempt', m, moment))
  BY <1>0, <1>2, UnforgivenIs
<1>13. Newer(at'[m], moment) = Newer(at[m], moment)
         + (IF m = KeyOf(who) /\ ~Uncounted(who) /\ ~Refused(who) /\ now > moment THEN 1 ELSE 0)
  BY <1>1, CountedTimes
<1>14. CASE counts /\ now > moment
  <2>1. m = KeyOf(who) /\ ~Uncounted(who) /\ ~Refused(who) /\ now > moment
    BY <1>14, KeyIs
  <2>2. Newer(at'[m], moment) = r + 1
    BY <1>5, <1>13, <2>1
  <2>3. w \in After(attempt', m, moment) /\ w \notin Until(attempt', m, moment)
    BY <1>0, <1>11, <1>14
  <2>4. Unforgiven(m, moment)' = f + (a + 1) /\ Cardinality(Until(attempt', m, moment)) = u
    BY <1>3, <1>4, <1>9, <1>10, <1>12, <2>3
  <2>5. Balanced(r + 1, f + (a + 1), u)
    BY <1>6, <1>7, <1>8 DEF Balanced
  <2> QED
    BY <2>2, <2>4, <2>5 DEF Ledger
<1>15. CASE counts /\ ~(now > moment)
  <2>1. FailedAfter(failed[m], moment) = {}
    <3> SUFFICES ASSUME NEW x \in failed[m], x[1] > moment PROVE FALSE
      BY DEF FailedAfter
    <3>1. x[1] <= now /\ x[1] \in Int
      BY <1>1 DEF FailedOK, Typed
    <3> QED
      BY <1>0, <1>15, <3>1
  <2>2. After(attempt, m, moment) = {}
    <3> SUFFICES ASSUME NEW v \in Workers, attempt[v].since > moment PROVE FALSE
      BY DEF After
    <3>1. attempt[v].since \in 0..now
      BY DEF Inv, AttemptOK
    <3> QED
      BY <1>0, <1>15, <3>1
  <2>3. f = 0 /\ a = 0
    BY <1>2, <1>3, <2>1, <2>2, FS_EmptySet
  <2>4. w \notin After(attempt', m, moment)
    BY <1>11, <1>15
  <2>5. Cardinality(After(attempt', m, moment)) = 0
    BY <1>3, <1>9, <2>3, <2>4
  <2>6. Unforgiven(m, moment)' = 0
    BY <1>12, <2>3, <2>5
  <2>7. Newer(at'[m], moment) = 0
    <3>1. r = 0
      BY <1>7, <2>3
    <3>2. ~(m = KeyOf(who) /\ ~Uncounted(who) /\ ~Refused(who) /\ now > moment)
      BY <1>15
    <3> QED
      BY <1>5, <1>13, <3>1, <3>2
  <2> QED
    BY <2>6, <2>7 DEF Ledger, Balanced
<1>16. CASE ~counts
  <2>1. ~(m = KeyOf(who) /\ ~Uncounted(who) /\ ~Refused(who) /\ now > moment)
    BY <1>16, KeyIs
  <2>2. Newer(at'[m], moment) = r
    BY <1>5, <1>13, <2>1
  <2>3. w \notin After(attempt', m, moment) /\ w \notin Until(attempt', m, moment)
    BY <1>11, <1>16
  <2>4. Unforgiven(m, moment)' = f + a /\ Cardinality(Until(attempt', m, moment)) = u
    BY <1>3, <1>4, <1>9, <1>10, <1>12, <2>3
  <2>5. Balanced(r, f + a, u)
    BY <1>6, <1>7 DEF Balanced
  <2> QED
    BY <2>2, <2>4, <2>5 DEF Ledger
<1> QED
  BY <1>14, <1>15, <1>16

\* Counting an attempt keeps the invariant.
LEMMA CountedKeeps ==
  ASSUME Inv, NEW w \in Workers, NEW who \in Who, Counted(w, who)
  PROVE  Inv'
<1>0. /\ now' = now /\ failed' = failed
      /\ held' = IF Uncounted(who) THEN WithRoom(who) ELSE WithRoom(who) \cup {KeyOf(who)}
      /\ attempt' = [attempt EXCEPT ![w] = NextAttempt(who)]
      /\ now \in Nat /\ attempt \in [Workers -> AttemptType]
  BY CountedIs, LimitsAssumption DEF Inv, Typed
<1>1. /\ NextAttempt(who) \in AttemptType
      /\ NextAttempt(who).since = now /\ NextAttempt(who).who = who
  BY <1>0 DEF NextAttempt, AttemptType
<1>2. Typed'
  <2>1. held' \subseteq Keys
    BY <1>0, RoomIs, KeyIs DEF Inv, Typed
  <2>2. at' \in [Keys -> Seq(Int)]
    <3>1. \A k \in Keys : at'[k] \in Seq(Int)
      BY CountedTimes, 0 \in Int
    <3>2. at' = [k \in Keys |-> at'[k]]
      BY CountedIs
    <3> QED
      BY <3>1, <3>2
  <2>3. swept' \in 0..now' /\ swept_full' \in -SWEEP_WHEN_FULL..now'
    <3>1. swept' = swept \/ swept' = now
      BY CountedIs
    <3>2. swept_full' = swept_full \/ swept_full' = now
      BY CountedIs
    <3>3. now \in 0..now /\ now \in -SWEEP_WHEN_FULL..now
      BY <1>0, LimitsAssumption
    <3> QED
      BY <1>0, <3>1, <3>2, <3>3 DEF Inv, Typed
  <2>4. attempt' \in [Workers -> AttemptType]
    BY <1>0, <1>1
  <2> QED
    BY <1>0, <2>1, <2>2, <2>3, <2>4 DEF Inv, Typed
<1>3. ASSUME NEW k \in Keys PROVE KeyOK(k)'
  <2>1. InOrder(at'[k]) /\ Len(at'[k]) <= max /\ (k \notin held' => at'[k] = <<>>)
    BY CountedTimes
  <2> QED
    BY <1>0, <2>1 DEF KeyOK, InOrder
<1>4. ASSUME NEW u \in Workers PROVE AttemptOK(u)'
  <2>1. CASE u = w
    <3>1. attempt'[u] = NextAttempt(who) /\ now \in 0..now
      BY <1>0, <2>1
    <3> QED
      BY <1>0, <1>1, <3>1 DEF AttemptOK
  <2>2. CASE u # w
    <3>1. attempt'[u] = attempt[u]
      BY <1>0, <2>2
    <3> QED
      BY <1>0, <3>1 DEF Inv, AttemptOK
  <2> QED
    BY <2>1, <2>2
<1>5. \A m \in Members : FailedOK(m)'
  BY <1>0 DEF Inv, FailedOK, Numbered
<1>6. TableOK'
  BY CountedTable
<1>7. ASSUME NEW m \in Members, NEW moment \in Int, moment >= now' - window
      PROVE  Ledger(m, moment)'
  BY <1>7, CountedLedger
<1> QED
  BY <1>2, <1>3, <1>4, <1>5, <1>6, <1>7 DEF Inv

----------------------------------------------------------------------------
(* The theorems.                                                           *)

\* Every step keeps the invariant.
LEMMA StepKeeps == Inv /\ [Next]_vars => Inv'
<1> SUFFICES ASSUME Inv, [Next]_vars PROVE Inv'
  OBVIOUS
<1>1. ASSUME NEW w \in Workers, NEW who \in Who, Counted(w, who) PROVE Inv'
  BY <1>1, CountedKeeps
<1>2. ASSUME NEW w \in Workers, Answered(w) PROVE Inv'
  BY <1>2, AnsweredKeeps
<1>3. ASSUME NEW w \in Workers, Forgiven(w) PROVE Inv'
  BY <1>3, ForgivenKeeps
<1>4. CASE Tick
  BY <1>4, TickKeeps
<1>5. CASE UNCHANGED vars
  <2>1. /\ now' = now /\ held' = held /\ at' = at /\ swept' = swept
        /\ swept_full' = swept_full /\ attempt' = attempt /\ failed' = failed
    BY <1>5 DEF vars
  <2>2. Typed' /\ TableOK'
    BY <2>1 DEF Inv, Typed, TableOK, InTable
  <2>3. /\ \A k \in Keys : KeyOK(k)'
        /\ \A w \in Workers : AttemptOK(w)'
        /\ \A m \in Members : FailedOK(m)'
    BY <2>1 DEF Inv, KeyOK, InOrder, AttemptOK, FailedOK, Numbered
  <2>4. \A m \in Members : \A moment \in Int : moment >= now' - window => Ledger(m, moment)'
    <3> TAKE m \in Members
    <3> TAKE moment \in Int
    <3>1. Unforgiven(m, moment)' = Unforgiven(m, moment)
      BY <2>1, UnforgivenIs
    <3> QED
      BY <2>1, <3>1 DEF Inv, Ledger
  <2> QED
    BY <2>2, <2>3, <2>4 DEF Inv
<1> QED
  BY <1>1, <1>2, <1>3, <1>4, <1>5 DEF Next

\* The invariant holds in every state there is.
THEOREM LimitsInv == Spec => []Inv
<1>1. Init => Inv
  BY Starts
<1>2. Inv /\ [Next]_vars => Inv'
  BY StepKeeps
<1> QED
  BY <1>1, <1>2, PTL DEF Spec

\* Every variable has its type, and however many addresses are made up, the
\* table stays within its room and nobody has more tries remembered than its
\* bucket has: for every room, bucket and number of networks.
THEOREM TableBoundedCorrect == Spec => []TableBounded
<1>1. Inv => TableBounded
  <2> SUFFICES ASSUME Inv PROVE TableBounded
    OBVIOUS
  <2>1. ASSUME NEW k \in Keys
        PROVE  /\ Len(at[k]) <= max /\ (k \notin held => at[k] = <<>>)
               /\ \A i \in DOMAIN at[k] : at[k][i] \in 0..now
    BY DEF Inv, KeyOK, InOrder
  <2>2. ASSUME NEW w \in Workers
        PROVE  /\ attempt[w].at \in {"idle", "tried", "refused"}
               /\ attempt[w].who \in Who \cup {Everybody}
    BY DEF Inv, Typed, AttemptType
  <2>3. TypeOK
    BY <2>1, <2>2 DEF Inv, Typed, TypeOK
  <2> QED
    BY <2>3 DEF Inv, TableOK, TableBounded
<1> QED
  BY <1>1, LimitsInv, PTL

\* A member never has more tries in a window that did not turn out well than its
\* bucket and one for each further request that overlaps: for every bucket and
\* any number of requests at once.
THEOREM TriesHeldCorrect == Spec => []TriesHeld
<1>1. Inv => TriesHeld
  <2> SUFFICES ASSUME Inv, NEW m \in Members
               PROVE  Unforgiven(m, now - window) <= max + Cardinality(Workers) - 1
    BY DEF TriesHeld
  <2>0. /\ now - window \in Int /\ now - window >= now - window /\ max \in Nat \ {0}
        /\ at[m] \in Seq(Int) /\ Len(at[m]) <= max /\ Typed /\ FailedOK(m)
    BY LimitsAssumption DEF Inv, Typed, KeyOK, Keys, Who
  <2>1. Ledger(m, now - window)
    BY <2>0 DEF Inv
  <2>2. PICK r \in Nat : r = Newer(at[m], now - window) /\ r <= Len(at[m])
    BY <2>0, NewerType
  <2>3. PICK n \in Nat : n = Cardinality(Workers)
    BY <2>0, LedgerTypes
  <2>4. PICK u \in Nat : u = Cardinality(Until(attempt, m, now - window))
    BY <2>0, LedgerTypes
  <2>5. PICK x \in Nat : x = Unforgiven(m, now - window)
    BY <2>0, LedgerTypes, UnforgivenIs
  <2>6. x = 0 \/ x + u <= r + n - 1
    BY <2>1, <2>2, <2>3, <2>4, <2>5 DEF Ledger, Balanced
  <2>7. r <= max
    <3>1. Len(at[m]) \in Nat
      BY <2>0, LenProperties
    <3> QED
      BY <2>0, <2>2, <3>1
  <2>8. x <= max + n - 1
    BY <2>0, <2>6, <2>7
  <2> QED
    BY <2>3, <2>5, <2>8
<1> QED
  BY <1>1, LimitsInv, PTL

\* A member is refused only once its own tries that did not turn out well fill
\* its bucket, whoever else is counted and however full the tables are.
THEOREM RefusedForItsOwnCorrect == Spec => RefusedForItsOwn
<1>1. Inv /\ [Next]_vars =>
        [\A w \in Workers :
           attempt[w].at = "idle" /\ attempt'[w].at = "refused" /\ attempt'[w].who \in Members =>
             Unforgiven(attempt'[w].who, now - window) >= max]_vars
  <2> SUFFICES ASSUME Inv, [Next]_vars, NEW w \in Workers,
                      attempt[w].at = "idle", attempt'[w].at = "refused",
                      attempt'[w].who \in Members
               PROVE  Unforgiven(attempt'[w].who, now - window) >= max
    OBVIOUS
  <2>0. attempt \in [Workers -> AttemptType] /\ NoAttempt.at = "idle"
    BY DEF Inv, Typed, NoAttempt
  <2>1. CASE UNCHANGED vars
    BY <2>1 DEF vars
  <2>2. CASE Tick
    BY <2>2 DEF Tick
  <2>3. ASSUME NEW v \in Workers, attempt' = [attempt EXCEPT ![v] = NoAttempt] PROVE FALSE
    BY <2>0, <2>3
  <2>4. ASSUME NEW v \in Workers, Answered(v) \/ Forgiven(v) PROVE FALSE
    BY <2>3, <2>4 DEF Answered, Forgiven
  <2>5. ASSUME NEW v \in Workers, NEW who \in Who, Counted(v, who)
        PROVE  Unforgiven(attempt'[w].who, now - window) >= max
    <3>1. attempt' = [attempt EXCEPT ![v] = NextAttempt(who)]
      BY <2>5, CountedIs
    <3>2. w = v /\ attempt'[w] = NextAttempt(who)
      BY <2>0, <3>1
    <3>3. NextAttempt(who).who = who /\ (NextAttempt(who).at = "refused" => Refused(who))
      BY DEF NextAttempt
    <3>4. Refused(who) /\ who \in Members /\ attempt'[w].who = who
      BY <3>2, <3>3
    <3>5. KeyOf(who) = who /\ Len(PastOf(who)) >= max
      BY <3>4, KeyIs DEF Refused, TooMany
    <3>6. Newer(at[who], now - window) = Len(PastOf(who))
      BY <3>5, PastIs
    <3>7. /\ now - window \in Int /\ now - window >= now - window /\ max \in Nat
          /\ Typed /\ FailedOK(who)
      BY <3>4, LimitsAssumption DEF Inv, Typed
    <3>8. Ledger(who, now - window)
      BY <3>4, <3>7 DEF Inv
    <3>9. PICK r \in Nat : r = Newer(at[who], now - window)
      BY <3>4, <3>7, LedgerTypes
    <3>10. PICK x \in Nat : x = Unforgiven(who, now - window)
      BY <3>4, <3>7, LedgerTypes, UnforgivenIs
    <3>11. r <= x /\ r >= max
      BY <3>5, <3>6, <3>8, <3>9, <3>10 DEF Ledger, Balanced
    <3>12. x >= max
      BY <3>7, <3>11
    <3> QED
      BY <3>4, <3>10, <3>12
  <2> QED
    BY <2>1, <2>2, <2>4, <2>5 DEF Next
<1> QED
  BY <1>1, LimitsInv, PTL DEF Spec, RefusedForItsOwn

=============================================================================
