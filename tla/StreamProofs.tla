---------------------------- MODULE StreamProofs ----------------------------
(* Two streams of events and what their readers have of them.  First the     *)
(* stream of one run: it holds nothing twice and has no hole, for every      *)
(* number of publishers and subscribers and every bound of a queue.  Then    *)
(* the stream of a session on its way to the renderer: it is in order and    *)
(* has no hole the renderer was not told of, but for events that were        *)
(* overtaken.                                                                *)
EXTENDS RunEventSplice, SessionStream, SequenceTheorems, FiniteSetTheorems, TLAPS

(***************************************************************************)
(* The inductive invariant.                                                *)
(***************************************************************************)

Waiting(n) == \E p \in Publishers : n \in ToSet(pending[p])

(* A committed event waits in one place of one publisher, or the hub has     *)
(* published it.                                                             *)
PendingApart ==
    /\ \A p \in Publishers : IsInjective(pending[p])
    /\ \A p, q \in Publishers : p # q => ToSet(pending[p]) \cap ToSet(pending[q]) = {}
    /\ hub.latest <= Len(log)
    /\ \A n \in DOMAIN log : hub.latest < n => Waiting(n)

(* An event is in one queue at a time on its way to the client; what the     *)
(* client has is behind the boundary or in none of them.                     *)
Apart(s) ==
    /\ IsInjective(subs[s].queue) /\ IsInjective(channel[s]) /\ IsInjective(got[s])
    /\ \A n \in ToSet(subs[s].queue) : ~Waiting(n)
    /\ \A n \in ToSet(channel[s]) :
          n \notin ToSet(subs[s].queue) /\ ~Waiting(n) /\ watch[s].boundary < n
    /\ \A n \in ToSet(got[s]) :
          \/ n <= watch[s].boundary
          \/ n \notin ToSet(channel[s]) /\ n \notin ToSet(subs[s].queue) /\ ~Waiting(n)

(* Nothing flows before the subscription or after its end.                   *)
Stages(s) ==
    /\ watch[s].at \notin {"replay", "open"} => ~subs[s].on /\ subs[s].queue = <<>>
    /\ watch[s].at \notin {"open", "closed", "left"} =>
          channel[s] = <<>> /\ got[s] = <<>> /\ bridge[s] = "off"
    /\ watch[s].at \in {"idle", "liveCheck", "subscribe"} => ~watch[s].live
    /\ watch[s].last <= Len(log) /\ watch[s].boundary <= Len(log)

(* A live stream that does not lag hears of everything behind its boundary,  *)
(* and what is up to it has been replayed.                                   *)
Whole(s) ==
    watch[s].at \in {"replay", "open"} /\ watch[s].live /\ ~subs[s].overflowed =>
      /\ subs[s].on /\ subs[s].all
      /\ \A n \in RunDurables : watch[s].boundary < n =>
            \/ Waiting(n) \/ n \in ToSet(subs[s].queue)
            \/ n \in ToSet(channel[s]) \/ n \in ToSet(got[s])
      /\ watch[s].at = "open" =>
            \A n \in RunDurables : watch[s].after < n /\ n <= watch[s].boundary => n \in ToSet(got[s])

Subscription(s) == Apart(s) /\ Stages(s) /\ Whole(s)

SpliceInv ==
    /\ SpliceTypeOK
    /\ PendingApart
    /\ \A s \in Subscribers : Subscription(s)

-------------------------------------------------------------------------------
(* Sequences as the sets of what they hold.                                  *)

LEMMA EmptyHolds == ToSet(<<>>) = {} /\ IsInjective(<<>>)
  BY DEF ToSet, IsInjective

LEMMA AppendHolds ==
    ASSUME NEW S, NEW q \in Seq(S), NEW e \in S
    PROVE  /\ Append(q, e) \in Seq(S)
           /\ ToSet(Append(q, e)) = ToSet(q) \union {e}
           /\ IsInjective(q) /\ e \notin ToSet(q) => IsInjective(Append(q, e))
<1>1. /\ Append(q, e) \in Seq(S) /\ Len(Append(q, e)) = Len(q) + 1 /\ Len(q) \in Nat
      /\ \A i \in 1..Len(q) : Append(q, e)[i] = q[i]
      /\ Append(q, e)[Len(q) + 1] = e
      /\ DOMAIN q = 1..Len(q) /\ DOMAIN Append(q, e) = 1..(Len(q) + 1)
  OBVIOUS
<1> DEFINE a == Append(q, e)
<1> HIDE DEF a
<1>2. /\ a \in Seq(S) /\ Len(q) \in Nat
      /\ \A i \in 1..Len(q) : a[i] = q[i]
      /\ a[Len(q) + 1] = e
      /\ DOMAIN q = 1..Len(q) /\ DOMAIN a = 1..(Len(q) + 1)
  BY <1>1 DEF a
<1>3. \A i \in 1..(Len(q) + 1) : i \in 1..Len(q) \/ i = Len(q) + 1
  BY <1>2
<1>4. ToSet(a) = ToSet(q) \union {e}
  <2>1. ASSUME NEW x \in ToSet(a) PROVE x \in ToSet(q) \union {e}
    BY <1>2, <1>3 DEF ToSet
  <2>2. ASSUME NEW x \in ToSet(q) PROVE x \in ToSet(a)
    <3>1. PICK i \in 1..Len(q) : q[i] = x
      BY <1>2 DEF ToSet
    <3>2. i \in DOMAIN a /\ a[i] = x
      BY <1>2, <3>1
    <3> QED BY <3>2 DEF ToSet
  <2>3. e \in ToSet(a)
    <3>1. Len(q) + 1 \in DOMAIN a
      BY <1>2
    <3> QED BY <1>2, <3>1 DEF ToSet
  <2> QED BY <2>1, <2>2, <2>3
<1>5. ASSUME IsInjective(q), e \notin ToSet(q) PROVE IsInjective(a)
  <2> SUFFICES ASSUME NEW i \in DOMAIN a, NEW j \in DOMAIN a, a[i] = a[j]
               PROVE  i = j
    BY DEF IsInjective
  <2>1. \A k \in 1..Len(q) : q[k] # e
    BY <1>2, <1>5 DEF ToSet
  <2>2. \A k, l \in 1..Len(q) : q[k] = q[l] => k = l
    BY <1>2, <1>5 DEF IsInjective
  <2> QED BY <1>2, <1>3, <2>1, <2>2
<1> QED BY <1>2, <1>4, <1>5 DEF a

LEMMA TailHolds ==
    ASSUME NEW S, NEW q \in Seq(S), q # <<>>
    PROVE  /\ Head(q) \in S /\ Tail(q) \in Seq(S)
           /\ ToSet(q) = ToSet(Tail(q)) \union {Head(q)}
           /\ IsInjective(q) => IsInjective(Tail(q)) /\ Head(q) \notin ToSet(Tail(q))
<1> DEFINE t == Tail(q)
<1>1. /\ Head(q) \in S /\ t \in Seq(S) /\ Head(q) = q[1]
      /\ Len(q) \in Nat /\ Len(q) >= 1 /\ Len(t) = Len(q) - 1
      /\ \A i \in 1..Len(t) : t[i] = q[i + 1]
      /\ DOMAIN q = 1..Len(q) /\ DOMAIN t = 1..Len(t)
  OBVIOUS
<1> HIDE DEF t
<1>2. \A i \in DOMAIN q : i = 1 \/ i - 1 \in DOMAIN t
  BY <1>1
<1>3. \A i \in DOMAIN t : i + 1 \in DOMAIN q /\ i + 1 # 1 /\ t[i] = q[i + 1]
  BY <1>1
<1>4. ToSet(q) = ToSet(t) \union {Head(q)}
  <2>1. ASSUME NEW x \in ToSet(q) PROVE x \in ToSet(t) \union {Head(q)}
    <3>1. PICK i \in DOMAIN q : q[i] = x
      BY DEF ToSet
    <3>2. CASE i = 1
      BY <1>1, <3>1, <3>2
    <3>3. CASE i - 1 \in DOMAIN t
      <4>1. t[i - 1] = q[i]
        BY <1>1, <3>3
      <4> QED BY <3>1, <3>3, <4>1 DEF ToSet
    <3> QED BY <1>2, <3>2, <3>3
  <2>2. ASSUME NEW x \in ToSet(t) PROVE x \in ToSet(q)
    BY <1>3 DEF ToSet
  <2>3. Head(q) \in ToSet(q)
    <3>1. 1 \in DOMAIN q
      BY <1>1
    <3> QED BY <1>1, <3>1 DEF ToSet
  <2> QED BY <2>1, <2>2, <2>3
<1>5. ASSUME IsInjective(q) PROVE IsInjective(t) /\ Head(q) \notin ToSet(t)
  <2>1. \A i, j \in DOMAIN q : q[i] = q[j] => i = j
    BY <1>5 DEF IsInjective
  <2>2. IsInjective(t)
    <3> SUFFICES ASSUME NEW i \in DOMAIN t, NEW j \in DOMAIN t, t[i] = t[j]
                 PROVE  i = j
      BY DEF IsInjective
    <3>1. i + 1 = j + 1
      BY <1>3, <2>1
    <3> QED BY <1>1, <3>1
  <2>3. ASSUME Head(q) \in ToSet(t) PROVE FALSE
    <3>1. PICK i \in DOMAIN t : t[i] = Head(q)
      BY <2>3 DEF ToSet
    <3>2. 1 \in DOMAIN q
      BY <1>1
    <3> QED BY <1>1, <1>3, <2>1, <3>1, <3>2
  <2> QED BY <2>2, <2>3
<1> QED BY <1>1, <1>4, <1>5 DEF t

(* The first k of a sequence. *)
LEMMA PrefixHolds ==
    ASSUME NEW S, NEW q \in Seq(S), NEW k \in 0..Len(q), IsInjective(q)
    PROVE  /\ SubSeq(q, 1, k) \in Seq(S)
           /\ ToSet(SubSeq(q, 1, k)) \subseteq ToSet(q)
           /\ IsInjective(SubSeq(q, 1, k))
<1> DEFINE t == SubSeq(q, 1, k)
<1>1. /\ t \in Seq(S) /\ DOMAIN t = 1..k /\ DOMAIN q = 1..Len(q) /\ Len(q) \in Nat
      /\ \A i \in 1..k : t[i] = q[i]
  OBVIOUS
<1> HIDE DEF t
<1>2. \A i \in DOMAIN t : i \in DOMAIN q /\ t[i] = q[i]
  BY <1>1
<1>3. ToSet(t) \subseteq ToSet(q)
  BY <1>2 DEF ToSet
<1>4. IsInjective(t)
  BY <1>2 DEF IsInjective
<1> QED BY <1>1, <1>3, <1>4 DEF t

LEMMA ConcatHolds ==
    ASSUME NEW S, NEW a \in Seq(S), NEW b \in Seq(S), IsInjective(a), IsInjective(b),
           ToSet(a) \cap ToSet(b) = {}
    PROVE  IsInjective(a \o b)
<1> DEFINE c == a \o b
<1>1. /\ Len(a) \in Nat /\ Len(b) \in Nat /\ DOMAIN c = 1..(Len(a) + Len(b))
      /\ \A i \in 1..(Len(a) + Len(b)) : c[i] = IF i <= Len(a) THEN a[i] ELSE b[i - Len(a)]
  BY ConcatProperties, LenProperties
<1>2. DOMAIN a = 1..Len(a) /\ DOMAIN b = 1..Len(b)
  OBVIOUS
<1> HIDE DEF c
<1>3. \A i \in DOMAIN c : \/ i \in DOMAIN a /\ c[i] = a[i]
                          \/ i \notin DOMAIN a /\ i - Len(a) \in DOMAIN b /\ c[i] = b[i - Len(a)]
  BY <1>1, <1>2
<1>4. \A i \in DOMAIN a, j \in DOMAIN b : a[i] # b[j]
  BY DEF ToSet
<1> SUFFICES ASSUME NEW i \in DOMAIN c, NEW j \in DOMAIN c, c[i] = c[j] PROVE i = j
  BY DEF IsInjective, c
<1>5. CASE i \in DOMAIN a /\ j \in DOMAIN a
  BY <1>2, <1>3, <1>5 DEF IsInjective
<1>6. CASE i \notin DOMAIN a /\ j \notin DOMAIN a
  <2>1. i - Len(a) = j - Len(a)
    BY <1>3, <1>6 DEF IsInjective
  <2> QED BY <1>1, <2>1
<1> QED BY <1>3, <1>4, <1>5, <1>6

(* What is left when one place of a sequence is removed. *)
LEMMA RemoveAtTyped ==
    ASSUME NEW S, NEW q \in Seq(S), NEW k \in DOMAIN q
    PROVE  RemoveAt(q, k) \in Seq(S)
<1>1. k \in 1..Len(q) /\ Len(q) \in Nat
  OBVIOUS
<1>2. SubSeq(q, 1, k - 1) \in Seq(S) /\ SubSeq(q, k + 1, Len(q)) \in Seq(S)
  BY <1>1
<1> QED BY <1>2, ConcatProperties DEF RemoveAt

-------------------------------------------------------------------------------
(* A finite set of numbers in ascending order.                               *)

Below(S, n) == { m \in S : m < n }

(* How many members are smaller tells the members apart, and no rank is free. *)
LEMMA RankOf ==
    ASSUME NEW S \in SUBSET Nat, IsFiniteSet(S)
    PROVE  /\ Cardinality(S) \in Nat
           /\ \A n \in S : Cardinality(Below(S, n)) \in 0..(Cardinality(S) - 1)
           /\ \A m, n \in S : m < n => Cardinality(Below(S, m)) < Cardinality(Below(S, n))
           /\ \A k \in 0..(Cardinality(S) - 1) : \E n \in S : Cardinality(Below(S, n)) = k
<1>1. Cardinality(S) \in Nat
  BY FS_CardinalityType
<1>2. ASSUME NEW n \in S
      PROVE  IsFiniteSet(Below(S, n)) /\ Cardinality(Below(S, n)) \in 0..(Cardinality(S) - 1)
  <2>1. Below(S, n) \in SUBSET S /\ Below(S, n) # S
    BY DEF Below
  <2>2. /\ IsFiniteSet(Below(S, n)) /\ Cardinality(Below(S, n)) <= Cardinality(S)
        /\ Cardinality(S) # Cardinality(Below(S, n))
    BY <2>1, FS_Subset
  <2>3. Cardinality(Below(S, n)) \in Nat
    BY <2>2, FS_CardinalityType
  <2> QED BY <1>1, <2>2, <2>3
<1>3. ASSUME NEW m \in S, NEW n \in S, m < n
      PROVE  Cardinality(Below(S, m)) < Cardinality(Below(S, n))
  <2>1. Below(S, m) \in SUBSET Below(S, n)
    <3> SUFFICES ASSUME NEW x \in S, x < m PROVE x < n
      BY DEF Below
    <3>1. x \in Nat /\ m \in Nat /\ n \in Nat
      OBVIOUS
    <3> QED BY <1>3, <3>1
  <2>2. m \in Below(S, n) /\ m \notin Below(S, m)
    BY <1>3 DEF Below
  <2>3. /\ Cardinality(Below(S, m)) <= Cardinality(Below(S, n))
        /\ Cardinality(Below(S, n)) = Cardinality(Below(S, m)) => Below(S, n) = Below(S, m)
    BY <1>2, <2>1, FS_Subset
  <2> QED BY <1>1, <1>2, <2>2, <2>3
<1>4. \A k \in 0..(Cardinality(S) - 1) : \E n \in S : Cardinality(Below(S, n)) = k
  <2> DEFINE R == 0..(Cardinality(S) - 1)
             f == [n \in S |-> Cardinality(Below(S, n))]
  <2>1. IsFiniteSet(R) /\ Cardinality(R) = Cardinality(S)
    <3>1. 0 \in Int /\ Cardinality(S) - 1 \in Int
      BY <1>1
    <3>2. IsFiniteSet(R) /\ Cardinality(R) =
            IF 0 > Cardinality(S) - 1 THEN 0 ELSE Cardinality(S) - 1 - 0 + 1
      BY <3>1, FS_Interval
    <3> QED BY <1>1, <3>2
  <2>2. f \in [S -> R]
    BY <1>2
  <2>3. \A m, n \in S : f[m] = f[n] => m = n
    <3> SUFFICES ASSUME NEW m \in S, NEW n \in S, f[m] = f[n] PROVE m = n
      OBVIOUS
    <3>1. ~(m < n) /\ ~(n < m)
      BY <1>1, <1>2, <1>3
    <3> QED BY <3>1
  <2> HIDE DEF R, f
  <2>4. f \in Injection(S, R)
    BY <2>2, <2>3 DEF Injection, IsInjective
  <2>5. f \in Surjection(S, R)
    BY <2>1, <2>4, FS_Injection
  <2>6. \A k \in R : \E n \in S : f[n] = k
    BY <2>5 DEF Surjection
  <2> QED BY <2>6 DEF R, f
<1> QED BY <1>1, <1>2, <1>3, <1>4

LEMMA AscendingHolds ==
    ASSUME NEW S \in SUBSET Nat, IsFiniteSet(S)
    PROVE  /\ Ascending(S) \in Seq(S)
           /\ ToSet(Ascending(S)) = S
           /\ IsInjective(Ascending(S))
<1> DEFINE c == Cardinality(S)
           r(n) == Cardinality(Below(S, n))
           q == Ascending(S)
<1>1. /\ c \in Nat
      /\ \A n \in S : r(n) \in 0..(c - 1)
      /\ \A m, n \in S : m < n => r(m) < r(n)
      /\ \A k \in 0..(c - 1) : \E n \in S : r(n) = k
  BY RankOf
<1>2. q = [k \in 1..c |-> CHOOSE n \in S : r(n) = k - 1]
  BY DEF Ascending, Below
<1> HIDE DEF c, r, q
<1>3. \A k \in 1..c : q[k] \in S /\ r(q[k]) = k - 1
  <2> SUFFICES ASSUME NEW k \in 1..c PROVE q[k] \in S /\ r(q[k]) = k - 1
    OBVIOUS
  <2>1. k - 1 \in 0..(c - 1)
    BY <1>1
  <2>2. \E n \in S : r(n) = k - 1
    BY <1>1, <2>1
  <2>3. q[k] = CHOOSE n \in S : r(n) = k - 1
    BY <1>2
  <2> QED BY <2>2, <2>3
<1>4. DOMAIN q = 1..c
  BY <1>2
<1>5. q \in Seq(S)
  <2>1. q \in [1..c -> S]
    BY <1>2, <1>3
  <2> QED BY <1>1, <2>1
<1>6. \A m, n \in S : r(m) = r(n) => m = n
  <2> SUFFICES ASSUME NEW m \in S, NEW n \in S, r(m) = r(n) PROVE m = n
    OBVIOUS
  <2>1. m \in Nat /\ n \in Nat /\ r(m) \in 0..(c - 1)
    BY <1>1
  <2>2. ~(m < n) /\ ~(n < m)
    BY <1>1, <2>1
  <2> QED BY <2>1, <2>2
<1>7. S \subseteq ToSet(q)
  <2> SUFFICES ASSUME NEW n \in S PROVE n \in ToSet(q)
    OBVIOUS
  <2>1. r(n) \in 0..(c - 1)
    BY <1>1
  <2>2. PICK k \in 1..c : k - 1 = r(n)
    <3>1. r(n) + 1 \in 1..c /\ r(n) + 1 - 1 = r(n)
      BY <1>1, <2>1
    <3>2. \E k \in 1..c : k = r(n) + 1
      BY <3>1
    <3> QED BY <2>1, <3>2
  <2>3. r(q[k]) = r(n) /\ q[k] \in S
    BY <1>3, <2>2
  <2>4. q[k] = n
    BY <1>6, <2>3
  <2> QED BY <1>4, <2>4 DEF ToSet
<1>8. ToSet(q) \subseteq S
  BY <1>3, <1>4 DEF ToSet
<1>9. IsInjective(q)
  <2> SUFFICES ASSUME NEW i \in 1..c, NEW j \in 1..c, q[i] = q[j] PROVE i = j
    BY <1>4 DEF IsInjective
  <2>1. i - 1 = j - 1
    BY <1>3
  <2> QED BY <1>1, <2>1
<1> QED BY <1>5, <1>7, <1>8, <1>9 DEF q

(* A set of numbers up to b that is not empty has a least and a greatest member. *)
LEMMA Extremes ==
    ASSUME NEW b \in Nat, NEW S \in SUBSET (0..b), S # {}
    PROVE  /\ \E n \in S : \A m \in S : n <= m
           /\ \E n \in S : \A m \in S : m <= n
<1>1. IsFiniteSet(0..b)
  BY FS_Interval
<1>2. IsFiniteSet(S) /\ S \in SUBSET Nat
  <2>1. IsFiniteSet(S)
    BY <1>1, FS_Subset
  <2>2. S \in SUBSET Nat
    OBVIOUS
  <2> QED BY <2>1, <2>2
<1> DEFINE c == Cardinality(S)
           r(n) == Cardinality(Below(S, n))
<1>3. /\ c \in Nat
      /\ \A n \in S : r(n) \in 0..(c - 1)
      /\ \A m, n \in S : m < n => r(m) < r(n)
      /\ \A k \in 0..(c - 1) : \E n \in S : r(n) = k
  BY <1>2, RankOf
<1> HIDE DEF c, r
<1>4. c >= 1 /\ 0 \in 0..(c - 1) /\ c - 1 \in 0..(c - 1)
  <2>1. PICK n \in S : TRUE
    OBVIOUS
  <2>2. r(n) \in 0..(c - 1)
    BY <1>3
  <2> QED BY <1>3, <2>2
<1>5. PICK x \in S : r(x) = 0
  BY <1>3, <1>4
<1>6. PICK y \in S : r(y) = c - 1
  BY <1>3, <1>4
<1>7. ASSUME NEW m \in S PROVE x <= m /\ m <= y
  <2>1. m \in Nat /\ x \in Nat /\ y \in Nat /\ r(m) \in 0..(c - 1)
    BY <1>2, <1>3
  <2>2. ~(m < x) /\ ~(y < m)
    BY <1>3, <1>5, <1>6, <2>1
  <2> QED BY <2>1, <2>2
<1> QED BY <1>7

(* The last of the events committed. *)
LEMMA LastOfBounded ==
    ASSUME NEW b \in Nat, NEW S \in SUBSET (1..b)
    PROVE  LastOf(S) \in 0..b /\ \A m \in S : m <= LastOf(S)
<1>1. S \union {0} \in SUBSET (0..b) /\ S \union {0} # {}
  OBVIOUS
<1>2. PICK n \in S \union {0} : \A m \in S \union {0} : m <= n
  BY <1>1, Extremes
<1>3. \E k \in S \union {0} : \A m \in S : m <= k
  BY <1>2
<1>4. LastOf(S) \in S \union {0} /\ \A m \in S : m <= LastOf(S)
  BY <1>3 DEF LastOf
<1> QED BY <1>1, <1>4

-------------------------------------------------------------------------------
(* The steps of the session: a commit and a publication.                     *)

LEMMA HeldInRange ==
    ASSUME NEW S, NEW q \in Seq(S)
    PROVE  ToSet(q) \subseteq S
  BY DEF ToSet

LEMMA Types ==
    ASSUME SpliceTypeOK
    PROVE  /\ Len(log) \in Nat /\ DOMAIN log = 1..Len(log)
           /\ \A p \in Publishers :
                 pending[p] \in Seq(DOMAIN log) /\ ToSet(pending[p]) \subseteq DOMAIN log
           /\ \A s \in Subscribers :
                 /\ subs[s].queue \in Seq(DOMAIN log) /\ ToSet(subs[s].queue) \subseteq DOMAIN log
                 /\ channel[s] \in Seq(DOMAIN log) /\ ToSet(channel[s]) \subseteq DOMAIN log
                 /\ got[s] \in Seq(DOMAIN log) /\ ToSet(got[s]) \subseteq DOMAIN log
                 /\ watch[s].boundary \in Nat /\ watch[s].last \in Nat /\ watch[s].after \in Nat
           /\ hub.latest \in Nat
<1> USE DEF SpliceTypeOK, HubTypeOK
<1>1. Len(log) \in Nat /\ DOMAIN log = 1..Len(log)
  BY LenProperties
<1>2. \A p \in Publishers : pending[p] \in Seq(DOMAIN log)
  OBVIOUS
<1>3. \A s \in Subscribers : /\ subs[s].queue \in Seq(DOMAIN log)
                             /\ channel[s] \in Seq(DOMAIN log) /\ got[s] \in Seq(DOMAIN log)
  OBVIOUS
<1>4. \A s \in Subscribers :
         watch[s].boundary \in Nat /\ watch[s].last \in Nat /\ watch[s].after \in Nat
  OBVIOUS
<1>5. hub.latest \in Nat
  OBVIOUS
<1> QED BY <1>1, <1>2, <1>3, <1>4, <1>5, HeldInRange

(* A queue of events of the log is one of the longer log. *)
LEMMA LogGrows ==
    ASSUME HubTypeOK, NEW e \in Events, log' = Append(log, e)
    PROVE  /\ log' \in Seq(Events) /\ Len(log') = Len(log) + 1
           /\ DOMAIN log' = DOMAIN log \union {Len(log) + 1} /\ Len(log) + 1 \notin DOMAIN log
           /\ \A n \in DOMAIN log : log'[n] = log[n]
           /\ \A q : q \in Seq(DOMAIN log) => q \in Seq(DOMAIN log')
<1>1. log \in Seq(Events)
  BY DEF HubTypeOK
<1>2. /\ log' \in Seq(Events) /\ Len(log') = Len(log) + 1 /\ Len(log) \in Nat
      /\ DOMAIN log = 1..Len(log) /\ DOMAIN log' = 1..(Len(log) + 1)
      /\ \A n \in 1..Len(log) : log'[n] = log[n]
  BY <1>1
<1>3. DOMAIN log' = DOMAIN log \union {Len(log) + 1} /\ Len(log) + 1 \notin DOMAIN log
  BY <1>2
<1>4. \A q : q \in Seq(DOMAIN log) => q \in Seq(DOMAIN log')
  BY <1>3, SeqMonotonic
<1> QED BY <1>2, <1>3, <1>4

LEMMA CommitKept ==
    ASSUME SpliceInv, NEW p \in Publishers, NEW e \in Events, Commit(p, e),
           run' \in {"absent", "running", "over"}, UNCHANGED clientVars
    PROVE  SpliceInv'
<1> DEFINE N == Len(log) + 1
<1>1. /\ log' = Append(log, e) /\ pending' = [pending EXCEPT ![p] = Append(@, N)]
      /\ hub' = hub /\ subs' = subs /\ watch' = watch /\ bridge' = bridge
      /\ channel' = channel /\ ending' = ending /\ got' = got /\ told' = told
  BY DEF Commit, clientVars
<1>2. SpliceTypeOK /\ PendingApart
  BY DEF SpliceInv
<1>3. /\ log' \in Seq(Events) /\ Len(log') = N
      /\ DOMAIN log' = DOMAIN log \union {N} /\ N \notin DOMAIN log
      /\ \A n \in DOMAIN log : log'[n] = log[n]
      /\ \A q : q \in Seq(DOMAIN log) => q \in Seq(DOMAIN log')
  BY <1>1, <1>2, LogGrows DEF SpliceTypeOK
<1>4. Len(log) \in Nat /\ DOMAIN log = 1..Len(log) /\ N \in Nat /\ N \in DOMAIN log'
  BY <1>2, <1>3, Types
<1>5. \A q \in Publishers : /\ pending[q] \in Seq(DOMAIN log') /\ ToSet(pending[q]) \subseteq DOMAIN log
                            /\ pending[q] \in Seq(DOMAIN log)
  BY <1>2, <1>3, Types
<1>6. /\ pending' \in [Publishers -> Seq(DOMAIN log')]
      /\ pending'[p] = Append(pending[p], N)
      /\ \A q \in Publishers : q # p => pending'[q] = pending[q]
  <2>1. Append(pending[p], N) \in Seq(DOMAIN log')
    BY <1>4, <1>5, AppendHolds
  <2>2. pending \in [Publishers -> Seq(DOMAIN log)]
    BY <1>2 DEF SpliceTypeOK, HubTypeOK
  <2> QED BY <1>1, <1>5, <2>1, <2>2
<1>7. /\ ToSet(pending'[p]) = ToSet(pending[p]) \union {N}
      /\ IsInjective(pending[p]) /\ N \notin ToSet(pending[p]) => IsInjective(pending'[p])
  BY <1>4, <1>5, <1>6, AppendHolds
<1> HIDE DEF N
<1>8. \A n : Waiting(n)' <=> Waiting(n) \/ n = N
  <2>1. \A n : Waiting(n)' <=> \E q \in Publishers : n \in ToSet(pending'[q])
    BY DEF Waiting
  <2>2. \A n : Waiting(n) <=> \E q \in Publishers : n \in ToSet(pending[q])
    BY DEF Waiting
  <2> QED BY <1>6, <1>7, <2>1, <2>2
<1>9. SpliceTypeOK'
  <2>1. hub.backlog \in Seq(DOMAIN log') /\ hub' \in [latest : Nat, backlog : Seq(DOMAIN log'), required : Nat]
    <3>1. hub \in [latest : Nat, backlog : Seq(DOMAIN log), required : Nat]
      BY <1>2 DEF SpliceTypeOK, HubTypeOK
    <3>2. hub.backlog \in Seq(DOMAIN log')
      BY <1>3, <3>1
    <3> QED BY <1>1, <3>1, <3>2
  <2>2. subs' \in [Subscribers -> [on : BOOLEAN, queue : Seq(DOMAIN log'), overflowed : BOOLEAN, all : BOOLEAN]]
    <3>1. subs \in [Subscribers -> [on : BOOLEAN, queue : Seq(DOMAIN log), overflowed : BOOLEAN, all : BOOLEAN]]
      BY <1>2 DEF SpliceTypeOK, HubTypeOK
    <3>2. \A s \in Subscribers : subs[s].queue \in Seq(DOMAIN log')
      BY <1>3, <3>1
    <3> QED BY <1>1, <3>1, <3>2
  <2>3. channel' \in [Subscribers -> Seq(DOMAIN log')] /\ got' \in [Subscribers -> Seq(DOMAIN log')]
    <3>1. channel \in [Subscribers -> Seq(DOMAIN log)] /\ got \in [Subscribers -> Seq(DOMAIN log)]
      BY <1>2 DEF SpliceTypeOK
    <3> QED BY <1>1, <1>3, <3>1
  <2> QED BY <1>1, <1>2, <1>3, <1>6, <2>1, <2>2, <2>3 DEF SpliceTypeOK, HubTypeOK
<1>10. PendingApart'
  <2>1. /\ \A q \in Publishers : IsInjective(pending'[q])
        /\ \A q, r \in Publishers : q # r => ToSet(pending'[q]) \cap ToSet(pending'[r]) = {}
    <3>1. /\ \A q \in Publishers : IsInjective(pending[q]) /\ N \notin ToSet(pending[q])
          /\ \A q, r \in Publishers : q # r => ToSet(pending[q]) \cap ToSet(pending[r]) = {}
      BY <1>2, <1>3, <1>5 DEF PendingApart
    <3>2. \A q \in Publishers : q # p => ToSet(pending'[q]) = ToSet(pending[q])
      BY <1>6
    <3>3. \A q \in Publishers : IsInjective(pending'[q])
      BY <1>6, <1>7, <3>1
    <3>4. \A q, r \in Publishers : q # r => ToSet(pending'[q]) \cap ToSet(pending'[r]) = {}
      BY <1>7, <3>1, <3>2
    <3> QED BY <3>3, <3>4
  <2>2. hub.latest <= Len(log')
    BY <1>2, <1>3, <1>4, Types DEF PendingApart, N
  <2>3. \A n \in DOMAIN log' : hub.latest < n => Waiting(n)'
    BY <1>2, <1>3, <1>8 DEF PendingApart
  <2> QED BY <1>1, <2>1, <2>2, <2>3 DEF PendingApart
<1>11. ASSUME NEW s \in Subscribers PROVE Subscription(s)'
  <2>1. Apart(s) /\ Stages(s) /\ Whole(s)
    BY DEF SpliceInv, Subscription
  <2>2. /\ ToSet(subs[s].queue) \subseteq DOMAIN log /\ ToSet(channel[s]) \subseteq DOMAIN log
        /\ ToSet(got[s]) \subseteq DOMAIN log
        /\ watch[s].boundary \in Nat /\ watch[s].last \in Nat
    BY <1>2, Types
  <2>3. Apart(s)'
    BY <1>1, <1>3, <1>8, <2>1, <2>2 DEF Apart
  <2>4. Stages(s)'
    BY <1>1, <1>3, <1>4, <2>1, <2>2 DEF Stages, N
  <2>5. \A n \in RunDurables' : n \in RunDurables \/ n = N
    BY <1>3 DEF RunDurables, Durables
  <2>6. watch[s].boundary < N
    BY <1>4, <2>1, <2>2 DEF Stages, N
  <2>7. Whole(s)'
    <3> SUFFICES ASSUME watch[s].at \in {"replay", "open"}, watch[s].live, ~subs[s].overflowed
                 PROVE  /\ subs[s].on /\ subs[s].all
                        /\ \A n \in RunDurables' : watch[s].boundary < n =>
                              \/ Waiting(n)' \/ n \in ToSet(subs[s].queue)
                              \/ n \in ToSet(channel[s]) \/ n \in ToSet(got[s])
                        /\ watch[s].at = "open" => \A n \in RunDurables' :
                              watch[s].after < n /\ n <= watch[s].boundary => n \in ToSet(got[s])
      BY <1>1 DEF Whole
    <3>1. ~(N <= watch[s].boundary)
      BY <1>4, <2>2, <2>6 DEF N
    <3> QED BY <1>8, <2>1, <2>5, <3>1 DEF Whole
  <2> QED BY <2>3, <2>4, <2>7 DEF Subscription
<1> QED BY <1>9, <1>10, <1>11 DEF SpliceInv

(* SessionEventBacklog::push keeps numbers of committed events. *)
LEMMA PushTyped ==
    ASSUME HubTypeOK, NEW n \in DOMAIN log,
           NEW h \in [latest : Nat, backlog : Seq(DOMAIN log), required : Nat]
    PROVE  /\ Push(h, n) \in [latest : Nat, backlog : Seq(DOMAIN log), required : Nat]
           /\ Push(h, n).latest = h.latest
<1> DEFINE all == Append(h.backlog, n)
           live == { i \in DOMAIN all : ~log[all[i]].durable }
           R == [latest : Nat, backlog : Seq(DOMAIN log), required : Nat]
<1>1. all \in Seq(DOMAIN log) /\ all # <<>> /\ Len(all) \in Nat /\ DOMAIN all = 1..Len(all)
  OBVIOUS
<1>2. DOMAIN log \subseteq Nat
  BY LenProperties DEF HubTypeOK
<1>3. Push(h, n) = IF Len(all) <= BacklogCap THEN [h EXCEPT !.backlog = all]
                   ELSE IF live # {}
                   THEN [h EXCEPT !.backlog = RemoveAt(all, CHOOSE i \in live : \A j \in live : i <= j)]
                   ELSE [h EXCEPT !.backlog = Tail(all), !.required = Larger(@, Head(all))]
  BY DEF Push
<1>4. live \in SUBSET (0..Len(all)) /\ live \subseteq DOMAIN all
  BY <1>1
<1> HIDE DEF all, live
<1>5. CASE Len(all) <= BacklogCap
  BY <1>1, <1>3, <1>5
<1>6. CASE ~(Len(all) <= BacklogCap) /\ live # {}
  <2>1. PICK i \in live : \A j \in live : i <= j
    BY <1>1, <1>4, <1>6, Extremes
  <2> DEFINE k == CHOOSE x \in live : \A j \in live : x <= j
  <2>2. k \in live
    BY <2>1
  <2> HIDE DEF k
  <2>3. RemoveAt(all, k) \in Seq(DOMAIN log)
    BY <1>1, <1>4, <2>2, RemoveAtTyped
  <2>4. Push(h, n) = [h EXCEPT !.backlog = RemoveAt(all, k)]
    BY <1>3, <1>6 DEF k
  <2> QED BY <2>3, <2>4
<1>7. CASE ~(Len(all) <= BacklogCap) /\ live = {}
  <2>1. Head(all) \in DOMAIN log /\ Tail(all) \in Seq(DOMAIN log)
    BY <1>1, TailHolds
  <2>2. Larger(h.required, Head(all)) \in Nat
    BY <1>2, <2>1 DEF Larger
  <2> QED BY <1>3, <1>7, <2>1, <2>2
<1> QED BY <1>5, <1>6, <1>7

Queues == [on : BOOLEAN, queue : Seq(DOMAIN log), overflowed : BOOLEAN, all : BOOLEAN]

(* A publication passes a subscription by, costs it its place, or adds to its queue. *)
LEMMA OfferHolds ==
    ASSUME NEW sub \in Queues, NEW n \in DOMAIN log
    PROVE  /\ Offer(sub, n) \in Queues
           /\ \/ Offer(sub, n) = sub /\ ~(sub.on /\ sub.all)
              \/ /\ sub.on /\ Offer(sub, n).overflowed
                 /\ Offer(sub, n).queue = sub.queue
              \/ /\ sub.on
                 /\ Offer(sub, n).queue = Append(sub.queue, n)
                 /\ Offer(sub, n).on = sub.on /\ Offer(sub, n).all = sub.all
                 /\ Offer(sub, n).overflowed = sub.overflowed
<1> USE DEF Queues
<1> DEFINE o == Offer(sub, n)
<1>1. CASE ~Wants(sub, n)
  <2>1. o = sub
    BY <1>1 DEF Offer
  <2> QED BY <1>1, <2>1 DEF Wants
<1>2. CASE Wants(sub, n) /\ Len(sub.queue) >= SubscriberCap
  <2>1. o = [sub EXCEPT !.on = FALSE, !.overflowed = TRUE]
    BY <1>2 DEF Offer
  <2> HIDE DEF o
  <2>2. o \in Queues /\ o.overflowed /\ o.queue = sub.queue
    BY <2>1
  <2> QED BY <1>2, <2>2 DEF o, Wants
<1>3. CASE Wants(sub, n) /\ ~(Len(sub.queue) >= SubscriberCap)
  <2>1. o = [sub EXCEPT !.queue = Append(@, n)]
    BY <1>3 DEF Offer
  <2>2. Append(sub.queue, n) \in Seq(DOMAIN log)
    OBVIOUS
  <2> HIDE DEF o
  <2>3. /\ o \in Queues /\ o.queue = Append(sub.queue, n) /\ o.on = sub.on
        /\ o.all = sub.all /\ o.overflowed = sub.overflowed
    BY <2>1, <2>2
  <2> QED BY <1>3, <2>3 DEF o, Wants
<1> QED BY <1>1, <1>2, <1>3

LEMMA PublishKept ==
    ASSUME SpliceInv, NEW p \in Publishers, PublishNext(p)
    PROVE  SpliceInv'
<1> DEFINE n == Head(pending[p])
<1>1. SpliceTypeOK /\ PendingApart
  BY DEF SpliceInv
<1>2. /\ pending[p] # <<>>
      /\ hub' = Push([hub EXCEPT !.latest = Larger(@, n)], n)
      /\ subs' = [s \in Subscribers |-> Offer(subs[s], n)]
      /\ pending' = [pending EXCEPT ![p] = Tail(@)]
      /\ log' = log /\ run' = run /\ watch' = watch /\ bridge' = bridge
      /\ channel' = channel /\ ending' = ending /\ got' = got /\ told' = told
  BY DEF PublishNext, Publish, clientVars
<1>3. pending[p] \in Seq(DOMAIN log) /\ IsInjective(pending[p])
  BY <1>1, Types DEF PendingApart
<1>4. /\ n \in DOMAIN log /\ Tail(pending[p]) \in Seq(DOMAIN log)
      /\ ToSet(pending[p]) = ToSet(Tail(pending[p])) \union {n}
      /\ IsInjective(Tail(pending[p])) /\ n \notin ToSet(Tail(pending[p]))
  BY <1>2, <1>3, TailHolds
<1>5. /\ pending \in [Publishers -> Seq(DOMAIN log)]
      /\ hub \in [latest : Nat, backlog : Seq(DOMAIN log), required : Nat]
      /\ subs \in [Subscribers -> Queues]
  BY <1>1 DEF SpliceTypeOK, HubTypeOK, Queues
<1>6. /\ pending' \in [Publishers -> Seq(DOMAIN log)] /\ pending'[p] = Tail(pending[p])
      /\ \A q \in Publishers : q # p => pending'[q] = pending[q]
  BY <1>2, <1>4, <1>5
<1>7. Len(log) \in Nat /\ DOMAIN log = 1..Len(log) /\ n \in Nat /\ hub.latest \in Nat
  BY <1>1, <1>4, Types
<1> HIDE DEF n
<1>8. n \in ToSet(pending[p]) /\ \A q \in Publishers : q # p => n \notin ToSet(pending[q])
  <2>1. n \in ToSet(pending[p])
    BY <1>4
  <2> QED BY <1>1, <2>1 DEF PendingApart
<1>9. Waiting(n) /\ \A m : Waiting(m)' <=> (Waiting(m) /\ m # n)
  <2>1. \A m : Waiting(m)' <=> \E q \in Publishers : m \in ToSet(pending'[q])
    BY DEF Waiting
  <2>2. \A m : Waiting(m) <=> \E q \in Publishers : m \in ToSet(pending[q])
    BY DEF Waiting
  <2>3. ASSUME NEW m, Waiting(m)' PROVE Waiting(m) /\ m # n
    <3>1. PICK q \in Publishers : m \in ToSet(pending'[q])
      BY <2>1, <2>3
    <3>2. CASE q = p
      BY <1>4, <1>6, <2>2, <3>1, <3>2
    <3>3. CASE q # p
      BY <1>6, <1>8, <2>2, <3>1, <3>3
    <3> QED BY <3>2, <3>3
  <2>4. ASSUME NEW m, Waiting(m), m # n PROVE Waiting(m)'
    <3>1. PICK q \in Publishers : m \in ToSet(pending[q])
      BY <2>2, <2>4
    <3>2. m \in ToSet(pending'[q])
      BY <1>4, <1>6, <2>4, <3>1
    <3> QED BY <2>1, <3>2
  <2> QED BY <1>8, <2>2, <2>3, <2>4
<1>10. \A s \in Subscribers : subs'[s] = Offer(subs[s], n) /\ subs[s] \in Queues
  BY <1>2, <1>5
<1>11. hub' \in [latest : Nat, backlog : Seq(DOMAIN log), required : Nat]
       /\ hub'.latest = Larger(hub.latest, n)
  <2> DEFINE h == [hub EXCEPT !.latest = Larger(@, n)]
  <2>1. /\ h \in [latest : Nat, backlog : Seq(DOMAIN log), required : Nat]
        /\ h.latest = Larger(hub.latest, n)
    BY <1>5, <1>7 DEF Larger
  <2> HIDE DEF h
  <2>2. hub' = Push(h, n)
    BY <1>2 DEF h
  <2> QED BY <1>1, <1>4, <2>1, <2>2, PushTyped DEF SpliceTypeOK
<1>12. subs' \in [Subscribers -> Queues]
  BY <1>2, <1>4, <1>10, OfferHolds
<1>13. SpliceTypeOK'
  BY <1>1, <1>2, <1>6, <1>11, <1>12 DEF SpliceTypeOK, HubTypeOK, Queues
<1>14. PendingApart'
  <2>1. /\ \A q \in Publishers : IsInjective(pending'[q])
        /\ \A q, r \in Publishers : q # r => ToSet(pending'[q]) \cap ToSet(pending'[r]) = {}
    BY <1>1, <1>4, <1>6 DEF PendingApart
  <2>2. hub'.latest <= Len(log)
    BY <1>1, <1>4, <1>7, <1>11 DEF PendingApart, Larger
  <2>3. \A m \in DOMAIN log : hub'.latest < m => Waiting(m)'
    <3> SUFFICES ASSUME NEW m \in DOMAIN log, hub'.latest < m PROVE Waiting(m)'
      OBVIOUS
    <3>1. hub.latest < m /\ m # n
      BY <1>7, <1>11 DEF Larger
    <3> QED BY <1>1, <1>9, <3>1 DEF PendingApart
  <2> QED BY <1>2, <2>1, <2>2, <2>3 DEF PendingApart
<1>15. ASSUME NEW s \in Subscribers PROVE Subscription(s)'
  <2>1. Apart(s) /\ Stages(s) /\ Whole(s)
    BY DEF SpliceInv, Subscription
  <2>2. /\ subs[s].queue \in Seq(DOMAIN log)
        /\ watch[s].boundary \in Nat /\ ToSet(got[s]) \subseteq DOMAIN log
    BY <1>1, Types
  <2> DEFINE Q == ToSet(subs[s].queue)
             QQ == ToSet(subs'[s].queue)
  <2>3. /\ (QQ = Q) \/ (QQ = Q \union {n} /\ subs[s].on)
        /\ IsInjective(subs'[s].queue)
        /\ subs'[s].on => subs[s].on
        /\ subs[s].queue = <<>> /\ ~subs[s].on => subs'[s].queue = <<>>
        /\ ~subs'[s].overflowed /\ subs[s].on /\ subs[s].all =>
              ~subs[s].overflowed /\ subs'[s].on /\ subs'[s].all /\ QQ = Q \union {n}
        /\ ~subs'[s].overflowed => ~subs[s].overflowed
    <3>1. n \notin Q /\ IsInjective(subs[s].queue)
      BY <1>9, <2>1 DEF Apart
    <3>2. /\ ToSet(Append(subs[s].queue, n)) = Q \union {n}
          /\ IsInjective(Append(subs[s].queue, n))
      BY <1>4, <2>2, <3>1, AppendHolds
    <3>3. \/ subs'[s] = subs[s] /\ ~(subs[s].on /\ subs[s].all)
          \/ /\ subs[s].on /\ subs'[s].overflowed
             /\ subs'[s].queue = subs[s].queue
          \/ /\ subs[s].on
             /\ subs'[s].queue = Append(subs[s].queue, n)
             /\ subs'[s].on = subs[s].on /\ subs'[s].all = subs[s].all
             /\ subs'[s].overflowed = subs[s].overflowed
      BY <1>4, <1>10, OfferHolds
    <3> HIDE DEF Q
    <3> QED BY <3>1, <3>2, <3>3 DEF Q
  <2>4. Apart(s)'
    <3> SUFFICES /\ IsInjective(subs'[s].queue) /\ IsInjective(channel[s]) /\ IsInjective(got[s])
                 /\ \A m \in QQ : ~Waiting(m)'
                 /\ \A m \in ToSet(channel[s]) :
                       m \notin QQ /\ ~Waiting(m)' /\ watch[s].boundary < m
                 /\ \A m \in ToSet(got[s]) :
                       \/ m <= watch[s].boundary
                       \/ m \notin ToSet(channel[s]) /\ m \notin QQ /\ ~Waiting(m)'
      BY <1>2 DEF Apart
    <3> HIDE DEF Q, QQ
    <3>1. /\ IsInjective(channel[s]) /\ IsInjective(got[s])
          /\ \A m \in Q : ~Waiting(m)
          /\ \A m \in ToSet(channel[s]) :
                 m \notin Q /\ ~Waiting(m) /\ watch[s].boundary < m
          /\ \A m \in ToSet(got[s]) :
                 \/ m <= watch[s].boundary
                 \/ m \notin ToSet(channel[s]) /\ m \notin Q /\ ~Waiting(m)
      BY <2>1 DEF Apart, Q
    <3> QED BY <1>9, <2>3, <3>1
  <2>5. Stages(s)'
    BY <1>2, <2>1, <2>3 DEF Stages
  <2>6. Whole(s)'
    <3> SUFFICES ASSUME watch[s].at \in {"replay", "open"}, watch[s].live, ~subs'[s].overflowed
                 PROVE  /\ subs'[s].on /\ subs'[s].all
                        /\ \A m \in RunDurables : watch[s].boundary < m =>
                              \/ Waiting(m)' \/ m \in QQ
                              \/ m \in ToSet(channel[s]) \/ m \in ToSet(got[s])
                        /\ watch[s].at = "open" => \A m \in RunDurables :
                              watch[s].after < m /\ m <= watch[s].boundary => m \in ToSet(got[s])
      BY <1>2 DEF Whole, RunDurables, Durables
    <3> HIDE DEF Q, QQ
    <3>1. /\ subs[s].on /\ subs[s].all
          /\ \A m \in RunDurables : watch[s].boundary < m =>
                 Waiting(m) \/ m \in Q \/ m \in ToSet(channel[s]) \/ m \in ToSet(got[s])
          /\ watch[s].at = "open" => \A m \in RunDurables :
                 watch[s].after < m /\ m <= watch[s].boundary => m \in ToSet(got[s])
      BY <2>1, <2>3 DEF Whole, Q
    <3> QED BY <1>9, <2>3, <3>1
  <2> QED BY <2>4, <2>5, <2>6 DEF Subscription
<1> QED BY <1>13, <1>14, <1>15 DEF SpliceInv

-------------------------------------------------------------------------------
(* The steps of one subscription.                                            *)

(* They leave the session and the other subscriptions alone. *)
LEMMA OneSubscription ==
    ASSUME SpliceInv, NEW s \in Subscribers, UNCHANGED <<log, pending, hub>>,
           \A t \in Subscribers : t # s =>
              /\ watch'[t] = watch[t] /\ subs'[t] = subs[t] /\ channel'[t] = channel[t]
              /\ got'[t] = got[t] /\ bridge'[t] = bridge[t],
           SpliceTypeOK', Subscription(s)'
    PROVE  SpliceInv'
<1>1. log' = log /\ pending' = pending /\ hub' = hub
  OBVIOUS
<1>2. (\A n : Waiting(n)' <=> Waiting(n)) /\ RunDurables' = RunDurables
  BY <1>1 DEF Waiting, RunDurables, Durables
<1>3. PendingApart'
  BY <1>1, <1>2 DEF SpliceInv, PendingApart
<1>4. ASSUME NEW t \in Subscribers, t # s PROVE Subscription(t)'
  <2>1. /\ watch'[t] = watch[t] /\ subs'[t] = subs[t] /\ channel'[t] = channel[t]
        /\ got'[t] = got[t] /\ bridge'[t] = bridge[t]
    BY <1>4
  <2>2. Apart(t) /\ Stages(t) /\ Whole(t)
    BY DEF SpliceInv, Subscription
  <2>3. Apart(t)'
    BY <1>2, <2>1, <2>2 DEF Apart
  <2>4. Stages(t)'
    BY <1>1, <2>1, <2>2 DEF Stages
  <2>5. Whole(t)'
    BY <1>2, <2>1, <2>2 DEF Whole
  <2> QED BY <2>3, <2>4, <2>5 DEF Subscription
<1> QED BY <1>3, <1>4 DEF SpliceInv

WatchType ==
    [at : {"idle", "liveCheck", "subscribe", "replay", "open", "closed", "left"},
     after : Nat, last : Nat, boundary : Nat, live : BOOLEAN]

(* What a subscription's step may assume. *)
LEMMA Before ==
    ASSUME SpliceInv, NEW s \in Subscribers
    PROVE  /\ SpliceTypeOK /\ PendingApart /\ Apart(s) /\ Stages(s) /\ Whole(s)
           /\ watch \in [Subscribers -> WatchType] /\ subs \in [Subscribers -> Queues]
           /\ channel \in [Subscribers -> Seq(DOMAIN log)] /\ got \in [Subscribers -> Seq(DOMAIN log)]
           /\ bridge \in [Subscribers -> {"off", "check", "recv", "lag", "done"}]
           /\ watch[s] \in WatchType /\ subs[s] \in Queues
           /\ Len(log) \in Nat /\ DOMAIN log = 1..Len(log) /\ RunDurables \in SUBSET (1..Len(log))
           /\ hub.latest \in Nat /\ hub.latest <= Len(log)
<1>1. SpliceTypeOK /\ PendingApart /\ Apart(s) /\ Stages(s) /\ Whole(s)
  BY DEF SpliceInv, Subscription
<1>2. /\ watch \in [Subscribers -> WatchType] /\ subs \in [Subscribers -> Queues]
      /\ channel \in [Subscribers -> Seq(DOMAIN log)] /\ got \in [Subscribers -> Seq(DOMAIN log)]
      /\ bridge \in [Subscribers -> {"off", "check", "recv", "lag", "done"}]
  BY <1>1 DEF SpliceTypeOK, HubTypeOK, WatchType, Queues
<1>3. Len(log) \in Nat /\ DOMAIN log = 1..Len(log) /\ hub.latest \in Nat
  BY <1>1, Types
<1>4. RunDurables \in SUBSET (1..Len(log))
  BY <1>3 DEF RunDurables, Durables
<1> QED BY <1>1, <1>2, <1>3, <1>4 DEF PendingApart

(* A subscription through which nothing has flowed. *)
LEMMA NothingFlowed ==
    ASSUME NEW s \in Subscribers,
           subs'[s].queue = <<>>, channel'[s] = <<>>, got'[s] = <<>>
    PROVE  Apart(s)'
  BY EmptyHolds DEF Apart

LEMMA ReadRunKept ==
    ASSUME SpliceInv, NEW s \in Subscribers, NEW after \in 0..Len(log), ReadRun(s, after)
    PROVE  SpliceInv'
<1>1. /\ watch[s].at = "idle"
      /\ log' = log /\ pending' = pending /\ hub' = hub /\ subs' = subs /\ run' = run /\ bridge' = bridge
      /\ channel' = channel /\ ending' = ending /\ got' = got /\ told' = told
  BY DEF ReadRun, hubVars
<1> DEFINE w == [at |-> IF run = "running" THEN "liveCheck" ELSE "replay",
                 after |-> after, last |-> LastOf(RunDurables),
                 boundary |-> LastOf(RunDurables), live |-> FALSE]
<1>2. watch' = [watch EXCEPT ![s] = w]
  BY DEF ReadRun
<1>3. LastOf(RunDurables) \in 0..Len(log)
  BY Before, LastOfBounded
<1>4. /\ w \in WatchType /\ w.at \in {"liveCheck", "replay"} /\ ~w.live
      /\ w.last <= Len(log) /\ w.boundary <= Len(log)
  BY <1>3, Before DEF WatchType
<1> HIDE DEF w
<1>5. watch' \in [Subscribers -> WatchType] /\ watch'[s] = w
      /\ \A t \in Subscribers : t # s => watch'[t] = watch[t]
  BY <1>2, <1>4, Before
<1>6. SpliceTypeOK'
  BY <1>1, <1>5, Before DEF SpliceTypeOK, HubTypeOK, WatchType
<1>7. /\ ~subs[s].on /\ subs[s].queue = <<>> /\ channel[s] = <<>> /\ got[s] = <<>>
      /\ bridge[s] = "off"
  BY <1>1, Before DEF Stages
<1>8. Subscription(s)'
  <2>1. Apart(s)'
    BY <1>1, <1>7, NothingFlowed
  <2>2. Stages(s)'
    BY <1>1, <1>4, <1>5, <1>7 DEF Stages
  <2>3. Whole(s)'
    BY <1>4, <1>5 DEF Whole
  <2> QED BY <2>1, <2>2, <2>3 DEF Subscription
<1> QED BY <1>1, <1>5, <1>6, <1>8, OneSubscription

LEMMA LiveCheckKept ==
    ASSUME SpliceInv, NEW s \in Subscribers, LiveCheck(s)
    PROVE  SpliceInv'
<1>1. /\ watch[s].at = "liveCheck"
      /\ log' = log /\ pending' = pending /\ hub' = hub /\ subs' = subs /\ run' = run /\ bridge' = bridge
      /\ channel' = channel /\ ending' = ending /\ got' = got /\ told' = told
  BY DEF LiveCheck, hubVars
<1>2. PICK a \in {"subscribe", "replay"} : watch' = [watch EXCEPT ![s].at = a]
  BY DEF LiveCheck
<1>3. /\ watch' \in [Subscribers -> WatchType] /\ watch'[s] = [watch[s] EXCEPT !.at = a]
      /\ watch'[s] \in WatchType
      /\ \A t \in Subscribers : t # s => watch'[t] = watch[t]
  BY <1>2, Before DEF WatchType
<1>4. SpliceTypeOK'
  BY <1>1, <1>3, Before DEF SpliceTypeOK, HubTypeOK, WatchType
<1>5. /\ ~subs[s].on /\ subs[s].queue = <<>> /\ channel[s] = <<>> /\ got[s] = <<>>
      /\ bridge[s] = "off" /\ ~watch[s].live
      /\ watch[s].last <= Len(log) /\ watch[s].boundary <= Len(log)
  BY <1>1, Before DEF Stages
<1>6. /\ watch'[s].at = a /\ watch'[s].live = watch[s].live
      /\ watch'[s].last = watch[s].last /\ watch'[s].boundary = watch[s].boundary
  BY <1>3, Before DEF WatchType
<1>7. Subscription(s)'
  <2>1. Apart(s)'
    BY <1>1, <1>5, NothingFlowed
  <2>2. Stages(s)'
    BY <1>1, <1>5, <1>6 DEF Stages
  <2>3. Whole(s)'
    BY <1>5, <1>6 DEF Whole
  <2> QED BY <2>1, <2>2, <2>3 DEF Subscription
<1> QED BY <1>1, <1>3, <1>4, <1>7, OneSubscription

(* Everything behind the boundary is still to be published when the hub is   *)
(* asked for it, so the queue will get it.                                   *)
LEMMA SubscribeLiveKept ==
    ASSUME SpliceInv, NEW s \in Subscribers, SubscribeLive(s)
    PROVE  SpliceInv'
<1> DEFINE q == [NoSubscription EXCEPT !.on = TRUE, !.all = TRUE]
           b == Latest(watch[s].last)
           w == [watch[s] EXCEPT !.at = "replay", !.live = TRUE, !.boundary = b]
<1>1. /\ watch[s].at = "subscribe" /\ subs' = [subs EXCEPT ![s] = q]
      /\ watch' = [watch EXCEPT ![s] = w]
      /\ log' = log /\ pending' = pending /\ hub' = hub /\ run' = run /\ bridge' = bridge
      /\ channel' = channel /\ ending' = ending /\ got' = got /\ told' = told
  BY Before DEF SubscribeLive, Subscribe, WatchType
<1>2. /\ q \in Queues /\ q.on /\ q.all /\ q.queue = <<>>
  <2>1. <<>> \in Seq(DOMAIN log)
    OBVIOUS
  <2> QED BY <2>1 DEF NoSubscription, Queues
<1>3. b \in Nat /\ b <= Len(log) /\ hub.latest <= b
  BY Before DEF Latest, Larger, Stages, WatchType
<1>4. /\ w \in WatchType /\ w.at = "replay" /\ w.boundary = b /\ w.last = watch[s].last
  BY <1>3, Before DEF WatchType
<1> HIDE DEF q, b, w
<1>5. /\ watch' \in [Subscribers -> WatchType] /\ watch'[s] = w
      /\ subs' \in [Subscribers -> Queues] /\ subs'[s] = q
      /\ \A t \in Subscribers : t # s => watch'[t] = watch[t] /\ subs'[t] = subs[t]
  BY <1>1, <1>2, <1>4, Before
<1>6. SpliceTypeOK'
  BY <1>1, <1>5, Before DEF SpliceTypeOK, HubTypeOK, WatchType, Queues
<1>7. channel[s] = <<>> /\ got[s] = <<>> /\ bridge[s] = "off" /\ watch[s].last <= Len(log)
  BY <1>1, Before DEF Stages
<1>8. Subscription(s)'
  <2>1. Apart(s)'
    BY <1>1, <1>2, <1>5, <1>7, NothingFlowed
  <2>2. Stages(s)'
    BY <1>1, <1>3, <1>4, <1>5, <1>7 DEF Stages
  <2>3. \A n \in RunDurables' : watch'[s].boundary < n => Waiting(n)'
    <3> SUFFICES ASSUME NEW n \in RunDurables, b < n PROVE Waiting(n)
      BY <1>1, <1>4, <1>5 DEF RunDurables, Durables, Waiting
    <3>1. n \in DOMAIN log /\ n \in Nat
      BY Before
    <3>2. hub.latest < n
      BY <1>3, <3>1, Before
    <3> QED BY <3>1, <3>2, Before DEF PendingApart
  <2>4. Whole(s)'
    BY <1>2, <1>4, <1>5, <2>3 DEF Whole
  <2> QED BY <2>1, <2>2, <2>4 DEF Subscription
<1> QED BY <1>1, <1>5, <1>6, <1>8, OneSubscription

(* The store answers for everything up to the boundary, or says that it does not. *)
LEMMA ReplayKept ==
    ASSUME SpliceInv, NEW s \in Subscribers, Replay(s)
    PROVE  SpliceInv'
<1> DEFINE w == [watch[s] EXCEPT !.at = "open", !.live = @ /\ ~Gap(watch[s])]
           u == [subs[s] EXCEPT !.on = FALSE, !.queue = <<>>]
           all == Replayed(watch[s])
           k == IF Gap(watch[s]) THEN ReplayCap ELSE Len(all)
           g == SubSeq(all, 1, k)
<1>1. /\ watch[s].at = "replay" /\ watch' = [watch EXCEPT ![s] = w]
      /\ got' = [got EXCEPT ![s] = g]
      /\ log' = log /\ pending' = pending /\ hub' = hub /\ run' = run
      /\ channel' = channel /\ told' = told
      /\ (subs' = subs) \/ (Gap(watch[s]) /\ subs' = [subs EXCEPT ![s] = u])
  BY Before DEF Replay, Unsubscribe, WatchType, Queues
<1>2. /\ bridge' \in [Subscribers -> {"off", "check", "recv", "lag", "done"}]
      /\ ending' \in [Subscribers -> {"none", "historyGap", "lagged"}]
      /\ \A t \in Subscribers : t # s => bridge'[t] = bridge[t]
  BY Before DEF Replay, SpliceTypeOK
<1>3. /\ all \in Seq(DOMAIN log) /\ ToSet(all) = Wanted(watch[s]) /\ IsInjective(all)
  <2>1. Wanted(watch[s]) \in SUBSET (1..Len(log))
    BY Before DEF Wanted
  <2>2. IsFiniteSet(Wanted(watch[s])) /\ Wanted(watch[s]) \in SUBSET Nat
    <3>1. Len(log) \in Nat
      BY Before
    <3>2. IsFiniteSet(1..Len(log))
      BY <3>1, FS_Interval
    <3>3. IsFiniteSet(Wanted(watch[s]))
      BY <2>1, <3>2, FS_Subset
    <3> QED BY <2>1, <3>3
  <2>3. all \in Seq(Wanted(watch[s])) /\ ToSet(all) = Wanted(watch[s]) /\ IsInjective(all)
    BY <2>2, AscendingHolds DEF Replayed
  <2> QED BY <2>1, <2>3, Before, SeqMonotonic
<1>4. k \in 0..Len(all)
  BY <1>3, SpliceAssumption, LenProperties DEF Gap
<1>5. /\ g \in Seq(DOMAIN log) /\ ToSet(g) \subseteq Wanted(watch[s]) /\ IsInjective(g)
  <2> HIDE DEF all, k
  <2> QED BY <1>3, <1>4, PrefixHolds
<1>6. ~Gap(watch[s]) => ToSet(g) = Wanted(watch[s])
  <2>1. ~Gap(watch[s]) => g = all
    BY <1>3, SubSeqFull
  <2> QED BY <1>3, <2>1
<1>7. /\ w \in WatchType /\ w.at = "open" /\ w.boundary = watch[s].boundary
      /\ w.last = watch[s].last /\ w.after = watch[s].after
      /\ w.live => watch[s].live /\ ~Gap(watch[s])
  BY Before DEF WatchType, Gap
<1>8. /\ u \in Queues /\ ~u.on /\ u.queue = <<>>
  <2>1. <<>> \in Seq(DOMAIN log)
    OBVIOUS
  <2> QED BY <2>1, Before DEF Queues
<1> HIDE DEF w, u, all, k, g
<1>9. /\ watch' \in [Subscribers -> WatchType] /\ watch'[s] = w
      /\ subs' \in [Subscribers -> Queues]
      /\ subs'[s] = subs[s] \/ (Gap(watch[s]) /\ subs'[s] = u)
      /\ got' \in [Subscribers -> Seq(DOMAIN log)] /\ got'[s] = g
      /\ \A t \in Subscribers : t # s =>
            watch'[t] = watch[t] /\ subs'[t] = subs[t] /\ got'[t] = got[t]
  BY <1>1, <1>5, <1>7, <1>8, Before
<1>10. SpliceTypeOK'
  BY <1>1, <1>2, <1>9, Before DEF SpliceTypeOK, HubTypeOK, WatchType, Queues
<1>11. channel[s] = <<>> /\ got[s] = <<>> /\ bridge[s] = "off"
       /\ watch[s].last <= Len(log) /\ watch[s].boundary <= Len(log)
  BY <1>1, Before DEF Stages
<1>12. \A n \in Wanted(watch[s]) : n <= watch[s].boundary
  BY DEF Wanted
<1>13. \A n : Waiting(n)' <=> Waiting(n)
  BY <1>1 DEF Waiting
<1>14. Subscription(s)'
  <2>1. Apart(s)'
    <3>1. /\ IsInjective(subs[s].queue) /\ \A n \in ToSet(subs[s].queue) : ~Waiting(n)
      BY Before DEF Apart
    <3>2. /\ IsInjective(subs'[s].queue) /\ \A n \in ToSet(subs'[s].queue) : ~Waiting(n)'
      BY <1>8, <1>9, <1>13, <3>1, EmptyHolds
    <3>3. ToSet(channel'[s]) = {} /\ IsInjective(channel'[s])
      BY <1>1, <1>11, EmptyHolds
    <3>4. \A n \in ToSet(got'[s]) : n <= watch'[s].boundary
      BY <1>5, <1>7, <1>9, <1>12
    <3> QED BY <1>5, <1>9, <3>2, <3>3, <3>4 DEF Apart
  <2>2. Stages(s)'
    BY <1>1, <1>7, <1>9, <1>11 DEF Stages
  <2>3. Whole(s)'
    <3> SUFFICES ASSUME w.live, ~subs'[s].overflowed
                 PROVE  /\ subs'[s].on /\ subs'[s].all
                        /\ \A n \in RunDurables : watch[s].boundary < n =>
                              Waiting(n) \/ n \in ToSet(subs'[s].queue)
                        /\ \A n \in RunDurables :
                              watch[s].after < n /\ n <= watch[s].boundary => n \in ToSet(g)
      BY <1>1, <1>7, <1>9, <1>13 DEF Whole, RunDurables, Durables
    <3>1. ~Gap(watch[s]) /\ watch[s].live /\ subs'[s] = subs[s]
      BY <1>7, <1>9
    <3>2. ToSet(channel[s]) = {} /\ ToSet(got[s]) = {}
      BY <1>11, EmptyHolds
    <3>3. /\ subs[s].on /\ subs[s].all
          /\ \A n \in RunDurables : watch[s].boundary < n =>
                Waiting(n) \/ n \in ToSet(subs[s].queue)
      BY <1>1, <3>1, <3>2, Before DEF Whole
    <3>4. \A n \in RunDurables : watch[s].after < n /\ n <= watch[s].boundary => n \in ToSet(g)
      BY <1>6, <3>1 DEF Wanted
    <3> QED BY <3>1, <3>3, <3>4
  <2> QED BY <2>1, <2>2, <2>3 DEF Subscription
<1> QED BY <1>1, <1>2, <1>9, <1>10, <1>14, OneSubscription

(* The bridge takes one event from its queue to the channel, or drops one    *)
(* that the replay covers, or gives up.                                      *)
LEMMA BridgeRecvKept ==
    ASSUME SpliceInv, NEW s \in Subscribers, BridgeRecv(s)
    PROVE  SpliceInv'
<1> DEFINE n == Head(subs[s].queue)
           full == Len(channel[s]) >= ChannelCap
           pass == Passes(s, n)
           u == [subs[s] EXCEPT !.queue = Tail(@), !.overflowed = @ \/ (pass /\ full)]
           c == IF pass /\ ~full THEN Append(channel[s], n) ELSE channel[s]
<1>1. /\ subs[s].queue # <<>> /\ bridge[s] = "recv"
      /\ subs' = [subs EXCEPT ![s] = u]
      /\ channel' = [channel EXCEPT ![s] = c]
      /\ log' = log /\ pending' = pending /\ hub' = hub /\ run' = run /\ watch' = watch
      /\ ending' = ending /\ got' = got /\ told' = told
  <2>1. subs \in [Subscribers -> Queues] /\ channel \in [Subscribers -> Seq(DOMAIN log)]
    BY Before
  <2> QED BY <2>1 DEF BridgeRecv, Queues
<1>2. /\ bridge' \in [Subscribers -> {"off", "check", "recv", "lag", "done"}]
      /\ \A t \in Subscribers : t # s => bridge'[t] = bridge[t]
  BY Before DEF BridgeRecv
<1>3. /\ subs[s] \in Queues /\ subs[s].queue \in Seq(DOMAIN log) /\ channel[s] \in Seq(DOMAIN log)
      /\ watch[s].boundary \in Nat
  BY Before DEF Queues, WatchType
<1>4. /\ n \in DOMAIN log /\ Tail(subs[s].queue) \in Seq(DOMAIN log)
      /\ ToSet(subs[s].queue) = ToSet(Tail(subs[s].queue)) \union {n}
      /\ IsInjective(subs[s].queue) =>
            IsInjective(Tail(subs[s].queue)) /\ n \notin ToSet(Tail(subs[s].queue))
  BY <1>1, <1>3, TailHolds
<1>5. /\ pass <=> log[n].mine /\ watch[s].boundary < n
      /\ n \in Nat
  BY <1>3, <1>4, Before DEF Passes
<1> HIDE DEF n, full, pass
<1>6. /\ u \in Queues /\ u.queue = Tail(subs[s].queue) /\ u.on = subs[s].on /\ u.all = subs[s].all
      /\ u.overflowed = (subs[s].overflowed \/ (pass /\ full))
  <2>1. pass \in BOOLEAN /\ full \in BOOLEAN
    BY DEF pass, full, Passes
  <2> QED BY <1>3, <1>4, <2>1 DEF Queues
<1>7. /\ c \in Seq(DOMAIN log)
      /\ pass /\ ~full => ToSet(c) = ToSet(channel[s]) \union {n}
      /\ ~(pass /\ ~full) => c = channel[s]
      /\ pass /\ ~full /\ IsInjective(channel[s]) /\ n \notin ToSet(channel[s]) => IsInjective(c)
  <2>1. CASE pass /\ ~full
    <3>1. c = Append(channel[s], n)
      BY <2>1
    <3> HIDE DEF c
    <3> QED BY <1>3, <1>4, <2>1, <3>1, AppendHolds
  <2>2. CASE ~(pass /\ ~full)
    <3>1. c = channel[s]
      BY <2>2
    <3> HIDE DEF c
    <3> QED BY <1>3, <2>2, <3>1
  <2> QED BY <2>1, <2>2
<1> HIDE DEF u, c
<1>8. /\ subs' \in [Subscribers -> Queues] /\ subs'[s] = u
      /\ channel' \in [Subscribers -> Seq(DOMAIN log)] /\ channel'[s] = c
      /\ \A t \in Subscribers : t # s => subs'[t] = subs[t] /\ channel'[t] = channel[t]
  BY <1>1, <1>6, <1>7, Before
<1>9. SpliceTypeOK'
  BY <1>1, <1>2, <1>8, Before DEF SpliceTypeOK, HubTypeOK, WatchType, Queues
<1>10. \A m : Waiting(m)' <=> Waiting(m)
  BY <1>1 DEF Waiting
<1> DEFINE Q == ToSet(subs[s].queue)
           T == ToSet(u.queue)
           C == ToSet(channel[s])
           CC == ToSet(c)
           G == ToSet(got[s])
<1>11. /\ IsInjective(subs[s].queue) /\ IsInjective(channel[s]) /\ IsInjective(got[s])
       /\ \A m \in Q : ~Waiting(m)
       /\ \A m \in C : m \notin Q /\ ~Waiting(m) /\ watch[s].boundary < m
       /\ \A m \in G : \/ m <= watch[s].boundary
                       \/ m \notin C /\ m \notin Q /\ ~Waiting(m)
  BY Before DEF Apart
<1>12. Q = T \union {n} /\ n \notin T /\ IsInjective(u.queue)
  BY <1>4, <1>6, <1>11
<1>13. (CC = C /\ ~(pass /\ ~full)) \/ (CC = C \union {n} /\ pass /\ ~full)
  BY <1>7
<1>14. IsInjective(c)
  <2> HIDE DEF Q, T, CC
  <2>1. n \notin ToSet(channel[s])
    BY <1>11, <1>12
  <2> QED BY <1>7, <1>11, <2>1
<1> HIDE DEF Q, T, C, CC, G
<1>15. Apart(s)'
  <2> SUFFICES /\ IsInjective(u.queue) /\ IsInjective(c) /\ IsInjective(got[s])
               /\ \A m \in T : ~Waiting(m)
               /\ \A m \in CC : m \notin T /\ ~Waiting(m) /\ watch[s].boundary < m
               /\ \A m \in G : \/ m <= watch[s].boundary
                               \/ m \notin CC /\ m \notin T /\ ~Waiting(m)
    BY <1>1, <1>8, <1>10 DEF Apart, T, CC, G
  <2>1. ASSUME NEW m \in CC PROVE m \notin T /\ ~Waiting(m) /\ watch[s].boundary < m
    BY <1>5, <1>11, <1>12, <1>13
  <2>2. ASSUME NEW m \in G, ~(m <= watch[s].boundary)
        PROVE  m \notin CC /\ m \notin T /\ ~Waiting(m)
    BY <1>11, <1>12, <1>13, <2>2
  <2> QED BY <1>11, <1>12, <1>14, <2>1, <2>2
<1>16. watch[s].at \in {"replay", "open"}
  BY <1>1, Before DEF Stages
<1>17. watch[s].at = "open"
  BY <1>1, <1>16, Before DEF Stages
<1>18. Stages(s)'
  BY <1>1, <1>17, Before DEF Stages
<1>19. Whole(s)'
  <2> SUFFICES ASSUME watch[s].live, ~u.overflowed
               PROVE  /\ u.on /\ u.all
                      /\ \A m \in RunDurables : watch[s].boundary < m =>
                            Waiting(m) \/ m \in T \/ m \in CC \/ m \in G
                      /\ \A m \in RunDurables :
                            watch[s].after < m /\ m <= watch[s].boundary => m \in G
    BY <1>1, <1>8, <1>10, <1>17 DEF Whole, RunDurables, Durables, T, CC, G
  <2>1. ~subs[s].overflowed /\ ~(pass /\ full)
    BY <1>6
  <2>2. /\ subs[s].on /\ subs[s].all
        /\ \A m \in RunDurables : watch[s].boundary < m =>
              Waiting(m) \/ m \in Q \/ m \in C \/ m \in G
        /\ \A m \in RunDurables : watch[s].after < m /\ m <= watch[s].boundary => m \in G
    BY <1>17, <2>1, Before DEF Whole, Q, C, G
  <2>3. \A m \in RunDurables : m = n /\ watch[s].boundary < m => n \in CC
    BY <1>5, <1>13, <2>1 DEF RunDurables
  <2> QED BY <1>6, <1>12, <1>13, <2>2, <2>3
<1>20. Subscription(s)'
  BY <1>15, <1>18, <1>19 DEF Subscription
<1> QED BY <1>1, <1>2, <1>8, <1>9, <1>20, OneSubscription

(* The bridge goes on or ends without touching an event. *)
LEMMA BridgeMovesKept ==
    ASSUME SpliceInv, NEW s \in Subscribers, BridgeCheck(s) \/ BridgeEnds(s) \/ BridgeLag(s)
    PROVE  SpliceInv'
<1>1. /\ bridge[s] # "off" /\ subs' = subs
      /\ channel' = channel /\ got' = got
      /\ log' = log /\ pending' = pending /\ hub' = hub /\ run' = run /\ watch' = watch
      /\ told' = told
  BY DEF BridgeCheck, BridgeEnds, BridgeLag, hubVars
<1>2. /\ bridge' \in [Subscribers -> {"off", "check", "recv", "lag", "done"}]
      /\ ending' \in [Subscribers -> {"none", "historyGap", "lagged"}]
      /\ \A t \in Subscribers : t # s => bridge'[t] = bridge[t]
  BY Before DEF BridgeCheck, BridgeEnds, BridgeLag, SpliceTypeOK
<1>3. SpliceTypeOK'
  BY <1>1, <1>2, Before DEF SpliceTypeOK, HubTypeOK
<1>4. (\A n : Waiting(n)' <=> Waiting(n)) /\ RunDurables' = RunDurables
  BY <1>1 DEF Waiting, RunDurables, Durables
<1>5. Apart(s)'
  BY <1>1, <1>4, Before DEF Apart
<1>6. Stages(s)'
  <2>1. watch[s].at \in {"open", "closed", "left"}
    BY <1>1, Before DEF Stages
  <2> QED BY <1>1, <2>1, Before DEF Stages
<1>7. Whole(s)'
  BY <1>1, <1>4, Before DEF Whole
<1> QED BY <1>1, <1>2, <1>3, <1>5, <1>6, <1>7, OneSubscription DEF Subscription

(* The forwarder hands the next event of the channel to the client. *)
LEMMA ForwardKept ==
    ASSUME SpliceInv, NEW s \in Subscribers, Forward(s)
    PROVE  SpliceInv'
<1> DEFINE n == Head(channel[s])
           c == Tail(channel[s])
           g == Append(got[s], n)
<1>1. /\ watch[s].at = "open" /\ channel[s] # <<>>
      /\ got' = [got EXCEPT ![s] = g] /\ channel' = [channel EXCEPT ![s] = c]
      /\ log' = log /\ pending' = pending /\ hub' = hub /\ run' = run /\ watch' = watch
      /\ subs' = subs /\ bridge' = bridge /\ ending' = ending /\ told' = told
  BY DEF Forward, hubVars
<1>2. channel[s] \in Seq(DOMAIN log) /\ got[s] \in Seq(DOMAIN log)
  BY Before
<1> DEFINE Q == ToSet(subs[s].queue)
           C == ToSet(channel[s])
           CC == ToSet(c)
           G == ToSet(got[s])
           GG == ToSet(g)
<1>3. /\ IsInjective(subs[s].queue) /\ IsInjective(channel[s]) /\ IsInjective(got[s])
      /\ \A m \in Q : ~Waiting(m)
      /\ \A m \in C : m \notin Q /\ ~Waiting(m) /\ watch[s].boundary < m
      /\ \A m \in G : \/ m <= watch[s].boundary
                      \/ m \notin C /\ m \notin Q /\ ~Waiting(m)
  BY Before DEF Apart
<1>4. /\ n \in DOMAIN log /\ c \in Seq(DOMAIN log)
      /\ C = CC \union {n} /\ IsInjective(c) /\ n \notin CC
  BY <1>1, <1>2, <1>3, TailHolds
<1>5. /\ n \in Nat /\ watch[s].boundary \in Nat
  BY <1>4, Before DEF WatchType
<1>6. /\ g \in Seq(DOMAIN log) /\ GG = G \union {n}
      /\ IsInjective(got[s]) /\ n \notin G => IsInjective(g)
  BY <1>2, <1>4, AppendHolds
<1> HIDE DEF n, c, g, Q, C, CC, G, GG
<1>7. n \notin G
  BY <1>3, <1>4, <1>5
<1>8. /\ channel' \in [Subscribers -> Seq(DOMAIN log)] /\ channel'[s] = c
      /\ got' \in [Subscribers -> Seq(DOMAIN log)] /\ got'[s] = g
      /\ \A t \in Subscribers : t # s => channel'[t] = channel[t] /\ got'[t] = got[t]
  BY <1>1, <1>4, <1>6, Before
<1>9. SpliceTypeOK'
  BY <1>1, <1>8, Before DEF SpliceTypeOK, HubTypeOK
<1>10. (\A m : Waiting(m)' <=> Waiting(m)) /\ RunDurables' = RunDurables
  BY <1>1 DEF Waiting, RunDurables, Durables
<1>11. Apart(s)'
  <2> SUFFICES /\ IsInjective(subs[s].queue) /\ IsInjective(c) /\ IsInjective(g)
               /\ \A m \in Q : ~Waiting(m)
               /\ \A m \in CC : m \notin Q /\ ~Waiting(m) /\ watch[s].boundary < m
               /\ \A m \in GG : \/ m <= watch[s].boundary
                                \/ m \notin CC /\ m \notin Q /\ ~Waiting(m)
    BY <1>1, <1>8, <1>10 DEF Apart, Q, CC, GG
  <2> QED BY <1>3, <1>4, <1>6, <1>7
<1>12. Stages(s)'
  BY <1>1, Before DEF Stages
<1>13. Whole(s)'
  <2> SUFFICES ASSUME watch[s].live, ~subs[s].overflowed
               PROVE  /\ subs[s].on /\ subs[s].all
                      /\ \A m \in RunDurables : watch[s].boundary < m =>
                            Waiting(m) \/ m \in Q \/ m \in CC \/ m \in GG
                      /\ \A m \in RunDurables :
                            watch[s].after < m /\ m <= watch[s].boundary => m \in GG
    BY <1>1, <1>8, <1>10 DEF Whole, Q, CC, GG
  <2>1. /\ subs[s].on /\ subs[s].all
        /\ \A m \in RunDurables : watch[s].boundary < m =>
              Waiting(m) \/ m \in Q \/ m \in C \/ m \in G
        /\ \A m \in RunDurables : watch[s].after < m /\ m <= watch[s].boundary => m \in G
    BY <1>1, Before DEF Whole, Q, C, G
  <2> QED BY <1>4, <1>6, <2>1
<1> QED BY <1>1, <1>8, <1>9, <1>11, <1>12, <1>13, OneSubscription DEF Subscription

(* The end of a stream drops what is queued for it. *)
LEMMA ShutKept ==
    ASSUME SpliceInv, NEW s \in Subscribers,
           ForwardError(s) \/ ForwardEnds(s) \/ Disconnect(s)
    PROVE  SpliceInv'
<1> DEFINE u == [subs[s] EXCEPT !.on = FALSE, !.queue = <<>>]
<1>1. /\ watch[s].at = "open" /\ subs' = [subs EXCEPT ![s] = u]
      /\ log' = log /\ pending' = pending /\ hub' = hub /\ run' = run
      /\ bridge' = bridge /\ channel' = channel /\ ending' = ending /\ got' = got
  BY Before DEF ForwardError, ForwardEnds, Disconnect, Shut, Unsubscribe, Queues
<1>2. PICK a \in {"closed", "left"} : watch' = [watch EXCEPT ![s].at = a]
  BY DEF ForwardError, ForwardEnds, Disconnect, Shut
<1>3. told' \in [Subscribers -> {"none", "historyGap", "lagged"}]
  BY Before DEF ForwardError, ForwardEnds, Disconnect, SpliceTypeOK
<1>4. /\ watch' \in [Subscribers -> WatchType] /\ watch'[s] = [watch[s] EXCEPT !.at = a]
      /\ \A t \in Subscribers : t # s => watch'[t] = watch[t]
  BY <1>2, Before DEF WatchType
<1>5. /\ watch'[s].at = a /\ watch'[s].live = watch[s].live
      /\ watch'[s].last = watch[s].last /\ watch'[s].boundary = watch[s].boundary
  BY <1>4, Before DEF WatchType
<1>6. /\ u \in Queues /\ ~u.on /\ u.queue = <<>>
  <2>1. <<>> \in Seq(DOMAIN log)
    OBVIOUS
  <2> QED BY <2>1, Before DEF Queues
<1> HIDE DEF u
<1>7. /\ subs' \in [Subscribers -> Queues] /\ subs'[s] = u
      /\ \A t \in Subscribers : t # s => subs'[t] = subs[t]
  BY <1>1, <1>6, Before
<1>8. SpliceTypeOK'
  BY <1>1, <1>3, <1>4, <1>7, Before DEF SpliceTypeOK, HubTypeOK, WatchType, Queues
<1>9. \A n : Waiting(n)' <=> Waiting(n)
  BY <1>1 DEF Waiting
<1>10. Apart(s)'
  BY <1>1, <1>5, <1>6, <1>7, <1>9, Before, EmptyHolds DEF Apart
<1>11. Stages(s)'
  BY <1>1, <1>5, <1>6, <1>7, Before DEF Stages
<1>12. Whole(s)'
  BY <1>5 DEF Whole
<1> QED BY <1>1, <1>4, <1>7, <1>8, <1>10, <1>11, <1>12, OneSubscription DEF Subscription

-------------------------------------------------------------------------------
(* The invariant holds at the start and every step keeps it.                 *)

LEMMA SpliceStarts == SpliceInit => SpliceInv
<1> SUFFICES ASSUME SpliceInit PROVE SpliceInv
  OBVIOUS
<1> USE DEF SpliceInit, HubInit, NoSubscription, NoWatch
<1>1. log = <<>> /\ Len(log) = 0 /\ DOMAIN log = {} /\ <<>> \in Seq({}) /\ log \in Seq(Events)
  OBVIOUS
<1>2. SpliceTypeOK
  BY <1>1 DEF SpliceTypeOK, HubTypeOK
<1>3. PendingApart
  BY <1>1, EmptyHolds DEF PendingApart
<1>4. ASSUME NEW s \in Subscribers PROVE Subscription(s)
  <2>1. Apart(s)
    BY EmptyHolds DEF Apart
  <2>2. Stages(s)
    BY <1>1 DEF Stages
  <2>3. Whole(s)
    BY DEF Whole
  <2> QED BY <2>1, <2>2, <2>3 DEF Subscription
<1> QED BY <1>2, <1>3, <1>4 DEF SpliceInv

LEMMA SpliceStep == SpliceInv /\ [SpliceNext]_spliceVars => SpliceInv'
<1> SUFFICES ASSUME SpliceInv, [SpliceNext]_spliceVars PROVE SpliceInv'
  OBVIOUS
<1>1. SpliceTypeOK /\ [durable |-> TRUE, mine |-> TRUE] \in Events
  BY DEF SpliceInv, Events
<1>2. ASSUME NEW p \in Publishers, StartRun(p) PROVE SpliceInv'
  BY <1>1, <1>2, CommitKept DEF StartRun
<1>3. ASSUME NEW p \in Publishers, EndRun(p) PROVE SpliceInv'
  BY <1>1, <1>3, CommitKept DEF EndRun
<1>4. ASSUME NEW p \in Publishers, NEW e \in Events, Emit(p, e) PROVE SpliceInv'
  <2>1. run' \in {"absent", "running", "over"} /\ UNCHANGED clientVars /\ Commit(p, e)
    BY <1>1, <1>4 DEF Emit, SpliceTypeOK
  <2> QED BY <2>1, CommitKept
<1>5. ASSUME NEW p \in Publishers, PublishNext(p) PROVE SpliceInv'
  BY <1>5, PublishKept
<1>6. ASSUME NEW s \in Subscribers, NEW after \in 0..Len(log), ReadRun(s, after) PROVE SpliceInv'
  BY <1>6, ReadRunKept
<1>7. ASSUME NEW s \in Subscribers, Handler(s) PROVE SpliceInv'
  BY <1>7, LiveCheckKept, SubscribeLiveKept, ReplayKept DEF Handler
<1>8. ASSUME NEW s \in Subscribers, Bridge(s) PROVE SpliceInv'
  BY <1>8, BridgeRecvKept, BridgeMovesKept DEF Bridge
<1>9. ASSUME NEW s \in Subscribers, Forwarder(s) \/ Disconnect(s) PROVE SpliceInv'
  BY <1>9, ForwardKept, ShutKept DEF Forwarder
<1>10. CASE UNCHANGED spliceVars
  BY <1>10 DEF spliceVars, hubVars, clientVars, SpliceInv, SpliceTypeOK, HubTypeOK, PendingApart,
               Waiting, Subscription, Apart, Stages, Whole, RunDurables, Durables
<1> QED BY <1>2, <1>3, <1>4, <1>5, <1>6, <1>7, <1>8, <1>9, <1>10 DEF SpliceNext

(* The bridge, the forwarder and the publishers only ever handle numbers of  *)
(* committed events, whatever the number of publishers and subscribers.      *)
THEOREM SpliceTyped == SpliceSpec => []SpliceTypeOK
<1>1. SpliceInv => SpliceTypeOK
  BY DEF SpliceInv
<1> QED BY <1>1, SpliceStarts, SpliceStep, PTL DEF SpliceSpec

(* A client of a run's event stream never receives an event twice, and of a  *)
(* live stream it misses none that it is not going to be told about.         *)
THEOREM SpliceIsSound == SpliceSpec => []SpliceSound
<1>1. SpliceInv => SpliceSound
  <2> SUFFICES ASSUME SpliceInv PROVE NoEventTwice /\ NothingSkipped
    BY DEF SpliceSound
  <2>1. ASSUME NEW s \in Subscribers PROVE IsInjective(got[s] \o channel[s])
    <3>1. /\ got[s] \in Seq(DOMAIN log) /\ channel[s] \in Seq(DOMAIN log)
          /\ IsInjective(got[s]) /\ IsInjective(channel[s])
      BY Before DEF Apart
    <3>2. ToSet(got[s]) \cap ToSet(channel[s]) = {}
      <4>1. \A m \in ToSet(channel[s]) : m \in Nat /\ watch[s].boundary < m /\ watch[s].boundary \in Nat
        BY Before, <3>1, HeldInRange DEF Apart, WatchType
      <4>2. \A m \in ToSet(got[s]) : m <= watch[s].boundary \/ m \notin ToSet(channel[s])
        BY Before DEF Apart
      <4> QED BY <4>1, <4>2
    <3> QED BY <3>1, <3>2, ConcatHolds
  <2>2. ASSUME NEW s \in Subscribers, watch[s].at = "open", watch[s].live, ~subs[s].overflowed,
               NEW n \in RunDurables, n > watch[s].after
        PROVE  n \in OnTheWay(s)
    <3>1. n \in Nat /\ watch[s].boundary \in Nat /\ watch[s].after \in Nat
      BY Before DEF WatchType
    <3>2. n <= watch[s].boundary \/ watch[s].boundary < n
      BY <3>1
    <3>3. Waiting(n) \/ n \in ToSet(subs[s].queue) \/ n \in ToSet(channel[s]) \/ n \in ToSet(got[s])
      BY <2>2, <3>1, <3>2, Before DEF Whole
    <3> QED BY <3>3 DEF OnTheWay, Waiting
  <2> QED BY <2>1, <2>2 DEF NoEventTwice, NothingSkipped
<1> QED BY <1>1, SpliceStarts, SpliceStep, PTL DEF SpliceSpec

(***************************************************************************)
(* The stream of a session.                                                *)
(***************************************************************************)
-------------------------------------------------------------------------------
(* The inductive invariant of the stream of a session.                       *)

Messages == [type : {"event", "subscribed"}, n : 0..Len(log), gap : BOOLEAN]
LinkType == [no : Subscribers, persisted : 0..Len(log),
             at : {"down", "attached", "asked", "subscribed", "up"}]
PortType == [at : {"none", "pending", "open"}, after : 0..Len(log), buffer : Seq(Nat)]

StreamTypes ==
    /\ HubTypeOK /\ hub.latest <= Len(log)
    /\ link \in LinkType
    /\ wire \in Seq(Messages)
    /\ answer \in [type : {"none", "subscribed"}, n : 0..Len(log), gap : BOOLEAN]
    /\ cursor \in 0..Len(log) /\ opened \in 0..Len(log) /\ gapTold \in BOOLEAN
    /\ port \in PortType
    /\ posted \in Seq(Nat)

Rising(q) == \A i, j \in DOMAIN q : i < j => q[i] < q[j]

(* What the port has and what waits for it is in order, and the cursor is    *)
(* past it; nothing is posted before the port opens and nothing waits after. *)
InOrder ==
    /\ Rising(posted) /\ Rising(port.buffer)
    /\ \A n \in ToSet(posted) \union ToSet(port.buffer) : n <= cursor
    /\ port.at # "open" => posted = <<>>
    /\ port.at # "pending" => port.buffer = <<>>

OnlyEvents(w) == \A m \in ToSet(w) : m.type = "event"

(* Each subscription is answered once, before anything it sends.             *)
AnsweredOnce ==
    /\ answer.type = "subscribed" => link.at = "subscribed" /\ OnlyEvents(wire)
    /\ link.at # "subscribed" => OnlyEvents(wire)
    /\ link.at = "subscribed" /\ answer.type = "none" =>
          wire # <<>> /\ Head(wire).type = "subscribed" /\ OnlyEvents(Tail(wire))

(* On the first connection of an open port the cursor follows what is        *)
(* posted, and an event behind the opening is on its way, or lost its        *)
(* subscription, or the cursor went past it.                                 *)
OnItsWay(n) ==
    Waiting(n) \/ n \in ToSet(subs[1].queue) \/ EventMsg(n) \in ToSet(wire) \/ n <= cursor
FirstConnection ==
    port.at = "open" /\ link.no = 1 =>
      /\ link.at = "up" /\ port.after <= opened
      /\ opened < cursor => cursor \in ToSet(posted)
      /\ subs[1].on => \A n \in DOMAIN log : opened < n /\ log[n].mine => OnItsWay(n)

StreamInv == StreamTypes /\ InOrder /\ AnsweredOnce /\ FirstConnection

-------------------------------------------------------------------------------
(* Rising sequences and messages.                                            *)

LEMMA RisingEmpty == Rising(<<>>)
  BY DEF Rising

LEMMA RisingAppend ==
    ASSUME NEW q \in Seq(Nat), NEW n \in Nat, Rising(q), \A m \in ToSet(q) : m < n
    PROVE  Rising(Append(q, n))
<1> DEFINE r == Append(q, n)
<1>1. /\ Len(q) \in Nat /\ DOMAIN q = 1..Len(q) /\ DOMAIN r = 1..(Len(q) + 1)
      /\ r[Len(q) + 1] = n /\ \A i \in 1..Len(q) : r[i] = q[i]
  OBVIOUS
<1>2. \A i \in 1..Len(q) : q[i] < n
  BY <1>1 DEF ToSet
<1> HIDE DEF r
<1>3. ASSUME NEW i \in DOMAIN r, NEW j \in DOMAIN r, i < j PROVE r[i] < r[j]
  <2>1. i \in 1..Len(q)
    BY <1>1, <1>3
  <2>2. CASE j \in 1..Len(q)
    BY <1>1, <1>3, <2>1, <2>2 DEF Rising
  <2>3. CASE j = Len(q) + 1
    BY <1>1, <1>2, <2>1, <2>3
  <2> QED BY <1>1, <2>2, <2>3
<1> QED BY <1>3 DEF Rising, r

(* A subscription that wants an event gets it or loses its place. *)
LEMMA OfferWanted ==
    ASSUME NEW sub \in Queues, NEW n \in DOMAIN log, log[n].mine
    PROVE  Offer(sub, n).on => Offer(sub, n).queue = Append(sub.queue, n)
<1>1. CASE ~Wants(sub, n)
  BY <1>1 DEF Offer, Wants
<1>2. CASE Wants(sub, n) /\ Len(sub.queue) >= SubscriberCap
  <2>1. Offer(sub, n) = [sub EXCEPT !.on = FALSE, !.overflowed = TRUE]
    BY <1>2 DEF Offer
  <2> QED BY <2>1 DEF Queues
<1>3. CASE Wants(sub, n) /\ ~(Len(sub.queue) >= SubscriberCap)
  <2>1. Offer(sub, n) = [sub EXCEPT !.queue = Append(@, n)]
    BY <1>3 DEF Offer
  <2> QED BY <2>1 DEF Queues
<1> QED BY <1>1, <1>2, <1>3

(* What the backlog replays are numbers of committed events. *)
LEMMA ReplayTyped ==
    ASSUME HubTypeOK, NEW after \in Nat, NEW all \in BOOLEAN
    PROVE  EventsAfter(after, all) \in Seq(DOMAIN log)
<1> DEFINE kept == hub.backlog
           wanted == { i \in DOMAIN kept : kept[i] > after /\ (all \/ log[kept[i]].mine) }
           q == Ascending(wanted)
<1>1. kept \in Seq(DOMAIN log) /\ Len(kept) \in Nat /\ DOMAIN kept = 1..Len(kept)
  BY DEF HubTypeOK
<1>2. wanted \subseteq 1..Len(kept)
  BY <1>1
<1> HIDE DEF wanted
<1>3. wanted \in SUBSET Nat /\ IsFiniteSet(wanted)
  <2>1. IsFiniteSet(1..Len(kept))
    BY <1>1, FS_Interval
  <2>2. IsFiniteSet(wanted)
    BY <1>2, <2>1, FS_Subset
  <2> QED BY <1>1, <1>2, <2>2
<1>4. Cardinality(wanted) \in Nat
  BY <1>3, FS_CardinalityType
<1>5. q \in Seq(wanted) /\ DOMAIN q = 1..Cardinality(wanted)
  BY <1>3, AscendingHolds DEF Ascending
<1>6. \A k \in 1..Cardinality(wanted) : kept[q[k]] \in DOMAIN log
  <2> HIDE DEF q, kept
  <2>1. \A k \in 1..Cardinality(wanted) : q[k] \in wanted
    BY <1>4, <1>5
  <2>2. \A i \in 1..Len(kept) : kept[i] \in DOMAIN log
    BY <1>1, ElementOfSeq
  <2> QED BY <1>2, <2>1, <2>2
<1>7. EventsAfter(after, all) = [k \in 1..Cardinality(wanted) |-> kept[q[k]]]
  BY DEF EventsAfter, wanted
<1> HIDE DEF q, kept
<1> QED BY <1>4, <1>6, <1>7

(* What the invariant says of the types, by parts. *)
LEMMA StreamTyped ==
    ASSUME StreamTypes
    PROVE  /\ Len(log) \in Nat /\ DOMAIN log = 1..Len(log) /\ log \in Seq(Events)
           /\ pending \in [Publishers -> Seq(DOMAIN log)]
           /\ \A p \in Publishers : pending[p] \in Seq(DOMAIN log) /\ ToSet(pending[p]) \subseteq DOMAIN log
           /\ hub \in [latest : Nat, backlog : Seq(DOMAIN log), required : Nat]
           /\ subs \in [Subscribers -> Queues]
           /\ 1 \in Subscribers /\ Subscribers \subseteq Nat /\ link.no \in Subscribers
<1>1. Len(log) \in Nat /\ DOMAIN log = 1..Len(log)
  BY LenProperties DEF StreamTypes, HubTypeOK
<1>2. 1 \in Subscribers /\ Subscribers \subseteq Nat
  BY StreamAssumption
<1>3. /\ log \in Seq(Events) /\ pending \in [Publishers -> Seq(DOMAIN log)]
      /\ hub \in [latest : Nat, backlog : Seq(DOMAIN log), required : Nat]
      /\ subs \in [Subscribers -> Queues] /\ link.no \in Subscribers
  BY DEF StreamTypes, HubTypeOK, Queues, LinkType
<1> QED BY <1>1, <1>2, <1>3, HeldInRange

-------------------------------------------------------------------------------
(* The daemon's side: the hub and what it sends.                             *)

LEMMA SessionCommitsKept ==
    ASSUME StreamInv, NEW p \in Publishers, NEW e \in Events, SessionCommits(p, e)
    PROVE  StreamInv'
<1> DEFINE N == Len(log) + 1
<1>1. /\ log' = Append(log, e) /\ pending' = [pending EXCEPT ![p] = Append(@, N)]
      /\ hub' = hub /\ subs' = subs /\ link' = link /\ wire' = wire /\ answer' = answer /\ cursor' = cursor
      /\ port' = port /\ posted' = posted /\ gapTold' = gapTold /\ opened' = opened
  BY DEF SessionCommits, Commit, desktopVars
<1>2. StreamTypes /\ HubTypeOK
  BY DEF StreamInv, StreamTypes
<1>3. /\ log' \in Seq(Events) /\ Len(log') = N
      /\ DOMAIN log' = DOMAIN log \union {N} /\ N \notin DOMAIN log
      /\ \A n \in DOMAIN log : log'[n] = log[n]
      /\ \A q : q \in Seq(DOMAIN log) => q \in Seq(DOMAIN log')
  BY <1>1, <1>2, LogGrows
<1>4. Len(log) \in Nat /\ N \in Nat /\ N \in DOMAIN log' /\ 0..Len(log) \subseteq 0..Len(log')
  BY <1>2, <1>3, StreamTyped
<1>5. /\ pending' \in [Publishers -> Seq(DOMAIN log')]
      /\ pending'[p] = Append(pending[p], N)
      /\ \A q \in Publishers : q # p => pending'[q] = pending[q]
      /\ ToSet(pending'[p]) = ToSet(pending[p]) \union {N}
  <2>1. pending \in [Publishers -> Seq(DOMAIN log)] /\ \A q \in Publishers : pending[q] \in Seq(DOMAIN log')
    BY <1>2, <1>3, StreamTyped
  <2>2. Append(pending[p], N) \in Seq(DOMAIN log') /\ ToSet(Append(pending[p], N)) = ToSet(pending[p]) \union {N}
    BY <1>4, <2>1, AppendHolds
  <2> HIDE DEF N
  <2> QED BY <1>1, <2>1, <2>2
<1> HIDE DEF N
<1>6. \A n : Waiting(n)' <=> Waiting(n) \/ n = N
  <2>1. \A n : Waiting(n)' <=> \E q \in Publishers : n \in ToSet(pending'[q])
    BY DEF Waiting
  <2>2. \A n : Waiting(n) <=> \E q \in Publishers : n \in ToSet(pending[q])
    BY DEF Waiting
  <2> QED BY <1>5, <2>1, <2>2
<1>7. HubTypeOK'
  <2>1. hub \in [latest : Nat, backlog : Seq(DOMAIN log'), required : Nat]
    <3>1. hub \in [latest : Nat, backlog : Seq(DOMAIN log), required : Nat]
      BY <1>2, StreamTyped
    <3>2. hub.backlog \in Seq(DOMAIN log')
      BY <1>3, <3>1
    <3> QED BY <3>1, <3>2
  <2>2. subs \in [Subscribers -> [on : BOOLEAN, queue : Seq(DOMAIN log'), overflowed : BOOLEAN, all : BOOLEAN]]
    <3>1. subs \in [Subscribers -> [on : BOOLEAN, queue : Seq(DOMAIN log), overflowed : BOOLEAN, all : BOOLEAN]]
      BY <1>2, StreamTyped DEF Queues
    <3>2. \A s \in Subscribers : subs[s].queue \in Seq(DOMAIN log')
      BY <1>3, <3>1
    <3> QED BY <3>1, <3>2
  <2> QED BY <1>1, <1>3, <1>5, <2>1, <2>2 DEF HubTypeOK
<1>8. StreamTypes'
  <2>1. link \in [no : Subscribers, persisted : 0..Len(log'), at : {"down", "attached", "asked", "subscribed", "up"}]
    BY <1>2, <1>4 DEF StreamTypes, LinkType
  <2>2. wire \in Seq([type : {"event", "subscribed"}, n : 0..Len(log'), gap : BOOLEAN])
    <3>1. Messages \subseteq [type : {"event", "subscribed"}, n : 0..Len(log'), gap : BOOLEAN]
      BY <1>4 DEF Messages
    <3> QED BY <1>2, <3>1, SeqMonotonic DEF StreamTypes
  <2>3. answer \in [type : {"none", "subscribed"}, n : 0..Len(log'), gap : BOOLEAN]
    BY <1>2, <1>4 DEF StreamTypes
  <2>4. port \in [at : {"none", "pending", "open"}, after : 0..Len(log'), buffer : Seq(Nat)]
    BY <1>2, <1>4 DEF StreamTypes, PortType
  <2>5. hub.latest <= Len(log')
    <3>1. hub.latest \in Nat /\ hub.latest <= Len(log)
      BY <1>2, StreamTyped DEF StreamTypes
    <3> QED BY <1>3, <1>4, <3>1 DEF N
  <2>6. cursor \in 0..Len(log') /\ opened \in 0..Len(log') /\ gapTold \in BOOLEAN /\ posted \in Seq(Nat)
    BY <1>2, <1>4 DEF StreamTypes
  <2> QED BY <1>1, <1>7, <2>1, <2>2, <2>3, <2>4, <2>5, <2>6 DEF StreamTypes, LinkType, Messages, PortType
<1>9. InOrder' /\ AnsweredOnce'
  BY <1>1 DEF StreamInv, InOrder, AnsweredOnce, OnlyEvents, Rising
<1>10. FirstConnection'
  <2> SUFFICES ASSUME port.at = "open", link.no = 1
               PROVE  /\ link.at = "up" /\ port.after <= opened
                      /\ opened < cursor => cursor \in ToSet(posted)
                      /\ subs[1].on => \A n \in DOMAIN log' : opened < n /\ log'[n].mine => OnItsWay(n)'
    BY <1>1 DEF FirstConnection
  <2>1. \A n : OnItsWay(n)' <=> OnItsWay(n) \/ n = N
    BY <1>1, <1>6 DEF OnItsWay
  <2> QED BY <1>3, <2>1 DEF StreamInv, FirstConnection
<1> QED BY <1>8, <1>9, <1>10 DEF StreamInv

LEMMA SessionPublishesKept ==
    ASSUME StreamInv, NEW p \in Publishers, SessionPublishes(p)
    PROVE  StreamInv'
<1> DEFINE n == Head(pending[p])
           h == [hub EXCEPT !.latest = Larger(@, n)]
<1>1. /\ pending[p] # <<>> /\ hub' = Push(h, n)
      /\ subs' = [s \in Subscribers |-> Offer(subs[s], n)]
      /\ pending' = [pending EXCEPT ![p] = Tail(@)]
      /\ log' = log /\ link' = link /\ wire' = wire /\ answer' = answer /\ cursor' = cursor
      /\ port' = port /\ posted' = posted /\ gapTold' = gapTold /\ opened' = opened
  BY DEF SessionPublishes, Publish, desktopVars
<1>2. StreamTypes /\ HubTypeOK
  BY DEF StreamInv, StreamTypes
<1>3. /\ n \in DOMAIN log /\ Tail(pending[p]) \in Seq(DOMAIN log)
      /\ ToSet(pending[p]) = ToSet(Tail(pending[p])) \union {n}
  <2>1. pending[p] \in Seq(DOMAIN log)
    BY <1>2, StreamTyped
  <2> QED BY <1>1, <2>1, TailHolds
<1>4. /\ Len(log) \in Nat /\ DOMAIN log = 1..Len(log) /\ hub.latest \in Nat /\ hub.latest <= Len(log)
      /\ n \in Nat /\ n <= Len(log)
  BY <1>2, <1>3, StreamTyped DEF StreamTypes
<1>5. /\ h \in [latest : Nat, backlog : Seq(DOMAIN log), required : Nat] /\ h.latest <= Len(log)
  <2>1. hub \in [latest : Nat, backlog : Seq(DOMAIN log), required : Nat]
    BY <1>2, StreamTyped
  <2>2. Larger(hub.latest, n) \in Nat /\ Larger(hub.latest, n) <= Len(log)
    BY <1>4 DEF Larger
  <2> HIDE DEF n
  <2> QED BY <2>1, <2>2
<1> HIDE DEF h, n
<1>6. hub' \in [latest : Nat, backlog : Seq(DOMAIN log), required : Nat] /\ hub'.latest <= Len(log)
  BY <1>1, <1>2, <1>3, <1>5, PushTyped
<1>7. /\ pending' \in [Publishers -> Seq(DOMAIN log)] /\ pending'[p] = Tail(pending[p])
      /\ \A q \in Publishers : q # p => pending'[q] = pending[q]
  BY <1>1, <1>2, <1>3, StreamTyped
<1>8. \A m : Waiting(m) => Waiting(m)' \/ m = n
  <2> SUFFICES ASSUME NEW m, NEW q \in Publishers, m \in ToSet(pending[q])
               PROVE  (\E r \in Publishers : m \in ToSet(pending'[r])) \/ m = n
    BY DEF Waiting
  <2>1. m \in ToSet(pending'[q]) \/ m = n
    BY <1>3, <1>7
  <2> QED BY <2>1
<1>9. \A s \in Subscribers : /\ subs[s] \in Queues /\ subs'[s] = Offer(subs[s], n)
                             /\ Offer(subs[s], n) \in Queues
  BY <1>1, <1>2, <1>3, StreamTyped, OfferHolds
<1>10. HubTypeOK'
  <2>1. subs' \in [Subscribers -> Queues]
    BY <1>1, <1>9
  <2> QED BY <1>1, <1>2, <1>6, <1>7, <2>1 DEF HubTypeOK, Queues
<1>11. StreamTypes'
  BY <1>1, <1>2, <1>6, <1>10 DEF StreamTypes, LinkType, Messages, PortType
<1>12. InOrder' /\ AnsweredOnce'
  BY <1>1 DEF StreamInv, InOrder, AnsweredOnce, OnlyEvents, Rising
<1>13. FirstConnection'
  <2>1. 1 \in Subscribers
    BY <1>2, StreamTyped
  <2> DEFINE u == subs[1]
             o == Offer(u, n)
  <2>2. subs'[1] = o /\ u \in Queues
    BY <1>9, <2>1
  <2>3. o.on => u.on
    BY <1>3, <2>2, OfferHolds
  <2>4. o.on => \A m \in ToSet(u.queue) : m \in ToSet(o.queue)
    <3>1. o = u \/ o.queue = u.queue \/ o.queue = Append(u.queue, n)
      BY <1>3, <2>2, OfferHolds
    <3>2. ToSet(Append(u.queue, n)) = ToSet(u.queue) \union {n}
      BY <1>3, <2>2, AppendHolds DEF Queues
    <3> QED BY <3>1, <3>2
  <2>5. o.on /\ log[n].mine => n \in ToSet(o.queue)
    <3>1. o.on /\ log[n].mine => o.queue = Append(u.queue, n)
      BY <1>3, <2>2, OfferWanted
    <3>2. n \in ToSet(Append(u.queue, n))
      BY <1>3, <2>2, AppendHolds DEF Queues
    <3> QED BY <3>1, <3>2
  <2> SUFFICES ASSUME port.at = "open", link.no = 1
               PROVE  /\ link.at = "up" /\ port.after <= opened
                      /\ opened < cursor => cursor \in ToSet(posted)
                      /\ o.on => \A m \in DOMAIN log : opened < m /\ log[m].mine => OnItsWay(m)'
    BY <1>1, <2>2 DEF FirstConnection
  <2>6. FirstConnection
    BY DEF StreamInv
  <2> HIDE DEF o, u
  <2>7. ASSUME o.on, NEW m \in DOMAIN log, opened < m, log[m].mine PROVE OnItsWay(m)'
    <3>1. OnItsWay(m)
      BY <2>3, <2>6, <2>7 DEF FirstConnection, u
    <3>2. \/ Waiting(m)' \/ m \in ToSet(o.queue) \/ EventMsg(m) \in ToSet(wire) \/ m <= cursor
      BY <1>8, <2>4, <2>5, <2>7, <3>1 DEF OnItsWay, u
    <3> QED BY <1>1, <2>2, <3>2 DEF OnItsWay
  <2> QED BY <2>6, <2>7 DEF FirstConnection
<1> QED BY <1>11, <1>12, <1>13 DEF StreamInv

(* The steps that leave the hub alone: what of the types is left to show. *)
DesktopTypes ==
    /\ link \in LinkType /\ wire \in Seq(Messages)
    /\ answer \in [type : {"none", "subscribed"}, n : 0..Len(log), gap : BOOLEAN]
    /\ cursor \in 0..Len(log) /\ opened \in 0..Len(log) /\ gapTold \in BOOLEAN
    /\ port \in PortType /\ posted \in Seq(Nat)

LEMMA DesktopTyped ==
    ASSUME StreamTypes
    PROVE  /\ DesktopTypes /\ Len(log) \in Nat /\ link.no \in Subscribers /\ link.no \in Nat
           /\ cursor \in Nat /\ opened \in Nat /\ port.after \in Nat
           /\ posted \in Seq(Nat) /\ port.buffer \in Seq(Nat)
           /\ ToSet(posted) \subseteq Nat /\ ToSet(port.buffer) \subseteq Nat
<1>1. DesktopTypes /\ Len(log) \in Nat /\ link.no \in Subscribers /\ link.no \in Nat
  BY StreamTyped DEF StreamTypes, DesktopTypes
<1>2. cursor \in Nat /\ opened \in Nat /\ port.after \in Nat /\ posted \in Seq(Nat) /\ port.buffer \in Seq(Nat)
  BY <1>1 DEF DesktopTypes, PortType
<1> QED BY <1>1, <1>2, HeldInRange

LEMMA HubAlone ==
    ASSUME StreamTypes, hubVars' = hubVars, DesktopTypes'
    PROVE  StreamTypes' /\ \A n : Waiting(n)' <=> Waiting(n)
  BY DEF StreamTypes, hubVars, HubTypeOK, DesktopTypes, Waiting

LEMMA LatestDurable ==
    ASSUME StreamTypes
    PROVE  LastOf(Durables) \in 0..Len(log)
<1>1. Durables \in SUBSET (1..Len(log)) /\ Len(log) \in Nat
  BY StreamTyped DEF Durables
<1> QED BY <1>1, LastOfBounded

-------------------------------------------------------------------------------
(* The desktop's steps.                                                      *)

LEMMA AttachPortKept == ASSUME StreamInv, AttachPort PROVE StreamInv'
<1>1. /\ port.at = "none" /\ port' = [at |-> "pending", after |-> LastOf(Durables), buffer |-> <<>>]
      /\ hubVars' = hubVars /\ link' = link /\ wire' = wire /\ answer' = answer /\ cursor' = cursor
      /\ posted' = posted /\ gapTold' = gapTold /\ opened' = opened /\ log' = log
  BY DEF AttachPort, hubVars
<1>2. StreamTypes
  BY DEF StreamInv
<1>3. port' \in PortType
  BY <1>1, <1>2, LatestDurable DEF PortType
<1>4. StreamTypes'
  BY <1>1, <1>2, <1>3, HubAlone, DesktopTyped DEF DesktopTypes, LinkType, Messages, PortType
<1>5. InOrder'
  <2>1. port'.buffer = <<>> /\ posted = <<>>
    BY <1>1 DEF StreamInv, InOrder
  <2> QED BY <1>1, <2>1, EmptyHolds, RisingEmpty DEF InOrder, Rising
<1>6. AnsweredOnce' /\ FirstConnection'
  BY <1>1 DEF StreamInv, AnsweredOnce, OnlyEvents, FirstConnection
<1> QED BY <1>4, <1>5, <1>6 DEF StreamInv

LEMMA ConnectKept == ASSUME StreamInv, Connect PROVE StreamInv'
<1>1. /\ link.at = "down" /\ link' = [link EXCEPT !.at = "attached"] /\ cursor' = Larger(cursor, LastOf(Durables))
      /\ hubVars' = hubVars /\ wire' = wire /\ answer' = answer /\ port' = port
      /\ posted' = posted /\ gapTold' = gapTold /\ opened' = opened /\ log' = log
  BY DEF Connect, Noted, hubVars
<1>2. StreamTypes
  BY DEF StreamInv
<1>3. link' \in LinkType /\ link'.at = "attached" /\ link'.no = link.no
  BY <1>1, <1>2 DEF StreamTypes, LinkType
<1>4. cursor' \in 0..Len(log) /\ cursor <= cursor'
  BY <1>1, <1>2, LatestDurable, DesktopTyped DEF Larger, DesktopTypes
<1>5. StreamTypes'
  BY <1>1, <1>2, <1>3, <1>4, HubAlone, DesktopTyped DEF DesktopTypes, LinkType, Messages, PortType
<1>6. InOrder'
  <2>1. \A n \in ToSet(posted) \union ToSet(port.buffer) : n \in Nat /\ n <= cursor
    BY <1>2, DesktopTyped DEF StreamInv, InOrder
  <2>2. \A n \in ToSet(posted) \union ToSet(port.buffer) : n <= cursor'
    BY <1>2, <1>4, <2>1, DesktopTyped
  <2> QED BY <1>1, <2>2 DEF StreamInv, InOrder, Rising
<1>7. AnsweredOnce' /\ FirstConnection'
  BY <1>1, <1>3 DEF StreamInv, AnsweredOnce, OnlyEvents, FirstConnection
<1> QED BY <1>5, <1>6, <1>7 DEF StreamInv

LEMMA ReadLatestKept == ASSUME StreamInv, ReadLatest PROVE StreamInv'
<1>1. /\ link.at = "attached" /\ link' = [link EXCEPT !.at = "asked", !.persisted = LastOf(Durables)]
      /\ hubVars' = hubVars /\ wire' = wire /\ answer' = answer /\ port' = port /\ cursor' = cursor
      /\ posted' = posted /\ gapTold' = gapTold /\ opened' = opened /\ log' = log
  BY DEF ReadLatest, hubVars
<1>2. StreamTypes
  BY DEF StreamInv
<1>3. link' \in LinkType /\ link'.at = "asked" /\ link'.no = link.no
  BY <1>1, <1>2, LatestDurable DEF StreamTypes, LinkType
<1>4. StreamTypes'
  BY <1>1, <1>2, <1>3, HubAlone, DesktopTyped DEF DesktopTypes, LinkType, Messages, PortType
<1>5. InOrder' /\ AnsweredOnce' /\ FirstConnection'
  BY <1>1, <1>3 DEF StreamInv, InOrder, Rising, AnsweredOnce, OnlyEvents, FirstConnection
<1> QED BY <1>4, <1>5 DEF StreamInv

(* The await on daemon.subscribe goes on: what opens a port has the cursor   *)
(* of the store behind it.                                                   *)
LEMMA ContinueKept == ASSUME StreamInv, Continue PROVE StreamInv'
<1>1. /\ answer.type = "subscribed" /\ answer' = NoAnswer /\ cursor' = Larger(cursor, answer.n)
      /\ link' = [link EXCEPT !.at = "up"] /\ wire' = wire /\ hubVars' = hubVars /\ log' = log
      /\ gapTold' = (gapTold \/ answer.gap)
      /\ IF port.at = "pending"
         THEN /\ port' = [port EXCEPT !.at = "open", !.buffer = <<>>]
              /\ posted' = IF answer.gap THEN posted ELSE posted \o port.buffer
              /\ opened' = Len(log)
         ELSE port' = port /\ posted' = posted /\ opened' = opened
  BY DEF Continue, Noted, hubVars
<1>2. StreamTypes /\ InOrder /\ AnsweredOnce /\ FirstConnection
  BY DEF StreamInv
<1>3. link' \in LinkType /\ link'.at = "up" /\ link'.no = link.no
  BY <1>1, <1>2 DEF StreamTypes, LinkType
<1>4. cursor' \in 0..Len(log) /\ cursor <= cursor'
  <2>1. answer.n \in 0..Len(log)
    BY <1>2 DEF StreamTypes
  <2> QED BY <1>1, <1>2, <2>1, DesktopTyped DEF Larger, DesktopTypes
<1>5. /\ answer' \in [type : {"none", "subscribed"}, n : 0..Len(log), gap : BOOLEAN] /\ answer'.type = "none"
      /\ gapTold' \in BOOLEAN
  BY <1>1, <1>2, DesktopTyped DEF NoAnswer, DesktopTypes
<1>6. link.at = "subscribed" /\ OnlyEvents(wire)
  BY <1>1, <1>2 DEF AnsweredOnce
<1>7. AnsweredOnce'
  BY <1>1, <1>3, <1>5, <1>6 DEF AnsweredOnce, OnlyEvents
<1>8. CASE port.at = "pending"
  <2>1. /\ port' = [port EXCEPT !.at = "open", !.buffer = <<>>] /\ opened' = Len(log)
        /\ posted' = <<>> \/ posted' = port.buffer
    <3>1. posted = <<>> /\ port.buffer \in Seq(Nat)
      BY <1>2, <1>8, DesktopTyped DEF InOrder
    <3>2. posted \o port.buffer = port.buffer
      BY <3>1
    <3> QED BY <1>1, <1>8, <3>1, <3>2
  <2>2. port' \in PortType /\ port'.at = "open" /\ port'.buffer = <<>> /\ port'.after = port.after /\ port.after \in 0..Len(log)
    <3>1. port \in PortType /\ <<>> \in Seq(Nat)
      BY <1>2 DEF StreamTypes
    <3> QED BY <2>1, <3>1 DEF PortType
  <2>3. posted' \in Seq(Nat) /\ Rising(posted') /\ ToSet(posted') \subseteq ToSet(port.buffer)
    BY <1>2, <2>1, DesktopTyped, RisingEmpty, EmptyHolds DEF InOrder
  <2>4. opened' \in 0..Len(log) /\ opened' = Len(log) /\ Len(log) \in Nat
    BY <1>2, <2>1, DesktopTyped
  <2>5. StreamTypes'
    BY <1>1, <1>2, <1>3, <1>4, <1>5, <2>2, <2>3, <2>4, HubAlone, DesktopTyped
    DEF DesktopTypes, LinkType, Messages, PortType
  <2>6. InOrder'
    <3>1. \A n \in ToSet(port.buffer) : n \in Nat /\ n <= cursor
      BY <1>2, DesktopTyped DEF InOrder
    <3>2. \A n \in ToSet(posted') \union ToSet(port'.buffer) : n <= cursor'
      BY <1>2, <1>4, <2>2, <2>3, <3>1, EmptyHolds, DesktopTyped
    <3> QED BY <2>2, <2>3, <3>2, RisingEmpty DEF InOrder, Rising
  <2>7. FirstConnection'
    <3>1. ~(opened' < cursor') /\ port'.after <= opened'
      BY <1>4, <2>2, <2>4
    <3>2. \A n \in DOMAIN log : ~(opened' < n)
      BY <1>2, <2>4, StreamTyped
    <3> QED BY <1>1, <1>3, <3>1, <3>2 DEF FirstConnection
  <2> QED BY <1>7, <2>5, <2>6, <2>7 DEF StreamInv
<1>9. CASE port.at # "pending"
  <2>1. port' = port /\ posted' = posted /\ opened' = opened
    BY <1>1, <1>9
  <2>2. StreamTypes'
    BY <1>1, <1>2, <1>3, <1>4, <1>5, <2>1, HubAlone, DesktopTyped DEF DesktopTypes, LinkType, Messages, PortType
  <2>3. InOrder'
    <3>1. \A n \in ToSet(posted) \union ToSet(port.buffer) : n \in Nat /\ n <= cursor
      BY <1>2, DesktopTyped DEF InOrder
    <3>2. \A n \in ToSet(posted) \union ToSet(port.buffer) : n <= cursor'
      BY <1>2, <1>4, <3>1, DesktopTyped
    <3> QED BY <1>2, <2>1, <3>2 DEF InOrder, Rising
  <2>4. FirstConnection'
    BY <1>2, <1>3, <1>6, <2>1 DEF FirstConnection
  <2> QED BY <1>7, <2>2, <2>3, <2>4 DEF StreamInv
<1> QED BY <1>8, <1>9

(* What the head of the wire is, and what stays on it. *)
LEMMA WireHead ==
    ASSUME StreamTypes, wire # <<>>
    PROVE  /\ Head(wire) \in Messages /\ Tail(wire) \in Seq(Messages) /\ Head(wire).n \in 0..Len(log)
           /\ ToSet(wire) = ToSet(Tail(wire)) \union {Head(wire)} /\ Head(wire) \in ToSet(wire)
<1>1. wire \in Seq(Messages)
  BY DEF StreamTypes
<1>2. Head(wire) \in Messages /\ Tail(wire) \in Seq(Messages)
      /\ ToSet(wire) = ToSet(Tail(wire)) \union {Head(wire)}
  BY <1>1, TailHolds
<1> QED BY <1>2 DEF Messages

(* An event that is new moves the cursor up to it, and is posted or buffered *)
(* if it lies behind the cursor of the port.                                 *)
LEMMA HandleEventKept == ASSUME StreamInv, HandleEvent PROVE StreamInv'
<1> DEFINE n == Head(wire).n
           take == n > cursor /\ n > port.after
<1>1. /\ wire # <<>> /\ Head(wire).type = "event" /\ wire' = Tail(wire)
      /\ cursor' = IF n > cursor THEN Larger(cursor, n) ELSE cursor
      /\ posted' = IF take /\ port.at = "open" THEN Append(posted, n) ELSE posted
      /\ port' = IF take /\ port.at = "pending" THEN [port EXCEPT !.buffer = Append(@, n)] ELSE port
      /\ hubVars' = hubVars /\ log' = log /\ subs' = subs /\ link' = link /\ answer' = answer
      /\ gapTold' = gapTold /\ opened' = opened
  BY DEF HandleEvent, IsNew, Noted, hubVars
<1>2. StreamTypes /\ InOrder /\ AnsweredOnce /\ FirstConnection
  BY DEF StreamInv
<1>3. /\ n \in 0..Len(log) /\ n \in Nat /\ Len(log) \in Nat /\ cursor \in 0..Len(log) /\ cursor \in Nat
      /\ port.after \in Nat /\ opened \in Nat /\ wire' \in Seq(Messages)
      /\ ToSet(wire) = ToSet(wire') \union {Head(wire)}
  BY <1>1, <1>2, WireHead, DesktopTyped DEF DesktopTypes
<1>4. \A m : EventMsg(m) = Head(wire) => m = n
  BY DEF EventMsg
<1>5. AnsweredOnce'
  <2>1. answer.type = "none" => link.at # "subscribed"
    BY <1>1, <1>2 DEF AnsweredOnce
  <2>2. answer.type \in {"none", "subscribed"}
    BY <1>2 DEF StreamTypes
  <2>3. OnlyEvents(wire)
    BY <1>2, <2>1, <2>2 DEF AnsweredOnce
  <2>4. OnlyEvents(wire')
    BY <1>3, <2>3 DEF OnlyEvents
  <2> QED BY <1>1, <1>2, <2>1, <2>2, <2>4 DEF AnsweredOnce, OnlyEvents
<1> HIDE DEF n
<1>6. cursor' \in 0..Len(log) /\ cursor <= cursor' /\ (n > cursor => cursor' = n) /\ (~(n > cursor) => cursor' = cursor)
  BY <1>1, <1>3 DEF Larger
<1>7. CASE ~take
  <2>1. posted' = posted /\ port' = port
    BY <1>1, <1>7
  <2>2. StreamTypes'
    BY <1>1, <1>2, <1>3, <1>6, <2>1, HubAlone, DesktopTyped DEF DesktopTypes, LinkType, Messages, PortType
  <2>3. InOrder'
    <3>1. \A m \in ToSet(posted) \union ToSet(port.buffer) : m \in Nat /\ m <= cursor
      BY <1>2, DesktopTyped DEF InOrder
    <3>2. \A m \in ToSet(posted) \union ToSet(port.buffer) : m <= cursor'
      BY <1>3, <1>6, <3>1
    <3> QED BY <1>2, <2>1, <3>2 DEF InOrder, Rising
  <2>4. FirstConnection'
    <3> SUFFICES ASSUME port.at = "open", link.no = 1
                 PROVE  /\ link.at = "up" /\ port.after <= opened
                        /\ opened < cursor' => cursor' \in ToSet(posted)
                        /\ subs[1].on => \A m \in DOMAIN log : opened < m /\ log[m].mine => OnItsWay(m)'
      BY <1>1, <2>1 DEF FirstConnection
    <3>1. link.at = "up" /\ port.after <= opened
      BY <1>2 DEF FirstConnection
    <3>2. opened < cursor' => cursor' = cursor
      BY <1>3, <1>6, <1>7, <3>1
    <3>3. \A m \in DOMAIN log : OnItsWay(m) => OnItsWay(m)'
      <4> SUFFICES ASSUME NEW m \in DOMAIN log, OnItsWay(m) PROVE OnItsWay(m)'
        OBVIOUS
      <4>1. Waiting(m)' <=> Waiting(m)
        BY <1>1 DEF Waiting, hubVars
      <4>2. m \in Nat
        BY <1>2, StreamTyped
      <4>3. EventMsg(m) \in ToSet(wire) => EventMsg(m) \in ToSet(wire') \/ m <= cursor'
        BY <1>3, <1>4, <1>6, <4>2
      <4>4. m <= cursor => m <= cursor'
        BY <1>3, <1>6, <4>2
      <4> QED BY <1>1, <4>1, <4>3, <4>4 DEF OnItsWay
    <3> QED BY <1>2, <3>1, <3>2, <3>3 DEF FirstConnection
  <2> QED BY <1>5, <2>2, <2>3, <2>4 DEF StreamInv
<1>8. CASE take
  <2>1. cursor' = n /\ cursor < n /\ port.after < n
    BY <1>3, <1>6, <1>8
  <2>2. /\ \A m \in ToSet(posted) \union ToSet(port.buffer) : m \in Nat /\ m < n
        /\ posted \in Seq(Nat) /\ port.buffer \in Seq(Nat)
    <3>1. \A m \in ToSet(posted) \union ToSet(port.buffer) : m \in Nat /\ m <= cursor
      BY <1>2, DesktopTyped DEF InOrder
    <3> QED BY <1>2, <1>3, <2>1, <3>1, DesktopTyped
  <2>3. /\ Rising(Append(posted, n)) /\ Append(posted, n) \in Seq(Nat)
        /\ ToSet(Append(posted, n)) = ToSet(posted) \union {n}
    BY <1>2, <1>3, <2>2, RisingAppend, AppendHolds DEF InOrder
  <2>4. /\ Rising(Append(port.buffer, n)) /\ Append(port.buffer, n) \in Seq(Nat)
        /\ ToSet(Append(port.buffer, n)) = ToSet(port.buffer) \union {n}
    <3> DEFINE b == port.buffer
    <3>1. b \in Seq(Nat) /\ \A m \in ToSet(b) : m < n
      BY <2>2
    <3>2. Rising(b)
      BY <1>2 DEF InOrder
    <3> HIDE DEF b
    <3>3. Rising(Append(b, n))
      BY <1>3, <3>1, <3>2, RisingAppend
    <3>4. Append(b, n) \in Seq(Nat) /\ ToSet(Append(b, n)) = ToSet(b) \union {n}
      BY <1>3, <3>1, AppendHolds
    <3> QED BY <3>3, <3>4 DEF b
  <2>5. port \in PortType
    BY <1>2 DEF StreamTypes
  <2>6. /\ port' \in PortType /\ port'.at = port.at /\ port'.after = port.after
        /\ \/ port'.buffer = port.buffer /\ port' = port
           \/ port'.buffer = Append(port.buffer, n) /\ port.at = "pending"
    BY <1>1, <2>4, <2>5 DEF PortType
  <2>7. (posted' = posted /\ port.at # "open") \/ (posted' = Append(posted, n) /\ port.at = "open")
    BY <1>1, <1>8
  <2> HIDE DEF take
  <2>8. StreamTypes'
    <3>1. posted' \in Seq(Nat)
      BY <2>2, <2>3, <2>7
    <3> QED BY <1>1, <1>2, <1>3, <1>6, <2>6, <3>1, HubAlone, DesktopTyped
            DEF DesktopTypes, LinkType, Messages, PortType
  <2>9. InOrder'
    <3>1. Rising(posted') /\ Rising(port'.buffer)
      BY <1>2, <2>3, <2>4, <2>6, <2>7 DEF InOrder
    <3>2. \A m \in ToSet(posted') \union ToSet(port'.buffer) : m <= cursor'
      <4>1. ToSet(posted') \union ToSet(port'.buffer) \subseteq ToSet(posted) \union ToSet(port.buffer) \union {n}
        BY <2>3, <2>4, <2>6, <2>7
      <4>2. \A m \in ToSet(posted) \union ToSet(port.buffer) \union {n} : m <= n
        BY <1>3, <2>2
      <4> QED BY <2>1, <4>1, <4>2
    <3>3. (port'.at # "open" => posted' = <<>>) /\ (port'.at # "pending" => port'.buffer = <<>>)
      BY <1>2, <2>6, <2>7 DEF InOrder
    <3> QED BY <3>1, <3>2, <3>3 DEF InOrder, Rising
  <2>10. FirstConnection'
    <3> SUFFICES ASSUME port.at = "open", link.no = 1
                 PROVE  /\ link.at = "up" /\ port.after <= opened
                        /\ opened < cursor' => cursor' \in ToSet(posted')
                        /\ subs[1].on => \A m \in DOMAIN log : opened < m /\ log[m].mine => OnItsWay(m)'
      BY <1>1, <2>6 DEF FirstConnection
    <3>1. link.at = "up" /\ port.after <= opened
      BY <1>2 DEF FirstConnection
    <3>2. cursor' \in ToSet(posted')
      BY <2>1, <2>3, <2>7
    <3>3. \A m \in DOMAIN log : OnItsWay(m) => OnItsWay(m)'
      <4> SUFFICES ASSUME NEW m \in DOMAIN log, OnItsWay(m) PROVE OnItsWay(m)'
        OBVIOUS
      <4>1. Waiting(m)' <=> Waiting(m)
        BY <1>1 DEF Waiting, hubVars
      <4>2. m \in Nat
        BY <1>2, StreamTyped
      <4>3. EventMsg(m) \in ToSet(wire) => EventMsg(m) \in ToSet(wire') \/ m <= cursor'
        BY <1>3, <1>4, <2>1, <4>2
      <4>4. m <= cursor => m <= cursor'
        BY <1>3, <1>6, <4>2
      <4> QED BY <1>1, <4>1, <4>3, <4>4 DEF OnItsWay
    <3> QED BY <1>2, <3>1, <3>2, <3>3 DEF FirstConnection
  <2> QED BY <1>5, <2>8, <2>9, <2>10 DEF StreamInv
<1> QED BY <1>7, <1>8

LEMMA HandleAnswerKept == ASSUME StreamInv, HandleAnswer PROVE StreamInv'
<1>1. /\ wire # <<>> /\ Head(wire).type = "subscribed" /\ wire' = Tail(wire) /\ answer' = Head(wire)
      /\ hubVars' = hubVars /\ log' = log /\ link' = link /\ cursor' = cursor
      /\ port' = port /\ posted' = posted /\ gapTold' = gapTold /\ opened' = opened /\ subs' = subs
  BY DEF HandleAnswer, hubVars
<1>2. StreamTypes /\ InOrder /\ AnsweredOnce /\ FirstConnection
  BY DEF StreamInv
<1>3. wire' \in Seq(Messages) /\ Head(wire) \in Messages /\ Head(wire) \in ToSet(wire)
  BY <1>1, <1>2, WireHead
<1>4. ~OnlyEvents(wire)
  BY <1>1, <1>3 DEF OnlyEvents
<1>5. link.at = "subscribed" /\ OnlyEvents(wire')
  <2>1. answer.type \in {"none", "subscribed"}
    BY <1>2 DEF StreamTypes
  <2> QED BY <1>1, <1>2, <1>4, <2>1 DEF AnsweredOnce
<1>6. StreamTypes'
  <2>1. answer' \in [type : {"none", "subscribed"}, n : 0..Len(log), gap : BOOLEAN]
    BY <1>1, <1>3 DEF Messages
  <2> QED BY <1>1, <1>2, <1>3, <2>1, HubAlone, DesktopTyped DEF DesktopTypes, LinkType, Messages, PortType
<1>7. InOrder' /\ AnsweredOnce'
  BY <1>1, <1>2, <1>5 DEF InOrder, Rising, AnsweredOnce, OnlyEvents
<1>8. FirstConnection'
  BY <1>1, <1>2, <1>5 DEF FirstConnection
<1> QED BY <1>6, <1>7, <1>8 DEF StreamInv

-------------------------------------------------------------------------------
(* The steps that change one subscription.                                   *)

LEMMA SubsAlone ==
    ASSUME StreamTypes, log' = log, pending' = pending, hub' = hub,
           subs' \in [Subscribers -> Queues], DesktopTypes'
    PROVE  StreamTypes' /\ \A n : Waiting(n)' <=> Waiting(n)
  BY DEF StreamTypes, HubTypeOK, DesktopTypes, Waiting, Queues

LEMMA UnsubscribeTyped ==
    ASSUME subs \in [Subscribers -> Queues], NEW s \in Subscribers, Unsubscribe(s)
    PROVE  subs' \in [Subscribers -> Queues]
<1> DEFINE gone == [subs[s] EXCEPT !.on = FALSE, !.queue = <<>>]
<1>1. gone \in Queues
  <2>1. subs[s] \in Queues /\ <<>> \in Seq(DOMAIN log)
    OBVIOUS
  <2> QED BY <2>1 DEF Queues
<1>2. subs' = [subs EXCEPT ![s] = gone]
  BY DEF Unsubscribe, Queues
<1> HIDE DEF gone
<1> QED BY <1>1, <1>2

(* A connection that ended leaves the first one for good. *)
LEMMA TerminatedKept == ASSUME StreamInv, Terminated PROVE StreamInv'
<1>1. /\ link.no <= MaxLosses /\ link' = [no |-> link.no + 1, at |-> "down", persisted |-> 0]
      /\ wire' = <<>> /\ answer' = NoAnswer /\ Unsubscribe(link.no)
      /\ port' = IF port.at = "pending" THEN [port EXCEPT !.at = "none", !.buffer = <<>>] ELSE port
      /\ log' = log /\ pending' = pending /\ hub' = hub /\ cursor' = cursor
      /\ posted' = posted /\ gapTold' = gapTold /\ opened' = opened
  BY DEF Terminated
<1>2. StreamTypes /\ InOrder
  BY DEF StreamInv
<1>3. subs' \in [Subscribers -> Queues]
  BY <1>1, <1>2, StreamTyped, UnsubscribeTyped
<1>4. link.no \in Nat /\ link.no >= 1 /\ link.no + 1 \in Subscribers /\ Len(log) \in Nat
  BY <1>1, <1>2, StreamTyped, StreamAssumption
<1>5. link' \in LinkType /\ link'.at = "down" /\ link'.no # 1
  BY <1>1, <1>4 DEF LinkType
<1>6. /\ (port' \in PortType /\ port'.buffer = <<>>) \/ port' = port
      /\ port'.at = "open" => port.at = "open"
      /\ port'.at # "pending" /\ port'.buffer = <<>>
  <2>1. port \in PortType /\ <<>> \in Seq(Nat) /\ (port.at # "pending" => port.buffer = <<>>)
    BY <1>2 DEF StreamTypes, InOrder
  <2> QED BY <1>1, <2>1 DEF PortType
<1>7. port' \in PortType
  BY <1>2, <1>6 DEF StreamTypes
<1>8. wire' \in Seq(Messages) /\ OnlyEvents(wire')
  BY <1>1, EmptyHolds DEF OnlyEvents
<1>9. answer' \in [type : {"none", "subscribed"}, n : 0..Len(log), gap : BOOLEAN] /\ answer'.type = "none"
  BY <1>1, <1>4 DEF NoAnswer
<1>10. StreamTypes'
  BY <1>1, <1>2, <1>3, <1>5, <1>7, <1>8, <1>9, SubsAlone, DesktopTyped
  DEF DesktopTypes, LinkType, Messages, PortType
<1>11. InOrder'
  <2>1. port'.at # "open" => posted = <<>>
    BY <1>1, <1>2, <1>6 DEF InOrder
  <2>2. \A n \in ToSet(posted) \union ToSet(port'.buffer) : n <= cursor
    BY <1>2, <1>6, EmptyHolds DEF InOrder
  <2> QED BY <1>1, <1>2, <1>6, <2>1, <2>2, RisingEmpty DEF InOrder, Rising
<1>12. AnsweredOnce' /\ FirstConnection'
  BY <1>5, <1>8, <1>9 DEF AnsweredOnce, OnlyEvents, FirstConnection
<1> QED BY <1>10, <1>11, <1>12 DEF StreamInv

(* The answer is put before what the backlog replays. *)
LEMMA SubscribeStreamKept == ASSUME StreamInv, SubscribeStream PROVE StreamInv'
<1> DEFINE gap == After # 0 /\ HasGap(link.persisted, After)
           replay == IF After = 0 \/ gap \/ After = Latest(link.persisted) THEN <<>>
                     ELSE EventsAfter(After, FALSE)
           n == IF gap THEN link.persisted ELSE Latest(link.persisted)
           first == [type |-> "subscribed", n |-> n, gap |-> gap]
           rest == [i \in DOMAIN replay |-> EventMsg(replay[i])]
<1>1. /\ link.at = "asked" /\ Subscribe(link.no, FALSE) /\ wire' = <<first>> \o rest
      /\ link' = [link EXCEPT !.at = "subscribed"]
      /\ log' = log /\ pending' = pending /\ hub' = hub /\ answer' = answer /\ cursor' = cursor
      /\ port' = port /\ posted' = posted /\ gapTold' = gapTold /\ opened' = opened
  BY DEF SubscribeStream
<1>2. StreamTypes /\ HubTypeOK /\ InOrder /\ AnsweredOnce /\ FirstConnection
  BY DEF StreamInv, StreamTypes
<1>3. /\ Len(log) \in Nat /\ DOMAIN log = 1..Len(log) /\ DOMAIN log \subseteq 0..Len(log)
      /\ link.persisted \in 0..Len(log) /\ hub.latest \in 0..Len(log) /\ After \in Nat
  BY <1>2, StreamTyped, DesktopTyped DEF StreamTypes, LinkType, After
<1>4. gap \in BOOLEAN /\ n \in 0..Len(log)
  BY <1>3 DEF Latest, Larger
<1>5. replay \in Seq(DOMAIN log)
  <2>1. EventsAfter(After, FALSE) \in Seq(DOMAIN log)
    BY <1>2, <1>3, ReplayTyped
  <2>2. <<>> \in Seq(DOMAIN log)
    OBVIOUS
  <2> HIDE DEF gap
  <2> QED BY <2>1, <2>2
<1> HIDE DEF gap, replay, n
<1>6. rest \in Seq(Messages) /\ OnlyEvents(rest)
  <2>1. Len(replay) \in Nat /\ DOMAIN replay = 1..Len(replay) /\ \A i \in 1..Len(replay) : replay[i] \in 0..Len(log)
    BY <1>3, <1>5
  <2>2. \A m \in 0..Len(log) : EventMsg(m) \in Messages /\ EventMsg(m).type = "event"
    BY DEF EventMsg, Messages
  <2>3. \A i \in 1..Len(replay) : EventMsg(replay[i]) \in Messages /\ EventMsg(replay[i]).type = "event"
    BY <2>1, <2>2
  <2> QED BY <2>1, <2>3 DEF OnlyEvents, ToSet
<1>7. first \in Messages /\ first.type = "subscribed"
  BY <1>4 DEF Messages
<1> HIDE DEF first, rest
<1>8. wire' \in Seq(Messages) /\ wire' # <<>> /\ Head(wire') = first /\ Tail(wire') = rest
  <2>1. <<first>> \in Seq(Messages) /\ <<first>> # <<>> /\ Head(<<first>>) = first /\ Tail(<<first>>) = <<>>
    BY <1>7
  <2>2. /\ <<first>> \o rest \in Seq(Messages) /\ <<first>> \o rest # <<>>
        /\ Head(<<first>> \o rest) = first /\ Tail(<<first>> \o rest) = <<>> \o rest
    BY <1>6, <2>1, ConcatProperties
  <2> QED BY <1>1, <1>6, <2>2
<1>9. link' \in LinkType /\ link'.at = "subscribed" /\ link'.no = link.no
  BY <1>1, <1>2 DEF StreamTypes, LinkType
<1>10. subs' \in [Subscribers -> Queues]
  <2>1. [NoSubscription EXCEPT !.on = TRUE, !.all = FALSE] \in Queues
    <3>1. <<>> \in Seq(DOMAIN log)
      OBVIOUS
    <3> QED BY <3>1 DEF NoSubscription, Queues
  <2> QED BY <1>1, <1>2, <2>1, StreamTyped DEF Subscribe
<1>11. StreamTypes'
  BY <1>1, <1>2, <1>8, <1>9, <1>10, SubsAlone, DesktopTyped DEF DesktopTypes, LinkType, Messages, PortType
<1>12. InOrder'
  BY <1>1, <1>2 DEF InOrder, Rising
<1>13. AnsweredOnce'
  <2>1. answer.type = "none"
    BY <1>1, <1>2 DEF StreamTypes, AnsweredOnce
  <2> QED BY <1>1, <1>6, <1>7, <1>8, <1>9, <2>1 DEF AnsweredOnce, OnlyEvents
<1>14. FirstConnection'
  BY <1>1, <1>2, <1>9 DEF FirstConnection
<1> QED BY <1>11, <1>12, <1>13, <1>14 DEF StreamInv

(* What the forwarder sends goes behind what is on the wire. *)
LEMMA ForwardEventKept == ASSUME StreamInv, ForwardEvent PROVE StreamInv'
<1> DEFINE k == link.no
           q == subs[k].queue
           e == EventMsg(Head(q))
<1>1. /\ q # <<>> /\ wire' = Append(wire, e) /\ subs' = [subs EXCEPT ![k].queue = Tail(@)]
      /\ log' = log /\ pending' = pending /\ hub' = hub /\ link' = link /\ answer' = answer /\ cursor' = cursor
      /\ port' = port /\ posted' = posted /\ gapTold' = gapTold /\ opened' = opened
  BY DEF ForwardEvent
<1>2. StreamTypes /\ InOrder /\ AnsweredOnce /\ FirstConnection
  BY DEF StreamInv
<1>3. /\ Len(log) \in Nat /\ DOMAIN log = 1..Len(log) /\ DOMAIN log \subseteq 0..Len(log)
      /\ subs \in [Subscribers -> Queues] /\ k \in Subscribers /\ subs[k] \in Queues
      /\ wire \in Seq(Messages)
  BY <1>2, StreamTyped DEF StreamTypes
<1>4. q \in Seq(DOMAIN log)
  BY <1>3 DEF Queues
<1>5. Head(q) \in DOMAIN log /\ Tail(q) \in Seq(DOMAIN log) /\ ToSet(q) = ToSet(Tail(q)) \union {Head(q)}
  BY <1>1, <1>4, TailHolds
<1>6. e \in Messages /\ e.type = "event"
  BY <1>3, <1>5 DEF EventMsg, Messages
<1>7. /\ subs' \in [Subscribers -> Queues] /\ subs'[k].queue = Tail(q) /\ subs'[k].on = subs[k].on
      /\ \A s \in Subscribers : s # k => subs'[s] = subs[s]
  <2> DEFINE less == [subs[k] EXCEPT !.queue = Tail(q)]
  <2>1. less \in Queues /\ less.queue = Tail(q) /\ less.on = subs[k].on
    <3> DEFINE t == Tail(q)
    <3>1. t \in Seq(DOMAIN log) /\ less = [subs[k] EXCEPT !.queue = t]
      BY <1>5
    <3> HIDE DEF t, less
    <3> QED BY <1>3, <3>1 DEF Queues, t
  <2>2. subs' = [subs EXCEPT ![k] = less]
    BY <1>1
  <2> HIDE DEF less
  <2> QED BY <1>3, <2>1, <2>2
<1> HIDE DEF e
<1>8. wire' \in Seq(Messages) /\ ToSet(wire') = ToSet(wire) \union {e}
  BY <1>1, <1>3, <1>6, AppendHolds
<1>9. StreamTypes' /\ \A n : Waiting(n)' <=> Waiting(n)
  BY <1>1, <1>2, <1>7, <1>8, SubsAlone, DesktopTyped DEF DesktopTypes, LinkType, Messages, PortType
<1>10. InOrder'
  BY <1>1, <1>2 DEF InOrder, Rising
<1>11. AnsweredOnce'
  <2>1. OnlyEvents(wire) => OnlyEvents(wire')
    BY <1>6, <1>8 DEF OnlyEvents
  <2>2. ASSUME wire # <<>>, OnlyEvents(Tail(wire))
        PROVE  wire' # <<>> /\ Head(wire') = Head(wire) /\ OnlyEvents(Tail(wire'))
    <3>1. wire' # <<>> /\ Head(wire') = Head(wire) /\ Tail(wire') = Append(Tail(wire), e)
      BY <1>1, <1>3, <1>6, <2>2
    <3>2. ToSet(Append(Tail(wire), e)) = ToSet(Tail(wire)) \union {e}
      <4> DEFINE t == Tail(wire)
      <4>1. t \in Seq(Messages)
        BY <1>3, <2>2, TailHolds
      <4> HIDE DEF t
      <4>2. ToSet(Append(t, e)) = ToSet(t) \union {e}
        BY <1>6, <4>1, AppendHolds
      <4> QED BY <4>2 DEF t
    <3> QED BY <1>6, <2>2, <3>1, <3>2 DEF OnlyEvents
  <2> QED BY <1>1, <1>2, <2>1, <2>2 DEF AnsweredOnce, OnlyEvents
<1>12. FirstConnection'
  <2> SUFFICES ASSUME port.at = "open", link.no = 1
               PROVE  /\ link.at = "up" /\ port.after <= opened
                      /\ opened < cursor => cursor \in ToSet(posted)
                      /\ subs'[1].on => \A m \in DOMAIN log : opened < m /\ log[m].mine => OnItsWay(m)'
    BY <1>1 DEF FirstConnection
  <2>1. \A m \in DOMAIN log : OnItsWay(m) => OnItsWay(m)'
    <3> SUFFICES ASSUME NEW m \in DOMAIN log, OnItsWay(m) PROVE OnItsWay(m)'
      OBVIOUS
    <3>1. m \in ToSet(subs[1].queue) => m \in ToSet(subs'[1].queue) \/ EventMsg(m) \in ToSet(wire')
      BY <1>5, <1>7, <1>8 DEF e
    <3> QED BY <1>1, <1>8, <1>9, <3>1 DEF OnItsWay
  <2> QED BY <1>2, <1>7, <2>1 DEF FirstConnection
<1> QED BY <1>9, <1>10, <1>11, <1>12 DEF StreamInv

-------------------------------------------------------------------------------
(* The invariant holds at first and is kept.                                 *)

LEMMA StreamStarts == StreamInit => StreamInv
<1> SUFFICES ASSUME StreamInit PROVE StreamInv
  OBVIOUS
<1>1. /\ log = <<>> /\ pending = [p \in Publishers |-> <<>>] /\ hub = [latest |-> 0, backlog |-> <<>>, required |-> 0]
      /\ subs = [s \in Subscribers |-> NoSubscription]
      /\ link = [no |-> 1, at |-> "down", persisted |-> 0] /\ wire = <<>> /\ answer = NoAnswer /\ cursor = 0
      /\ port = [at |-> "none", after |-> 0, buffer |-> <<>>] /\ posted = <<>> /\ gapTold = FALSE /\ opened = 0
  BY DEF StreamInit, HubInit
<1>2. /\ log \in Seq(Events) /\ Len(log) = 0 /\ DOMAIN log = {} /\ 0 \in 0..Len(log) /\ 1 \in Subscribers
      /\ <<>> \in Seq(DOMAIN log) /\ <<>> \in Seq(Nat) /\ <<>> \in Seq(Messages)
  BY <1>1, StreamAssumption
<1>3. HubTypeOK
  <2>1. subs \in [Subscribers -> [on : BOOLEAN, queue : Seq(DOMAIN log), overflowed : BOOLEAN, all : BOOLEAN]]
    BY <1>1, <1>2 DEF NoSubscription
  <2>2. hub \in [latest : Nat, backlog : Seq(DOMAIN log), required : Nat]
    BY <1>1, <1>2
  <2> QED BY <1>1, <1>2, <2>1, <2>2 DEF HubTypeOK
<1>4. link \in LinkType /\ answer \in [type : {"none", "subscribed"}, n : 0..Len(log), gap : BOOLEAN] /\ port \in PortType
  BY <1>1, <1>2 DEF LinkType, NoAnswer, PortType
<1>5. StreamTypes
  <2>1. hub.latest <= Len(log) /\ cursor \in 0..Len(log) /\ opened \in 0..Len(log) /\ gapTold \in BOOLEAN
        /\ posted \in Seq(Nat) /\ wire \in Seq(Messages)
    <3>1. hub.latest = 0 /\ cursor = 0 /\ opened = 0 /\ gapTold = FALSE /\ posted = <<>> /\ wire = <<>>
      BY <1>1
    <3>2. hub.latest <= Len(log)
      BY <1>2, <3>1
    <3>3. cursor \in 0..Len(log) /\ opened \in 0..Len(log) /\ gapTold \in BOOLEAN
      BY <1>2, <3>1
    <3>4. posted \in Seq(Nat)
      BY <3>1
    <3>5. wire \in Seq(Messages)
      BY <3>1
    <3> QED BY <3>2, <3>3, <3>4, <3>5
  <2> QED BY <1>3, <1>4, <2>1 DEF StreamTypes
<1>6. InOrder
  BY <1>1, EmptyHolds, RisingEmpty DEF InOrder
<1>7. AnsweredOnce /\ FirstConnection
  BY <1>1, EmptyHolds DEF AnsweredOnce, OnlyEvents, FirstConnection, NoAnswer
<1> QED BY <1>5, <1>6, <1>7 DEF StreamInv

LEMMA StreamStep == StreamInv /\ [StreamNext]_streamVars => StreamInv'
<1> SUFFICES ASSUME StreamInv, [StreamNext]_streamVars PROVE StreamInv'
  OBVIOUS
<1>1. CASE \E p \in Publishers : SessionPublishes(p)
  BY <1>1, SessionPublishesKept
<1>2. CASE \E p \in Publishers : \E e \in Events : SessionCommits(p, e)
  BY <1>2, SessionCommitsKept
<1>3. CASE AttachPort
  BY <1>3, AttachPortKept
<1>4. CASE Connect
  BY <1>4, ConnectKept
<1>5. CASE Continue
  BY <1>5, ContinueKept
<1>6. CASE HandleEvent
  BY <1>6, HandleEventKept
<1>7. CASE HandleAnswer
  BY <1>7, HandleAnswerKept
<1>8. CASE Lose \/ CloseOverflowed
  BY <1>8, TerminatedKept DEF Lose, CloseOverflowed
<1>9. CASE ReadLatest
  BY <1>9, ReadLatestKept
<1>10. CASE SubscribeStream
  BY <1>10, SubscribeStreamKept
<1>11. CASE ForwardEvent
  BY <1>11, ForwardEventKept
<1>12. CASE UNCHANGED streamVars
  BY <1>12 DEF streamVars, hubVars, desktopVars, StreamInv, StreamTypes, HubTypeOK, LinkType, PortType,
     Messages, InOrder, Rising, AnsweredOnce, OnlyEvents, FirstConnection, OnItsWay, Waiting
<1> QED BY <1>1, <1>2, <1>3, <1>4, <1>5, <1>6, <1>7, <1>8, <1>9, <1>10, <1>11, <1>12 DEF StreamNext

(* With nothing under way, an event behind the opening is behind the cursor, *)
(* and the cursor is the last event posted.                                  *)
LEMMA StreamSound == StreamInv => PortSound
<1> SUFFICES ASSUME StreamInv PROVE PortSound
  OBVIOUS
<1>1. StreamTypes /\ InOrder /\ FirstConnection
  BY DEF StreamInv
<1>2. PostedInOrder
  BY <1>1 DEF InOrder, Rising, PostedInOrder
<1>3. MissesOnlyOvertaken
  <2> SUFFICES ASSUME Quiet, link.no = 1, NEW n \in Durables, n > opened, log[n].mine,
                      \A m \in ToSet(posted) : m < n
               PROVE  FALSE
    BY DEF MissesOnlyOvertaken, Missed
  <2>1. /\ port.at = "open" /\ wire = <<>> /\ subs[1].on /\ subs[1].queue = <<>>
        /\ \A p \in Publishers : pending[p] = <<>>
    BY DEF Quiet
  <2>2. n \in DOMAIN log /\ n \in Nat /\ opened \in Nat /\ cursor \in Nat /\ opened < n
    BY <1>1, StreamTyped, DesktopTyped DEF Durables
  <2>3. OnItsWay(n) /\ (opened < cursor => cursor \in ToSet(posted))
    BY <1>1, <2>1, <2>2 DEF FirstConnection
  <2>4. n <= cursor
    BY <2>1, <2>3, EmptyHolds DEF OnItsWay, Waiting
  <2>5. cursor \in ToSet(posted)
    BY <2>2, <2>3, <2>4
  <2> QED BY <2>2, <2>4, <2>5
<1> QED BY <1>2, <1>3 DEF PortSound

(* What the renderer has of the stream of a session is in order, without     *)
(* repeats, and on a connection that never broke misses a durable event only *)
(* if a later one overtook it: for every size of the backlog and the queues, *)
(* any number of publishers, events and lost connections                     *)
(* (session-stream-connection.ts and the daemon's subscribe handler).        *)
THEOREM PortIsSound == StreamSpec => []PortSound
<1>1. StreamInit => StreamInv
  BY StreamStarts
<1>2. StreamInv /\ [StreamNext]_streamVars => StreamInv'
  BY StreamStep
<1>3. StreamInv => PortSound
  BY StreamSound
<1> QED BY <1>1, <1>2, <1>3, PTL DEF StreamSpec
=============================================================================
