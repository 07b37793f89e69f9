------------------------------ MODULE StoreProofs ------------------------------
(* What the store keeps for every set of sessions and runs, every bound on    *)
(* approvals and sequence numbers, and through every crash and rollback.      *)
EXTENDS Store, FiniteSetTheorems, WellFoundedInduction, TLAPS

Payload == [kind : Kinds \union Transient, item : Nat]
RunStatus == Active \union Ended

(* What is committed in one transaction: one payload, or what happened to an *)
(* approval and the new status of its run.                                   *)
OneEvent(b, p) ==
    /\ p \in Payload
    /\ b = <<p>>
    /\ p.kind \in {"run", "turnStarted", "turnCompleted", "delta"} /\ p.item = 0
ApprovalStep(b, p) ==
    /\ p \in Payload
    /\ b = <<p, P("run", 0)>>
    /\ p.kind \in {"requested", "resolved"} /\ p.item \in Approvals

(* Every durable event lies below some number, and below the next one while  *)
(* the daemon has the store open.                                            *)
Bounded == \E n \in Nat : \A e \in events : e.seq < n
NumbersAhead == daemon \in {"opened", "up"} => \A e \in events : e.seq < nextSeq

JournalInv ==
    /\ StoreTypeOK
    /\ owed \in [Runs -> {"none", "promoted", "quarantined"}]
    /\ Bounded
    /\ NumbersAhead

-------------------------------------------------------------------------------
(* Natural numbers: a set of them that is not empty has a least element, and *)
(* a greatest one if it is bounded.                                          *)
LEMMA LeastNatural ==
    ASSUME NEW S \in SUBSET Nat, S # {}
    PROVE  \E n \in S : \A m \in S : n <= m
<1> DEFINE R == OpToRel(<, Nat)
<1>1. IsWellFoundedOn(R, Nat)
  BY NatLessThanWellFounded, Zenon
<1>2. \A x, y \in Nat : x < y => <<x, y>> \in R
  BY DEF OpToRel
<1> HIDE DEF R
<1>3. PICK n \in S : \A m \in S : ~(<<m, n>> \in R)
  BY <1>1, WFMin
<1>4. \A m \in S : ~(m < n)
  BY <1>2, <1>3
<1>5. \A m \in S : n <= m
  BY <1>4
<1> QED BY <1>5

LEMMA GreatestNatural ==
    ASSUME NEW S \in SUBSET Nat, S # {},
           NEW b \in Nat, \A n \in S : n < b
    PROVE  \E n \in S : \A m \in S : m <= n
<1> DEFINE B == { x \in Nat : \A n \in S : n < x }
<1>1. PICK x \in B : \A y \in B : x <= y
  BY LeastNatural
<1>2. x \in Nat /\ x # 0 /\ \A n \in S : n < x
  <2>1. x \in Nat /\ \A n \in S : n < x
    OBVIOUS
  <2>2. PICK s \in S : TRUE
    OBVIOUS
  <2> QED BY <2>1, <2>2
<1>3. x - 1 \notin B
  BY <1>1, <1>2
<1>4. PICK n \in S : ~(n < x - 1)
  BY <1>2, <1>3
<1>5. n = x - 1
  BY <1>2, <1>4
<1>6. \A m \in S : m <= n
  BY <1>2, <1>5
<1> QED BY <1>6

-------------------------------------------------------------------------------
(* What callers commit for a run is well formed.                             *)
LEMMA BatchShape ==
    ASSUME NEW r \in Runs, NEW t \in Transitions(r)
    PROVE  /\ t[1] \in RunStatus
           /\ \E p \in Payload : OneEvent(t[2], p) \/ ApprovalStep(t[2], p)
<1> USE DEF RunStatus, Active, Ended
<1> DEFINE Shaped(b) == \E p \in Payload : OneEvent(b, p) \/ ApprovalStep(b, p)
<1>1. ASSUME NEW k \in {"run", "turnStarted", "turnCompleted", "delta"}
      PROVE  Shaped(<<P(k, 0)>>)
  <2>1. P(k, 0) \in Payload
    BY DEF P, Payload, Kinds, Transient
  <2>2. OneEvent(<<P(k, 0)>>, P(k, 0))
    BY <2>1 DEF OneEvent, P
  <2> QED BY <2>1, <2>2
<1>2. ASSUME NEW k \in {"requested", "resolved"}, NEW a \in Approvals
      PROVE  Shaped(<<P(k, a), P("run", 0)>>)
  <2>1. P(k, a) \in Payload
    BY StoreAssumption DEF P, Payload, Kinds, Transient, Approvals
  <2>2. ApprovalStep(<<P(k, a), P("run", 0)>>, P(k, a))
    BY <2>1 DEF ApprovalStep, P
  <2> QED BY <2>1, <2>2
<1> SUFFICES t[1] \in RunStatus /\ Shaped(t[2])
  OBVIOUS
<1> HIDE DEF Shaped
<1>3. CASE runs[r] = "none"
  <2>1. t \in {"queued", "running"} \X {<<P("run", 0)>>}
    BY <1>3 DEF Transitions
  <2>2. t[1] \in {"queued", "running"} /\ t[2] = <<P("run", 0)>>
    BY <2>1
  <2> QED BY <1>1, <2>2
<1>4. CASE runs[r] = "queued"
  <2>1. t \in {"running", "cancelled"} \X {<<P("run", 0)>>}
    BY <1>4 DEF Transitions
  <2>2. t[1] \in {"running", "cancelled"} /\ t[2] = <<P("run", 0)>>
    BY <2>1
  <2> QED BY <1>1, <2>2
<1>5. CASE runs[r] = "running"
  <2>1. \/ t \in {"running"} \X {<<P("turnStarted", 0)>>, <<P("delta", 0)>>, <<P("turnCompleted", 0)>>}
        \/ t \in Ended \X {<<P("run", 0)>>}
        \/ t \in {"waitingForApproval"} \X { <<P("requested", a), P("run", 0)>> : a \in Approvals }
    BY <1>5 DEF Transitions
  <2>2. /\ t[1] \in RunStatus
        /\ \/ t[2] \in {<<P("turnStarted", 0)>>, <<P("delta", 0)>>, <<P("turnCompleted", 0)>>}
           \/ t[2] = <<P("run", 0)>>
           \/ t[2] \in { <<P("requested", a), P("run", 0)>> : a \in Approvals }
    BY <2>1
  <2> QED BY <1>1, <1>2, <2>2
<1>6. CASE runs[r] = "waitingForApproval"
  <2>1. t \in {"running", "failed", "cancelled"} \X { <<P("resolved", a), P("run", 0)>> : a \in Approvals }
    BY <1>6 DEF Transitions
  <2>2. t[1] \in RunStatus /\ t[2] \in { <<P("resolved", a), P("run", 0)>> : a \in Approvals }
    BY <2>1
  <2> QED BY <1>2, <2>2
<1>7. runs[r] \in {"none", "queued", "running", "waitingForApproval"}
  BY DEF Transitions
<1> QED BY <1>3, <1>4, <1>5, <1>6, <1>7

(* The rows of a batch are those of its payloads that last.                  *)
LEMMA RowsOfOne ==
    ASSUME NEW r \in Runs, NEW p \in Payload, nextSeq \in Nat
    PROVE  RowsOf(r, <<p>>) =
             IF p.kind = "delta" THEN {} ELSE {Row(nextSeq, SessionOf[r], r, p)}
<1>1. Len(<<p>>) = 1 /\ <<p>>[1] = p /\ 1..1 = {1}
  OBVIOUS
<1>2. p.kind \in Transient <=> p.kind = "delta"
  BY DEF Transient
<1>3. nextSeq + 1 - 1 = nextSeq
  OBVIOUS
<1>4. \A e : e \in RowsOf(r, <<p>>) <=> p.kind # "delta" /\ e = Row(nextSeq, SessionOf[r], r, p)
  BY <1>1, <1>2, <1>3, Zenon DEF RowsOf
<1> QED BY <1>4

LEMMA RowsOfTwo ==
    ASSUME NEW r \in Runs, NEW p \in Payload, p.kind # "delta", nextSeq \in Nat
    PROVE  RowsOf(r, <<p, P("run", 0)>>) =
             {Row(nextSeq, SessionOf[r], r, p), Row(nextSeq + 1, SessionOf[r], r, P("run", 0))}
<1> DEFINE b == <<p, P("run", 0)>>
<1>1. Len(b) = 2 /\ b[1] = p /\ b[2] = P("run", 0) /\ 1..2 = {1, 2}
  OBVIOUS
<1>2. p.kind \notin Transient /\ P("run", 0).kind \notin Transient
  BY DEF Transient, P
<1>3. nextSeq + 1 - 1 = nextSeq /\ nextSeq + 2 - 1 = nextSeq + 1
  OBVIOUS
<1> HIDE DEF b
<1>4. \A e : e \in RowsOf(r, b) <=> \/ e = Row(nextSeq, SessionOf[r], r, p)
                                   \/ e = Row(nextSeq + 1, SessionOf[r], r, P("run", 0))
  BY <1>1, <1>2, <1>3, Zenon DEF RowsOf
<1> QED BY <1>4 DEF b

-------------------------------------------------------------------------------
(* The rows of a reconciliation are numbered by their place in its order.    *)

Rank(x) == Cardinality({ y \in Reconciliations : Precedes(y, x) })

(* A payload of the reconciliation is the failure of a run, the end of an    *)
(* approval that was pending, or the note of the restart.                    *)
LEMMA ReconciliationShape ==
    ASSUME NEW x \in Reconciliations
    PROVE  /\ x.run \in Orphans /\ x.run \in Runs /\ x \in Reconciling(x.run)
           /\ x = [run |-> x.run, p |-> P(x.p.kind, x.p.item)]
           /\ \/ x.p.kind \in {"run", "reconciled"} /\ x.p.item = 0
              \/ x.p.kind = "resolved" /\ x.p.item \in Pending(x.run)
<1>1. PICK r \in Orphans : x \in Reconciling(r)
  BY DEF Reconciliations
<1>2. \/ x = [run |-> r, p |-> P("run", 0)]
      \/ x = [run |-> r, p |-> P("reconciled", 0)]
      \/ \E a \in Pending(r) : x = [run |-> r, p |-> P("resolved", a)]
  BY <1>1 DEF Reconciling, ResolvedAtBoot
<1>3. r \in Runs
  BY DEF Orphans
<1> QED BY <1>1, <1>2, <1>3 DEF P

LEMMA ReconciliationNumbers ==
    ASSUME NEW x \in Reconciliations
    PROVE  x.run \in Nat /\ x.p.item \in Nat /\ x.p.kind \in {"run", "resolved", "reconciled"}
  BY ReconciliationShape, StoreAssumption DEF Pending, Approvals

LEMMA PrecedesOrder ==
    /\ \A x \in Reconciliations : ~Precedes(x, x)
    /\ \A x, y, z \in Reconciliations : Precedes(x, y) /\ Precedes(y, z) => Precedes(x, z)
    /\ \A x, y \in Reconciliations : x = y \/ Precedes(x, y) \/ Precedes(y, x)
<1>1. \A x \in Reconciliations : ~Precedes(x, x)
  BY ReconciliationNumbers DEF Precedes, Phase
<1>2. ASSUME NEW x \in Reconciliations, NEW y \in Reconciliations, NEW z \in Reconciliations,
             Precedes(x, y), Precedes(y, z)
      PROVE  Precedes(x, z)
  BY <1>2, ReconciliationNumbers DEF Precedes, Phase
<1>3. ASSUME NEW x \in Reconciliations, NEW y \in Reconciliations,
             ~Precedes(x, y), ~Precedes(y, x)
      PROVE  x = y
  <2>1. x.run = y.run /\ x.p.kind = y.p.kind /\ x.p.item = y.p.item
    BY <1>3, ReconciliationNumbers, ReconciliationShape DEF Precedes, Phase
  <2> QED BY <2>1, ReconciliationShape
<1> QED BY <1>1, <1>2, <1>3

LEMMA ReconciliationsFinite == IsFiniteSet(Reconciliations)
<1>1. ASSUME NEW r \in Runs
      PROVE  IsFiniteSet(Reconciling(r))
  <2> DEFINE A == ResolvedAtBoot(r)
             T == { [run |-> r, p |-> P("resolved", a)] : a \in A }
             f == [a \in A |-> [run |-> r, p |-> P("resolved", a)]]
  <2>1. IsFiniteSet(A)
    <3>1. IsFiniteSet(Approvals)
      BY FS_Interval, StoreAssumption DEF Approvals
    <3>2. A \in SUBSET Approvals
      BY DEF ResolvedAtBoot, Pending
    <3> QED BY <3>1, <3>2, FS_Subset
  <2>2. f \in Surjection(A, T)
    BY DEF Surjection
  <2>3. IsFiniteSet(T)
    BY <2>1, <2>2, FS_Surjection
  <2> DEFINE x == [run |-> r, p |-> P("run", 0)]
             y == [run |-> r, p |-> P("reconciled", 0)]
  <2>4. Reconciling(r) = {x} \union {y} \union T
    BY DEF Reconciling
  <2> HIDE DEF T, x, y
  <2>5. IsFiniteSet({x} \union {y})
    BY FS_Union, FS_Singleton
  <2> QED BY <2>3, <2>4, <2>5, FS_Union
<1>2. IsFiniteSet(Orphans)
  BY FS_Subset, StoreAssumption DEF Orphans
<1> DEFINE R == { Reconciling(r) : r \in Orphans }
           g == [r \in Orphans |-> Reconciling(r)]
<1>3. g \in Surjection(Orphans, R)
  BY DEF Surjection
<1>4. IsFiniteSet(R)
  BY <1>2, <1>3, FS_Surjection
<1>5. \A S \in R : IsFiniteSet(S)
  BY <1>1 DEF Orphans
<1> QED BY <1>4, <1>5, FS_UNION DEF Reconciliations

LEMMA RankOrder ==
    /\ Cardinality(Reconciliations) \in Nat
    /\ \A x \in Reconciliations : Rank(x) \in Nat /\ Rank(x) < Cardinality(Reconciliations)
    /\ \A x, z \in Reconciliations : Precedes(x, z) => Rank(x) < Rank(z)
    /\ \A x, z \in Reconciliations : Rank(x) = Rank(z) => x = z
<1> DEFINE Before(x) == { y \in Reconciliations : Precedes(y, x) }
<1>1. Cardinality(Reconciliations) \in Nat
  BY ReconciliationsFinite, FS_CardinalityType
<1>2. ASSUME NEW x \in Reconciliations
      PROVE  /\ IsFiniteSet(Before(x)) /\ Cardinality(Before(x)) \in Nat
             /\ Cardinality(Before(x)) < Cardinality(Reconciliations)
  <2>1. Before(x) \in SUBSET Reconciliations /\ x \notin Before(x)
    BY PrecedesOrder
  <2>2. Before(x) # Reconciliations
    BY <2>1
  <2> HIDE DEF Before
  <2>3. IsFiniteSet(Before(x)) /\ Cardinality(Before(x)) <= Cardinality(Reconciliations)
        /\ (Cardinality(Reconciliations) = Cardinality(Before(x)) => Reconciliations = Before(x))
    BY <2>1, ReconciliationsFinite, FS_Subset
  <2>4. Cardinality(Before(x)) \in Nat
    BY <2>3, FS_CardinalityType
  <2> QED BY <1>1, <2>2, <2>3, <2>4
<1>3. ASSUME NEW x \in Reconciliations, NEW z \in Reconciliations, Precedes(x, z)
      PROVE  Cardinality(Before(x)) < Cardinality(Before(z))
  <2>1. Before(x) \in SUBSET Before(z)
    BY <1>3, PrecedesOrder
  <2>2. x \in Before(z) /\ x \notin Before(x)
    BY <1>3, PrecedesOrder
  <2> HIDE DEF Before
  <2>3. Cardinality(Before(x)) <= Cardinality(Before(z))
        /\ (Cardinality(Before(z)) = Cardinality(Before(x)) => Before(z) = Before(x))
    BY <1>2, <2>1, FS_Subset
  <2> QED BY <1>2, <2>2, <2>3
<1>4. \A x \in Reconciliations : Rank(x) = Cardinality(Before(x))
  BY DEF Rank
<1> HIDE DEF Before
<1>5. \A x \in Reconciliations : Rank(x) \in Nat /\ Rank(x) < Cardinality(Reconciliations)
  BY <1>2, <1>4
<1>6. \A x, z \in Reconciliations : Precedes(x, z) => Rank(x) < Rank(z)
  BY <1>3, <1>4
<1>7. \A x, z \in Reconciliations : Rank(x) = Rank(z) => x = z
  BY <1>5, <1>6, PrecedesOrder
<1> QED BY <1>1, <1>5, <1>6, <1>7

-------------------------------------------------------------------------------
(* Every commit appends rows that are numbered from nextSeq on, no two alike. *)

Appends(N) ==
    /\ events' = events \union N
    /\ N \subseteq Record
    /\ nextSeq' \in Nat /\ nextSeq <= nextSeq'
    /\ \A e \in N : nextSeq <= e.seq /\ e.seq < nextSeq'
    /\ \A d, e \in N : d.seq = e.seq => d = e

LEMMA RowIsRecord ==
    ASSUME NEW n \in Nat, NEW s \in Sessions, NEW r \in Runs \union {0},
           NEW p, p.kind \in Kinds, p.item \in Nat
    PROVE  Row(n, s, r, p) \in Record /\ Row(n, s, r, p).seq = n
  BY DEF Row, Record

LEMMA SessionOpenAppends ==
    ASSUME JournalInv, NEW s \in Sessions, CommitSessionOpen(s)
    PROVE  Appends({Row(nextSeq, s, 0, P("session", 0))})
<1>1. nextSeq \in Nat
  BY DEF JournalInv, StoreTypeOK
<1>2. /\ Row(nextSeq, s, 0, P("session", 0)) \in Record
      /\ Row(nextSeq, s, 0, P("session", 0)).seq = nextSeq
  <2>1. P("session", 0).kind \in Kinds /\ P("session", 0).item \in Nat
    BY DEF P, Kinds
  <2> QED BY <1>1, <2>1, RowIsRecord
<1> QED BY <1>1, <1>2 DEF CommitSessionOpen, Appends

LEMMA AppendRowAppends ==
    ASSUME JournalInv, NEW r \in Runs, NEW k \in Kinds, AppendRow(r, k)
    PROVE  Appends({Row(nextSeq, SessionOf[r], r, P(k, 0))})
<1>1. nextSeq \in Nat /\ SessionOf[r] \in Sessions
  BY StoreAssumption DEF JournalInv, StoreTypeOK
<1>2. /\ Row(nextSeq, SessionOf[r], r, P(k, 0)) \in Record
      /\ Row(nextSeq, SessionOf[r], r, P(k, 0)).seq = nextSeq
  BY <1>1, RowIsRecord DEF P
<1> QED BY <1>1, <1>2 DEF AppendRow, Appends

LEMMA RunTransitionAppends ==
    ASSUME JournalInv, NEW r \in Runs, NEW t \in Transitions(r),
           CommitRunTransition(r, t[1], t[2])
    PROVE  Appends(RowsOf(r, t[2]))
<1>1. nextSeq \in Nat /\ SessionOf[r] \in Sessions
  BY StoreAssumption DEF JournalInv, StoreTypeOK
<1>2. events' = events \union RowsOf(r, t[2]) /\ nextSeq' = nextSeq + Len(t[2])
  BY DEF CommitRunTransition
<1>3. PICK p \in Payload : OneEvent(t[2], p) \/ ApprovalStep(t[2], p)
  BY BatchShape
<1> DEFINE e == Row(nextSeq, SessionOf[r], r, p)
           f == Row(nextSeq + 1, SessionOf[r], r, P("run", 0))
<1>4. p.kind # "delta" => e \in Record /\ e.seq = nextSeq
  <2>1. p.item \in Nat /\ (p.kind # "delta" => p.kind \in Kinds)
    BY DEF Payload, Transient
  <2> QED BY <1>1, <2>1, RowIsRecord
<1>5. f \in Record /\ f.seq = nextSeq + 1
  <2>1. nextSeq + 1 \in Nat /\ P("run", 0).kind \in Kinds /\ P("run", 0).item \in Nat
    BY <1>1 DEF P, Kinds
  <2> QED BY <1>1, <2>1, RowIsRecord
<1>6. CASE OneEvent(t[2], p)
  <2>1. Len(t[2]) = 1
    BY <1>6 DEF OneEvent
  <2>2. RowsOf(r, t[2]) = IF p.kind = "delta" THEN {} ELSE {e}
    BY <1>1, <1>6, RowsOfOne DEF OneEvent
  <2> HIDE DEF e
  <2> QED BY <1>1, <1>2, <1>4, <2>1, <2>2 DEF Appends
<1>7. CASE ApprovalStep(t[2], p)
  <2>1. Len(t[2]) = 2 /\ p.kind # "delta"
    BY <1>7 DEF ApprovalStep
  <2>2. RowsOf(r, t[2]) = {e, f}
    BY <1>1, <1>7, <2>1, RowsOfTwo DEF ApprovalStep
  <2> HIDE DEF e, f
  <2>3. e \in Record /\ e.seq = nextSeq
    BY <1>4, <2>1
  <2> QED BY <1>1, <1>2, <1>5, <2>1, <2>2, <2>3 DEF Appends
<1> QED BY <1>3, <1>6, <1>7

LEMMA ReconciliationAppends ==
    ASSUME JournalInv, CommitStartupReconciliation
    PROVE  Appends({ RowAtBoot(x) : x \in Reconciliations })
<1> DEFINE N == { RowAtBoot(x) : x \in Reconciliations }
<1>1. nextSeq \in Nat
  BY DEF JournalInv, StoreTypeOK
<1>2. ASSUME NEW x \in Reconciliations
      PROVE  RowAtBoot(x) \in Record /\ RowAtBoot(x).seq = nextSeq + Rank(x)
  <2>1. RowAtBoot(x) = Row(nextSeq + Rank(x), SessionOf[x.run], x.run, x.p)
    BY DEF RowAtBoot, Rank
  <2>2. nextSeq + Rank(x) \in Nat
    BY <1>1, RankOrder
  <2>3. x.run \in Runs /\ SessionOf[x.run] \in Sessions
    BY ReconciliationShape, StoreAssumption
  <2>4. x.p.kind \in Kinds /\ x.p.item \in Nat
    BY ReconciliationNumbers DEF Kinds
  <2> HIDE DEF Rank
  <2> QED BY <2>1, <2>2, <2>3, <2>4, RowIsRecord
<1>3. nextSeq' = nextSeq + Cardinality(Reconciliations) /\ events' = events \union N
  BY DEF CommitStartupReconciliation
<1>4. nextSeq' \in Nat /\ nextSeq <= nextSeq'
  BY <1>1, <1>3, RankOrder
<1>5. \A e \in N : e \in Record /\ nextSeq <= e.seq /\ e.seq < nextSeq'
  BY <1>1, <1>2, <1>3, RankOrder
<1>6. ASSUME NEW x \in Reconciliations, NEW y \in Reconciliations,
             RowAtBoot(x).seq = RowAtBoot(y).seq
      PROVE  RowAtBoot(x) = RowAtBoot(y)
  <2>1. Rank(x) = Rank(y)
    BY <1>1, <1>2, <1>6, RankOrder
  <2> QED BY <2>1, RankOrder
<1> QED BY <1>3, <1>4, <1>5, <1>6 DEF Appends

(* The next number of a store that is opened lies behind every durable event. *)
LEMMA NextSequenceAhead ==
    ASSUME events \subseteq Record, Bounded
    PROVE  NextSequence \in Nat /\ \A e \in events : e.seq < NextSequence
<1>1. CASE events = {}
  BY <1>1 DEF NextSequence
<1>2. CASE events # {}
  <2> DEFINE S == { e.seq : e \in events }
  <2>1. S \in SUBSET Nat /\ S # {}
    BY <1>2 DEF Record
  <2>2. PICK n \in Nat : \A e \in events : e.seq < n
    BY DEF Bounded
  <2>3. \A m \in S : m < n
    BY <2>2
  <2>4. \E x \in S : \A m \in S : m <= x
    BY <2>1, <2>3, GreatestNatural
  <2>5. \E e \in events : \A f \in events : f.seq <= e.seq
    BY <2>4
  <2> DEFINE last == CHOOSE e \in events : \A f \in events : f.seq <= e.seq
  <2>6. last \in events /\ \A f \in events : f.seq <= last.seq
    BY <2>5
  <2>7. NextSequence = last.seq + 1
    BY <1>2 DEF NextSequence
  <2>8. \A f \in events : f.seq \in Nat
    BY DEF Record
  <2> HIDE DEF last
  <2> QED BY <2>6, <2>7, <2>8
<1> QED BY <1>1, <1>2

(* What a commit appends lies behind all that was recorded before it.        *)
LEMMA AppendsExtends ==
    ASSUME JournalInv, daemon \in {"opened", "up"}, NEW N, Appends(N)
    PROVE  /\ events' \subseteq Record /\ nextSeq' \in Nat
           /\ Bounded' /\ NumbersAhead'
           /\ JournalImplemented!Extend
<1>1. events \subseteq Record /\ nextSeq \in Nat /\ \A e \in events : e.seq < nextSeq
  BY DEF JournalInv, StoreTypeOK, NumbersAhead
<1>2. events' = events \union N /\ N \subseteq Record /\ nextSeq' \in Nat /\ nextSeq <= nextSeq'
      /\ (\A e \in N : nextSeq <= e.seq /\ e.seq < nextSeq')
      /\ (\A d, e \in N : d.seq = e.seq => d = e)
  BY DEF Appends
<1>3. \A e \in Record : e.seq \in Nat
  BY DEF Record
<1>4. \A e \in events' : e.seq < nextSeq'
  BY <1>1, <1>2, <1>3
<1>5. \A old \in events, new \in events' \ events : old.seq < new.seq
  <2>1. ASSUME NEW old \in events, NEW new \in N
        PROVE  old.seq < new.seq
    BY <1>1, <1>2, <1>3
  <2> QED BY <1>2, <2>1
<1>6. \A a, b \in events' \ events : a.seq = b.seq => a = b
  BY <1>2
<1>7. JournalImplemented!Extend
  BY <1>1, <1>2, <1>5, <1>6 DEF JournalImplemented!Extend
<1> QED BY <1>1, <1>2, <1>4, <1>7 DEF Bounded, NumbersAhead

LEMMA StatusTyped ==
    ASSUME NEW S
    PROVE  SessionStatus(S) \in {"idle", "running", "failed", "completed"}
  BY DEF SessionStatus

LEMMA JournalInvInit == StoreInit => JournalInv
<1> SUFFICES ASSUME StoreInit PROVE JournalInv
  OBVIOUS
<1>1. StoreTypeOK
  BY DEF StoreInit, StoreTypeOK
<1>2. Bounded /\ NumbersAhead
  BY DEF StoreInit, Bounded, NumbersAhead
<1> QED BY <1>1, <1>2 DEF StoreInit, JournalInv

(* One step: the invariant is kept and the journal is extended or left alone. *)
LEMMA JournalStep ==
    ASSUME JournalInv, [StoreNext]_storeVars
    PROVE  JournalInv' /\ [JournalImplemented!Extend]_events
<1> USE DEF JournalInv
<1> DEFINE Owes == {"none", "promoted", "quarantined"}
           SessionStates == {"none", "idle", "running", "failed", "completed"}
<1>0. /\ sessions \in [Sessions -> SessionStates]
      /\ runs \in [Runs -> RunStatus \union {"none"}]
      /\ startedAt \in [Runs -> Nat] /\ events \subseteq Record /\ nextSeq \in Nat
      /\ daemon \in {"down", "refused", "opened", "up"}
      /\ SessionOf \in [Runs -> Sessions] /\ owed \in [Runs -> Owes]
  BY StoreAssumption DEF StoreTypeOK, RunStatus
<1>1. ASSUME NEW s \in Sessions, CommitSessionOpen(s)
      PROVE  JournalInv' /\ [JournalImplemented!Extend]_events
  <2>1. Appends({Row(nextSeq, s, 0, P("session", 0))}) /\ daemon = "up"
    BY <1>1, SessionOpenAppends DEF CommitSessionOpen
  <2>2. events' \subseteq Record /\ nextSeq' \in Nat /\ Bounded' /\ NumbersAhead'
        /\ JournalImplemented!Extend
    BY <2>1, AppendsExtends
  <2>3. sessions' \in [Sessions -> SessionStates]
        /\ UNCHANGED <<runs, startedAt, daemon, owed>>
    BY <1>0, <1>1 DEF CommitSessionOpen
  <2> QED BY <1>0, <2>2, <2>3 DEF StoreTypeOK, RunStatus
<1>2. ASSUME NEW r \in Runs, NEW t \in Transitions(r), CommitRunTransition(r, t[1], t[2])
      PROVE  JournalInv' /\ [JournalImplemented!Extend]_events
  <2>1. Appends(RowsOf(r, t[2])) /\ daemon = "up"
    BY <1>2, RunTransitionAppends DEF CommitRunTransition, TransitionValid
  <2>2. events' \subseteq Record /\ nextSeq' \in Nat /\ Bounded' /\ NumbersAhead'
        /\ JournalImplemented!Extend
    BY <2>1, AppendsExtends
  <2>3. StartTime(r, t[1]) \in Nat
    <3>1. (nextSeq + 1) \div 2 \in Nat /\ startedAt[r] \in Nat
      BY <1>0
    <3> QED BY <3>1 DEF StartTime, Now
  <2>4. startedAt' \in [Runs -> Nat]
    BY <1>0, <1>2, <2>3 DEF CommitRunTransition
  <2>5. runs' \in [Runs -> RunStatus \union {"none"}]
    BY <1>0, <1>2, BatchShape DEF CommitRunTransition
  <2>6. sessions' \in [Sessions -> SessionStates]
    BY <1>0, <1>2, StatusTyped DEF CommitRunTransition
  <2>7. UNCHANGED <<owed, daemon>>
    BY <1>2 DEF CommitRunTransition
  <2> QED BY <1>0, <2>2, <2>4, <2>5, <2>6, <2>7 DEF StoreTypeOK, RunStatus
<1>3. ASSUME NEW r \in Runs, NEW t \in Transitions(r), RollsBack(r, t[2])
      PROVE  JournalInv' /\ [JournalImplemented!Extend]_events
  BY <1>3 DEF RollsBack, tables, StoreTypeOK, Bounded, NumbersAhead
<1>4. ASSUME NEW r \in Runs, CommitArtifactPublish(r)
      PROVE  JournalInv' /\ [JournalImplemented!Extend]_events
  <2>1. daemon = "up" /\ AppendRow(r, "artifact") /\ UNCHANGED <<sessions, runs, startedAt, owed, daemon>>
    BY <1>4 DEF CommitArtifactPublish
  <2>2. Appends({Row(nextSeq, SessionOf[r], r, P("artifact", 0))})
    BY <2>1, AppendRowAppends DEF Kinds
  <2>3. events' \subseteq Record /\ nextSeq' \in Nat /\ Bounded' /\ NumbersAhead'
        /\ JournalImplemented!Extend
    BY <2>1, <2>2, AppendsExtends
  <2> QED BY <2>1, <2>3 DEF StoreTypeOK
<1>5. ASSUME NEW r \in Runs, CommitReceiptEvent(r)
      PROVE  JournalInv' /\ [JournalImplemented!Extend]_events
  <2>1. daemon = "up" /\ AppendRow(r, owed[r]) /\ UNCHANGED <<sessions, runs, startedAt, daemon>>
        /\ owed' \in [Runs -> Owes]
    BY <1>0, <1>5 DEF CommitReceiptEvent
  <2>2. owed[r] \in Kinds
    BY <1>0, <1>5 DEF CommitReceiptEvent, Kinds
  <2>3. Appends({Row(nextSeq, SessionOf[r], r, P(owed[r], 0))})
    BY <2>1, <2>2, AppendRowAppends
  <2>4. events' \subseteq Record /\ nextSeq' \in Nat /\ Bounded' /\ NumbersAhead'
        /\ JournalImplemented!Extend
    BY <2>1, <2>3, AppendsExtends
  <2> QED BY <2>1, <2>4 DEF StoreTypeOK
<1>6. ASSUME NEW r \in Runs, NEW to \in {"promoted", "quarantined"}, CompletionReceipt(r, to)
      PROVE  JournalInv' /\ [JournalImplemented!Extend]_events
  <2>1. owed' \in [Runs -> Owes]
        /\ UNCHANGED <<sessions, runs, startedAt, events, nextSeq, daemon>>
    BY <1>0, <1>6 DEF CompletionReceipt
  <2> QED BY <2>1 DEF StoreTypeOK, Bounded, NumbersAhead
<1>7. ASSUME NEW r \in Runs, NEW to \in {"promoted", "quarantined"}, TransitionReceipt(r, to)
      PROVE  JournalInv' /\ [JournalImplemented!Extend]_events
  <2>1. daemon = "up" /\ AppendRow(r, to) /\ UNCHANGED <<sessions, runs, startedAt, owed, daemon>>
    BY <1>7 DEF TransitionReceipt
  <2>2. Appends({Row(nextSeq, SessionOf[r], r, P(to, 0))})
    BY <2>1, AppendRowAppends DEF Kinds
  <2>3. events' \subseteq Record /\ nextSeq' \in Nat /\ Bounded' /\ NumbersAhead'
        /\ JournalImplemented!Extend
    BY <2>1, <2>2, AppendsExtends
  <2> QED BY <2>1, <2>3 DEF StoreTypeOK
<1>8. ASSUME NEW r \in Runs, NEW to \in {"promoted", "quarantined"}, ReceiptUnreported(r, to)
      PROVE  JournalInv' /\ [JournalImplemented!Extend]_events
  BY <1>8 DEF ReceiptUnreported, StoreTypeOK, Bounded, NumbersAhead
<1>9. CASE DaemonCrash
  <2>1. owed' \in [Runs -> Owes] /\ nextSeq' \in Nat /\ daemon' = "down" /\ UNCHANGED tables
    BY <1>9 DEF DaemonCrash
  <2> QED BY <1>0, <2>1 DEF tables, StoreTypeOK, Bounded, NumbersAhead
<1>10. CASE OpenStore
  <2>1. nextSeq' = NextSequence /\ daemon' = "opened"
        /\ UNCHANGED <<sessions, runs, startedAt, events, owed>>
    BY <1>10 DEF OpenStore
  <2>2. NextSequence \in Nat /\ \A e \in events : e.seq < NextSequence
    BY <1>0, NextSequenceAhead
  <2> QED BY <1>0, <2>1, <2>2 DEF StoreTypeOK, Bounded, NumbersAhead
<1>11. CASE OpenRefused
  BY <1>0, <1>11 DEF OpenRefused, tables, StoreTypeOK, Bounded, NumbersAhead
<1>12. CASE CommitStartupReconciliation
  <2>1. Appends({ RowAtBoot(x) : x \in Reconciliations }) /\ daemon = "opened" /\ daemon' = "up"
    BY <1>12, ReconciliationAppends DEF CommitStartupReconciliation
  <2>2. events' \subseteq Record /\ nextSeq' \in Nat /\ Bounded' /\ NumbersAhead'
        /\ JournalImplemented!Extend
    BY <2>1, AppendsExtends
  <2>3. runs' \in [Runs -> RunStatus \union {"none"}]
    BY <1>0, <1>12 DEF CommitStartupReconciliation, RunStatus, Ended
  <2>4. sessions' \in [Sessions -> SessionStates]
    BY <1>0, <1>12, StatusTyped DEF CommitStartupReconciliation
  <2>5. UNCHANGED <<startedAt, owed>>
    BY <1>12 DEF CommitStartupReconciliation
  <2> QED BY <1>0, <2>1, <2>2, <2>3, <2>4, <2>5 DEF StoreTypeOK, RunStatus
<1>13. CASE UNCHANGED storeVars
  BY <1>13 DEF storeVars, tables, StoreTypeOK, Bounded, NumbersAhead
<1> QED BY <1>1, <1>2, <1>3, <1>4, <1>5, <1>6, <1>7, <1>8, <1>9, <1>10, <1>11, <1>12, <1>13
        DEF StoreNext

(* The tables of the store and its next sequence number have their types in  *)
(* every behaviour, and durable events stay below the next number.           *)
THEOREM StoreTyped == StoreSpec => []StoreTypeOK
<1>1. JournalInv => StoreTypeOK
  BY DEF JournalInv
<1> QED BY JournalInvInit, JournalStep, <1>1, PTL DEF StoreSpec

(* The store implements the journal: through rollbacks, transient events,    *)
(* crashes and reconciliations each durable event is recorded behind all     *)
(* earlier ones, under a number of its own, and none is ever lost.           *)
THEOREM StoreImplementsJournal == StoreSpec => ImplementsJournal
<1>1. StoreInit => events = {}
  BY DEF StoreInit
<1>2. StoreSpec => [][JournalImplemented!Extend]_events
  BY JournalInvInit, JournalStep, PTL DEF StoreSpec
<1> QED BY <1>1, <1>2, PTL DEF StoreSpec, ImplementsJournal, JournalImplemented!JournalSpec

-------------------------------------------------------------------------------
(* The tables and the journal.  Commit rows span events of the journal, and  *)
(* a session that was not opened has no runs.                                *)

CommitsSpan ==
    \A c \in commits : /\ c.first \in Nat /\ c.last \in Nat /\ c.first <= c.last
                       /\ \E e \in events : e.seq = c.last
NoRunsUnopened ==
    \A s \in Sessions : sessions[s] = "none" => \A r \in Runs : SessionOf[r] = s => runs[r] = "none"

TablesInv ==
    /\ JournalInv
    /\ JournalFolds
    /\ TablesAgree
    /\ CommitsSpan
    /\ NoRunsUnopened

(* A commit row spans exactly its rows.                                      *)
LEMMA CommitOfSpan ==
    ASSUME NEW s, NEW rows \in SUBSET Record, rows # {},
           NEW n \in Nat, \A e \in rows : e.seq < n
    PROVE  /\ CommitOf(s, rows).session = s
           /\ \E e \in rows : CommitOf(s, rows).first = e.seq
           /\ \E e \in rows : CommitOf(s, rows).last = e.seq
           /\ \A e \in rows : CommitOf(s, rows).first <= e.seq /\ e.seq <= CommitOf(s, rows).last
<1> DEFINE S == { e.seq : e \in rows }
           a == CHOOSE e \in rows : \A f \in rows : e.seq <= f.seq
           b == CHOOSE e \in rows : \A f \in rows : f.seq <= e.seq
<1>1. S \in SUBSET Nat /\ S # {} /\ \A m \in S : m < n
  BY DEF Record
<1>2. PICK x \in S : \A m \in S : x <= m
  BY <1>1, LeastNatural
<1>3. PICK y \in S : \A m \in S : m <= y
  BY <1>1, GreatestNatural
<1>4. a \in rows /\ \A f \in rows : a.seq <= f.seq
  BY <1>2
<1>5. b \in rows /\ \A f \in rows : f.seq <= b.seq
  BY <1>3
<1>6. CommitOf(s, rows) = [session |-> s, first |-> a.seq, last |-> b.seq]
  BY DEF CommitOf
<1> HIDE DEF a, b
<1> QED BY <1>4, <1>5, <1>6

(* The journal is folded further: what is appended starts no approval twice  *)
(* and ends only those that are pending.                                     *)
LEMMA FoldsKept ==
    ASSUME TablesInv, daemon \in {"opened", "up"}, NEW N, Appends(N),
           \A e \in N : /\ e.kind = "requested" => Lookup(e.run, e.item) = "notFound"
                        /\ e.kind = "resolved" => Lookup(e.run, e.item) = "pending",
           \A d, e \in N : d.run = e.run /\ d.kind = e.kind /\ d.item = e.item
                             /\ d.kind \in {"requested", "resolved"} => d = e
    PROVE  JournalFolds'
<1>1. events' = events \union N /\ N \subseteq Record /\ events \subseteq Record
      /\ nextSeq \in Nat /\ (\A e \in events : e.seq < nextSeq)
      /\ (\A e \in N : nextSeq <= e.seq)
  BY DEF TablesInv, JournalInv, StoreTypeOK, NumbersAhead, Appends
<1>2. \A e \in Record : e.seq \in Nat
  BY DEF Record
<1>3. ASSUME NEW e \in N, e.kind = "requested", NEW d \in events
      PROVE  ~(d.run = e.run /\ d.kind = e.kind /\ d.item = e.item)
  BY <1>3 DEF Lookup, Has
<1>4. ASSUME NEW e \in N, e.kind = "resolved"
      PROVE  /\ \A d \in events : ~(d.run = e.run /\ d.kind = e.kind /\ d.item = e.item)
             /\ \E d \in events : d.run = e.run /\ d.kind = "requested" /\ d.item = e.item
  BY <1>4 DEF Lookup, Has
<1>5. ASSUME NEW d \in events', NEW e \in events',
             d.run = e.run, d.kind = e.kind, d.item = e.item, d.kind \in {"requested", "resolved"}
      PROVE  d = e
  <2>1. CASE d \in events /\ e \in events
    BY <1>5, <2>1 DEF TablesInv, JournalFolds
  <2>2. CASE d \in N /\ e \in N
    BY <1>5, <2>2
  <2>3. CASE d \in events /\ e \in N
    BY <1>3, <1>4, <1>5, <2>3
  <2>4. CASE d \in N /\ e \in events
    BY <1>3, <1>4, <1>5, <2>4
  <2> QED BY <1>1, <2>1, <2>2, <2>3, <2>4
<1>6. ASSUME NEW e \in events', e.kind = "resolved"
      PROVE  \E d \in events' : d.run = e.run /\ d.kind = "requested" /\ d.item = e.item /\ d.seq < e.seq
  <2>1. CASE e \in events
    BY <1>1, <1>6, <2>1 DEF TablesInv, JournalFolds
  <2>2. CASE e \in N
    <3>1. PICK d \in events : d.run = e.run /\ d.kind = "requested" /\ d.item = e.item
      BY <1>4, <1>6, <2>2
    <3>2. d.seq < e.seq
      BY <1>1, <1>2, <2>2
    <3> QED BY <1>1, <3>1, <3>2
  <2> QED BY <1>1, <2>1, <2>2
<1> QED BY <1>5, <1>6 DEF JournalFolds

(* The commit rows C span the events of N, each within one, and overlap nowhere. *)
Tiles(C, N) ==
    /\ \A c \in C : /\ c.first \in Nat /\ c.last \in Nat /\ c.first <= c.last
                    /\ \E e \in N : c.first = e.seq
                    /\ \E e \in N : c.last = e.seq
    /\ \A e \in N : \E c \in C : c.session = e.session /\ c.first <= e.seq /\ e.seq <= c.last
    /\ \A c, d \in C : c # d => c.last < d.first \/ d.last < c.first

(* Commit rows go on tiling the journal.                                     *)
LEMMA TilesKept ==
    ASSUME TablesInv, daemon \in {"opened", "up"}, NEW N, Appends(N),
           NEW C, commits' = commits \union C, Tiles(C, N)
    PROVE  CommitsTile' /\ CommitsSpan'
<1>1. events' = events \union N /\ N \subseteq Record /\ events \subseteq Record
      /\ nextSeq \in Nat /\ (\A e \in events : e.seq < nextSeq)
      /\ (\A e \in N : nextSeq <= e.seq)
  BY DEF TablesInv, JournalInv, StoreTypeOK, NumbersAhead, Appends
<1>2. \A e \in Record : e.seq \in Nat
  BY DEF Record
<1>3. \A c \in commits : /\ c.first \in Nat /\ c.last \in Nat /\ c.first <= c.last
                         /\ c.last < nextSeq /\ \E e \in events : e.seq = c.last
  BY <1>1 DEF TablesInv, CommitsSpan
<1>4. \A c \in C : nextSeq <= c.first
  BY <1>1 DEF Tiles
<1>5. \A e \in events' : \E c \in commits' : c.session = e.session /\ c.first <= e.seq /\ e.seq <= c.last
  BY <1>1 DEF Tiles, TablesInv, TablesAgree, CommitsTile
<1>6. ASSUME NEW c \in commits, NEW d \in C
      PROVE  c.last < d.first
  BY <1>1, <1>3, <1>4 DEF Tiles
<1>7. ASSUME NEW c \in commits', NEW d \in commits', c # d
      PROVE  c.last < d.first \/ d.last < c.first
  <2>1. CASE c \in commits /\ d \in commits
    BY <1>7, <2>1 DEF TablesInv, TablesAgree, CommitsTile
  <2>2. CASE c \in C /\ d \in C
    BY <1>7, <2>2 DEF Tiles
  <2> QED BY <1>6, <2>1, <2>2
<1>8. CommitsSpan'
  BY <1>1, <1>3 DEF CommitsSpan, Tiles
<1> QED BY <1>5, <1>7, <1>8 DEF CommitsTile

(* One commit row over the rows of one session.                              *)
LEMMA OneTileKept ==
    ASSUME TablesInv, daemon \in {"opened", "up"}, NEW N, N # {}, Appends(N),
           NEW s, \A e \in N : e.session = s, commits' = commits \union {CommitOf(s, N)}
    PROVE  CommitsTile' /\ CommitsSpan'
<1>1. N \in SUBSET Record /\ nextSeq' \in Nat /\ \A e \in N : e.seq < nextSeq'
  BY DEF Appends
<1> DEFINE c == CommitOf(s, N)
<1>2. /\ c.session = s
      /\ \E e \in N : c.first = e.seq
      /\ \E e \in N : c.last = e.seq
      /\ \A e \in N : c.first <= e.seq /\ e.seq <= c.last
  BY <1>1, CommitOfSpan
<1>3. c.first \in Nat /\ c.last \in Nat /\ c.first <= c.last
  BY <1>1, <1>2 DEF Record
<1> HIDE DEF c
<1>4. commits' = commits \union {c}
  BY DEF c
<1>5. Tiles({c}, N)
  BY <1>2, <1>3 DEF Tiles
<1> QED BY <1>4, <1>5, TilesKept

(* Rows that concern neither turns nor approvals disturb neither table.      *)
LEMMA PlainRowKept ==
    ASSUME TablesInv, daemon \in {"opened", "up"}, NEW e, Appends({e}),
           e.kind \notin {"requested", "resolved", "turnCompleted"},
           commits' = commits \union {CommitOf(e.session, {e})}, turnRows' = turnRows
    PROVE  JournalFolds' /\ CommitsTile' /\ CommitsSpan' /\ TurnRowsMatch'
<1>1. JournalFolds'
  BY FoldsKept
<1>2. CommitsTile' /\ CommitsSpan'
  BY OneTileKept
<1>3. events' = events \union {e}
  BY DEF Appends
<1>4. TurnRowsMatch'
  BY <1>3 DEF TablesInv, TablesAgree, TurnRowsMatch
<1> QED BY <1>1, <1>2, <1>4

LEMMA TablesInvInit == StoreInit => TablesInv
<1> SUFFICES ASSUME StoreInit PROVE TablesInv
  OBVIOUS
<1>1. JournalFolds /\ CommitsTile /\ TurnRowsMatch /\ CommitsSpan
  BY DEF StoreInit, JournalFolds, CommitsTile, TurnRowsMatch, CommitsSpan
<1>2. SessionFollowsRuns /\ NoRunsUnopened
  BY DEF StoreInit, SessionFollowsRuns, NoRunsUnopened
<1> QED BY <1>1, <1>2, JournalInvInit DEF TablesInv, TablesAgree

(* A session that is opened has no runs yet.                                 *)
LEMMA SessionOpenKept ==
    ASSUME TablesInv, NEW s \in Sessions, CommitSessionOpen(s)
    PROVE  JournalFolds' /\ TablesAgree' /\ CommitsSpan' /\ NoRunsUnopened'
<1> DEFINE e == Row(nextSeq, s, 0, P("session", 0))
<1>1. Appends({e}) /\ daemon = "up"
  BY SessionOpenAppends DEF TablesInv, CommitSessionOpen
<1>2. e.kind = "session" /\ e.session = s
  BY DEF Row, P
<1>3. commits' = commits \union {CommitOf(s, {e})} /\ turnRows' = turnRows
  BY DEF CommitSessionOpen
<1> HIDE DEF e
<1>4. JournalFolds' /\ CommitsTile' /\ CommitsSpan' /\ TurnRowsMatch'
  BY <1>1, <1>2, <1>3, PlainRowKept
<1>5. /\ runs' = runs /\ sessions' = [sessions EXCEPT ![s] = "idle"]
      /\ sessions \in [Sessions -> {"none", "idle", "running", "failed", "completed"}]
  BY DEF CommitSessionOpen, TablesInv, JournalInv, StoreTypeOK
<1>6. StatusesIn(s, runs) = {}
  BY DEF CommitSessionOpen, TablesInv, NoRunsUnopened, StatusesIn
<1>7. SessionStatus({}) = "idle"
  BY DEF SessionStatus
<1>8. SessionFollowsRuns'
  BY <1>5, <1>6, <1>7 DEF SessionFollowsRuns, TablesInv, TablesAgree
<1>9. NoRunsUnopened'
  BY <1>5 DEF NoRunsUnopened, TablesInv
<1> QED BY <1>4, <1>8, <1>9 DEF TablesAgree

(* A transition gives its session the status its runs then imply.            *)
LEMMA RunTransitionSession ==
    ASSUME TablesInv, NEW r \in Runs, NEW t \in Transitions(r), CommitRunTransition(r, t[1], t[2])
    PROVE  SessionFollowsRuns' /\ NoRunsUnopened'
<1> DEFINE z == SessionOf[r]
<1>1. /\ sessions \in [Sessions -> {"none", "idle", "running", "failed", "completed"}]
      /\ DOMAIN runs = Runs /\ z \in Sessions
  BY StoreAssumption DEF TablesInv, JournalInv, StoreTypeOK
<1>2. /\ runs' = [runs EXCEPT ![r] = t[1]] /\ sessions[z] # "none"
      /\ sessions' = [sessions EXCEPT ![z] = SessionStatus(StatusesIn(z, runs'))]
  BY DEF CommitRunTransition, TransitionValid
<1>3. SessionStatus(StatusesIn(z, runs')) # "none"
  BY StatusTyped
<1>4. ASSUME NEW s \in Sessions, s # z
      PROVE  StatusesIn(s, runs') = StatusesIn(s, runs)
  <2>1. \A q \in Runs : SessionOf[q] = s => runs'[q] = runs[q]
    BY <1>1, <1>2, <1>4
  <2> QED BY <2>1 DEF StatusesIn
<1>5. SessionFollowsRuns'
  <2> SUFFICES ASSUME NEW s \in Sessions, sessions'[s] # "none"
               PROVE  sessions'[s] = SessionStatus(StatusesIn(s, runs'))
    BY DEF SessionFollowsRuns
  <2>1. CASE s = z
    BY <1>1, <1>2, <2>1
  <2>2. CASE s # z
    BY <1>1, <1>2, <1>4, <2>2 DEF TablesInv, TablesAgree, SessionFollowsRuns
  <2> QED BY <2>1, <2>2
<1>6. NoRunsUnopened'
  BY <1>1, <1>2, <1>3 DEF NoRunsUnopened, TablesInv
<1> QED BY <1>5, <1>6

(* A transition leaves a row of turns for each completed turn, and starts or *)
(* ends an approval as the fold of the journal allows.                       *)
LEMMA RunTransitionKept ==
    ASSUME TablesInv, NEW r \in Runs, NEW t \in Transitions(r), CommitRunTransition(r, t[1], t[2])
    PROVE  JournalFolds' /\ TablesAgree' /\ CommitsSpan' /\ NoRunsUnopened'
<1> DEFINE N == RowsOf(r, t[2])
           z == SessionOf[r]
<1>1. Appends(N) /\ daemon = "up" /\ nextSeq \in Nat
  BY RunTransitionAppends DEF TablesInv, JournalInv, StoreTypeOK, CommitRunTransition, TransitionValid
<1>2. /\ commits' = IF N = {} THEN commits ELSE commits \union {CommitOf(z, N)}
      /\ turnRows' = turnRows \union TurnRow(r, t[2])
      /\ events' = events \union N
      /\ ApprovalAccepted(r, t[2][1])
  BY DEF CommitRunTransition, RecordCommit, TransitionValid
<1>3. PICK p \in Payload : OneEvent(t[2], p) \/ ApprovalStep(t[2], p)
  BY BatchShape
<1> DEFINE e == Row(nextSeq, z, r, p)
           f == Row(nextSeq + 1, z, r, P("run", 0))
<1>4. /\ e.session = z /\ e.run = r /\ e.kind = p.kind /\ e.item = p.item /\ e.seq = nextSeq
      /\ f.session = z /\ f.kind = "run"
  BY DEF Row, P
<1>5. /\ t[2][1] = p
      /\ \/ OneEvent(t[2], p) /\ N = IF p.kind = "delta" THEN {} ELSE {e}
         \/ ApprovalStep(t[2], p) /\ N = {e, f}
  <2>1. CASE OneEvent(t[2], p)
    BY <1>1, <2>1, RowsOfOne DEF OneEvent
  <2>2. CASE ApprovalStep(t[2], p)
    BY <1>1, <2>2, RowsOfTwo DEF ApprovalStep
  <2> QED BY <1>3, <2>1, <2>2
<1> HIDE DEF N, e, f, z
<1>6. JournalFolds'
  <2>1. \A g \in N : /\ g.kind = "requested" => Lookup(g.run, g.item) = "notFound"
                     /\ g.kind = "resolved" => Lookup(g.run, g.item) = "pending"
    BY <1>2, <1>4, <1>5 DEF ApprovalAccepted
  <2>2. \A g, h \in N : g.run = h.run /\ g.kind = h.kind /\ g.item = h.item
                          /\ g.kind \in {"requested", "resolved"} => g = h
    BY <1>4, <1>5
  <2> QED BY <1>1, <2>1, <2>2, FoldsKept
<1>7. CommitsTile' /\ CommitsSpan'
  <2>1. CASE N = {}
    <3>1. commits' = commits /\ events' = events
      BY <1>2, <2>1
    <3> QED BY <3>1 DEF TablesInv, TablesAgree, CommitsTile, CommitsSpan
  <2>2. CASE N # {}
    <3>1. \A g \in N : g.session = z
      BY <1>4, <1>5
    <3> QED BY <1>1, <1>2, <2>2, <3>1, OneTileKept
  <2> QED BY <2>1, <2>2
<1>8. TurnRowsMatch'
  <2>1. TurnRow(r, t[2]) = IF p.kind = "turnCompleted" THEN {nextSeq} ELSE {}
    BY <1>5 DEF TurnRow
  <2>2. { g.seq : g \in { h \in N : h.kind = "turnCompleted" } } = TurnRow(r, t[2])
    BY <1>4, <1>5, <2>1 DEF OneEvent, ApprovalStep
  <2> QED BY <1>2, <2>2 DEF TablesInv, TablesAgree, TurnRowsMatch
<1> QED BY <1>6, <1>7, <1>8, RunTransitionSession DEF TablesAgree

(* The reconciliation resolves what is pending, once, and records the rows   *)
(* of each run as one commit.                                                *)
LEMMA BootRow ==
    ASSUME TablesInv, NEW x \in Reconciliations
    PROVE  /\ RowAtBoot(x) \in Record
           /\ RowAtBoot(x).seq = nextSeq + Rank(x) /\ RowAtBoot(x).session = SessionOf[x.run]
           /\ RowAtBoot(x).run = x.run /\ RowAtBoot(x).kind = x.p.kind /\ RowAtBoot(x).item = x.p.item
<1>1. RowAtBoot(x) = Row(nextSeq + Rank(x), SessionOf[x.run], x.run, x.p)
  BY DEF RowAtBoot, Rank
<1>2. nextSeq + Rank(x) \in Nat
  BY RankOrder DEF TablesInv, JournalInv, StoreTypeOK
<1>3. x.run \in Runs /\ SessionOf[x.run] \in Sessions
  BY ReconciliationShape, StoreAssumption
<1>4. x.p.kind \in Kinds /\ x.p.item \in Nat
  BY ReconciliationNumbers DEF Kinds
<1>5. RowAtBoot(x) \in Record
  BY <1>1, <1>2, <1>3, <1>4, RowIsRecord
<1> QED BY <1>1, <1>5 DEF Row

LEMMA ReconciliationKept ==
    ASSUME TablesInv, CommitStartupReconciliation
    PROVE  JournalFolds' /\ TablesAgree' /\ CommitsSpan' /\ NoRunsUnopened'
<1> DEFINE N == { RowAtBoot(x) : x \in Reconciliations }
           Of(r) == { RowAtBoot(x) : x \in Reconciling(r) }
           C == { CommitOf(SessionOf[r], Of(r)) : r \in Orphans }
<1>1. Appends(N) /\ daemon = "opened" /\ nextSeq \in Nat /\ nextSeq' \in Nat
  BY ReconciliationAppends DEF TablesInv, JournalInv, StoreTypeOK, CommitStartupReconciliation, Appends
<1>2. events' = events \union N /\ commits' = commits \union C /\ turnRows' = turnRows
  BY DEF CommitStartupReconciliation
<1>3. \A r \in Orphans : \A x \in Reconciling(r) : x \in Reconciliations /\ x.run = r
  BY DEF Reconciliations, Reconciling
<1>4. JournalFolds'
  <2>1. ASSUME NEW x \in Reconciliations
        PROVE  /\ RowAtBoot(x).kind # "requested"
               /\ RowAtBoot(x).kind = "resolved" => Lookup(RowAtBoot(x).run, RowAtBoot(x).item) = "pending"
    BY BootRow, ReconciliationShape DEF Pending
  <2>2. ASSUME NEW x \in Reconciliations, NEW y \in Reconciliations,
               RowAtBoot(x).run = RowAtBoot(y).run, RowAtBoot(x).kind = RowAtBoot(y).kind,
               RowAtBoot(x).item = RowAtBoot(y).item
        PROVE  RowAtBoot(x) = RowAtBoot(y)
    <3>1. x.run = y.run /\ x.p.kind = y.p.kind /\ x.p.item = y.p.item
      BY <2>2, BootRow
    <3>2. x = y
      BY <3>1, ReconciliationShape
    <3> QED BY <3>2
  <2>3. \A e \in N : /\ e.kind = "requested" => Lookup(e.run, e.item) = "notFound"
                     /\ e.kind = "resolved" => Lookup(e.run, e.item) = "pending"
    BY <2>1
  <2>4. \A d, e \in N : d.run = e.run /\ d.kind = e.kind /\ d.item = e.item
                          /\ d.kind \in {"requested", "resolved"} => d = e
    BY <2>2
  <2> HIDE DEF N
  <2> QED BY <1>1, <2>3, <2>4, FoldsKept
<1>5. ASSUME NEW r \in Orphans
      PROVE  /\ CommitOf(SessionOf[r], Of(r)).session = SessionOf[r]
             /\ \E e \in Of(r) : CommitOf(SessionOf[r], Of(r)).first = e.seq
             /\ \E e \in Of(r) : CommitOf(SessionOf[r], Of(r)).last = e.seq
             /\ \A e \in Of(r) : /\ e \in N /\ e \in Record
                                 /\ CommitOf(SessionOf[r], Of(r)).first <= e.seq
                                 /\ e.seq <= CommitOf(SessionOf[r], Of(r)).last
  <2>1. Of(r) \subseteq N /\ Of(r) \in SUBSET Record
    BY <1>3, BootRow
  <2>2. Of(r) # {}
    BY DEF Reconciling
  <2>3. \A e \in Of(r) : e.seq < nextSeq'
    BY <1>1, <2>1 DEF Appends
  <2> HIDE DEF Of
  <2> QED BY <1>1, <2>1, <2>2, <2>3, CommitOfSpan
<1>6. ASSUME NEW r \in Orphans, NEW q \in Orphans, r < q, NEW d \in Of(r), NEW e \in Of(q)
      PROVE  d.seq < e.seq
  <2>1. PICK x \in Reconciling(r) : d = RowAtBoot(x)
    OBVIOUS
  <2>2. PICK y \in Reconciling(q) : e = RowAtBoot(y)
    OBVIOUS
  <2>3. x \in Reconciliations /\ y \in Reconciliations /\ Precedes(x, y)
    BY <1>3, <1>6 DEF Precedes
  <2>4. Rank(x) < Rank(y) /\ Rank(x) \in Nat /\ Rank(y) \in Nat
    BY <2>3, RankOrder
  <2> QED BY <1>1, <2>1, <2>2, <2>3, <2>4, BootRow
<1>7. \A r \in Orphans : r \in Nat
  BY StoreAssumption DEF Orphans
<1>8. Tiles(C, N)
  <2>1. ASSUME NEW r \in Orphans
        PROVE  LET c == CommitOf(SessionOf[r], Of(r)) IN
                 /\ c.first \in Nat /\ c.last \in Nat /\ c.first <= c.last
                 /\ \E e \in N : c.first = e.seq
                 /\ \E e \in N : c.last = e.seq
    <3> DEFINE c == CommitOf(SessionOf[r], Of(r))
    <3> HIDE DEF c, Of, N
    <3>1. /\ \E e \in Of(r) : c.first = e.seq
          /\ \E e \in Of(r) : c.last = e.seq
          /\ \A e \in Of(r) : e \in N /\ e \in Record /\ c.first <= e.seq /\ e.seq <= c.last
      BY <1>5 DEF c
    <3>2. \A e \in Record : e.seq \in Nat
      BY DEF Record
    <3>3. c.first \in Nat /\ c.last \in Nat /\ c.first <= c.last
      BY <3>1, <3>2
    <3> QED BY <3>1, <3>3 DEF c
  <2>2. ASSUME NEW x \in Reconciliations
        PROVE  LET c == CommitOf(SessionOf[x.run], Of(x.run)) IN
                 c.session = RowAtBoot(x).session /\ c.first <= RowAtBoot(x).seq /\ RowAtBoot(x).seq <= c.last
    <3>1. x.run \in Orphans /\ RowAtBoot(x) \in Of(x.run)
      BY ReconciliationShape
    <3> HIDE DEF Of, N
    <3> QED BY <1>5, <3>1, BootRow
  <2>3. ASSUME NEW r \in Orphans, NEW q \in Orphans, r < q
        PROVE  CommitOf(SessionOf[r], Of(r)).last < CommitOf(SessionOf[q], Of(q)).first
    <3> HIDE DEF Of, N
    <3>1. PICK d \in Of(r) : CommitOf(SessionOf[r], Of(r)).last = d.seq
      BY <1>5
    <3>2. PICK e \in Of(q) : CommitOf(SessionOf[q], Of(q)).first = e.seq
      BY <1>5
    <3> QED BY <1>6, <2>3, <3>1, <3>2
  <2>4. \A c \in C : /\ c.first \in Nat /\ c.last \in Nat /\ c.first <= c.last
                     /\ \E e \in N : c.first = e.seq
                     /\ \E e \in N : c.last = e.seq
    <3> HIDE DEF Of, N
    <3> QED BY <2>1
  <2>5. \A e \in N : \E c \in C : c.session = e.session /\ c.first <= e.seq /\ e.seq <= c.last
    <3> SUFFICES ASSUME NEW x \in Reconciliations
                 PROVE  \E c \in C : /\ c.session = RowAtBoot(x).session
                                     /\ c.first <= RowAtBoot(x).seq /\ RowAtBoot(x).seq <= c.last
      OBVIOUS
    <3>1. x.run \in Orphans
      BY ReconciliationShape
    <3> HIDE DEF Of, N
    <3> QED BY <2>2, <3>1
  <2>6. \A c, d \in C : c # d => c.last < d.first \/ d.last < c.first
    <3> SUFFICES ASSUME NEW r \in Orphans, NEW q \in Orphans,
                        CommitOf(SessionOf[r], Of(r)) # CommitOf(SessionOf[q], Of(q))
                 PROVE  \/ CommitOf(SessionOf[r], Of(r)).last < CommitOf(SessionOf[q], Of(q)).first
                        \/ CommitOf(SessionOf[q], Of(q)).last < CommitOf(SessionOf[r], Of(r)).first
      BY Zenon
    <3>1. r < q \/ q < r
      BY <1>7
    <3> HIDE DEF Of, N
    <3> QED BY <2>3, <3>1
  <2> HIDE DEF C, N
  <2> QED BY <2>4, <2>5, <2>6 DEF Tiles
<1>9. CommitsTile' /\ CommitsSpan'
  <2> HIDE DEF C, N
  <2> QED BY <1>1, <1>2, <1>8, TilesKept
<1>10. TurnRowsMatch'
  <2>1. \A e \in N : e.kind # "turnCompleted"
    BY BootRow, ReconciliationShape
  <2> HIDE DEF N
  <2> QED BY <1>2, <2>1 DEF TablesInv, TablesAgree, TurnRowsMatch
<1>11. SessionFollowsRuns' /\ NoRunsUnopened'
  <2>1. /\ runs' = [r \in Runs |-> IF r \in Orphans THEN "failed" ELSE runs[r]]
        /\ sessions' = [s \in Sessions |-> IF \E r \in Orphans : SessionOf[r] = s
                                           THEN SessionStatus(StatusesIn(s, runs')) ELSE sessions[s]]
    BY DEF CommitStartupReconciliation
  <2>2. \A r \in Orphans : r \in Runs /\ runs[r] # "none"
    BY DEF Orphans
  <2>3. ASSUME NEW s \in Sessions
        PROVE  /\ sessions'[s] # "none" => sessions'[s] = SessionStatus(StatusesIn(s, runs'))
               /\ sessions'[s] = "none" => \A r \in Runs : SessionOf[r] = s => runs'[r] = "none"
    <3>1. CASE \E r \in Orphans : SessionOf[r] = s
      <4>1. sessions'[s] = SessionStatus(StatusesIn(s, runs'))
        BY <2>1, <3>1
      <4>2. SessionStatus(StatusesIn(s, runs')) # "none"
        BY StatusTyped
      <4> QED BY <4>1, <4>2
    <3>2. CASE ~\E r \in Orphans : SessionOf[r] = s
      <4>1. \A r \in Runs : SessionOf[r] = s => runs'[r] = runs[r]
        BY <2>1, <3>2
      <4>2. StatusesIn(s, runs') = StatusesIn(s, runs)
        BY <4>1 DEF StatusesIn
      <4>3. sessions'[s] = sessions[s]
        BY <2>1, <3>2
      <4>4. /\ sessions[s] # "none" => sessions[s] = SessionStatus(StatusesIn(s, runs))
            /\ sessions[s] = "none" => \A r \in Runs : SessionOf[r] = s => runs[r] = "none"
        BY DEF TablesInv, TablesAgree, SessionFollowsRuns, NoRunsUnopened
      <4> QED BY <4>1, <4>2, <4>3, <4>4
    <3> QED BY <3>1, <3>2
  <2> QED BY <2>3 DEF SessionFollowsRuns, NoRunsUnopened
<1> QED BY <1>4, <1>9, <1>10, <1>11 DEF TablesAgree

(* Every step keeps the tables in agreement.                                 *)
LEMMA TablesStep ==
    ASSUME TablesInv, [StoreNext]_storeVars
    PROVE  TablesInv'
<1>0. JournalInv'
  BY JournalStep DEF TablesInv
<1> SUFFICES JournalFolds' /\ TablesAgree' /\ CommitsSpan' /\ NoRunsUnopened'
  BY <1>0 DEF TablesInv
<1> DEFINE Same == UNCHANGED <<sessions, runs, events, commits, turnRows>>
           SameRuns == UNCHANGED <<sessions, runs>>
<1>1. Same => JournalFolds' /\ TablesAgree' /\ CommitsSpan' /\ NoRunsUnopened'
  BY DEF TablesInv, JournalFolds, TablesAgree, CommitsTile, TurnRowsMatch, SessionFollowsRuns,
         CommitsSpan, NoRunsUnopened
<1>2. SameRuns => SessionFollowsRuns' /\ NoRunsUnopened'
  BY DEF TablesInv, TablesAgree, SessionFollowsRuns, NoRunsUnopened
<1>3. ASSUME NEW r \in Runs, NEW k \in {"artifact", "promoted", "quarantined"}, daemon = "up",
             AppendRow(r, k), turnRows' = turnRows
      PROVE  JournalFolds' /\ CommitsTile' /\ CommitsSpan' /\ TurnRowsMatch'
  <2> DEFINE e == Row(nextSeq, SessionOf[r], r, P(k, 0))
  <2>1. Appends({e})
    BY <1>3, AppendRowAppends DEF TablesInv, Kinds
  <2>2. e.kind = k /\ e.session = SessionOf[r]
    BY DEF Row, P
  <2>3. commits' = commits \union {CommitOf(SessionOf[r], {e})}
    BY <1>3 DEF AppendRow
  <2> HIDE DEF e
  <2> QED BY <1>3, <2>1, <2>2, <2>3, PlainRowKept
<1> HIDE DEF Same, SameRuns
<1>4. ASSUME NEW s \in Sessions, CommitSessionOpen(s)
      PROVE  JournalFolds' /\ TablesAgree' /\ CommitsSpan' /\ NoRunsUnopened'
  BY <1>4, SessionOpenKept
<1>5. ASSUME NEW r \in Runs, NEW t \in Transitions(r), CommitRunTransition(r, t[1], t[2])
      PROVE  JournalFolds' /\ TablesAgree' /\ CommitsSpan' /\ NoRunsUnopened'
  BY <1>5, RunTransitionKept
<1>6. ASSUME NEW r \in Runs, NEW t \in Transitions(r), RollsBack(r, t[2])
      PROVE  Same
  BY <1>6 DEF RollsBack, tables, Same
<1>7. ASSUME NEW r \in Runs, CommitArtifactPublish(r)
      PROVE  JournalFolds' /\ TablesAgree' /\ CommitsSpan' /\ NoRunsUnopened'
  <2>1. daemon = "up" /\ AppendRow(r, "artifact") /\ turnRows' = turnRows /\ SameRuns
    BY <1>7 DEF CommitArtifactPublish, SameRuns
  <2> QED BY <1>2, <1>3, <2>1 DEF TablesAgree
<1>8. ASSUME NEW r \in Runs, CommitReceiptEvent(r)
      PROVE  JournalFolds' /\ TablesAgree' /\ CommitsSpan' /\ NoRunsUnopened'
  <2>1. daemon = "up" /\ AppendRow(r, owed[r]) /\ turnRows' = turnRows /\ SameRuns
    BY <1>8 DEF CommitReceiptEvent, SameRuns
  <2>2. owed[r] \in {"promoted", "quarantined"}
    BY <1>8 DEF CommitReceiptEvent, TablesInv, JournalInv
  <2> QED BY <1>2, <1>3, <2>1, <2>2 DEF TablesAgree
<1>9. ASSUME NEW r \in Runs, NEW to \in {"promoted", "quarantined"}, CompletionReceipt(r, to)
      PROVE  Same
  BY <1>9 DEF CompletionReceipt, Same
<1>10. ASSUME NEW r \in Runs, NEW to \in {"promoted", "quarantined"}, TransitionReceipt(r, to)
       PROVE  JournalFolds' /\ TablesAgree' /\ CommitsSpan' /\ NoRunsUnopened'
  <2>1. daemon = "up" /\ AppendRow(r, to) /\ turnRows' = turnRows /\ SameRuns
    BY <1>10 DEF TransitionReceipt, SameRuns
  <2> QED BY <1>2, <1>3, <2>1 DEF TablesAgree
<1>11. ASSUME NEW r \in Runs, NEW to \in {"promoted", "quarantined"}, ReceiptUnreported(r, to)
       PROVE  Same
  BY <1>11 DEF ReceiptUnreported, Same
<1>12. DaemonCrash \/ OpenStore \/ OpenRefused \/ UNCHANGED storeVars => Same
  BY DEF DaemonCrash, OpenStore, OpenRefused, storeVars, tables, Same
<1>13. CommitStartupReconciliation => JournalFolds' /\ TablesAgree' /\ CommitsSpan' /\ NoRunsUnopened'
  BY ReconciliationKept
<1> QED BY <1>1, <1>4, <1>5, <1>6, <1>7, <1>8, <1>9, <1>10, <1>11, <1>12, <1>13 DEF StoreNext

(* The journal can be folded into the states of its approvals in every       *)
(* behaviour, so that no commit is ever refused for what a reconciliation    *)
(* recorded.                                                                 *)
THEOREM JournalAlwaysFolds == StoreSpec => []JournalFolds
<1>1. TablesInv => JournalFolds
  BY DEF TablesInv
<1> QED BY TablesInvInit, TablesStep, <1>1, PTL DEF StoreSpec

(* Commit rows tile the journal, the agent turn rows are those of completed  *)
(* turns and a session shows the status its runs imply: in every behaviour.  *)
THEOREM TablesAlwaysAgree == StoreSpec => []TablesAgree
<1>1. TablesInv => TablesAgree
  BY DEF TablesInv
<1> QED BY TablesInvInit, TablesStep, <1>1, PTL DEF StoreSpec
===============================================================================
