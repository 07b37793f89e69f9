---------------------------- MODULE ReportsProofs ----------------------------
(***************************************************************************)
(* What a run keeps while it reports and asks.                             *)
(*                                                                         *)
(* Reports: for every family of runs, every result, every limit and any    *)
(* number of reports, cancels and deaths of the daemon, a run ends once    *)
(* and nothing follows, its budget holds, and its receipts say what became *)
(* of its result.                                                          *)
(*                                                                         *)
(* A native run: for any number of calls, of threads that decide and of    *)
(* files that lie there already, a tool has the consent that the store     *)
(* shows, no answer is lost, and no file is written over another.          *)
(***************************************************************************)
EXTENDS RunReports, NativeAgent, FiniteSetTheorems, WellFoundedInduction, TLAPS

(***************************************************************************)
(* The types of the state.                                                 *)
(***************************************************************************)
Statuses == {"queued", "running", "completed", "failed", "budget", "cancelled"}
SinkPlaces == {"idle", "dispatch", "check", "exceeded", "artifact", "receipt", "announce", "stuck", "advance"}
Tallies == [tools : Nat, total : Nat, ends : Nat, late : BOOLEAN]
Data == Results \union {NoResult}
Sinks == [pc : SinkPlaces, data : Data, seq : Nat]
Keys == Tasks \X {"summary", "patch", "reviewFinding", "testOutput", "artifact"} \X {"artifact", "turn", "free"} \X Nat
Papers ==
    [key : Keys, run : Tasks, parent : {Parents[r] : r \in Tasks},
     kind : {"summary", "patch", "reviewFinding", "testOutput", "artifact"},
     state : {"returned", "promoted", "quarantined"}]

ReportsTyped ==
    /\ status \in [Tasks -> Statuses]
    /\ live \in [Tasks -> BOOLEAN]
    /\ tally \in [Tasks -> Tallies]
    /\ seq \in Nat
    /\ delivered \in [Tasks -> Data]
    /\ awaiting \in [Tasks -> {0, 1}]
    /\ papers \subseteq Papers
    /\ sink \in [Tasks -> Sinks]
    /\ everPromoted \subseteq Keys

(***************************************************************************)
(* The inductive invariant.                                                *)
(***************************************************************************)
\* Run r may start another tool call before its budget is looked at again.
CanCall(r) == MayReport(r) /\ sink[r].pc \in {"idle", "artifact"}

\* What the state says of one run.
OneEnd(r) == tally[r].ends = (IF Ended(r) THEN 1 ELSE 0) /\ ~tally[r].late
Waits(r) == status[r] = "budget" => awaiting[r] = 0
Keeps(r) ==
    /\ status[r] = "completed" => ValidPayload(r, delivered[r])
    /\ delivered[r] # NoResult => status[r] = "completed"
Within(r) == CanCall(r) => WithinLimits(Usage(r), PerRun)
Delivers(r) == sink[r].pc = "receipt" => Ended(r)
RunSound(r) == OneEnd(r) /\ Waits(r) /\ Keeps(r) /\ Delivers(r) /\ Within(r)

\* A run whose result is still to come, or is being made a receipt of, has no receipt of a result.
Unreceipted(r) ==
    status[r] \in {"queued", "running"} \/ sink[r].pc = "receipt" =>
        \A p \in papers : p.key[1] = r => p.key[3] = "artifact"

\* Every run of a family that can make no call has made at most one beyond the common limit.
FamilyBounded ==
    \A r \in Tasks : AggregateTools(r) <= Aggregate.tools + Cardinality({q \in Family[r] : ~CanCall(q)})

PapersSound ==
    /\ everPromoted \subseteq {p.key : p \in papers}
    /\ \A p \in papers : p.key \in everPromoted => p.state = "promoted"

ReportsInv ==
    /\ ReportsTyped
    /\ \A r \in Tasks : RunSound(r)
    /\ \A r \in Tasks : Unreceipted(r)
    /\ FamilyBounded
    /\ PapersSound

-----------------------------------------------------------------------------
(***************************************************************************)
(* Counting.                                                               *)
(***************************************************************************)
\* What the events of one transaction come to.
LEMMA CountFields ==
  ASSUME NEW t \in Tallies, NEW kinds, NEW total \in Nat
  PROVE  LET c == Count(t, kinds, total) IN
         /\ c \in Tallies
         /\ c.tools = IF "tool" \in kinds THEN t.tools + 1 ELSE t.tools
         /\ c.total = IF "total" \in kinds THEN total ELSE t.total
         /\ c.ends = IF "ended" \in kinds THEN t.ends + 1 ELSE t.ends
         /\ c.late <=> (t.late \/ (t.ends > 0 /\ kinds # {"receipt"}))
  <1> DEFINE made == IF "tool" \in kinds THEN t.tools + 1 ELSE t.tools
             tokens == IF "total" \in kinds THEN total ELSE t.total
             ends == IF "ended" \in kinds THEN t.ends + 1 ELSE t.ends
             late == t.late \/ (t.ends > 0 /\ kinds # {"receipt"})
  <1>1. Count(t, kinds, total) = [tools |-> made, total |-> tokens, ends |-> ends, late |-> late]
    BY Zenon DEF Count
  <1>2. made \in Nat /\ tokens \in Nat /\ ends \in Nat
    BY DEF Tallies
  <1>3. late \in BOOLEAN
    BY DEF Tallies
  <1> HIDE DEF made, tokens, ends, late
  <1>4. [tools |-> made, total |-> tokens, ends |-> ends, late |-> late] \in Tallies
    BY <1>2, <1>3 DEF Tallies
  <1>5. LET c == Count(t, kinds, total) IN c \in Tallies /\ c.tools = made /\ c.total = tokens /\ c.ends = ends
    BY <1>1, <1>4
  <1>7. Count(t, kinds, total).late <=> late
    BY <1>1, <1>3
  <1> QED
    BY <1>5, <1>7 DEF made, tokens, ends, late

\* One transaction: the tally of its run, and a number further on.
LEMMA CommitCounts ==
  ASSUME ReportsTyped, NEW r \in Tasks, NEW kinds, IsFiniteSet(kinds), NEW total \in Nat, Commits(r, kinds, total)
  PROVE  /\ tally' \in [Tasks -> Tallies] /\ seq' \in Nat
         /\ tally'[r] = Count(tally[r], kinds, total)
         /\ \A q \in Tasks \ {r} : tally'[q] = tally[q]
  <1>1. seq' = seq + Cardinality(kinds) /\ tally' = [tally EXCEPT ![r] = Count(tally[r], kinds, total)]
    BY DEF Commits, ReportsTyped
  <1>2. Count(tally[r], kinds, total) \in Tallies
    BY CountFields DEF ReportsTyped
  <1>3. Cardinality(kinds) \in Nat
    BY FS_CardinalityType
  <1> QED
    BY <1>1, <1>2, <1>3 DEF ReportsTyped

LEMMA SmallSets ==
  /\ \A k : IsFiniteSet({k})
  /\ \A k, j : IsFiniteSet({k, j})
  /\ \A k, j, i : IsFiniteSet({k, j} \union {i})
  /\ \A k, j : IsFiniteSet({k, j} \union {})
  <1>1. \A k : IsFiniteSet({k})
    BY FS_Singleton
  <1>2. \A k, j : IsFiniteSet({k, j})
    <2> TAKE k, j
    <2>1. IsFiniteSet({k} \union {j})
      BY <1>1, FS_AddElement
    <2>2. {k, j} = {k} \union {j}
      OBVIOUS
    <2> QED
      BY <2>1, <2>2
  <1>3. \A k, j, i : IsFiniteSet({k, j} \union {i})
    BY <1>1, <1>2, FS_Union
  <1> QED
    BY <1>1, <1>2, <1>3, FS_EmptySet, FS_Union

\* The calls of the family of r, each with its number.
Calls(r) == UNION {{<<q, n>> : n \in 1..tally[q].tools} : q \in Family[r]}

LEMMA AggregateCounts == \A r \in Tasks : AggregateTools(r) = Cardinality(Calls(r))
  BY DEF AggregateTools, Together, Calls

LEMMA FamilyFacts ==
  ASSUME NEW r \in Tasks
  PROVE  /\ Family[r] \subseteq Tasks /\ IsFiniteSet(Family[r])
         /\ \A q \in Family[r] : Family[q] = Family[r]
         /\ \A q \in Tasks : r \in Family[q] => Family[q] = Family[r]
  <1>1. \A s \in Tasks : Family[s] = {q \in Tasks : Root[q] = Root[s]}
    BY DEF Family
  <1>2. Family[r] \subseteq Tasks
    BY <1>1
  <1>3. IsFiniteSet(Family[r])
    BY <1>2, ReportsAssumption, FS_Subset
  <1>4. \A q \in Family[r] : Family[q] = Family[r]
    <2> TAKE q \in Family[r]
    <2>1. q \in Tasks /\ Root[q] = Root[r]
      BY <1>1
    <2> QED
      BY <1>1, <2>1
  <1>5. \A q \in Tasks : r \in Family[q] => Family[q] = Family[r]
    <2> SUFFICES ASSUME NEW q \in Tasks, r \in Family[q] PROVE Family[q] = Family[r]
      OBVIOUS
    <2>1. Root[q] = Root[r]
      BY <1>1
    <2> QED
      BY <1>1, <2>1
  <1> QED
    BY <1>2, <1>3, <1>4, <1>5

LEMMA CallsAreFinite == ASSUME ReportsTyped, NEW r \in Tasks PROVE IsFiniteSet(Calls(r)) /\ Cardinality(Calls(r)) \in Nat
  <1> DEFINE Of(q) == {<<q, n>> : n \in 1..tally[q].tools}
             All == {Of(q) : q \in Family[r]}
  <1>1. ASSUME NEW q \in Family[r] PROVE IsFiniteSet(Of(q))
    <2>1. tally[q].tools \in Nat
      BY FamilyFacts DEF ReportsTyped, Tallies
    <2>2. IsFiniteSet(1..tally[q].tools)
      BY <2>1, FS_Interval
    <2> DEFINE f == [n \in 1..tally[q].tools |-> <<q, n>>]
    <2>3. Of(q) = {f[n] : n \in 1..tally[q].tools}
      OBVIOUS
    <2>4. f \in Surjection(1..tally[q].tools, Of(q))
      BY DEF Surjection
    <2> QED
      BY <2>2, <2>4, FS_Surjection
  <1>2. IsFiniteSet(All)
    <2> DEFINE f == [q \in Family[r] |-> Of(q)]
    <2>1. f \in Surjection(Family[r], All)
      BY DEF Surjection
    <2> QED
      BY <2>1, FamilyFacts, FS_Surjection
  <1>3. IsFiniteSet(UNION All)
    BY <1>1, <1>2, FS_UNION
  <1>4. Calls(r) = UNION All
    BY DEF Calls
  <1> QED
    BY <1>3, <1>4, FS_CardinalityType

\* The runs of a family that can make no call.
LEMMA RestCounts ==
  ASSUME NEW r \in Tasks, NEW P \in SUBSET Family[r]
  PROVE  IsFiniteSet(P) /\ Cardinality(P) \in Nat /\ Cardinality(P) <= Cardinality(Family[r]) /\ Cardinality(Family[r]) \in Nat
  BY FamilyFacts, FS_Subset, FS_CardinalityType

\* No call is made, and who can make one again was within the common limit.
LEMMA BoundKept ==
  ASSUME ReportsTyped, FamilyBounded,
         \A q \in Tasks : tally'[q].tools = tally[q].tools,
         \A q \in Tasks : CanCall(q)' => CanCall(q) \/ AggregateTools(q) <= Aggregate.tools
  PROVE  FamilyBounded'
  <1> SUFFICES ASSUME NEW r \in Tasks
               PROVE  AggregateTools(r)' <= Aggregate.tools + Cardinality({q \in Family[r] : ~CanCall(q)'})
    BY DEF FamilyBounded
  <1> DEFINE A == {q \in Family[r] : ~CanCall(q)}
             B == {q \in Family[r] : ~CanCall(q)'}
  <1>1. Calls(r)' = Calls(r)
    BY FamilyFacts DEF Calls
  <1>2. AggregateTools(r)' = AggregateTools(r) /\ AggregateTools(r) \in Nat
    BY <1>1, AggregateCounts, CallsAreFinite DEF AggregateTools, Together, Calls
  <1>3. Aggregate.tools \in Nat
    BY ReportsAssumption
  <1>4. AggregateTools(r) <= Aggregate.tools + Cardinality(A)
    BY DEF FamilyBounded
  <1>5. CASE AggregateTools(r) <= Aggregate.tools
    <2>1. Cardinality(B) \in Nat
      BY RestCounts
    <2> QED
      BY <1>2, <1>3, <1>5, <2>1
  <1>6. CASE ~(AggregateTools(r) <= Aggregate.tools)
    <2>1. A \subseteq B
      <3> SUFFICES ASSUME NEW q \in Family[r], ~CanCall(q) PROVE ~CanCall(q)'
        OBVIOUS
      <3>1. q \in Tasks /\ Family[q] = Family[r]
        BY FamilyFacts
      <3>2. AggregateTools(q) = AggregateTools(r)
        BY <3>1 DEF AggregateTools, Together
      <3> QED
        BY <3>1, <3>2, <1>6
    <2>2. IsFiniteSet(B) /\ Cardinality(B) \in Nat /\ Cardinality(A) \in Nat
      BY RestCounts
    <2> HIDE DEF A, B
    <2>3. Cardinality(A) <= Cardinality(B)
      BY <2>1, <2>2, FS_Subset
    <2> QED
      BY <1>2, <1>3, <1>4, <2>2, <2>3 DEF B
  <1> QED
    BY <1>5, <1>6

\* A run that could make a call has made one and waits for its check.
LEMMA BoundPushed ==
  ASSUME ReportsTyped, FamilyBounded, NEW r \in Tasks,
         CanCall(r), ~CanCall(r)', tally'[r].tools = tally[r].tools + 1,
         \A q \in Tasks \ {r} : tally'[q].tools = tally[q].tools /\ (CanCall(q)' <=> CanCall(q))
  PROVE  FamilyBounded'
  <1> SUFFICES ASSUME NEW s \in Tasks
               PROVE  AggregateTools(s)' <= Aggregate.tools + Cardinality({q \in Family[s] : ~CanCall(q)'})
    BY DEF FamilyBounded
  <1> DEFINE A == {q \in Family[s] : ~CanCall(q)}
             B == {q \in Family[s] : ~CanCall(q)'}
  <1>1. AggregateTools(s) <= Aggregate.tools + Cardinality(A) /\ Aggregate.tools \in Nat
    BY ReportsAssumption DEF FamilyBounded
  <1>2. AggregateTools(s) = Cardinality(Calls(s)) /\ AggregateTools(s)' = Cardinality(Calls(s)')
    BY AggregateCounts DEF AggregateTools, Together, Calls
  <1>3. IsFiniteSet(Calls(s)) /\ Cardinality(Calls(s)) \in Nat
    BY CallsAreFinite
  <1>4. IsFiniteSet(A) /\ Cardinality(A) \in Nat
    BY RestCounts
  <1>5. CASE r \notin Family[s]
    <2>1. Calls(s)' = Calls(s)
      BY <1>5, FamilyFacts DEF Calls
    <2>2. A = B
      BY <1>5, FamilyFacts
    <2> QED
      BY <1>1, <1>2, <2>1, <2>2
  <1>6. CASE r \in Family[s]
    <2> DEFINE c == <<r, tally[r].tools + 1>>
    <2>0. tally[r].tools \in Nat
      BY DEF ReportsTyped, Tallies
    <2>1. Calls(s)' = Calls(s) \union {c}
      <3>1. \A q \in Family[s] : {<<q, n>> : n \in 1..tally'[q].tools} =
              {<<q, n>> : n \in 1..tally[q].tools} \union (IF q = r THEN {c} ELSE {})
        <4> SUFFICES ASSUME NEW q \in Family[s]
                     PROVE  {<<q, n>> : n \in 1..tally'[q].tools} =
                              {<<q, n>> : n \in 1..tally[q].tools} \union (IF q = r THEN {c} ELSE {})
          OBVIOUS
        <4>1. CASE q = r
          <5>1. 1..(tally[r].tools + 1) = (1..tally[r].tools) \union {tally[r].tools + 1}
            BY <2>0
          <5> QED
            BY <4>1, <5>1
        <4>2. CASE q # r
          BY <4>2, FamilyFacts
        <4> QED
          BY <4>1, <4>2
      <3>2. Calls(s)' = UNION {{<<q, n>> : n \in 1..tally[q].tools} \union (IF q = r THEN {c} ELSE {}) : q \in Family[s]}
        BY <3>1 DEF Calls
      <3> HIDE DEF c
      <3>3. UNION {{<<q, n>> : n \in 1..tally[q].tools} \union (IF q = r THEN {c} ELSE {}) : q \in Family[s]} = Calls(s) \union {c}
        BY <1>6 DEF Calls
      <3> QED
        BY <3>2, <3>3
    <2>2. c \notin Calls(s)
      <3> SUFFICES ASSUME NEW q \in Family[s], NEW n \in 1..tally[q].tools, c = <<q, n>> PROVE FALSE
        BY DEF Calls
      <3> QED
        BY <2>0
    <2>3. B = A \union {r} /\ r \notin A
      BY <1>6, FamilyFacts
    <2> HIDE DEF A, B, c
    <2>4. Cardinality(Calls(s)') = Cardinality(Calls(s)) + 1
      BY <2>1, <2>2, <1>3, FS_AddElement
    <2>5. Cardinality(B) = Cardinality(A) + 1
      BY <2>3, <1>4, FS_AddElement
    <2> QED
      BY <1>1, <1>2, <1>3, <1>4, <2>4, <2>5 DEF B
  <1> QED
    BY <1>5, <1>6

-----------------------------------------------------------------------------
(***************************************************************************)
(* The shape of a step of one run.                                         *)
(***************************************************************************)
Shape(r) ==
    /\ status' = [status EXCEPT ![r] = status'[r]] /\ status'[r] \in Statuses
    /\ live' = [live EXCEPT ![r] = live'[r]] /\ live'[r] \in BOOLEAN
    /\ delivered' = [delivered EXCEPT ![r] = delivered'[r]] /\ delivered'[r] \in Data
    /\ awaiting' = [awaiting EXCEPT ![r] = awaiting'[r]] /\ awaiting'[r] \in {0, 1}
    /\ sink' = [sink EXCEPT ![r] = sink'[r]] /\ sink'[r] \in Sinks
    /\ tally' \in [Tasks -> Tallies] /\ seq' \in Nat /\ \A q \in Tasks \ {r} : tally'[q] = tally[q]

\* The calls of a step: none, and whoever may make one is within the limit, or one by a run that may.
CallsFit(r) ==
    \/ /\ tally'[r].tools = tally[r].tools
       /\ CanCall(r)' => CanCall(r) \/ AggregateTools(r) <= Aggregate.tools
    \/ tally'[r].tools = tally[r].tools + 1 /\ CanCall(r) /\ ~CanCall(r)'

\* New receipts are the run's own or of an artifact.
PapersFit(r) ==
    /\ papers' \subseteq Papers /\ everPromoted' \subseteq Keys
    /\ PapersSound'
    /\ \A p \in papers' : p.key[1] = r \/ \E x \in papers : x.key = p.key

LEMMA RunStepKeeps ==
  ASSUME ReportsInv, NEW r \in Tasks, Shape(r), CallsFit(r), PapersFit(r), RunSound(r)', Unreceipted(r)'
  PROVE  ReportsInv'
  <1>1. ReportsTyped'
    BY DEF ReportsInv, ReportsTyped, Shape, PapersFit
  <1>2. \A q \in Tasks \ {r} : /\ status'[q] = status[q] /\ live'[q] = live[q] /\ delivered'[q] = delivered[q]
                               /\ awaiting'[q] = awaiting[q] /\ sink'[q] = sink[q] /\ tally'[q] = tally[q]
    BY DEF ReportsInv, ReportsTyped, Shape
  <1>3. \A q \in Tasks \ {r} : CanCall(q)' <=> CanCall(q)
    BY <1>2 DEF CanCall, MayReport
  <1>4. \A q \in Tasks : RunSound(q)'
    <2> SUFFICES ASSUME NEW q \in Tasks \ {r} PROVE RunSound(q)'
      OBVIOUS
    <2>1. RunSound(q)
      BY DEF ReportsInv
    <2> QED
      BY <1>2, <1>3, <2>1 DEF RunSound, OneEnd, Ended, Waits, Keeps, Delivers, Within, Usage
  <1>5. \A q \in Tasks : Unreceipted(q)'
    <2> SUFFICES ASSUME NEW q \in Tasks \ {r} PROVE Unreceipted(q)'
      OBVIOUS
    <2>1. Unreceipted(q)
      BY DEF ReportsInv
    <2> QED
      BY <1>2, <2>1 DEF Unreceipted, PapersFit
  <1>6. FamilyBounded'
    <2>1. CASE tally'[r].tools = tally[r].tools /\ (CanCall(r)' => CanCall(r) \/ AggregateTools(r) <= Aggregate.tools)
      <3>1. \A q \in Tasks : tally'[q].tools = tally[q].tools
        BY <1>2, <2>1
      <3>2. \A q \in Tasks : CanCall(q)' => CanCall(q) \/ AggregateTools(q) <= Aggregate.tools
        BY <1>3, <2>1
      <3> QED
        BY <3>1, <3>2, BoundKept DEF ReportsInv
    <2>2. CASE tally'[r].tools = tally[r].tools + 1 /\ CanCall(r) /\ ~CanCall(r)'
      <3>1. \A q \in Tasks \ {r} : tally'[q].tools = tally[q].tools /\ (CanCall(q)' <=> CanCall(q))
        BY <1>2, <1>3
      <3> QED
        BY <2>2, <3>1, BoundPushed DEF ReportsInv
    <2> QED
      BY <2>1, <2>2 DEF CallsFit
  <1> QED
    BY <1>1, <1>4, <1>5, <1>6 DEF ReportsInv, PapersFit

\* A step that makes no receipt.
LEMMA PaperlessStepKeeps ==
  ASSUME ReportsInv, NEW r \in Tasks, Shape(r), CallsFit(r), RunSound(r)', UNCHANGED <<papers, everPromoted>>,
         status'[r] \in {"queued", "running"} \/ sink'[r].pc = "receipt" => status[r] \in {"queued", "running"} \/ sink[r].pc = "receipt"
  PROVE  ReportsInv'
  <1>1. PapersFit(r)
    BY DEF PapersFit, PapersSound, ReportsInv, ReportsTyped
  <1>2. Unreceipted(r)'
    BY DEF ReportsInv, Unreceipted
  <1> QED
    BY <1>1, <1>2, RunStepKeeps

\* What holds of a run before a step, in one place.
LEMMA RunFacts ==
  ASSUME ReportsInv, NEW r \in Tasks
  PROVE  /\ status[r] \in Statuses /\ live[r] \in BOOLEAN /\ tally[r] \in Tallies /\ delivered[r] \in Data
         /\ awaiting[r] \in {0, 1} /\ sink[r] \in Sinks /\ seq \in Nat
         /\ tally[r].ends = (IF Ended(r) THEN 1 ELSE 0) /\ ~tally[r].late
         /\ Waits(r) /\ Keeps(r) /\ Delivers(r) /\ Within(r)
         /\ delivered[r] # NoResult => status[r] = "completed"
         /\ IdleSink \in Sinks /\ IdleSink.pc = "idle"
  <1>1. IdleSink \in Sinks /\ IdleSink.pc = "idle"
    BY DEF IdleSink, Sinks, SinkPlaces, Data
  <1>2. RunSound(r)
    BY DEF ReportsInv
  <1>3. ReportsTyped
    BY DEF ReportsInv
  <1> QED
    BY <1>1, <1>2, <1>3 DEF ReportsTyped, RunSound, OneEnd, Keeps

\* The sink goes to another place.
LEMMA SinkGoes ==
  ASSUME ReportsTyped, NEW r \in Tasks, NEW pc \in SinkPlaces
  PROVE  [sink EXCEPT ![r].pc = pc] = [sink EXCEPT ![r] = [sink[r] EXCEPT !.pc = pc]]
         /\ [sink[r] EXCEPT !.pc = pc] \in Sinks /\ [sink[r] EXCEPT !.pc = pc].pc = pc
         /\ [sink[r] EXCEPT !.pc = pc].data = sink[r].data /\ [sink[r] EXCEPT !.pc = pc].seq = sink[r].seq
  <1>1. sink \in [Tasks -> Sinks] /\ sink[r] \in Sinks
    BY DEF ReportsTyped
  <1>2. [sink[r] EXCEPT !.pc = pc] \in Sinks /\ [sink[r] EXCEPT !.pc = pc].pc = pc
        /\ [sink[r] EXCEPT !.pc = pc].data = sink[r].data /\ [sink[r] EXCEPT !.pc = pc].seq = sink[r].seq
    BY <1>1 DEF Sinks
  <1> QED
    BY <1>1, <1>2

-----------------------------------------------------------------------------
(***************************************************************************)
(* The steps, one lemma for each.                                          *)
(***************************************************************************)
LEMMA DispatchKeeps == ASSUME ReportsInv, NEW r \in Tasks, Dispatch(r) PROVE ReportsInv'
  <1> DEFINE s == [sink[r] EXCEPT !.pc = "dispatch"]
  <1>0. /\ status[r] = "queued" /\ status' = [status EXCEPT ![r] = "running"] /\ sink' = [sink EXCEPT ![r] = s]
        /\ UNCHANGED <<live, tally, seq, delivered, awaiting, papers, everPromoted>>
        /\ s \in Sinks /\ s.pc = "dispatch"
    BY SinkGoes DEF Dispatch, ReportsInv, SinkPlaces
  <1> HIDE DEF s
  <1>1. Shape(r) /\ status'[r] = "running" /\ sink'[r] = s
    BY <1>0, RunFacts DEF Shape, ReportsInv, ReportsTyped, Statuses
  <1>2. ~CanCall(r)'
    BY <1>0, <1>1 DEF CanCall
  <1>3. RunSound(r)'
    BY <1>0, <1>1, <1>2, RunFacts DEF RunSound, OneEnd, Ended, Waits, Keeps, Delivers, Within
  <1>4. CallsFit(r)
    BY <1>0, <1>2 DEF CallsFit
  <1> QED
    BY <1>0, <1>1, <1>3, <1>4, PaperlessStepKeeps

LEMMA StartProviderKeeps == ASSUME ReportsInv, NEW r \in Tasks, StartProvider(r) PROVE ReportsInv'
  <1>0. /\ sink' = [sink EXCEPT ![r] = IdleSink] /\ sink[r].pc = "dispatch"
        /\ live' = [live EXCEPT ![r] = (status[r] = "running")]
        /\ UNCHANGED <<status, tally, seq, delivered, awaiting, papers, everPromoted>>
    BY DEF StartProvider
  <1>b. WithinLimits(Usage(r), PerRun) /\ AggregateTools(r) <= Aggregate.tools
    BY DEF StartProvider, WithinBudget, WithinLimits, AggregateUsage
  <1>1. Shape(r) /\ sink'[r] = IdleSink
    BY <1>0, RunFacts DEF Shape, ReportsInv, ReportsTyped
  <1>3. RunSound(r)'
    BY <1>0, <1>b, <1>1, RunFacts DEF RunSound, OneEnd, Ended, Waits, Keeps, Delivers, Within, Usage
  <1>4. CallsFit(r)
    BY <1>0, <1>b DEF CallsFit
  <1> QED
    BY <1>0, <1>1, <1>3, <1>4, PaperlessStepKeeps DEF IdleSink

LEMMA PushStreamKeeps == ASSUME ReportsInv, NEW r \in Tasks, PushStream(r) PROVE ReportsInv'
  <1> DEFINE s == [sink[r] EXCEPT !.pc = "check"]
  <1>0. /\ sink' = [sink EXCEPT ![r] = s] /\ s \in Sinks /\ s.pc = "check"
        /\ sink[r].pc = "idle" /\ MayReport(r) /\ CanCall(r) /\ status[r] = "running"
        /\ UNCHANGED <<status, live, delivered, awaiting, papers, everPromoted>>
    BY SinkGoes DEF PushStream, Reports, ReportsInv, SinkPlaces, CanCall, MayReport
  <1> HIDE DEF s
  <1>1. PICK kinds \in {{"tool"}, {"frame"}, {"total"}}, total \in Nat : Commits(r, kinds, total)
    <2>1. CASE CommitOne(r, "tool") \/ CommitOne(r, "frame")
      <3>1. Commits(r, {"tool"}, 0) \/ Commits(r, {"frame"}, 0)
        BY <2>1, Zenon DEF CommitOne
      <3> HIDE DEF Commits
      <3> QED
        BY <3>1
    <2>2. CASE \E t \in Totals : Commits(r, {"total"}, t)
      <3>1. PICK t \in Totals : Commits(r, {"total"}, t)
        BY <2>2
      <3> QED
        BY <3>1, ReportsAssumption, Zenon
    <2> QED
      BY <2>1, <2>2 DEF PushStream
  <1>2. IsFiniteSet(kinds)
    BY <1>1, SmallSets
  <1>3. /\ tally' \in [Tasks -> Tallies] /\ seq' \in Nat
        /\ tally'[r] = Count(tally[r], kinds, total)
        /\ \A q \in Tasks \ {r} : tally'[q] = tally[q]
    BY <1>1, <1>2, CommitCounts DEF ReportsInv
  <1>4. /\ tally'[r].tools \in {tally[r].tools, tally[r].tools + 1}
        /\ tally'[r].ends = tally[r].ends
        /\ tally'[r].late <=> (tally[r].late \/ (tally[r].ends > 0 /\ kinds # {"receipt"}))
    BY <1>1, <1>3, RunFacts, CountFields
  <1>5. Shape(r) /\ sink'[r] = s
    BY <1>0, <1>3, RunFacts DEF Shape, ReportsInv, ReportsTyped
  <1>6. ~CanCall(r)'
    BY <1>0, <1>5 DEF CanCall
  <1>7. RunSound(r)'
    BY <1>0, <1>4, <1>5, <1>6, RunFacts DEF RunSound, OneEnd, Ended, Waits, Keeps, Delivers, Within
  <1>8. CallsFit(r)
    BY <1>0, <1>4, <1>6 DEF CallsFit
  <1> QED
    BY <1>0, <1>5, <1>7, <1>8, PaperlessStepKeeps

\* Events that neither end the run nor are calls or totals leave what the budget looks at alone.
LEMMA PlainCommit ==
  ASSUME ReportsInv, NEW r \in Tasks, NEW kinds, IsFiniteSet(kinds), Commits(r, kinds, 0),
         "ended" \notin kinds, "tool" \notin kinds, "total" \notin kinds,
         ~Ended(r) \/ kinds = {"receipt"}
  PROVE  /\ tally' \in [Tasks -> Tallies] /\ seq' \in Nat /\ \A q \in Tasks \ {r} : tally'[q] = tally[q]
         /\ tally'[r].tools = tally[r].tools /\ tally'[r].total = tally[r].total
         /\ tally'[r].ends = tally[r].ends /\ ~tally'[r].late
  <1>1. /\ tally' \in [Tasks -> Tallies] /\ seq' \in Nat
        /\ tally'[r] = Count(tally[r], kinds, 0)
        /\ \A q \in Tasks \ {r} : tally'[q] = tally[q]
    BY CommitCounts DEF ReportsInv
  <1>2. tally[r].ends = (IF Ended(r) THEN 1 ELSE 0) /\ ~tally[r].late /\ tally[r] \in Tallies
    BY RunFacts
  <1> QED
    BY <1>1, <1>2, CountFields

\* The end of a run that has not ended.
LEMMA EndingCommit ==
  ASSUME ReportsInv, NEW r \in Tasks, NEW kinds, IsFiniteSet(kinds), Commits(r, kinds, 0),
         "ended" \in kinds, "tool" \notin kinds, "total" \notin kinds, ~Ended(r)
  PROVE  /\ tally' \in [Tasks -> Tallies] /\ seq' \in Nat /\ \A q \in Tasks \ {r} : tally'[q] = tally[q]
         /\ tally'[r].tools = tally[r].tools /\ tally'[r].total = tally[r].total
         /\ tally'[r].ends = 1 /\ ~tally'[r].late
  <1>1. /\ tally' \in [Tasks -> Tallies] /\ seq' \in Nat
        /\ tally'[r] = Count(tally[r], kinds, 0)
        /\ \A q \in Tasks \ {r} : tally'[q] = tally[q]
    BY CommitCounts DEF ReportsInv
  <1>2. tally[r].ends = 0 /\ ~tally[r].late /\ tally[r] \in Tallies
    BY RunFacts
  <1> QED
    BY <1>1, <1>2, CountFields

LEMMA RecordUsageKeeps == ASSUME ReportsInv, NEW r \in Tasks, RecordUsage(r) PROVE ReportsInv'
  <1>0. status[r] = "running" /\ UNCHANGED <<status, live, delivered, awaiting, papers, sink, everPromoted>>
    BY DEF RecordUsage, Reports, MayReport
  <1>1. PICK k \in {"usage", "activity"} : Commits(r, {k}, 0)
    BY DEF RecordUsage, CommitOne
  <1>2. /\ tally' \in [Tasks -> Tallies] /\ seq' \in Nat /\ \A q \in Tasks \ {r} : tally'[q] = tally[q]
        /\ tally'[r].tools = tally[r].tools /\ tally'[r].total = tally[r].total
        /\ tally'[r].ends = tally[r].ends /\ ~tally'[r].late
    BY <1>0, <1>1, SmallSets, PlainCommit DEF Ended
  <1>3. Shape(r)
    BY <1>0, <1>2, RunFacts DEF Shape, ReportsInv, ReportsTyped
  <1>4. RunSound(r)'
    BY <1>0, <1>2, RunFacts DEF RunSound, OneEnd, Ended, Waits, Keeps, Delivers, Within, Usage, CanCall, MayReport
  <1>5. CallsFit(r)
    BY <1>0, <1>2 DEF CallsFit, CanCall, MayReport
  <1> QED
    BY <1>0, <1>3, <1>4, <1>5, PaperlessStepKeeps

LEMMA ApprovalKeeps == ASSUME ReportsInv, NEW r \in Tasks, RequestApproval(r) \/ ResolveApproval(r) PROVE ReportsInv'
  <1>0. status[r] = "running" /\ UNCHANGED <<status, live, delivered, papers, sink, everPromoted>>
    BY DEF RequestApproval, ResolveApproval, Reports, MayReport
  <1>1. PICK k \in {"asked", "answered"}, n \in {0, 1} : Commits(r, {k}, 0) /\ awaiting' = [awaiting EXCEPT ![r] = n]
    BY DEF RequestApproval, ResolveApproval, CommitOne
  <1>2. /\ tally' \in [Tasks -> Tallies] /\ seq' \in Nat /\ \A q \in Tasks \ {r} : tally'[q] = tally[q]
        /\ tally'[r].tools = tally[r].tools /\ tally'[r].total = tally[r].total
        /\ tally'[r].ends = tally[r].ends /\ ~tally'[r].late
    BY <1>0, <1>1, SmallSets, PlainCommit DEF Ended
  <1>3. Shape(r)
    BY <1>0, <1>1, <1>2, RunFacts DEF Shape, ReportsInv, ReportsTyped
  <1>4. RunSound(r)'
    BY <1>0, <1>2, RunFacts DEF RunSound, OneEnd, Ended, Waits, Keeps, Delivers, Within, Usage, CanCall, MayReport
  <1>5. CallsFit(r)
    BY <1>0, <1>2 DEF CallsFit, CanCall, MayReport
  <1> QED
    BY <1>0, <1>3, <1>4, <1>5, PaperlessStepKeeps

LEMMA CheckBudgetKeeps == ASSUME ReportsInv, NEW r \in Tasks, CheckBudget(r) PROVE ReportsInv'
  <1>0. sink[r].pc = "check" /\ UNCHANGED <<status, tally, seq, delivered, awaiting, papers, everPromoted>>
    BY DEF CheckBudget
  <1>1. CASE WithinBudget(r)
    <2>1. sink' = [sink EXCEPT ![r] = IdleSink] /\ UNCHANGED live
      BY <1>1 DEF CheckBudget
    <2>2. WithinLimits(Usage(r), PerRun) /\ AggregateTools(r) <= Aggregate.tools
      BY <1>1 DEF WithinBudget, WithinLimits, AggregateUsage
    <2>3. Shape(r) /\ sink'[r] = IdleSink
      BY <1>0, <2>1, RunFacts DEF Shape, ReportsInv, ReportsTyped
    <2>4. RunSound(r)'
      BY <1>0, <2>1, <2>2, RunFacts DEF RunSound, OneEnd, Ended, Waits, Keeps, Delivers, Within, Usage
    <2>5. CallsFit(r)
      BY <1>0, <2>2 DEF CallsFit
    <2> QED
      BY <1>0, <2>3, <2>4, <2>5, PaperlessStepKeeps DEF IdleSink
  <1>2. CASE ~WithinBudget(r)
    <2> DEFINE s == [sink[r] EXCEPT !.pc = "exceeded"]
    <2>1. sink' = [sink EXCEPT ![r] = s] /\ live' = [live EXCEPT ![r] = FALSE] /\ s \in Sinks /\ s.pc = "exceeded"
      BY <1>2, SinkGoes DEF CheckBudget, ReportsInv, SinkPlaces
    <2> HIDE DEF s
    <2>3. Shape(r) /\ sink'[r] = s /\ ~CanCall(r)'
      BY <1>0, <2>1, RunFacts DEF Shape, ReportsInv, ReportsTyped, CanCall
    <2>4. RunSound(r)'
      BY <1>0, <2>1, <2>3, RunFacts DEF RunSound, OneEnd, Ended, Waits, Keeps, Delivers, Within
    <2>5. CallsFit(r)
      BY <1>0, <2>3 DEF CallsFit
    <2> QED
      BY <1>0, <2>1, <2>3, <2>4, <2>5, PaperlessStepKeeps
  <1> QED
    BY <1>1, <1>2

LEMMA OverBudgetKeeps == ASSUME ReportsInv, NEW r \in Tasks, OverBudgetAtDispatch(r) PROVE ReportsInv'
  <1> DEFINE s == [sink[r] EXCEPT !.pc = "exceeded"]
  <1>0. /\ sink' = [sink EXCEPT ![r] = s] /\ s \in Sinks /\ s.pc = "exceeded"
        /\ UNCHANGED <<status, live, tally, seq, delivered, awaiting, papers, everPromoted>>
    BY SinkGoes DEF OverBudgetAtDispatch, ReportsInv, SinkPlaces
  <1> HIDE DEF s
  <1>1. Shape(r) /\ sink'[r] = s /\ ~CanCall(r)'
    BY <1>0, RunFacts DEF Shape, ReportsInv, ReportsTyped, CanCall
  <1>2. RunSound(r)'
    BY <1>0, <1>1, RunFacts DEF RunSound, OneEnd, Ended, Waits, Keeps, Delivers, Within
  <1>3. CallsFit(r)
    BY <1>0, <1>1 DEF CallsFit
  <1> QED
    BY <1>0, <1>1, <1>2, <1>3, PaperlessStepKeeps

LEMMA FailForBudgetKeeps == ASSUME ReportsInv, NEW r \in Tasks, FailRunForBudget(r) PROVE ReportsInv'
  <1>0. sink[r].pc = "exceeded" /\ sink' = [sink EXCEPT ![r] = IdleSink] /\ UNCHANGED <<live, delivered, papers, everPromoted>>
    BY DEF FailRunForBudget
  <1>1. CASE status[r] # "running"
    <2>1. UNCHANGED <<status, tally, seq, awaiting>>
      BY <1>1 DEF FailRunForBudget
    <2>2. Shape(r) /\ sink'[r] = IdleSink /\ ~CanCall(r)'
      BY <1>0, <1>1, <2>1, RunFacts DEF Shape, ReportsInv, ReportsTyped, CanCall, MayReport
    <2>3. RunSound(r)'
      BY <1>0, <2>1, <2>2, RunFacts DEF RunSound, OneEnd, Ended, Waits, Keeps, Delivers, Within
    <2>4. CallsFit(r)
      BY <2>1, <2>2 DEF CallsFit
    <2> QED
      BY <1>0, <2>1, <2>2, <2>3, <2>4, PaperlessStepKeeps DEF IdleSink
  <1>2. CASE status[r] = "running"
    <2> DEFINE kinds == {"exceeded", "ended"} \union (IF awaiting[r] = 1 THEN {"answered"} ELSE {})
    <2>1. status' = [status EXCEPT ![r] = "budget"] /\ awaiting' = [awaiting EXCEPT ![r] = 0] /\ Commits(r, kinds, 0)
      BY <1>2 DEF FailRunForBudget
    <2>2. IsFiniteSet(kinds) /\ "ended" \in kinds /\ "tool" \notin kinds /\ "total" \notin kinds
      BY SmallSets
    <2> HIDE DEF kinds
    <2>3. /\ tally' \in [Tasks -> Tallies] /\ seq' \in Nat /\ \A q \in Tasks \ {r} : tally'[q] = tally[q]
          /\ tally'[r].tools = tally[r].tools /\ tally'[r].ends = 1 /\ ~tally'[r].late
      BY <1>2, <2>1, <2>2, EndingCommit DEF Ended
    <2>4. Shape(r) /\ status'[r] = "budget" /\ awaiting'[r] = 0 /\ sink'[r] = IdleSink
      BY <1>0, <2>1, <2>3, RunFacts DEF Shape, ReportsInv, ReportsTyped, Statuses
    <2>5. ~CanCall(r)'
      BY <2>4 DEF CanCall, MayReport
    <2>6. RunSound(r)'
      BY <1>0, <1>2, <2>3, <2>4, <2>5, RunFacts DEF RunSound, OneEnd, Ended, Waits, Keeps, Delivers, Within
    <2>7. CallsFit(r)
      BY <2>3, <2>5 DEF CallsFit
    <2> QED
      BY <1>0, <2>4, <2>6, <2>7, PaperlessStepKeeps DEF IdleSink
  <1> QED
    BY <1>1, <1>2

LEMMA RecordArtifactKeeps == ASSUME ReportsInv, NEW r \in Tasks, RecordArtifact(r) PROVE ReportsInv'
  <1> DEFINE s == [sink[r] EXCEPT !.pc = "artifact"]
  <1>0. /\ sink' = [sink EXCEPT ![r] = s] /\ s \in Sinks /\ s.pc = "artifact" /\ sink[r].pc = "idle"
        /\ UNCHANGED <<status, live, tally, seq, delivered, awaiting, papers, everPromoted>>
    BY SinkGoes DEF RecordArtifact, Reports, ReportsInv, SinkPlaces
  <1> HIDE DEF s
  <1>1. Shape(r) /\ sink'[r] = s
    BY <1>0, RunFacts DEF Shape, ReportsInv, ReportsTyped
  <1>2. CanCall(r)' => CanCall(r)
    BY <1>0 DEF CanCall, MayReport
  <1>3. RunSound(r)'
    BY <1>0, <1>1, <1>2, RunFacts DEF RunSound, OneEnd, Ended, Waits, Keeps, Delivers, Within, Usage
  <1>4. CallsFit(r)
    BY <1>0, <1>2 DEF CallsFit
  <1> QED
    BY <1>0, <1>1, <1>3, <1>4, PaperlessStepKeeps

LEMMA CompletionAnnouncedKeeps == ASSUME ReportsInv, NEW r \in Tasks, CompletionAnnounced(r) PROVE ReportsInv'
  <1>0. sink[r].pc = "announce" /\ UNCHANGED <<status, live, delivered, awaiting, papers, everPromoted>>
    BY DEF CompletionAnnounced
  <1>1. PICK pc \in {"advance", "stuck"} :
          sink' = [sink EXCEPT ![r].pc = pc] /\ (CommitOne(r, "receipt") \/ UNCHANGED <<tally, seq>>)
    BY DEF CompletionAnnounced
  <1> DEFINE s == [sink[r] EXCEPT !.pc = pc]
  <1>2. sink' = [sink EXCEPT ![r] = s] /\ s \in Sinks /\ s.pc = pc
    <2>1. pc \in SinkPlaces /\ ReportsTyped
      BY DEF ReportsInv, SinkPlaces
    <2> QED
      BY <1>1, <2>1, SinkGoes
  <1> HIDE DEF s
  <1>3. /\ tally' \in [Tasks -> Tallies] /\ seq' \in Nat /\ \A q \in Tasks \ {r} : tally'[q] = tally[q]
        /\ tally'[r].tools = tally[r].tools
        /\ tally'[r].ends = tally[r].ends /\ ~tally'[r].late
    <2>1. CASE CommitOne(r, "receipt")
      <3>1. Commits(r, {"receipt"}, 0)
        BY <2>1 DEF CommitOne
      <3>2. IsFiniteSet({"receipt"})
        BY SmallSets
      <3> QED
        BY <3>1, <3>2, PlainCommit
    <2>2. CASE UNCHANGED <<tally, seq>>
      BY <2>2, RunFacts DEF ReportsInv, ReportsTyped
    <2> QED
      BY <1>1, <2>1, <2>2
  <1>4. Shape(r) /\ sink'[r] = s
    BY <1>0, <1>2, <1>3, RunFacts DEF Shape, ReportsInv, ReportsTyped
  <1>5. ~CanCall(r)'
    BY <1>2, <1>4 DEF CanCall
  <1>6. RunSound(r)'
    BY <1>0, <1>1, <1>2, <1>3, <1>4, <1>5, RunFacts DEF RunSound, OneEnd, Ended, Waits, Keeps, Delivers, Within
  <1>7. CallsFit(r)
    BY <1>3, <1>5 DEF CallsFit
  <1> QED
    BY <1>0, <1>2, <1>4, <1>6, <1>7, PaperlessStepKeeps

LEMMA AdvanceKeeps == ASSUME ReportsInv, NEW r \in Tasks, Advance(r) PROVE ReportsInv'
  <1>0. /\ sink' = [sink EXCEPT ![r] = IdleSink] /\ live' = [live EXCEPT ![r] = FALSE]
        /\ UNCHANGED <<status, tally, seq, delivered, awaiting, papers, everPromoted>>
    BY DEF Advance
  <1>1. Shape(r) /\ ~CanCall(r)' /\ sink'[r] = IdleSink
    BY <1>0, RunFacts DEF Shape, ReportsInv, ReportsTyped, CanCall, MayReport
  <1>2. RunSound(r)'
    BY <1>0, <1>1, RunFacts DEF RunSound, OneEnd, Ended, Waits, Keeps, Delivers, Within
  <1>3. CallsFit(r)
    BY <1>0, <1>1 DEF CallsFit
  <1> QED
    BY <1>0, <1>1, <1>2, <1>3, PaperlessStepKeeps DEF IdleSink

-----------------------------------------------------------------------------
(***************************************************************************)
(* The steps that end a run.                                               *)
(***************************************************************************)
LEMMA CompleteKeeps == ASSUME ReportsInv, NEW r \in Tasks, NEW c \in Data, Complete(r, c) PROVE ReportsInv'
  <1> DEFINE ok == ValidPayload(r, c)
             s == [pc |-> "receipt", data |-> c, seq |-> seq + 1]
  <1>0. status[r] = "running" /\ UNCHANGED <<live, awaiting, papers, everPromoted>> /\ Commits(r, {"ended"}, 0)
    BY DEF Complete, Reports, MayReport, CommitOne
  <1>1. /\ status' = [status EXCEPT ![r] = IF ok THEN "completed" ELSE "failed"]
        /\ delivered' = [delivered EXCEPT ![r] = IF ok THEN c ELSE NoResult]
        /\ sink' = [sink EXCEPT ![r] = s]
    BY DEF Complete
  <1>2. s \in Sinks /\ s.pc = "receipt"
    BY RunFacts DEF Sinks, SinkPlaces
  <1>3. /\ tally' \in [Tasks -> Tallies] /\ seq' \in Nat /\ \A q \in Tasks \ {r} : tally'[q] = tally[q]
        /\ tally'[r].tools = tally[r].tools /\ tally'[r].ends = 1 /\ ~tally'[r].late
    <2>1. IsFiniteSet({"ended"}) /\ ~Ended(r)
      BY <1>0, SmallSets DEF Ended
    <2> QED
      BY <1>0, <2>1, EndingCommit
  <1> HIDE DEF s, ok
  <1>4. /\ status'[r] = (IF ok THEN "completed" ELSE "failed") /\ delivered'[r] = (IF ok THEN c ELSE NoResult)
        /\ sink'[r] = s
    BY <1>1 DEF ReportsInv, ReportsTyped
  <1>5. Shape(r)
    BY <1>0, <1>1, <1>2, <1>3, <1>4, RunFacts DEF Shape, ReportsInv, ReportsTyped, Statuses, Data
  <1>6. ~CanCall(r)'
    BY <1>4 DEF CanCall, MayReport
  <1>7. Keeps(r)'
    <2>1. CASE ok
      <3>1. status'[r] = "completed" /\ delivered'[r] = c /\ ValidPayload(r, c)
        BY <1>4, <2>1 DEF ok
      <3>2. ValidPayload(r, delivered'[r])
        BY <3>1, Zenon
      <3>3. ValidPayload(r, delivered[r])'
        BY <3>2, Zenon DEF ValidPayload
      <3> QED
        BY <3>1, <3>3 DEF Keeps
    <2>2. CASE ~ok
      BY <1>4, <2>2 DEF Keeps
    <2> QED
      BY <2>1, <2>2
  <1>8. RunSound(r)'
    BY <1>2, <1>3, <1>4, <1>6, <1>7 DEF RunSound, OneEnd, Ended, Waits, Delivers, Within
  <1>9. CallsFit(r)
    BY <1>3, <1>6 DEF CallsFit
  <1> QED
    BY <1>0, <1>5, <1>8, <1>9, PaperlessStepKeeps

LEMMA FailRunKeeps == ASSUME ReportsInv, NEW r \in Tasks, FailRun(r) PROVE ReportsInv'
  <1> DEFINE s == [sink[r] EXCEPT !.pc = "advance"]
  <1>0. /\ status[r] = "running" /\ UNCHANGED <<live, delivered, awaiting, papers, everPromoted>> /\ Commits(r, {"ended"}, 0)
        /\ status' = [status EXCEPT ![r] = "failed"]
    BY DEF FailRun, Reports, MayReport, CommitOne
  <1>1. sink' = [sink EXCEPT ![r] = s] /\ s \in Sinks /\ s.pc = "advance"
    BY SinkGoes DEF FailRun, ReportsInv, SinkPlaces
  <1> HIDE DEF s
  <1>3. /\ tally' \in [Tasks -> Tallies] /\ seq' \in Nat /\ \A q \in Tasks \ {r} : tally'[q] = tally[q]
        /\ tally'[r].tools = tally[r].tools /\ tally'[r].ends = 1 /\ ~tally'[r].late
    <2>1. IsFiniteSet({"ended"}) /\ ~Ended(r)
      BY <1>0, SmallSets DEF Ended
    <2> QED
      BY <1>0, <2>1, EndingCommit
  <1>4. Shape(r) /\ status'[r] = "failed" /\ sink'[r] = s
    BY <1>0, <1>1, <1>3, RunFacts DEF Shape, ReportsInv, ReportsTyped, Statuses
  <1>5. ~CanCall(r)'
    BY <1>4 DEF CanCall, MayReport
  <1>6. RunSound(r)'
    BY <1>0, <1>1, <1>3, <1>4, <1>5, RunFacts DEF RunSound, OneEnd, Ended, Waits, Keeps, Delivers, Within
  <1>7. CallsFit(r)
    BY <1>3, <1>5 DEF CallsFit
  <1> QED
    BY <1>0, <1>1, <1>4, <1>6, <1>7, PaperlessStepKeeps

LEMMA CancelRunKeeps == ASSUME ReportsInv, NEW r \in Tasks, CancelRun(r) PROVE ReportsInv'
  <1>0. /\ status[r] = "running" /\ UNCHANGED <<delivered, papers, sink, everPromoted>> /\ Commits(r, {"ended"}, 0)
        /\ status' = [status EXCEPT ![r] = "cancelled"] /\ live' = [live EXCEPT ![r] = FALSE]
        /\ awaiting' = [awaiting EXCEPT ![r] = 0]
    BY DEF CancelRun, CommitOne
  <1>3. /\ tally' \in [Tasks -> Tallies] /\ seq' \in Nat /\ \A q \in Tasks \ {r} : tally'[q] = tally[q]
        /\ tally'[r].tools = tally[r].tools /\ tally'[r].ends = 1 /\ ~tally'[r].late
    <2>1. IsFiniteSet({"ended"}) /\ ~Ended(r)
      BY <1>0, SmallSets DEF Ended
    <2> QED
      BY <1>0, <2>1, EndingCommit
  <1>4. Shape(r) /\ status'[r] = "cancelled"
    BY <1>0, <1>3, RunFacts DEF Shape, ReportsInv, ReportsTyped, Statuses
  <1>5. ~CanCall(r)'
    BY <1>4 DEF CanCall, MayReport
  <1>6. RunSound(r)'
    BY <1>0, <1>3, <1>4, <1>5, RunFacts DEF RunSound, OneEnd, Ended, Waits, Keeps, Delivers, Within
  <1>7. CallsFit(r)
    BY <1>3, <1>5 DEF CallsFit
  <1> QED
    BY <1>0, <1>4, <1>6, <1>7, PaperlessStepKeeps

LEMMA RebootKeeps == ASSUME ReportsInv, Reboot PROVE ReportsInv'
  <1>t. ReportsTyped
    BY DEF ReportsInv
  <1>0. /\ UNCHANGED <<delivered, papers, everPromoted>>
        /\ live' = [r \in Tasks |-> FALSE] /\ sink' = [r \in Tasks |-> IdleSink] /\ awaiting' = [r \in Tasks |-> 0]
        /\ status' = [r \in Tasks |-> IF status[r] = "running" THEN "failed" ELSE status[r]]
        /\ tally' = [r \in Tasks |-> IF status[r] = "running" THEN Count(tally[r], {"ended"}, 0) ELSE tally[r]]
    BY DEF Reboot
  <1>1. seq' \in Nat
    <2>1. IsFiniteSet({r \in Tasks : status[r] = "running"})
      BY ReportsAssumption, FS_Subset
    <2> QED
      BY <2>1, <1>t, FS_CardinalityType DEF Reboot, ReportsTyped
  <1>2. ASSUME NEW r \in Tasks
        PROVE  /\ tally'[r] \in Tallies /\ tally'[r].tools = tally[r].tools /\ RunSound(r)' /\ ~CanCall(r)'
               /\ status'[r] \in Statuses /\ sink'[r] = IdleSink
               /\ status'[r] \in {"queued", "running"} => status[r] \in {"queued", "running"}
    <2>1. tally[r] \in Tallies /\ tally[r].ends = (IF Ended(r) THEN 1 ELSE 0) /\ ~tally[r].late /\ status[r] \in Statuses
      BY RunFacts
    <2>2. sink'[r] = IdleSink /\ ~live'[r] /\ awaiting'[r] = 0 /\ delivered'[r] = delivered[r]
      BY <1>0
    <2>3. ~CanCall(r)'
      BY <2>2 DEF CanCall, MayReport
    <2>4. CASE status[r] = "running"
      <3>1. status'[r] = "failed" /\ tally'[r] = Count(tally[r], {"ended"}, 0)
        BY <1>0, <2>4
      <3>2. tally'[r] \in Tallies /\ tally'[r].tools = tally[r].tools /\ tally'[r].ends = 1 /\ ~tally'[r].late
        BY <2>1, <2>4, <3>1, CountFields DEF Ended
      <3>3. RunSound(r)'
        BY <2>2, <2>3, <2>4, <3>1, <3>2, RunFacts DEF RunSound, OneEnd, Ended, Waits, Keeps, Delivers, Within
      <3> QED
        BY <2>2, <2>3, <2>4, <3>1, <3>2, <3>3 DEF Statuses
    <2>5. CASE status[r] # "running"
      <3>1. status'[r] = status[r] /\ tally'[r] = tally[r]
        BY <1>0, <2>5
      <3>3. RunSound(r)'
        BY <1>0, <2>1, <2>2, <2>3, <3>1, RunFacts DEF RunSound, OneEnd, Ended, Waits, Keeps, Delivers, Within
      <3> QED
        BY <2>1, <2>2, <2>3, <3>1, <3>3
    <2> QED
      BY <2>4, <2>5
  <1>3. ReportsTyped'
    <2>1. status' \in [Tasks -> Statuses] /\ tally' \in [Tasks -> Tallies]
      BY <1>0, <1>2
    <2>2. live' \in [Tasks -> BOOLEAN] /\ sink' \in [Tasks -> Sinks] /\ awaiting' \in [Tasks -> {0, 1}]
      BY <1>0, RunFacts
    <2> QED
      BY <1>0, <1>1, <1>t, <2>1, <2>2 DEF ReportsTyped
  <1>4. \A r \in Tasks : Unreceipted(r)'
    BY <1>0, <1>2, RunFacts DEF ReportsInv, Unreceipted
  <1>5. FamilyBounded'
    BY <1>2, BoundKept DEF ReportsInv
  <1>6. PapersSound'
    BY <1>0 DEF ReportsInv, PapersSound
  <1> QED
    BY <1>2, <1>3, <1>4, <1>5, <1>6 DEF ReportsInv

-----------------------------------------------------------------------------
(***************************************************************************)
(* Receipts.                                                               *)
(***************************************************************************)
\* A receipt is made unless its key has one.
LEMMA CreatedFits ==
  ASSUME ReportsInv, NEW r \in Tasks, NEW key \in Keys,
         NEW kind \in {"summary", "patch", "reviewFinding", "testOutput", "artifact"}
  PROVE  LET new == Created(key, r, kind) IN
         /\ new \subseteq Papers /\ papers \subseteq new
         /\ \E x \in new : x.key = key
         /\ \A p \in new : p \in papers \/ p.key = key
         /\ \A p \in new : p.key \in everPromoted => p.state = "promoted"
  <1> DEFINE x == BuildReturnedReceipt(key, r, kind)
  <1>1. x \in Papers /\ x.key = key
    BY DEF BuildReturnedReceipt, Papers
  <1> HIDE DEF x
  <1>2. CASE ReceiptByUniqueKey(key) # {}
    <2>1. Created(key, r, kind) = papers
      BY <1>2 DEF Created
    <2>2. \E p \in papers : p.key = key
      BY <1>2 DEF ReceiptByUniqueKey
    <2> QED
      BY <2>1, <2>2 DEF ReportsInv, ReportsTyped, PapersSound
  <1>3. CASE ReceiptByUniqueKey(key) = {}
    <2>1. Created(key, r, kind) = papers \union {x}
      BY <1>3 DEF Created, InsertReceipt, x
    <2>2. \A p \in papers : p.key # key
      BY <1>3 DEF ReceiptByUniqueKey
    <2>3. key \notin everPromoted
      BY <2>2 DEF ReportsInv, PapersSound
    <2> QED
      BY <1>1, <2>1, <2>3 DEF ReportsInv, ReportsTyped, PapersSound
  <1> QED
    BY <1>2, <1>3

\* The receipts of a key get a state, and the others are left alone.
Restated(ps, new, key, state) ==
    /\ new \subseteq Papers
    /\ \A p \in new : \E x \in ps : x.key = p.key /\ (p.key = key => p.state = state) /\ (p.key # key => p = x)
    /\ \A x \in ps : \E p \in new : p.key = x.key

LEMMA WithFits ==
  ASSUME NEW ps \in SUBSET Papers, NEW key, NEW state \in {"promoted", "quarantined"}
  PROVE  Restated(ps, With(ps, key, state), key, state)
  <1> DEFINE New(p) == IF p.key = key THEN [p EXCEPT !.state = state] ELSE p
  <1>1. ASSUME NEW p \in ps
        PROVE  New(p) \in Papers /\ New(p).key = p.key /\ (p.key = key => New(p).state = state) /\ (p.key # key => New(p) = p)
    <2>1. p \in Papers
      OBVIOUS
    <2> QED
      BY <2>1 DEF Papers
  <1>2. With(ps, key, state) = {New(p) : p \in ps}
    BY DEF With
  <1> HIDE DEF New
  <1> QED
    BY <1>1, <1>2 DEF Restated

LEMMA CommitArtifactKeeps == ASSUME ReportsInv, NEW r \in Tasks, CommitArtifact(r) PROVE ReportsInv'
  <1>0. /\ sink[r].pc = "artifact" /\ sink' = [sink EXCEPT ![r] = IdleSink]
        /\ UNCHANGED <<status, live, delivered, awaiting, everPromoted>>
    BY DEF CommitArtifact
  <1>1. /\ tally' \in [Tasks -> Tallies] /\ seq' \in Nat /\ \A q \in Tasks \ {r} : tally'[q] = tally[q]
        /\ tally'[r].tools = tally[r].tools /\ tally'[r].total = tally[r].total
        /\ tally'[r].ends = tally[r].ends /\ ~tally'[r].late
    <2>1. CASE status[r] # "running"
      <3>1. UNCHANGED <<tally, seq>>
        BY <2>1 DEF CommitArtifact
      <3> QED
        BY <3>1, RunFacts DEF ReportsInv, ReportsTyped
    <2>2. CASE status[r] = "running"
      <3>1. Commits(r, {"artifact"}, 0) \/ Commits(r, {"artifact", "receipt"}, 0)
        BY <2>2 DEF CommitArtifact, AppendArtifactReceipt, CommitOne
      <3>2. ~Ended(r) /\ IsFiniteSet({"artifact"}) /\ IsFiniteSet({"artifact", "receipt"})
        BY <2>2, SmallSets DEF Ended
      <3>3. CASE Commits(r, {"artifact"}, 0)
        BY <3>2, <3>3, PlainCommit
      <3>4. CASE Commits(r, {"artifact", "receipt"}, 0)
        BY <3>2, <3>4, PlainCommit
      <3> QED
        BY <3>1, <3>3, <3>4
    <2> QED
      BY <2>1, <2>2
  <1>2. Shape(r) /\ sink'[r] = IdleSink
    BY <1>0, <1>1, RunFacts DEF Shape, ReportsInv, ReportsTyped
  <1>3. CanCall(r)' => CanCall(r)
    BY <1>0 DEF CanCall, MayReport
  <1>4. RunSound(r)'
    BY <1>0, <1>1, <1>2, <1>3, RunFacts DEF RunSound, OneEnd, Ended, Waits, Keeps, Delivers, Within, Usage
  <1>5. CallsFit(r)
    BY <1>1, <1>3 DEF CallsFit
  <1>6. CASE UNCHANGED papers
    BY <1>0, <1>2, <1>4, <1>5, <1>6, PaperlessStepKeeps DEF IdleSink
  <1>7. CASE papers' = Created(ArtifactKey(r), r, "patch")
    <2> DEFINE key == ArtifactKey(r)
    <2>1. key \in Keys /\ key[1] = r /\ key[3] = "artifact"
      BY DEF ArtifactKey, Key, Keys, ReportsInv, ReportsTyped
    <2> HIDE DEF key
    <2>2. /\ papers' \subseteq Papers /\ papers \subseteq papers'
          /\ \A p \in papers' : p \in papers \/ p.key = key
          /\ \A p \in papers' : p.key \in everPromoted => p.state = "promoted"
      BY <1>7, <2>1, CreatedFits DEF key
    <2>3. PapersFit(r)
      BY <1>0, <2>1, <2>2 DEF PapersFit, PapersSound, ReportsInv, ReportsTyped
    <2>4. Unreceipted(r)'
      BY <1>0, <1>2, <2>1, <2>2, RunFacts DEF ReportsInv, Unreceipted
    <2> QED
      BY <1>2, <1>4, <1>5, <2>3, <2>4, RunStepKeeps
  <1>8. UNCHANGED papers \/ papers' = Created(ArtifactKey(r), r, "patch")
    BY DEF CommitArtifact, AppendArtifactReceipt
  <1> QED
    BY <1>6, <1>7, <1>8

LEMMA CompletionPaperKeeps == ASSUME ReportsInv, NEW r \in Tasks, CompletionPaper(r) PROVE ReportsInv'
  <1>0. sink[r].pc = "receipt" /\ UNCHANGED <<status, live, tally, seq, delivered, awaiting>>
    BY DEF CompletionPaper
  <1>1. Ended(r) /\ status[r] \notin {"queued", "running"}
    BY <1>0, RunFacts DEF Delivers, Ended
  <1>2. PICK pc \in {"advance", "announce", "stuck"} : sink' = [sink EXCEPT ![r].pc = pc]
    BY DEF CompletionPaper
  <1> DEFINE s == [sink[r] EXCEPT !.pc = pc]
  <1>3. sink' = [sink EXCEPT ![r] = s] /\ s \in Sinks /\ s.pc = pc
    <2>1. pc \in SinkPlaces /\ ReportsTyped
      BY DEF ReportsInv, SinkPlaces
    <2> QED
      BY <1>2, <2>1, SinkGoes
  <1> HIDE DEF s
  <1>4. Shape(r) /\ sink'[r] = s /\ status'[r] = status[r]
    BY <1>0, <1>3, RunFacts DEF Shape, ReportsInv, ReportsTyped
  <1>5. ~CanCall(r)'
    BY <1>2, <1>3, <1>4 DEF CanCall
  <1>6. RunSound(r)'
    BY <1>0, <1>2, <1>3, <1>4, <1>5, RunFacts DEF RunSound, OneEnd, Ended, Waits, Keeps, Delivers, Within
  <1>7. CallsFit(r)
    BY <1>0, <1>5 DEF CallsFit
  <1>8. Unreceipted(r)'
    BY <1>1, <1>2, <1>3, <1>4 DEF Unreceipted
  <1>9. PapersFit(r)
    <2> DEFINE kind == CompletionKind(r)
               key == Key(r, ReceiptKind(kind), IF Sources[r] = "subagent" THEN "turn" ELSE "free", sink[r].seq)
               to == IF status[r] = "completed" THEN "promoted" ELSE "quarantined"
               new == Created(key, r, ReceiptKind(kind))
    <2>1. CASE UNCHANGED <<papers, everPromoted>>
      BY <2>1 DEF PapersFit, PapersSound, ReportsInv, ReportsTyped
    <2>2. CASE papers' = With(new, key, to) /\ Promotes(key, to)
      <3>1. ReceiptKind(kind) \in {"summary", "patch", "reviewFinding", "testOutput", "artifact"}
        BY DEF ReceiptKind
      <3>2. key \in Keys /\ key[1] = r /\ key[3] \in {"turn", "free"}
        BY <3>1, RunFacts DEF Key, Keys, Sinks
      <3>3. to \in {"promoted", "quarantined"}
        OBVIOUS
      <3>4. everPromoted' = IF to = "promoted" THEN everPromoted \union {key} ELSE everPromoted
        BY <2>2 DEF Promotes
      <3>5. \A p \in papers : p.key # key
        BY <1>0, <3>2 DEF ReportsInv, Unreceipted
      <3> HIDE DEF key, to, kind
      <3>6. /\ new \subseteq Papers /\ papers \subseteq new
            /\ \E x \in new : x.key = key
            /\ \A p \in new : p \in papers \/ p.key = key
            /\ \A p \in new : p.key \in everPromoted => p.state = "promoted"
        BY <3>1, <3>2, CreatedFits
      <3> HIDE DEF new
      <3>7. /\ papers' \subseteq Papers
            /\ \A p \in papers' : \E x \in new : x.key = p.key /\ (p.key = key => p.state = to) /\ (p.key # key => p = x)
            /\ \A x \in new : \E p \in papers' : p.key = x.key
        <4>1. papers' = With(new, key, to) /\ new \in SUBSET Papers
          BY <2>2, <3>6
        <4>2. Restated(new, With(new, key, to), key, to)
          BY <3>3, <4>1, WithFits, Zenon
        <4> QED
          BY <4>1, <4>2 DEF Restated
      <3>8. key \notin everPromoted
        BY <3>5 DEF ReportsInv, PapersSound
      <3>9. everPromoted' \subseteq {p.key : p \in papers'}
        <4> SUFFICES ASSUME NEW k \in everPromoted' PROVE \E p \in papers' : p.key = k
          OBVIOUS
        <4>1. CASE k = key
          BY <3>6, <3>7, <4>1
        <4>2. CASE k # key
          <5>1. PICK x \in papers : x.key = k
            BY <3>4, <4>2 DEF ReportsInv, PapersSound
          <5> QED
            BY <3>6, <3>7, <5>1
        <4> QED
          BY <4>1, <4>2
      <3>10. \A p \in papers' : p.key \in everPromoted' => p.state = "promoted"
        <4> SUFFICES ASSUME NEW p \in papers', p.key \in everPromoted' PROVE p.state = "promoted"
          OBVIOUS
        <4>1. PICK x \in new : x.key = p.key /\ (p.key = key => p.state = to) /\ (p.key # key => p = x)
          BY <3>7
        <4> QED
          BY <3>4, <3>6, <3>8, <4>1
      <3>11. everPromoted' \subseteq Keys
        BY <3>2, <3>4 DEF ReportsInv, ReportsTyped
      <3>12. \A p \in papers' : p.key[1] = r \/ \E x \in papers : x.key = p.key
        BY <3>2, <3>6, <3>7
      <3> QED
        BY <3>7, <3>9, <3>10, <3>11, <3>12 DEF PapersFit, PapersSound
    <2> QED
      BY <2>1, <2>2 DEF CompletionPaper
  <1> QED
    BY <1>4, <1>6, <1>7, <1>8, <1>9, RunStepKeeps

LEMMA TransitionKeeps ==
  ASSUME ReportsInv, NEW p \in papers, NEW to \in {"promoted", "quarantined"}, TransitionReceipt(p.key, to)
  PROVE  ReportsInv'
  <1>0. PaperOf(papers, p.key) \in papers /\ PaperOf(papers, p.key).key = p.key
    BY DEF PaperOf
  <1>1. PICK x \in papers : x = PaperOf(papers, p.key) /\ x.key = p.key
    BY <1>0
  <1>r. x \in Papers /\ p \in Papers
    BY DEF ReportsInv, ReportsTyped
  <1>k. PICK key \in Keys, r \in Tasks, next \in {Settled(x.state, to)} : key = p.key /\ r = x.run
    BY <1>r DEF Papers
  <1>2. r \in Tasks /\ key \in Keys /\ x.key = key /\ x.state \in {"returned", "promoted", "quarantined"}
    BY <1>1, <1>r, <1>k DEF Papers
  <1>3. /\ next # "refused" /\ papers' = With(papers, key, next) /\ Promotes(key, next)
        /\ CommitOne(r, "receipt") \/ UNCHANGED <<tally, seq>>
        /\ UNCHANGED <<status, live, delivered, awaiting, sink>>
    BY <1>1, <1>k DEF TransitionReceipt
  <1>4. next \in {"promoted", "quarantined"} /\ (next = "quarantined" => x.state # "promoted")
    BY <1>2, <1>3, <1>k DEF Settled
  <1>5. x.key \in everPromoted => x.state = "promoted"
    BY <1>1 DEF ReportsInv, PapersSound
  <1>6. /\ tally' \in [Tasks -> Tallies] /\ seq' \in Nat /\ \A q \in Tasks \ {r} : tally'[q] = tally[q]
        /\ tally'[r].tools = tally[r].tools /\ tally'[r].total = tally[r].total
        /\ tally'[r].ends = tally[r].ends /\ ~tally'[r].late
    <2>1. CASE CommitOne(r, "receipt")
      <3>1. Commits(r, {"receipt"}, 0) /\ IsFiniteSet({"receipt"})
        BY <2>1, SmallSets DEF CommitOne
      <3> QED
        BY <1>2, <3>1, PlainCommit
    <2>2. CASE UNCHANGED <<tally, seq>>
      BY <1>2, <2>2, RunFacts DEF ReportsInv, ReportsTyped
    <2> QED
      BY <1>3, <2>1, <2>2
  <1>7. Shape(r)
    BY <1>2, <1>3, <1>6, RunFacts DEF Shape, ReportsInv, ReportsTyped
  <1>8. RunSound(r)'
    BY <1>2, <1>3, <1>6, RunFacts DEF RunSound, OneEnd, Ended, Waits, Keeps, Delivers, Within, Usage, CanCall, MayReport
  <1>9. CallsFit(r)
    BY <1>3, <1>6 DEF CallsFit, CanCall, MayReport
  <1>10. /\ papers' \subseteq Papers
         /\ \A q \in papers' : \E y \in papers : y.key = q.key /\ (q.key = key => q.state = next) /\ (q.key # key => q = y)
         /\ \A y \in papers : \E q \in papers' : q.key = y.key
    <2>1. papers \in SUBSET Papers
      BY DEF ReportsInv, ReportsTyped
    <2>2. Restated(papers, With(papers, key, next), key, next)
      BY <1>4, <2>1, WithFits, Zenon
    <2> QED
      BY <1>3, <2>2 DEF Restated
  <1>11. everPromoted' = IF next = "promoted" THEN everPromoted \union {key} ELSE everPromoted
    BY <1>3 DEF Promotes
  <1>12. PapersFit(r)
    <2>1. everPromoted' \subseteq {q.key : q \in papers'}
      <3> SUFFICES ASSUME NEW k \in everPromoted' PROVE \E q \in papers' : q.key = k
        OBVIOUS
      <3>1. \E y \in papers : y.key = k
        BY <1>2, <1>11 DEF ReportsInv, PapersSound
      <3> QED
        BY <1>10, <3>1
    <2>2. \A q \in papers' : q.key \in everPromoted' => q.state = "promoted"
      <3> SUFFICES ASSUME NEW q \in papers', q.key \in everPromoted' PROVE q.state = "promoted"
        OBVIOUS
      <3>1. PICK y \in papers : y.key = q.key /\ (q.key = key => q.state = next) /\ (q.key # key => q = y)
        BY <1>10
      <3>2. CASE q.key = key
        BY <1>2, <1>4, <1>5, <1>11, <3>1, <3>2
      <3>3. CASE q.key # key
        BY <1>11, <3>1, <3>3 DEF ReportsInv, PapersSound
      <3> QED
        BY <3>2, <3>3
    <2>3. everPromoted' \subseteq Keys
      BY <1>2, <1>11 DEF ReportsInv, ReportsTyped
    <2> QED
      BY <1>10, <2>1, <2>2, <2>3 DEF PapersFit, PapersSound
  <1>13. Unreceipted(r)'
    BY <1>2, <1>3, <1>10 DEF ReportsInv, Unreceipted
  <1> QED
    BY <1>2, <1>7, <1>8, <1>9, <1>12, <1>13, RunStepKeeps

-----------------------------------------------------------------------------
LEMMA ReportsStart == ReportInit => ReportsInv
  <1> SUFFICES ASSUME ReportInit PROVE ReportsInv
    OBVIOUS
  <1>t. ReportsTyped
    BY DEF ReportInit, ReportsTyped, Statuses, Tallies, Data, Sinks, SinkPlaces, IdleSink
  <1>1. ASSUME NEW r \in Tasks
        PROVE  /\ status[r] = "queued" /\ tally[r].tools = 0 /\ tally[r].ends = 0 /\ ~tally[r].late
               /\ delivered[r] = NoResult /\ sink[r].pc = "idle"
    BY DEF ReportInit, IdleSink
  <1>2. \A r \in Tasks : RunSound(r)
    BY <1>1 DEF RunSound, OneEnd, Ended, Waits, Keeps, Delivers, Within, CanCall, MayReport
  <1>3. \A r \in Tasks : Unreceipted(r)
    BY DEF ReportInit, Unreceipted
  <1>4. FamilyBounded
    <2> SUFFICES ASSUME NEW r \in Tasks
                 PROVE  AggregateTools(r) <= Aggregate.tools + Cardinality({q \in Family[r] : ~CanCall(q)})
      BY DEF FamilyBounded
    <2>1. Calls(r) = {}
      BY <1>1, FamilyFacts DEF Calls
    <2>2. AggregateTools(r) = 0
      BY <2>1, AggregateCounts, FS_EmptySet
    <2>3. Cardinality({q \in Family[r] : ~CanCall(q)}) \in Nat
      BY RestCounts
    <2> QED
      BY <2>2, <2>3, ReportsAssumption
  <1>5. PapersSound
    BY DEF ReportInit, PapersSound
  <1> QED
    BY <1>t, <1>2, <1>3, <1>4, <1>5 DEF ReportsInv

LEMMA ReportStepKeeps == ReportsInv /\ [ReportNext]_reportVars => ReportsInv'
  <1> SUFFICES ASSUME ReportsInv, [ReportNext]_reportVars PROVE ReportsInv'
    OBVIOUS
  <1>1. CASE UNCHANGED reportVars
    <2>1. ReportsTyped' /\ PapersSound'
      BY <1>1 DEF ReportsInv, reportVars, ReportsTyped, PapersSound
    <2>2. \A r \in Tasks : RunSound(r)' /\ Unreceipted(r)'
      BY <1>1 DEF ReportsInv, reportVars, RunSound, OneEnd, Ended, Waits, Keeps, Delivers, Within, CanCall, MayReport, Usage, Unreceipted
    <2>3. FamilyBounded'
      <3>1. \A q \in Tasks : tally'[q].tools = tally[q].tools /\ (CanCall(q)' => CanCall(q))
        BY <1>1 DEF reportVars, CanCall, MayReport
      <3> QED
        BY <3>1, BoundKept DEF ReportsInv
    <2> QED
      BY <2>1, <2>2, <2>3 DEF ReportsInv
  <1>2. ASSUME NEW r \in Tasks,
               \/ Dispatch(r) \/ StartProvider(r) \/ OverBudgetAtDispatch(r) \/ PushStream(r) \/ RecordUsage(r) \/ RequestApproval(r)
               \/ ResolveApproval(r) \/ CheckBudget(r) \/ FailRunForBudget(r) \/ RecordArtifact(r) \/ CommitArtifact(r)
        PROVE  ReportsInv'
    BY <1>2, DispatchKeeps, StartProviderKeeps, OverBudgetKeeps, PushStreamKeeps, RecordUsageKeeps, ApprovalKeeps, CheckBudgetKeeps,
       FailForBudgetKeeps, RecordArtifactKeeps, CommitArtifactKeeps
  <1>3. ASSUME NEW r \in Tasks,
               CompletionPaper(r) \/ CompletionAnnounced(r) \/ Advance(r) \/ FailRun(r) \/ CancelRun(r)
        PROVE  ReportsInv'
    BY <1>3, CompletionPaperKeeps, CompletionAnnouncedKeeps, AdvanceKeeps, FailRunKeeps, CancelRunKeeps
  <1>4. ASSUME NEW r \in Tasks, NEW c \in Results \union {NoResult}, Complete(r, c) PROVE ReportsInv'
    BY <1>4, CompleteKeeps DEF Data
  <1>5. ASSUME NEW p \in papers, NEW to \in {"promoted", "quarantined"}, TransitionReceipt(p.key, to) PROVE ReportsInv'
    BY <1>5, TransitionKeeps
  <1>6. CASE Reboot
    BY <1>6, RebootKeeps
  <1> QED
    BY <1>1, <1>2, <1>3, <1>4, <1>5, <1>6 DEF ReportNext

\* The inductive invariant of the reports: every run ends once and is within its own budget when it
\* may call again, each run of a family has made at most one call beyond the common limit, and a run
\* whose result is to come has no receipt of one.
THEOREM ReportsInvariant == ReportSpec => []ReportsInv
  BY ReportsStart, ReportStepKeeps, PTL DEF ReportSpec

\* Nothing is committed behind the end of a run, budgets hold with their races, who was stopped waits
\* for nobody, and results keep their contract: ReportsSound, for any family, result and limit.
THEOREM ReportsAreSound == ReportSpec => []ReportsSound
  <1>1. ReportsInv => ReportsSound
    <2> SUFFICES ASSUME ReportsInv PROVE ReportsSound
      OBVIOUS
    <2>1. NothingAfterTheEnd /\ StoppedWaitsForNobody
      BY DEF ReportsInv, RunSound, OneEnd, Waits, NothingAfterTheEnd, StoppedWaitsForNobody
    <2>2. ResultsKeepContract
      BY DEF ReportsInv, RunSound, Keeps, PapersSound, ResultsKeepContract
    <2>3. \A r \in Tasks : MayReport(r) /\ sink[r].pc = "idle" => WithinLimits(Usage(r), PerRun)
      BY DEF ReportsInv, RunSound, Within, CanCall
    <2>4. ASSUME NEW r \in Tasks PROVE AggregateTools(r) <= Aggregate.tools + Cardinality(Family[r])
      <3> DEFINE A == {q \in Family[r] : ~CanCall(q)}
      <3>1. AggregateTools(r) <= Aggregate.tools + Cardinality(A)
        BY DEF ReportsInv, FamilyBounded
      <3>2. Cardinality(A) \in Nat /\ Cardinality(A) <= Cardinality(Family[r]) /\ Cardinality(Family[r]) \in Nat
        BY RestCounts
      <3>3. AggregateTools(r) \in Nat
        BY AggregateCounts, CallsAreFinite DEF ReportsInv
      <3> QED
        BY <3>1, <3>2, <3>3, ReportsAssumption
    <2>5. BudgetHolds
      BY <2>3, <2>4 DEF BudgetHolds
    <2> QED
      BY <2>1, <2>2, <2>5 DEF ReportsSound
  <1> QED
    BY <1>1, ReportsInvariant, PTL

-----------------------------------------------------------------------------
(* A native run around its turns.                                            *)
Outcomes == {"approved", "rejected", "interrupted"}
Stages == {"new", "accepted", "mounted", "running", "refused", "over"}
TaskPlaces ==
    Midway \union {"turn", "request", "failed", "waiting", "cancelled", "approved", "rejected", "interrupted", "done"}
Names == BuiltinTools \union {"subagent"} \union UNION {r.mcp : r \in Dispatches}

NativeTyped ==
    /\ stage \in Stages /\ dispatch \in Dispatches /\ servers \in BOOLEAN
    /\ tools \in [names : SUBSET Names, locked : BOOLEAN]
    /\ taskPc \in [ToolCalls -> TaskPlaces]
    /\ entry \in [ToolCalls -> {"none", "pending"} \union Outcomes]
    /\ approval \in [ToolCalls -> {"none", "pending"} \union Outcomes]
    /\ channel \in [ToolCalls -> {"empty"} \union Outcomes]
    /\ decider \in [Deciders -> [pc : {"idle", "deliver", "send"}, call : ToolCalls \union {NoCall}, outcome : {"none"} \union Outcomes]]
    /\ owned \in BOOLEAN /\ token \in BOOLEAN

\* A session opens with one system message at most and ends with what the run is to do.
Opens(messages, r) ==
    /\ \A i \in 2..Len(messages) : messages[i].role # "system"
    /\ Last(messages) = [role |-> "user", text |-> <<r.objective>>]

\* No task leaves its turn before the list of tools is locked, and no list is before the thread runs.
Staged ==
    /\ servers => stage \in {"mounted", "running"}
    /\ tools.locked => stage \in {"running", "over"}
    /\ ~tools.locked => \A c \in ToolCalls : taskPc[c] = "turn"
    /\ stage = "running" => Opens(started, dispatch)

\* What the store, the table of the bridge and the channel say of one call.
Consented(c) ==
    /\ taskPc[c] \in {"approved", "written", "done"} => approval[c] = "approved"
    /\ entry[c] \in Outcomes => approval[c] = entry[c]
    /\ channel[c] # "empty" => channel[c] = approval[c]
\* A call is put before the store once.
AskedOnce(c) ==
    /\ taskPc[c] \in {"turn", "request", "ask"} => approval[c] = "none"
    /\ taskPc[c] \in {"show", "subscribe", "waiting"} => approval[c] # "none"
    /\ taskPc[c] = "waiting" => entry[c] # "none"
\* What the store has decided is on its way into the table, and from there into the channel.
Travels(c) ==
    /\ approval[c] \in Outcomes /\ entry[c] = "pending" =>
         token \/ \E d \in Deciders : decider[d].pc = "deliver" /\ decider[d].call = c
    /\ entry[c] \in Outcomes =>
         channel[c] # "empty" \/ \E d \in Deciders : decider[d].pc = "send" /\ decider[d].call = c
\* A thread that hands over a decision has the one of the store.
Carries(d) ==
    decider[d].pc # "idle" =>
        /\ decider[d].call \in ToolCalls /\ decider[d].outcome \in Outcomes
        /\ approval[decider[d].call] = decider[d].outcome

Alone == \A c, o \in ToolCalls : taskPc[c] \in Midway /\ taskPc[o] \in Midway => c = o

\* Every file has one writer, and the counter is at the file of the call that has just written.
Shelved ==
    /\ IsFiniteSet(DOMAIN shelf) /\ DOMAIN shelf \subseteq Nat /\ counter \in Nat
    /\ \A n \in DOMAIN shelf : \E c \in ToolCalls \union {NoCall} : shelf[n] = <<c>>
    /\ \A a \in recorded : a \in ToolCalls \X Nat /\ a[2] \in DOMAIN shelf /\ shelf[a[2]] = <<a[1]>>
    /\ \A c \in ToolCalls : taskPc[c] = "written" => counter \in DOMAIN shelf /\ shelf[counter] = <<c>>

BridgeSound ==
    /\ \A c \in ToolCalls : Consented(c) /\ AskedOnce(c) /\ Travels(c)
    /\ \A d \in Deciders : Carries(d)
    /\ Alone

NativeInv == NativeTyped /\ Staged /\ BridgeSound /\ Shelved

-----------------------------------------------------------------------------
LEMMA OneBefore ==
  ASSUME NEW S, NEW x \in S, NEW q \in Seq(S)
  PROVE  /\ Len(<<x>> \o q) = Len(q) + 1
         /\ \A i \in 2..(Len(q) + 1) : (<<x>> \o q)[i] = q[i - 1]
  OBVIOUS

\* The session a run starts with.
LEMMA SessionOpens == ASSUME NEW r \in Dispatches PROVE Opens(SessionForRequest(r), r)
  <1> DEFINE said == [role |-> "user", text |-> <<r.objective>>]
             h == Append(r.forked, said)
             n == Len(r.forked) + 1
  <1>1. r.forked \in Seq(Messages) /\ \A i \in 2..Len(r.forked) : r.forked[i].role # "system"
    BY NativeAssumption
  <1> DEFINE Said == Messages \union {said}
  <1>2. h \in Seq(Said) /\ Len(h) = n /\ n \in Nat \ {0} /\ h[n] = said
    BY <1>1
  <1>3. \A i \in 1..(n - 1) : h[i] = r.forked[i]
    BY <1>1
  <1>4. said.role = "user" /\ said.role # "system"
    OBVIOUS
  <1>5. \A i \in 2..n : h[i].role # "system"
    <2> SUFFICES ASSUME NEW i \in 2..n PROVE h[i].role # "system"
      OBVIOUS
    <2>1. CASE i = n
      BY <2>1, <1>2, <1>4, Zenon
    <2>2. CASE i # n
      <3>1. i \in 2..Len(r.forked) /\ i \in 1..(n - 1)
        BY <2>2, <1>1, <1>2
      <3> QED BY <3>1, <1>1, <1>3
    <2> QED BY <2>1, <2>2
  <1>6. SessionForRequest(r) = PrependSystemPrompt(h, r.prompt)
    BY DEF SessionForRequest
  <1> HIDE DEF h, n, said, Said
  <1>7. CASE SessionForRequest(r) = h
    <2>1. Opens(h, r)
      BY <1>2, <1>5 DEF Opens, Last, said
    <2> QED BY <1>7, <2>1, Zenon
  <1>8. CASE h[1].role = "system" /\ SessionForRequest(r) = [h EXCEPT ![1].text = <<r.prompt>> \o h[1].text]
    <2> DEFINE s == SessionForRequest(r)
    <2>1. n # 1
      BY <1>2, <1>4, <1>8
    <2>2. DOMAIN h = 1..n
      BY <1>2
    <2>3. \A i \in 2..n : s[i] = h[i]
      BY <2>2, <1>8, <1>2
    <2>4. Len(s) = n
      BY <1>8, <1>2, <2>2
    <2>5. s[n] = said
      BY <2>1, <2>3, <1>2
    <2> QED BY <2>3, <2>4, <2>5, <1>2, <1>5 DEF Opens, Last, said
  <1>9. CASE SessionForRequest(r) = <<[role |-> "system", text |-> <<r.prompt>>]>> \o h /\ ~(h[1].role = "system")
    <2> DEFINE s == SessionForRequest(r)
               first == [role |-> "system", text |-> <<r.prompt>>]
               Both == Said \union {first}
    <2>1. h \in Seq(Both) /\ first \in Both
      BY <1>2
    <2>2. s = <<first>> \o h
      BY <1>9
    <2> HIDE DEF first, s, Both
    <2>3. Len(s) = n + 1 /\ \A i \in 2..(n + 1) : s[i] = h[i - 1]
      BY <2>1, <2>2, <1>2, OneBefore
    <2>4. \A i \in 1..n : h[i].role # "system"
      BY <1>5, <1>9, <1>2
    <2>5. \A i \in 2..(n + 1) : s[i].role # "system"
      BY <2>3, <2>4, <1>2
    <2>6. s[n + 1] = said
      BY <2>3, <1>2
    <2> QED BY <2>3, <2>5, <2>6, <1>2 DEF Opens, Last, said, s
  <1> QED
    <2>1. h # <<>>
      BY <1>2
    <2> QED BY <1>6, <1>7, <1>8, <1>9, <2>1 DEF PrependSystemPrompt

\* The writer passes over the numbers that are taken and finds one that is not.
LEMMA FreeNumber ==
  ASSUME NEW S \in SUBSET Nat, IsFiniteSet(S), NEW k \in Nat
  PROVE  \E n \in (k + 1)..(k + 1 + Cardinality(S)) : n \notin S /\ \A j \in (k + 1)..(n - 1) : j \in S
  <1> DEFINE m == Cardinality(S)
             R == (k + 1)..(k + 1 + m)
             Free == {n \in R : n \notin S}
  <1>1. m \in Nat
    BY FS_CardinalityType
  <1>2. IsFiniteSet(R) /\ Cardinality(R) = m + 1
    BY <1>1, FS_Interval
  <1>3. Free # {}
    <2> SUFFICES ASSUME R \subseteq S PROVE FALSE
      OBVIOUS
    <2>1. Cardinality(R) <= Cardinality(S)
      BY FS_Subset
    <2> QED BY <2>1, <1>1, <1>2
  <1>4. Free \subseteq Nat
    BY <1>1
  <1> HIDE DEF m
  <1>5. PICK n \in Free : \A y \in Free : <<y, n>> \notin OpToRel(<, Nat)
    BY <1>3, <1>4, WFMin, NatLessThanWellFounded
  <1>6. \A y \in Free : ~(y < n)
    BY <1>4, <1>5 DEF OpToRel
  <1>7. \A j \in (k + 1)..(n - 1) : j \in S
    <2> SUFFICES ASSUME NEW j \in (k + 1)..(n - 1), j \notin S PROVE FALSE
      OBVIOUS
    <2>1. n \in Nat /\ k + 1 <= n /\ n <= k + 1 + m
      <3>1. n \in R
        BY <1>5, Zenon
      <3> QED BY <3>1, <1>1
    <2>2. j \in R /\ j < n
      BY <2>1, <1>1
    <2>3. j \in Free
      BY <2>2
    <2> QED BY <2>2, <2>3, <1>6
  <1> QED BY <1>5, <1>7 DEF m

-----------------------------------------------------------------------------
(* The types.                                                                *)
LEMMA CallTyped ==
  ASSUME NativeTyped, NEW c \in ToolCalls, CallStep(c)
  PROVE  NativeTyped' /\ UNCHANGED <<dispatchVars, decider, owned, token>>
  <1> USE DEF NativeTyped, TaskPlaces, Outcomes, Midway, dispatchVars, RestOfRun, shelfVars
  <1>1. CASE Insert(c)
    BY <1>1 DEF Insert
  <1>2. CASE AskSink(c)
    BY <1>2 DEF AskSink
  <1>3. CASE EmitWaiting(c)
    BY <1>3 DEF EmitWaiting
  <1>4. CASE RemovePending(c)
    BY <1>4 DEF RemovePending
  <1>5. CASE SubscribeDecision(c)
    BY <1>5 DEF SubscribeDecision
  <1>6. CASE WaitReturns(c)
    BY <1>6 DEF WaitReturns
  <1>7. CASE WaitCancelled(c)
    BY <1>7 DEF WaitCancelled
  <1>8. CASE Resolve(c)
    BY <1>8 DEF Resolve
  <1>9. CASE WriteArtifact(c)
    BY <1>9 DEF WriteArtifact
  <1>10. CASE ArtifactWriteFails(c)
    BY <1>10 DEF ArtifactWriteFails
  <1>11. CASE RecordToolArtifact(c)
    BY <1>11 DEF RecordToolArtifact
  <1>12. CASE RejectAll(c)
    BY <1>12 DEF RejectAll
  <1> QED BY <1>1, <1>2, <1>3, <1>4, <1>5, <1>6, <1>7, <1>8, <1>9, <1>10, <1>11, <1>12 DEF CallStep

LEMMA DeciderTyped ==
  ASSUME NativeTyped, NEW d \in Deciders, Carries(d), DeciderStep(d)
  PROVE  NativeTyped' /\ UNCHANGED <<dispatchVars, shelfVars, taskPc, owned, token>>
  <1> USE DEF NativeTyped, Outcomes, dispatchVars, RestOfRun, shelfVars
  <1>1. CASE Deliver(d)
    BY <1>1 DEF Deliver
  <1>2. CASE Send(d)
    BY <1>2 DEF Send, Carries
  <1>3. ASSUME NEW c \in ToolCalls, NEW how \in {"approved", "rejected"}, DecideCall(d, c, how)
        PROVE  NativeTyped' /\ UNCHANGED <<dispatchVars, shelfVars, taskPc, owned, token>>
    BY <1>3 DEF DecideCall
  <1> QED BY <1>1, <1>2, <1>3 DEF DeciderStep

-----------------------------------------------------------------------------
(* Consent.                                                                  *)
\* What a step of a call leaves of the others, and what it may not undo.
OthersStay(c) ==
    \A o \in ToolCalls \ {c} :
        taskPc'[o] = taskPc[o] /\ entry'[o] = entry[o] /\ approval'[o] = approval[o] /\ channel'[o] = channel[o]
DecisionsStay == \A o \in ToolCalls : approval[o] \in Outcomes => approval'[o] = approval[o]
TakesTurn(c) == taskPc'[c] \in Midway => taskPc[c] \in Midway \/ Runs(c)

LEMMA CallSteps ==
  ASSUME NativeTyped, NEW c \in ToolCalls, CallStep(c), Consented(c), AskedOnce(c), Travels(c)
  PROVE  /\ OthersStay(c) /\ DecisionsStay /\ TakesTurn(c)
         /\ Consented(c)' /\ AskedOnce(c)' /\ Travels(c)'
  <1> USE DEF NativeTyped, Outcomes, OthersStay, DecisionsStay, TakesTurn, Midway
  <1> DEFINE Stands == /\ OthersStay(c) /\ DecisionsStay /\ TakesTurn(c)
                      /\ Consented(c)' /\ AskedOnce(c)' /\ Travels(c)'
  <1>1. ASSUME Insert(c) PROVE Stands
    <2>1. OthersStay(c) /\ DecisionsStay /\ TakesTurn(c)
      BY <1>1 DEF Insert, RestOfRun, AskedOnce
    <2>2. Consented(c)' /\ AskedOnce(c)'
      BY <1>1 DEF Insert, RestOfRun, Consented, AskedOnce
    <2>3. Travels(c)'
      BY <1>1 DEF Insert, RestOfRun, AskedOnce, Consented, Travels
    <2> QED BY <2>1, <2>2, <2>3
  <1>2. ASSUME AskSink(c) PROVE Stands
    <2>1. OthersStay(c) /\ DecisionsStay /\ TakesTurn(c)
      BY <1>2 DEF AskSink, RestOfRun, AskedOnce
    <2>2. Consented(c)' /\ AskedOnce(c)'
      BY <1>2 DEF AskSink, RestOfRun, Consented, AskedOnce
    <2>3. Travels(c)'
      BY <1>2 DEF AskSink, RestOfRun, AskedOnce, Consented, Travels
    <2> QED BY <2>1, <2>2, <2>3
  <1>3. ASSUME EmitWaiting(c) PROVE Stands
    <2>1. OthersStay(c) /\ DecisionsStay /\ TakesTurn(c)
      BY <1>3 DEF EmitWaiting, RestOfRun, AskedOnce
    <2>2. Consented(c)' /\ AskedOnce(c)'
      BY <1>3 DEF EmitWaiting, RestOfRun, Consented, AskedOnce
    <2>3. Travels(c)'
      BY <1>3 DEF EmitWaiting, RestOfRun, AskedOnce, Consented, Travels
    <2> QED BY <2>1, <2>2, <2>3
  <1>4. ASSUME RemovePending(c) PROVE Stands
    <2>1. OthersStay(c) /\ DecisionsStay /\ TakesTurn(c)
      BY <1>4 DEF RemovePending, RestOfRun, AskedOnce
    <2>2. Consented(c)' /\ AskedOnce(c)'
      BY <1>4 DEF RemovePending, RestOfRun, Consented, AskedOnce
    <2>3. Travels(c)'
      BY <1>4 DEF RemovePending, RestOfRun, AskedOnce, Consented, Travels
    <2> QED BY <2>1, <2>2, <2>3
  <1>5. ASSUME SubscribeDecision(c) PROVE Stands
    <2>1. OthersStay(c) /\ DecisionsStay /\ TakesTurn(c)
      BY <1>5 DEF SubscribeDecision, RestOfRun, AskedOnce
    <2>2. Consented(c)' /\ AskedOnce(c)'
      BY <1>5 DEF SubscribeDecision, RestOfRun, Consented, AskedOnce
    <2>3. Travels(c)'
      BY <1>5 DEF SubscribeDecision, RestOfRun, AskedOnce, Consented, Travels
    <2> QED BY <2>1, <2>2, <2>3
  <1>6. ASSUME WaitReturns(c) PROVE Stands
    <2>1. OthersStay(c) /\ DecisionsStay /\ TakesTurn(c)
      BY <1>6 DEF WaitReturns, RestOfRun, AskedOnce
    <2>2. Consented(c)' /\ AskedOnce(c)'
      BY <1>6 DEF WaitReturns, RestOfRun, Consented, AskedOnce
    <2>3. Travels(c)'
      BY <1>6 DEF WaitReturns, RestOfRun, AskedOnce, Consented, Travels
    <2> QED BY <2>1, <2>2, <2>3
  <1>7. ASSUME WaitCancelled(c) PROVE Stands
    <2>1. OthersStay(c) /\ DecisionsStay /\ TakesTurn(c)
      BY <1>7 DEF WaitCancelled, RestOfRun, AskedOnce
    <2>2. Consented(c)' /\ AskedOnce(c)'
      BY <1>7 DEF WaitCancelled, RestOfRun, Consented, AskedOnce
    <2>3. Travels(c)'
      BY <1>7 DEF WaitCancelled, RestOfRun, AskedOnce, Consented, Travels
    <2> QED BY <2>1, <2>2, <2>3
  <1>8. ASSUME Resolve(c) PROVE Stands
    <2>1. OthersStay(c) /\ DecisionsStay /\ TakesTurn(c)
      BY <1>8 DEF Resolve, RestOfRun, AskedOnce, SinkRejects
    <2>2. Consented(c)' /\ AskedOnce(c)'
      BY <1>8 DEF Resolve, RestOfRun, Consented, AskedOnce, SinkRejects
    <2>3. Travels(c)'
      BY <1>8 DEF Resolve, RestOfRun, AskedOnce, Consented, Travels, SinkRejects
    <2> QED BY <2>1, <2>2, <2>3
  <1>9. ASSUME WriteArtifact(c) PROVE Stands
    <2>1. OthersStay(c) /\ DecisionsStay /\ TakesTurn(c)
      BY <1>9 DEF WriteArtifact, RestOfRun, AskedOnce
    <2>2. Consented(c)' /\ AskedOnce(c)'
      BY <1>9 DEF WriteArtifact, RestOfRun, Consented, AskedOnce
    <2>3. Travels(c)'
      BY <1>9 DEF WriteArtifact, RestOfRun, AskedOnce, Consented, Travels
    <2> QED BY <2>1, <2>2, <2>3
  <1>10. ASSUME ArtifactWriteFails(c) PROVE Stands
    <2>1. OthersStay(c) /\ DecisionsStay /\ TakesTurn(c)
      BY <1>10 DEF ArtifactWriteFails, RestOfRun, AskedOnce
    <2>2. Consented(c)' /\ AskedOnce(c)'
      BY <1>10 DEF ArtifactWriteFails, RestOfRun, Consented, AskedOnce
    <2>3. Travels(c)'
      BY <1>10 DEF ArtifactWriteFails, RestOfRun, AskedOnce, Consented, Travels
    <2> QED BY <2>1, <2>2, <2>3
  <1>11. ASSUME RecordToolArtifact(c) PROVE Stands
    <2>1. OthersStay(c) /\ DecisionsStay /\ TakesTurn(c)
      BY <1>11 DEF RecordToolArtifact, RestOfRun, AskedOnce
    <2>2. Consented(c)' /\ AskedOnce(c)'
      BY <1>11 DEF RecordToolArtifact, RestOfRun, Consented, AskedOnce
    <2>3. Travels(c)'
      BY <1>11 DEF RecordToolArtifact, RestOfRun, AskedOnce, Consented, Travels
    <2> QED BY <2>1, <2>2, <2>3
  <1>12. ASSUME RejectAll(c) PROVE Stands
    <2>1. OthersStay(c) /\ DecisionsStay /\ TakesTurn(c)
      BY <1>12 DEF RejectAll, RestOfRun, AskedOnce, SinkRejects
    <2>2. Consented(c)' /\ AskedOnce(c)'
      BY <1>12 DEF RejectAll, RestOfRun, Consented, AskedOnce, SinkRejects
    <2>3. Travels(c)'
      BY <1>12 DEF RejectAll, RestOfRun, AskedOnce, Consented, Travels, SinkRejects
    <2> QED BY <2>1, <2>2, <2>3
  <1> QED BY <1>1, <1>2, <1>3, <1>4, <1>5, <1>6, <1>7, <1>8, <1>9, <1>10, <1>11, <1>12 DEF CallStep

LEMMA CallKeeps ==
  ASSUME NativeTyped, BridgeSound, NEW c \in ToolCalls, CallStep(c)
  PROVE  BridgeSound'
  <1>1. /\ OthersStay(c) /\ DecisionsStay /\ TakesTurn(c)
        /\ Consented(c)' /\ AskedOnce(c)' /\ Travels(c)'
    BY CallSteps DEF BridgeSound
  <1>2. decider' = decider /\ token' = token
    BY CallTyped
  <1>3. ASSUME NEW o \in ToolCalls PROVE Consented(o)' /\ AskedOnce(o)' /\ Travels(o)'
    <2>1. CASE o = c
      BY <2>1, <1>1
    <2>2. CASE o # c
      <3>1. taskPc'[o] = taskPc[o] /\ entry'[o] = entry[o] /\ approval'[o] = approval[o] /\ channel'[o] = channel[o]
        BY <2>2, <1>1 DEF OthersStay
      <3>2. Consented(o) /\ AskedOnce(o) /\ Travels(o)
        BY DEF BridgeSound
      <3> QED BY <3>1, <3>2, <1>2 DEF Consented, AskedOnce, Travels
    <2> QED BY <2>1, <2>2
  <1>4. ASSUME NEW d \in Deciders PROVE Carries(d)'
    BY <1>1, <1>2 DEF BridgeSound, Carries, DecisionsStay
  <1>5. Alone'
    BY <1>1 DEF BridgeSound, Alone, OthersStay, TakesTurn, Runs
  <1> QED BY <1>3, <1>4, <1>5 DEF BridgeSound

LEMMA DeciderKeeps ==
  ASSUME NativeTyped, BridgeSound, NEW d \in Deciders, DeciderStep(d)
  PROVE  BridgeSound'
  <1>1. taskPc' = taskPc /\ token' = token
    BY DeciderTyped DEF BridgeSound
  <1>2. Carries(d)
    BY DEF BridgeSound
  <1>3. \A e \in Deciders \ {d} : decider'[e] = decider[e]
    BY DEF DeciderStep, Deliver, Send, DecideCall, NativeTyped
  <1>4. DecisionsStay
    BY DEF DeciderStep, Deliver, Send, DecideCall, NativeTyped, DecisionsStay, Outcomes
  <1>5. Carries(d)'
    <2>1. CASE Deliver(d) \/ Send(d)
      BY <2>1, <1>2 DEF Deliver, Send, NativeTyped, Carries
    <2>2. ASSUME NEW c \in ToolCalls, NEW how \in {"approved", "rejected"}, DecideCall(d, c, how) PROVE Carries(d)'
      BY <2>2 DEF DecideCall, NativeTyped, Carries, Outcomes
    <2> QED BY <2>1, <2>2 DEF DeciderStep
  <1>6. ASSUME NEW e \in Deciders PROVE Carries(e)'
    BY <1>3, <1>4, <1>5 DEF BridgeSound, Carries, DecisionsStay
  <1>7. ASSUME NEW o \in ToolCalls PROVE Consented(o)' /\ AskedOnce(o)' /\ Travels(o)'
    <2>1. Consented(o) /\ AskedOnce(o) /\ Travels(o)
      BY DEF BridgeSound
    <2>2. CASE Deliver(d)
      <3>1. Consented(o)' /\ AskedOnce(o)'
        BY <1>1, <1>2, <2>1, <2>2 DEF Deliver, NativeTyped, Carries, Consented, AskedOnce, Outcomes
      <3>2. Travels(o)'
        BY <1>1, <1>2, <1>3, <2>1, <2>2 DEF Deliver, NativeTyped, Carries, Travels, Outcomes
      <3> QED BY <3>1, <3>2
    <2>3. CASE Send(d)
      <3>1. Consented(o)' /\ AskedOnce(o)'
        BY <1>1, <1>2, <2>1, <2>3 DEF Send, NativeTyped, Carries, Consented, AskedOnce, Outcomes
      <3>2. Travels(o)'
        BY <1>1, <1>2, <1>3, <2>1, <2>3 DEF Send, NativeTyped, Carries, Travels, Outcomes
      <3> QED BY <3>1, <3>2
    <2>4. ASSUME NEW c \in ToolCalls, NEW how \in {"approved", "rejected"}, DecideCall(d, c, how)
          PROVE  Consented(o)' /\ AskedOnce(o)' /\ Travels(o)'
      <3>1. Consented(o)' /\ AskedOnce(o)'
        BY <1>1, <2>1, <2>4 DEF DecideCall, NativeTyped, Consented, AskedOnce, Outcomes
      <3>2. Travels(o)'
        BY <1>1, <1>3, <2>1, <2>4 DEF DecideCall, NativeTyped, Travels, Outcomes
      <3> QED BY <3>1, <3>2
    <2> QED BY <2>2, <2>3, <2>4 DEF DeciderStep
  <1>8. Alone'
    BY <1>1 DEF BridgeSound, Alone
  <1> QED BY <1>6, <1>7, <1>8 DEF BridgeSound

-----------------------------------------------------------------------------
(* The files.                                                                *)
LEMMA ShelfKeeps ==
  ASSUME NativeTyped, Alone, Shelved, NEW c \in ToolCalls, CallStep(c)
  PROVE  Shelved'
  <1>1. CASE WriteArtifact(c)
    <2> DEFINE D == DOMAIN shelf
               Is(n) == n \notin D /\ \A j \in (counter + 1)..(n - 1) : j \in D
               n == CHOOSE k \in (counter + 1)..(counter + 1 + Cardinality(D)) : Is(k)
    <2>1. Cardinality(D) \in Nat /\ counter \in Nat
      BY FS_CardinalityType DEF Shelved
    <2>2. \E k \in (counter + 1)..(counter + 1 + Cardinality(D)) : Is(k)
      BY FreeNumber DEF Shelved
    <2>3. n \in (counter + 1)..(counter + 1 + Cardinality(D)) /\ n \notin D
      <3> HIDE DEF D
      <3> QED BY <2>2
    <2>4. counter' = n /\ shelf' = [k \in D \union {n} |-> IF k = n THEN <<c>> ELSE shelf[k]] /\ taskPc' = [taskPc EXCEPT ![c] = "written"] /\ recorded' = recorded
      BY <1>1 DEF WriteArtifact
    <2>5. \A o \in ToolCalls \ {c} : taskPc[o] # "written"
      BY <1>1 DEF WriteArtifact, Runs, Midway
    <2> HIDE DEF n
    <2>6. n \in Nat
      BY <2>1, <2>3
    <2>7. DOMAIN shelf' = D \union {n} /\ shelf'[n] = <<c>> /\ \A m \in D : shelf'[m] = shelf[m]
      BY <2>3, <2>4
    <2>8. IsFiniteSet(DOMAIN shelf')
      BY <2>7, FS_AddElement DEF Shelved
    <2>9. \A o \in ToolCalls : taskPc'[o] = "written" => o = c
      BY <2>4, <2>5 DEF NativeTyped
    <2>10. \A a \in recorded' : a \in ToolCalls \X Nat /\ a[2] \in DOMAIN shelf' /\ shelf'[a[2]] = <<a[1]>>
      BY <2>4, <2>7 DEF Shelved
    <2>11. \A m \in DOMAIN shelf' : \E o \in ToolCalls \union {NoCall} : shelf'[m] = <<o>>
      BY <2>7 DEF Shelved
    <2>12. DOMAIN shelf' \subseteq Nat
      BY <2>6, <2>7 DEF Shelved
    <2> QED BY <2>4, <2>6, <2>7, <2>8, <2>9, <2>10, <2>11, <2>12 DEF Shelved
  <1>2. CASE RecordToolArtifact(c)
    <2>1. taskPc[c] = "written" /\ counter \in DOMAIN shelf /\ shelf[counter] = <<c>> /\ counter \in Nat
      BY <1>2 DEF RecordToolArtifact, Shelved
    <2>2. shelf' = shelf /\ counter' = counter /\ recorded' \subseteq recorded \union {<<c, counter>>}
      BY <1>2 DEF RecordToolArtifact
    <2>3. \A o \in ToolCalls : taskPc'[o] = "written" => taskPc[o] = "written"
      BY <1>2 DEF RecordToolArtifact, NativeTyped
    <2>4. \A a \in recorded' : a \in ToolCalls \X Nat /\ a[2] \in DOMAIN shelf /\ shelf[a[2]] = <<a[1]>>
      BY <2>1, <2>2 DEF Shelved
    <2> QED BY <2>2, <2>3, <2>4 DEF Shelved
  <1>3. CASE ~WriteArtifact(c) /\ ~RecordToolArtifact(c)
    <2>1. UNCHANGED shelfVars /\ \A o \in ToolCalls : taskPc'[o] = "written" => taskPc[o] = "written"
      <3>1. CASE Insert(c) \/ AskSink(c) \/ EmitWaiting(c) \/ RemovePending(c) \/ SubscribeDecision(c)
        BY <3>1 DEF Insert, AskSink, EmitWaiting, RemovePending, SubscribeDecision, RestOfRun, NativeTyped
      <3>2. CASE WaitReturns(c) \/ WaitCancelled(c) \/ Resolve(c) \/ ArtifactWriteFails(c) \/ RejectAll(c)
        BY <3>2 DEF WaitReturns, WaitCancelled, Resolve, ArtifactWriteFails, RejectAll, RestOfRun, NativeTyped, Outcomes
      <3> QED BY <1>3, <3>1, <3>2 DEF CallStep
    <2> QED BY <2>1 DEF Shelved, shelfVars
  <1> QED BY <1>1, <1>2, <1>3

-----------------------------------------------------------------------------
(* The run.                                                                  *)
\* A step of a call or of a thread that decides: the list of tools is locked, so nothing begins.
LEMMA StagedKept ==
  ASSUME NativeTyped, Staged, UNCHANGED dispatchVars,
         (\E c \in ToolCalls : CallStep(c)) \/ taskPc' = taskPc
  PROVE  Staged'
  <1>1. CASE taskPc' = taskPc
    BY <1>1 DEF Staged, dispatchVars
  <1>2. ASSUME NEW c \in ToolCalls, CallStep(c) PROVE Staged'
    <2>1. CASE tools.locked
      BY <2>1 DEF Staged, dispatchVars
    <2>2. CASE ~tools.locked
      <3>1. \A o \in ToolCalls : taskPc[o] = "turn"
        BY <2>2 DEF Staged
      <3>2. taskPc' = taskPc
        BY <3>1, <1>2 DEF CallStep, Insert, AskSink, EmitWaiting, RemovePending, SubscribeDecision, WaitReturns,
             WaitCancelled, Resolve, WriteArtifact, ArtifactWriteFails, RecordToolArtifact, RejectAll
      <3> QED BY <3>2 DEF Staged, dispatchVars
    <2> QED BY <2>1, <2>2
  <1> QED BY <1>1, <1>2

\* What is done before the thread runs and behind it.
RunStep == Accept(dispatch) \/ Mount \/ SpawnLoop \/ LockTools \/ LoopEnds

LEMMA NothingBegun ==
  ASSUME BridgeSound, Shelved, UNCHANGED <<entry, approval, channel, decider, token, shelfVars>>,
         taskPc' = taskPc \/ (\A c \in ToolCalls : taskPc[c] = "turn" /\ taskPc'[c] \in {"turn", "request"})
  PROVE  BridgeSound' /\ Shelved'
  <1>1. \A c \in ToolCalls : Consented(c)' /\ AskedOnce(c)' /\ Travels(c)'
    BY DEF BridgeSound, Consented, AskedOnce, Travels
  <1>2. \A d \in Deciders : Carries(d)'
    BY DEF BridgeSound, Carries
  <1>3. Alone'
    BY DEF BridgeSound, Alone, Midway
  <1>4. Shelved'
    BY DEF Shelved, shelfVars
  <1> QED BY <1>1, <1>2, <1>3, <1>4 DEF BridgeSound

LEMMA RunSteps ==
  ASSUME NativeInv, RunStep
  PROVE  NativeInv'
  <1> USE DEF NativeInv
  <1>1. CASE Accept(dispatch) \/ Mount
    <2>1. UNCHANGED <<dispatch, bridgeVars, owned, token, shelfVars>> /\ ~tools.locked
      BY <1>1 DEF Accept, Mount, Staged
    <2>2. NativeTyped'
      <3>1. tools' \in [names : SUBSET Names, locked : {FALSE}]
        <4>1. dispatch.mcp \subseteq Names /\ {"subagent"} \subseteq Names /\ BuiltinTools \subseteq Names
          BY DEF NativeTyped, Names
        <4>2. tools \in [names : SUBSET Names, locked : {FALSE}]
          BY <2>1 DEF NativeTyped
        <4> HIDE DEF Names
        <4>3. \A t \in [names : SUBSET Names, locked : {FALSE}], ns \in SUBSET Names :
                AddTools(t, ns) \in [names : SUBSET Names, locked : {FALSE}]
          BY DEF AddTools
        <4>4. [names |-> BuiltinTools, locked |-> FALSE] \in [names : SUBSET Names, locked : {FALSE}]
          BY <4>1
        <4>5. /\ AddTools([names |-> BuiltinTools, locked |-> FALSE], {"subagent"}) \in [names : SUBSET Names, locked : {FALSE}]
              /\ AddTools(tools, dispatch.mcp) \in [names : SUBSET Names, locked : {FALSE}]
          BY <4>1, <4>2, <4>3, <4>4
        <4>6. tools' \in {tools, AddTools(tools, dispatch.mcp), AddTools([names |-> BuiltinTools, locked |-> FALSE], {"subagent"})}
          BY <1>1 DEF Accept, Mount
        <4> QED BY <4>2, <4>5, <4>6
      <3> QED BY <1>1, <2>1, <3>1 DEF Accept, Mount, NativeTyped, Stages, bridgeVars
    <2>3. Staged'
      <3>1. ~tools'.locked
        BY <1>1, <2>1 DEF Accept, Mount, AddTools, NativeTyped
      <3> QED BY <1>1, <2>1, <3>1 DEF Accept, Mount, Staged, bridgeVars, NativeTyped
    <2> QED BY <2>1, <2>2, <2>3, NothingBegun DEF bridgeVars
  <1>2. CASE SpawnLoop
    <2>1. UNCHANGED <<dispatch, tools, entry, approval, channel, decider, owned, token, shelfVars>> /\ ~tools.locked
      BY <1>2 DEF SpawnLoop, Staged
    <2>2. taskPc' = taskPc
      BY <1>2, <2>1 DEF SpawnLoop, Staged, NativeTyped
    <2>3. NativeTyped'
      BY <1>2, <2>1, <2>2 DEF SpawnLoop, NativeTyped, Stages
    <2>4. Opens(SessionForRequest(dispatch), dispatch)
      BY SessionOpens DEF NativeTyped
    <2>5. Staged'
      BY <1>2, <2>1, <2>2, <2>4 DEF SpawnLoop, Staged
    <2> QED BY <2>1, <2>2, <2>3, <2>5, NothingBegun
  <1>3. CASE LockTools
    <2>1. UNCHANGED <<stage, dispatch, servers, started, entry, approval, channel, decider, owned, token, shelfVars>>
      BY <1>3 DEF LockTools
    <2>2. \A c \in ToolCalls : taskPc[c] = "turn" /\ taskPc'[c] = "request"
      BY <1>3 DEF LockTools, Staged
    <2>3. NativeTyped'
      BY <1>3, <2>1 DEF LockTools, NativeTyped, TaskPlaces
    <2>4. Staged'
      BY <1>3, <2>1 DEF LockTools, Staged, NativeTyped
    <2> QED BY <2>1, <2>2, <2>3, <2>4, NothingBegun
  <1>4. CASE LoopEnds
    <2>1. UNCHANGED <<dispatch, started, tools, bridgeVars, owned, token, shelfVars>>
      BY <1>4 DEF LoopEnds
    <2>2. NativeTyped' /\ Staged'
      BY <1>4, <2>1 DEF LoopEnds, NativeTyped, Staged, Stages, bridgeVars
    <2> QED BY <2>1, <2>2, NothingBegun DEF bridgeVars
  <1> QED BY <1>1, <1>2, <1>3, <1>4 DEF RunStep

\* A cancel, and the end of the run: what was pending is rejected behind the token.
LEMMA EndSteps ==
  ASSUME NativeInv, CancelToken \/ LoseRun
  PROVE  NativeInv'
  <1> USE DEF NativeInv
  <1>1. /\ UNCHANGED <<dispatchVars, taskPc, entry, channel, decider, shelfVars>> /\ token'
        /\ \A c \in ToolCalls : approval'[c] = approval[c] \/ (approval[c] = "pending" /\ approval'[c] = "rejected")
    BY DEF CancelToken, LoseRun, bridgeVars, NativeTyped
  <1>2. NativeTyped'
    BY DEF CancelToken, LoseRun, bridgeVars, dispatchVars, NativeTyped, Outcomes
  <1>3. Staged'
    BY <1>1, StagedKept
  <1>4. ASSUME NEW c \in ToolCalls PROVE Consented(c)' /\ AskedOnce(c)' /\ Travels(c)'
    BY <1>1 DEF BridgeSound, Consented, AskedOnce, Travels, Outcomes, NativeTyped
  <1>5. ASSUME NEW d \in Deciders PROVE Carries(d)'
    BY <1>1 DEF BridgeSound, Carries, Outcomes
  <1>6. Alone' /\ Shelved'
    BY <1>1 DEF BridgeSound, Alone, Shelved, shelfVars
  <1> QED BY <1>2, <1>3, <1>4, <1>5, <1>6 DEF BridgeSound

-----------------------------------------------------------------------------
LEMMA NativeStarts == NativeInit => NativeInv
  <1> SUFFICES ASSUME NativeInit PROVE NativeInv
    OBVIOUS
  <1>1. NativeTyped
    BY DEF NativeInit, NativeTyped, Stages, TaskPlaces, Outcomes
  <1>2. Staged
    BY DEF NativeInit, Staged
  <1>3. BridgeSound
    BY DEF NativeInit, BridgeSound, Consented, AskedOnce, Travels, Carries, Alone, Midway, Outcomes
  <1>4. Shelved
    <2>1. PICK taken \in SUBSET Shelves : shelf = [n \in taken |-> <<NoCall>>]
      BY DEF NativeInit
    <2>2. IsFiniteSet(taken) /\ taken \subseteq Nat
      BY <2>1, FS_Subset, NativeAssumption
    <2> QED BY <2>1, <2>2 DEF NativeInit, Shelved
  <1> QED BY <1>1, <1>2, <1>3, <1>4 DEF NativeInv

LEMMA NativeKept == NativeInv /\ [NativeNext]_nativeVars => NativeInv'
  <1> SUFFICES ASSUME NativeInv, [NativeNext]_nativeVars PROVE NativeInv'
    OBVIOUS
  <1>1. CASE RunStep
    BY <1>1, RunSteps
  <1>2. CASE CancelToken \/ LoseRun
    BY <1>2, EndSteps
  <1>3. ASSUME NEW c \in ToolCalls, CallStep(c) PROVE NativeInv'
    BY <1>3, CallTyped, CallKeeps, ShelfKeeps, StagedKept DEF NativeInv, BridgeSound
  <1>4. ASSUME NEW d \in Deciders, DeciderStep(d) PROVE NativeInv'
    <2>1. NativeTyped' /\ UNCHANGED <<dispatchVars, shelfVars, taskPc, owned, token>>
      BY <1>4, DeciderTyped DEF NativeInv, BridgeSound
    <2>2. BridgeSound'
      BY <1>4, DeciderKeeps DEF NativeInv
    <2>3. Staged' /\ Shelved'
      BY <2>1, StagedKept DEF NativeInv, Shelved, shelfVars
    <2> QED BY <2>1, <2>2, <2>3 DEF NativeInv
  <1>5. CASE UNCHANGED nativeVars
    BY <1>5 DEF nativeVars, dispatchVars, bridgeVars, shelfVars, NativeInv, NativeTyped, Staged, BridgeSound, Consented,
         AskedOnce, Travels, Carries, Alone, Shelved
  <1> QED BY <1>1, <1>2, <1>3, <1>4, <1>5 DEF NativeNext, RunStep

\* What the tools make of their input is a fact about the constants.
LEMMA InputsAlwaysSound == InputsSound
  <1>1. ASSUME NEW t \in Turned, ~FinalizeToolCalls(t).error, NEW i \in FinalizeToolCalls(t).taken
        PROVE  t.calls[i] # "broken" /\ (t.stop = "maxTokens" => t.calls[i] # "null")
    BY <1>1 DEF FinalizeToolCalls, FilterTruncated
  <1>2. ASSUME NEW r \in Reads, r.offset + r.limit <= UsizeMax
        PROVE  ReadFile(r).truncated <=> \E i \in 1..r.lines : i > r.offset + r.limit
    <2>1. r.lines \in Nat /\ r.offset \in Nat /\ r.limit \in Nat /\ UsizeMax \in Nat
      BY NativeAssumption
    <2>2. (r.offset + r.limit) % (UsizeMax + 1) = r.offset + r.limit
      BY <1>2, <2>1
    <2>3. ReadFile(r).truncated <=> (IF r.offset + r.limit < r.lines THEN r.offset + r.limit ELSE r.lines) < r.lines
      BY <2>2 DEF ReadFile
    <2>4. (\E i \in 1..r.lines : i > r.offset + r.limit) <=> r.offset + r.limit < r.lines
      <3>1. r.offset + r.limit < r.lines => r.lines \in 1..r.lines
        BY <2>1
      <3> QED BY <2>1, <3>1
    <2> QED BY <2>1, <2>3, <2>4
  <1>3. \A m, l \in 0..2 : SearchFilename(m, l) <= SearchContent(m, l)
    BY DEF SearchFilename, SearchContent
  <1> QED BY <1>1, <1>2, <1>3 DEF InputsSound

LEMMA NativePromise == NativeInv => NativeSound
  <1> SUFFICES ASSUME NativeInv PROVE NativeSound
    OBVIOUS
  <1>1. ConsentIsTheStores
    BY DEF NativeInv, BridgeSound, Consented, ConsentIsTheStores, Outcomes
  <1>2. NoAnswerLost
    <2> SUFFICES ASSUME NEW c \in ToolCalls, taskPc[c] = "waiting"
                 PROVE  /\ entry[c] # "none"
                        /\ \/ approval[c] = "pending" \/ channel[c] # "empty" \/ token
                           \/ \E d \in Deciders : decider[d].pc \in {"deliver", "send"} /\ decider[d].call = c
      BY DEF NoAnswerLost
    <2>1. AskedOnce(c) /\ Travels(c) /\ entry[c] \in {"none", "pending"} \union Outcomes
          /\ approval[c] \in {"none", "pending"} \union Outcomes
      BY DEF NativeInv, NativeTyped, BridgeSound
    <2> QED BY <2>1 DEF AskedOnce, Travels
  <1>3. ArtifactsKept
    <2>1. \A n \in DOMAIN shelf : Len(shelf[n]) = 1
      BY DEF NativeInv, Shelved
    <2>2. \A a, b \in recorded : a[2] = b[2] => a = b
      <3> SUFFICES ASSUME NEW a \in recorded, NEW b \in recorded, a[2] = b[2] PROVE a = b
        OBVIOUS
      <3>1. a \in ToolCalls \X Nat /\ b \in ToolCalls \X Nat /\ <<a[1]>> = <<b[1]>>
        BY DEF NativeInv, Shelved
      <3> QED BY <3>1
    <2> QED BY <2>1, <2>2 DEF NativeInv, Shelved, ArtifactsKept
  <1>4. DispatchClean
    BY DEF NativeInv, Staged, Opens, DispatchClean
  <1> QED BY <1>1, <1>2, <1>3, <1>4, InputsAlwaysSound DEF NativeSound

\* A native run (native_loop.rs, approval/bridge.rs, artifacts/mod.rs): with any calls, deciding threads, decisions
\* and cancels, a tool goes on only with the consent that the store shows, what was decided reaches the
\* task that waits for it unless the run is cancelled, no artifact replaces a file, and a run that was
\* refused or is over leaves no server.
THEOREM NativeRunIsSound == NativeSpec => []NativeSound
  <1>1. NativeInv /\ [NativeNext]_nativeVars => NativeInv'
    BY NativeKept
  <1> QED BY NativeStarts, <1>1, NativePromise, PTL DEF NativeSpec
=============================================================================
