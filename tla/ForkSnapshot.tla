---------------------------- MODULE ForkSnapshot ----------------------------
(***************************************************************************)
(* What a fork makes of its parent's event log: which event may be forked  *)
(* from, the rows the store projects from the stream frames up to it, and  *)
(* the messages the forked run's model is given.  A log is a sequence of   *)
(* frames [kind, turn, item]: turn is 0 and item is <<>> where the frame   *)
(* carries none, and the call of an item is the pair <<turn, position>>.   *)
(***************************************************************************)
EXTENDS Naturals, Sequences, FiniteSets

FrameKinds == {"turnStarted", "turnCompleted", "callStarted", "callProgressed",
               "callCompleted", "pending", "run"}

Frame(kind, turn, item) == [kind |-> kind, turn |-> turn, item |-> item]

User == [role |-> "user", calls |-> <<>>, of |-> <<>>]
Assistant(calls) == [role |-> "assistant", calls |-> calls, of |-> <<>>]
ToolResult(call) == [role |-> "tool", calls |-> <<>>, of |-> call]
Repaired(call) == [role |-> "repaired", calls |-> <<>>, of |-> call]

(***************************************************************************)
(* The boundary check.  Turns and calls still open at event b are those    *)
(* started and not completed among the events up to b.                     *)
(***************************************************************************)
OpenTurns(log, b) ==
    { log[i].turn : i \in { j \in 1..b : log[j].kind = "turnStarted" } }
        \ { log[i].turn : i \in { j \in 1..b : log[j].kind = "turnCompleted" } }

OpenCalls(log, b) ==
    { log[i].item : i \in { j \in 1..b : log[j].kind = "callStarted" } }
        \ { log[i].item : i \in { j \in 1..b : log[j].kind = "callCompleted" } }

\* The event after b, if it is already there, is one more step of b's turn.
ContinuesTurn(log, b) ==
    /\ log[b].kind # "run"
    /\ b < Len(log)
    /\ log[b + 1].turn = log[b].turn
    /\ log[b + 1].kind \in {"callStarted", "callCompleted", "pending"}

TurnBoundary(log, b) ==
    /\ OpenTurns(log, b) = {}
    /\ OpenCalls(log, b) = {}
    /\ ~ContinuesTurn(log, b)

(***************************************************************************)
(* The rows: one per completed turn, completed call and pending state, in  *)
(* the order of the events that completed them.                            *)
(***************************************************************************)
RowsUntil(log, b) ==
    SelectSeq(SubSeq(log, 1, b),
              LAMBDA f : f.kind \in {"turnCompleted", "callCompleted", "pending"})

\* The rows at r..s-1 that follow an assistant row as rows of its turn.
TurnEnd(rows, r) ==
    CHOOSE s \in (r + 1)..(Len(rows) + 1) :
        /\ \A i \in (r + 1)..(s - 1) :
              rows[i].kind # "turnCompleted" /\ rows[i].turn = rows[r].turn
        /\ s <= Len(rows) => rows[s].kind = "turnCompleted" \/ rows[s].turn # rows[r].turn

CallsBetween(rows, r, s) ==
    LET done == SelectSeq(SubSeq(rows, r + 1, s - 1), LAMBDA f : f.kind = "callCompleted")
    IN  [i \in 1..Len(done) |-> done[i].item]

\* Every row is an assistant row or belongs to the turn of the one before it.
RowsReadable(rows) ==
    \A r \in 1..Len(rows) :
        rows[r].kind = "turnCompleted"
            \/ \E a \in 1..(r - 1) : rows[a].kind = "turnCompleted" /\ r < TurnEnd(rows, a)

\* The messages one row stands for.
RowMessages(rows, r) ==
    IF rows[r].kind # "turnCompleted" THEN <<>>
    ELSE LET calls == CallsBetween(rows, r, TurnEnd(rows, r))
         IN  <<Assistant(calls)>> \o [i \in 1..Len(calls) |-> ToolResult(calls[i])]

Messages(rows) ==
    LET upto[r \in 0..Len(rows)] ==
            IF r = 0 THEN <<User>> ELSE upto[r - 1] \o RowMessages(rows, r)
    IN  upto[Len(rows)]

\* A fork at event b is accepted, and later started, when the event is a
\* turn boundary and the rows up to it can be read back.
ForkAccepted(log, b) ==
    /\ b \in 1..Len(log)
    /\ TurnBoundary(log, b)
    /\ RowsReadable(RowsUntil(log, b))

ForkedHistory(log, b) == Messages(RowsUntil(log, b))
==============================================================================
