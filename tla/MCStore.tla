------------------------------ MODULE MCStore ------------------------------
(***************************************************************************)
(* Two runs of one session, through one approval and at most MaxSeq        *)
(* sequence numbers (the reconciliation after a crash may go past that     *)
(* bound), read in batches of two and pages of one.  The behaviours in     *)
(* which a client walks have no artifacts and no receipts, whose events    *)
(* are to a walk like any other; a family is there to be walked over.      *)
(* The last number is for the runs alone.                                  *)
(***************************************************************************)
EXTENDS StoreQueries

OneSession == [r \in Runs |-> "s1"]
NoReceipts == artifacts = {} /\ \A r \in Runs : receipts[r] = "none"
WalkOrReceipts ==
  /\ walk # NoWalk => NoReceipts
  /\ (\E r \in Runs : parentOf[r] # 0) => walk.of \in {"none", "timeline", "timelineRead"} /\ nextSeq < MaxSeq
  /\ nextSeq > MaxSeq => NoReceipts /\ walk = NoWalk
=============================================================================
