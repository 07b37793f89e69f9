------------------------------- MODULE MCRuns -------------------------------
(* A session's runs between their request and their watchers, in two           *)
(* independent sides: the scheduler that admits them, and the event stream of  *)
(* one of them.  A behaviour takes one side.                                   *)
EXTENDS RunScheduler, RunEventSplice

VARIABLE side

runsVars == <<side, vars, spliceVars>>

SchedulerSide(A) == side = "scheduler" /\ A /\ UNCHANGED <<side, spliceVars>>
SpliceSide(A) == side = "splice" /\ A /\ UNCHANGED <<side, vars>>

SidesInit ==
    /\ side \in {"scheduler", "splice"}
    /\ Init /\ SpliceInit
    /\ side # "scheduler" => stored = <<>>
SidesNext == SchedulerSide(Next) \/ SpliceSide(SpliceNext)

\* The fairness of FairSpec and of FairSplice.
SidesFairness ==
    /\ WF_runsVars(SchedulerSide(Rehydrate \/ RehydrateDone))
    /\ \A r \in Runs : WF_runsVars(SchedulerSide(r \in sched.active /\ Finish(r)))
    /\ \A p \in Publishers : WF_runsVars(SpliceSide(PublishNext(p)))
    /\ \A s \in Subscribers :
         /\ WF_runsVars(SpliceSide(Handler(s))) /\ WF_runsVars(SpliceSide(Bridge(s)))
         /\ WF_runsVars(SpliceSide(Forwarder(s)))
SidesSpec == SidesInit /\ [][SidesNext]_runsVars /\ SidesFairness
=============================================================================
