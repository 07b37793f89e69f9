------------------------------ MODULE Workspaces ------------------------------
(***************************************************************************)
(* The worktree and the file claim a run holds while it works.  Allocation *)
(* is a sequence of git commands and two locked registries on the thread   *)
(* that starts the run; the end of the run gives everything back, on       *)
(* another thread; and the registries, though not the worktrees on disk,   *)
(* die with the daemon.  A claim only warns: it never blocks a write.      *)
(***************************************************************************)
EXTENDS Naturals, FiniteSets

CONSTANTS Capsules,      \* runs that ask for a workspace
          Files,         \* the paths a run may plan to write
          Escaping,      \* those of them that are no claimable path
          TargetIgnored, \* whether the repository ignores its target directory
          MaxCrashes

VARIABLES
    at,        \* run |-> where its allocation or its release is
    policy,    \* run |-> the cleanup policy of its worktree, or "none"
    disk,      \* run |-> what git has of its worktree
    outcome,   \* run |-> how it ended, as its worktree handle was told
    planned,   \* run |-> the files it claimed
    claims,    \* run |-> the token of its current claim, or 0
    byFile,    \* file |-> the runs the index lists for it
    lastToken,
    since,     \* run |-> the token it was ever given, in the order of the claims
    expired,   \* the runs whose claim has outlived its half hour, or its daemon
    warned,    \* run |-> the <<file, run>> conflicts it was warned of
    registry,  \* the runs whose resources the daemon keeps
    edited,    \* the user has uncommitted changes in the repository
    crashes

claimVars == <<claims, byFile, lastToken, since, expired, warned, planned>>
workspaceVars == <<at, policy, disk, outcome, claimVars, registry, edited, crashes>>

HasTree(r) == policy[r] # "none"
Step(r, from, to) == at[r] = from /\ at' = [at EXCEPT ![r] = to]

-----------------------------------------------------------------------------
(***************************************************************************)
(* The claim registry, under its lock.                                     *)
(***************************************************************************)
Unindexed(index, rs) == [f \in Files |-> index[f] \ rs]

Swept == { s \in Capsules : claims[s] # 0 /\ s \in expired }
Conflicts(r, files) ==
    { entry \in files \X (Capsules \ {r}) : entry[2] \in byFile[entry[1]] \ Swept }

IndexWith(r, files) ==
    LET index == Unindexed(byFile, Swept \union {r})
    IN  [f \in Files |-> IF f \in files THEN index[f] \union {r} ELSE index[f]]

Claim(r, files) ==
    /\ files # {} /\ files \intersect Escaping = {}
    /\ Step(r, "located", "claimed")
    /\ warned' = [warned EXCEPT ![r] = Conflicts(r, files)]
    /\ byFile' = IndexWith(r, files)
    /\ lastToken' = lastToken + 1
    /\ claims' = [s \in Capsules |-> IF s = r THEN lastToken + 1 ELSE IF s \in Swept THEN 0 ELSE claims[s]]
    /\ planned' = [planned EXCEPT ![r] = files]
    /\ since' = [since EXCEPT ![r] = lastToken + 1]
    /\ UNCHANGED <<policy, disk, outcome, expired, registry, edited, crashes>>

\* A planned path that cannot be claimed fails the allocation, after the worktree was made.
ClaimRefused(r, files) ==
    /\ files \intersect Escaping # {}
    /\ Step(r, "located", "ended")
    /\ UNCHANGED <<policy, disk, outcome, claimVars, registry, edited, crashes>>

NothingToClaim(r) ==
    /\ Step(r, "located", "claimed")
    /\ UNCHANGED <<policy, disk, outcome, claimVars, registry, edited, crashes>>

\* Mutant: releasing a claim leaves the run in the index.
ReleaseOnlyRecord(r) ==
    /\ claims' = [claims EXCEPT ![r] = 0]
    /\ UNCHANGED byFile

\* Only the claim the handle's own token names is given back.
Release(r) ==
    IF claims[r] # 0
    THEN /\ byFile' = Unindexed(byFile, {r})
         /\ claims' = [claims EXCEPT ![r] = 0]
    ELSE UNCHANGED <<byFile, claims>>

HalfHourPasses(r) ==
    /\ claims[r] # 0 /\ r \notin expired
    /\ \A s \in Capsules : claims[s] # 0 /\ claims[s] < claims[r] => s \in expired
    /\ expired' = expired \union {r}
    /\ UNCHANGED <<at, policy, disk, outcome, claims, byFile, lastToken, since, warned, planned,
                   registry, edited, crashes>>

-----------------------------------------------------------------------------
(***************************************************************************)
(* Allocation, on the thread that starts the run.                          *)
(***************************************************************************)
\* Another worktree shows as an untracked directory unless the repository ignores target.
RepoClean == ~edited /\ (TargetIgnored \/ \A s \in Capsules : disk[s] # "both")

NoWorktree(r) ==
    /\ Step(r, "idle", "located")
    /\ UNCHANGED <<policy, disk, outcome, claimVars, registry, edited, crashes>>

\* The checks before the worktree is added; nothing keeps the repository clean until it is.
CheckRepo(r, cleanup) ==
    /\ RepoClean /\ disk[r] = "none"
    /\ Step(r, "idle", "adding")
    /\ policy' = [policy EXCEPT ![r] = cleanup]
    /\ UNCHANGED <<disk, outcome, claimVars, registry, edited, crashes>>

RepoRefused(r) ==
    /\ ~RepoClean
    /\ Step(r, "idle", "ended")
    /\ UNCHANGED <<policy, disk, outcome, claimVars, registry, edited, crashes>>

AddWorktree(r) ==
    /\ Step(r, "adding", "added")
    /\ disk' = [disk EXCEPT ![r] = "both"]
    /\ UNCHANGED <<policy, outcome, claimVars, registry, edited, crashes>>

AddFails(r) ==
    /\ Step(r, "adding", "ended")
    /\ policy' = [policy EXCEPT ![r] = "none"]
    /\ UNCHANGED <<disk, outcome, claimVars, registry, edited, crashes>>

Located(r) ==
    /\ Step(r, "added", "located")
    /\ UNCHANGED <<policy, disk, outcome, claimVars, registry, edited, crashes>>

\* The workspace has no directory in the worktree: its handle is dropped without an outcome.
NotLocated(r) ==
    /\ Step(r, "added", "ended")
    /\ UNCHANGED <<policy, disk, outcome, claimVars, registry, edited, crashes>>

Register(r) ==
    /\ Step(r, "claimed", "registered")
    /\ registry' = IF HasTree(r) \/ claims[r] # 0 THEN registry \union {r} ELSE registry
    /\ UNCHANGED <<policy, disk, outcome, claimVars, edited, crashes>>

\* The rest of the start: refused for its context or its harness, or committed as a run.
StartRefused(r) ==
    /\ Step(r, "registered", "finishing")
    /\ outcome' = [outcome EXCEPT ![r] = "failed"]
    /\ UNCHANGED <<policy, disk, claimVars, registry, edited, crashes>>

StartCommitted(r) ==
    /\ Step(r, "registered", "live")
    /\ UNCHANGED <<policy, disk, outcome, claimVars, registry, edited, crashes>>

\* A commit that fails gives nothing back: the run was never stored, so nobody ends it.
CommitFails(r) ==
    /\ Step(r, "registered", "abandoned")
    /\ UNCHANGED <<policy, disk, outcome, claimVars, registry, edited, crashes>>

-----------------------------------------------------------------------------
(***************************************************************************)
(* The end of a run, on whichever thread commits it.                       *)
(***************************************************************************)
RunEnds(r, how) ==
    /\ Step(r, "live", "finishing")
    /\ outcome' = [outcome EXCEPT ![r] = how]
    /\ UNCHANGED <<policy, disk, claimVars, registry, edited, crashes>>

Finish(r) ==
    /\ Step(r, "finishing", IF r \in registry THEN "releasing" ELSE "ended")
    /\ registry' = registry \ {r}
    /\ UNCHANGED <<policy, disk, outcome, claimVars, edited, crashes>>

CleanupAllowed(p, how) ==
    CASE p = "deleteOnSuccess" -> how = "success"
      [] p = "deleteOnTerminal" -> how # "none"
      [] OTHER -> FALSE

DropClaim(r) ==
    /\ Step(r, "releasing", IF CleanupAllowed(policy[r], outcome[r]) THEN "removing" ELSE "ended")
    /\ Release(r)
    /\ UNCHANGED <<policy, disk, outcome, lastToken, since, expired, warned, planned, registry,
                   edited, crashes>>

\* Two git commands under the mutation lock; either may fail and nothing retries it.
RemoveWorktree(r) ==
    /\ \A s \in Capsules : at[s] # "unbranching"
    /\ Step(r, "removing", "unbranching")
    /\ disk' = [disk EXCEPT ![r] = "branch"]
    /\ UNCHANGED <<policy, outcome, claimVars, registry, edited, crashes>>

DeleteBranch(r) ==
    /\ Step(r, "unbranching", "ended")
    /\ disk' = [disk EXCEPT ![r] = "none"]
    /\ UNCHANGED <<policy, outcome, claimVars, registry, edited, crashes>>

GitFails(r) ==
    /\ at[r] \in {"removing", "unbranching"}
    /\ at' = [at EXCEPT ![r] = "gitFailed"]
    /\ UNCHANGED <<policy, disk, outcome, claimVars, registry, edited, crashes>>

-----------------------------------------------------------------------------
UserEdits ==
    /\ edited' = ~edited
    /\ UNCHANGED <<at, policy, disk, outcome, claimVars, registry, crashes>>

\* A restarted daemon fails the runs that ran and promotes a queued one again, in the worktree
\* its stored context names; of claims and resources it knows nothing.
Crash(queued) ==
    /\ crashes < MaxCrashes
    /\ queued \subseteq { r \in Capsules : at[r] = "live" }
    /\ crashes' = crashes + 1
    /\ at' = [r \in Capsules |-> IF at[r] = "idle" \/ r \in queued THEN at[r] ELSE "ended"]
    /\ claims' = [r \in Capsules |-> 0]
    /\ byFile' = [f \in Files |-> {}]
    /\ expired' = expired \union { r \in Capsules : claims[r] # 0 }
    /\ registry' = {}
    /\ UNCHANGED <<policy, disk, outcome, lastToken, since, warned, planned, edited>>

Policies == {"deleteOnSuccess", "deleteOnTerminal", "keep"}

WorkspacesInit ==
    /\ at = [r \in Capsules |-> "idle"] /\ policy = [r \in Capsules |-> "none"]
    /\ disk = [r \in Capsules |-> "none"] /\ outcome = [r \in Capsules |-> "none"]
    /\ planned = [r \in Capsules |-> {}] /\ claims = [r \in Capsules |-> 0]
    /\ byFile = [f \in Files |-> {}] /\ lastToken = 0 /\ since = [r \in Capsules |-> 0] /\ expired = {}
    /\ warned = [r \in Capsules |-> {}] /\ registry = {} /\ edited = FALSE
    /\ crashes = 0

WorkspacesNext ==
    \/ \E r \in Capsules :
          \/ NoWorktree(r) \/ RepoRefused(r) \/ AddWorktree(r) \/ AddFails(r)
          \/ \E cleanup \in Policies : CheckRepo(r, cleanup)
          \/ Located(r) \/ NotLocated(r) \/ NothingToClaim(r)
          \/ \E files \in SUBSET Files : Claim(r, files) \/ ClaimRefused(r, files)
          \/ Register(r) \/ StartRefused(r) \/ StartCommitted(r) \/ CommitFails(r)
          \/ \E how \in {"success", "failed", "cancelled"} : RunEnds(r, how)
          \/ Finish(r) \/ DropClaim(r) \/ RemoveWorktree(r) \/ DeleteBranch(r) \/ GitFails(r)
          \/ HalfHourPasses(r)
    \/ UserEdits
    \/ \E queued \in SUBSET Capsules : Crash(queued)

WorkspacesSpec == WorkspacesInit /\ [][WorkspacesNext]_workspaceVars

-----------------------------------------------------------------------------
\* The index lists a run for a file exactly while it holds a claim on it, and a run that has
\* ended holds no claim and no resources, whichever way it ended (WorkspaceRunRegistry::finish,
\* ClaimRegistryInner::release_if_current).
EndedHoldsNothing ==
    /\ \A f \in Files, r \in Capsules : r \in byFile[f] <=> claims[r] # 0 /\ f \in planned[r]
    /\ \A r \in Capsules : at[r] \in {"ended", "gitFailed"} => claims[r] = 0 /\ r \notin registry

Working == {"claimed", "registered", "live"}

\* Of two runs at work that claimed the same file, the later was warned of the earlier, unless
\* the earlier claim was lost to a crash or to its half hour, which no code extends.
OverlapIsWarned ==
    \A r, s \in Capsules :
        /\ at[r] \in Working /\ at[s] \in Working
        /\ 0 < since[r] /\ since[r] < since[s]
        => \A f \in planned[r] \intersect planned[s] : <<f, r>> \in warned[s] \/ r \in expired

\* A worktree is taken off the disk only for a run that ended as its policy asks; and the
\* worktree of a run that ended so is gone, branch and all, unless git refused, a crash came
\* between, or its allocation failed half way.
RemovedAsAsked ==
    \A r \in Capsules : HasTree(r) =>
        LET asked == \/ policy[r] = "deleteOnSuccess" /\ outcome[r] = "success"
                     \/ policy[r] = "deleteOnTerminal" /\ outcome[r] # "none"
        IN  /\ at[r] \in {"live", "finishing", "releasing"} => disk[r] = "both"
            /\ at[r] \in {"ended", "gitFailed"} /\ disk[r] # "both" => asked \/ crashes > 0
            /\ at[r] = "ended" /\ asked => disk[r] = "none" \/ crashes > 0

\* What worktrees and claims guarantee together.
WorkspacesSound == EndedHoldsNothing /\ OverlapIsWarned /\ RemovedAsAsked
==============================================================================
