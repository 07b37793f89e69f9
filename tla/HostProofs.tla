----------------------------- MODULE HostProofs -----------------------------
(***************************************************************************)
(* What a run may do to the machine it runs on, for any runs, files and    *)
(* roots.                                                                  *)
(*                                                                         *)
(* Worktrees and claims: a run claims once, before its resources are       *)
(* registered; what is registered is given back by whoever ends the run;   *)
(* and a worktree is removed only on the way that its policy opens.        *)
(*                                                                         *)
(* Authority: along a chain of children and forks of any length no context *)
(* widens the one it came from, and no process of a run gets more than its *)
(* context.  Each context is compiled once and kept, so a step that        *)
(* derives one need only look at the parent's, and both facts hold of it   *)
(* for good.                                                               *)
(*                                                                         *)
(* The MCP servers of a turn: who holds the lock of a server is a call     *)
(* that talks to it or takes it down, and a server that is not connected   *)
(* has no process, so a call or the end of the turn need only look at the  *)
(* connected ones.                                                         *)
(*                                                                         *)
(* The Windows helper: how far a helper is says what it has made, whoever  *)
(* is in a list of the host (or in a copy that may be written back) is     *)
(* there by its profile, and the first copy of a list that a helper which  *)
(* is alone made is the list without it.                                   *)
(***************************************************************************)
EXTENDS Workspaces, Authority, McpClient, WindowsSandbox, TLAPS

-----------------------------------------------------------------------------
(* Worktrees and claims.                                                     *)

Early == {"idle", "adding", "added", "located"}
Begun == {"registered", "live", "finishing"}
Removing == {"removing", "unbranching"}
Gone == {"ended", "gitFailed"}
Places == Early \union Begun \union Removing \union Gone \union {"claimed", "releasing", "abandoned"}

WorkspaceTypes ==
    /\ at \in [Capsules -> Places]
    /\ policy \in [Capsules -> Policies \union {"none"}]
    /\ disk \in [Capsules -> {"none", "both", "branch"}]
    /\ outcome \in [Capsules -> {"none", "success", "failed", "cancelled"}]
    /\ planned \in [Capsules -> SUBSET Files]
    /\ claims \in [Capsules -> Nat] /\ since \in [Capsules -> Nat] /\ lastToken \in Nat
    /\ byFile \in [Files -> SUBSET Capsules]
    /\ warned \in [Capsules -> SUBSET (Files \X Capsules)]
    /\ expired \subseteq Capsules /\ registry \subseteq Capsules /\ crashes \in Nat

\* Nothing is held before the claim, and a claim that was made is there until it expires.
ClaimsOnce ==
    /\ \A r \in Capsules : at[r] \in Early =>
         since[r] = 0 /\ claims[r] = 0 /\ planned[r] = {} /\ outcome[r] = "none" /\ r \notin registry
    /\ \A r \in Capsules : since[r] <= lastToken
    /\ \A r \in Capsules : at[r] \in Working /\ since[r] > 0 => claims[r] # 0 \/ r \in expired
\* The index is the claims, by file.
IndexAgrees == \A f \in Files, r \in Capsules : r \in byFile[f] <=> claims[r] # 0 /\ f \in planned[r]
\* What a run holds is registered until its end takes it, and is given back after that.
Registered ==
    /\ \A r \in Capsules : at[r] \in Begun /\ claims[r] # 0 => r \in registry
    /\ \A r \in Capsules : at[r] \in Removing \union Gone \union {"releasing"} => r \notin registry
    /\ \A r \in Capsules : at[r] \in Removing \union Gone => claims[r] = 0

\* The policy of the run asks for the removal of its worktree.
Asked(r) ==
    \/ policy[r] = "deleteOnSuccess" /\ outcome[r] = "success"
    \/ policy[r] = "deleteOnTerminal" /\ outcome[r] # "none"
Standing == {"added", "located", "claimed", "registered", "live", "finishing", "releasing", "removing"}
\* A worktree stands until the step that removes it, which comes only on the asked way.
TreesStand ==
    /\ \A r \in Capsules : at[r] = "idle" => ~HasTree(r)
    /\ \A r \in Capsules : HasTree(r) /\ at[r] \in Standing => disk[r] = "both"
    /\ \A r \in Capsules : at[r] \in Removing => Asked(r)
    /\ \A r \in Capsules : HasTree(r) /\ at[r] \in Begun => r \in registry \/ crashes > 0
    /\ \A r \in Capsules : HasTree(r) /\ at[r] \in Gone /\ disk[r] # "both" => Asked(r) \/ crashes > 0
    /\ \A r \in Capsules : HasTree(r) /\ at[r] = "ended" /\ Asked(r) => disk[r] = "none" \/ crashes > 0
WorkspacesInv ==
    WorkspaceTypes /\ ClaimsOnce /\ IndexAgrees /\ Registered /\ OverlapIsWarned /\ TreesStand

-----------------------------------------------------------------------------
(* Only the place of a run changes in many of its steps.                      *)

Holdings == <<policy, disk, outcome, claims, byFile, lastToken, since, warned, planned, registry, crashes>>
\* The steps that move a run on and give it, or take from it, nothing.
MovesOn(r) ==
    \/ Step(r, "idle", "located") \/ Step(r, "idle", "ended") \/ Step(r, "added", "located")
    \/ Step(r, "added", "ended") \/ Step(r, "located", "ended") \/ Step(r, "located", "claimed")
    \/ Step(r, "registered", "live") \/ Step(r, "registered", "abandoned")
    \/ at[r] \in Removing /\ at' = [at EXCEPT ![r] = "gitFailed"]

LEMMA QuietSteps ==
  ASSUME NEW r \in Capsules,
         \/ NoWorktree(r) \/ RepoRefused(r) \/ Located(r) \/ NotLocated(r) \/ NothingToClaim(r)
         \/ (\E files \in SUBSET Files : ClaimRefused(r, files))
         \/ StartCommitted(r) \/ CommitFails(r) \/ GitFails(r)
  PROVE  MovesOn(r) /\ UNCHANGED Holdings /\ UNCHANGED expired
BY DEF NoWorktree, RepoRefused, Located, NotLocated, NothingToClaim, ClaimRefused, StartCommitted, CommitFails, GitFails,
       MovesOn, Holdings, claimVars, Removing

\* A run that moves on is one step further, and the others are where they were.
LEMMA QuietPlaces ==
  ASSUME WorkspaceTypes, NEW r \in Capsules, MovesOn(r)
  PROVE  /\ \A s \in Capsules \ {r} : at'[s] = at[s]
         /\ \/ at[r] \in {"idle", "added"} /\ at'[r] = "located"
            \/ at[r] \in {"idle", "added", "located"} /\ at'[r] = "ended"
            \/ at[r] = "located" /\ at'[r] = "claimed"
            \/ at[r] = "registered" /\ at'[r] \in {"live", "abandoned"}
            \/ at[r] \in Removing /\ at'[r] = "gitFailed"
         /\ at' \in [Capsules -> Places]
BY DEF WorkspaceTypes, MovesOn, Step, Places, Early, Begun, Removing, Gone

LEMMA QuietKeeps ==
  ASSUME WorkspacesInv, NEW r \in Capsules, MovesOn(r), UNCHANGED Holdings, UNCHANGED expired
  PROVE  WorkspacesInv'
<1>. USE QuietPlaces DEF WorkspacesInv, Holdings
<1>1. WorkspaceTypes'
  BY DEF WorkspaceTypes
<1>2. ClaimsOnce'
  BY DEF ClaimsOnce, Early, Working, Removing
<1>3. IndexAgrees'
  BY DEF IndexAgrees
<1>4. Registered'
  BY DEF Registered, ClaimsOnce, Early, Begun, Removing, Gone
<1>5. OverlapIsWarned'
  BY DEF OverlapIsWarned, Working, ClaimsOnce, Early, Removing
<1>6. TreesStand'
  BY DEF TreesStand, ClaimsOnce, HasTree, Asked, Early, Begun, Removing, Gone, Standing
<1>. QED
  BY <1>1, <1>2, <1>3, <1>4, <1>5, <1>6

-----------------------------------------------------------------------------
(* The claim.                                                                 *)

LEMMA ClaimKeeps ==
  ASSUME WorkspacesInv, NEW r \in Capsules, NEW files \in SUBSET Files, Claim(r, files)
  PROVE  WorkspacesInv'
<1>. USE DEF WorkspacesInv
<1>1. /\ at[r] = "located" /\ at'[r] = "claimed" /\ \A s \in Capsules \ {r} : at'[s] = at[s]
      /\ at' \in [Capsules -> Places]
  BY DEF Claim, Step, WorkspaceTypes, Places
<1>2. /\ planned'[r] = files /\ since'[r] = lastToken + 1 /\ claims'[r] = lastToken + 1 /\ lastToken' = lastToken + 1
      /\ \A s \in Capsules \ {r} : planned'[s] = planned[s] /\ since'[s] = since[s] /\ warned'[s] = warned[s]
      /\ \A s \in Capsules \ {r} : claims'[s] = IF s \in Swept THEN 0 ELSE claims[s]
      /\ warned'[r] = Conflicts(r, files)
  BY DEF Claim, WorkspaceTypes
<1>3. UNCHANGED <<policy, disk, outcome, expired, registry, crashes>>
  BY DEF Claim
<1>4. \A f \in Files : byFile'[f] = IF f \in files THEN (byFile[f] \ (Swept \union {r})) \union {r} ELSE byFile[f] \ (Swept \union {r})
  BY DEF Claim, IndexWith, Unindexed
<1>5. lastToken \in Nat /\ lastToken + 1 # 0 /\ \A s \in Capsules : since[s] \in Nat /\ since[s] <= lastToken
  BY DEF WorkspaceTypes, ClaimsOnce
<1>6. Swept \subseteq Capsules /\ \A s \in Swept : s \in expired
  BY DEF Swept
<1>7. WorkspaceTypes'
  <2>1. byFile' \in [Files -> SUBSET Capsules]
    BY <1>6 DEF Claim, IndexWith, Unindexed, WorkspaceTypes
  <2>2. warned' \in [Capsules -> SUBSET (Files \X Capsules)]
    <3>1. Conflicts(r, files) \in SUBSET (Files \X Capsules)
      BY DEF Conflicts
    <3>. QED
      BY <3>1 DEF Claim, WorkspaceTypes
  <2>3. planned' \in [Capsules -> SUBSET Files] /\ claims' \in [Capsules -> Nat] /\ since' \in [Capsules -> Nat] /\ lastToken' \in Nat
    BY <1>5 DEF Claim, WorkspaceTypes
  <2>. QED
    BY <1>1, <1>3, <2>1, <2>2, <2>3 DEF WorkspaceTypes
<1>8. ClaimsOnce'
  BY <1>1, <1>2, <1>3, <1>5, <1>6 DEF ClaimsOnce, Early, Working
<1>9. IndexAgrees'
  <2>1. ASSUME NEW f \in Files, NEW s \in Capsules \ {r} PROVE (s \in byFile'[f]) <=> (claims'[s] # 0 /\ f \in planned'[s])
    <3>1. (s \in byFile'[f]) <=> (s \in byFile[f] /\ s \notin Swept)
      BY <1>4, <2>1
    <3>2. (claims'[s] # 0) <=> (claims[s] # 0 /\ s \notin Swept)
      BY <1>2, <2>1
    <3>. QED
      BY <1>2, <3>1, <3>2 DEF IndexAgrees
  <2>2. ASSUME NEW f \in Files PROVE (r \in byFile'[f]) <=> (claims'[r] # 0 /\ f \in planned'[r])
    BY <1>2, <1>4, <1>5
  <2>. QED
    BY <2>1, <2>2 DEF IndexAgrees
<1>10. Registered'
  BY <1>1, <1>2, <1>3 DEF Registered, Begun, Removing, Gone
<1>11. OverlapIsWarned'
  <2>1. ASSUME NEW s \in Capsules \ {r}, at[s] \in Working, 0 < since[s], NEW f \in planned[s] \intersect files
        PROVE  <<f, s>> \in Conflicts(r, files) \/ s \in expired
    <3>1. claims[s] # 0 \/ s \in expired
      BY <2>1, <1>5 DEF ClaimsOnce
    <3>2. f \in Files /\ (s \notin expired => s \in byFile[f] \ Swept)
      BY <2>1, <3>1, <1>6 DEF IndexAgrees, WorkspaceTypes
    <3>. QED
      BY <3>2 DEF Conflicts
  <2>. QED
    BY <1>1, <1>2, <1>3, <1>5, <2>1 DEF OverlapIsWarned
<1>12. TreesStand'
  BY <1>1, <1>3 DEF TreesStand, HasTree, Asked, Begun, Removing, Gone, Standing
<1>. QED
  BY <1>7, <1>8, <1>9, <1>10, <1>11, <1>12

-----------------------------------------------------------------------------
(* The other steps of a run.                                                  *)

\* What a step of one run leaves as it is for the rest of the invariant.
ClaimsAsBefore == UNCHANGED <<claims, byFile, lastToken, since, warned, planned, expired>>

LEMMA IndexKept ==
  ASSUME ClaimsAsBefore, IndexAgrees
  PROVE  IndexAgrees'
BY DEF ClaimsAsBefore, IndexAgrees

\* No run starts to work by a step that claims nothing.
LEMMA OverlapKept ==
  ASSUME OverlapIsWarned, UNCHANGED <<since, warned, planned>>, expired \subseteq expired',
         \A r \in Capsules : at'[r] \in Working => at[r] \in Working
  PROVE  OverlapIsWarned'
BY DEF OverlapIsWarned

LEMMA TreeSteps ==
  ASSUME WorkspacesInv, NEW r \in Capsules,
         \/ \E cleanup \in Policies : CheckRepo(r, cleanup)
         \/ AddWorktree(r) \/ AddFails(r) \/ RemoveWorktree(r) \/ DeleteBranch(r)
  PROVE  WorkspacesInv'
<1>. USE DEF WorkspacesInv
<1>1. /\ ClaimsAsBefore /\ UNCHANGED <<outcome, registry, crashes>>
      /\ \A s \in Capsules \ {r} : at'[s] = at[s] /\ policy'[s] = policy[s] /\ disk'[s] = disk[s]
  BY DEF CheckRepo, AddWorktree, AddFails, RemoveWorktree, DeleteBranch, Step, claimVars, ClaimsAsBefore, WorkspaceTypes
<1>2. \/ at[r] = "idle" /\ at'[r] = "adding" /\ disk'[r] = disk[r]
      \/ at[r] = "adding" /\ at'[r] = "added" /\ policy'[r] = policy[r] /\ disk'[r] = "both"
      \/ at[r] = "adding" /\ at'[r] = "ended" /\ policy'[r] = "none" /\ disk'[r] = disk[r]
      \/ at[r] = "removing" /\ at'[r] = "unbranching" /\ policy'[r] = policy[r] /\ disk'[r] = "branch"
      \/ at[r] = "unbranching" /\ at'[r] = "ended" /\ policy'[r] = policy[r] /\ disk'[r] = "none"
  BY DEF CheckRepo, AddWorktree, AddFails, RemoveWorktree, DeleteBranch, Step, WorkspaceTypes
<1>3. WorkspaceTypes'
  <2>1. /\ at' \in [Capsules -> Places] /\ policy' \in [Capsules -> Policies \union {"none"}]
        /\ disk' \in [Capsules -> {"none", "both", "branch"}]
    BY DEF CheckRepo, AddWorktree, AddFails, RemoveWorktree, DeleteBranch, Step, WorkspaceTypes, Places, Early, Removing, Gone
  <2>. QED
    BY <1>1, <2>1 DEF WorkspaceTypes, ClaimsAsBefore
<1>4. ClaimsOnce'
  BY <1>1, <1>2 DEF ClaimsOnce, ClaimsAsBefore, Early, Working
<1>5. Registered'
  BY <1>1, <1>2 DEF Registered, ClaimsOnce, ClaimsAsBefore, Early, Begun, Removing, Gone
<1>6. OverlapIsWarned'
  BY <1>1, <1>2, OverlapKept DEF ClaimsAsBefore, Working
<1>7. TreesStand'
  BY <1>1, <1>2 DEF TreesStand, HasTree, Asked, Begun, Removing, Gone, Standing
<1>. QED
  BY <1>1, <1>3, <1>4, <1>5, <1>6, <1>7, IndexKept

LEMMA RegisterKeeps ==
  ASSUME WorkspacesInv, NEW r \in Capsules, Register(r) \/ Finish(r)
  PROVE  WorkspacesInv'
<1>. USE DEF WorkspacesInv
<1>1. /\ ClaimsAsBefore /\ UNCHANGED <<policy, disk, outcome, crashes>>
      /\ \A s \in Capsules \ {r} : at'[s] = at[s] /\ (s \in registry' <=> s \in registry)
  BY DEF Register, Finish, Step, claimVars, ClaimsAsBefore, WorkspaceTypes
<1>2. \/ at[r] = "claimed" /\ at'[r] = "registered" /\ (HasTree(r) \/ claims[r] # 0 => r \in registry')
      \/ at[r] = "finishing" /\ at'[r] = "releasing" /\ r \notin registry'
      \/ at[r] = "finishing" /\ at'[r] = "ended" /\ r \notin registry' /\ r \notin registry
  BY DEF Register, Finish, Step, WorkspaceTypes
<1>3. WorkspaceTypes'
  <2>1. at' \in [Capsules -> Places] /\ registry' \subseteq Capsules
    BY DEF Register, Finish, Step, WorkspaceTypes, Places, Begun, Gone
  <2>. QED
    BY <1>1, <2>1 DEF WorkspaceTypes, ClaimsAsBefore
<1>4. ClaimsOnce'
  BY <1>1, <1>2 DEF ClaimsOnce, ClaimsAsBefore, Early, Working
<1>5. Registered'
  BY <1>1, <1>2 DEF Registered, ClaimsAsBefore, Begun, Removing, Gone
<1>6. OverlapIsWarned'
  BY <1>1, <1>2, OverlapKept DEF ClaimsAsBefore, Working
<1>7. TreesStand'
  BY <1>1, <1>2 DEF TreesStand, HasTree, Asked, Begun, Removing, Gone, Standing
<1>. QED
  BY <1>1, <1>3, <1>4, <1>5, <1>6, <1>7, IndexKept

LEMMA OutcomeKeeps ==
  ASSUME WorkspacesInv, NEW r \in Capsules,
         StartRefused(r) \/ \E how \in {"success", "failed", "cancelled"} : RunEnds(r, how)
  PROVE  WorkspacesInv'
<1>. USE DEF WorkspacesInv
<1>1. /\ ClaimsAsBefore /\ UNCHANGED <<policy, disk, registry, crashes>>
      /\ \A s \in Capsules \ {r} : at'[s] = at[s] /\ outcome'[s] = outcome[s]
  BY DEF StartRefused, RunEnds, Step, claimVars, ClaimsAsBefore, WorkspaceTypes
<1>2. at[r] \in {"registered", "live"} /\ at'[r] = "finishing"
  BY DEF StartRefused, RunEnds, Step, WorkspaceTypes
<1>3. WorkspaceTypes'
  <2>1. at' \in [Capsules -> Places] /\ outcome' \in [Capsules -> {"none", "success", "failed", "cancelled"}]
    BY DEF StartRefused, RunEnds, Step, WorkspaceTypes, Places, Begun
  <2>. QED
    BY <1>1, <2>1 DEF WorkspaceTypes, ClaimsAsBefore
<1>4. ClaimsOnce'
  BY <1>1, <1>2 DEF ClaimsOnce, ClaimsAsBefore, Early, Working
<1>5. Registered'
  BY <1>1, <1>2 DEF Registered, ClaimsAsBefore, Begun, Removing, Gone
<1>6. OverlapIsWarned'
  BY <1>1, <1>2, OverlapKept DEF ClaimsAsBefore, Working
<1>7. TreesStand'
  BY <1>1, <1>2 DEF TreesStand, HasTree, Asked, Begun, Removing, Gone, Standing
<1>. QED
  BY <1>1, <1>3, <1>4, <1>5, <1>6, <1>7, IndexKept

LEMMA DropKeeps ==
  ASSUME WorkspacesInv, NEW r \in Capsules, DropClaim(r)
  PROVE  WorkspacesInv'
<1>. USE DEF WorkspacesInv
<1>1. /\ UNCHANGED <<policy, disk, outcome, lastToken, since, warned, planned, expired, registry, crashes>>
      /\ \A s \in Capsules \ {r} : at'[s] = at[s] /\ claims'[s] = claims[s]
  BY DEF DropClaim, Step, Release, WorkspaceTypes
<1>2. /\ at[r] = "releasing" /\ claims'[r] = 0 /\ at'[r] \in {"removing", "ended"}
      /\ at'[r] = "removing" <=> Asked(r)
  BY DEF DropClaim, Step, Release, CleanupAllowed, Asked, WorkspaceTypes, Policies
<1>3. \A f \in Files : byFile'[f] = byFile[f] \ {r}
  BY DEF DropClaim, Release, Unindexed, IndexAgrees, WorkspaceTypes
<1>4. WorkspaceTypes'
  <2>1. at' \in [Capsules -> Places] /\ claims' \in [Capsules -> Nat]
    BY DEF DropClaim, Step, Release, WorkspaceTypes, Places, Removing, Gone
  <2>2. byFile' \in [Files -> SUBSET Capsules]
    BY DEF DropClaim, Release, Unindexed, WorkspaceTypes
  <2>. QED
    BY <1>1, <2>1, <2>2 DEF WorkspaceTypes
<1>5. ClaimsOnce'
  BY <1>1, <1>2 DEF ClaimsOnce, Early, Working
<1>6. IndexAgrees'
  BY <1>1, <1>2, <1>3 DEF IndexAgrees
<1>7. Registered'
  BY <1>1, <1>2 DEF Registered, Begun, Removing, Gone
<1>8. OverlapIsWarned'
  BY <1>1, <1>2, OverlapKept DEF Working
<1>9. TreesStand'
  BY <1>1, <1>2 DEF TreesStand, HasTree, Asked, Begun, Removing, Gone, Standing
<1>. QED
  BY <1>4, <1>5, <1>6, <1>7, <1>8, <1>9

-----------------------------------------------------------------------------
(* Time, the user and the crash.                                              *)

LEMMA HourKeeps ==
  ASSUME WorkspacesInv, NEW r \in Capsules, HalfHourPasses(r)
  PROVE  WorkspacesInv'
<1>. USE DEF WorkspacesInv
<1>1. /\ UNCHANGED <<at, policy, disk, outcome, claims, byFile, lastToken, since, warned, planned, registry, crashes>>
      /\ expired' = expired \union {r}
  BY DEF HalfHourPasses
<1>2. WorkspaceTypes'
  BY <1>1 DEF WorkspaceTypes
<1>3. ClaimsOnce' /\ IndexAgrees' /\ Registered'
  BY <1>1 DEF ClaimsOnce, IndexAgrees, Registered
<1>4. OverlapIsWarned'
  BY <1>1, OverlapKept
<1>5. TreesStand'
  BY <1>1 DEF TreesStand, HasTree, Asked
<1>. QED
  BY <1>2, <1>3, <1>4, <1>5

LEMMA UserKeeps ==
  ASSUME WorkspacesInv, UserEdits \/ UNCHANGED workspaceVars
  PROVE  WorkspacesInv'
BY DEF UserEdits, workspaceVars, claimVars, WorkspacesInv, WorkspaceTypes, ClaimsOnce, IndexAgrees, Registered,
       OverlapIsWarned, TreesStand, HasTree, Asked

LEMMA CrashKeeps ==
  ASSUME WorkspacesInv, NEW queued \in SUBSET Capsules, Crash(queued)
  PROVE  WorkspacesInv'
<1>. USE DEF WorkspacesInv
<1>1. /\ UNCHANGED <<policy, disk, outcome, lastToken, since, warned, planned>>
      /\ registry' = {} /\ crashes' = crashes + 1 /\ crashes' > 0
      /\ \A r \in Capsules : claims'[r] = 0
      /\ \A f \in Files : byFile'[f] = {}
      /\ expired' = expired \union {r \in Capsules : claims[r] # 0}
  BY DEF Crash, WorkspaceTypes
<1>2. \A r \in Capsules : \/ at'[r] = "ended"
                          \/ at'[r] = at[r] /\ at[r] \in {"idle", "live"}
  BY DEF Crash
<1>3. WorkspaceTypes'
  <2>1. at' \in [Capsules -> Places] /\ claims' \in [Capsules -> Nat] /\ byFile' \in [Files -> SUBSET Capsules]
    BY DEF Crash, WorkspaceTypes, Places, Gone
  <2>. QED
    BY <1>1, <2>1 DEF WorkspaceTypes
<1>4. ClaimsOnce'
  BY <1>1, <1>2 DEF ClaimsOnce, Early, Working
<1>5. IndexAgrees'
  BY <1>1 DEF IndexAgrees
<1>6. Registered'
  BY <1>1, <1>2 DEF Registered, Begun, Removing, Gone
<1>7. OverlapIsWarned'
  BY <1>1, <1>2, OverlapKept DEF Working
<1>8. TreesStand'
  BY <1>1, <1>2 DEF TreesStand, HasTree, Asked, Begun, Removing, Gone, Standing
<1>. QED
  BY <1>3, <1>4, <1>5, <1>6, <1>7, <1>8

-----------------------------------------------------------------------------
(* The theorem.                                                               *)

LEMMA WorkspacesStart == WorkspacesInit => WorkspacesInv
BY DEF WorkspacesInit, WorkspacesInv, WorkspaceTypes, ClaimsOnce, IndexAgrees, Registered, OverlapIsWarned, TreesStand,
       HasTree, Working, Places, Early, Begun, Removing, Gone, Standing

LEMMA WorkspacesKept == WorkspacesInv /\ [WorkspacesNext]_workspaceVars => WorkspacesInv'
<1>. SUFFICES ASSUME WorkspacesInv, [WorkspacesNext]_workspaceVars PROVE WorkspacesInv'
  OBVIOUS
<1>1. ASSUME NEW r \in Capsules,
             \/ NoWorktree(r) \/ RepoRefused(r) \/ Located(r) \/ NotLocated(r) \/ NothingToClaim(r)
             \/ (\E files \in SUBSET Files : ClaimRefused(r, files))
             \/ StartCommitted(r) \/ CommitFails(r) \/ GitFails(r)
      PROVE  WorkspacesInv'
  BY <1>1, QuietSteps, QuietKeeps
<1>2. ASSUME NEW r \in Capsules, NEW files \in SUBSET Files, Claim(r, files) PROVE WorkspacesInv'
  BY <1>2, ClaimKeeps
<1>3. ASSUME NEW r \in Capsules,
             \/ \E cleanup \in Policies : CheckRepo(r, cleanup)
             \/ AddWorktree(r) \/ AddFails(r) \/ RemoveWorktree(r) \/ DeleteBranch(r)
      PROVE  WorkspacesInv'
  BY <1>3, TreeSteps
<1>4. ASSUME NEW r \in Capsules,
             \/ Register(r) \/ Finish(r) \/ StartRefused(r) \/ DropClaim(r) \/ HalfHourPasses(r)
             \/ \E how \in {"success", "failed", "cancelled"} : RunEnds(r, how)
      PROVE  WorkspacesInv'
  BY <1>4, RegisterKeeps, OutcomeKeeps, DropKeeps, HourKeeps
<1>5. ASSUME NEW queued \in SUBSET Capsules, Crash(queued) PROVE WorkspacesInv'
  BY <1>5, CrashKeeps
<1>6. CASE UserEdits \/ UNCHANGED workspaceVars
  BY <1>6, UserKeeps
<1>. QED
  BY <1>1, <1>2, <1>3, <1>4, <1>5, <1>6 DEF WorkspacesNext

LEMMA WorkspacesPromise == WorkspacesInv => WorkspacesSound
<1>. SUFFICES ASSUME WorkspacesInv PROVE WorkspacesSound
  OBVIOUS
<1>. USE DEF WorkspacesInv
<1>1. EndedHoldsNothing
  BY DEF EndedHoldsNothing, IndexAgrees, Registered, Gone
<1>2. RemovedAsAsked
  BY DEF RemovedAsAsked, TreesStand, Asked, Standing, Gone
<1>. QED
  BY <1>1, <1>2 DEF WorkspacesSound

\* For any runs, files and crashes: the index lists exactly the claims and a run that has ended
\* holds nothing, a later claim on a file was warned of the earlier one that still stands, and a
\* worktree is taken away when, and only when, the run ended as its policy asks.
THEOREM WorkspacesAlwaysSound == WorkspacesSpec => []WorkspacesSound
<1>1. WorkspacesInit => WorkspacesInv
  BY WorkspacesStart
<1>2. WorkspacesInv /\ [WorkspacesNext]_workspaceVars => WorkspacesInv'
  BY WorkspacesKept
<1>3. WorkspacesInv => WorkspacesSound
  BY WorkspacesPromise
<1>. QED
  BY <1>1, <1>2, <1>3, PTL DEF WorkspacesSpec

-----------------------------------------------------------------------------
(* Authority.                                                                *)

\* What the compiler leaves in a context: its roots are those its permission opens.
Compiles(c) ==
    /\ c.permission \in Permissions /\ c.exec \in {"allowAll", "denied"} /\ c.network \in {"open", "none"}
    /\ c.root \in Path /\ StartsWith(c.root, Repo)
    /\ c.reads = SandboxRoots(c.root, c.cwd, c.permission).reads
    /\ c.writes = SandboxRoots(c.root, c.cwd, c.permission).writes
    /\ Within(c.writes, c.writes)

\* A context is compiled before anything is derived from it or started in it.
AuthorityInv ==
    /\ DOMAIN ctx = Runs /\ DOMAIN parent = Runs
    /\ \A r \in Runs : Has(r) => Compiles(ctx[r])
    /\ \A r \in Runs : parent[r] # NoParent => Has(r) /\ parent[r] \in Runs /\ Has(parent[r])
    /\ proc # NoProcess => proc.run \in Runs /\ Has(proc.run)
    /\ AuthoritySound

-----------------------------------------------------------------------------
(* Paths and roots.                                                          *)

LEMMA StartsWithSelf == ASSUME NEW S, NEW p \in Seq(S) PROVE StartsWith(p, p)
BY DEF StartsWith

\* A directory of a worktree lies in that worktree, whatever follows its name.
LEMMA StartsWithPrefix ==
  ASSUME NEW S, NEW p \in Seq(S), NEW q \in Seq(S)
  PROVE  StartsWith(p \o q, p)
BY DEF StartsWith

LEMMA WithinMore ==
  ASSUME NEW roots, NEW bound, NEW more, Within(roots, bound), bound \subseteq more
  PROVE  Within(roots, more)
BY DEF Within, PathAllowed

LEMMA SubSeqIn ==
  ASSUME NEW S, NEW p \in Seq(S), NEW m \in 1 .. Len(p) + 1
  PROVE  SubSeq(p, m, Len(p)) \in Seq(S)
OBVIOUS

LEMMA PathsGrow == ASSUME NEW S, NEW T, S \subseteq T, NEW p \in Seq(S) PROVE p \in Seq(T)
OBVIOUS

\* The directory a run in a worktree works in lies in its own worktree.
LEMMA CwdInWorktree ==
  ASSUME NEW r, NEW root \in Path, StartsWith(root, Repo)
  PROVE  /\ EffectiveCwd(r, root, "worktreeWrite") \in Seq(STRING \union {"repo", "target", r})
         /\ StartsWith(EffectiveCwd(r, root, "worktreeWrite"), WorktreeRoot(r))
<1> DEFINE S == STRING \union {"repo", "target", r}
           tail == SubSeq(root, Len(Repo) + 1, Len(root))
<1>1. root \in Seq(S) BY PathsGrow DEF Path
<1>2. Len(root) \in Nat /\ Len(root) # 0 BY DEF StartsWith, Repo, Path
<1>3. Len(Repo) + 1 \in 1 .. Len(root) + 1 BY <1>2 DEF Repo
<1>4. tail \in Seq(S) BY <1>1, <1>3, SubSeqIn
<1>5. WorktreeRoot(r) \in Seq(S)
  <2>1. "repo" \in S /\ "target" \in S /\ r \in S OBVIOUS
  <2> HIDE DEF S
  <2> QED BY <2>1 DEF WorktreeRoot
<1>6. WorktreeRoot(r) \o tail \in Seq(S) BY <1>4, <1>5
<1> QED BY <1>4, <1>5, <1>6, StartsWithPrefix DEF EffectiveCwd

-----------------------------------------------------------------------------
(* Contexts.                                                                 *)

LEMMA ContextCompiles ==
  ASSUME NEW r, NEW root \in Path, StartsWith(root, Repo), NEW mode, NEW allowed,
         allowed.permission \in Permissions, allowed.exec \in {"allowAll", "denied"}, allowed.network \in {"open", "none"}
  PROVE  Compiles(Context(r, root, mode, allowed)) /\ Context(r, root, mode, allowed) # NoContext
<1> DEFINE c == Context(r, root, mode, allowed)
           S == STRING \union {"repo", "target", r}
<1>1. c.cwd \in Seq(S)
  <2>1. CASE mode = "worktreeWrite"
    <3>1. c.cwd = EffectiveCwd(r, root, "worktreeWrite") BY <2>1 DEF Context
    <3> QED BY <3>1, CwdInWorktree
  <2>2. CASE mode # "worktreeWrite"
    <3>1. c.cwd = root BY <2>2 DEF Context, EffectiveCwd
    <3> QED BY <3>1, PathsGrow DEF Path
  <2> QED BY <2>1, <2>2
<1>2. StartsWith(c.cwd, c.cwd) BY <1>1, StartsWithSelf
<1>3. StartsWith(Repo, Repo) /\ StartsWith(Artifacts, Artifacts) BY DEF StartsWith, Repo, Artifacts
<1>4. c.writes \subseteq {c.cwd, Repo, Artifacts} BY DEF Context, SandboxRoots
<1>5. Within(c.writes, c.writes) BY <1>2, <1>3, <1>4 DEF Within, PathAllowed
<1> QED BY <1>5 DEF Context, Compiles, Permissions, NoContext

\* The parts of ChildWithinParent, of a context c of the run r and the one it came from.
NoWider(r, c, p) ==
    LET own == IF c.mode = "worktreeWrite" THEN {WorktreeRoot(r)} ELSE {}
    IN  /\ Within(c.writes, p.writes \union own)
        /\ Within(c.reads, p.reads \union p.writes \union own)
        /\ p.exec = "denied" => c.exec = "denied"
        /\ p.network = "none" => c.network = "none"
        /\ p.permission \in Asking => c.permission \in Asking \union {"readOnly"}

\* What a scope asks of the parent is what the child is then given.
LEMMA ChildIsNoWider ==
  ASSUME NEW r, NEW p, Compiles(p), NEW mode \in Modes, ChildAllowed(p, mode)
  PROVE  LET c == Context(r, p.root, mode, ChildPolicy(p, mode))
         IN  Compiles(c) /\ c # NoContext /\ NoWider(r, c, p)
<1> DEFINE allowed == ChildPolicy(p, mode)
           c == Context(r, p.root, mode, allowed)
           own == IF c.mode = "worktreeWrite" THEN {WorktreeRoot(r)} ELSE {}
<1>1. allowed.permission \in Permissions /\ allowed.exec = p.exec /\ allowed.network = p.network
  BY DEF ChildPolicy, ChildWorkspaceWrite, Compiles, Permissions, Asking
<1>2. Compiles(c) /\ c # NoContext
  <2>1. p.root \in Path /\ StartsWith(p.root, Repo) /\ p.exec \in {"allowAll", "denied"} /\ p.network \in {"open", "none"}
    BY DEF Compiles
  <2> HIDE DEF allowed
  <2> QED BY <1>1, <2>1, ContextCompiles
<1>3. /\ c.mode = mode /\ c.root = p.root /\ c.cwd = EffectiveCwd(r, p.root, mode)
      /\ c.permission = allowed.permission /\ c.exec = p.exec /\ c.network = p.network
      /\ c.writes = SandboxRoots(p.root, c.cwd, c.permission).writes
      /\ c.reads = SandboxRoots(p.root, c.cwd, c.permission).reads
  BY <1>1 DEF Context
\* A permission that is not read-only is given only to a child of a parent that may write.
<1>4. /\ mode = "readonly" => c.permission = "readOnly"
      /\ mode # "readonly" => p.permission # "readOnly" /\ Artifacts \in p.writes
      /\ c.permission = "repoWriteWithApproval" => mode = "repoWriteWithApproval"
      /\ p.permission \in Asking => c.permission \in Asking \union {"readOnly"}
  <2>1. mode # "readonly" => p.permission # "readOnly"
    BY DEF ChildAllowed, MayWrite, Modes
  <2>2. p.permission # "readOnly" => Artifacts \in p.writes
    BY DEF Compiles, SandboxRoots
  <2>3. /\ mode = "readonly" => allowed.permission = "readOnly"
        /\ allowed.permission = "repoWriteWithApproval" => mode = "repoWriteWithApproval"
        /\ p.permission \in Asking => allowed.permission \in Asking \union {"readOnly"}
    BY DEF ChildPolicy, ChildWorkspaceWrite, Modes, Asking
  <2> QED BY <1>3, <2>1, <2>2, <2>3
<1>5. PathAllowed(p.writes \union own, c.cwd) \/ mode = "readonly" \/ mode = "repoWriteWithApproval"
  <2>1. CASE mode = "worktreeWrite"
    <3>1. StartsWith(c.cwd, WorktreeRoot(r)) BY <1>3, <2>1, CwdInWorktree DEF Compiles
    <3>2. WorktreeRoot(r) \in own BY <1>3, <2>1
    <3> QED BY <3>1, <3>2 DEF PathAllowed
  <2>2. CASE mode = "workspaceWrite"
    <3>1. c.cwd = p.root BY <1>3, <2>2 DEF EffectiveCwd
    <3>2. PathAllowed(p.writes, p.root) BY <2>2 DEF ChildAllowed, MayWrite
    <3> QED BY <3>1, <3>2 DEF PathAllowed
  <2> QED BY <2>1, <2>2 DEF Modes, ChildAllowed
<1>6. PathAllowed(p.reads \union p.writes \union own, c.cwd)
  <2>1. CASE mode = "worktreeWrite" BY <1>5, <2>1 DEF PathAllowed
  <2>2. CASE mode # "worktreeWrite"
    <3>1. c.cwd = p.root BY <1>3, <2>2 DEF EffectiveCwd
    <3>2. PathAllowed(p.reads, p.root) BY DEF ChildAllowed
    <3> QED BY <3>1, <3>2 DEF PathAllowed
  <2> QED BY <2>1, <2>2
<1>7. mode = "repoWriteWithApproval" => PathAllowed(p.writes, Repo)
  BY DEF ChildAllowed, MayWrite
<1>8. mode # "readonly" => PathAllowed(p.writes \union own, Artifacts)
  <2>1. StartsWith(Artifacts, Artifacts) BY DEF StartsWith, Artifacts
  <2> QED BY <1>4, <2>1 DEF PathAllowed
<1>9. Within(c.writes, p.writes \union own)
  <2>1. CASE c.permission = "readOnly"
    <3>1. c.writes = {} BY <1>3, <2>1 DEF SandboxRoots
    <3> QED BY <3>1 DEF Within
  <2>2. CASE c.permission = "repoWriteWithApproval"
    <3>1. c.writes = {Repo, Artifacts} BY <1>3, <2>2 DEF SandboxRoots
    <3>2. PathAllowed(p.writes \union own, Repo) BY <1>4, <1>7, <2>2 DEF PathAllowed
    <3>3. PathAllowed(p.writes \union own, Artifacts) BY <1>4, <1>8, <2>2
    <3> QED BY <3>1, <3>2, <3>3 DEF Within
  <2>3. CASE c.permission \notin {"readOnly", "repoWriteWithApproval"}
    <3>1. c.writes = {c.cwd, Artifacts} BY <1>3, <2>3 DEF SandboxRoots
    <3>2. mode # "readonly" /\ mode # "repoWriteWithApproval"
      BY <1>3, <1>4, <2>3 DEF ChildPolicy
    <3>3. PathAllowed(p.writes \union own, c.cwd) /\ PathAllowed(p.writes \union own, Artifacts)
      BY <1>5, <1>8, <3>2
    <3> QED BY <3>1, <3>3 DEF Within
  <2> QED BY <2>1, <2>2, <2>3
<1>10. Within(c.reads, p.reads \union p.writes \union own)
  <2>1. PathAllowed(p.reads \union p.writes \union own, c.root)
    BY <1>3 DEF ChildAllowed, PathAllowed
  <2>2. c.permission = "repoWriteWithApproval" => PathAllowed(p.reads \union p.writes \union own, Repo)
    BY <1>4, <1>7 DEF PathAllowed
  <2>3. c.reads \subseteq {c.root, c.cwd} \union (IF c.permission = "repoWriteWithApproval" THEN {Repo} ELSE {})
    BY <1>3 DEF SandboxRoots
  <2> QED BY <1>6, <2>1, <2>2, <2>3 DEF Within
<1>11. NoWider(r, c, p) BY <1>3, <1>4, <1>9, <1>10 DEF NoWider
<1> QED BY <1>2, <1>11

-----------------------------------------------------------------------------
(* Processes.                                                                *)

\* The parts of ProcessWithinContext, of a process with these tools inside this sandbox.
Fits(c, tools, inside) ==
    /\ Within(inside.writes, c.writes \union {Cache, TempDir})
    /\ c.exec = "allowAll"
    /\ c.network = "none" => inside.network = "off" \/ (tools.network = "off" /\ tools.asks = "never")
    /\ c.permission \in Asking => tools.asks \notin {"never", "bypassPermissions"}
    /\ inside.arguments \subseteq BaseEnv

\* Every program's directories are its own, and only a native one is kept off the network.
LEMMA PerimeterFits ==
  ASSUME NEW c, NEW program \in Programs, NEW commandDir
  PROVE  LET perimeter == Perimeter(program, c, commandDir)
         IN  /\ perimeter.writes \subseteq c.writes \union {Cache, TempDir}
             /\ program \in Native => perimeter.network = IF c.network = "none" THEN "off" ELSE "open"
<1> DEFINE perimeter == Perimeter(program, c, commandDir)
<1>1. CASE program = "shell" BY <1>1 DEF Perimeter, NativePerimeter
<1>2. CASE program = "mcp" BY <1>2 DEF Perimeter, McpPerimeter, NativePerimeter
<1>3. CASE program = "codexServer" BY <1>3 DEF Perimeter, CodexPerimeter, Native
<1>4. CASE program \notin Native \union {"codexServer"}
  BY <1>4 DEF Perimeter, AcpPerimeter, Native
<1> QED BY <1>1, <1>2, <1>3, <1>4 DEF Native

\* What may be launched in a context asks where the context asks, and has no tool on a network
\* that the context closes.
LEMMA ToolsFit ==
  ASSUME NEW c, c.permission \in Permissions, NEW program \in Programs, NEW commandDir, NEW httpMcp \in BOOLEAN,
         LaunchAllowed(program, c, commandDir, httpMcp)
  PROVE  LET tools == ToolPolicy(program, c)
         IN  /\ c.exec = "allowAll"
             /\ c.network = "none" => program \in Native \/ (tools.network = "off" /\ tools.asks = "never")
             /\ c.permission \in Asking => tools.asks \notin {"never", "bypassPermissions"}
<1> DEFINE tools == ToolPolicy(program, c)
<1>1. CASE program \in Native
  <2>1. tools.asks = "engine" BY <1>1 DEF ToolPolicy, Native
  <2>2. c.exec = "allowAll" BY <1>1 DEF LaunchAllowed, NativeAllowed, Native
  <2> QED BY <1>1, <2>1, <2>2
<1>2. CASE program = "codexServer"
  <2>1. tools = CodexTurnPolicy(c) BY <1>2 DEF ToolPolicy, Native
  <2>2. CodexTurnAllowed(c) BY <1>2 DEF LaunchAllowed
  <2> QED BY <2>1, <2>2 DEF CodexTurnPolicy, CodexTurnAllowed
<1>3. CASE program = "codexAcp"
  <2>1. tools = CodexTurnPolicy(c) BY <1>3 DEF ToolPolicy, Native, CodexArgs
  <2>2. AcpAllowed(program, c) BY <1>3 DEF LaunchAllowed
  <2> QED BY <2>1, <2>2 DEF CodexTurnPolicy, AcpAllowed
<1>4. CASE program \in Vendors
  <2>1. tools = VendorConfig(program, c) BY <1>4 DEF ToolPolicy, Native, Vendors
  <2>2. AcpAllowed(program, c) BY <1>4 DEF LaunchAllowed, Vendors
  <2>3. c.network = "open" BY <1>4, <2>2 DEF AcpAllowed, Vendors
  <2>4. c.permission \in Asking => tools.asks \notin {"never", "bypassPermissions"}
    BY <1>4, <2>1 DEF VendorConfig, ClaudeSessionMode, CopilotSessionMode, Asking, Vendors
  <2> QED BY <2>2, <2>3, <2>4 DEF AcpAllowed
<1> QED BY <1>1, <1>2, <1>3, <1>4 DEF Programs

\* Either confinement of the perimeter is no wider than the perimeter, and shows no secret.
LEMMA ProcessFits ==
  ASSUME NEW r \in Runs, Compiles(ctx[r]), NEW program \in Programs, NEW host, NEW commandDir, NEW caller,
         NEW httpMcp \in BOOLEAN, Launch(r, program, host, commandDir, caller, httpMcp)
  PROVE  proc'.run = r /\ Fits(ctx[r], proc'.tools, proc'.inside)
<1> DEFINE c == ctx[r]
           perimeter == Perimeter(program, c, commandDir)
           tools == ToolPolicy(program, c)
<1>1. /\ proc'.run = r /\ proc'.tools = tools
      /\ \/ proc'.inside = LandlockConfined(perimeter, caller)
         \/ proc'.inside = BwrapConfined(perimeter, caller) /\ caller = {}
  BY DEF Launch, SandboxStrategy, BwrapStands
<1>2. LaunchAllowed(program, c, commandDir, httpMcp) /\ c.permission \in Permissions
  BY DEF Launch, Compiles
<1>3. /\ perimeter.writes \subseteq c.writes \union {Cache, TempDir}
      /\ program \in Native => perimeter.network = IF c.network = "none" THEN "off" ELSE "open"
  BY PerimeterFits
<1>4. /\ c.exec = "allowAll"
      /\ c.network = "none" => program \in Native \/ (tools.network = "off" /\ tools.asks = "never")
      /\ c.permission \in Asking => tools.asks \notin {"never", "bypassPermissions"}
  BY <1>2, ToolsFit
<1> HIDE DEF perimeter, tools
<1>5. /\ proc'.inside.writes = perimeter.writes /\ proc'.inside.arguments \subseteq BaseEnv
      /\ proc'.inside.network \in {perimeter.network, "off"}
  BY <1>1 DEF LandlockConfined, BwrapConfined, ChildEnv
<1>6. Within(proc'.inside.writes, c.writes \union {Cache, TempDir})
  <2>1. Within(c.writes, c.writes) BY DEF Compiles
  <2>2. Within({Cache, TempDir}, {Cache, TempDir}) BY DEF Within, PathAllowed, StartsWith, Cache, TempDir
  <2> QED BY <1>3, <1>5, <2>1, <2>2 DEF Within, PathAllowed
<1> QED BY <1>1, <1>3, <1>4, <1>5, <1>6 DEF Fits

-----------------------------------------------------------------------------
(* Steps.                                                                    *)

\* The parts of AuthoritySound, by their names.
LEMMA SoundByParts ==
  AuthoritySound <=> /\ \A r \in Runs : parent[r] # NoParent => NoWider(r, ctx[r], ctx[parent[r]])
                     /\ proc # NoProcess => Fits(ctx[proc.run], proc.tools, proc.inside)
BY DEF AuthoritySound, ChildWithinParent, ProcessWithinContext, NoWider, Fits

LEMMA SoundByPartsNext ==
  AuthoritySound' <=> /\ \A r \in Runs : parent'[r] # NoParent => NoWider(r, ctx'[r], ctx'[parent'[r]])
                      /\ proc' # NoProcess => Fits(ctx'[proc'.run], proc'.tools, proc'.inside)
BY DEF AuthoritySound, ChildWithinParent, ProcessWithinContext, NoWider, Fits

LEMMA AuthorityStarts == AuthorityInit => AuthorityInv
<1> SUFFICES ASSUME AuthorityInit PROVE AuthorityInv OBVIOUS
<1>1. \A r \in Runs : ~Has(r) /\ parent[r] = NoParent BY DEF AuthorityInit, Has
<1>2. proc = NoProcess BY DEF AuthorityInit
<1>3. DOMAIN ctx = Runs /\ DOMAIN parent = Runs BY DEF AuthorityInit
<1>4. AuthoritySound BY <1>1, <1>2, SoundByParts
<1> QED BY <1>1, <1>2, <1>3, <1>4 DEF AuthorityInv

\* A run that gets a context takes none from another.
LEMMA NewContextKeeps ==
  ASSUME AuthorityInv, NEW r \in Runs, ~Has(r), NEW c, Compiles(c), c # NoContext, ctx' = [ctx EXCEPT ![r] = c],
         proc' = proc, NEW p,
         \/ parent' = parent
         \/ parent' = [parent EXCEPT ![r] = p] /\ p \in Runs \ {r} /\ Has(p) /\ NoWider(r, c, ctx[p])
  PROVE  AuthorityInv'
<1>1. \A q \in Runs : IF q = r THEN ctx'[q] = c ELSE ctx'[q] = ctx[q] BY DEF AuthorityInv
<1>2. parent[r] = NoParent BY DEF AuthorityInv
<1>3. \A q \in Runs \ {r} : parent'[q] = parent[q] BY DEF AuthorityInv
<1>4. Has(r)' /\ \A q \in Runs \ {r} : Has(q)' <=> Has(q) BY <1>1 DEF Has
<1>5. \A q \in Runs : Has(q)' => Compiles(ctx'[q]) BY <1>1, <1>4 DEF AuthorityInv
<1>6. \A q \in Runs : parent'[q] # NoParent =>
         ctx'[q] # NoContext /\ parent'[q] \in Runs /\ ctx'[parent'[q]] # NoContext /\ NoWider(q, ctx'[q], ctx'[parent'[q]])
  <2> SUFFICES ASSUME NEW q \in Runs, parent'[q] # NoParent
               PROVE  ctx'[q] # NoContext /\ parent'[q] \in Runs /\ ctx'[parent'[q]] # NoContext /\ NoWider(q, ctx'[q], ctx'[parent'[q]])
    OBVIOUS
  <2>1. CASE q = r
    <3>1. parent'[q] = p /\ p \in Runs \ {r} /\ Has(p) /\ NoWider(r, c, ctx[p]) BY <1>2, <2>1 DEF AuthorityInv
    <3>2. ctx'[q] = c /\ ctx'[p] = ctx[p] BY <1>1, <2>1, <3>1
    <3> QED BY <2>1, <3>1, <3>2 DEF Has
  <2>2. CASE q # r
    <3> DEFINE o == parent[q]
    <3>1. parent'[q] = o /\ o # NoParent /\ o \in Runs /\ Has(q) /\ Has(o) BY <1>3, <2>2 DEF AuthorityInv
    <3>2. o # r BY <3>1
    <3>3. NoWider(q, ctx[q], ctx[o]) BY <3>1, SoundByParts DEF AuthorityInv
    <3>4. ctx'[q] = ctx[q] /\ ctx'[o] = ctx[o] BY <1>1, <2>2, <3>1, <3>2
    <3>5. ctx'[q] # NoContext /\ ctx'[o] # NoContext BY <3>1, <3>4 DEF Has
    <3> HIDE DEF o
    <3> QED BY <3>1, <3>3, <3>4, <3>5
  <2> QED BY <2>1, <2>2
<1>7. proc' # NoProcess => /\ proc'.run \in Runs /\ ctx'[proc'.run] # NoContext
                           /\ Fits(ctx'[proc'.run], proc'.tools, proc'.inside)
  <2> SUFFICES ASSUME proc # NoProcess
               PROVE  proc.run \in Runs /\ ctx'[proc.run] # NoContext /\ Fits(ctx'[proc.run], proc.tools, proc.inside)
    OBVIOUS
  <2>1. proc.run \in Runs /\ Has(proc.run) BY DEF AuthorityInv
  <2>2. proc.run # r BY <2>1
  <2>3. Fits(ctx[proc.run], proc.tools, proc.inside) BY SoundByParts DEF AuthorityInv
  <2>4. ctx'[proc.run] = ctx[proc.run] BY <1>1, <2>1, <2>2
  <2>5. ctx'[proc.run] # NoContext BY <2>1, <2>4 DEF Has
  <2> QED BY <2>1, <2>3, <2>4, <2>5
<1>8. AuthoritySound' BY <1>6, <1>7, SoundByPartsNext
<1>9. DOMAIN ctx' = Runs /\ DOMAIN parent' = Runs BY DEF AuthorityInv
<1> QED BY <1>5, <1>6, <1>7, <1>8, <1>9 DEF AuthorityInv, Has

LEMMA AuthorityStep == AuthorityInv /\ [AuthorityNext]_authorityVars => AuthorityInv'
<1> SUFFICES ASSUME AuthorityInv, [AuthorityNext]_authorityVars PROVE AuthorityInv' OBVIOUS
<1>1. ASSUME NEW r \in Runs, NEW root \in Roots, NEW profileMode \in {"requireApproval", "allow", "deny"},
             NEW lane \in BOOLEAN, StartRoot(r, root, profileMode, lane)
      PROVE  AuthorityInv'
  <2> DEFINE allowed == Compiled(profileMode, lane)
             c == Context(r, root, "workspaceWrite", allowed)
  <2>1. /\ allowed.permission \in Permissions /\ allowed.exec \in {"allowAll", "denied"}
        /\ allowed.network \in {"open", "none"}
    BY DEF Compiled, Permissions
  <2>2. root \in Path /\ StartsWith(root, Repo) BY RootsInRepo
  <2>3. ~Has(r) /\ ctx' = [ctx EXCEPT ![r] = c] /\ proc' = proc /\ parent' = parent BY <1>1 DEF StartRoot
  <2> HIDE DEF allowed
  <2>4. Compiles(c) /\ c # NoContext BY <2>1, <2>2, ContextCompiles
  <2> HIDE DEF c
  <2> QED BY <2>3, <2>4, NewContextKeeps
<1>2. ASSUME NEW r \in Runs, NEW p \in Runs \ {r}, NEW mode \in Modes, Derive(r, p, mode)
      PROVE  AuthorityInv'
  <2> DEFINE c == Context(r, ctx[p].root, mode, ChildPolicy(ctx[p], mode))
  <2>1. /\ ~Has(r) /\ Has(p) /\ ctx' = [ctx EXCEPT ![r] = c] /\ proc' = proc /\ parent' = [parent EXCEPT ![r] = p]
        /\ ChildAllowed(ctx[p], mode)
    BY <1>2 DEF Derive
  <2>2. Compiles(ctx[p]) BY <2>1 DEF AuthorityInv
  <2>3. Compiles(c) /\ c # NoContext /\ NoWider(r, c, ctx[p]) BY <2>1, <2>2, ChildIsNoWider
  <2> HIDE DEF c
  <2> QED BY <2>1, <2>3, NewContextKeeps
<1>3. ASSUME NEW r \in Runs, NEW p \in Runs \ {r}, SpawnChild(r, p) \/ Fork(r, p)
      PROVE  AuthorityInv'
  <2>1. CASE SpawnChild(r, p) BY <1>2, <2>1 DEF SpawnChild
  <2>2. CASE Fork(r, p)
    <3>1. ForkMode(ctx[p]) \in Modes BY DEF ForkMode, Modes
    <3> QED BY <1>2, <2>2, <3>1 DEF Fork
  <2> QED BY <1>3, <2>1, <2>2
<1>4. ASSUME NEW r \in Runs, NEW program \in Programs, NEW host \in Hosts, NEW commandDir, NEW httpMcp \in BOOLEAN,
             NEW caller, Launch(r, program, host, commandDir, caller, httpMcp)
      PROVE  AuthorityInv'
  <2>1. Has(r) /\ ctx' = ctx /\ parent' = parent BY <1>4 DEF Launch
  <2>2. Compiles(ctx[r]) BY <2>1 DEF AuthorityInv
  <2>3. proc'.run = r /\ Fits(ctx[r], proc'.tools, proc'.inside) BY <1>4, <2>2, ProcessFits
  <2>4. \A q \in Runs : Has(q)' <=> Has(q) BY <2>1 DEF Has
  <2>5. AuthoritySound' BY <2>1, <2>3, SoundByParts, SoundByPartsNext DEF AuthorityInv
  <2> QED BY <2>1, <2>3, <2>4, <2>5 DEF AuthorityInv
<1>5. CASE UNCHANGED authorityVars
  <2>1. ctx' = ctx /\ parent' = parent /\ proc' = proc BY <1>5 DEF authorityVars
  <2>2. \A q \in Runs : Has(q)' <=> Has(q) BY <2>1 DEF Has
  <2>3. AuthoritySound' BY <2>1, SoundByParts, SoundByPartsNext DEF AuthorityInv
  <2> QED BY <2>1, <2>2, <2>3 DEF AuthorityInv
<1> QED BY <1>1, <1>3, <1>4, <1>5 DEF AuthorityNext

-----------------------------------------------------------------------------
\* However runs are started, spawned and forked and whatever is started in them, no context widens
\* the one it was derived from and no process what its context grants (compile_child_execution_policy,
\* and the perimeters of the launchers).
THEOREM AuthorityAlwaysSound == AuthoritySpec => []AuthoritySound
<1>1. AuthorityInv => AuthoritySound BY DEF AuthorityInv
<1> QED BY <1>1, AuthorityStarts, AuthorityStep, PTL DEF AuthoritySpec

(***************************************************************************)
(* The MCP servers of a turn.                                              *)
(***************************************************************************)
Mounting == {"spawning", "initializing", "listing"}
CallStates == {"idle", "waiting", "sent", "answered", "aborting", "closing"} \cup Ended
Calls == [server : Nat, st : CallStates, why : {"", "timedOut", "cancelled"}]
McpTyped ==
    /\ mount \in [phase : Mounting \cup {"mounted", "unwinding", "over"}, at : 1..(MaxServers + 1)]
    /\ mount.phase \in Mounting \cup {"mounted"} => mount.at \in Servers
    /\ procs \in [Servers -> SUBSET {"child", "helper"}]
    /\ service \in [Servers -> {"none", "open", "closing", "gone"}]
    /\ holder \in [Servers -> {0} \cup McpCalls]
    /\ listed \in [Servers -> Seq(McpTools)]
    /\ toolCalls \in [McpCalls -> Calls]
    /\ \A c \in McpCalls : toolCalls[c].st # "idle" => toolCalls[c].server \in Servers

\* A server that is not connected has no process, but while it starts; one that was taken down
\* has none unless that failed.  Who is connected was mounted, and who closes is being closed by
\* the call that has the lock.
Connected(s) ==
    /\ service[s] = "none" /\ s \notin stuck /\ ~(mount.phase = "initializing" /\ mount.at = s) => procs[s] = {}
    /\ service[s] = "gone" /\ s \notin stuck => "child" \notin procs[s] /\ (s \notin dropped => procs[s] = {})
Mounted(s) ==
    /\ service[s] # "none" => s <= mount.at
    /\ service[s] # "none" /\ mount.phase \in {"spawning", "initializing"} => s < mount.at
    /\ service[s] \in {"open", "closing"} /\ mount.phase \in {"unwinding", "over"} => s < mount.at
    /\ service[s] = "none" /\ mount.phase \in Mounting => mount.at <= s
    /\ service[s] = "none" /\ mount.phase = "listing" => mount.at < s
    /\ mount.phase = "mounted" => service[s] # "none"
    /\ mount.phase = "over" => service[s] # "open"
Locked(s) ==
    /\ holder[s] # 0 => toolCalls[holder[s]].server = s /\ toolCalls[holder[s]].st \in {"sent", "closing"}
    /\ service[s] = "closing" => holder[s] # 0 /\ toolCalls[holder[s]].st = "closing"
ServerSound(s) ==
    /\ Connected(s) /\ Mounted(s) /\ Locked(s)
    /\ procs[s] # {} => PerimeterRoots(command[s]) # {"refused"}

\* A call that talks to its server or takes it down has the lock; one that was given up has
\* taken it down, or found it taken down.
CallSound(c) ==
    /\ toolCalls[c].st \in {"sent", "closing"} => holder[toolCalls[c].server] = c
    /\ toolCalls[c].st = "sent" => service[toolCalls[c].server] = "open"
    /\ toolCalls[c].st = "closing" => service[toolCalls[c].server] = "closing"
    /\ toolCalls[c].st \in {"aborting", "closing"} => toolCalls[c].why \in {"timedOut", "cancelled"}
    /\ toolCalls[c].st \in {"timedOut", "cancelled"} => service[toolCalls[c].server] = "gone"

\* Calls are made between mounting and unmounting.  A client is dropped only while mounting.
Phased ==
    /\ mount.phase \in Mounting => \A c \in McpCalls : toolCalls[c].st = "idle"
    /\ mount.phase # "mounted" => \A c \in McpCalls : toolCalls[c].st \in Ended \cup {"idle"}
    /\ mount.phase \in Mounting \cup {"mounted"} => dropped = {}
    /\ dropped # {} => \A c \in McpCalls : toolCalls[c].st = "idle"

\* The names: a server that is still to come has taken none.
NamesSound ==
    /\ \A b \in Builtins : <<0, b>> \in DOMAIN toolRegistry /\ toolRegistry[<<0, b>>] = <<0, b>>
    /\ mount.phase \in Mounting => \A n \in DOMAIN toolRegistry : n[1] \in Nat /\ n[1] < mount.at
    /\ \A s \in Servers : \A i \in DOMAIN listed[s] : \E n \in DOMAIN toolRegistry : toolRegistry[n] = <<s, listed[s][i]>>

McpInvariant ==
    /\ McpTyped /\ Phased /\ NamesSound
    /\ \A s \in Servers : ServerSound(s)
    /\ \A c \in McpCalls : CallSound(c)

\* The invariant is what the run checks, and more.
LEMMA McpInvariantIsSound == McpInvariant => McpSound
  <1> SUFFICES ASSUME McpInvariant
               PROVE  McpSound
    OBVIOUS
  <1> USE DEF McpInvariant
  <1>1. ASSUME mount.phase = "over", NEW s \in Servers, s \notin stuck
        PROVE  "child" \notin procs[s] /\ (s \notin dropped => procs[s] = {})
    <2>1. service[s] # "open"
      BY <1>1 DEF ServerSound, Mounted
    <2>2. service[s] # "closing"
      <3>1. SUFFICES ASSUME service[s] = "closing"
                     PROVE  FALSE
        OBVIOUS
      <3>2. holder[s] \in McpCalls /\ toolCalls[holder[s]].st = "closing"
        BY <3>1 DEF ServerSound, Locked, McpTyped
      <3> QED
        BY <1>1, <3>2 DEF Phased, Ended
    <2>3. service[s] \in {"none", "gone"}
      BY <2>1, <2>2 DEF McpTyped
    <2> QED
      BY <1>1, <2>3 DEF ServerSound, Connected
  <1>2. NoServerLeft
    BY <1>1 DEF NoServerLeft
  <1>3. ASSUME NEW c \in McpCalls, toolCalls[c].st \in {"timedOut", "cancelled"}
        PROVE  service[toolCalls[c].server] = "gone" /\ (toolCalls[c].server \notin stuck => procs[toolCalls[c].server] = {})
    <2>1. service[toolCalls[c].server] = "gone" /\ toolCalls[c].server \in Servers
      BY <1>3 DEF CallSound, McpTyped
    <2>2. dropped = {}
      BY <1>3 DEF Phased
    <2> QED
      BY <2>1, <2>2 DEF ServerSound, Connected
  <1>4. AbortedMeansDown
    BY <1>3 DEF AbortedMeansDown
  <1>5. LockIsLive
    BY DEF LockIsLive, ServerSound, Locked
  <1>6. NamesKept
    BY DEF NamesKept, NamesSound
  <1>7. PerimeterClosed
    BY DEF PerimeterClosed, ServerSound, PerimeterRoots, CacheRefused, CommandReadPaths, IsDisallowedHomePath
  <1> QED
    BY <1>2, <1>4, <1>5, <1>6, <1>7 DEF McpSound

\* Nothing is started.
LEMMA McpInitially == McpInit => McpInvariant
  <1> SUFFICES ASSUME McpInit
               PROVE  McpInvariant
    OBVIOUS
  <1>0. 1 \in Servers /\ MaxServers \in Nat
    BY McpAssumption DEF Servers
  <1>1. \A c \in McpCalls : toolCalls[c].st = "idle" /\ toolCalls[c] \in Calls
    BY DEF McpInit, Calls, CallStates
  <1>2. \A s \in Servers : procs[s] = {} /\ service[s] = "none" /\ holder[s] = 0 /\ listed[s] = <<>>
    BY DEF McpInit
  <1>3. mount = [phase |-> "spawning", at |-> 1] /\ dropped = {}
    BY DEF McpInit
  <1>4. McpTyped
    <2>1. mount \in [phase : Mounting \cup {"mounted", "unwinding", "over"}, at : 1..(MaxServers + 1)]
      BY <1>0, <1>3 DEF Mounting
    <2>2. toolCalls \in [McpCalls -> Calls]
      BY <1>1 DEF McpInit
    <2>3. procs \in [Servers -> SUBSET {"child", "helper"}] /\ service \in [Servers -> {"none", "open", "closing", "gone"}]
          /\ holder \in [Servers -> {0} \cup McpCalls]
      BY DEF McpInit
    <2>4. listed \in [Servers -> Seq(McpTools)]
      <3>1. <<>> \in Seq(McpTools)
        OBVIOUS
      <3> QED
        BY <3>1 DEF McpInit
    <2> QED
      BY <1>0, <1>1, <1>3, <2>1, <2>2, <2>3, <2>4 DEF McpTyped
  <1>5. Phased
    BY <1>1, <1>3 DEF Phased
  <1>6. NamesSound
    <2>1. DOMAIN toolRegistry = {0} \X Builtins /\ \A n \in {0} \X Builtins : toolRegistry[n] = n
      BY DEF McpInit
    <2>2. \A s \in Servers : DOMAIN listed[s] = {}
      BY <1>2
    <2> QED
      BY <1>3, <2>1, <2>2 DEF NamesSound
  <1>7. \A s \in Servers : ServerSound(s)
    BY <1>0, <1>2, <1>3 DEF ServerSound, Connected, Mounted, Locked, Servers
  <1>8. \A c \in McpCalls : CallSound(c)
    BY <1>1 DEF CallSound
  <1> QED
    BY <1>4, <1>5, <1>6, <1>7, <1>8 DEF McpInvariant

(***************************************************************************)
(* The steps of a call.                                                    *)
(***************************************************************************)
\* The call's server, and what a step of the call does to the others: nothing.
CallStep(c, s) ==
    /\ UNCHANGED <<mount, command, readRoots, toolRegistry, listed, dropped>> /\ mount.phase = "mounted"
    /\ toolCalls' \in [McpCalls -> Calls] /\ toolCalls'[c].server = s /\ toolCalls'[c].st # "idle"
    /\ toolCalls[c].st = "idle" \/ toolCalls[c].server = s
    /\ \A d \in McpCalls \ {c} : toolCalls'[d] = toolCalls[d]
    /\ procs' \in [Servers -> SUBSET {"child", "helper"}] /\ service' \in [Servers -> {"none", "open", "closing", "gone"}]
    /\ holder' \in [Servers -> {0} \cup McpCalls]
    /\ \A t \in Servers \ {s} :
          holder'[t] = holder[t] /\ service'[t] = service[t] /\ procs'[t] = procs[t] /\ (t \in stuck' <=> t \in stuck)

\* It is enough to look at the call, its server and the calls that share the server.
LEMMA CallStepKeeps ==
  ASSUME McpInvariant, NEW c \in McpCalls, NEW s \in Servers, CallStep(c, s),
         Connected(s)', Locked(s)', service'[s] # "none", procs'[s] # {} => procs[s] # {},
         CallSound(c)', \A d \in McpCalls \ {c} : toolCalls[d].server = s => CallSound(d)'
  PROVE  McpInvariant'
  <1> USE DEF McpInvariant
  <1>1. McpTyped'
    BY DEF McpTyped, CallStep
  <1>2. Phased'
    BY DEF Phased, CallStep, Mounting
  <1>3. NamesSound'
    BY DEF NamesSound, CallStep
  <1>4. ASSUME NEW t \in Servers
        PROVE  ServerSound(t)'
    <2>1. ServerSound(t)
      OBVIOUS
    <2>2. Mounted(t)'
      <3>1. service[t] # "none" /\ service'[t] # "none" /\ mount' = mount /\ mount.phase = "mounted" /\ t <= mount.at
        BY <2>1 DEF ServerSound, Mounted, CallStep
      <3> QED
        BY <3>1 DEF Mounted, Mounting
    <2>3. CASE t = s
      BY <2>1, <2>2, <2>3 DEF ServerSound, CallStep
    <2>4. CASE t # s
      <3>1. /\ holder'[t] = holder[t] /\ service'[t] = service[t] /\ procs'[t] = procs[t] /\ (t \in stuck' <=> t \in stuck)
            /\ mount' = mount /\ dropped' = dropped /\ command' = command
        BY <2>4 DEF CallStep
      <3>2. Connected(t)'
        BY <2>1, <3>1 DEF ServerSound, Connected
      <3>3. holder[t] # c
        <4>1. c # 0
          BY McpAssumption DEF McpCalls
        <4> QED
          BY <2>1, <2>4, <4>1 DEF ServerSound, Locked, CallStep
      <3>4. holder[t] # 0 => toolCalls'[holder[t]] = toolCalls[holder[t]]
        BY <3>3 DEF CallStep, McpTyped
      <3>5. Locked(t)'
        BY <2>1, <3>1, <3>4 DEF ServerSound, Locked
      <3> QED
        BY <2>1, <2>2, <3>1, <3>2, <3>5 DEF ServerSound, PerimeterRoots, CacheRefused, CommandReadPaths
    <2> QED
      BY <2>3, <2>4
  <1>5. ASSUME NEW d \in McpCalls
        PROVE  CallSound(d)'
    <2>1. CASE d = c \/ toolCalls[d].server = s
      BY <2>1
    <2>2. CASE d # c /\ toolCalls[d].server # s
      <3>1. toolCalls'[d] = toolCalls[d] /\ CallSound(d)
        BY <2>2 DEF CallStep
      <3>2. toolCalls[d].st # "idle" => toolCalls[d].server \in Servers \ {s}
        BY <2>2 DEF McpTyped
      <3> QED
        BY <3>1, <3>2 DEF CallSound, CallStep
    <2> QED
      BY <2>1, <2>2
  <1> QED
    BY <1>1, <1>2, <1>3, <1>4, <1>5

\* A call changes its state and may remember why.
LEMMA CallMoves ==
  ASSUME McpTyped, NEW c \in McpCalls, NEW st \in CallStates, NEW why \in {"timedOut", "cancelled"},
         \/ toolCalls' = [toolCalls EXCEPT ![c].st = st]
         \/ toolCalls' = [toolCalls EXCEPT ![c].st = st, ![c].why = why]
  PROVE  /\ toolCalls' \in [McpCalls -> Calls] /\ toolCalls'[c].st = st
         /\ toolCalls'[c].why \in {toolCalls[c].why, why}
         /\ toolCalls' = [toolCalls EXCEPT ![c].st = st, ![c].why = why] => toolCalls'[c].why = why
         /\ toolCalls'[c].server = toolCalls[c].server
         /\ \A d \in McpCalls \ {c} : toolCalls'[d] = toolCalls[d]
  <1> DEFINE moved == [toolCalls[c] EXCEPT !.st = st]
  <1> DEFINE blamed == [moved EXCEPT !.why = why]
  <1>1. toolCalls \in [McpCalls -> Calls] /\ toolCalls[c] \in Calls
    BY DEF McpTyped
  <1>2. moved \in Calls /\ moved.st = st /\ moved.why = toolCalls[c].why /\ moved.server = toolCalls[c].server
    BY <1>1 DEF Calls
  <1>3. blamed \in Calls /\ blamed.st = st /\ blamed.why = why /\ blamed.server = toolCalls[c].server
    <2> HIDE DEF moved
    <2> QED
      BY <1>2 DEF Calls
  <1>4. toolCalls' = [toolCalls EXCEPT ![c] = moved] \/ toolCalls' = [toolCalls EXCEPT ![c] = blamed]
    BY <1>1
  <1>5. toolCalls' = [toolCalls EXCEPT ![c].st = st, ![c].why = why] => toolCalls' = [toolCalls EXCEPT ![c] = blamed]
    BY <1>1
  <1> HIDE DEF moved, blamed
  <1> QED
    BY <1>1, <1>2, <1>3, <1>4, <1>5

\* Only the lock of the call's own server goes with its task.
LEMMA UnlockIsOwn ==
  ASSUME McpInvariant, NEW c \in McpCalls, Unlock(c), toolCalls[c].server \in Servers
  PROVE  /\ holder' \in [Servers -> {0} \cup McpCalls]
         /\ \A t \in Servers \ {toolCalls[c].server} : holder'[t] = holder[t]
         /\ holder'[toolCalls[c].server] = IF holder[toolCalls[c].server] = c THEN 0 ELSE holder[toolCalls[c].server]
  <1>1. \A t \in Servers : holder[t] = c => toolCalls[c].server = t
    <2>1. c # 0
      BY McpAssumption DEF McpCalls
    <2> QED
      BY <2>1 DEF McpInvariant, ServerSound, Locked
  <1>2. holder \in [Servers -> {0} \cup McpCalls]
    BY DEF McpInvariant, McpTyped
  <1> QED
    BY <1>1, <1>2 DEF Unlock

\* The tree of a server is gone, or it is stuck.
LEMMA TerminatesOne ==
  ASSUME McpTyped, NEW s \in Servers, Terminates(s)
  PROVE  /\ procs' \in [Servers -> SUBSET {"child", "helper"}]
         /\ \A t \in Servers \ {s} : procs'[t] = procs[t] /\ (t \in stuck' <=> t \in stuck)
         /\ (procs'[s] = {} \/ (s \in stuck' /\ procs'[s] = procs[s])) /\ stuck \subseteq stuck'
  BY DEF Terminates, McpTyped

\* A call is made: it is refused, or its task waits for the lock.
LEMMA CallToolKeeps ==
  ASSUME McpInvariant, NEW c \in McpCalls, CallTool(c)
  PROVE  McpInvariant'
  <1>1. PICK s \in Servers, st \in {"failed", "waiting"} :
             toolCalls' = [toolCalls EXCEPT ![c] = [server |-> s, st |-> st, why |-> ""]]
    BY DEF CallTool
  <1> DEFINE call == [server |-> s, st |-> st, why |-> ""]
  <1>2. call \in Calls /\ call.server = s /\ call.st = st /\ call.why = ""
    BY McpAssumption DEF Calls, CallStates, Ended, Servers
  <1>3. McpTyped /\ toolCalls \in [McpCalls -> Calls]
    BY DEF McpInvariant, McpTyped
  <1>4. toolCalls' = [toolCalls EXCEPT ![c] = call]
    BY <1>1
  <1> HIDE DEF call
  <1>5. toolCalls' \in [McpCalls -> Calls] /\ toolCalls'[c] = call /\ \A d \in McpCalls \ {c} : toolCalls'[d] = toolCalls[d]
    BY <1>2, <1>3, <1>4
  <1>6. UNCHANGED <<mount, command, readRoots, procs, service, holder, toolRegistry, listed, stuck, dropped>> /\ mount.phase = "mounted"
        /\ toolCalls[c].st = "idle"
    BY DEF CallTool
  <1>7. CallStep(c, s)
    BY <1>2, <1>3, <1>5, <1>6 DEF CallStep, McpTyped
  <1>8. ServerSound(s)
    BY DEF McpInvariant
  <1>9. Connected(s)' /\ service'[s] # "none" /\ (procs'[s] # {} => procs[s] # {})
    BY <1>6, <1>8 DEF ServerSound, Connected, Mounted
  <1>10. Locked(s)'
    <2>1. holder[s] # 0 => holder[s] \in McpCalls \ {c}
      BY <1>3, <1>6, <1>8 DEF McpTyped, ServerSound, Locked
    <2> QED
      BY <1>5, <1>6, <1>8, <2>1 DEF ServerSound, Locked
  <1>11. CallSound(c)'
    BY <1>2, <1>5 DEF CallSound
  <1>12. \A d \in McpCalls \ {c} : CallSound(d)'
    BY <1>5, <1>6 DEF McpInvariant, CallSound
  <1> QED
    BY <1>7, <1>9, <1>10, <1>11, <1>12, CallStepKeeps

\* A call that has begun: its server is connected or was, and the call and its server keep
\* what the invariant says of them.
LEMMA BegunCall ==
  ASSUME McpInvariant, NEW c \in McpCalls, toolCalls[c].st \notin Ended \cup {"idle"}
  PROVE  \E s \in Servers :
            /\ toolCalls[c].server = s /\ mount.phase = "mounted" /\ dropped = {} /\ c # 0
            /\ service[s] \in {"open", "closing", "gone"} /\ ServerSound(s) /\ CallSound(c) /\ McpTyped
            /\ toolCalls[c].why \in {"", "timedOut", "cancelled"} /\ toolCalls[c].st # "idle"
  <1>1. mount.phase = "mounted" /\ toolCalls[c].server \in Servers /\ dropped = {}
    BY DEF McpInvariant, Phased, McpTyped
  <1>2. ServerSound(toolCalls[c].server) /\ CallSound(c) /\ McpTyped
    BY <1>1 DEF McpInvariant
  <1>3. service[toolCalls[c].server] \in {"open", "closing", "gone"}
    BY <1>1, <1>2 DEF McpTyped, ServerSound, Mounted
  <1>4. c # 0
    BY McpAssumption DEF McpCalls
  <1>5. toolCalls[c].why \in {"", "timedOut", "cancelled"}
    BY <1>2 DEF McpTyped, Calls
  <1> QED
    BY <1>1, <1>2, <1>3, <1>4, <1>5

\* Another call that waits for the lock of the same server has nothing of its own to lose.
LEMMA OthersSound ==
  ASSUME McpInvariant, NEW c \in McpCalls, NEW s \in Servers, holder[s] \in {0, c},
         \A d \in McpCalls \ {c} : toolCalls'[d] = toolCalls[d], service[s] = "gone" => service'[s] = "gone"
  PROVE  \A d \in McpCalls \ {c} : toolCalls[d].server = s => CallSound(d)'
  <1> SUFFICES ASSUME NEW d \in McpCalls, d # c, toolCalls[d].server = s
               PROVE  CallSound(d)'
    OBVIOUS
  <1>1. CallSound(d) /\ d # 0
    BY McpAssumption DEF McpInvariant, McpCalls
  <1>2. toolCalls[d].st \notin {"sent", "closing"}
    BY <1>1 DEF CallSound
  <1> QED
    BY <1>1, <1>2 DEF CallSound

\* The task has the lock: the request is sent, or there is nobody to send it to.
LEMMA SendsCallKeeps ==
  ASSUME McpInvariant, NEW c \in McpCalls, SendsCall(c)
  PROVE  McpInvariant'
  <1>1. PICK s \in Servers :
            /\ toolCalls[c].server = s /\ mount.phase = "mounted" /\ dropped = {} /\ c # 0
            /\ service[s] \in {"open", "closing", "gone"} /\ ServerSound(s) /\ CallSound(c) /\ McpTyped
            /\ toolCalls[c].why \in {"", "timedOut", "cancelled"} /\ toolCalls[c].st # "idle"
    <2>1. toolCalls[c].st \notin Ended \cup {"idle"}
      BY DEF SendsCall, Ended
    <2> QED
      BY <2>1, BegunCall
  <1>2. PICK st \in {"sent", "failed"} :
            /\ toolCalls' = [toolCalls EXCEPT ![c].st = st]
            /\ \/ st = "sent" /\ service[s] = "open" /\ holder' = [holder EXCEPT ![s] = c]
               \/ st = "failed" /\ holder' = holder
    BY <1>1 DEF SendsCall
  <1>3. holder[s] = 0 /\ UNCHANGED <<mount, command, readRoots, procs, service, toolRegistry, listed, stuck, dropped>>
    BY <1>1 DEF SendsCall
  <1>4. /\ toolCalls' \in [McpCalls -> Calls] /\ toolCalls'[c].st = st /\ toolCalls'[c].server = s
        /\ \A d \in McpCalls \ {c} : toolCalls'[d] = toolCalls[d]
    <2>1. st \in CallStates
      BY DEF CallStates, Ended
    <2> QED
      BY <1>1, <1>2, <2>1, CallMoves
  <1>5. holder' \in [Servers -> {0} \cup McpCalls] /\ (\A t \in Servers \ {s} : holder'[t] = holder[t])
        /\ (st = "sent" => holder'[s] = c) /\ (st = "failed" => holder'[s] = 0)
    <2>1. holder \in [Servers -> {0} \cup McpCalls]
      BY <1>1 DEF McpTyped
    <2> QED
      BY <1>2, <1>3, <2>1
  <1>6. CallStep(c, s)
    <2>1. procs \in [Servers -> SUBSET {"child", "helper"}] /\ service \in [Servers -> {"none", "open", "closing", "gone"}]
      BY <1>1 DEF McpTyped
    <2> QED
      BY <1>1, <1>3, <1>4, <1>5, <2>1 DEF CallStep
  <1>7. Connected(s)' /\ service'[s] # "none" /\ (procs'[s] # {} => procs[s] # {})
    BY <1>1, <1>3 DEF ServerSound, Connected
  <1>8. Locked(s)'
    BY <1>1, <1>2, <1>3, <1>4, <1>5 DEF ServerSound, Locked
  <1>9. CallSound(c)'
    BY <1>1, <1>2, <1>3, <1>4, <1>5 DEF CallSound
  <1>10. \A d \in McpCalls \ {c} : toolCalls[d].server = s => CallSound(d)'
    BY <1>3, <1>4, OthersSound
  <1> QED
    BY <1>6, <1>7, <1>8, <1>9, <1>10, CallStepKeeps

\* A call goes on with a lock of its own or none: its server and the calls that share it are
\* as they were.
LEMMA CallGoesOn ==
  ASSUME McpInvariant, NEW c \in McpCalls, NEW s \in Servers, toolCalls[c].server = s,
         mount.phase = "mounted", NEW st \in CallStates \ {"idle", "sent", "closing", "timedOut", "cancelled"},
         toolCalls[c].st # "closing",
         \/ toolCalls' = [toolCalls EXCEPT ![c].st = st] /\ st # "aborting"
         \/ \E why \in {"timedOut", "cancelled"} : toolCalls' = [toolCalls EXCEPT ![c].st = st, ![c].why = why],
         Unlock(c) \/ (holder[s] # c /\ holder' = holder),
         UNCHANGED <<mount, command, readRoots, procs, service, toolRegistry, listed, stuck, dropped>>
  PROVE  McpInvariant'
  <1>1. McpTyped /\ ServerSound(s) /\ CallSound(c) /\ c # 0
    BY McpAssumption DEF McpInvariant, McpCalls
  <1>2. PICK why \in {"timedOut", "cancelled"} :
            \/ toolCalls' = [toolCalls EXCEPT ![c].st = st] /\ st # "aborting"
            \/ toolCalls' = [toolCalls EXCEPT ![c].st = st, ![c].why = why]
    OBVIOUS
  <1>3. /\ toolCalls' \in [McpCalls -> Calls] /\ toolCalls'[c].st = st /\ toolCalls'[c].server = s
        /\ \A d \in McpCalls \ {c} : toolCalls'[d] = toolCalls[d]
    BY <1>1, <1>2, CallMoves
  <1>4. st = "aborting" => toolCalls'[c].why = why
    BY <1>1, <1>2, CallMoves
  <1>5. holder' \in [Servers -> {0} \cup McpCalls] /\ (\A t \in Servers \ {s} : holder'[t] = holder[t])
        /\ holder'[s] = (IF holder[s] = c THEN 0 ELSE holder[s])
    <2>1. holder \in [Servers -> {0} \cup McpCalls]
      BY <1>1 DEF McpTyped
    <2>2. CASE Unlock(c)
      BY <2>2, UnlockIsOwn
    <2>3. CASE holder[s] # c /\ holder' = holder
      BY <2>1, <2>3
    <2> QED
      BY <2>2, <2>3
  <1>6. CallStep(c, s)
    <2>1. procs \in [Servers -> SUBSET {"child", "helper"}] /\ service \in [Servers -> {"none", "open", "closing", "gone"}]
      BY <1>1 DEF McpTyped
    <2> QED
      BY <1>3, <1>5, <2>1 DEF CallStep
  <1>7. Connected(s)' /\ service'[s] # "none" /\ (procs'[s] # {} => procs[s] # {})
    BY <1>1 DEF ServerSound, Connected, Mounted
  <1>8. Locked(s)'
    <2>1. service[s] = "closing" => holder[s] # c /\ holder[s] # 0 /\ toolCalls[holder[s]].st = "closing"
      BY <1>1 DEF ServerSound, Locked
    <2>2. holder[s] \in {0} \cup McpCalls
      BY <1>1 DEF McpTyped
    <2>3. CASE holder[s] \in {0, c}
      BY <1>1, <1>5, <2>1, <2>3 DEF Locked
    <2>4. CASE holder[s] \notin {0, c}
      BY <1>1, <1>3, <1>5, <2>2, <2>4 DEF ServerSound, Locked
    <2> QED
      BY <2>3, <2>4
  <1>9. CallSound(c)'
    BY <1>3, <1>4 DEF CallSound
  <1>10. \A d \in McpCalls \ {c} : toolCalls[d].server = s => CallSound(d)'
    <2> SUFFICES ASSUME NEW d \in McpCalls, d # c, toolCalls[d].server = s
                 PROVE  CallSound(d)'
      OBVIOUS
    <2>1. CallSound(d) /\ toolCalls'[d] = toolCalls[d]
      BY <1>3 DEF McpInvariant
    <2> QED
      BY <1>5, <2>1 DEF CallSound
  <1> QED
    BY <1>6, <1>7, <1>8, <1>9, <1>10, CallStepKeeps

\* The answer, the error, the timeout and the cancel.
LEMMA AnswersKeep ==
  ASSUME McpInvariant, NEW c \in McpCalls, ServerAnswers(c) \/ ConnectionLost(c)
  PROVE  McpInvariant'
  <1>1. PICK s \in Servers :
            /\ toolCalls[c].server = s /\ mount.phase = "mounted" /\ dropped = {} /\ c # 0
            /\ service[s] \in {"open", "closing", "gone"} /\ ServerSound(s) /\ CallSound(c) /\ McpTyped
            /\ toolCalls[c].why \in {"", "timedOut", "cancelled"} /\ toolCalls[c].st # "idle"
    <2>1. toolCalls[c].st \notin Ended \cup {"idle"}
      BY DEF ServerAnswers, ConnectionLost, Ended
    <2> QED
      BY <2>1, BegunCall
  <1>2. PICK st \in {"answered", "failed"} : toolCalls' = [toolCalls EXCEPT ![c].st = st]
    BY DEF ServerAnswers, ConnectionLost
  <1>3. st \in CallStates \ {"idle", "sent", "closing", "timedOut", "cancelled"} /\ st # "aborting"
    BY DEF CallStates, Ended
  <1>4. toolCalls[c].st = "sent" /\ Unlock(c)
        /\ UNCHANGED <<mount, command, readRoots, procs, service, toolRegistry, listed, stuck, dropped>>
    BY DEF ServerAnswers, ConnectionLost
  <1> QED
    BY <1>1, <1>2, <1>3, <1>4, CallGoesOn

LEMMA ReturnsResultKeeps ==
  ASSUME McpInvariant, NEW c \in McpCalls, ReturnsResult(c)
  PROVE  McpInvariant'
  <1>1. PICK s \in Servers :
            /\ toolCalls[c].server = s /\ mount.phase = "mounted" /\ dropped = {} /\ c # 0
            /\ service[s] \in {"open", "closing", "gone"} /\ ServerSound(s) /\ CallSound(c) /\ McpTyped
            /\ toolCalls[c].why \in {"", "timedOut", "cancelled"} /\ toolCalls[c].st # "idle"
    <2>1. toolCalls[c].st \notin Ended \cup {"idle"}
      BY DEF ReturnsResult, Ended
    <2> QED
      BY <2>1, BegunCall
  <1>2. PICK st \in {"ok", "failed"} : toolCalls' = [toolCalls EXCEPT ![c].st = st]
    BY DEF ReturnsResult
  <1>3. st \in CallStates \ {"idle", "sent", "closing", "timedOut", "cancelled"} /\ st # "aborting"
    BY DEF CallStates, Ended
  <1>4. toolCalls[c].st = "answered" /\ holder' = holder
        /\ UNCHANGED <<mount, command, readRoots, procs, service, toolRegistry, listed, stuck, dropped>>
    BY DEF ReturnsResult
  <1>5. holder[s] # c
    BY <1>1, <1>4 DEF ServerSound, Locked
  <1> QED
    BY <1>1, <1>2, <1>3, <1>4, <1>5, CallGoesOn

LEMMA GivesUpKeeps ==
  ASSUME McpInvariant, NEW c \in McpCalls, NEW why \in {"timedOut", "cancelled"}, GivesUp(c, why)
  PROVE  McpInvariant'
  <1>1. PICK s \in Servers :
            /\ toolCalls[c].server = s /\ mount.phase = "mounted" /\ dropped = {} /\ c # 0
            /\ service[s] \in {"open", "closing", "gone"} /\ ServerSound(s) /\ CallSound(c) /\ McpTyped
            /\ toolCalls[c].why \in {"", "timedOut", "cancelled"} /\ toolCalls[c].st # "idle"
    <2>1. toolCalls[c].st \notin Ended \cup {"idle"}
      BY DEF GivesUp, Ended
    <2> QED
      BY <2>1, BegunCall
  <1>2. "aborting" \in CallStates \ {"idle", "sent", "closing", "timedOut", "cancelled"}
    BY DEF CallStates, Ended
  <1>3. toolCalls[c].st # "closing" /\ Unlock(c)
        /\ toolCalls' = [toolCalls EXCEPT ![c].st = "aborting", ![c].why = why]
        /\ UNCHANGED <<mount, command, readRoots, procs, service, toolRegistry, listed, stuck, dropped>>
    BY DEF GivesUp, AbortCallTask
  <1> QED
    BY <1>1, <1>2, <1>3, CallGoesOn

\* The call that comes first takes its server down; the next one finds it gone.
LEMMA DisconnectStartsKeeps ==
  ASSUME McpInvariant, NEW c \in McpCalls, DisconnectStarts(c)
  PROVE  McpInvariant'
  <1>1. PICK s \in Servers :
            /\ toolCalls[c].server = s /\ mount.phase = "mounted" /\ dropped = {} /\ c # 0
            /\ service[s] \in {"open", "closing", "gone"} /\ ServerSound(s) /\ CallSound(c) /\ McpTyped
            /\ toolCalls[c].why \in {"", "timedOut", "cancelled"} /\ toolCalls[c].st # "idle"
    <2>1. toolCalls[c].st \notin Ended \cup {"idle"}
      BY DEF DisconnectStarts, Ended
    <2> QED
      BY <2>1, BegunCall
  <1>2. holder[s] = 0 /\ toolCalls[c].st = "aborting" /\ toolCalls[c].why \in {"timedOut", "cancelled"}
        /\ UNCHANGED <<mount, command, readRoots, procs, toolRegistry, listed, stuck, dropped>>
    BY <1>1 DEF DisconnectStarts, CallSound
  <1>3. PICK st \in {"closing", "timedOut", "cancelled"} :
            /\ toolCalls' = [toolCalls EXCEPT ![c].st = st]
            /\ \/ st = "closing" /\ service[s] = "open" /\ service' = [service EXCEPT ![s] = "closing"]
                  /\ holder' = [holder EXCEPT ![s] = c]
               \/ st # "closing" /\ service[s] # "open" /\ service' = service /\ holder' = holder
    BY <1>1, <1>2 DEF DisconnectStarts
  <1>4. service \in [Servers -> {"none", "open", "closing", "gone"}] /\ holder \in [Servers -> {0} \cup McpCalls]
        /\ procs \in [Servers -> SUBSET {"child", "helper"}]
    BY <1>1 DEF McpTyped
  <1>5. /\ toolCalls' \in [McpCalls -> Calls] /\ toolCalls'[c].st = st /\ toolCalls'[c].server = s
        /\ \A d \in McpCalls \ {c} : toolCalls'[d] = toolCalls[d]
    <2>1. st \in CallStates
      BY DEF CallStates, Ended
    <2> QED
      BY <1>1, <1>3, <2>1, CallMoves
  <1>6. toolCalls'[c].why = toolCalls[c].why
    BY <1>1, <1>3 DEF McpTyped, Calls
  <1>7. service[s] # "closing"
    BY <1>1, <1>2 DEF ServerSound, Locked
  <1>8. CASE st = "closing"
    <2>1. service' \in [Servers -> {"none", "open", "closing", "gone"}] /\ holder' \in [Servers -> {0} \cup McpCalls]
          /\ service'[s] = "closing" /\ holder'[s] = c
          /\ \A t \in Servers \ {s} : service'[t] = service[t] /\ holder'[t] = holder[t]
      BY <1>3, <1>4, <1>8
    <2>2. CallStep(c, s)
      BY <1>1, <1>2, <1>4, <1>5, <1>8, <2>1 DEF CallStep
    <2>3. Connected(s)' /\ service'[s] # "none" /\ (procs'[s] # {} => procs[s] # {})
      BY <1>2, <2>1 DEF Connected
    <2>4. Locked(s)'
      BY <1>1, <1>5, <1>8, <2>1 DEF Locked
    <2>5. CallSound(c)'
      BY <1>2, <1>5, <1>6, <1>8, <2>1 DEF CallSound
    <2>6. service[s] # "gone"
      BY <1>3, <1>8
    <2>7. \A d \in McpCalls \ {c} : toolCalls[d].server = s => CallSound(d)'
      BY <1>2, <1>5, <2>6, OthersSound
    <2> QED
      BY <2>2, <2>3, <2>4, <2>5, <2>7, CallStepKeeps
  <1>9. CASE st # "closing"
    <2>1. service' = service /\ holder' = holder /\ service[s] = "gone"
      BY <1>1, <1>3, <1>7, <1>9
    <2>2. CallStep(c, s)
      BY <1>1, <1>2, <1>4, <1>5, <1>9, <2>1 DEF CallStep
    <2>3. Connected(s)' /\ service'[s] # "none" /\ (procs'[s] # {} => procs[s] # {})
      BY <1>1, <1>2, <2>1 DEF ServerSound, Connected
    <2>4. Locked(s)'
      BY <1>2, <2>1 DEF Locked
    <2>5. CallSound(c)'
      BY <1>5, <1>9, <2>1 DEF CallSound
    <2>7. \A d \in McpCalls \ {c} : toolCalls[d].server = s => CallSound(d)'
      BY <1>2, <1>5, <2>1, OthersSound
    <2> QED
      BY <2>2, <2>3, <2>4, <2>5, <2>7, CallStepKeeps
  <1> QED
    BY <1>8, <1>9

\* The server is down, or it cannot be terminated.
LEMMA DisconnectEndsKeeps ==
  ASSUME McpInvariant, NEW c \in McpCalls, DisconnectEnds(c)
  PROVE  McpInvariant'
  <1>1. PICK s \in Servers :
            /\ toolCalls[c].server = s /\ mount.phase = "mounted" /\ dropped = {} /\ c # 0
            /\ service[s] \in {"open", "closing", "gone"} /\ ServerSound(s) /\ CallSound(c) /\ McpTyped
            /\ toolCalls[c].why \in {"", "timedOut", "cancelled"} /\ toolCalls[c].st # "idle"
    <2>1. toolCalls[c].st \notin Ended \cup {"idle"}
      BY DEF DisconnectEnds, Ended
    <2> QED
      BY <2>1, BegunCall
  <1>2. toolCalls[c].st = "closing" /\ toolCalls[c].why \in {"timedOut", "cancelled"} /\ holder[s] = c
        /\ Terminates(s) /\ Unlock(c) /\ service' = [service EXCEPT ![s] = "gone"]
        /\ UNCHANGED <<mount, command, readRoots, toolRegistry, listed, dropped>>
    BY <1>1 DEF DisconnectEnds, CallSound
  <1>3. PICK st \in {"timedOut", "cancelled"} : toolCalls' = [toolCalls EXCEPT ![c].st = st]
    BY <1>2 DEF DisconnectEnds
  <1>4. service' \in [Servers -> {"none", "open", "closing", "gone"}] /\ service'[s] = "gone"
        /\ \A t \in Servers \ {s} : service'[t] = service[t]
    BY <1>1, <1>2 DEF McpTyped
  <1>5. /\ toolCalls' \in [McpCalls -> Calls] /\ toolCalls'[c].st = st /\ toolCalls'[c].server = s
        /\ \A d \in McpCalls \ {c} : toolCalls'[d] = toolCalls[d]
    <2>1. st \in CallStates
      BY DEF CallStates, Ended
    <2> QED
      BY <1>1, <1>3, <2>1, CallMoves
  <1>6. holder' \in [Servers -> {0} \cup McpCalls] /\ (\A t \in Servers \ {s} : holder'[t] = holder[t]) /\ holder'[s] = 0
    BY <1>1, <1>2, UnlockIsOwn
  <1>7. /\ procs' \in [Servers -> SUBSET {"child", "helper"}]
        /\ \A t \in Servers \ {s} : procs'[t] = procs[t] /\ (t \in stuck' <=> t \in stuck)
        /\ (procs'[s] = {} \/ (s \in stuck' /\ procs'[s] = procs[s]))
    BY <1>1, <1>2, TerminatesOne
  <1>8. CallStep(c, s)
    BY <1>1, <1>2, <1>4, <1>5, <1>6, <1>7 DEF CallStep
  <1>9. Connected(s)' /\ service'[s] # "none" /\ (procs'[s] # {} => procs[s] # {})
    BY <1>4, <1>7 DEF Connected
  <1>10. Locked(s)'
    BY <1>4, <1>6 DEF Locked
  <1>11. CallSound(c)'
    BY <1>4, <1>5 DEF CallSound
  <1>12. \A d \in McpCalls \ {c} : toolCalls[d].server = s => CallSound(d)'
    BY <1>2, <1>4, <1>5, OthersSound
  <1> QED
    BY <1>8, <1>9, <1>10, <1>11, <1>12, CallStepKeeps

(***************************************************************************)
(* Processes and mounting.                                                 *)
(***************************************************************************)
\* A process of a server comes or goes: nobody else takes part.
LEMMA ProcessKeeps ==
  ASSUME McpInvariant, NEW s \in Servers, StartsHelper(s) \/ ServerDies(s)
  PROVE  McpInvariant'
  <1>1. McpTyped /\ ServerSound(s)
    BY DEF McpInvariant
  <1>2. "child" \in procs[s] /\ UNCHANGED <<mount, command, readRoots, service, holder, toolRegistry, listed, toolCalls, stuck, dropped>>
        /\ procs' \in [Servers -> SUBSET {"child", "helper"}] /\ \A t \in Servers \ {s} : procs'[t] = procs[t]
    BY <1>1 DEF StartsHelper, ServerDies, McpTyped
  <1>3. McpTyped' /\ Phased' /\ NamesSound'
    BY <1>2 DEF McpInvariant, McpTyped, Phased, NamesSound
  <1>4. ASSUME NEW t \in Servers
        PROVE  ServerSound(t)'
    <2>1. ServerSound(t)
      BY DEF McpInvariant
    <2>2. Mounted(t)' /\ Locked(t)'
      BY <1>2, <2>1 DEF ServerSound, Mounted, Locked
    <2>3. Connected(t)'
      <3>1. CASE t = s
        <4>1. ~(service[s] = "none" /\ s \notin stuck /\ ~(mount.phase = "initializing" /\ mount.at = s))
              /\ ~(service[s] = "gone" /\ s \notin stuck)
          BY <1>1, <1>2 DEF ServerSound, Connected
        <4> QED
          BY <1>2, <3>1, <4>1 DEF Connected
      <3>2. CASE t # s
        BY <1>2, <2>1, <3>2 DEF ServerSound, Connected
      <3> QED
        BY <3>1, <3>2
    <2>4. procs'[t] # {} => PerimeterRoots(command'[t]) # {"refused"}
      BY <1>2, <2>1 DEF ServerSound
    <2> QED
      BY <2>2, <2>3, <2>4 DEF ServerSound, PerimeterRoots, CacheRefused, CommandReadPaths
  <1>5. ASSUME NEW c \in McpCalls
        PROVE  CallSound(c)'
    BY <1>2 DEF McpInvariant, CallSound
  <1> QED
    BY <1>3, <1>4, <1>5 DEF McpInvariant

\* While servers are mounted or unmounted, no call talks to one and no lock is held.
LEMMA NobodyCalls ==
  ASSUME McpInvariant, \A c \in McpCalls : toolCalls[c].st \in Ended \cup {"idle"}
  PROVE  \A s \in Servers : holder[s] = 0 /\ service[s] # "closing"
  <1> SUFFICES ASSUME NEW s \in Servers
               PROVE  holder[s] = 0 /\ service[s] # "closing"
    OBVIOUS
  <1>1. Locked(s) /\ holder[s] \in {0} \cup McpCalls
    BY DEF McpInvariant, ServerSound, McpTyped
  <1> QED
    BY <1>1 DEF Locked, Ended

\* Such a step has to look after the servers and the names only.
LEMMA MountStepKeeps ==
  ASSUME McpInvariant, \A c \in McpCalls : toolCalls[c].st \in Ended \cup {"idle"},
         UNCHANGED <<holder, toolCalls, command>>, McpTyped', Phased', NamesSound',
         \A s \in Servers :
            /\ Connected(s)' /\ Mounted(s)' /\ service'[s] # "closing" /\ (service[s] = "gone" => service'[s] = "gone")
            /\ procs'[s] # {} => procs[s] # {} \/ PerimeterRoots(command[s]) # {"refused"}
  PROVE  McpInvariant'
  <1>1. \A s \in Servers : Locked(s)'
    BY NobodyCalls DEF Locked
  <1>2. ASSUME NEW s \in Servers
        PROVE  procs'[s] # {} => PerimeterRoots(command'[s]) # {"refused"}
    BY DEF McpInvariant, ServerSound
  <1>3. \A s \in Servers : ServerSound(s)'
    BY <1>1, <1>2 DEF ServerSound, PerimeterRoots, CacheRefused, CommandReadPaths
  <1>4. ASSUME NEW c \in McpCalls
        PROVE  CallSound(c)'
    <2>1. CallSound(c) /\ (toolCalls[c].st # "idle" => toolCalls[c].server \in Servers)
      BY DEF McpInvariant, McpTyped
    <2>2. toolCalls[c].st \in Ended \cup {"idle"}
      OBVIOUS
    <2> QED
      BY <2>1, <2>2 DEF CallSound, Ended
  <1> QED
    BY <1>3, <1>4 DEF McpInvariant

\* What the phases say of the calls.
LEMMA MountingIsQuiet ==
  ASSUME McpInvariant, mount.phase \in Mounting
  PROVE  /\ \A c \in McpCalls : toolCalls[c].st = "idle" /\ toolCalls[c].st \in Ended \cup {"idle"}
         /\ mount.at \in Servers /\ dropped = {} /\ McpTyped
         /\ \A s \in Servers : ServerSound(s) /\ service[s] # "closing"
  <1>1. \A c \in McpCalls : toolCalls[c].st = "idle" /\ toolCalls[c].st \in Ended \cup {"idle"}
    BY DEF McpInvariant, Phased
  <1>2. \A s \in Servers : service[s] # "closing"
    BY <1>1, NobodyCalls
  <1> QED
    BY <1>1, <1>2 DEF McpInvariant, Phased, McpTyped

\* A server starts inside its perimeter, or mounting ends.
LEMMA SpawnServerKeeps ==
  ASSUME McpInvariant, SpawnServer
  PROVE  McpInvariant'
  <1>1. PICK s \in Servers : mount.at = s
    BY MountingIsQuiet DEF SpawnServer, Mounting
  <1>2. /\ \A c \in McpCalls : toolCalls[c].st = "idle" /\ toolCalls[c].st \in Ended \cup {"idle"}
        /\ dropped = {} /\ McpTyped /\ \A t \in Servers : ServerSound(t) /\ service[t] # "closing"
    BY MountingIsQuiet DEF SpawnServer, Mounting
  <1>3. mount \in [phase : Mounting \cup {"mounted", "unwinding", "over"}, at : 1..(MaxServers + 1)] /\ mount.phase = "spawning"
        /\ procs \in [Servers -> SUBSET {"child", "helper"}]
    BY <1>2 DEF McpTyped, SpawnServer
  <1>4. PICK ph \in {"unwinding", "initializing"} :
            /\ mount' = [mount EXCEPT !.phase = ph]
            /\ \/ ph = "unwinding" /\ procs' = procs
               \/ ph = "initializing" /\ procs' = [procs EXCEPT ![s] = {"child"}] /\ PerimeterRoots(command[s]) # {"refused"}
    BY <1>1 DEF SpawnServer
  <1>5. UNCHANGED <<command, service, holder, toolRegistry, listed, toolCalls, stuck, dropped>>
    BY DEF SpawnServer
  <1>6. mount' \in [phase : Mounting \cup {"mounted", "unwinding", "over"}, at : 1..(MaxServers + 1)]
        /\ mount'.phase = ph /\ mount'.at = s
    BY <1>1, <1>3, <1>4 DEF Mounting
  <1>7. procs' \in [Servers -> SUBSET {"child", "helper"}] /\ (\A t \in Servers \ {s} : procs'[t] = procs[t])
        /\ (procs'[s] = procs[s] \/ PerimeterRoots(command[s]) # {"refused"}) /\ (ph = "unwinding" => procs' = procs)
    BY <1>3, <1>4
  <1>8. McpTyped'
    BY <1>2, <1>5, <1>6, <1>7 DEF McpTyped
  <1>9. Phased'
    BY <1>2, <1>5, <1>6 DEF Phased, Mounting
  <1>10. NamesSound'
    BY <1>1, <1>3, <1>5, <1>6 DEF McpInvariant, NamesSound, Mounting
  <1>11. ASSUME NEW t \in Servers
         PROVE  /\ Connected(t)' /\ Mounted(t)' /\ service'[t] # "closing" /\ (service[t] = "gone" => service'[t] = "gone")
                /\ procs'[t] # {} => procs[t] # {} \/ PerimeterRoots(command[t]) # {"refused"}
    <2>1. ServerSound(t) /\ service[t] # "closing" /\ service'[t] = service[t]
      BY <1>2, <1>5
    <2>2. Mounted(t)'
      BY <1>1, <1>3, <1>6, <2>1 DEF ServerSound, Mounted, Mounting, Servers
    <2>3. t = s => service[t] = "none"
      BY <1>1, <1>3, <2>1 DEF ServerSound, Mounted, Servers
    <2>4. Connected(t)'
      <3>1. procs'[t] = procs[t] \/ (ph = "initializing" /\ t = s)
        BY <1>4, <1>7
      <3> QED
        BY <1>3, <1>5, <1>6, <2>1, <2>3, <3>1 DEF ServerSound, Connected
    <2> QED
      BY <1>7, <2>1, <2>2, <2>4
  <1> QED
    BY <1>2, <1>5, <1>8, <1>9, <1>10, <1>11, MountStepKeeps

\* The handshake is done.
LEMMA InitializedKeeps ==
  ASSUME McpInvariant, Initialized
  PROVE  McpInvariant'
  <1>1. PICK s \in Servers : mount.at = s
    BY MountingIsQuiet DEF Initialized, Mounting
  <1>2. /\ \A c \in McpCalls : toolCalls[c].st = "idle" /\ toolCalls[c].st \in Ended \cup {"idle"}
        /\ dropped = {} /\ McpTyped /\ \A t \in Servers : ServerSound(t) /\ service[t] # "closing"
    BY MountingIsQuiet DEF Initialized, Mounting
  <1>3. mount \in [phase : Mounting \cup {"mounted", "unwinding", "over"}, at : 1..(MaxServers + 1)]
        /\ service \in [Servers -> {"none", "open", "closing", "gone"}]
    BY <1>2 DEF McpTyped
  <1>4. mount.phase = "initializing" /\ service' = [service EXCEPT ![s] = "open"] /\ mount' = [mount EXCEPT !.phase = "listing"]
        /\ UNCHANGED <<command, procs, holder, toolRegistry, listed, toolCalls, stuck, dropped>>
    BY <1>1 DEF Initialized
  <1>5. mount' \in [phase : Mounting \cup {"mounted", "unwinding", "over"}, at : 1..(MaxServers + 1)]
        /\ mount'.phase = "listing" /\ mount'.at = s
    BY <1>1, <1>3, <1>4 DEF Mounting
  <1>6. service' \in [Servers -> {"none", "open", "closing", "gone"}] /\ service'[s] = "open"
        /\ \A t \in Servers \ {s} : service'[t] = service[t]
    BY <1>3, <1>4
  <1>7. McpTyped' /\ Phased'
    BY <1>2, <1>4, <1>5, <1>6 DEF McpTyped, Phased, Mounting
  <1>8. NamesSound'
    BY <1>1, <1>4, <1>5 DEF McpInvariant, NamesSound, Mounting
  <1>9. ASSUME NEW t \in Servers
        PROVE  /\ Connected(t)' /\ Mounted(t)' /\ service'[t] # "closing" /\ (service[t] = "gone" => service'[t] = "gone")
               /\ procs'[t] # {} => procs[t] # {} \/ PerimeterRoots(command[t]) # {"refused"}
    <2>1. ServerSound(t) /\ service[t] # "closing"
      BY <1>2
    <2>2. t = s => service[t] = "none"
      BY <1>1, <1>4, <2>1, <1>3 DEF ServerSound, Mounted, Servers
    <2>3. Mounted(t)'
      BY <1>1, <1>4, <1>5, <1>6, <2>1 DEF ServerSound, Mounted, Mounting, Servers
    <2>4. Connected(t)'
      BY <1>1, <1>4, <1>5, <1>6, <2>1 DEF ServerSound, Connected
    <2> QED
      BY <1>4, <1>6, <2>1, <2>2, <2>3, <2>4
  <1> QED
    BY <1>2, <1>4, <1>7, <1>8, <1>9, MountStepKeeps

\* The handshake fails: the process is gone or stuck.
LEMMA InitializeFailsKeeps ==
  ASSUME McpInvariant, InitializeFails
  PROVE  McpInvariant'
  <1>1. PICK s \in Servers : mount.at = s
    BY MountingIsQuiet DEF InitializeFails, Mounting
  <1>2. /\ \A c \in McpCalls : toolCalls[c].st = "idle" /\ toolCalls[c].st \in Ended \cup {"idle"}
        /\ dropped = {} /\ McpTyped /\ \A t \in Servers : ServerSound(t) /\ service[t] # "closing"
    BY MountingIsQuiet DEF InitializeFails, Mounting
  <1>3. mount \in [phase : Mounting \cup {"mounted", "unwinding", "over"}, at : 1..(MaxServers + 1)]
        /\ mount.phase = "initializing" /\ mount' = [mount EXCEPT !.phase = "unwinding"] /\ Terminates(s)
        /\ UNCHANGED <<command, service, holder, toolRegistry, listed, toolCalls, dropped>>
    BY <1>1, <1>2 DEF InitializeFails, McpTyped
  <1>4. mount' \in [phase : Mounting \cup {"mounted", "unwinding", "over"}, at : 1..(MaxServers + 1)]
        /\ mount'.phase = "unwinding" /\ mount'.at = s
    BY <1>1, <1>3 DEF Mounting
  <1>5. /\ procs' \in [Servers -> SUBSET {"child", "helper"}]
        /\ \A t \in Servers \ {s} : procs'[t] = procs[t] /\ (t \in stuck' <=> t \in stuck)
        /\ (procs'[s] = {} \/ (s \in stuck' /\ procs'[s] = procs[s]))
    BY <1>2, <1>3, TerminatesOne
  <1>6. McpTyped' /\ Phased'
    BY <1>2, <1>3, <1>4, <1>5 DEF McpTyped, Phased, Mounting
  <1>7. NamesSound'
    BY <1>3, <1>4 DEF McpInvariant, NamesSound, Mounting
  <1>8. ASSUME NEW t \in Servers
        PROVE  /\ Connected(t)' /\ Mounted(t)' /\ service'[t] # "closing" /\ (service[t] = "gone" => service'[t] = "gone")
               /\ procs'[t] # {} => procs[t] # {} \/ PerimeterRoots(command[t]) # {"refused"}
    <2>1. ServerSound(t) /\ service[t] # "closing"
      BY <1>2
    <2>2. Mounted(t)'
      BY <1>1, <1>3, <1>4, <2>1 DEF ServerSound, Mounted, Mounting, Servers
    <2>3. Connected(t)'
      BY <1>1, <1>3, <1>4, <1>5, <2>1 DEF ServerSound, Connected
    <2> QED
      BY <1>3, <1>5, <2>1, <2>2, <2>3
  <1> QED
    BY <1>2, <1>3, <1>6, <1>7, <1>8, MountStepKeeps

\* The client is dropped: its child goes, its helper may stay.
LEMMA ListFailsKeeps ==
  ASSUME McpInvariant, ListFails
  PROVE  McpInvariant'
  <1>1. PICK s \in Servers : mount.at = s
    BY MountingIsQuiet DEF ListFails, Mounting
  <1>2. /\ \A c \in McpCalls : toolCalls[c].st = "idle" /\ toolCalls[c].st \in Ended \cup {"idle"}
        /\ dropped = {} /\ McpTyped /\ \A t \in Servers : ServerSound(t) /\ service[t] # "closing"
    BY MountingIsQuiet DEF ListFails, Mounting
  <1>3. mount \in [phase : Mounting \cup {"mounted", "unwinding", "over"}, at : 1..(MaxServers + 1)]
        /\ mount.phase = "listing" /\ mount' = [mount EXCEPT !.phase = "unwinding"]
        /\ service \in [Servers -> {"none", "open", "closing", "gone"}] /\ procs \in [Servers -> SUBSET {"child", "helper"}]
        /\ service' = [service EXCEPT ![s] = "gone"] /\ procs' = [procs EXCEPT ![s] = @ \ {"child"}] /\ dropped' = dropped \cup {s}
        /\ UNCHANGED <<command, holder, toolRegistry, listed, toolCalls, stuck>>
    BY <1>1, <1>2 DEF ListFails, McpTyped
  <1>4. mount' \in [phase : Mounting \cup {"mounted", "unwinding", "over"}, at : 1..(MaxServers + 1)]
        /\ mount'.phase = "unwinding" /\ mount'.at = s
    BY <1>1, <1>3 DEF Mounting
  <1>5. /\ procs' \in [Servers -> SUBSET {"child", "helper"}] /\ service' \in [Servers -> {"none", "open", "closing", "gone"}]
        /\ \A t \in Servers \ {s} : procs'[t] = procs[t] /\ service'[t] = service[t] /\ (t \in dropped' <=> t \in dropped)
        /\ procs'[s] = procs[s] \ {"child"} /\ service'[s] = "gone" /\ s \in dropped'
    BY <1>3
  <1>6. McpTyped' /\ Phased'
    BY <1>2, <1>3, <1>4, <1>5 DEF McpTyped, Phased, Mounting
  <1>7. NamesSound'
    BY <1>3, <1>4 DEF McpInvariant, NamesSound, Mounting
  <1>8. ASSUME NEW t \in Servers
        PROVE  /\ Connected(t)' /\ Mounted(t)' /\ service'[t] # "closing" /\ (service[t] = "gone" => service'[t] = "gone")
               /\ procs'[t] # {} => procs[t] # {} \/ PerimeterRoots(command[t]) # {"refused"}
    <2>1. ServerSound(t) /\ service[t] # "closing"
      BY <1>2
    <2>2. Mounted(t)'
      BY <1>1, <1>3, <1>4, <1>5, <2>1 DEF ServerSound, Mounted, Mounting, Servers
    <2>3. Connected(t)'
      BY <1>1, <1>3, <1>4, <1>5, <2>1 DEF ServerSound, Connected
    <2> QED
      BY <1>3, <1>5, <2>1, <2>2, <2>3
  <1> QED
    BY <1>2, <1>3, <1>6, <1>7, <1>8, MountStepKeeps

\* The turn is over.
LEMMA DropRegistryKeeps ==
  ASSUME McpInvariant, DropRegistry
  PROVE  McpInvariant'
  <1>1. McpTyped /\ Phased /\ \A t \in Servers : ServerSound(t)
    BY DEF McpInvariant
  <1>2. mount.phase = "mounted" /\ (\A c \in McpCalls : toolCalls[c].st \in Ended \cup {"idle"}) /\ dropped = {}
        /\ mount' = [phase |-> "unwinding", at |-> MaxServers + 1]
        /\ UNCHANGED <<command, procs, service, holder, toolRegistry, listed, toolCalls, stuck, dropped>>
    BY <1>1 DEF DropRegistry, Phased
  <1>3. mount' \in [phase : Mounting \cup {"mounted", "unwinding", "over"}, at : 1..(MaxServers + 1)]
        /\ mount'.phase = "unwinding" /\ mount'.at = MaxServers + 1
    BY <1>2, McpAssumption DEF Mounting
  <1>4. McpTyped' /\ Phased'
    BY <1>1, <1>2, <1>3 DEF McpTyped, Phased, Mounting
  <1>5. NamesSound'
    BY <1>2, <1>3 DEF McpInvariant, NamesSound, Mounting
  <1>6. \A t \in Servers : service[t] # "closing"
    BY <1>2, NobodyCalls
  <1>7. ASSUME NEW t \in Servers
        PROVE  /\ Connected(t)' /\ Mounted(t)' /\ service'[t] # "closing" /\ (service[t] = "gone" => service'[t] = "gone")
               /\ procs'[t] # {} => procs[t] # {} \/ PerimeterRoots(command[t]) # {"refused"}
    <2>1. t < MaxServers + 1 /\ ServerSound(t)
      BY <1>1, McpAssumption DEF Servers
    <2>2. Mounted(t)'
      BY <1>2, <1>3, <2>1, McpAssumption DEF ServerSound, Mounted, Mounting, Servers
    <2>3. Connected(t)'
      BY <1>2, <1>3, <2>1 DEF ServerSound, Connected
    <2> QED
      BY <1>2, <1>6, <2>2, <2>3
  <1> QED
    BY <1>2, <1>4, <1>5, <1>7, MountStepKeeps

\* A mounted client is disconnected.
LEMMA UnmountNextKeeps ==
  ASSUME McpInvariant, NEW s \in Servers, UnmountNext(s)
  PROVE  McpInvariant'
  <1>1. McpTyped /\ Phased /\ \A t \in Servers : ServerSound(t)
    BY DEF McpInvariant
  <1>2. mount.phase = "unwinding" /\ service[s] = "open" /\ Terminates(s) /\ service' = [service EXCEPT ![s] = "gone"]
        /\ UNCHANGED <<mount, command, holder, toolRegistry, listed, toolCalls, dropped>>
    BY DEF UnmountNext, ToUnmount
  <1>3. \A c \in McpCalls : toolCalls[c].st \in Ended \cup {"idle"}
    BY <1>1, <1>2 DEF Phased
  <1>4. service' \in [Servers -> {"none", "open", "closing", "gone"}] /\ service'[s] = "gone"
        /\ \A t \in Servers \ {s} : service'[t] = service[t]
    BY <1>1, <1>2 DEF McpTyped
  <1>5. /\ procs' \in [Servers -> SUBSET {"child", "helper"}]
        /\ \A t \in Servers \ {s} : procs'[t] = procs[t] /\ (t \in stuck' <=> t \in stuck)
        /\ (procs'[s] = {} \/ (s \in stuck' /\ procs'[s] = procs[s]))
    BY <1>1, <1>2, TerminatesOne
  <1>6. McpTyped' /\ Phased' /\ NamesSound'
    BY <1>1, <1>2, <1>4, <1>5 DEF McpInvariant, McpTyped, Phased, NamesSound
  <1>7. ASSUME NEW t \in Servers
        PROVE  /\ Connected(t)' /\ Mounted(t)' /\ service'[t] # "closing" /\ (service[t] = "gone" => service'[t] = "gone")
               /\ procs'[t] # {} => procs[t] # {} \/ PerimeterRoots(command[t]) # {"refused"}
    <2>1. ServerSound(t) /\ service[t] # "closing"
      BY <1>1, <1>3, NobodyCalls
    <2>2. Mounted(t)'
      BY <1>2, <1>4, <2>1 DEF ServerSound, Mounted, Mounting
    <2>3. Connected(t)'
      BY <1>2, <1>4, <1>5, <2>1 DEF ServerSound, Connected
    <2> QED
      BY <1>4, <1>5, <2>1, <2>2, <2>3
  <1> QED
    BY <1>2, <1>3, <1>6, <1>7, MountStepKeeps

\* Every client was visited: whoever is connected was mounted, so nobody is.
LEMMA UnmountedKeeps ==
  ASSUME McpInvariant, Unmounted
  PROVE  McpInvariant'
  <1>1. McpTyped /\ Phased /\ \A t \in Servers : ServerSound(t)
    BY DEF McpInvariant
  <1>2. mount.phase = "unwinding" /\ (\A t \in Servers : ~(t < mount.at /\ service[t] = "open"))
        /\ mount' = [mount EXCEPT !.phase = "over"]
        /\ UNCHANGED <<command, procs, service, holder, toolRegistry, listed, toolCalls, stuck, dropped>>
    BY DEF Unmounted, ToUnmount
  <1>3. \A c \in McpCalls : toolCalls[c].st \in Ended \cup {"idle"}
    BY <1>1, <1>2 DEF Phased
  <1>4. mount' \in [phase : Mounting \cup {"mounted", "unwinding", "over"}, at : 1..(MaxServers + 1)]
        /\ mount'.phase = "over" /\ mount'.at = mount.at
    BY <1>1, <1>2 DEF McpTyped, Mounting
  <1>5. McpTyped' /\ Phased'
    BY <1>1, <1>2, <1>4 DEF McpTyped, Phased, Mounting
  <1>6. NamesSound'
    BY <1>2, <1>4 DEF McpInvariant, NamesSound, Mounting
  <1>7. ASSUME NEW t \in Servers
        PROVE  /\ Connected(t)' /\ Mounted(t)' /\ service'[t] # "closing" /\ (service[t] = "gone" => service'[t] = "gone")
               /\ procs'[t] # {} => procs[t] # {} \/ PerimeterRoots(command[t]) # {"refused"}
    <2>1. ServerSound(t) /\ service[t] # "closing"
      BY <1>1, <1>3, NobodyCalls
    <2>2. Mounted(t)'
      BY <1>2, <1>4, <2>1 DEF ServerSound, Mounted, Mounting
    <2>3. Connected(t)'
      BY <1>2, <1>4, <2>1 DEF ServerSound, Connected
    <2> QED
      BY <1>2, <2>1, <2>2, <2>3
  <1> QED
    BY <1>2, <1>3, <1>5, <1>6, <1>7, MountStepKeeps

\* The names of a new server are new, each tool has one, and the earlier names stay.
LEMMA WithToolsAdds ==
  ASSUME NEW reg, NEW s \in Servers, NEW tools, \A n \in DOMAIN reg : n[1] \in Nat /\ n[1] < s
  PROVE  /\ \A n \in DOMAIN reg : n \in DOMAIN WithTools(reg, s, tools) /\ WithTools(reg, s, tools)[n] = reg[n]
         /\ \A n \in DOMAIN WithTools(reg, s, tools) : n[1] \in Nat /\ n[1] < s + 1
         /\ \A i \in DOMAIN tools : \E n \in DOMAIN WithTools(reg, s, tools) : WithTools(reg, s, tools)[n] = <<s, tools[i]>>
  <1> DEFINE name(i) == RegisteredName(reg, s, tools, i)
  <1> DEFINE added == {name(i) : i \in DOMAIN tools}
  <1>1. s \in Nat /\ s > 0
    BY McpAssumption DEF Servers
  <1>2. ASSUME NEW i \in DOMAIN tools
        PROVE  name(i)[1] \in {0, s} /\ name(i)[2] = tools[i] /\ name(i) \notin DOMAIN reg
    <2>1. CASE TakesPlainName(reg, tools, i)
      BY <2>1 DEF RegisteredName, TakesPlainName
    <2>2. CASE ~TakesPlainName(reg, tools, i)
      <3>1. name(i) = <<s, tools[i]>>
        BY <2>2 DEF RegisteredName
      <3>2. name(i) \notin DOMAIN reg
        BY <1>1, <3>1
      <3> QED
        BY <3>1, <3>2
    <2> QED
      BY <2>1, <2>2
  <1> HIDE DEF name
  <1>3. WithTools(reg, s, tools) = [n \in DOMAIN reg \cup added |-> IF n \in added THEN <<s, n[2]>> ELSE reg[n]]
    BY DEF WithTools, name
  <1>4. \A n \in DOMAIN reg : n \notin added
    BY <1>2
  <1>5. \A i \in DOMAIN tools : name(i) \in added
    OBVIOUS
  <1>6. \A n \in added : n[1] \in {0, s}
    BY <1>2
  <1> HIDE DEF added
  <1>7. \A n \in DOMAIN WithTools(reg, s, tools) : n[1] \in Nat /\ n[1] < s + 1
    <2>1. DOMAIN WithTools(reg, s, tools) = DOMAIN reg \cup added
      BY <1>3
    <2> QED
      BY <1>1, <1>6, <2>1
  <1>8. \A n \in DOMAIN reg : n \in DOMAIN WithTools(reg, s, tools) /\ WithTools(reg, s, tools)[n] = reg[n]
    BY <1>3, <1>4
  <1>9. ASSUME NEW i \in DOMAIN tools
        PROVE  \E n \in DOMAIN WithTools(reg, s, tools) : WithTools(reg, s, tools)[n] = <<s, tools[i]>>
    <2>1. name(i) \in DOMAIN WithTools(reg, s, tools) /\ WithTools(reg, s, tools)[name(i)] = <<s, tools[i]>>
      BY <1>2, <1>3, <1>5
    <2> QED
      BY <2>1
  <1> QED
    BY <1>7, <1>8, <1>9

\* The tools are registered and the next server is mounted, if there is one.
LEMMA ListsToolsKeeps ==
  ASSUME McpInvariant, ListsTools
  PROVE  McpInvariant'
  <1>1. PICK s \in Servers : mount.at = s
    BY MountingIsQuiet DEF ListsTools, Mounting
  <1>2. /\ \A c \in McpCalls : toolCalls[c].st = "idle" /\ toolCalls[c].st \in Ended \cup {"idle"}
        /\ dropped = {} /\ McpTyped /\ \A t \in Servers : ServerSound(t) /\ service[t] # "closing"
    BY MountingIsQuiet DEF ListsTools, Mounting
  <1>3. PICK tools \in ToolLists : listed' = [listed EXCEPT ![s] = tools] /\ toolRegistry' = WithTools(toolRegistry, s, tools)
    BY <1>1 DEF ListsTools
  <1>4. mount \in [phase : Mounting \cup {"mounted", "unwinding", "over"}, at : 1..(MaxServers + 1)]
        /\ mount.phase = "listing" /\ s \in 1..MaxServers /\ MaxServers \in Nat /\ listed \in [Servers -> Seq(McpTools)]
        /\ UNCHANGED <<command, procs, service, holder, toolCalls, stuck, dropped>>
    BY <1>2, McpAssumption DEF ListsTools, McpTyped, Servers
  <1>5. PICK ph \in {"mounted", "spawning"}, next \in 1..(MaxServers + 1) :
            /\ mount' = [phase |-> ph, at |-> next] /\ next \in Servers
            /\ \/ ph = "mounted" /\ s = MaxServers /\ next = s
               \/ ph = "spawning" /\ next = s + 1
    <2>1. CASE s = MaxServers
      <3>1. mount' = [mount EXCEPT !.phase = "mounted"]
        BY <1>1, <2>1 DEF ListsTools
      <3>2. mount' = [phase |-> "mounted", at |-> s]
        BY <1>1, <1>4, <3>1
      <3> QED
        BY <1>4, <2>1, <3>2
    <2>2. CASE s # MaxServers
      <3>1. mount' = [phase |-> "spawning", at |-> s + 1]
        BY <1>1, <2>2 DEF ListsTools
      <3>2. s + 1 \in Servers /\ s + 1 \in 1..(MaxServers + 1)
        BY <1>4, <2>2 DEF Servers
      <3> QED
        BY <3>1, <3>2
    <2> QED
      BY <2>1, <2>2
  <1>6. mount' \in [phase : Mounting \cup {"mounted", "unwinding", "over"}, at : 1..(MaxServers + 1)]
        /\ mount'.phase = ph /\ mount'.at = next
    BY <1>5 DEF Mounting
  <1>7. listed' \in [Servers -> Seq(McpTools)] /\ listed'[s] = tools /\ \A t \in Servers \ {s} : listed'[t] = listed[t]
    <2>1. tools \in Seq(McpTools)
      BY McpAssumption
    <2> QED
      BY <1>3, <1>4, <2>1
  <1>8. McpTyped' /\ Phased'
    BY <1>2, <1>4, <1>5, <1>6, <1>7 DEF McpTyped, Phased, Mounting
  <1>9. NamesSound'
    <2>1. \A n \in DOMAIN toolRegistry : n[1] \in Nat /\ n[1] < s
      BY <1>1, <1>4 DEF McpInvariant, NamesSound, Mounting
    <2>2. /\ \A n \in DOMAIN toolRegistry : n \in DOMAIN toolRegistry' /\ toolRegistry'[n] = toolRegistry[n]
          /\ \A n \in DOMAIN toolRegistry' : n[1] \in Nat /\ n[1] < s + 1
          /\ \A i \in DOMAIN tools : \E n \in DOMAIN toolRegistry' : toolRegistry'[n] = <<s, tools[i]>>
      BY <1>3, <2>1, WithToolsAdds
    <2>3. \A b \in Builtins : <<0, b>> \in DOMAIN toolRegistry' /\ toolRegistry'[<<0, b>>] = <<0, b>>
      BY <2>2 DEF McpInvariant, NamesSound
    <2>4. mount'.phase \in Mounting => \A n \in DOMAIN toolRegistry' : n[1] \in Nat /\ n[1] < mount'.at
      BY <1>5, <1>6, <2>2 DEF Mounting
    <2>5. ASSUME NEW t \in Servers, NEW i \in DOMAIN listed'[t]
          PROVE  \E n \in DOMAIN toolRegistry' : toolRegistry'[n] = <<t, listed'[t][i]>>
      <3>1. CASE t = s
        BY <1>7, <2>2, <3>1
      <3>2. CASE t # s
        <4>1. i \in DOMAIN listed[t] /\ listed'[t] = listed[t]
          BY <1>7, <3>2
        <4>2. PICK n \in DOMAIN toolRegistry : toolRegistry[n] = <<t, listed[t][i]>>
          BY <4>1 DEF McpInvariant, NamesSound
        <4> QED
          BY <2>2, <4>1, <4>2
      <3> QED
        BY <3>1, <3>2
    <2> QED
      BY <2>3, <2>4, <2>5 DEF NamesSound
  <1>10. ASSUME NEW t \in Servers
        PROVE  /\ Connected(t)' /\ Mounted(t)' /\ service'[t] # "closing" /\ (service[t] = "gone" => service'[t] = "gone")
               /\ procs'[t] # {} => procs[t] # {} \/ PerimeterRoots(command[t]) # {"refused"}
    <2>1. ServerSound(t) /\ service[t] # "closing" /\ t \in Nat /\ t <= MaxServers
      BY <1>2, <1>4 DEF Servers
    <2>2. Mounted(t)'
      BY <1>1, <1>4, <1>5, <1>6, <2>1 DEF ServerSound, Mounted, Mounting
    <2>3. Connected(t)'
      BY <1>4, <1>5, <1>6, <2>1 DEF ServerSound, Connected
    <2> QED
      BY <1>4, <2>1, <2>2, <2>3
  <1> QED
    BY <1>2, <1>4, <1>8, <1>9, <1>10, MountStepKeeps

\* A step keeps the invariant.
LEMMA McpStepKeeps ==
  ASSUME McpInvariant, [McpNext]_mcpVars
  PROVE  McpInvariant'
  <1>1. CASE SpawnServer \/ Initialized \/ InitializeFails \/ ListsTools \/ ListFails
    BY <1>1, SpawnServerKeeps, InitializedKeeps, InitializeFailsKeeps, ListsToolsKeeps, ListFailsKeeps
  <1>2. CASE DropRegistry \/ Unmounted
    BY <1>2, DropRegistryKeeps, UnmountedKeeps
  <1>3. CASE CancelTurn \/ UNCHANGED mcpVars
    <2>1. UNCHANGED <<mount, command, procs, service, holder, toolRegistry, listed, toolCalls, stuck, dropped>>
      BY <1>3 DEF CancelTurn, mcpVars
    <2>2. McpTyped' /\ Phased' /\ NamesSound'
      BY <2>1 DEF McpInvariant, McpTyped, Phased, NamesSound
    <2>3. \A s \in Servers : ServerSound(s)'
      BY <2>1 DEF McpInvariant, ServerSound, Connected, Mounted, Locked, PerimeterRoots, CacheRefused, CommandReadPaths
    <2>4. \A c \in McpCalls : CallSound(c)'
      BY <2>1 DEF McpInvariant, CallSound
    <2> QED
      BY <2>2, <2>3, <2>4 DEF McpInvariant
  <1>4. ASSUME NEW s \in Servers, StartsHelper(s) \/ ServerDies(s) \/ UnmountNext(s)
        PROVE  McpInvariant'
    BY <1>4, ProcessKeeps, UnmountNextKeeps
  <1>5. ASSUME NEW c \in McpCalls,
               \/ CallTool(c) \/ SendsCall(c) \/ ServerAnswers(c) \/ ReturnsResult(c) \/ ConnectionLost(c)
               \/ GivesUp(c, "timedOut") \/ GivesUp(c, "cancelled") \/ DisconnectStarts(c) \/ DisconnectEnds(c)
        PROVE  McpInvariant'
    BY <1>5, CallToolKeeps, SendsCallKeeps, AnswersKeep, ReturnsResultKeeps, GivesUpKeeps, DisconnectStartsKeeps,
       DisconnectEndsKeeps
  <1> QED
    BY <1>1, <1>2, <1>3, <1>4, <1>5 DEF McpNext

\* At the end of its turn no MCP server runs that could be killed; a call that gave up has taken
\* its server down for all others, the lock is with a call that uses it, and every listed tool
\* has a name of its own (mcp/client.rs, mcp/mod.rs).
THEOREM McpIsSound == McpSpec => []McpSound
  <1>1. McpSpec => []McpInvariant
    BY McpInitially, McpStepKeeps, PTL DEF McpSpec
  <1> QED
    BY <1>1, McpInvariantIsSound, PTL

(***************************************************************************)
(* The Windows helper.                                                     *)
(***************************************************************************)
AfterRules == {"grant", "granting", "token", "job", "spawn", "assign", "resume", "wait"}
HelperStages == {"idle", "gone", "container", "network", "exempt", "dropJob", "dropFiles", "dropNetwork", "dropContainer"}
                  \cup AfterRules
AccessEntries == ({"user"} \cup Helpers) \X {"read", "write"}
Restorations == [folder : Folders, was : SUBSET AccessEntries]
Copies == Seq(Restorations)
HelperRecords ==
    [pc : HelperStages, profile : Profiles, saved : Seq(Restorations), forward : BOOLEAN, loopBefore : SUBSET Helpers,
     exempt : BOOLEAN, job : BOOLEAN, token : BOOLEAN]
BoxRecords == [life : {"none", "suspended", "running", "ended"}, inJob : BOOLEAN, children : BOOLEAN, net : BOOLEAN]
SandboxTyped ==
    /\ helper \in [Helpers -> HelperRecords] /\ boxed \in [Helpers -> BoxRecords]
    /\ acl \in [Folders -> SUBSET AccessEntries] /\ exempted \subseteq Helpers /\ boxes \subseteq Helpers
    /\ DOMAIN wfp = Helpers /\ disturbed \in BOOLEAN

\* The filters of a container are those of its profile, from their transaction to the end of the command.
FilteredBy(p, filters) ==
    NetworkCapability(p) = "destinationAllowlist" =>
        /\ NoRule \notin ParseAllowlist(p)
        /\ filters = (UNION {PermitFilters(r) : r \in ParseAllowlist(p)}) \cup {BlockAll("v4"), BlockAll("v6")}
Filtered(h) == FilteredBy(helper[h].profile, wfp[h])
\* How far a helper is says what it has made; a command that runs has all of it, until the job is closed.
Staged(h) ==
    /\ BoxRuns(h) => helper[h].pc \in {"wait", "dropJob"}
    /\ helper[h].pc \in AfterRules \/ BoxRuns(h) => h \in boxes /\ Filtered(h)
    /\ helper[h].pc \in {"job", "spawn", "assign", "resume", "wait"} \/ BoxRuns(h) => helper[h].token
    /\ helper[h].pc \in {"spawn", "assign", "resume", "wait"} \/ BoxRuns(h) => helper[h].job
    /\ helper[h].pc \in {"resume", "wait"} \/ BoxRuns(h) => boxed[h].inJob
    /\ boxed[h].net => InternetClient(helper[h].profile)
    /\ helper[h].pc \in {"network", "exempt"} => h \in boxes
    /\ helper[h].pc = "exempt" => NetworkCapability(helper[h].profile) = "loopback"
    /\ helper[h].pc = "idle" => ~boxed[h].net

\* What is saved are the grants so far, and a folder that is there twice is listed twice.
Saved(h) ==
    /\ helper[h].pc \in {"grant", "granting"} =>
          /\ Len(helper[h].saved) <= Len(FilesystemGrants(helper[h].profile))
          /\ \A i \in DOMAIN helper[h].saved : helper[h].saved[i].folder = FilesystemGrants(helper[h].profile)[i][1]
    /\ helper[h].pc = "granting" => helper[h].saved # <<>>
    /\ helper[h].pc \in {"idle", "container", "network", "exempt", "dropNetwork", "dropContainer"} => helper[h].saved = <<>>
    /\ \A i, j \in DOMAIN helper[h].saved :
          i # j /\ helper[h].saved[i].folder = helper[h].saved[j].folder => ListedTwice(helper[h].profile, helper[h].saved[i].folder)

\* Whoever is in a list of the host, or in a copy of it that may be written back, is there by its profile.
Entitled(entries, f) ==
    \A x \in entries : x[1] \in Helpers =>
        /\ helper[x[1]].pc # "idle"
        /\ f \in Range(IF x[2] = "write" THEN helper[x[1]].profile.writes ELSE helper[x[1]].profile.reads)
Exemptible(set) == \A g \in set : helper[g].pc # "idle" /\ helper[g].profile.policy = "loopback"
ListsEntitled ==
    /\ \A f \in Folders : Entitled(acl[f], f)
    /\ \A h \in Helpers : \A i \in DOMAIN helper[h].saved : Entitled(helper[h].saved[i].was, helper[h].saved[i].folder)
    /\ Exemptible(exempted) /\ \A h \in Helpers : Exemptible(helper[h].loopBefore)

\* A helper that is alone: what it has not given back is its own, and the first copy of each list is clean.
Excused(g, f) == helper[g].pc # "idle" /\ helper[g].forward /\ ListedTwice(helper[g].profile, f)
CleanBut(entries, f, h) == \A x \in entries : x[1] \in Helpers => x[1] = h \/ Excused(x[1], f)
Clean(entries, f) == \A x \in entries : x[1] \in Helpers => Excused(x[1], f)
FirstCopy(h, i) == \A j \in 1..(i - 1) : helper[h].saved[j].folder # helper[h].saved[i].folder
AloneLists(h) ==
    /\ \A f \in Folders : CleanBut(acl[f], f, h)
    /\ \A i \in DOMAIN helper[h].saved :
          LET s == helper[h].saved[i] IN CleanBut(s.was, s.folder, h) /\ (FirstCopy(h, i) => Clean(s.was, s.folder))
    /\ helper[h].pc = "granting" =>
          LET s == helper[h].saved[Len(helper[h].saved)] IN acl[s.folder] = s.was
AloneRest(h) ==
    /\ helper[h].pc = "exempt" => helper[h].loopBefore = {} /\ exempted = {}
    /\ helper[h].exempt => helper[h].loopBefore = {} /\ helper[h].pc \notin {"container", "network", "exempt"}
Alone ==
    ~disturbed =>
      /\ \A g, h \in Helpers : HelperActive(g) /\ HelperActive(h) => g = h
      /\ \A h \in boxes : HelperActive(h) /\ helper[h].pc # "container"
      /\ \A h \in exempted : HelperActive(h) /\ helper[h].exempt /\ helper[h].pc # "dropContainer"
      /\ \A h \in Helpers : HelperActive(h) => AloneLists(h) /\ AloneRest(h)
      /\ \A f \in Folders :
            (\A h \in Helpers : HelperActive(h) => \A i \in DOMAIN helper[h].saved : helper[h].saved[i].folder # f) => Clean(acl[f], f)

SandboxInvariant ==
    /\ SandboxTyped /\ ListsEntitled /\ Alone
    /\ \A h \in Helpers : Staged(h) /\ Saved(h)


(***************************************************************************)
(* The steps of a helper.                                                  *)
(***************************************************************************)
\* What a step of a helper does to its own record; nobody else's changes, and its profile stays.
Becomes(h, r) ==
    /\ helper' \in [Helpers -> HelperRecords] /\ helper'[h] = r
    /\ \A g \in Helpers \ {h} : helper'[g] = helper[g]
KeepsProfile(h) == helper[h].pc # "idle" /\ helper'[h].pc # "idle" /\ helper'[h].profile = helper[h].profile
                   /\ helper'[h].forward \in BOOLEAN /\ (helper[h].forward => helper'[h].forward)

LEMMA HelperBecomes ==
  ASSUME SandboxTyped, NEW h \in Helpers, NEW r \in HelperRecords, helper' = [helper EXCEPT ![h] = r]
  PROVE  Becomes(h, r)
  BY DEF SandboxTyped, Becomes

LEMMA HelperTyped ==
  ASSUME SandboxTyped, NEW h \in Helpers
  PROVE  /\ helper[h] \in HelperRecords /\ helper[h].pc \in HelperStages /\ helper[h].profile \in Profiles
         /\ helper[h].saved \in Seq(Restorations) /\ helper[h].forward \in BOOLEAN /\ helper[h].loopBefore \in SUBSET Helpers
         /\ helper[h].exempt \in BOOLEAN /\ helper[h].job \in BOOLEAN /\ helper[h].token \in BOOLEAN
  <1>1. helper[h] \in HelperRecords
    BY DEF SandboxTyped
  <1> QED
    BY <1>1 DEF HelperRecords

\* A helper goes to its next stage.
LEMMA GoesTo ==
  ASSUME SandboxTyped, NEW h \in Helpers, NEW pc \in HelperStages, Goto(h, pc)
  PROVE  \E r \in HelperRecords :
            /\ Becomes(h, r) /\ r.pc = pc /\ r.profile = helper[h].profile /\ r.saved = helper[h].saved /\ r.forward = helper[h].forward
            /\ r.loopBefore = helper[h].loopBefore /\ r.exempt = helper[h].exempt /\ r.job = helper[h].job /\ r.token = helper[h].token
  <1> DEFINE q == [helper[h] EXCEPT !.pc = pc]
  <1>1. helper[h] \in HelperRecords
    BY HelperTyped
  <1>2. q \in HelperRecords
    BY <1>1 DEF HelperRecords
  <1>3. /\ q.pc = pc /\ q.profile = helper[h].profile /\ q.saved = helper[h].saved /\ q.forward = helper[h].forward
        /\ q.loopBefore = helper[h].loopBefore /\ q.exempt = helper[h].exempt /\ q.job = helper[h].job /\ q.token = helper[h].token
    BY <1>1 DEF HelperRecords
  <1>4. helper' = [helper EXCEPT ![h] = q]
    BY <1>1 DEF Goto, SandboxTyped
  <1> HIDE DEF q
  <1>5. PICK r \in HelperRecords : r = q
    BY <1>2
  <1>6. Becomes(h, r)
    BY <1>4, <1>5, HelperBecomes
  <1> QED
    BY <1>3, <1>5, <1>6

\* The stage, and a copy of the exemption list.
LEMMA RemembersList ==
  ASSUME SandboxTyped, NEW h \in Helpers, helper' = [helper EXCEPT ![h].pc = "exempt", ![h].loopBefore = exempted]
  PROVE  \E r \in HelperRecords :
            /\ Becomes(h, r) /\ r.pc = "exempt" /\ r.profile = helper[h].profile /\ r.saved = helper[h].saved /\ r.forward = helper[h].forward
            /\ r.loopBefore = exempted /\ r.exempt = helper[h].exempt /\ r.job = helper[h].job /\ r.token = helper[h].token
  <1> DEFINE q == [helper[h] EXCEPT !.pc = "exempt", !.loopBefore = exempted]
  <1>1. helper[h] \in HelperRecords
    BY HelperTyped
  <1>2. q \in HelperRecords
    BY <1>1 DEF HelperRecords, HelperStages, SandboxTyped
  <1>3. /\ q.pc = "exempt" /\ q.profile = helper[h].profile /\ q.saved = helper[h].saved /\ q.forward = helper[h].forward
        /\ q.loopBefore = exempted /\ q.exempt = helper[h].exempt /\ q.job = helper[h].job /\ q.token = helper[h].token
    BY <1>1 DEF HelperRecords
  <1>4. helper' = [helper EXCEPT ![h] = q]
    BY <1>1 DEF SandboxTyped
  <1> HIDE DEF q
  <1>5. PICK r \in HelperRecords : r = q
    BY <1>2
  <1>6. Becomes(h, r)
    BY <1>4, <1>5, HelperBecomes
  <1> QED
    BY <1>3, <1>5, <1>6

\* The stage, and one of the things a helper makes.
LEMMA SetsExempt ==
  ASSUME SandboxTyped, NEW h \in Helpers, NEW pc \in HelperStages, helper' = [helper EXCEPT ![h].pc = pc, ![h].exempt = TRUE]
  PROVE  \E r \in HelperRecords :
            /\ Becomes(h, r) /\ r.pc = pc /\ r.profile = helper[h].profile /\ r.saved = helper[h].saved /\ r.forward = helper[h].forward
            /\ r.loopBefore = helper[h].loopBefore /\ r.exempt = TRUE /\ r.job = helper[h].job /\ r.token = helper[h].token
  <1> DEFINE q == [helper[h] EXCEPT !.pc = pc, !.exempt = TRUE]
  <1>1. helper[h] \in HelperRecords
    BY HelperTyped
  <1>2. q \in HelperRecords
    BY <1>1 DEF HelperRecords
  <1>3. /\ q.pc = pc /\ q.profile = helper[h].profile /\ q.saved = helper[h].saved /\ q.forward = helper[h].forward
        /\ q.loopBefore = helper[h].loopBefore /\ q.exempt = TRUE /\ q.job = helper[h].job /\ q.token = helper[h].token
    BY <1>1 DEF HelperRecords
  <1>4. helper' = [helper EXCEPT ![h] = q]
    BY <1>1 DEF SandboxTyped
  <1> HIDE DEF q
  <1>5. PICK r \in HelperRecords : r = q
    BY <1>2
  <1>6. Becomes(h, r)
    BY <1>4, <1>5, HelperBecomes
  <1> QED
    BY <1>3, <1>5, <1>6

\* The same, the token.
LEMMA SetsToken ==
  ASSUME SandboxTyped, NEW h \in Helpers, NEW pc \in HelperStages, helper' = [helper EXCEPT ![h].pc = pc, ![h].token = TRUE]
  PROVE  \E r \in HelperRecords :
            /\ Becomes(h, r) /\ r.pc = pc /\ r.profile = helper[h].profile /\ r.saved = helper[h].saved /\ r.forward = helper[h].forward
            /\ r.loopBefore = helper[h].loopBefore /\ r.exempt = helper[h].exempt /\ r.job = helper[h].job /\ r.token = TRUE
  <1> DEFINE q == [helper[h] EXCEPT !.pc = pc, !.token = TRUE]
  <1>1. helper[h] \in HelperRecords
    BY HelperTyped
  <1>2. q \in HelperRecords
    BY <1>1 DEF HelperRecords
  <1>3. /\ q.pc = pc /\ q.profile = helper[h].profile /\ q.saved = helper[h].saved /\ q.forward = helper[h].forward
        /\ q.loopBefore = helper[h].loopBefore /\ q.exempt = helper[h].exempt /\ q.job = helper[h].job /\ q.token = TRUE
    BY <1>1 DEF HelperRecords
  <1>4. helper' = [helper EXCEPT ![h] = q]
    BY <1>1 DEF SandboxTyped
  <1> HIDE DEF q
  <1>5. PICK r \in HelperRecords : r = q
    BY <1>2
  <1>6. Becomes(h, r)
    BY <1>4, <1>5, HelperBecomes
  <1> QED
    BY <1>3, <1>5, <1>6

\* The same, the job.
LEMMA SetsJob ==
  ASSUME SandboxTyped, NEW h \in Helpers, NEW pc \in HelperStages, helper' = [helper EXCEPT ![h].pc = pc, ![h].job = TRUE]
  PROVE  \E r \in HelperRecords :
            /\ Becomes(h, r) /\ r.pc = pc /\ r.profile = helper[h].profile /\ r.saved = helper[h].saved /\ r.forward = helper[h].forward
            /\ r.loopBefore = helper[h].loopBefore /\ r.exempt = helper[h].exempt /\ r.job = TRUE /\ r.token = helper[h].token
  <1> DEFINE q == [helper[h] EXCEPT !.pc = pc, !.job = TRUE]
  <1>1. helper[h] \in HelperRecords
    BY HelperTyped
  <1>2. q \in HelperRecords
    BY <1>1 DEF HelperRecords
  <1>3. /\ q.pc = pc /\ q.profile = helper[h].profile /\ q.saved = helper[h].saved /\ q.forward = helper[h].forward
        /\ q.loopBefore = helper[h].loopBefore /\ q.exempt = helper[h].exempt /\ q.job = TRUE /\ q.token = helper[h].token
    BY <1>1 DEF HelperRecords
  <1>4. helper' = [helper EXCEPT ![h] = q]
    BY <1>1 DEF SandboxTyped
  <1> HIDE DEF q
  <1>5. PICK r \in HelperRecords : r = q
    BY <1>2
  <1>6. Becomes(h, r)
    BY <1>4, <1>5, HelperBecomes
  <1> QED
    BY <1>3, <1>5, <1>6

\* The allowlist is not finished.
LEMMA SetsForward ==
  ASSUME SandboxTyped, NEW h \in Helpers, NEW pc \in HelperStages, helper' = [helper EXCEPT ![h].pc = pc, ![h].forward = TRUE]
  PROVE  \E r \in HelperRecords :
            /\ Becomes(h, r) /\ r.pc = pc /\ r.profile = helper[h].profile /\ r.saved = helper[h].saved /\ r.forward = TRUE
            /\ r.loopBefore = helper[h].loopBefore /\ r.exempt = helper[h].exempt /\ r.job = helper[h].job /\ r.token = helper[h].token
  <1> DEFINE q == [helper[h] EXCEPT !.pc = pc, !.forward = TRUE]
  <1>1. helper[h] \in HelperRecords
    BY HelperTyped
  <1>2. q \in HelperRecords
    BY <1>1 DEF HelperRecords
  <1>3. /\ q.pc = pc /\ q.profile = helper[h].profile /\ q.saved = helper[h].saved /\ q.forward = TRUE
        /\ q.loopBefore = helper[h].loopBefore /\ q.exempt = helper[h].exempt /\ q.job = helper[h].job /\ q.token = helper[h].token
    BY <1>1 DEF HelperRecords
  <1>4. helper' = [helper EXCEPT ![h] = q]
    BY <1>1 DEF SandboxTyped
  <1> HIDE DEF q
  <1>5. PICK r \in HelperRecords : r = q
    BY <1>2
  <1>6. Becomes(h, r)
    BY <1>4, <1>5, HelperBecomes
  <1> QED
    BY <1>3, <1>5, <1>6

(***************************************************************************)
(* What a step has to look after.                                          *)
(***************************************************************************)
\* The commands: the helper that steps, and what it does to its own container.
LEMMA CommandsKeep ==
  ASSUME SandboxInvariant, NEW h \in Helpers, \A g \in Helpers \ {h} : helper'[g] = helper[g],
         \A g \in Helpers \ {h} : boxed'[g] = boxed[g] /\ wfp'[g] = wfp[g] /\ (g \in boxes' <=> g \in boxes),
         Staged(h)', Saved(h)'
  PROVE  \A g \in Helpers : Staged(g)' /\ Saved(g)'
  <1> SUFFICES ASSUME NEW g \in Helpers, g # h
               PROVE  Staged(g)' /\ Saved(g)'
    OBVIOUS
  <1>1. Staged(g) /\ Saved(g) /\ helper'[g] = helper[g] /\ boxed'[g] = boxed[g] /\ wfp'[g] = wfp[g] /\ (g \in boxes' <=> g \in boxes)
    BY DEF SandboxInvariant
  <1>2. Staged(g)'
    BY <1>1 DEF Staged, Filtered, BoxRuns
  <1>3. Saved(g)'
    BY <1>1 DEF Saved
  <1> QED
    BY <1>2, <1>3

\* The lists of the host: what is new in them is there by a profile.
LEMMA ListsKeep ==
  ASSUME ListsEntitled, NEW h \in Helpers, \A g \in Helpers \ {h} : helper'[g] = helper[g], KeepsProfile(h),
         \A f \in Folders : Entitled(acl'[f], f),
         \A i \in DOMAIN helper'[h].saved : Entitled(helper'[h].saved[i].was, helper'[h].saved[i].folder),
         exempted' \subseteq Helpers, helper'[h].loopBefore \subseteq Helpers, \A g \in Helpers : helper[g].loopBefore \subseteq Helpers,
         Exemptible(exempted'), Exemptible(helper'[h].loopBefore)
  PROVE  ListsEntitled'
  <1>1. \A g \in Helpers : helper[g].pc # "idle" => helper'[g].pc # "idle" /\ helper'[g].profile = helper[g].profile
    BY DEF KeepsProfile
  <1>2. ASSUME NEW f \in Folders
        PROVE  Entitled(acl[f], f)'
    BY <1>1 DEF Entitled
  <1>3. ASSUME NEW g \in Helpers, NEW i \in DOMAIN helper'[g].saved
        PROVE  Entitled(helper[g].saved[i].was, helper[g].saved[i].folder)'
    <2>1. Entitled(helper'[g].saved[i].was, helper'[g].saved[i].folder)
      BY DEF ListsEntitled
    <2> QED
      BY <1>1, <2>1 DEF Entitled
  <1>4. Exemptible(exempted)'
    BY <1>1 DEF Exemptible
  <1>5. ASSUME NEW g \in Helpers
        PROVE  Exemptible(helper[g].loopBefore)'
    <2>1. Exemptible(helper'[g].loopBefore) /\ helper'[g].loopBefore \subseteq Helpers
      BY DEF ListsEntitled
    <2> QED
      BY <1>1, <2>1 DEF Exemptible
  <1> QED
    BY <1>2, <1>3, <1>4, <1>5 DEF ListsEntitled

\* A helper that is alone steps: only its own copies and the lists matter.
LEMMA AloneKeeps ==
  ASSUME SandboxTyped, Alone, NEW h \in Helpers, \A g \in Helpers \ {h} : helper'[g] = helper[g], HelperActive(h), KeepsProfile(h),
         disturbed \in BOOLEAN, ~disturbed' => ~disturbed,
         ~disturbed =>
           /\ \A g \in boxes' : g = h /\ helper'[h].pc \notin {"idle", "gone", "container"}
           /\ \A g \in exempted' : g = h /\ helper'[h].pc \notin {"idle", "gone", "dropContainer"} /\ helper'[h].exempt
           /\ AloneRest(h)'
           /\ \A f \in Folders : CleanBut(acl'[f], f, h)
           /\ \A i \in DOMAIN helper'[h].saved : LET s == helper'[h].saved[i] IN
                 /\ CleanBut(s.was, s.folder, h)
                 /\ (\A j \in 1..(i - 1) : helper'[h].saved[j].folder # s.folder) => Clean(s.was, s.folder)
           /\ helper'[h].pc = "granting" => LET s == helper'[h].saved[Len(helper'[h].saved)] IN acl'[s.folder] = s.was
           /\ \A f \in Folders : (\A i \in DOMAIN helper'[h].saved : helper'[h].saved[i].folder # f) => Clean(acl'[f], f)
           /\ helper'[h].pc = "gone" => helper'[h].saved = <<>>
  PROVE  Alone'
  <1> SUFFICES ASSUME ~disturbed'
               PROVE  (/\ \A g, k \in Helpers : HelperActive(g) /\ HelperActive(k) => g = k
                       /\ \A k \in boxes : HelperActive(k) /\ helper[k].pc # "container"
                       /\ \A k \in exempted : HelperActive(k) /\ helper[k].exempt /\ helper[k].pc # "dropContainer"
                       /\ \A k \in Helpers : HelperActive(k) => AloneLists(k) /\ AloneRest(k)
                       /\ \A f \in Folders :
                             (\A k \in Helpers : HelperActive(k) => \A i \in DOMAIN helper[k].saved : helper[k].saved[i].folder # f)
                               => Clean(acl[f], f))'
    BY DEF Alone
  <1>0. ~disturbed
    OBVIOUS
  <1>1. \A g \in Helpers \ {h} : ~HelperActive(g) /\ ~HelperActive(g)'
    BY <1>0 DEF Alone, HelperActive
  <1>2. ASSUME NEW g \in Helpers, NEW f, Excused(g, f)
        PROVE  Excused(g, f)'
    BY <1>2 DEF Excused, KeepsProfile
  <1>3. ASSUME NEW S, NEW f, Clean(S, f)
        PROVE  \A x \in S : x[1] \in Helpers => Excused(x[1], f)'
    BY <1>2, <1>3 DEF Clean
  <1>4. ASSUME NEW S, NEW f, CleanBut(S, f, h)
        PROVE  \A x \in S : x[1] \in Helpers => x[1] = h \/ Excused(x[1], f)'
    BY <1>2, <1>4 DEF CleanBut
  <1>5. AloneLists(h)'
    <2>1. \A f \in Folders : CleanBut(acl[f], f, h)'
      BY <1>0, <1>4 DEF CleanBut
    <2>2. ASSUME NEW i \in DOMAIN helper'[h].saved
          PROVE  /\ CleanBut(helper[h].saved[i].was, helper[h].saved[i].folder, h)'
                 /\ FirstCopy(h, i)' => Clean(helper[h].saved[i].was, helper[h].saved[i].folder)'
      <3>1. CleanBut(helper[h].saved[i].was, helper[h].saved[i].folder, h)'
        BY <1>0, <1>4 DEF CleanBut
      <3>2. FirstCopy(h, i)' => Clean(helper'[h].saved[i].was, helper'[h].saved[i].folder)
        BY <1>0 DEF FirstCopy
      <3>3. FirstCopy(h, i)' => Clean(helper[h].saved[i].was, helper[h].saved[i].folder)'
        BY <1>3, <3>2 DEF Clean
      <3> QED
        BY <3>1, <3>3
    <2> QED
      BY <1>0, <2>1, <2>2 DEF AloneLists
  <1>6. ASSUME NEW f \in Folders, (\A k \in Helpers : HelperActive(k) => \A i \in DOMAIN helper[k].saved : helper[k].saved[i].folder # f)'
        PROVE  Clean(acl[f], f)'
    <2>1. \A i \in DOMAIN helper'[h].saved : helper'[h].saved[i].folder # f
      BY <1>0, <1>6 DEF HelperActive, KeepsProfile
    <2>2. Clean(acl'[f], f)
      BY <1>0, <2>1
    <2> QED
      BY <1>3, <2>2 DEF Clean
  <1>7. \A k \in boxes' : HelperActive(k)' /\ helper'[k].pc # "container"
    BY <1>0 DEF HelperActive
  <1>8. \A k \in exempted' : HelperActive(k)' /\ helper'[k].exempt /\ helper'[k].pc # "dropContainer"
    BY <1>0 DEF HelperActive
  <1> QED
    BY <1>0, <1>1, <1>5, <1>6, <1>7, <1>8

(***************************************************************************)
(* The invariant is what the run checks, and more.                         *)
(***************************************************************************)
\* A grant is of a folder that the profile lists for that access.
LEMMA GrantsOf ==
  ASSUME NEW p \in Profiles
  PROVE  /\ Len(FilesystemGrants(p)) \in Nat /\ DOMAIN FilesystemGrants(p) = 1..Len(FilesystemGrants(p))
         /\ \A i \in DOMAIN FilesystemGrants(p) :
               /\ FilesystemGrants(p)[i] \in Folders \X {"read", "write"}
               /\ FilesystemGrants(p)[i][1] \in Range(IF FilesystemGrants(p)[i][2] = "write" THEN p.writes ELSE p.reads)
  <1>1. p.reads \in Seq(Folders) /\ p.writes \in Seq(Folders)
    BY SandboxAssumption
  <1>2. PICK k \in Nat : k = Len(p.reads)
    BY <1>1
  <1>3. PICK m \in Nat : m = Len(p.writes)
    BY <1>1
  <1>4. /\ \A i \in 1..k : i \in DOMAIN p.reads /\ p.reads[i] \in Folders
        /\ \A i \in 1..m : i \in DOMAIN p.writes /\ p.writes[i] \in Folders
    BY <1>1, <1>2, <1>3
  <1>5. FilesystemGrants(p) = [i \in 1..(k + m) |-> IF i <= k THEN <<p.reads[i], "read">> ELSE <<p.writes[i - k], "write">>]
    BY <1>2, <1>3 DEF FilesystemGrants
  <1>6. PICK grants : grants = FilesystemGrants(p)
    OBVIOUS
  <1>7. DOMAIN grants = 1..(k + m)
    BY <1>5, <1>6
  <1>8. ASSUME NEW i \in 1..(k + m)
        PROVE  grants[i] \in Folders \X {"read", "write"} /\ grants[i][1] \in Range(IF grants[i][2] = "write" THEN p.writes ELSE p.reads)
    <2>1. CASE i <= k
      <3>1. grants[i] = <<p.reads[i], "read">>
        BY <1>5, <1>6, <2>1
      <3>2. i \in 1..k
        BY <2>1
      <3>3. i \in DOMAIN p.reads /\ p.reads[i] \in Folders
        BY <1>4, <3>2
      <3> QED
        BY <3>1, <3>3 DEF Range
    <2>2. CASE ~(i <= k)
      <3>1. grants[i] = <<p.writes[i - k], "write">>
        BY <1>5, <1>6, <2>2
      <3>2. i - k \in 1..m
        BY <2>2
      <3>3. i - k \in DOMAIN p.writes /\ p.writes[i - k] \in Folders
        BY <1>4, <3>2
      <3> QED
        BY <3>1, <3>3 DEF Range
    <2> QED
      BY <2>1, <2>2
  <1>9. grants \in [1..(k + m) -> Folders \X {"read", "write"}]
    <2>1. grants = [i \in 1..(k + m) |-> grants[i]]
      BY <1>5, <1>6
    <2> QED
      BY <1>8, <2>1
  <1>10. k + m \in Nat
    OBVIOUS
  <1>11. Len(grants) = k + m
    BY <1>7, <1>9, <1>10
  <1> QED
    BY <1>6, <1>7, <1>8, <1>10, <1>11

\* A destination that passes the filters of an allowlist is one an entry of it names.
LEMMA FiltersConfine ==
  ASSUME NEW p \in Profiles, NEW d \in Destinations, d.family # "loop", NEW filters,
         NetworkCapability(p) = "destinationAllowlist", FilteredBy(p, filters), Passes(filters, d)
  PROVE  Wanted(p, d)
  <1>1. d.family \in {"v4", "v6"} /\ d.addr \in Nat /\ d.port \in Nat
    BY SandboxAssumption
  <1>2. p.policy \in {"off", "loopback", "open", "allowlist"} /\ p.entries \subseteq AllowEntries
    BY SandboxAssumption
  <1>3. p.policy = "allowlist"
    BY <1>2 DEF NetworkCapability
  <1> DEFINE permits == UNION {PermitFilters(r) : r \in ParseAllowlist(p)}
  <1>0. NoRule \notin ParseAllowlist(p) /\ filters = permits \cup {BlockAll("v4"), BlockAll("v6")}
    <2>1. NoRule \notin ParseAllowlist(p)
      BY Zenon DEF FilteredBy
    <2>2. filters = permits \cup {BlockAll("v4"), BlockAll("v6")}
      BY Zenon DEF FilteredBy
    <2> QED
      BY <2>1, <2>2
  <1> HIDE DEF permits
  <1>4. BlockAll(d.family) \in filters
    BY <1>0, <1>1
  <1>5. PICK x \in filters : Permits(x, d)
    BY <1>4 DEF Passes, BlockAll
  <1>6. x.prefix >= 0 /\ x.family = d.family /\ (x.port # 0 => x.port = d.port) /\ SamePrefix(x.addr, d.addr, x.prefix)
    BY <1>5 DEF Permits
  <1>7. x \notin {BlockAll("v4"), BlockAll("v6")}
    BY <1>6 DEF BlockAll
  <1>8. PICK e \in p.entries : x \in PermitFilters(ParseAllowRule(e)) /\ ParseAllowRule(e) # NoRule
    <2>1. x \in permits
      BY <1>0, <1>7
    <2>2. PICK r \in ParseAllowlist(p) : x \in PermitFilters(r)
      BY <2>1 DEF permits
    <2>3. PICK e \in p.entries : r = ParseAllowRule(e)
      BY DEF ParseAllowlist
    <2> QED
      BY <1>0, <2>2, <2>3
  <1>9. /\ e.form \in {"host", "hostPort", "bracketed", "bracketedPort", "port"} /\ e.host \in {"v4", "v6", "name", "none"}
        /\ e.addr \in Nat /\ e.prefix \in Nat \cup {-1} /\ e.port \in Nat
    BY <1>2 DEF AllowEntries
  <1>10. CASE e.form = "port"
    <2>1. ParseAllowRule(e) = [family |-> "any", addr |-> 0, prefix |-> 0, port |-> e.port] /\ e.port > 0
      BY <1>8, <1>9, <1>10 DEF ParseAllowRule, PortGiven
    <2>2. x.port = e.port
      BY <1>8, <2>1 DEF PermitFilters
    <2> QED
      BY <1>3, <1>6, <1>9, <1>10, <2>1, <2>2 DEF Wanted
  <1>11. CASE e.form # "port"
    <2>1. ParseAllowRule(e) = SplitAddressPort(e)
      BY <1>11 DEF ParseAllowRule
    <2> DEFINE withPort == e.form = "bracketedPort" \/ (e.form = "hostPort" /\ e.host # "v6")
    <2>2. PICK port \in Nat : ParseAllowRule(e) = ParseCidr(e, port) /\ (withPort => port = e.port /\ port > 0)
      BY <1>8, <1>9, <2>1 DEF SplitAddressPort, PortGiven
    <2>3. ParseAllowRule(e) = [family |-> e.host, addr |-> e.addr, prefix |-> ParsePrefix(e.prefix), port |-> port] /\ e.host # "name"
      BY <1>8, <2>2 DEF ParseCidr
    <2>4. x.family = e.host /\ x.addr = e.addr /\ x.prefix = ParsePrefix(e.prefix) /\ x.port = port
      BY <1>8, <1>9, <2>3 DEF PermitFilters
    <2>5. IF e.prefix = -1 THEN e.addr = d.addr ELSE SamePrefix(e.addr, d.addr, e.prefix)
      <3>1. CASE e.prefix # -1
        BY <1>6, <2>4, <3>1 DEF ParsePrefix
      <3>2. CASE e.prefix = -1
        <4>1. SamePrefix(e.addr, d.addr, AddressBits)
          BY <1>6, <2>4, <3>2 DEF ParsePrefix
        <4>2. AddressBits - AddressBits = 0
          BY SandboxAssumption
        <4>3. e.addr \div 2^0 = d.addr \div 2^0
          BY <4>1, <4>2 DEF SamePrefix
        <4>4. 2^0 = 1
          OBVIOUS
        <4>5. e.addr \div 1 = e.addr /\ d.addr \div 1 = d.addr
          BY <1>1, <1>9
        <4> QED
          BY <3>2, <4>3, <4>4, <4>5
      <3> QED
        BY <3>1, <3>2
    <2>6. withPort => e.port = d.port
      BY <1>6, <2>2, <2>4
    <2> QED
      BY <1>3, <1>6, <1>11, <2>4, <2>5, <2>6 DEF Wanted
  <1> QED
    BY <1>10, <1>11

LEMMA SandboxInvariantIsSound == SandboxInvariant => WindowsSound
  <1> SUFFICES ASSUME SandboxInvariant
               PROVE  WindowsSound
    OBVIOUS
  <1>1. SandboxTyped /\ ListsEntitled /\ Alone /\ \A h \in Helpers : Staged(h) /\ helper[h].profile \in Profiles
    BY HelperTyped DEF SandboxInvariant
  <1>2. ASSUME NEW h \in Helpers, BoxRuns(h)
        PROVE  /\ HelperActive(h) /\ boxed[h].inJob /\ h \in boxes /\ helper[h].token
               /\ \A d \in Reaches(h) : Wanted(helper[h].profile, d)
               /\ \A f \in Folders : /\ <<h, "write">> \in acl[f] => f \in Range(helper[h].profile.writes)
                                     /\ <<h, "read">> \in acl[f] => f \in Range(helper[h].profile.reads)
    <2>1. HelperActive(h) /\ boxed[h].inJob /\ h \in boxes /\ helper[h].token /\ Filtered(h)
      BY <1>1, <1>2 DEF Staged, HelperActive
    <2>2. ASSUME NEW d \in Reaches(h)
          PROVE  Wanted(helper[h].profile, d)
      <3>1. d \in Destinations /\ (IF d.family = "loop" THEN h \in exempted ELSE boxed[h].net /\ Passes(wfp[h], d))
        BY DEF Reaches
      <3>2. helper[h].profile \in Profiles /\ helper[h].profile.policy \in {"off", "loopback", "open", "allowlist"}
        BY <1>1, SandboxAssumption
      <3>3. CASE d.family = "loop"
        <4>1. helper[h].profile.policy = "loopback"
          BY <1>1, <3>1, <3>3 DEF ListsEntitled, Exemptible
        <4> QED
          BY <3>3, <4>1 DEF Wanted
      <3>4. CASE d.family # "loop"
        <4>1. NetworkCapability(helper[h].profile) \in {"internetClient", "destinationAllowlist"} /\ Passes(wfp[h], d)
          BY <1>1, <3>1, <3>4 DEF Staged, InternetClient
        <4>2. CASE NetworkCapability(helper[h].profile) = "internetClient"
          <5>1. helper[h].profile.policy = "open"
            BY <3>2, <4>2 DEF NetworkCapability
          <5> QED
            BY <3>4, <5>1 DEF Wanted
        <4>3. CASE NetworkCapability(helper[h].profile) = "destinationAllowlist"
          BY <2>1, <3>1, <3>2, <3>4, <4>1, <4>3, FiltersConfine DEF Filtered
        <4> QED
          BY <4>1, <4>2, <4>3
      <3> QED
        BY <3>3, <3>4
    <2>3. ASSUME NEW f \in Folders
          PROVE  /\ <<h, "write">> \in acl[f] => f \in Range(helper[h].profile.writes)
                 /\ <<h, "read">> \in acl[f] => f \in Range(helper[h].profile.reads)
      <3>1. Entitled(acl[f], f)
        BY <1>1 DEF ListsEntitled
      <3>2. ASSUME <<h, "write">> \in acl[f]
            PROVE  f \in Range(helper[h].profile.writes)
        BY <3>1, <3>2 DEF Entitled
      <3>3. ASSUME <<h, "read">> \in acl[f]
            PROVE  f \in Range(helper[h].profile.reads)
        BY <3>1, <3>3 DEF Entitled
      <3> QED
        BY <3>2, <3>3
    <2> QED
      BY <2>1, <2>2, <2>3
  <1>3. Confined
    BY <1>2 DEF Confined
  <1>4. RestoredAlone
    <2> SUFFICES ASSUME ~disturbed, \A h \in Helpers : ~HelperActive(h)
                 PROVE  /\ exempted = {} /\ boxes = {}
                        /\ \A f \in Folders : \A x \in acl[f] : x[1] \in Helpers =>
                             helper[x[1]].forward /\ ListedTwice(helper[x[1]].profile, f)
      BY DEF RestoredAlone
    <2>1. exempted = {} /\ boxes = {}
      BY <1>1 DEF Alone, SandboxTyped
    <2>2. \A f \in Folders : Clean(acl[f], f)
      BY <1>1 DEF Alone
    <2> QED
      BY <2>1, <2>2 DEF Clean, Excused
  <1> QED
    BY <1>3, <1>4 DEF WindowsSound

\* Nobody has started.
LEMMA SandboxInitially == SandboxInit => SandboxInvariant
  <1> SUFFICES ASSUME SandboxInit
               PROVE  SandboxInvariant
    OBVIOUS
  <1>1. IdleHelper \in HelperRecords /\ IdleHelper.pc = "idle" /\ IdleHelper.saved = <<>> /\ IdleHelper.loopBefore = {}
        /\ ~IdleHelper.exempt
    <2>1. (CHOOSE p \in Profiles : TRUE) \in Profiles
      BY SandboxAssumption
    <2>2. <<>> \in Seq(Restorations)
      OBVIOUS
    <2> QED
      BY <2>1, <2>2 DEF IdleHelper, HelperRecords, HelperStages
  <1>2. NotBoxed \in BoxRecords /\ NotBoxed.life = "none" /\ ~NotBoxed.children /\ ~NotBoxed.net
    BY DEF NotBoxed, BoxRecords
  <1>3. \A h \in Helpers : helper[h] = IdleHelper /\ boxed[h] = NotBoxed
    BY DEF SandboxInit
  <1>4. SandboxTyped
    <2>1. helper \in [Helpers -> HelperRecords] /\ boxed \in [Helpers -> BoxRecords]
      BY <1>1, <1>2 DEF SandboxInit
    <2>2. acl \in [Folders -> SUBSET AccessEntries]
      <3>1. <<"user", "write">> \in AccessEntries
        BY DEF AccessEntries
      <3> QED
        BY <3>1 DEF SandboxInit
    <2> QED
      BY <2>1, <2>2 DEF SandboxInit, SandboxTyped
  <1>5. \A f \in Folders : \A x \in acl[f] : x[1] \notin Helpers
    BY SandboxAssumption DEF SandboxInit
  <1>6. ListsEntitled
    BY <1>1, <1>3, <1>5 DEF ListsEntitled, Entitled, Exemptible, SandboxInit
  <1>7. Alone
    <2>1. \A h \in Helpers : ~HelperActive(h)
      BY <1>1, <1>3 DEF HelperActive
    <2> QED
      BY <1>5, <2>1 DEF Alone, Clean, SandboxInit
  <1>8. \A h \in Helpers : Staged(h) /\ Saved(h)
    BY <1>1, <1>2, <1>3 DEF Staged, Saved, BoxRuns, AfterRules
  <1> QED
    BY <1>4, <1>6, <1>7, <1>8 DEF SandboxInvariant

(***************************************************************************)
(* Steps that leave the lists of the host and their copies alone.          *)
(***************************************************************************)
LEMMA CalmKeeps ==
  ASSUME SandboxInvariant, NEW h \in Helpers, NEW r \in HelperRecords, Becomes(h, r), HelperActive(h),
         r.pc \notin {"idle", "gone", "container", "network", "exempt", "granting", "dropContainer"},
         r.pc \in {"grant", "dropNetwork"} => r.saved = <<>>,
         r.profile = helper[h].profile, r.saved = helper[h].saved, helper[h].forward => r.forward,
         r.loopBefore = helper[h].loopBefore, r.exempt = helper[h].exempt,
         UNCHANGED <<acl, exempted, boxes, disturbed>>,
         boxed' \in [Helpers -> BoxRecords], DOMAIN wfp' = Helpers,
         \A g \in Helpers \ {h} : boxed'[g] = boxed[g] /\ wfp'[g] = wfp[g],
         Staged(h)'
  PROVE  SandboxInvariant'
  <1>1. SandboxTyped /\ ListsEntitled /\ Alone /\ Saved(h) /\ r.forward \in BOOLEAN
    BY DEF SandboxInvariant, HelperRecords
  <1>2. SandboxTyped' /\ helper'[h] = r /\ \A g \in Helpers \ {h} : helper'[g] = helper[g]
    BY <1>1 DEF SandboxTyped, Becomes
  <1>3. KeepsProfile(h)
    BY <1>1, <1>2 DEF KeepsProfile, HelperActive
  <1>4. Saved(h)'
    <2>1. \A i \in DOMAIN <<>> : FALSE
      OBVIOUS
    <2>2. r.pc = "grant" => Len(r.saved) = 0
      OBVIOUS
    <2>3. r.pc = "grant" => Len(FilesystemGrants(r.profile)) \in Nat
      BY GrantsOf DEF HelperRecords
    <2> QED
      BY <1>1, <1>2, <2>1, <2>2, <2>3 DEF Saved
  <1>5. \A g \in Helpers : Staged(g)' /\ Saved(g)'
    BY <1>2, <1>4, CommandsKeep
  <1>6. ListsEntitled'
    <2>1. \A f \in Folders : Entitled(acl'[f], f)
      BY <1>1 DEF ListsEntitled
    <2>2. \A i \in DOMAIN helper'[h].saved : Entitled(helper'[h].saved[i].was, helper'[h].saved[i].folder)
      BY <1>1, <1>2 DEF ListsEntitled
    <2>3. Exemptible(exempted') /\ Exemptible(helper'[h].loopBefore)
      BY <1>1, <1>2 DEF ListsEntitled
    <2>4. exempted' \subseteq Helpers /\ helper'[h].loopBefore \subseteq Helpers /\ \A g \in Helpers : helper[g].loopBefore \subseteq Helpers
      BY <1>1, <1>2, HelperTyped DEF SandboxTyped
    <2> QED
      BY <1>1, <1>2, <1>3, <2>1, <2>2, <2>3, <2>4, ListsKeep
  <1>7. Alone'
    <2>1. disturbed \in BOOLEAN /\ (~disturbed' => ~disturbed)
      BY <1>1 DEF SandboxTyped
    <2>2. ASSUME ~disturbed
          PROVE  /\ \A g \in boxes' : g = h /\ helper'[h].pc \notin {"idle", "gone", "container"}
                 /\ \A g \in exempted' : g = h /\ helper'[h].pc \notin {"idle", "gone", "dropContainer"} /\ helper'[h].exempt
                 /\ AloneRest(h)'
                 /\ \A f \in Folders : CleanBut(acl'[f], f, h)
                 /\ \A f \in Folders : (\A i \in DOMAIN helper'[h].saved : helper'[h].saved[i].folder # f) => Clean(acl'[f], f)
      <3>1. AloneLists(h) /\ AloneRest(h) /\ (\A g \in Helpers : HelperActive(g) => g = h) /\ boxes \subseteq Helpers /\ exempted \subseteq Helpers
        BY <1>1, <2>2 DEF Alone, SandboxTyped
      <3>2. \A g \in boxes' : g = h
        BY <1>1, <2>2, <3>1 DEF Alone
      <3>3. \A g \in exempted' : g = h /\ helper[h].exempt
        BY <1>1, <2>2, <3>1 DEF Alone
      <3>4. AloneRest(h)'
        BY <1>2, <3>1 DEF AloneRest
      <3>5. \A f \in Folders : CleanBut(acl'[f], f, h)
        BY <3>1 DEF AloneLists
      <3>6. ASSUME NEW f \in Folders, \A i \in DOMAIN helper'[h].saved : helper'[h].saved[i].folder # f
            PROVE  Clean(acl'[f], f)
        BY <1>1, <1>2, <2>2, <3>1, <3>6 DEF Alone
      <3> QED
        BY <1>2, <3>2, <3>3, <3>4, <3>5, <3>6
    <2>3. ASSUME ~disturbed, NEW i \in DOMAIN helper'[h].saved
          PROVE  LET s == helper'[h].saved[i] IN
                 /\ CleanBut(s.was, s.folder, h)
                 /\ (\A j \in 1..(i - 1) : helper'[h].saved[j].folder # s.folder) => Clean(s.was, s.folder)
      <3>1. AloneLists(h)
        BY <1>1, <2>3 DEF Alone
      <3> QED
        BY <1>2, <2>3, <3>1 DEF AloneLists, FirstCopy
    <2> QED
      BY <1>1, <1>2, <1>3, <2>1, <2>2, <2>3, AloneKeeps
  <1> QED
    BY <1>2, <1>5, <1>6, <1>7 DEF SandboxInvariant

(***************************************************************************)
(* The steps, one by one.                                                  *)
(***************************************************************************)
\* What a step may use.
LEMMA AtHelper ==
  ASSUME SandboxInvariant, NEW h \in Helpers
  PROVE  /\ SandboxTyped /\ ListsEntitled /\ Alone /\ Staged(h) /\ Saved(h)
         /\ helper[h] \in HelperRecords /\ helper[h].profile \in Profiles /\ helper[h].saved \in Seq(Restorations)
         /\ boxed[h] \in BoxRecords
  BY HelperTyped DEF SandboxInvariant, SandboxTyped

\* A helper that fails has nothing more running than before.
LEMMA FailureKeeps ==
  ASSUME SandboxInvariant, NEW h \in Helpers, HelperActive(h), HelperFails(h), UNCHANGED <<hostState, boxed, disturbed>>
  PROVE  SandboxInvariant'
  <1>1. SandboxTyped /\ Staged(h) /\ Goto(h, "dropJob") /\ UNCHANGED <<acl, exempted, boxes, wfp, boxed, disturbed>>
    BY AtHelper DEF HelperFails, hostState
  <1>2. PICK r \in HelperRecords :
            /\ Becomes(h, r) /\ r.pc = "dropJob" /\ r.profile = helper[h].profile /\ r.saved = helper[h].saved /\ r.forward = helper[h].forward
            /\ r.loopBefore = helper[h].loopBefore /\ r.exempt = helper[h].exempt /\ r.job = helper[h].job /\ r.token = helper[h].token
    BY <1>1, GoesTo DEF HelperStages, AfterRules
  <1>3. Staged(h)'
    BY <1>1, <1>2 DEF Staged, Filtered, BoxRuns, AfterRules, Becomes
  <1>4. boxed' \in [Helpers -> BoxRecords] /\ DOMAIN wfp' = Helpers /\ \A g \in Helpers : boxed'[g] = boxed[g] /\ wfp'[g] = wfp[g]
    BY <1>1 DEF SandboxTyped
  <1> QED
    BY <1>1, <1>2, <1>3, <1>4, CalmKeeps

\* A helper whose profile asks for no filters has none to wait for.
LEMMA NoNetworkKeeps ==
  ASSUME SandboxInvariant, NEW h \in Helpers, NoNetwork(h)
  PROVE  SandboxInvariant'
  <1>1. /\ SandboxTyped /\ Staged(h) /\ Saved(h) /\ Goto(h, "grant") /\ UNCHANGED <<acl, exempted, boxes, wfp, boxed, disturbed>>
        /\ helper[h].pc = "network" /\ NetworkCapability(helper[h].profile) \in {"defaultDeny", "internetClient"}
    BY AtHelper DEF NoNetwork, hostState, HelperAt
  <1>2. PICK r \in HelperRecords :
            /\ Becomes(h, r) /\ r.pc = "grant" /\ r.profile = helper[h].profile /\ r.saved = helper[h].saved /\ r.forward = helper[h].forward
            /\ r.loopBefore = helper[h].loopBefore /\ r.exempt = helper[h].exempt /\ r.job = helper[h].job /\ r.token = helper[h].token
    BY <1>1, GoesTo DEF HelperStages, AfterRules
  <1>3. Staged(h)'
    BY <1>1, <1>2 DEF Staged, Filtered, FilteredBy, BoxRuns, AfterRules, Becomes
  <1>4. boxed' \in [Helpers -> BoxRecords] /\ DOMAIN wfp' = Helpers /\ \A g \in Helpers : boxed'[g] = boxed[g] /\ wfp'[g] = wfp[g]
    BY <1>1 DEF SandboxTyped
  <1>5. HelperActive(h) /\ helper[h].saved = <<>>
    BY <1>1 DEF HelperActive, Saved
  <1> QED
    BY <1>1, <1>2, <1>3, <1>4, <1>5, CalmKeeps

\* The filters are those of the allowlist, or there are none.
LEMMA ApplyFiltersKeeps ==
  ASSUME SandboxInvariant, NEW h \in Helpers, ApplyFilters(h)
  PROVE  SandboxInvariant'
  <1> DEFINE rules == ParseAllowlist(helper[h].profile)
             filters == (UNION {PermitFilters(r) : r \in rules}) \cup {BlockAll("v4"), BlockAll("v6")}
  <1>0. /\ SandboxTyped /\ Staged(h) /\ Saved(h) /\ UNCHANGED <<acl, exempted, boxes, boxed, disturbed>> /\ helper[h].pc = "network"
        /\ HelperActive(h) /\ helper[h].saved = <<>>
    BY AtHelper DEF ApplyFilters, HelperAt, HelperActive, Saved
  <1>a. CASE NoRule \notin rules /\ Goto(h, "grant") /\ wfp' = [wfp EXCEPT ![h] = filters]
    <2>1. PICK r \in HelperRecords :
              /\ Becomes(h, r) /\ r.pc = "grant" /\ r.profile = helper[h].profile /\ r.saved = helper[h].saved /\ r.forward = helper[h].forward
              /\ r.loopBefore = helper[h].loopBefore /\ r.exempt = helper[h].exempt /\ r.job = helper[h].job /\ r.token = helper[h].token
      BY <1>0, <1>a, GoesTo DEF HelperStages, AfterRules
    <2>2. wfp'[h] = filters
      BY <1>0, <1>a DEF SandboxTyped
    <2>3. FilteredBy(helper[h].profile, wfp'[h])
      BY <1>a, <2>2 DEF FilteredBy
    <2>4. Staged(h)'
      BY <1>0, <2>1, <2>3 DEF Staged, Filtered, BoxRuns, AfterRules, Becomes
    <2>5. boxed' \in [Helpers -> BoxRecords] /\ DOMAIN wfp' = Helpers /\ \A g \in Helpers \ {h} : boxed'[g] = boxed[g] /\ wfp'[g] = wfp[g]
      BY <1>0, <1>a DEF SandboxTyped
    <2> HIDE DEF filters, rules
    <2> QED
      BY <1>0, <2>1, <2>4, <2>5, CalmKeeps
  <1>b. CASE HelperFails(h) /\ UNCHANGED wfp
    BY <1>0, <1>b, FailureKeeps DEF hostState
  <1> QED
    BY <1>a, <1>b DEF ApplyFilters

\* The token is there before the job.
LEMMA CreateTokenKeeps ==
  ASSUME SandboxInvariant, NEW h \in Helpers, CreateToken(h)
  PROVE  SandboxInvariant'
  <1>0. /\ SandboxTyped /\ Staged(h) /\ UNCHANGED <<acl, exempted, boxes, wfp, boxed, disturbed>> /\ helper[h].pc = "token" /\ HelperActive(h)
    BY AtHelper DEF CreateToken, hostState, HelperAt, HelperActive
  <1>a. CASE helper' = [helper EXCEPT ![h].pc = "job", ![h].token = TRUE]
    <2>0. "job" \in HelperStages
      BY DEF HelperStages, AfterRules
    <2>1. PICK r \in HelperRecords :
              /\ Becomes(h, r) /\ r.pc = "job" /\ r.profile = helper[h].profile /\ r.saved = helper[h].saved /\ r.forward = helper[h].forward
              /\ r.loopBefore = helper[h].loopBefore /\ r.exempt = helper[h].exempt /\ r.job = helper[h].job /\ r.token = TRUE
      BY <1>0, <1>a, <2>0, SetsToken
    <2>2. Staged(h)'
      BY <1>0, <2>1 DEF Staged, Filtered, BoxRuns, AfterRules, Becomes
    <2>3. boxed' \in [Helpers -> BoxRecords] /\ DOMAIN wfp' = Helpers /\ \A g \in Helpers : boxed'[g] = boxed[g] /\ wfp'[g] = wfp[g]
      BY <1>0 DEF SandboxTyped
    <2> QED
      BY <1>0, <2>1, <2>2, <2>3, CalmKeeps
  <1>b. CASE HelperFails(h)
    BY <1>0, <1>b, FailureKeeps DEF hostState
  <1> QED
    BY <1>a, <1>b DEF CreateToken

\* The job is there before the command.
LEMMA CreateJobKeeps ==
  ASSUME SandboxInvariant, NEW h \in Helpers, CreateJob(h)
  PROVE  SandboxInvariant'
  <1>0. /\ SandboxTyped /\ Staged(h) /\ UNCHANGED <<acl, exempted, boxes, wfp, boxed, disturbed>> /\ helper[h].pc = "job" /\ HelperActive(h)
    BY AtHelper DEF CreateJob, hostState, HelperAt, HelperActive
  <1>a. CASE helper' = [helper EXCEPT ![h].pc = "spawn", ![h].job = TRUE]
    <2>0. "spawn" \in HelperStages
      BY DEF HelperStages, AfterRules
    <2>1. PICK r \in HelperRecords :
              /\ Becomes(h, r) /\ r.pc = "spawn" /\ r.profile = helper[h].profile /\ r.saved = helper[h].saved /\ r.forward = helper[h].forward
              /\ r.loopBefore = helper[h].loopBefore /\ r.exempt = helper[h].exempt /\ r.job = TRUE /\ r.token = helper[h].token
      BY <1>0, <1>a, <2>0, SetsJob
    <2>2. Staged(h)'
      BY <1>0, <2>1 DEF Staged, Filtered, BoxRuns, AfterRules, Becomes
    <2>3. boxed' \in [Helpers -> BoxRecords] /\ DOMAIN wfp' = Helpers /\ \A g \in Helpers : boxed'[g] = boxed[g] /\ wfp'[g] = wfp[g]
      BY <1>0 DEF SandboxTyped
    <2> QED
      BY <1>0, <2>1, <2>2, <2>3, CalmKeeps
  <1>b. CASE HelperFails(h)
    BY <1>0, <1>b, FailureKeeps DEF hostState
  <1> QED
    BY <1>a, <1>b DEF CreateJob

\* The command is suspended, and has the network of its profile.
LEMMA SpawnSuspendedKeeps ==
  ASSUME SandboxInvariant, NEW h \in Helpers, SpawnSuspended(h)
  PROVE  SandboxInvariant'
  <1>0. /\ SandboxTyped /\ Staged(h) /\ boxed[h] \in BoxRecords /\ UNCHANGED <<acl, exempted, boxes, wfp, disturbed>>
        /\ helper[h].pc = "spawn" /\ HelperActive(h)
    BY AtHelper DEF SpawnSuspended, hostState, HelperAt, HelperActive
  <1>a. CASE boxed' = [boxed EXCEPT ![h] = [NotBoxed EXCEPT !.life = "suspended", !.net = InternetClient(helper[h].profile)]] /\ Goto(h, "assign")
    <2>1. PICK r \in HelperRecords :
              /\ Becomes(h, r) /\ r.pc = "assign" /\ r.profile = helper[h].profile /\ r.saved = helper[h].saved /\ r.forward = helper[h].forward
              /\ r.loopBefore = helper[h].loopBefore /\ r.exempt = helper[h].exempt /\ r.job = helper[h].job /\ r.token = helper[h].token
      BY <1>0, <1>a, GoesTo DEF HelperStages, AfterRules
    <2>2. InternetClient(helper[h].profile) \in BOOLEAN
      BY SMT DEF InternetClient
    <2>3. PICK net \in BOOLEAN : net = InternetClient(helper[h].profile)
      BY <2>2
    <2>4. PICK b \in BoxRecords : b = [NotBoxed EXCEPT !.life = "suspended", !.net = net]
      BY DEF NotBoxed, BoxRecords
    <2>5. b.life = "suspended" /\ ~b.children /\ b.net = net
      BY <2>4 DEF NotBoxed
    <2>6. boxed' = [boxed EXCEPT ![h] = b]
      BY <1>a, <2>3, <2>4
    <2>7. /\ boxed'[h] \in BoxRecords /\ boxed' \in [Helpers -> BoxRecords] /\ boxed'[h].life = "suspended" /\ ~boxed'[h].children
          /\ boxed'[h].net = InternetClient(helper[h].profile)
      BY <1>0, <2>3, <2>5, <2>6 DEF SandboxTyped, BoxRecords
    <2>8. Staged(h)'
      BY <1>0, <2>1, <2>7 DEF Staged, Filtered, BoxRuns, AfterRules, Becomes
    <2>9. DOMAIN wfp' = Helpers /\ \A g \in Helpers \ {h} : boxed'[g] = boxed[g] /\ wfp'[g] = wfp[g]
      BY <1>0, <1>a DEF SandboxTyped
    <2> QED
      BY <1>0, <2>1, <2>7, <2>8, <2>9, CalmKeeps
  <1>b. CASE UNCHANGED boxed /\ HelperFails(h)
    BY <1>0, <1>b, FailureKeeps DEF hostState
  <1> QED
    BY <1>a, <1>b DEF SpawnSuspended

\* The command is in the job, still suspended.
LEMMA AssignToJobKeeps ==
  ASSUME SandboxInvariant, NEW h \in Helpers, AssignToJob(h)
  PROVE  SandboxInvariant'
  <1>0. /\ SandboxTyped /\ Staged(h) /\ boxed[h] \in BoxRecords /\ UNCHANGED <<acl, exempted, boxes, wfp, disturbed>>
        /\ helper[h].pc = "assign" /\ HelperActive(h)
    BY AtHelper DEF AssignToJob, hostState, HelperAt, HelperActive
  <1>a. CASE boxed' = [boxed EXCEPT ![h].inJob = TRUE] /\ Goto(h, "resume")
    <2>1. PICK r \in HelperRecords :
              /\ Becomes(h, r) /\ r.pc = "resume" /\ r.profile = helper[h].profile /\ r.saved = helper[h].saved /\ r.forward = helper[h].forward
              /\ r.loopBefore = helper[h].loopBefore /\ r.exempt = helper[h].exempt /\ r.job = helper[h].job /\ r.token = helper[h].token
      BY <1>0, <1>a, GoesTo DEF HelperStages, AfterRules
    <2>2. boxed'[h] \in BoxRecords /\ boxed' \in [Helpers -> BoxRecords] /\ boxed'[h].inJob /\ boxed'[h].life = boxed[h].life /\ boxed'[h].children = boxed[h].children /\ boxed'[h].net = boxed[h].net
      BY <1>0, <1>a DEF SandboxTyped, BoxRecords
    <2>3. Staged(h)'
      BY <1>0, <2>1, <2>2 DEF Staged, Filtered, BoxRuns, AfterRules, Becomes
    <2>4. DOMAIN wfp' = Helpers /\ \A g \in Helpers \ {h} : boxed'[g] = boxed[g] /\ wfp'[g] = wfp[g]
      BY <1>0, <1>a DEF SandboxTyped
    <2> QED
      BY <1>0, <2>1, <2>2, <2>3, <2>4, CalmKeeps
  <1>b. CASE UNCHANGED boxed /\ HelperFails(h)
    BY <1>0, <1>b, FailureKeeps DEF hostState
  <1> QED
    BY <1>a, <1>b DEF AssignToJob

\* The command runs, with all it needs made; or it ends.
LEMMA ResumeCommandKeeps ==
  ASSUME SandboxInvariant, NEW h \in Helpers, ResumeCommand(h)
  PROVE  SandboxInvariant'
  <1>0. /\ SandboxTyped /\ Staged(h) /\ boxed[h] \in BoxRecords /\ UNCHANGED <<acl, exempted, boxes, wfp, disturbed>>
        /\ helper[h].pc = "resume" /\ HelperActive(h)
    BY AtHelper DEF ResumeCommand, hostState, HelperAt, HelperActive
  <1>a. CASE boxed' = [boxed EXCEPT ![h].life = "running"] /\ Goto(h, "wait")
    <2>1. PICK r \in HelperRecords :
              /\ Becomes(h, r) /\ r.pc = "wait" /\ r.profile = helper[h].profile /\ r.saved = helper[h].saved /\ r.forward = helper[h].forward
              /\ r.loopBefore = helper[h].loopBefore /\ r.exempt = helper[h].exempt /\ r.job = helper[h].job /\ r.token = helper[h].token
      BY <1>0, <1>a, GoesTo DEF HelperStages, AfterRules
    <2>2. boxed'[h] \in BoxRecords /\ boxed' \in [Helpers -> BoxRecords] /\ boxed'[h].inJob = boxed[h].inJob /\ boxed'[h].net = boxed[h].net
      BY <1>0, <1>a DEF SandboxTyped, BoxRecords
    <2>3. Staged(h)'
      BY <1>0, <2>1, <2>2 DEF Staged, Filtered, BoxRuns, AfterRules, Becomes
    <2>4. DOMAIN wfp' = Helpers /\ \A g \in Helpers \ {h} : boxed'[g] = boxed[g] /\ wfp'[g] = wfp[g]
      BY <1>0, <1>a DEF SandboxTyped
    <2> QED
      BY <1>0, <2>1, <2>2, <2>3, <2>4, CalmKeeps
  <1>b. CASE boxed' = [boxed EXCEPT ![h].life = "ended"] /\ HelperFails(h)
    <2>1. PICK r \in HelperRecords :
              /\ Becomes(h, r) /\ r.pc = "dropJob" /\ r.profile = helper[h].profile /\ r.saved = helper[h].saved /\ r.forward = helper[h].forward
              /\ r.loopBefore = helper[h].loopBefore /\ r.exempt = helper[h].exempt /\ r.job = helper[h].job /\ r.token = helper[h].token
      BY <1>0, <1>b, GoesTo DEF HelperStages, AfterRules, HelperFails
    <2>2. boxed'[h] \in BoxRecords /\ boxed' \in [Helpers -> BoxRecords] /\ boxed'[h].life = "ended" /\ boxed'[h].inJob = boxed[h].inJob /\ boxed'[h].children = boxed[h].children /\ boxed'[h].net = boxed[h].net
      BY <1>0, <1>b DEF SandboxTyped, BoxRecords
    <2>3. Staged(h)'
      BY <1>0, <2>1, <2>2 DEF Staged, Filtered, BoxRuns, AfterRules, Becomes
    <2>4. DOMAIN wfp' = Helpers /\ \A g \in Helpers \ {h} : boxed'[g] = boxed[g] /\ wfp'[g] = wfp[g]
      BY <1>0, <1>b DEF SandboxTyped
    <2> QED
      BY <1>0, <2>1, <2>2, <2>3, <2>4, CalmKeeps
  <1> QED
    BY <1>a, <1>b DEF ResumeCommand

\* The wait ends; the command may go on until the job is closed.
LEMMA WaitedKeeps ==
  ASSUME SandboxInvariant, NEW h \in Helpers, Waited(h)
  PROVE  SandboxInvariant'
  BY FailureKeeps DEF Waited, HelperFails, HelperAt, HelperActive

\* The command starts others, or ends.
LEMMA CommandStepsKeeps ==
  ASSUME SandboxInvariant, NEW h \in Helpers, CommandSteps(h)
  PROVE  SandboxInvariant'
  <1>1. /\ SandboxTyped /\ Staged(h) /\ boxed[h] \in BoxRecords /\ helper[h] \in HelperRecords /\ BoxRuns(h)
        /\ UNCHANGED <<helper, acl, exempted, boxes, wfp, disturbed>>
    BY AtHelper DEF CommandSteps, hostState, BoxRuns
  <1>2. boxed'[h] \in BoxRecords /\ boxed' \in [Helpers -> BoxRecords] /\ boxed'[h].inJob = boxed[h].inJob /\ boxed'[h].net = boxed[h].net
    <2>1. CASE boxed' = [boxed EXCEPT ![h].children = TRUE]
      BY <1>1, <2>1 DEF SandboxTyped, BoxRecords
    <2>2. CASE boxed' = [boxed EXCEPT ![h].life = "ended"]
      BY <1>1, <2>2 DEF SandboxTyped, BoxRecords
    <2> QED
      BY <2>1, <2>2 DEF CommandSteps
  <1>3. DOMAIN wfp' = Helpers /\ \A g \in Helpers \ {h} : boxed'[g] = boxed[g] /\ wfp'[g] = wfp[g]
    BY <1>1 DEF SandboxTyped, CommandSteps
  <1>4. helper[h].pc \in {"wait", "dropJob"} /\ HelperActive(h)
    BY <1>1 DEF Staged, HelperActive
  <1>5. Staged(h)'
    BY <1>1, <1>2, <1>4 DEF Staged, Filtered, BoxRuns, AfterRules
  <1>6. Becomes(h, helper[h])
    BY <1>1 DEF Becomes, SandboxTyped
  <1> QED
    BY <1>1, <1>2, <1>3, <1>4, <1>5, <1>6, CalmKeeps

\* What is in the job ends with it, or has not begun.
LEMMA KilledTyped ==
  ASSUME NEW b \in BoxRecords
  PROVE  /\ KilledBox(b) \in BoxRecords /\ KilledBox(b).net = b.net /\ KilledBox(b).inJob = b.inJob
         /\ b.inJob => KilledBox(b).life = "ended" /\ ~KilledBox(b).children
         /\ ~b.inJob => KilledBox(b) = b
  BY DEF KilledBox, BoxRecords

LEMMA JobClosed ==
  ASSUME SandboxInvariant, NEW h \in Helpers, boxed' = (IF helper[h].job THEN [boxed EXCEPT ![h] = KilledBox(boxed[h])] ELSE boxed)
  PROVE  /\ boxed' \in [Helpers -> BoxRecords] /\ \A g \in Helpers \ {h} : boxed'[g] = boxed[g]
         /\ ~BoxRuns(h)' /\ boxed'[h].net = boxed[h].net
  <1>1. SandboxTyped /\ Staged(h) /\ boxed[h] \in BoxRecords
    BY AtHelper
  <1>2. CASE helper[h].job
    <2>1. PICK b \in BoxRecords : b = KilledBox(boxed[h])
      BY <1>1, KilledTyped
    <2>2. boxed' = [boxed EXCEPT ![h] = b]
      BY <1>2, <2>1
    <2>3. boxed' \in [Helpers -> BoxRecords] /\ boxed'[h] = b /\ \A g \in Helpers \ {h} : boxed'[g] = boxed[g]
      BY <1>1, <2>2 DEF SandboxTyped
    <2>4. b.net = boxed[h].net /\ ~(b.life = "running" \/ b.children)
      BY <1>1, <2>1, KilledTyped DEF Staged, BoxRuns
    <2> QED
      BY <2>3, <2>4 DEF BoxRuns
  <1>3. CASE ~helper[h].job
    BY <1>1, <1>3 DEF Staged, BoxRuns, SandboxTyped
  <1> QED
    BY <1>2, <1>3

LEMMA CloseJobKeeps ==
  ASSUME SandboxInvariant, NEW h \in Helpers, CloseJob(h)
  PROVE  SandboxInvariant'
  <1>1. /\ SandboxTyped /\ Staged(h) /\ UNCHANGED <<acl, exempted, boxes, wfp, disturbed>> /\ helper[h].pc = "dropJob" /\ HelperActive(h)
        /\ Goto(h, "dropFiles")
    BY AtHelper DEF CloseJob, hostState, HelperAt, HelperActive
  <1>2. PICK r \in HelperRecords :
            /\ Becomes(h, r) /\ r.pc = "dropFiles" /\ r.profile = helper[h].profile /\ r.saved = helper[h].saved /\ r.forward = helper[h].forward
            /\ r.loopBefore = helper[h].loopBefore /\ r.exempt = helper[h].exempt /\ r.job = helper[h].job /\ r.token = helper[h].token
    BY <1>1, GoesTo DEF HelperStages, AfterRules
  <1>3. /\ boxed' \in [Helpers -> BoxRecords] /\ \A g \in Helpers \ {h} : boxed'[g] = boxed[g]
        /\ ~BoxRuns(h)' /\ boxed'[h].net = boxed[h].net
    BY JobClosed DEF CloseJob
  <1>4. Staged(h)'
    BY <1>1, <1>2, <1>3 DEF Staged, AfterRules, Becomes
  <1>5. DOMAIN wfp' = Helpers /\ \A g \in Helpers \ {h} : wfp'[g] = wfp[g]
    BY <1>1 DEF SandboxTyped
  <1> QED
    BY <1>1, <1>2, <1>3, <1>4, <1>5, CalmKeeps

(***************************************************************************)
(* Steps of a helper that holds no copies.                                 *)
(***************************************************************************)
LEMMA EmptyHandedKeeps ==
  ASSUME SandboxInvariant, NEW h \in Helpers, NEW r \in HelperRecords, Becomes(h, r), HelperActive(h),
         r.pc \notin {"idle", "granting"}, helper[h].saved = <<>>, r.saved = <<>>, r.profile = helper[h].profile,
         r.forward = helper[h].forward, acl' = acl, exempted' \subseteq Helpers, Exemptible(exempted'), Exemptible(r.loopBefore),
         boxes' \subseteq boxes \cup {h}, boxes \ {h} \subseteq boxes', disturbed' \in BOOLEAN, disturbed => disturbed',
         boxed' = boxed, DOMAIN wfp' = Helpers, \A g \in Helpers \ {h} : wfp'[g] = wfp[g],
         ~disturbed' =>
           /\ h \in boxes' => r.pc \notin {"gone", "container"}
           /\ \A g \in exempted' : g = h /\ r.pc \notin {"gone", "dropContainer"} /\ r.exempt
           /\ AloneRest(h)',
         Staged(h)'
  PROVE  SandboxInvariant'
  <1>1. SandboxTyped /\ ListsEntitled /\ Alone /\ Saved(h) /\ r.forward \in BOOLEAN /\ r.loopBefore \in SUBSET Helpers
        /\ helper[h].forward \in BOOLEAN
    BY HelperTyped DEF SandboxInvariant, HelperRecords
  <1>2. SandboxTyped' /\ helper'[h] = r /\ \A g \in Helpers \ {h} : helper'[g] = helper[g]
    BY <1>1 DEF SandboxTyped, Becomes
  <1>3. KeepsProfile(h)
    BY <1>1, <1>2 DEF KeepsProfile, HelperActive
  <1>4. Saved(h)'
    <2>1. \A i \in DOMAIN <<>> : FALSE
      OBVIOUS
    <2>2. Len(r.saved) = 0
      OBVIOUS
    <2>3. Len(FilesystemGrants(r.profile)) \in Nat
      BY GrantsOf DEF HelperRecords
    <2> QED
      BY <1>1, <1>2, <2>1, <2>2, <2>3 DEF Saved
  <1>5. \A g \in Helpers : Staged(g)' /\ Saved(g)'
    BY <1>2, <1>4, CommandsKeep
  <1>6. ListsEntitled'
    <2>1. \A f \in Folders : Entitled(acl'[f], f)
      BY <1>1 DEF ListsEntitled
    <2>2. \A i \in DOMAIN helper'[h].saved : Entitled(helper'[h].saved[i].was, helper'[h].saved[i].folder)
      BY <1>2
    <2>3. helper'[h].loopBefore \subseteq Helpers /\ \A g \in Helpers : helper[g].loopBefore \subseteq Helpers
      BY <1>1, <1>2, HelperTyped
    <2> QED
      BY <1>1, <1>2, <1>3, <2>1, <2>2, <2>3, ListsKeep
  <1>7. Alone'
    <2>0. disturbed \in BOOLEAN
      BY <1>1 DEF SandboxTyped
    <2>1. CASE disturbed'
      BY <2>1 DEF Alone
    <2>2. CASE ~disturbed'
      <3>1. ~disturbed /\ AloneLists(h) /\ (\A g \in Helpers : HelperActive(g) => g = h) /\ boxes \subseteq Helpers
        BY <1>1, <2>2 DEF Alone, SandboxTyped
      <3>2. \A g \in boxes' : g = h
        BY <1>1, <3>1 DEF Alone
      <3>3. \A f \in Folders : CleanBut(acl'[f], f, h)
        BY <3>1 DEF AloneLists
      <3>4. \A f \in Folders : Clean(acl'[f], f)
        BY <1>1, <3>1 DEF Alone
      <3>5. \A i \in DOMAIN helper'[h].saved : FALSE
        BY <1>2
      <3> QED
        BY <1>1, <1>2, <1>3, <2>0, <2>2, <3>1, <3>2, <3>3, <3>4, <3>5, AloneKeeps
    <2> QED
      BY <2>0, <2>1, <2>2
  <1> QED
    BY <1>2, <1>5, <1>6, <1>7 DEF SandboxInvariant

\* A container is made by its helper alone.
LEMMA CreateContainerKeeps ==
  ASSUME SandboxInvariant, NEW h \in Helpers, CreateContainer(h)
  PROVE  SandboxInvariant'
  <1>1. /\ SandboxTyped /\ ListsEntitled /\ Alone /\ Staged(h) /\ UNCHANGED <<acl, exempted, wfp, boxed, disturbed>>
        /\ helper[h].pc = "container" /\ HelperActive(h) /\ helper[h].saved = <<>>
    BY AtHelper DEF CreateContainer, HelperAt, HelperActive, Saved
  <1>2. PICK pc \in HelperStages : pc \in {"network", "gone"} /\ Goto(h, pc) /\ boxes' = (IF pc = "network" THEN boxes \cup {h} ELSE boxes)
    BY DEF CreateContainer, HelperStages
  <1>3. PICK r \in HelperRecords :
            /\ Becomes(h, r) /\ r.pc = pc /\ r.profile = helper[h].profile /\ r.saved = helper[h].saved /\ r.forward = helper[h].forward
            /\ r.loopBefore = helper[h].loopBefore /\ r.exempt = helper[h].exempt /\ r.job = helper[h].job /\ r.token = helper[h].token
    BY <1>1, <1>2, GoesTo
  <1>4. Staged(h)'
    BY <1>1, <1>2, <1>3 DEF Staged, Filtered, BoxRuns, AfterRules, Becomes
  <1>5. Exemptible(exempted') /\ Exemptible(r.loopBefore)
    BY <1>1, <1>3 DEF ListsEntitled
  <1>6. ASSUME ~disturbed'
        PROVE  /\ h \in boxes' => r.pc \notin {"gone", "container"}
               /\ \A g \in exempted' : g = h /\ r.pc \notin {"gone", "dropContainer"} /\ r.exempt
               /\ AloneRest(h)'
    <2>1. ~disturbed /\ (\A g \in Helpers : HelperActive(g) => g = h) /\ h \notin boxes /\ ~helper[h].exempt
      BY <1>1, <1>6 DEF Alone, AloneRest
    <2>2. exempted = {}
      BY <1>1, <2>1 DEF Alone, SandboxTyped
    <2> QED
      BY <1>1, <1>2, <1>3, <2>1, <2>2 DEF AloneRest, Becomes
  <1>7. /\ exempted' \subseteq Helpers /\ disturbed' \in BOOLEAN /\ DOMAIN wfp' = Helpers
        /\ boxes' \subseteq boxes \cup {h} /\ boxes \ {h} \subseteq boxes'
    BY <1>1, <1>2 DEF SandboxTyped
  <1> QED
    BY <1>1, <1>2, <1>3, <1>4, <1>5, <1>6, <1>7, EmptyHandedKeeps

\* The exemption list is read...
LEMMA ReadExemptionsKeeps ==
  ASSUME SandboxInvariant, NEW h \in Helpers, ReadExemptions(h)
  PROVE  SandboxInvariant'
  <1>1. /\ SandboxTyped /\ ListsEntitled /\ Alone /\ Staged(h) /\ UNCHANGED <<acl, exempted, boxes, wfp, boxed, disturbed>>
        /\ helper[h].pc = "network" /\ HelperActive(h) /\ helper[h].saved = <<>> /\ NetworkCapability(helper[h].profile) = "loopback"
    BY AtHelper DEF ReadExemptions, HelperAt, HelperActive, Saved, hostState
  <1>2. PICK r \in HelperRecords :
            /\ Becomes(h, r) /\ r.pc = "exempt" /\ r.profile = helper[h].profile /\ r.saved = helper[h].saved /\ r.forward = helper[h].forward
            /\ r.loopBefore = exempted /\ r.exempt = helper[h].exempt /\ r.job = helper[h].job /\ r.token = helper[h].token
    BY <1>1, RemembersList DEF ReadExemptions
  <1>3. Staged(h)'
    BY <1>1, <1>2 DEF Staged, Filtered, BoxRuns, AfterRules, Becomes
  <1>4. Exemptible(exempted') /\ Exemptible(r.loopBefore)
    BY <1>1, <1>2 DEF ListsEntitled
  <1>5. ASSUME ~disturbed'
        PROVE  /\ h \in boxes' => r.pc \notin {"gone", "container"}
               /\ \A g \in exempted' : g = h /\ r.pc \notin {"gone", "dropContainer"} /\ r.exempt
               /\ AloneRest(h)'
    <2>1. ~disturbed /\ (\A g \in Helpers : HelperActive(g) => g = h) /\ ~helper[h].exempt
      BY <1>1, <1>5 DEF Alone, AloneRest
    <2>2. exempted = {}
      BY <1>1, <2>1 DEF Alone, SandboxTyped
    <2> QED
      BY <1>1, <1>2, <2>1, <2>2 DEF AloneRest, Becomes
  <1>6. exempted' \subseteq Helpers /\ disturbed' \in BOOLEAN /\ DOMAIN wfp' = Helpers
    BY <1>1 DEF SandboxTyped
  <1> QED
    BY <1>1, <1>2, <1>3, <1>4, <1>5, <1>6, EmptyHandedKeeps

\* ...and written with the container added.
LEMMA SetExemptionsKeeps ==
  ASSUME SandboxInvariant, NEW h \in Helpers, SetExemptions(h)
  PROVE  SandboxInvariant'
  <1>1. /\ SandboxTyped /\ ListsEntitled /\ Alone /\ Staged(h) /\ UNCHANGED <<acl, boxes, wfp, boxed, disturbed>>
        /\ helper[h].pc = "exempt" /\ HelperActive(h) /\ helper[h].saved = <<>>
    BY AtHelper DEF SetExemptions, HelperAt, HelperActive, Saved
  <1>2. "grant" \in HelperStages
    BY DEF HelperStages, AfterRules
  <1>3. CASE UNCHANGED exempted /\ HelperFails(h)
    BY <1>1, <1>3, FailureKeeps DEF hostState
  <1>4. CASE exempted' = helper[h].loopBefore \cup {h} /\ helper' = [helper EXCEPT ![h].pc = "grant", ![h].exempt = TRUE]
    <2>1. PICK r \in HelperRecords :
            /\ Becomes(h, r) /\ r.pc = "grant" /\ r.profile = helper[h].profile /\ r.saved = helper[h].saved /\ r.forward = helper[h].forward
            /\ r.loopBefore = helper[h].loopBefore /\ r.exempt = TRUE /\ r.job = helper[h].job /\ r.token = helper[h].token
      BY <1>1, <1>2, <1>4, SetsExempt
    <2>2. NetworkCapability(helper[h].profile) = "loopback" /\ h \in boxes
      BY <1>1 DEF Staged
    <2>3. helper[h].profile.policy = "loopback"
      <3>1. helper[h].profile.policy \in {"off", "loopback", "open", "allowlist"}
        BY AtHelper, SandboxAssumption
      <3> QED
        BY <2>2, <3>1 DEF NetworkCapability
    <2>4. Staged(h)'
      BY <1>1, <2>1, <2>2 DEF Staged, Filtered, FilteredBy, BoxRuns, AfterRules, Becomes
    <2>5. Exemptible(exempted') /\ Exemptible(r.loopBefore)
      BY <1>1, <1>4, <2>1, <2>3 DEF ListsEntitled, Exemptible
    <2>6. ASSUME ~disturbed'
          PROVE  /\ h \in boxes' => r.pc \notin {"gone", "container"}
                 /\ \A g \in exempted' : g = h /\ r.pc \notin {"gone", "dropContainer"} /\ r.exempt
                 /\ AloneRest(h)'
      <3>1. helper[h].loopBefore = {}
        BY <1>1, <2>6 DEF Alone, AloneRest
      <3> QED
        BY <1>4, <2>1, <3>1 DEF AloneRest, Becomes
    <2>7. exempted' \subseteq Helpers /\ disturbed' \in BOOLEAN /\ DOMAIN wfp' = Helpers
      BY <1>1, <1>4, HelperTyped DEF SandboxTyped
    <2> QED
      BY <1>1, <2>1, <2>4, <2>5, <2>6, <2>7, EmptyHandedKeeps
  <1> QED
    BY <1>3, <1>4 DEF SetExemptions

\* The exemption list is written back as it was read.
LEMMA RestoreNetworkKeeps ==
  ASSUME SandboxInvariant, NEW h \in Helpers, RestoreNetwork(h)
  PROVE  SandboxInvariant'
  <1>1. /\ SandboxTyped /\ ListsEntitled /\ Alone /\ Staged(h) /\ UNCHANGED <<acl, boxes, boxed>>
        /\ helper[h].pc = "dropNetwork" /\ HelperActive(h) /\ helper[h].saved = <<>> /\ Goto(h, "dropContainer") /\ wfp' = [wfp EXCEPT ![h] = {}]
    BY AtHelper DEF RestoreNetwork, HelperAt, HelperActive, Saved
  <1>2. "dropContainer" \in HelperStages
    BY DEF HelperStages
  <1>3. PICK r \in HelperRecords :
            /\ Becomes(h, r) /\ r.pc = "dropContainer" /\ r.profile = helper[h].profile /\ r.saved = helper[h].saved /\ r.forward = helper[h].forward
            /\ r.loopBefore = helper[h].loopBefore /\ r.exempt = helper[h].exempt /\ r.job = helper[h].job /\ r.token = helper[h].token
    BY <1>1, <1>2, GoesTo
  <1>4. Staged(h)'
    BY <1>1, <1>3 DEF Staged, BoxRuns, AfterRules, Becomes
  <1>5. /\ exempted' \in {helper[h].loopBefore, exempted} /\ (disturbed => disturbed') /\ disturbed' \in BOOLEAN
        /\ ~disturbed' => exempted' = (IF helper[h].exempt THEN helper[h].loopBefore ELSE exempted)
    BY <1>1 DEF RestoreNetwork, SandboxTyped
  <1>6. Exemptible(exempted') /\ Exemptible(r.loopBefore)
    BY <1>1, <1>3, <1>5 DEF ListsEntitled
  <1>7. ASSUME ~disturbed'
        PROVE  /\ h \in boxes' => r.pc \notin {"gone", "container"}
               /\ \A g \in exempted' : g = h /\ r.pc \notin {"gone", "dropContainer"} /\ r.exempt
               /\ AloneRest(h)'
    <2>1. ~disturbed /\ (\A g \in Helpers : HelperActive(g) => g = h) /\ AloneRest(h)
      BY <1>1, <1>5, <1>7 DEF Alone
    <2>2. exempted' = {}
      <3>1. CASE helper[h].exempt
        BY <1>5, <1>7, <2>1, <3>1 DEF AloneRest
      <3>2. CASE ~helper[h].exempt
        <4>1. exempted = {}
          BY <1>1, <2>1, <3>2 DEF Alone, SandboxTyped
        <4> QED
          BY <1>5, <1>7, <3>2, <4>1
      <3> QED
        BY <3>1, <3>2
    <2> QED
      BY <1>1, <1>3, <2>1, <2>2 DEF AloneRest, Becomes
  <1>8. exempted' \subseteq Helpers /\ DOMAIN wfp' = Helpers /\ \A g \in Helpers \ {h} : wfp'[g] = wfp[g]
    BY <1>1, <1>5, HelperTyped DEF SandboxTyped
  <1> QED
    BY <1>1, <1>3, <1>4, <1>5, <1>6, <1>7, <1>8, EmptyHandedKeeps

\* The container goes last.
LEMMA DeleteContainerKeeps ==
  ASSUME SandboxInvariant, NEW h \in Helpers, DeleteContainer(h)
  PROVE  SandboxInvariant'
  <1>1. /\ SandboxTyped /\ ListsEntitled /\ Alone /\ Staged(h) /\ UNCHANGED <<acl, exempted, wfp, boxed, disturbed>> /\ boxes' = boxes \ {h}
        /\ helper[h].pc = "dropContainer" /\ HelperActive(h) /\ helper[h].saved = <<>> /\ Goto(h, "gone")
    BY AtHelper DEF DeleteContainer, HelperAt, HelperActive, Saved
  <1>2. "gone" \in HelperStages
    BY DEF HelperStages
  <1>3. PICK r \in HelperRecords :
            /\ Becomes(h, r) /\ r.pc = "gone" /\ r.profile = helper[h].profile /\ r.saved = helper[h].saved /\ r.forward = helper[h].forward
            /\ r.loopBefore = helper[h].loopBefore /\ r.exempt = helper[h].exempt /\ r.job = helper[h].job /\ r.token = helper[h].token
    BY <1>1, <1>2, GoesTo
  <1>4. Staged(h)'
    BY <1>1, <1>3 DEF Staged, BoxRuns, AfterRules, Becomes
  <1>5. Exemptible(exempted') /\ Exemptible(r.loopBefore)
    BY <1>1, <1>3 DEF ListsEntitled
  <1>6. ASSUME ~disturbed'
        PROVE  /\ h \in boxes' => r.pc \notin {"gone", "container"}
               /\ \A g \in exempted' : g = h /\ r.pc \notin {"gone", "dropContainer"} /\ r.exempt
               /\ AloneRest(h)'
    <2>1. ~disturbed /\ (\A g \in Helpers : HelperActive(g) => g = h) /\ AloneRest(h)
      BY <1>1, <1>6 DEF Alone
    <2>2. exempted = {}
      BY <1>1, <2>1 DEF Alone, SandboxTyped
    <2> QED
      BY <1>1, <1>3, <2>1, <2>2 DEF AloneRest, Becomes
  <1>7. exempted' \subseteq Helpers /\ disturbed' \in BOOLEAN /\ DOMAIN wfp' = Helpers
    BY <1>1 DEF SandboxTyped
  <1> QED
    BY <1>1, <1>3, <1>4, <1>5, <1>6, <1>7, EmptyHandedKeeps

(***************************************************************************)
(* A helper starts, or is killed.                                          *)
(***************************************************************************)
\* A helper that starts is in no list.
LEMMA ParseInvocationKeeps ==
  ASSUME SandboxInvariant, NEW h \in Helpers, NEW p \in Profiles, NEW good \in BOOLEAN, ParseInvocation(h, p, good)
  PROVE  SandboxInvariant'
  <1>1. /\ SandboxTyped /\ ListsEntitled /\ Alone /\ Staged(h) /\ UNCHANGED <<acl, exempted, boxes, wfp, boxed>>
        /\ helper[h].pc = "idle"
    BY AtHelper DEF ParseInvocation, HelperAt, hostState
  <1> DEFINE q == [IdleHelper EXCEPT !.pc = IF good THEN "container" ELSE "gone", !.profile = p]
  <1>2. /\ q \in HelperRecords /\ q.pc \in {"container", "gone"} /\ q.profile = p /\ q.saved = <<>> /\ q.loopBefore = {}
        /\ ~q.exempt
    <2>1. IdleHelper \in HelperRecords /\ IdleHelper.saved = <<>> /\ IdleHelper.loopBefore = {} /\ ~IdleHelper.exempt
      <3>1. (CHOOSE x \in Profiles : TRUE) \in Profiles
        BY SandboxAssumption
      <3>2. <<>> \in Seq(Restorations)
        OBVIOUS
      <3> QED
        BY <3>1, <3>2 DEF IdleHelper, HelperRecords, HelperStages
    <2>2. (IF good THEN "container" ELSE "gone") \in {"container", "gone"} /\ {"container", "gone"} \subseteq HelperStages
      BY DEF HelperStages
    <2> QED
      BY <2>1, <2>2 DEF HelperRecords
  <1>3. helper' = [helper EXCEPT ![h] = q]
    BY DEF ParseInvocation
  <1> HIDE DEF q
  <1>4. helper' \in [Helpers -> HelperRecords] /\ helper'[h] = q /\ \A g \in Helpers \ {h} : helper'[g] = helper[g]
    BY <1>1, <1>2, <1>3, HelperBecomes DEF Becomes
  <1>5. SandboxTyped' /\ (~disturbed' => ~disturbed /\ \A g \in Helpers : ~HelperActive(g))
    BY <1>1, <1>4 DEF SandboxTyped, ParseInvocation
  <1>6. \A g \in Helpers : Staged(g)' /\ Saved(g)'
    <2>1. Staged(h)'
      BY <1>1, <1>2, <1>4 DEF Staged, BoxRuns, AfterRules
    <2>2. Saved(h)'
      <3>1. \A i \in DOMAIN <<>> : FALSE
        OBVIOUS
      <3> QED
        BY <1>2, <1>4, <3>1 DEF Saved
    <2> QED
      BY <1>1, <1>4, <2>1, <2>2, CommandsKeep
  <1>7. \A g \in Helpers : helper[g].pc # "idle" => helper'[g] = helper[g]
    BY <1>1, <1>4
  <1>8. ListsEntitled'
    <2>1. ASSUME NEW S, NEW f, Entitled(S, f)
          PROVE  \A x \in S : x[1] \in Helpers =>
                   /\ helper'[x[1]].pc # "idle"
                   /\ f \in Range(IF x[2] = "write" THEN helper'[x[1]].profile.writes ELSE helper'[x[1]].profile.reads)
      BY <1>7, <2>1 DEF Entitled
    <2>2. ASSUME NEW S \in SUBSET Helpers, Exemptible(S)
          PROVE  \A g \in S : helper'[g].pc # "idle" /\ helper'[g].profile.policy = "loopback"
      BY <1>7, <2>2 DEF Exemptible
    <2>3. \A f \in Folders : Entitled(acl[f], f)'
      BY <1>1, <2>1 DEF ListsEntitled, Entitled
    <2>4. ASSUME NEW g \in Helpers, NEW i \in DOMAIN helper'[g].saved
          PROVE  Entitled(helper[g].saved[i].was, helper[g].saved[i].folder)'
      <3>1. g # h /\ helper'[g] = helper[g]
        <4>1. \A j \in DOMAIN <<>> : FALSE
          OBVIOUS
        <4> QED
          BY <1>2, <1>4, <4>1
      <3>2. Entitled(helper'[g].saved[i].was, helper'[g].saved[i].folder)
        BY <1>1, <3>1 DEF ListsEntitled
      <3> QED
        BY <2>1, <3>2 DEF Entitled
    <2>5. Exemptible(exempted)'
      BY <1>1, <2>2 DEF ListsEntitled, SandboxTyped, Exemptible
    <2>6. ASSUME NEW g \in Helpers
          PROVE  Exemptible(helper[g].loopBefore)'
      <3>1. CASE g = h
        BY <1>2, <1>4, <3>1 DEF Exemptible
      <3>2. CASE g # h
        <4>1. helper'[g] = helper[g] /\ helper[g].loopBefore \in SUBSET Helpers
          BY <1>1, <1>4, <3>2, HelperTyped
        <4>2. Exemptible(helper'[g].loopBefore) /\ helper'[g].loopBefore \in SUBSET Helpers
          BY <1>1, <4>1 DEF ListsEntitled
        <4> QED
          BY <2>2, <4>2 DEF Exemptible
      <3> QED
        BY <3>1, <3>2
    <2> QED
      BY <2>3, <2>4, <2>5, <2>6 DEF ListsEntitled
  <1>9. Alone'
    <2> SUFFICES ASSUME ~disturbed'
                 PROVE  (/\ \A g, k \in Helpers : HelperActive(g) /\ HelperActive(k) => g = k
                         /\ \A k \in boxes : HelperActive(k) /\ helper[k].pc # "container"
                         /\ \A k \in exempted : HelperActive(k) /\ helper[k].exempt /\ helper[k].pc # "dropContainer"
                         /\ \A k \in Helpers : HelperActive(k) => AloneLists(k) /\ AloneRest(k)
                         /\ \A f \in Folders :
                               (\A k \in Helpers : HelperActive(k) => \A i \in DOMAIN helper[k].saved : helper[k].saved[i].folder # f)
                                 => Clean(acl[f], f))'
      BY DEF Alone
    <2>1. ~disturbed /\ \A g \in Helpers : ~HelperActive(g)
      BY <1>5
    <2>2. \A g \in Helpers : HelperActive(g)' => g = h
      BY <1>4, <2>1 DEF HelperActive
    <2>3. boxes' = {} /\ exempted' = {}
      BY <1>1, <2>1 DEF Alone, SandboxTyped
    <2>4. ASSUME NEW f \in Folders
          PROVE  Clean(acl[f], f)'
      <3>1. Clean(acl[f], f) /\ acl' = acl
        BY <1>1, <2>1 DEF Alone
      <3>2. \A g \in Helpers : Excused(g, f) => Excused(g, f)'
        BY <1>7 DEF Excused
      <3> QED
        BY <3>1, <3>2 DEF Clean
    <2>5. AloneLists(h)'
      <3>1. \A i \in DOMAIN helper'[h].saved : FALSE
        <4>1. \A j \in DOMAIN <<>> : FALSE
          OBVIOUS
        <4> QED
          BY <1>2, <1>4, <4>1
      <3>2. \A f \in Folders : CleanBut(acl[f], f, h)'
        BY <2>4 DEF Clean, CleanBut
      <3> QED
        BY <1>2, <1>4, <3>1, <3>2 DEF AloneLists
    <2>6. AloneRest(h)'
      BY <1>2, <1>4 DEF AloneRest
    <2> QED
      BY <2>2, <2>3, <2>4, <2>5, <2>6
  <1> QED
    BY <1>5, <1>6, <1>8, <1>9 DEF SandboxInvariant

\* A helper that is killed leaves everything but its job and its filters.
LEMMA KillHelperKeeps ==
  ASSUME SandboxInvariant, NEW h \in Helpers, KillHelper(h)
  PROVE  SandboxInvariant'
  <1>1. /\ SandboxTyped /\ ListsEntitled /\ Staged(h) /\ Saved(h) /\ UNCHANGED <<acl, exempted, boxes>> /\ disturbed' = TRUE
        /\ HelperActive(h) /\ Goto(h, "gone") /\ wfp' = [wfp EXCEPT ![h] = {}]
    BY AtHelper DEF KillHelper
  <1>2. "gone" \in HelperStages
    BY DEF HelperStages
  <1>3. PICK r \in HelperRecords :
            /\ Becomes(h, r) /\ r.pc = "gone" /\ r.profile = helper[h].profile /\ r.saved = helper[h].saved /\ r.forward = helper[h].forward
            /\ r.loopBefore = helper[h].loopBefore /\ r.exempt = helper[h].exempt /\ r.job = helper[h].job /\ r.token = helper[h].token
    BY <1>1, <1>2, GoesTo
  <1>4. /\ boxed' \in [Helpers -> BoxRecords] /\ \A g \in Helpers \ {h} : boxed'[g] = boxed[g]
        /\ ~BoxRuns(h)' /\ boxed'[h].net = boxed[h].net
    BY JobClosed DEF KillHelper
  <1>5. helper'[h] = r /\ \A g \in Helpers \ {h} : helper'[g] = helper[g]
    BY <1>3 DEF Becomes
  <1>6. SandboxTyped'
    BY <1>1, <1>3, <1>4 DEF SandboxTyped, Becomes
  <1>7. Staged(h)'
    BY <1>1, <1>3, <1>4, <1>5 DEF Staged, AfterRules
  <1>8. Saved(h)'
    BY <1>1, <1>3, <1>5 DEF Saved
  <1>9. \A g \in Helpers \ {h} : boxed'[g] = boxed[g] /\ wfp'[g] = wfp[g] /\ (g \in boxes' <=> g \in boxes)
    BY <1>1, <1>4 DEF SandboxTyped
  <1>10. \A g \in Helpers : Staged(g)' /\ Saved(g)'
    BY <1>5, <1>7, <1>8, <1>9, CommandsKeep
  <1>11. ListsEntitled'
    <2>1. KeepsProfile(h)
      BY <1>1, <1>3, <1>5, HelperTyped DEF KeepsProfile, HelperActive
    <2>2. \A f \in Folders : Entitled(acl'[f], f)
      BY <1>1 DEF ListsEntitled
    <2>3. \A i \in DOMAIN helper'[h].saved : Entitled(helper'[h].saved[i].was, helper'[h].saved[i].folder)
      BY <1>1, <1>3, <1>5 DEF ListsEntitled
    <2>4. Exemptible(exempted') /\ Exemptible(helper'[h].loopBefore)
      BY <1>1, <1>3, <1>5 DEF ListsEntitled
    <2>5. exempted' \subseteq Helpers /\ helper'[h].loopBefore \subseteq Helpers /\ \A g \in Helpers : helper[g].loopBefore \subseteq Helpers
      BY <1>1, <1>3, <1>5, HelperTyped DEF SandboxTyped
    <2> QED
      BY <1>1, <1>5, <2>1, <2>2, <2>3, <2>4, <2>5, ListsKeep
  <1>12. Alone'
    BY <1>1 DEF Alone
  <1> QED
    BY <1>6, <1>10, <1>11, <1>12 DEF SandboxInvariant

(***************************************************************************)
(* The access lists: one copy more, one grant more, one copy less.         *)
(***************************************************************************)
LEMMA CopiesKeep ==
  ASSUME SandboxInvariant, NEW h \in Helpers, NEW r \in HelperRecords, Becomes(h, r), HelperActive(h),
         r.pc \notin {"idle", "gone", "container", "network", "exempt", "dropContainer"},
         r.profile = helper[h].profile, helper[h].forward => r.forward, r.loopBefore = helper[h].loopBefore, r.exempt = helper[h].exempt,
         UNCHANGED <<exempted, boxes, wfp, boxed>>, acl' \in [Folders -> SUBSET AccessEntries], disturbed' \in BOOLEAN,
         disturbed => disturbed', Staged(h)', Saved(h)',
         \A f \in Folders : Entitled(acl'[f], f), \A i \in DOMAIN r.saved : Entitled(r.saved[i].was, r.saved[i].folder),
         ~disturbed' =>
           /\ \A f \in Folders : CleanBut(acl'[f], f, h)
           /\ \A i \in DOMAIN r.saved : LET s == r.saved[i] IN
                 /\ CleanBut(s.was, s.folder, h)
                 /\ (\A j \in 1..(i - 1) : r.saved[j].folder # s.folder) => Clean(s.was, s.folder)
           /\ r.pc = "granting" => LET s == r.saved[Len(r.saved)] IN acl'[s.folder] = s.was
           /\ \A f \in Folders : (\A i \in DOMAIN r.saved : r.saved[i].folder # f) => Clean(acl'[f], f)
  PROVE  SandboxInvariant'
  <1>1. SandboxTyped /\ ListsEntitled /\ Alone /\ r.forward \in BOOLEAN
    BY DEF SandboxInvariant, HelperRecords
  <1>2. SandboxTyped' /\ helper'[h] = r /\ \A g \in Helpers \ {h} : helper'[g] = helper[g]
    BY <1>1 DEF SandboxTyped, Becomes
  <1>3. KeepsProfile(h)
    BY <1>1, <1>2 DEF KeepsProfile, HelperActive
  <1>4. \A g \in Helpers : Staged(g)' /\ Saved(g)'
    BY <1>2, CommandsKeep
  <1>5. ListsEntitled'
    <2>1. Exemptible(exempted') /\ Exemptible(helper'[h].loopBefore)
      BY <1>1, <1>2 DEF ListsEntitled
    <2>2. exempted' \subseteq Helpers /\ helper'[h].loopBefore \subseteq Helpers /\ \A g \in Helpers : helper[g].loopBefore \subseteq Helpers
      BY <1>1, <1>2, HelperTyped DEF SandboxTyped
    <2> QED
      BY <1>1, <1>2, <1>3, <2>1, <2>2, ListsKeep
  <1>6. Alone'
    <2>0. disturbed \in BOOLEAN
      BY <1>1 DEF SandboxTyped
    <2>1. CASE disturbed'
      BY <2>1 DEF Alone
    <2>2. CASE ~disturbed'
      <3>1. ~disturbed /\ AloneRest(h) /\ (\A g \in Helpers : HelperActive(g) => g = h) /\ boxes \subseteq Helpers /\ exempted \subseteq Helpers
        BY <1>1, <2>2 DEF Alone, SandboxTyped
      <3>2. \A g \in boxes' : g = h
        BY <1>1, <3>1 DEF Alone
      <3>3. \A g \in exempted' : g = h /\ helper[h].exempt
        BY <1>1, <3>1 DEF Alone
      <3>4. AloneRest(h)'
        BY <1>2, <3>1 DEF AloneRest
      <3>5. ~disturbed =>
           /\ \A g \in boxes' : g = h /\ helper'[h].pc \notin {"idle", "gone", "container"}
           /\ \A g \in exempted' : g = h /\ helper'[h].pc \notin {"idle", "gone", "dropContainer"} /\ helper'[h].exempt
           /\ AloneRest(h)'
           /\ \A f \in Folders : CleanBut(acl'[f], f, h)
           /\ \A i \in DOMAIN helper'[h].saved : LET s == helper'[h].saved[i] IN
                 /\ CleanBut(s.was, s.folder, h)
                 /\ (\A j \in 1..(i - 1) : helper'[h].saved[j].folder # s.folder) => Clean(s.was, s.folder)
           /\ helper'[h].pc = "granting" => LET s == helper'[h].saved[Len(helper'[h].saved)] IN acl'[s.folder] = s.was
           /\ \A f \in Folders : (\A i \in DOMAIN helper'[h].saved : helper'[h].saved[i].folder # f) => Clean(acl'[f], f)
           /\ helper'[h].pc = "gone" => helper'[h].saved = <<>>
        BY <1>2, <2>2, <3>2, <3>3, <3>4
      <3> QED
        BY <1>1, <1>2, <1>3, <2>0, <2>2, <3>1, <3>5, AloneKeeps
    <2> QED
      BY <2>0, <2>1, <2>2
  <1> QED
    BY <1>2, <1>4, <1>5, <1>6 DEF SandboxInvariant

\* One element more, the last one less, the first one less.
LEMMA OneMore ==
  ASSUME NEW s \in Copies, NEW e \in Restorations
  PROVE  /\ Append(s, e) \in Copies /\ Len(s) \in Nat /\ DOMAIN s = 1..Len(s) /\ DOMAIN Append(s, e) = 1..(Len(s) + 1)
         /\ Len(Append(s, e)) = Len(s) + 1 /\ Append(s, e)[Len(s) + 1] = e /\ \A i \in 1..Len(s) : Append(s, e)[i] = s[i]
  BY DEF Copies

LEMMA LastLess ==
  ASSUME NEW s \in Copies, s # <<>>
  PROVE  /\ Len(s) \in Nat /\ Len(s) >= 1 /\ DOMAIN s = 1..Len(s) /\ s[Len(s)] \in Restorations
         /\ SubSeq(s, 1, Len(s) - 1) \in Copies /\ DOMAIN SubSeq(s, 1, Len(s) - 1) = 1..(Len(s) - 1)
         /\ \A i \in 1..(Len(s) - 1) : SubSeq(s, 1, Len(s) - 1)[i] = s[i]
  BY DEF Copies

LEMMA FirstLess ==
  ASSUME NEW s \in Copies, s # <<>>
  PROVE  /\ Len(s) \in Nat /\ Len(s) >= 1 /\ DOMAIN s = 1..Len(s) /\ s[1] \in Restorations /\ Head(s) = s[1]
         /\ Tail(s) \in Copies /\ DOMAIN Tail(s) = 1..(Len(s) - 1)
         /\ \A i \in 1..(Len(s) - 1) : Tail(s)[i] = s[i + 1]
  BY DEF Copies

\* The entry of a grant is there by the profile.
LEMMA GrantEntitles ==
  ASSUME NEW h \in Helpers, helper[h].profile \in Profiles, helper[h].pc # "idle", NEW n \in DOMAIN FilesystemGrants(helper[h].profile), NEW S,
         Entitled(S, FilesystemGrants(helper[h].profile)[n][1])
  PROVE  /\ Entitled(S \cup {<<h, FilesystemGrants(helper[h].profile)[n][2]>>}, FilesystemGrants(helper[h].profile)[n][1])
         /\ <<h, FilesystemGrants(helper[h].profile)[n][2]>> \in AccessEntries
  BY GrantsOf DEF Entitled, AccessEntries

\* One more copy: of the list as it is, for the grant that comes next.
LEMMA ReadAclKeeps ==
  ASSUME SandboxInvariant, NEW h \in Helpers, ReadAcl(h)
  PROVE  SandboxInvariant'
  <1>1. /\ SandboxTyped /\ ListsEntitled /\ Alone /\ Staged(h) /\ Saved(h) /\ UNCHANGED <<acl, exempted, boxes, wfp, boxed, disturbed>>
        /\ helper[h].pc = "grant" /\ HelperActive(h) /\ helper[h].profile \in Profiles /\ helper[h].saved \in Seq(Restorations)
    BY AtHelper DEF ReadAcl, HelperAt, HelperActive, hostState
  <1>2. PICK grants : grants = FilesystemGrants(helper[h].profile)
    OBVIOUS
  <1>3. PICK saved \in Copies : saved = helper[h].saved
    BY <1>1 DEF Copies
  <1>4. boxed' \in [Helpers -> BoxRecords] /\ DOMAIN wfp' = Helpers /\ \A g \in Helpers : boxed'[g] = boxed[g] /\ wfp'[g] = wfp[g]
    BY <1>1 DEF SandboxTyped
  <1>5. CASE Goto(h, "token")
    <2>1. "token" \in HelperStages
      BY DEF HelperStages, AfterRules
    <2>2. PICK r \in HelperRecords :
            /\ Becomes(h, r) /\ r.pc = "token" /\ r.profile = helper[h].profile /\ r.saved = helper[h].saved /\ r.forward = helper[h].forward
            /\ r.loopBefore = helper[h].loopBefore /\ r.exempt = helper[h].exempt /\ r.job = helper[h].job /\ r.token = helper[h].token
      BY <1>1, <1>5, <2>1, GoesTo
    <2>3. Staged(h)'
      BY <1>1, <2>2 DEF Staged, Filtered, BoxRuns, AfterRules, Becomes
    <2> QED
      BY <1>1, <1>4, <2>2, <2>3, CalmKeeps
  <1>6. CASE helper' = [helper EXCEPT ![h].pc = "dropJob", ![h].forward = TRUE]
    <2>1. "dropJob" \in HelperStages
      BY DEF HelperStages
    <2>2. PICK r \in HelperRecords :
            /\ Becomes(h, r) /\ r.pc = "dropJob" /\ r.profile = helper[h].profile /\ r.saved = helper[h].saved /\ r.forward = TRUE
            /\ r.loopBefore = helper[h].loopBefore /\ r.exempt = helper[h].exempt /\ r.job = helper[h].job /\ r.token = helper[h].token
      BY <1>1, <1>6, <2>1, SetsForward
    <2>3. Staged(h)'
      BY <1>1, <2>2 DEF Staged, Filtered, BoxRuns, AfterRules, Becomes
    <2> QED
      BY <1>1, <1>4, <2>2, <2>3, CalmKeeps
  <1>7. CASE /\ ~(Len(saved) + 1 > Len(grants))
             /\ helper' = [helper EXCEPT ![h].pc = "granting", ![h].saved = Append(helper[h].saved,
                              [folder |-> grants[Len(saved) + 1][1], was |-> acl[grants[Len(saved) + 1][1]]])]
    <2> DEFINE n == Len(saved) + 1
    <2>1. /\ Len(grants) \in Nat /\ DOMAIN grants = 1..Len(grants) /\ Len(saved) \in Nat /\ n \in DOMAIN grants /\ n \in Nat /\ n <= Len(grants)
          /\ grants[n][1] \in Folders
      BY <1>1, <1>2, <1>7, GrantsOf
    <2>2. PICK copy \in Restorations : copy = [folder |-> grants[n][1], was |-> acl[grants[n][1]]]
      BY <1>1, <2>1 DEF SandboxTyped, Restorations
    <2>3. copy.folder = grants[n][1] /\ copy.was = acl[copy.folder] /\ copy.folder \in Folders
      BY <2>1, <2>2
    <2>4. PICK more \in Copies :
            /\ more = Append(saved, copy) /\ DOMAIN saved = 1..Len(saved) /\ DOMAIN more = 1..n /\ Len(more) = n /\ more[n] = copy
            /\ \A i \in 1..Len(saved) : more[i] = saved[i]
      <3>1. saved \in Copies /\ copy \in Restorations
        BY <1>3, <2>2
      <3>2. /\ Append(saved, copy) \in Copies /\ DOMAIN saved = 1..Len(saved)
            /\ DOMAIN Append(saved, copy) = 1..n /\ Len(Append(saved, copy)) = n /\ Append(saved, copy)[n] = copy
            /\ \A i \in 1..Len(saved) : Append(saved, copy)[i] = saved[i]
        BY <3>1, OneMore
      <3> QED
        BY <3>2
    <2>5. "granting" \in HelperStages
      BY DEF HelperStages, AfterRules
    <2>6. helper' = [helper EXCEPT ![h].pc = "granting", ![h].saved = more]
      BY <1>3, <1>7, <2>2, <2>4
    <2>7. PICK r \in HelperRecords :
            /\ Becomes(h, r) /\ r.pc = "granting" /\ r.profile = helper[h].profile /\ r.saved = more /\ r.forward = helper[h].forward
            /\ r.loopBefore = helper[h].loopBefore /\ r.exempt = helper[h].exempt /\ r.job = helper[h].job /\ r.token = helper[h].token
      <3>0. SandboxTyped /\ more \in Copies /\ "granting" \in HelperStages
        BY <1>1, <2>4, <2>5
      <3> DEFINE q == [helper[h] EXCEPT !.pc = "granting", !.saved = more]
      <3>1. helper[h] \in HelperRecords
        BY <3>0, HelperTyped
      <3>2. q \in HelperRecords
        BY <3>0, <3>1 DEF HelperRecords, Copies
      <3>3. /\ q.pc = "granting" /\ q.profile = helper[h].profile /\ q.saved = more /\ q.forward = helper[h].forward
          /\ q.loopBefore = helper[h].loopBefore /\ q.exempt = helper[h].exempt /\ q.job = helper[h].job /\ q.token = helper[h].token
        BY <3>1 DEF HelperRecords
      <3>4. helper' = [helper EXCEPT ![h] = q]
        BY <2>6, <3>0, <3>1 DEF SandboxTyped
      <3> HIDE DEF q
      <3>5. PICK r \in HelperRecords : r = q
        BY <3>2
      <3>6. Becomes(h, r)
        BY <3>0, <3>4, <3>5, HelperBecomes
      <3> QED
        BY <3>3, <3>5, <3>6
    <2> HIDE DEF n
    <2>8. \A i \in 1..n : i \in 1..Len(saved) \/ i = n
      BY <2>1 DEF n
    <2>9. \A i \in 1..n : more[i].folder = grants[i][1]
      <3>1. \A i \in 1..Len(saved) : saved[i].folder = grants[i][1]
        BY <1>1, <1>2, <1>3, <2>4 DEF Saved
      <3> QED
        BY <2>3, <2>4, <2>8, <3>1
    <2>10. Saved(h)'
      <3>1. helper'[h].saved = more /\ helper'[h].pc = "granting" /\ helper'[h].profile = helper[h].profile
        BY <2>7 DEF Becomes
      <3>2. more # <<>>
        BY <2>1, <2>4
      <3>3. ASSUME NEW i \in 1..n, NEW j \in 1..n, i # j, more[i].folder = more[j].folder
            PROVE  ListedTwice(helper[h].profile, more[i].folder)
        <4>1. i \in DOMAIN grants /\ j \in DOMAIN grants
          BY <2>1
        <4> QED
          BY <1>2, <2>9, <3>3, <4>1 DEF ListedTwice
      <3> QED
        BY <1>2, <2>1, <2>4, <2>9, <3>1, <3>2, <3>3 DEF Saved
    <2>11. Staged(h)'
      BY <1>1, <2>7 DEF Staged, Filtered, BoxRuns, AfterRules, Becomes
    <2>12. (\A f \in Folders : Entitled(acl'[f], f)) /\ \A i \in DOMAIN r.saved : Entitled(r.saved[i].was, r.saved[i].folder)
      <3>1. \A f \in Folders : Entitled(acl[f], f)
        BY <1>1 DEF ListsEntitled
      <3>2. \A i \in 1..Len(saved) : Entitled(saved[i].was, saved[i].folder)
        BY <1>1, <1>3, <2>4 DEF ListsEntitled
      <3> QED
        BY <1>1, <2>3, <2>4, <2>7, <2>8, <3>1, <3>2
    <2>13. ASSUME ~disturbed'
           PROVE  /\ \A f \in Folders : CleanBut(acl'[f], f, h)
                  /\ \A i \in DOMAIN r.saved :
                        /\ CleanBut(r.saved[i].was, r.saved[i].folder, h)
                        /\ (\A j \in 1..(i - 1) : r.saved[j].folder # r.saved[i].folder) => Clean(r.saved[i].was, r.saved[i].folder)
                  /\ r.pc = "granting" => acl'[r.saved[Len(r.saved)].folder] = r.saved[Len(r.saved)].was
                  /\ \A f \in Folders : (\A i \in DOMAIN r.saved : r.saved[i].folder # f) => Clean(acl'[f], f)
      <3>1. ~disturbed /\ AloneLists(h) /\ \A g \in Helpers : HelperActive(g) => g = h
        BY <1>1, <2>13 DEF Alone
      <3>2. \A f \in Folders : CleanBut(acl[f], f, h)
        BY <3>1 DEF AloneLists
      <3>3. ASSUME NEW i \in 1..Len(saved)
            PROVE  /\ CleanBut(saved[i].was, saved[i].folder, h)
                   /\ (\A j \in 1..(i - 1) : saved[j].folder # saved[i].folder) => Clean(saved[i].was, saved[i].folder)
        BY <1>3, <2>4, <3>1 DEF AloneLists, FirstCopy
      <3>4. ASSUME NEW f \in Folders, \A i \in 1..Len(saved) : saved[i].folder # f
            PROVE  Clean(acl[f], f)
        BY <1>1, <1>3, <2>4, <3>1, <3>4 DEF Alone
      <3>5. ASSUME NEW i \in 1..n
            PROVE  /\ CleanBut(more[i].was, more[i].folder, h)
                   /\ (\A j \in 1..(i - 1) : more[j].folder # more[i].folder) => Clean(more[i].was, more[i].folder)
        <4>1. CASE i \in 1..Len(saved)
          <5>1. \A j \in 1..(i - 1) : j \in 1..Len(saved)
            BY <2>1, <4>1
          <5> QED
            BY <2>4, <3>3, <4>1, <5>1
        <4>2. CASE i = n
          <5>1. \A j \in 1..Len(saved) : j \in 1..(i - 1)
            BY <2>1, <4>2 DEF n
          <5> QED
            BY <2>3, <2>4, <3>2, <3>4, <4>2, <5>1
        <4> QED
          BY <2>8, <4>1, <4>2
      <3>6. acl'[more[n].folder] = more[n].was
        BY <1>1, <2>3, <2>4
      <3>7. ASSUME NEW f \in Folders, \A i \in 1..n : more[i].folder # f
            PROVE  Clean(acl'[f], f)
        <4>1. \A i \in 1..Len(saved) : i \in 1..n
          BY <2>1 DEF n
        <4> QED
          BY <1>1, <2>4, <3>4, <3>7, <4>1
      <3> QED
        BY <1>1, <2>4, <2>7, <3>2, <3>5, <3>6, <3>7
    <2>14. acl' \in [Folders -> SUBSET AccessEntries] /\ disturbed' \in BOOLEAN
      BY <1>1 DEF SandboxTyped
    <2> QED
      BY <1>1, <2>7, <2>10, <2>11, <2>12, <2>13, <2>14, CopiesKeep
  <1> QED
    BY <1>2, <1>3, <1>5, <1>6, <1>7 DEF ReadAcl

\* One grant more: the copy with an entry; or the copy is given up, and the list is as it was.
LEMMA SetAclKeeps ==
  ASSUME SandboxInvariant, NEW h \in Helpers, SetAcl(h)
  PROVE  SandboxInvariant'
  <1>1. /\ SandboxTyped /\ ListsEntitled /\ Alone /\ Staged(h) /\ Saved(h) /\ UNCHANGED <<exempted, boxes, wfp, boxed, disturbed>>
        /\ helper[h].pc = "granting" /\ HelperActive(h) /\ helper[h].profile \in Profiles /\ helper[h].saved \in Seq(Restorations)
    BY AtHelper DEF SetAcl, HelperAt, HelperActive
  <1>2. PICK grants : grants = FilesystemGrants(helper[h].profile)
    OBVIOUS
  <1>3. PICK saved \in Copies : saved = helper[h].saved
    BY <1>1 DEF Copies
  <1>4. saved # <<>> /\ Len(saved) <= Len(grants) /\ \A i \in DOMAIN saved : saved[i].folder = grants[i][1]
    BY <1>1, <1>2, <1>3 DEF Saved
  <1>5. PICK n \in Nat : n = Len(saved)
    BY <1>3, <1>4, LastLess
  <1>6. n >= 1 /\ DOMAIN saved = 1..n /\ n \in 1..n /\ saved[n] \in Restorations
    BY <1>3, <1>4, <1>5, LastLess
  <1>7. PICK last \in Restorations : last = saved[n]
    BY <1>6
  <1>8. /\ n \in DOMAIN grants /\ last.folder = grants[n][1] /\ last.folder \in Folders /\ last.was \in SUBSET AccessEntries
    <2>1. DOMAIN grants = 1..Len(grants) /\ Len(grants) \in Nat
      BY <1>1, <1>2, GrantsOf
    <2>2. last.folder \in Folders /\ last.was \in SUBSET AccessEntries
      BY <1>7 DEF Restorations
    <2> QED
      BY <1>4, <1>5, <1>6, <1>7, <2>1, <2>2
  <1>9. \A f \in Folders : Entitled(acl[f], f)
    BY <1>1 DEF ListsEntitled
  <1>10. \A i \in 1..n : Entitled(saved[i].was, saved[i].folder)
    BY <1>1, <1>3, <1>6 DEF ListsEntitled
  <1>11. acl \in [Folders -> SUBSET AccessEntries] /\ disturbed \in BOOLEAN
    BY <1>1 DEF SandboxTyped
  <1>12. ASSUME ~disturbed
         PROVE  /\ \A f \in Folders : CleanBut(acl[f], f, h)
                /\ \A i \in 1..n :
                      /\ CleanBut(saved[i].was, saved[i].folder, h)
                      /\ (\A j \in 1..(i - 1) : saved[j].folder # saved[i].folder) => Clean(saved[i].was, saved[i].folder)
                /\ acl[last.folder] = last.was
                /\ \A f \in Folders : (\A i \in 1..n : saved[i].folder # f) => Clean(acl[f], f)
    <2>1. AloneLists(h) /\ \A g \in Helpers : HelperActive(g) => g = h
      BY <1>1, <1>12 DEF Alone
    <2>2. \A f \in Folders : CleanBut(acl[f], f, h)
      BY <2>1 DEF AloneLists
    <2>3. \A i \in 1..n :
             /\ CleanBut(saved[i].was, saved[i].folder, h)
             /\ (\A j \in 1..(i - 1) : saved[j].folder # saved[i].folder) => Clean(saved[i].was, saved[i].folder)
      BY <1>3, <1>6, <2>1 DEF AloneLists, FirstCopy
    <2>4. acl[last.folder] = last.was
      BY <1>1, <1>3, <1>5, <1>7, <2>1 DEF AloneLists
    <2>5. ASSUME NEW f \in Folders, \A i \in 1..n : saved[i].folder # f
          PROVE  Clean(acl[f], f)
      BY <1>1, <1>3, <1>6, <1>12, <2>1, <2>5 DEF Alone
    <2> QED
      BY <2>2, <2>3, <2>4, <2>5
  <1>13. CASE acl' = [acl EXCEPT ![last.folder] = last.was \cup {<<h, grants[n][2]>>}] /\ Goto(h, "grant")
    <2> DEFINE now == last.was \cup {<<h, grants[n][2]>>}
    <2>1. PICK r \in HelperRecords :
            /\ Becomes(h, r) /\ r.pc = "grant" /\ r.profile = helper[h].profile /\ r.saved = helper[h].saved /\ r.forward = helper[h].forward
            /\ r.loopBefore = helper[h].loopBefore /\ r.exempt = helper[h].exempt /\ r.job = helper[h].job /\ r.token = helper[h].token
      <3>1. "grant" \in HelperStages
        BY DEF HelperStages, AfterRules
      <3> QED
        BY <1>1, <1>13, <3>1, GoesTo
    <2>2. Entitled(now, last.folder) /\ <<h, grants[n][2]>> \in AccessEntries
      <3>1. Entitled(last.was, last.folder)
        BY <1>6, <1>7, <1>10
      <3>2. helper[h].pc # "idle"
        BY <1>1
      <3> QED
        BY <1>1, <1>2, <1>8, <3>1, <3>2, GrantEntitles
    <2>3. now \in SUBSET AccessEntries /\ \A x \in now : x \in last.was \/ x[1] = h
      BY <1>8, <2>2
    <2>4. acl' = [acl EXCEPT ![last.folder] = now]
      BY <1>13
    <2> HIDE DEF now
    <2>5. /\ acl' \in [Folders -> SUBSET AccessEntries] /\ acl'[last.folder] = now
          /\ \A f \in Folders : f # last.folder => acl'[f] = acl[f]
      BY <1>8, <1>11, <2>3, <2>4
    <2>6. (\A f \in Folders : Entitled(acl'[f], f)) /\ \A i \in DOMAIN r.saved : Entitled(r.saved[i].was, r.saved[i].folder)
      BY <1>3, <1>6, <1>9, <1>10, <2>1, <2>2, <2>5
    <2>7. Staged(h)'
      BY <1>1, <2>1 DEF Staged, Filtered, BoxRuns, AfterRules, Becomes
    <2>8. Saved(h)'
      BY <1>1, <2>1 DEF Saved, Becomes
    <2>9. ASSUME ~disturbed'
          PROVE  /\ \A f \in Folders : CleanBut(acl'[f], f, h)
                 /\ \A i \in DOMAIN r.saved :
                       /\ CleanBut(r.saved[i].was, r.saved[i].folder, h)
                       /\ (\A j \in 1..(i - 1) : r.saved[j].folder # r.saved[i].folder) => Clean(r.saved[i].was, r.saved[i].folder)
                 /\ \A f \in Folders : (\A i \in DOMAIN r.saved : r.saved[i].folder # f) => Clean(acl'[f], f)
      <3>1. r.saved = saved /\ DOMAIN saved = 1..n /\ ~disturbed
        BY <1>1, <1>3, <1>6, <2>1, <2>9
      <3>2. CleanBut(now, last.folder, h)
        <4>1. CleanBut(last.was, last.folder, h)
          BY <1>6, <1>7, <1>12, <3>1
        <4> QED
          BY <2>3, <4>1 DEF CleanBut
      <3>3. \A f \in Folders : CleanBut(acl'[f], f, h)
        BY <1>12, <2>5, <3>1, <3>2
      <3>4. ASSUME NEW f \in Folders, \A i \in 1..n : saved[i].folder # f
            PROVE  Clean(acl'[f], f)
        BY <1>6, <1>7, <1>12, <2>5, <3>1, <3>4
      <3> QED
        BY <1>12, <3>1, <3>3, <3>4
    <2>10. disturbed' \in BOOLEAN
      BY <1>1, <1>11
    <2> QED
      BY <1>1, <2>1, <2>5, <2>6, <2>7, <2>8, <2>9, <2>10, CopiesKeep
  <1>14. CASE /\ UNCHANGED acl
              /\ helper' = [helper EXCEPT ![h].pc = "dropJob", ![h].forward = TRUE, ![h].saved = SubSeq(helper[h].saved, 1, n - 1)]
    <2>1. PICK less \in Copies : less = SubSeq(saved, 1, n - 1) /\ DOMAIN less = 1..(n - 1) /\ \A i \in 1..(n - 1) : less[i] = saved[i]
      <3>1. /\ SubSeq(saved, 1, n - 1) \in Copies /\ DOMAIN SubSeq(saved, 1, n - 1) = 1..(n - 1)
            /\ \A i \in 1..(n - 1) : SubSeq(saved, 1, n - 1)[i] = saved[i]
        BY <1>3, <1>4, <1>5, LastLess
      <3> QED
        BY <3>1
    <2>2. helper' = [helper EXCEPT ![h].pc = "dropJob", ![h].forward = TRUE, ![h].saved = less]
      BY <1>3, <1>14, <2>1
    <2>3. PICK r \in HelperRecords :
            /\ Becomes(h, r) /\ r.pc = "dropJob" /\ r.profile = helper[h].profile /\ r.saved = less /\ r.forward = TRUE
            /\ r.loopBefore = helper[h].loopBefore /\ r.exempt = helper[h].exempt /\ r.job = helper[h].job /\ r.token = helper[h].token
      <3>0. SandboxTyped /\ less \in Copies /\ "dropJob" \in HelperStages
        BY <1>1, <2>1 DEF HelperStages
      <3> DEFINE q == [helper[h] EXCEPT !.pc = "dropJob", !.forward = TRUE, !.saved = less]
      <3>1. helper[h] \in HelperRecords
        BY <3>0, HelperTyped
      <3>2. q \in HelperRecords
        BY <3>0, <3>1 DEF HelperRecords, Copies
      <3>3. /\ q.pc = "dropJob" /\ q.profile = helper[h].profile /\ q.saved = less /\ q.forward = TRUE
          /\ q.loopBefore = helper[h].loopBefore /\ q.exempt = helper[h].exempt /\ q.job = helper[h].job /\ q.token = helper[h].token
        BY <3>1 DEF HelperRecords
      <3>4. helper' = [helper EXCEPT ![h] = q]
        BY <2>2, <3>0, <3>1 DEF SandboxTyped
      <3> HIDE DEF q
      <3>5. PICK r \in HelperRecords : r = q
        BY <3>2
      <3>6. Becomes(h, r)
        BY <3>0, <3>4, <3>5, HelperBecomes
      <3> QED
        BY <3>3, <3>5, <3>6
    <2>4. \A i \in 1..(n - 1) : i \in 1..n
      OBVIOUS
    <2>5. Staged(h)'
      BY <1>1, <2>3 DEF Staged, Filtered, BoxRuns, AfterRules, Becomes
    <2>6. Saved(h)'
      <3>1. ASSUME NEW i \in 1..n, NEW j \in 1..n, i # j, saved[i].folder = saved[j].folder
            PROVE  ListedTwice(helper[h].profile, saved[i].folder)
        BY <1>1, <1>3, <1>6, <3>1 DEF Saved
      <3>2. helper'[h].saved = less /\ helper'[h].pc = "dropJob" /\ helper'[h].profile = helper[h].profile
        BY <2>3 DEF Becomes
      <3> QED
        BY <2>1, <2>4, <3>1, <3>2 DEF Saved
    <2>7. (\A f \in Folders : Entitled(acl'[f], f)) /\ \A i \in DOMAIN r.saved : Entitled(r.saved[i].was, r.saved[i].folder)
      BY <1>9, <1>10, <1>14, <2>1, <2>3, <2>4
    <2>8. ASSUME ~disturbed'
          PROVE  /\ \A f \in Folders : CleanBut(acl'[f], f, h)
                 /\ \A i \in DOMAIN r.saved :
                       /\ CleanBut(r.saved[i].was, r.saved[i].folder, h)
                       /\ (\A j \in 1..(i - 1) : r.saved[j].folder # r.saved[i].folder) => Clean(r.saved[i].was, r.saved[i].folder)
                 /\ \A f \in Folders : (\A i \in DOMAIN r.saved : r.saved[i].folder # f) => Clean(acl'[f], f)
      <3>1. r.saved = less /\ DOMAIN less = 1..(n - 1) /\ ~disturbed /\ acl' = acl
        BY <1>1, <1>14, <2>1, <2>3, <2>8
      <3>2. ASSUME NEW i \in 1..(n - 1)
            PROVE  /\ CleanBut(less[i].was, less[i].folder, h)
                   /\ (\A j \in 1..(i - 1) : less[j].folder # less[i].folder) => Clean(less[i].was, less[i].folder)
        <4>1. \A j \in 1..(i - 1) : j \in 1..(n - 1)
          OBVIOUS
        <4> QED
          BY <1>12, <2>1, <2>4, <3>1, <4>1
      <3>3. ASSUME NEW f \in Folders, \A i \in 1..(n - 1) : less[i].folder # f
            PROVE  Clean(acl[f], f)
        <4>1. \A i \in 1..(n - 1) : saved[i].folder # f
          BY <2>1, <3>3
        <4>2. CASE last.folder # f
          <5>1. \A i \in 1..n : i \in 1..(n - 1) \/ i = n
            OBVIOUS
          <5> QED
            BY <1>7, <1>12, <3>1, <4>1, <4>2, <5>1
        <4>3. CASE last.folder = f
          BY <1>6, <1>7, <1>12, <3>1, <4>1, <4>3
        <4> QED
          BY <4>2, <4>3
      <3> QED
        BY <1>12, <3>1, <3>2, <3>3
    <2>9. acl' \in [Folders -> SUBSET AccessEntries] /\ disturbed' \in BOOLEAN
      BY <1>1, <1>11, <1>14
    <2> QED
      BY <1>1, <2>3, <2>5, <2>6, <2>7, <2>8, <2>9, CopiesKeep
  <1> QED
    BY <1>2, <1>3, <1>5, <1>7, <1>13, <1>14 DEF SetAcl

\* One copy less.  From the back, the last copy of a list is written over those before it; from the
\* front, a copy that is written too late is of a folder listed twice.
LEMMA RestoreAclKeeps ==
  ASSUME SandboxInvariant, NEW h \in Helpers, RestoreAcl(h)
  PROVE  SandboxInvariant'
  <1>1. /\ SandboxTyped /\ ListsEntitled /\ Alone /\ Staged(h) /\ Saved(h) /\ UNCHANGED <<exempted, boxes, wfp, boxed>>
        /\ helper[h].pc = "dropFiles" /\ HelperActive(h) /\ helper[h].profile \in Profiles /\ helper[h].saved \in Seq(Restorations)
    BY AtHelper DEF RestoreAcl, HelperAt, HelperActive
  <1>2. acl \in [Folders -> SUBSET AccessEntries] /\ disturbed \in BOOLEAN
    BY <1>1 DEF SandboxTyped
  <1>3. CASE helper[h].saved = <<>>
    <2>1. Goto(h, "dropNetwork") /\ UNCHANGED <<acl, disturbed>> /\ "dropNetwork" \in HelperStages
      BY <1>3 DEF RestoreAcl, HelperStages
    <2>2. PICK r \in HelperRecords :
            /\ Becomes(h, r) /\ r.pc = "dropNetwork" /\ r.profile = helper[h].profile /\ r.saved = helper[h].saved /\ r.forward = helper[h].forward
            /\ r.loopBefore = helper[h].loopBefore /\ r.exempt = helper[h].exempt /\ r.job = helper[h].job /\ r.token = helper[h].token
      BY <1>1, <2>1, GoesTo
    <2>3. Staged(h)'
      BY <1>1, <2>2 DEF Staged, Filtered, BoxRuns, AfterRules, Becomes
    <2>4. boxed' \in [Helpers -> BoxRecords] /\ DOMAIN wfp' = Helpers /\ \A g \in Helpers : boxed'[g] = boxed[g] /\ wfp'[g] = wfp[g]
      BY <1>1 DEF SandboxTyped
    <2> QED
      BY <1>1, <1>3, <2>1, <2>2, <2>3, <2>4, CalmKeeps
  <1>4. CASE helper[h].saved # <<>>
    <2>1. PICK saved \in Copies : saved = helper[h].saved
      BY <1>1 DEF Copies
    <2>2. PICK n \in Nat : n = Len(saved)
      BY <1>4, <2>1, LastLess
    <2>3. n >= 1 /\ DOMAIN saved = 1..n /\ n \in 1..n /\ 1 \in 1..n /\ Head(saved) = saved[1] /\ saved # <<>>
      BY <1>4, <2>1, <2>2, LastLess, FirstLess
    \* What is left are copies at other places than the one that is written back.
    <2>4. PICK place \in 1..n, rest \in Copies, shift \in {0, 1} :
            /\ place = (IF helper[h].forward THEN 1 ELSE n) /\ shift = (IF helper[h].forward THEN 1 ELSE 0)
            /\ rest = (IF helper[h].forward THEN Tail(saved) ELSE Front(saved))
            /\ DOMAIN rest = 1..(n - 1) /\ \A i \in 1..(n - 1) : rest[i] = saved[i + shift]
      <3>1. CASE helper[h].forward
        <4>1. Tail(saved) \in Copies /\ DOMAIN Tail(saved) = 1..(n - 1) /\ \A i \in 1..(n - 1) : Tail(saved)[i] = saved[i + 1]
          BY <2>1, <2>2, <2>3, FirstLess
        <4> QED
          BY <2>3, <3>1, <4>1
      <3>2. CASE ~helper[h].forward
        <4>1. Front(saved) \in Copies /\ DOMAIN Front(saved) = 1..(n - 1) /\ \A i \in 1..(n - 1) : Front(saved)[i] = saved[i]
          BY <2>1, <2>2, <2>3, LastLess DEF Front
        <4>2. \A i \in 1..(n - 1) : i + 0 = i
          OBVIOUS
        <4> QED
          BY <2>3, <3>2, <4>1, <4>2
      <3> QED
        BY <3>1, <3>2
    <2>5. PICK next \in Restorations : next = saved[place]
      BY <2>1, <2>3 DEF Copies
    <2>6. next.folder \in Folders /\ next.was \in SUBSET AccessEntries
      BY DEF Restorations
    <2>7. /\ helper' = [helper EXCEPT ![h].saved = rest]
          /\ \/ acl' = [acl EXCEPT ![next.folder] = next.was] /\ UNCHANGED disturbed
             \/ UNCHANGED acl /\ disturbed' = TRUE
      <3>1. next = (IF helper[h].forward THEN Head(saved) ELSE Last(saved))
        BY <2>2, <2>3, <2>4, <2>5 DEF Last
      <3> QED
        BY <1>4, <2>1, <2>4, <3>1 DEF RestoreAcl
    <2>8. PICK r \in HelperRecords :
            /\ Becomes(h, r) /\ r.pc = helper[h].pc /\ r.profile = helper[h].profile /\ r.saved = rest /\ r.forward = helper[h].forward
            /\ r.loopBefore = helper[h].loopBefore /\ r.exempt = helper[h].exempt /\ r.job = helper[h].job /\ r.token = helper[h].token
      <3>0. SandboxTyped /\ rest \in Copies
        BY <1>1, <2>4
      <3> DEFINE q == [helper[h] EXCEPT !.saved = rest]
      <3>1. helper[h] \in HelperRecords
        BY <3>0, HelperTyped
      <3>2. q \in HelperRecords
        BY <3>0, <3>1 DEF HelperRecords, Copies
      <3>3. /\ q.pc = helper[h].pc /\ q.profile = helper[h].profile /\ q.saved = rest /\ q.forward = helper[h].forward
          /\ q.loopBefore = helper[h].loopBefore /\ q.exempt = helper[h].exempt /\ q.job = helper[h].job /\ q.token = helper[h].token
        BY <3>1 DEF HelperRecords
      <3>4. helper' = [helper EXCEPT ![h] = q]
        BY <2>7, <3>0, <3>1 DEF SandboxTyped
      <3> HIDE DEF q
      <3>5. PICK r \in HelperRecords : r = q
        BY <3>2
      <3>6. Becomes(h, r)
        BY <3>0, <3>4, <3>5, HelperBecomes
      <3> QED
        BY <3>3, <3>5, <3>6
    <2>9. \A i \in 1..(n - 1) : i + shift \in 1..n /\ i + shift # place
      BY <2>4
    <2>10. \A i \in 1..n : i = place \/ \E k \in 1..(n - 1) : i = k + shift
      <3>1. CASE helper[h].forward
        <4>1. \A i \in 1..n : i = 1 \/ (i - 1 \in 1..(n - 1) /\ i = (i - 1) + 1)
          OBVIOUS
        <4> QED
          BY <2>4, <3>1, <4>1
      <3>2. CASE ~helper[h].forward
        <4>1. \A i \in 1..n : i = n \/ (i \in 1..(n - 1) /\ i = i + 0)
          OBVIOUS
        <4> QED
          BY <2>4, <3>2, <4>1
      <3> QED
        BY <3>1, <3>2
    <2>11. \A i \in 1..n, j \in 1..n : i # j /\ saved[i].folder = saved[j].folder => ListedTwice(helper[h].profile, saved[i].folder)
      BY <1>1, <2>1, <2>3 DEF Saved
    <2>12. Staged(h)'
      BY <1>1, <2>8 DEF Staged, Filtered, BoxRuns, AfterRules, Becomes
    <2>13. Saved(h)'
      <3>1. helper'[h].saved = rest /\ helper'[h].pc = "dropFiles" /\ helper'[h].profile = helper[h].profile
        BY <1>1, <2>8 DEF Becomes
      <3>2. ASSUME NEW i \in 1..(n - 1), NEW j \in 1..(n - 1), i # j, rest[i].folder = rest[j].folder
            PROVE  ListedTwice(helper[h].profile, rest[i].folder)
        <4>1. i + shift # j + shift
          BY <2>4, <3>2
        <4> QED
          BY <2>4, <2>9, <2>11, <3>2, <4>1
      <3> QED
        BY <2>4, <3>1, <3>2 DEF Saved
    <2>14. \A f \in Folders : Entitled(acl[f], f)
      BY <1>1 DEF ListsEntitled
    <2>15. \A i \in 1..n : Entitled(saved[i].was, saved[i].folder)
      BY <1>1, <2>1, <2>3 DEF ListsEntitled
    <2>16. (\A f \in Folders : Entitled(acl'[f], f)) /\ \A i \in DOMAIN r.saved : Entitled(r.saved[i].was, r.saved[i].folder)
      <3>1. \A i \in 1..(n - 1) : Entitled(rest[i].was, rest[i].folder)
        BY <2>4, <2>9, <2>15
      <3>2. \A f \in Folders : Entitled(acl'[f], f)
        BY <1>2, <2>5, <2>6, <2>7, <2>14, <2>15
      <3> QED
        BY <2>4, <2>8, <3>1, <3>2
    <2>17. ASSUME ~disturbed'
           PROVE  /\ \A f \in Folders : CleanBut(acl'[f], f, h)
                  /\ \A i \in DOMAIN r.saved :
                        /\ CleanBut(r.saved[i].was, r.saved[i].folder, h)
                        /\ (\A j \in 1..(i - 1) : r.saved[j].folder # r.saved[i].folder) => Clean(r.saved[i].was, r.saved[i].folder)
                  /\ \A f \in Folders : (\A i \in DOMAIN r.saved : r.saved[i].folder # f) => Clean(acl'[f], f)
      <3>1. /\ ~disturbed /\ r.saved = rest /\ DOMAIN rest = 1..(n - 1) /\ acl'[next.folder] = next.was
            /\ \A f \in Folders : f # next.folder => acl'[f] = acl[f]
        BY <1>2, <2>4, <2>6, <2>7, <2>8, <2>17
      <3>2. AloneLists(h) /\ \A g \in Helpers : HelperActive(g) => g = h
        BY <1>1, <3>1 DEF Alone
      <3>3. \A f \in Folders : CleanBut(acl[f], f, h)
        BY <3>2 DEF AloneLists
      <3>4. \A i \in 1..n :
               /\ CleanBut(saved[i].was, saved[i].folder, h)
               /\ (\A j \in 1..(i - 1) : saved[j].folder # saved[i].folder) => Clean(saved[i].was, saved[i].folder)
        BY <2>1, <2>3, <3>2 DEF AloneLists, FirstCopy
      <3>5. ASSUME NEW f \in Folders, \A i \in 1..n : saved[i].folder # f
            PROVE  Clean(acl[f], f)
        BY <1>1, <2>1, <2>3, <3>1, <3>2, <3>5 DEF Alone
      <3>6. \A f \in Folders : CleanBut(acl'[f], f, h)
        BY <2>5, <3>1, <3>3, <3>4
      <3>7. ASSUME NEW i \in 1..(n - 1), \A j \in 1..(i - 1) : rest[j].folder # rest[i].folder
            PROVE  Clean(rest[i].was, rest[i].folder)
        <4>1. CASE ~helper[h].forward
          <5>1. \A j \in 1..(n - 1) : rest[j] = saved[j] /\ j \in 1..n
            BY <2>4, <4>1
          <5>2. \A j \in 1..(i - 1) : j \in 1..(n - 1)
            OBVIOUS
          <5> QED
            BY <3>4, <3>7, <5>1, <5>2
        <4>2. CASE helper[h].forward /\ saved[1].folder # saved[i + 1].folder
          <5>1. \A j \in 1..(n - 1) : rest[j] = saved[j + 1] /\ j + 1 \in 1..n
            BY <2>4, <4>2
          <5>2. \A j \in 1..((i + 1) - 1) : j = 1 \/ (j - 1 \in 1..(i - 1) /\ j - 1 \in 1..(n - 1) /\ (j - 1) + 1 = j)
            OBVIOUS
          <5>3. \A j \in 1..((i + 1) - 1) : saved[j].folder # saved[i + 1].folder
            BY <3>7, <4>2, <5>1, <5>2
          <5> QED
            BY <3>4, <5>1, <5>3
        <4>3. CASE helper[h].forward /\ saved[1].folder = saved[i + 1].folder
          <5>1. rest[i] = saved[i + 1] /\ i + 1 \in 1..n /\ i + 1 # 1
            BY <2>4, <4>3
          <5>2. ListedTwice(helper[h].profile, saved[i + 1].folder)
            BY <2>3, <2>11, <4>3, <5>1
          <5>3. Excused(h, saved[i + 1].folder)
            BY <1>1, <4>3, <5>2 DEF Excused
          <5> QED
            BY <3>4, <5>1, <5>3 DEF Clean, CleanBut
        <4> QED
          BY <4>1, <4>2, <4>3
      <3>8. \A i \in 1..(n - 1) : CleanBut(rest[i].was, rest[i].folder, h)
        BY <2>4, <2>9, <3>4
      <3>9. ASSUME NEW f \in Folders, \A i \in 1..(n - 1) : rest[i].folder # f
            PROVE  Clean(acl'[f], f)
        <4>1. ASSUME NEW i \in 1..n, i # place
              PROVE  saved[i].folder # f
          <5>1. PICK k \in 1..(n - 1) : i = k + shift
            BY <2>10, <4>1
          <5>2. rest[k] = saved[k + shift]
            BY <2>4, <5>1
          <5> QED
            BY <3>9, <5>1, <5>2
        <4>2. CASE next.folder # f
          BY <2>5, <3>1, <3>5, <4>1, <4>2
        <4>3. CASE next.folder = f
          <5>1. \A j \in 1..(place - 1) : j \in 1..n /\ j # place
            BY <2>4
          <5> QED
            BY <2>5, <3>1, <3>4, <4>1, <4>3, <5>1
        <4> QED
          BY <4>2, <4>3
      <3>10. \A f \in Folders : (\A i \in DOMAIN r.saved : r.saved[i].folder # f) => Clean(acl'[f], f)
        BY <3>1, <3>9
      <3>11. ASSUME NEW i \in DOMAIN r.saved
             PROVE  /\ CleanBut(r.saved[i].was, r.saved[i].folder, h)
                    /\ (\A j \in 1..(i - 1) : r.saved[j].folder # r.saved[i].folder) => Clean(r.saved[i].was, r.saved[i].folder)
        <4>1. i \in 1..(n - 1) /\ r.saved = rest
          BY <3>1
        <4> QED
          BY <3>7, <3>8, <4>1
      <3> QED
        BY <3>6, <3>10, <3>11
    <2>18. acl' \in [Folders -> SUBSET AccessEntries] /\ disturbed' \in BOOLEAN /\ (disturbed => disturbed')
      BY <1>2, <2>6, <2>7
    <2> QED
      BY <1>1, <2>8, <2>12, <2>13, <2>16, <2>17, <2>18, CopiesKeep
  <1> QED
    BY <1>3, <1>4

(***************************************************************************)
(* Every step keeps the invariant.                                         *)
(***************************************************************************)
LEMMA SandboxKeeps == SandboxInvariant /\ [SandboxNext]_sandboxVars => SandboxInvariant'
  <1> SUFFICES ASSUME SandboxInvariant, [SandboxNext]_sandboxVars
               PROVE  SandboxInvariant'
    OBVIOUS
  <1>1. CASE UNCHANGED sandboxVars
    <2>1. UNCHANGED <<helper, acl, exempted, boxes, wfp, boxed, disturbed>>
      BY <1>1 DEF sandboxVars, hostState
    <2>2. SandboxTyped' /\ ListsEntitled'
      BY <2>1 DEF SandboxInvariant, SandboxTyped, ListsEntitled, Entitled, Exemptible
    <2>3. Alone'
      BY <2>1 DEF SandboxInvariant, Alone, AloneLists, AloneRest, FirstCopy, Clean, CleanBut, Excused, HelperActive
    <2>4. \A h \in Helpers : Staged(h)' /\ Saved(h)'
      BY <2>1 DEF SandboxInvariant, Staged, Saved, Filtered, BoxRuns
    <2> QED
      BY <2>2, <2>3, <2>4 DEF SandboxInvariant
  <1>2. ASSUME NEW h \in Helpers, NEW p \in Profiles, NEW good \in BOOLEAN, ParseInvocation(h, p, good)
        PROVE  SandboxInvariant'
    BY <1>2, ParseInvocationKeeps
  <1>3. ASSUME NEW h \in Helpers,
               CreateContainer(h) \/ ApplyFilters(h) \/ ReadExemptions(h) \/ SetExemptions(h) \/ NoNetwork(h) \/ ReadAcl(h) \/ SetAcl(h)
        PROVE  SandboxInvariant'
    BY <1>3, CreateContainerKeeps, ApplyFiltersKeeps, ReadExemptionsKeeps, SetExemptionsKeeps, NoNetworkKeeps, ReadAclKeeps, SetAclKeeps
  <1>4. ASSUME NEW h \in Helpers,
               CreateToken(h) \/ CreateJob(h) \/ SpawnSuspended(h) \/ AssignToJob(h) \/ ResumeCommand(h) \/ Waited(h) \/ CommandSteps(h)
        PROVE  SandboxInvariant'
    BY <1>4, CreateTokenKeeps, CreateJobKeeps, SpawnSuspendedKeeps, AssignToJobKeeps, ResumeCommandKeeps, WaitedKeeps, CommandStepsKeeps
  <1>5. ASSUME NEW h \in Helpers, CloseJob(h) \/ RestoreAcl(h) \/ RestoreNetwork(h) \/ DeleteContainer(h) \/ KillHelper(h)
        PROVE  SandboxInvariant'
    BY <1>5, CloseJobKeeps, RestoreAclKeeps, RestoreNetworkKeeps, DeleteContainerKeeps, KillHelperKeeps
  <1> QED
    BY <1>1, <1>2, <1>3, <1>4, <1>5 DEF SandboxNext

\* A command of the Windows helper runs only where it should and reaches and opens no more than its
\* profile says, and a helper that is alone leaves nothing in the lists of the host: for any number of
\* helpers, profiles, folders and destinations, wherever helpers fail or are killed.
THEOREM SandboxIsSound == SandboxSpec => []WindowsSound
  <1>1. SandboxInit => SandboxInvariant
    BY SandboxInitially
  <1>2. SandboxInvariant /\ [SandboxNext]_sandboxVars => SandboxInvariant'
    BY SandboxKeeps
  <1>3. SandboxInvariant => WindowsSound
    BY SandboxInvariantIsSound
  <1> QED
    BY <1>1, <1>2, <1>3, PTL DEF SandboxSpec
=============================================================================
