------------------------------ MODULE Authority ------------------------------
(***************************************************************************)
(* What a run may do to the machine.  A run gets its execution context     *)
(* once, compiled from the profile of its session, from its parent's       *)
(* context or from the one it forks, and keeps it.  Each process started   *)
(* for the run is given a sandbox made from that context and whatever the  *)
(* program itself needs, and the helper confines it with what the kernel   *)
(* offers.  A path is the sequence of its names, a grant a set of roots.   *)
(***************************************************************************)
EXTENDS Naturals, Sequences

CONSTANTS Runs,     \* the names of the runs
          Roots     \* the workspace roots of the sessions, in the repository

VARIABLES ctx,      \* run |-> its execution context
          parent,   \* run |-> the run its context was derived from
          proc      \* the process started last

authorityVars == <<ctx, parent, proc>>

Path == Seq(STRING)
Repo == <<"repo">>
Artifacts == <<"artifacts">>
Cache == <<"home", "cache">>
TempDir == <<"tmp">>
System == <<"usr">>
HomeBin == <<"home", "bin">>
StartsWith(path, root) == Len(root) <= Len(path) /\ \A i \in 1..Len(root) : path[i] = root[i]

\* The workspace root of a session is a directory of its repository.
ASSUME RootsInRepo == \A root \in Roots : root \in Path /\ StartsWith(root, Repo)

PathAllowed(roots, path) == \E root \in roots : StartsWith(path, root)
Within(roots, bound) == \A root \in roots : PathAllowed(bound, root)

Permissions == {"readOnly", "workspaceWrite", "workspaceWriteWithApproval", "repoWriteWithApproval"}
Asking == {"workspaceWriteWithApproval", "repoWriteWithApproval"}
Modes == {"readonly", "workspaceWrite", "worktreeWrite", "repoWriteWithApproval", "remoteWorker"}
Contexts == [root: Path, cwd: Path, mode: Modes, reads: SUBSET Path, writes: SUBSET Path,
             permission: Permissions, exec: {"allowAll", "denied"}, network: {"open", "none"}]
NoContext == [permission |-> "none"]
NoParent == "no run"
NoProcess == [run |-> NoParent]
Has(r) == ctx[r] # NoContext

-----------------------------------------------------------------------------
(***************************************************************************)
(* From a profile, or from the parent's context, to a context.             *)
(***************************************************************************)
RuntimePolicy(profileMode, scope, laneAllowsNetwork) ==
    IF scope = "network" /\ ~laneAllowsNetwork THEN "deny" ELSE profileMode

Compiled(profileMode, laneAllowsNetwork) ==
    [permission |-> CASE RuntimePolicy(profileMode, "write", laneAllowsNetwork) = "deny" -> "readOnly"
                      [] RuntimePolicy(profileMode, "write", laneAllowsNetwork) = "requireApproval"
                           -> "workspaceWriteWithApproval"
                      [] OTHER -> "workspaceWrite",
     exec |-> IF RuntimePolicy(profileMode, "exec", laneAllowsNetwork) = "deny"
              THEN "denied" ELSE "allowAll",
     network |-> IF RuntimePolicy(profileMode, "network", laneAllowsNetwork) = "deny"
                 THEN "none" ELSE "open"]

\* The roots a permission opens.
SandboxRoots(root, cwd, permission) ==
    [reads |-> {root, cwd} \union (IF permission = "repoWriteWithApproval" THEN {Repo} ELSE {}),
     writes |-> CASE permission = "readOnly" -> {}
                  [] permission = "repoWriteWithApproval" -> {Repo, Artifacts}
                  [] OTHER -> {cwd, Artifacts}]

\* A worktree of the run, and in it the directory the workspace root stands for.
WorktreeRoot(r) == <<"repo", "target", r>>
EffectiveCwd(r, root, mode) ==
    IF mode = "worktreeWrite" THEN WorktreeRoot(r) \o SubSeq(root, Len(Repo) + 1, Len(root)) ELSE root

Context(r, root, mode, policy) ==
    LET cwd == EffectiveCwd(r, root, mode)
        roots == SandboxRoots(root, cwd, policy.permission)
    IN  [root |-> root, cwd |-> cwd, mode |-> mode, reads |-> roots.reads, writes |-> roots.writes,
         permission |-> policy.permission, exec |-> policy.exec, network |-> policy.network]

MayWrite(c, path) == c.permission # "readOnly" /\ PathAllowed(c.writes, path)

\* What the requested scope needs of the parent.
ChildAllowed(p, mode) ==
    /\ mode # "remoteWorker"
    /\ PathAllowed(p.reads, p.root)
    /\ mode = "workspaceWrite" => MayWrite(p, p.root)
    /\ mode = "worktreeWrite" => MayWrite(p, p.cwd)
    /\ mode = "repoWriteWithApproval" => MayWrite(p, Repo)

\* Mutant: a writing child of an asking parent no longer asks.
ChildKeepsWorkspaceWrite(permission) ==
    IF permission = "readOnly" THEN "readOnly" ELSE "workspaceWrite"

ChildWorkspaceWrite(permission) ==
    IF permission \in Asking THEN "workspaceWriteWithApproval" ELSE permission

ChildPolicy(p, mode) ==
    [permission |-> CASE mode = "readonly" -> "readOnly"
                      [] mode = "repoWriteWithApproval" -> "repoWriteWithApproval"
                      [] OTHER -> ChildWorkspaceWrite(p.permission),
     exec |-> p.exec,
     network |-> p.network]

\* The scope a fork asks for: its parent's own.
ForkMode(p) ==
    CASE p.mode = "readonly" -> "readonly"
      [] p.mode = "worktreeWrite" -> "worktreeWrite"
      [] p.permission = "repoWriteWithApproval" -> "repoWriteWithApproval"
      [] OTHER -> "workspaceWrite"

\* A root run asks for workspace write, whatever its profile.
StartRoot(r, root, profileMode, laneAllowsNetwork) ==
    /\ ~Has(r)
    /\ ctx' = [ctx EXCEPT ![r] = Context(r, root, "workspaceWrite", Compiled(profileMode, laneAllowsNetwork))]
    /\ UNCHANGED <<parent, proc>>

Derive(r, p, mode) ==
    /\ ~Has(r) /\ Has(p)
    /\ ChildAllowed(ctx[p], mode)
    /\ ctx' = [ctx EXCEPT ![r] = Context(r, ctx[p].root, mode, ChildPolicy(ctx[p], mode))]
    /\ parent' = [parent EXCEPT ![r] = p]
    /\ UNCHANGED proc

SpawnChild(r, p) == \E mode \in Modes : Derive(r, p, mode)
Fork(r, p) == Has(p) /\ Derive(r, p, ForkMode(ctx[p]))

-----------------------------------------------------------------------------
(***************************************************************************)
(* From a context to a process.                                            *)
(***************************************************************************)
Native == {"shell", "mcp"}
Vendors == {"claude", "cursor", "opencode", "copilot"}
Programs == Native \union Vendors \union {"codexAcp", "codexServer"}

\* The native harness can hold any context that lets processes run.
NativeAllowed(c) == c.exec = "allowAll"

\* A command in the home directory would open that directory to the server it starts.
McpCommandAllowed(c, commandDir) ==
    StartsWith(commandDir, <<"home">>) => StartsWith(commandDir, c.cwd) \/ StartsWith(commandDir, Cache)
CodexCommandAllowed(commandDir) ==
    StartsWith(commandDir, <<"home">>) => StartsWith(commandDir, Cache)

\* Only Codex keeps its tools off the network, and only while no approval can take a tool
\* out of its sandbox; the other programs share the network with their tools.
AcpAllowed(program, c) ==
    /\ c.exec = "allowAll"
    /\ \/ c.network = "open"
       \/ program = "codexAcp" /\ c.permission \notin Asking

\* An HTTP extension is a connection of the program itself.
HttpMcpAllowed(c, httpMcp) == httpMcp => c.network = "open"

\* The same for the app server, whose policy is sent with every turn.
CodexTurnAllowed(c) ==
    /\ c.exec = "allowAll"
    /\ c.network = "none" => c.permission \notin Asking

LaunchAllowed(program, c, commandDir, httpMcp) ==
    CASE program = "shell" -> NativeAllowed(c)
      [] program = "mcp" -> /\ NativeAllowed(c) /\ HttpMcpAllowed(c, httpMcp)
                            /\ McpCommandAllowed(c, commandDir)
      [] program = "codexServer" -> CodexTurnAllowed(c) /\ CodexCommandAllowed(commandDir)
      [] OTHER -> AcpAllowed(program, c) /\ HttpMcpAllowed(c, httpMcp)

\* The sandbox asked for: the context's roots and the directories the program itself needs.
NativePerimeter(c, reads, writes) ==
    [reads |-> c.reads \union reads, writes |-> c.writes \union writes,
     network |-> IF c.network = "none" THEN "off" ELSE "open"]
McpPerimeter(c, commandDir) ==
    NativePerimeter(c, {Cache, TempDir, System, commandDir}, {Cache, TempDir})
AcpPerimeter(c, commandDir) ==
    [reads |-> c.reads \union {Cache, System, commandDir}, writes |-> c.writes \union {Cache},
     network |-> "open"]
CodexPerimeter(c, commandDir) ==
    [reads |-> c.reads \union {Cache, TempDir, System, commandDir},
     writes |-> c.writes \union {Cache, TempDir}, network |-> "open"]
Perimeter(program, c, commandDir) ==
    CASE program = "shell" -> NativePerimeter(c, {}, {})
      [] program = "mcp" -> McpPerimeter(c, commandDir)
      [] program = "codexServer" -> CodexPerimeter(c, commandDir)
      [] OTHER -> AcpPerimeter(c, commandDir)

\* What the program is told of its tools: whether they reach the network, and when they ask.
CodexTurnPolicy(c) ==
    [network |-> IF c.network = "open" THEN "open" ELSE "off",
     asks |-> IF c.permission \in Asking THEN "onRequest" ELSE "never",
     writes |-> IF c.permission = "workspaceWrite" THEN c.writes ELSE {}]
CodexArgs(c) == CodexTurnPolicy(c)
ClaudeSessionMode(c) ==
    CASE c.permission = "readOnly" -> "plan"
      [] c.permission \in Asking -> "default"
      [] OTHER -> "bypassPermissions"
CopilotSessionMode(c) == IF c.permission = "readOnly" THEN "plan" ELSE "agent"
VendorConfig(program, c) ==
    [network |-> "open", writes |-> c.writes,
     asks |-> CASE program = "claude" -> ClaudeSessionMode(c)
                [] program = "copilot" -> CopilotSessionMode(c)
                [] OTHER -> "vendor"]
ToolPolicy(program, c) ==
    CASE program \in Native -> [network |-> Perimeter(program, c, System).network,
                                asks |-> "engine", writes |-> c.writes]
      [] program = "codexServer" -> CodexTurnPolicy(c)
      [] program = "codexAcp" -> CodexArgs(c)
      [] OTHER -> VendorConfig(program, c)

\* The keys an ACP program is handed, and the environment the engine leaves a child.
ProviderKeys(program) == IF program \in {"cursor", "opencode"} THEN {"KEY"} ELSE {}
BaseEnv == {"PATH"}
ChildEnv(caller) == BaseEnv \union caller

\* Landlock can enforce the whole profile on this kernel.
LandlockReaches(host, perimeter) ==
    \/ host.landlock = "tcp"
    \/ host.landlock = "files" /\ perimeter.network = "open"

\* Bubblewrap closes the network, and shows the environment it is given in its arguments.
BwrapStands(host, perimeter, caller) ==
    perimeter.network = "off" /\ host.bwrap /\ caller = {}

SandboxStrategy(host, perimeter, caller) ==
    IF LandlockReaches(host, perimeter) THEN "landlock"
    ELSE IF BwrapStands(host, perimeter, caller) THEN "bwrap" ELSE "refused"

Platform == {System, <<"etc">>, <<"proc">>}

LandlockConfined(perimeter, caller) ==
    [reads |-> perimeter.reads \union perimeter.writes \union Platform, writes |-> perimeter.writes,
     network |-> perimeter.network, env |-> ChildEnv(caller), arguments |-> {}]
BwrapConfined(perimeter, caller) ==
    [reads |-> perimeter.reads \union perimeter.writes \union Platform, writes |-> perimeter.writes,
     network |-> "off", env |-> BaseEnv, arguments |-> ChildEnv(caller)]

\* The helper closes what it inherited, confines itself, and only then becomes the program.
Launch(r, program, host, commandDir, caller, httpMcp) ==
    /\ Has(r)
    /\ LaunchAllowed(program, ctx[r], commandDir, httpMcp)
    /\ LET perimeter == Perimeter(program, ctx[r], commandDir)
           strategy == SandboxStrategy(host, perimeter, caller)
       IN  /\ strategy # "refused"
           /\ proc' = [run |-> r, tools |-> ToolPolicy(program, ctx[r]),
                       inside |-> IF strategy = "landlock" THEN LandlockConfined(perimeter, caller)
                                                           ELSE BwrapConfined(perimeter, caller)]
    /\ UNCHANGED <<ctx, parent>>

-----------------------------------------------------------------------------
\* What a kernel offers: how far Landlock reaches, and a usable bubblewrap.
Hosts == [landlock: {"none", "files", "tcp"}, bwrap: BOOLEAN]

AuthorityInit ==
    /\ ctx = [r \in Runs |-> NoContext]
    /\ parent = [r \in Runs |-> NoParent]
    /\ proc = NoProcess

AuthorityNext ==
    \E r \in Runs :
        \/ \E root \in Roots, profileMode \in {"requireApproval", "allow", "deny"}, lane \in BOOLEAN :
               StartRoot(r, root, profileMode, lane)
        \/ \E p \in Runs \ {r} : SpawnChild(r, p) \/ Fork(r, p)
        \/ \E program \in Programs, host \in Hosts, commandDir \in {System, HomeBin},
              httpMcp \in BOOLEAN :
               \E caller \in {ProviderKeys(program)} \union
                              (IF program \in {"mcp", "codexServer"} THEN {{"KEY"}} ELSE {}) :
                  Launch(r, program, host, commandDir, caller, httpMcp)

AuthoritySpec == AuthorityInit /\ [][AuthorityNext]_authorityVars

-----------------------------------------------------------------------------
\* Contexts and parents have their types; only a run with a context has a parent.
AuthorityTypeOK ==
    /\ ctx \in [Runs -> Contexts \union {NoContext}]
    /\ parent \in [Runs -> Runs \union {NoParent}]
    /\ \A r \in Runs : parent[r] # NoParent => Has(r) /\ Has(parent[r])

\* No derived context widens the one it came from: it writes and reads nothing its parent
\* could not, its own worktree aside, its processes and network stay closed where its
\* parent's were, and if its parent had to ask before writing then so does it
\* (compile_child_execution_policy, along any chain of children and forks).
ChildWithinParent ==
    \A r \in Runs : parent[r] # NoParent =>
        LET c == ctx[r]
            p == ctx[parent[r]]
            own == IF c.mode = "worktreeWrite" THEN {WorktreeRoot(r)} ELSE {}
        IN  /\ Within(c.writes, p.writes \union own)
            /\ Within(c.reads, p.reads \union p.writes \union own)
            /\ p.exec = "denied" => c.exec = "denied"
            /\ p.network = "none" => c.network = "none"
            /\ p.permission \in Asking => c.permission \in Asking \union {"readOnly"}

\* A process gets what the snapshot of its run grants and the program's own directories, on
\* every host: it writes nothing else, its tools have no network, by any route an approval
\* could open, when the snapshot has none, a read-only run's program is not told to write
\* unasked, and no secret of its environment shows in the arguments of the sandbox.
ProcessWithinContext ==
    proc # NoProcess =>
        LET c == ctx[proc.run]
            inside == proc.inside
        IN  /\ Within(inside.writes, c.writes \union {Cache, TempDir})
            /\ c.exec = "allowAll"
            /\ c.network = "none" => \/ inside.network = "off"
                                     \/ proc.tools.network = "off" /\ proc.tools.asks = "never"
            /\ c.permission \in Asking => proc.tools.asks \notin {"never", "bypassPermissions"}
            /\ inside.arguments \subseteq BaseEnv

\* What a context guarantees: a child has no more than its parent, and no process more than its context.
AuthoritySound == ChildWithinParent /\ ProcessWithinContext
==============================================================================
