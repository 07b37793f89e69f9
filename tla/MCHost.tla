------------------------------- MODULE MCHost -------------------------------
(* What a run is given and what it leaves, in four independent sides: its       *)
(* authority along chains of contexts, its worktree and its claims, the         *)
(* provider and model it is to use, and the Windows helper that confines its    *)
(* commands.  A behaviour takes one side.                                       *)
EXTENDS Authority, Workspaces, AgentRuntime, WindowsSandbox, TLC

VARIABLE side

SomeRoots == {Repo, <<"repo", "pkg">>}

Model(k, i, r) == [key |-> k, id |-> i, rank |-> r]
Upstream(k, r, t, d) == [key |-> k, id |-> k, rank |-> r, tools |-> t, deprecated |-> d]
Served == {"anthropic", "groq", "openai"}
SomeEmbedded == [p \in Served |-> {Model("m1", "m1", 1), Model("m2", "m2", 2)}]
SomeUpstreams ==
  {[p \in Served |-> IF p = "openai" THEN {Upstream("m1", 1, TRUE, TRUE), Upstream("m2", 2, TRUE, FALSE)} ELSE {Upstream("m1", 1, TRUE, FALSE)}],
   [p \in Served |-> {Upstream("m1", 1, TRUE, FALSE), Upstream("m2", 2, p # "openai", FALSE)}],
   [p \in Served |-> {Upstream("m1", 1, p # "groq", FALSE)}],
   [p \in Served \ {"groq"} |-> {Upstream("m1", 1, TRUE, FALSE)}]}
SomeLists == {<<>>, <<[id |-> "m1", default |-> TRUE]>>}
SomeTouched == {<<"codex", "safe">>, <<"openai", "safe">>}
Patched(a, b, c) == [provider |-> a, model |-> b, auth |-> c, mode |-> Keep]
SomePatches == {Patched(Keep, "m1", Keep), Patched(Keep, None, Keep), Patched("openai", "m2", None), Patched("acp", Keep, "openai-key")}

Entry(f, h, a, x, p) == [form |-> f, host |-> h, addr |-> a, prefix |-> x, port |-> p]
Confines(policy_, entries, reads, writes) == [policy |-> policy_, entries |-> entries, reads |-> reads, writes |-> writes]
SomeProfiles ==
  {Confines("off", {}, <<"f">>, <<"f">>), Confines("loopback", {}, <<>>, <<"f">>), Confines("open", {}, <<>>, <<>>),
   Confines("allowlist", {Entry("hostPort", "v4", 1, -1, 80), Entry("host", "name", 0, -1, 0),
                          Entry("bracketedPort", "v6", 1, -1, 80)}, <<"f">>, <<>>),
   Confines("allowlist", {Entry("port", "none", 0, -1, 443), Entry("host", "v4", 2, 1, 0)}, <<>>, <<>>)}
SomeDestinations == [family : {"v4", "v6"}, addr : 0..3, port : {80, 443}] \cup [family : {"loop"}, addr : {0}, port : {80}]
SomeArguments == UNION {[1..n -> {"a", "space", "quote", "slash"}] : n \in 0..2}

SidesInit ==
  /\ side \in {"authority", "workspaces", "runtime", "windows"}
  /\ AuthorityInit /\ WorkspacesInit /\ RuntimeInit /\ SandboxInit
SidesNext ==
  \/ (side = "authority" /\ AuthorityNext /\ UNCHANGED <<workspaceVars, runtimeVars, sandboxVars, side>>)
  \/ (side = "workspaces" /\ WorkspacesNext /\ UNCHANGED <<authorityVars, runtimeVars, sandboxVars, side>>)
  \/ (side = "runtime" /\ RuntimeNext /\ UNCHANGED <<authorityVars, workspaceVars, sandboxVars, side>>)
  \/ (side = "windows" /\ SandboxNext /\ UNCHANGED <<authorityVars, workspaceVars, runtimeVars, side>>)

\* The runs that ask for a workspace are interchangeable, and so are the helpers.
Symmetric == Permutations(Capsules) \cup Permutations(Helpers)

\* The runs of a chain are interchangeable, so they get their contexts in order; and the
\* behaviours that start a process end there.
ChainInOrder ==
    /\ Has("run2") => Has("run1")
    /\ Has("run3") => Has("run2") /\ parent["run2"] = "run1"
    /\ proc = NoProcess
-----------------------------------------------------------------------------
\* The agent runtime keeps, shows and starts runs with profiles and models that exist; and a command
\* that the Windows helper starts gets its arguments as they were given.
RuntimeHolds == (side = "runtime" => RuntimeSound) /\ (side = "windows" => ArgumentsKept)
=============================================================================
