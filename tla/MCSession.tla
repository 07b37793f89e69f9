------------------------------ MODULE MCSession ------------------------------
(* What the runs of a session report and who hears of it, in three independent *)
(* sides: the run of a native agent around its turns, the provider's reports   *)
(* with their receipts, results and budget, and the event stream to the        *)
(* desktop.  A behaviour takes one side.                                       *)
EXTENDS SessionStream, RunReports, NativeAgent

VARIABLE side

Connections == 1..(MaxLosses + 1)

SomeParents == <<0, 1>>
SomeSources == <<"user", "subagent", "forked">>
SomeContracts == <<"none", "test", "test">>
Tests(passed, failed) == [kind |-> "test", total |-> 1, passed |-> passed, failed |-> failed, skipped |-> 0]
SomeResults == {Tests(1, 0), Tests(2, 2), [kind |-> "plan", steps |-> <<{2}, {1}>>]}
RunLimit == [tokens |-> 2, tools |-> 1]
FamilyLimit == [tokens |-> 3, tools |-> 1]

Dispatched(ctx, model, prov, cred, forked, prompt, mcp, root) ==
    [contextValid |-> ctx, model |-> model, provider |-> prov, credentials |-> cred, forked |-> forked,
     prompt |-> prompt, objective |-> "goal", mcp |-> mcp, rootUsable |-> root]
Said(r, t) == [role |-> r, text |-> <<t>>]
SomeDispatches ==
    {Dispatched(TRUE, "m", "openai", TRUE, <<>>, "p", {"mcp__x"}, TRUE),
     Dispatched(TRUE, "m", "openai", TRUE, <<Said("system", "q"), Said("user", "u")>>, "p", {}, TRUE),
     Dispatched(TRUE, "m", "openai", TRUE, <<Said("system", "p")>>, "p", {}, TRUE),
     Dispatched(TRUE, "m", "openai", TRUE, <<>>, "", {"mcp__x"}, FALSE),
     Dispatched(FALSE, "m", "openai", TRUE, <<>>, "p", {}, TRUE),
     Dispatched(TRUE, "", "openai", TRUE, <<>>, "p", {}, TRUE),
     Dispatched(TRUE, "m", "unknown", TRUE, <<>>, "p", {}, TRUE),
     Dispatched(TRUE, "m", "anthropic", FALSE, <<>>, "p", {}, TRUE)}
SomeReads == [lines : 0..3, offset : 0..3, limit : 0..7]
SomeTurned == [stop : {"maxTokens", "toolUse"}, calls : {<<>>, <<"good", "null">>, <<"broken", "good">>}]

SidesInit ==
  /\ side \in {"stream", "reports", "native"}
  /\ StreamInit /\ ReportInit /\ NativeInit
  /\ side # "native" => dispatch.provider = "unknown" /\ shelf = <<>>
SidesNext ==
  \/ (side = "stream" /\ StreamNext /\ UNCHANGED <<side, reportVars, nativeVars>>)
  \/ (side = "reports" /\ ReportNext /\ UNCHANGED <<side, streamVars, nativeVars>>)
  \/ (side = "native" /\ NativeNext /\ UNCHANGED <<side, streamVars, reportVars>>)
=============================================================================
