----------------------------- MODULE MCProviders -----------------------------
(* What stands between a run and a model, one part per behaviour: an ACP agent *)
(* process, the codex app-server, a streamed request of the native agent, or   *)
(* the tokens such requests are made with.                                     *)
EXTENDS AgentSessions, LlmStream, TokenAuth

VARIABLE side    \* the part this behaviour is about

allVars == <<side, acpVars, codexVars, llmVars, authVars>>

MCInit ==
  /\ side \in {"acp", "codex", "llm", "auth"} /\ AcpInit /\ CodexInit /\ LlmInit /\ AuthInit
  /\ side # "acp" => ~acpConfig.mode /\ ~acpConfig.model
  /\ side # "llm" => llm.family = "chat"
  /\ side # "auth" => cred = NoCred
AcpSide(A) == side = "acp" /\ A /\ UNCHANGED <<side, codexVars, llmVars, authVars>>
CodexSide(A) == side = "codex" /\ A /\ UNCHANGED <<side, acpVars, llmVars, authVars>>
LlmSide(A) == side = "llm" /\ A /\ UNCHANGED <<side, acpVars, codexVars, authVars>>
AuthSide(A) == side = "auth" /\ A /\ UNCHANGED <<side, acpVars, codexVars, llmVars>>
MCNext == AcpSide(AcpNext) \/ CodexSide(CodexNext) \/ LlmSide(LlmNext) \/ AuthSide(AuthNext)
\* The fairness of AcpSpec, CodexSpec and LlmSpec.
MCFairness ==
  /\ WF_allVars(AcpSide(AcpThread)) /\ WF_allVars(CodexSide(CodexThread))
  /\ WF_allVars(LlmSide(LlmReader)) /\ WF_allVars(LlmSide(LlmSender))
MCSpec == MCInit /\ [][MCNext]_allVars /\ MCFairness

\* A cancelled run gets its provider back: the ACP thread ends (once its handshake is
\* answered), the codex session ends, and the request ends (once its token is resolved).
CancelEndsProviders == CancelEndsAcp /\ CancelEndsCodex /\ CancelEndsStream

\* The two kinds of agent process, each under its session: what is asked of them, what they may
\* do and what the run hears of them.  And the streamed answer of a model is put together as it
\* was sent.
ProvidersHold ==
    /\ side = "acp" => AcpSound
    /\ side = "codex" => CodexSound
    /\ side = "llm" => StreamSound
=============================================================================
