---------------------------- MODULE AgentRuntime ----------------------------
(* The agent runtime service: the strategies that are registered at boot, the   *)
(* runtime profiles that clients select and patch, the model catalog that a     *)
(* background task replaces while they do, the model list of the codex CLI and  *)
(* its cache, what a snapshot shows, and the request that a run is started      *)
(* with.  A snapshot and a request read the catalog several times, and it may   *)
(* be replaced between two reads.  A model is a record with the key it has in   *)
(* the catalog, its own id and its rank; other names are strings.               *)
EXTENDS Integers, Sequences, FiniteSets

CONSTANTS
  MaxClients,    \* connections that call the service, one call at a time
  Embedded,      \* the catalog compiled into the daemon: provider -> models
  Upstreams,     \* what the model service may answer: provider -> upstream models
  CodexLists,    \* what `model/list` may answer: sequences of [id, default], <<>> for a failure
  EnvKeys,       \* the strategies whose environment variable is set, for the life of the daemon
  Touched,       \* bound: the profiles that clients name
  Patches,       \* bound: the patches they send
  AskedModels,   \* bound: models named by a run, "" for none
  MaxReplaced,   \* bound on catalog replacements
  MaxFetches,    \* bound on the fetches of the codex model list
  MaxCalls       \* bound on the calls to the service

VARIABLES
  rt,            \* AgentRuntimeState: [sel, profiles, ext]
  catalog,       \* ModelCatalogStore: [gen, models : provider -> set of models]
  codexCache,    \* MODEL_CATALOG_CACHE: [n, fresh, ok, models], n the number of fetches
  call,          \* per client: its call and how far it is
  start,         \* the run that is being started
  calls          \* the calls so far

runtimeVars == <<rt, catalog, codexCache, call, start, calls>>

RtClients == 1 .. MaxClients
None == ""
Keep == "keep"

-----------------------------------------------------------------------------
(* The strategies.                                                             *)
AccessModes == <<"safe", "allow", "deny">>
DefaultRuntimeProfiles(provider, auth, prefix) ==
  [i \in 1 .. 3 |-> [id |-> <<prefix, AccessModes[i]>>, provider |-> provider, model |-> None, auth |-> auth, mode |-> AccessModes[i]]]
AuthRef(id, provider) == [id |-> id, provider |-> provider]
CodexStrategy ==
  [id |-> "codex", kind |-> "codex", auths |-> <<AuthRef("codex-chatgpt", "codex"), AuthRef("codex-key", "codex")>>,
   profiles |-> DefaultRuntimeProfiles("codex", None, "codex")]
OpenAiRuntimeProfiles ==
  DefaultRuntimeProfiles("openai", "openai-key", "openai") \o DefaultRuntimeProfiles("openai", "openai-chatgpt", "openai-chatgpt")
OpenAiStrategy ==
  [id |-> "openai", kind |-> "openai", auths |-> <<AuthRef("openai-key", "openai"), AuthRef("openai-chatgpt", "openai")>>,
   profiles |-> OpenAiRuntimeProfiles]
AnthropicStrategy ==
  [id |-> "anthropic", kind |-> "env", auths |-> <<AuthRef("anthropic-key", "anthropic")>>,
   profiles |-> DefaultRuntimeProfiles("anthropic", "anthropic-key", "anthropic")]
\* One declared provider stands for the four: all of them take a bearer token from a variable.
DeclarativeStrategies ==
  <<[id |-> "groq", kind |-> "env", auths |-> <<AuthRef("groq-api-key", "groq")>>,
     profiles |-> DefaultRuntimeProfiles("groq", "groq-api-key", "groq")]>>
\* The same three modes; the one that denies is called chat.
AcpProfiles ==
  [i \in 1 .. 3 |-> [id |-> <<"acp", <<"safe", "allow", "chat">>[i]>>, provider |-> "acp", model |-> None, auth |-> None, mode |-> AccessModes[i]]]
AcpStrategy == [id |-> "acp", kind |-> "acp", auths |-> <<>>, profiles |-> AcpProfiles]
BuiltInStrategies == <<CodexStrategy, OpenAiStrategy, AnthropicStrategy, AcpStrategy>> \o DeclarativeStrategies

ValidateProfileDescriptor(p, s) ==
  p.provider = s.id /\ (p.auth # None => \E i \in DOMAIN s.auths : s.auths[i].id = p.auth)
\* The registry takes a list of strategies: every name has one owner, and the owner brings it.
FromRegistered(list) ==
  LET Auths == {<<i, j>> \in (DOMAIN list) \X (1 .. 2) : j \in DOMAIN list[i].auths}
      Profs == {<<i, j>> \in (DOMAIN list) \X (1 .. 6) : j \in DOMAIN list[i].profiles}
      Auth(k) == list[k[1]].auths[k[2]]
      Prof(k) == list[k[1]].profiles[k[2]]
  IN /\ \A i, j \in DOMAIN list : list[i].id = list[j].id => i = j
     /\ \A k \in Auths : Auth(k).provider = list[k[1]].id /\ \A l \in Auths : Auth(k).id = Auth(l).id => k = l
     /\ \A k \in Profs : ValidateProfileDescriptor(Prof(k), list[k[1]]) /\ \A l \in Profs : Prof(k).id = Prof(l).id => k = l
Registered == {BuiltInStrategies[i] : i \in DOMAIN BuiltInStrategies}
Providers == {s.id : s \in Registered}
StrategyOf(provider) == CHOOSE s \in Registered : s.id = provider
Kind(provider) == StrategyOf(provider).kind
AuthRefs == UNION {{s.auths[i] : i \in DOMAIN s.auths} : s \in Registered}
ProfileList == CodexStrategy.profiles \o OpenAiStrategy.profiles \o AnthropicStrategy.profiles \o AcpStrategy.profiles
                 \o DeclarativeStrategies[1].profiles
ExecutionHarness(provider) == IF Kind(provider) \in {"codex", "acp"} THEN Kind(provider) ELSE "native"

-----------------------------------------------------------------------------
(* The model catalog.                                                          *)
\* normalize: models without tool calls and deprecated ones are left out.
Normalize(reply) ==
  [p \in DOMAIN reply |-> {[key |-> m.key, id |-> m.id, rank |-> m.rank] : m \in {m \in reply[p] : m.tools /\ ~m.deprecated}}]
RequiredProviders == {"anthropic", "groq", "openai"}
ValidateCatalog(models) ==
  \A p \in RequiredProviders :
     p \in DOMAIN models /\ models[p] # {} /\ Cardinality({m.id : m \in models[p]}) = Cardinality(models[p])
ContainsModel(models, provider, model) == provider \in DOMAIN models /\ \E m \in models[provider] : m.key = model
\* default_rank puts the models in one total order; the answer is the id of the model, not its key.
DefaultModel(models, provider) ==
  IF provider \notin DOMAIN models \/ models[provider] = {} THEN None
  ELSE (CHOOSE m \in models[provider] : \A n \in models[provider] : n.rank <= m.rank).id
\* fetch, and replace: a reply that does not validate leaves the catalog as it is.
RefreshModelCatalog ==
  /\ catalog.gen < MaxReplaced
  /\ \E reply \in Upstreams :
       LET models == Normalize(reply) IN
         /\ ValidateCatalog(models)
         /\ catalog' = [gen |-> catalog.gen + 1, models |-> models]
  /\ UNCHANGED <<rt, codexCache, call, start, calls>>

\* The pages of model/list: a model or a default that comes twice makes the whole list an error.
FetchModelCatalog(list) ==
  LET Twice(P(_)) == \E i, j \in DOMAIN list : i # j /\ P(i) /\ P(j)
      bad == list = <<>> \/ (\E i, j \in DOMAIN list : i # j /\ list[i].id = list[j].id)
                         \/ Twice(LAMBDA i : list[i].default)
  IN [n |-> codexCache.n + 1, fresh |-> TRUE, ok |-> ~bad, models |-> IF bad THEN {} ELSE {list[i].id : i \in DOMAIN list}]
\* model_catalog: the cached answer, an error too, until its time is over.
CodexModelCatalog(entry) ==
  IF codexCache.fresh THEN entry = codexCache ELSE \E list \in CodexLists : entry = FetchModelCatalog(list)
CodexEntries == {codexCache} \cup {FetchModelCatalog(list) : list \in CodexLists}
CacheExpires ==
  /\ codexCache.fresh /\ codexCache.n < MaxFetches /\ codexCache' = [codexCache EXCEPT !.fresh = FALSE]
  /\ UNCHANGED <<rt, catalog, call, start, calls>>

\* has_model, with `codex` the list of the codex CLI at this moment.
HasModel(provider, model, codex) ==
  IF Kind(provider) = "codex" THEN codex.ok /\ model \in codex.models
  ELSE ContainsModel(catalog.models, provider, model)

-----------------------------------------------------------------------------
(* What a snapshot shows of a strategy.                                        *)
Observed(health, auths, models) == [health |-> health, auths |-> auths, models |-> models]
AuthsOf(provider) == {StrategyOf(provider).auths[i].id : i \in DOMAIN StrategyOf(provider).auths}
CatalogModels(provider) == IF provider \in DOMAIN catalog.models THEN {m.id : m \in catalog.models[provider]} ELSE {}
UnavailableWithProfiles(provider) == Observed("unavailable", [a \in AuthsOf(provider) |-> "error"], {})
EnvObservedState(provider) ==
  LET connected == provider \in EnvKeys
  IN Observed(IF connected THEN "ready" ELSE "degraded", [a \in AuthsOf(provider) |-> IF connected THEN "connected" ELSE "out"],
              CatalogModels(provider))
\* state_from_runtime: an open login hides everything, a refused token hides the credentials.
StateFromRuntime(s) == CASE s.pending -> "pending" [] s.reauth -> "error" [] OTHER -> s.cred
OpenAiAuths(sub) ==
  [a \in AuthsOf("openai") |->
     IF a = "openai-chatgpt" THEN StateFromRuntime(sub) ELSE IF "openai" \in EnvKeys THEN "connected" ELSE "out"]
OpenAiObservedState(sub) ==
  LET auths == OpenAiAuths(sub)
  IN Observed(IF \E a \in DOMAIN auths : auths[a] = "connected" THEN "ready" ELSE "degraded", auths, CatalogModels("openai"))
\* auth_profile_state of the codex CLI: at most one of the two ways to log in is connected.
CodexAuthState(a, cli) ==
  CASE cli \in {"down", "unknown"} -> "error"
    [] (cli = "chatgpt" /\ a = "codex-chatgpt") \/ (cli = "key" /\ a = "codex-key") -> "connected"
    [] OTHER -> "out"
CodexHealth(cli) == CASE cli = "down" -> "unavailable" [] cli \in {"out", "unknown"} -> "degraded" [] OTHER -> "ready"
CodexSnapshot(codex, cli) ==
  IF ~codex.ok THEN UnavailableWithProfiles("codex")
  ELSE Observed(CodexHealth(cli),
                [a \in AuthsOf("codex") |-> CodexAuthState(a, cli)], codex.models)
\* The binary of the ACP agent is found, or not; its models are unknown either way.
AcpObservedState == Observed(IF "acp" \in EnvKeys THEN "ready" ELSE "unavailable", [a \in {} |-> "out"], {})
\* `cli` is what `codex login status` says at the moment, `sub` the state of the subscription.
CliModes == {"chatgpt", "key", "out", "unknown", "down"}
SubStates == [cred : {"loading", "connected", "out", "error"}, pending : BOOLEAN, reauth : BOOLEAN]
SignedOut == [cred |-> "out", pending |-> FALSE, reauth |-> FALSE]
ObserveStrategy(provider, codex, cli, sub) ==
  CASE Kind(provider) = "codex" -> CodexSnapshot(codex, cli)
    [] Kind(provider) = "openai" -> OpenAiObservedState(sub)
    [] Kind(provider) = "env" -> EnvObservedState(provider)
    [] Kind(provider) = "acp" -> AcpObservedState
\* The models in a snapshot; they do not depend on the accounts.
RuntimeSnapshot(codex) ==
  [p \in Providers |-> ObserveStrategy(p, codex, "out", SignedOut).models]

-----------------------------------------------------------------------------
(* Profiles.                                                                   *)
\* validate_runtime_profile, apart from the model.
ValidOwners(p) == p.provider \in Providers /\ (p.auth # None => AuthRef(p.auth, p.provider) \in AuthRefs)
ValidateRuntimeProfile(p, codex) == ValidOwners(p) /\ (p.model # None => HasModel(p.provider, p.model, codex))
PatchedWith(p, patch) ==
  LET New(field) == IF patch[field] = Keep THEN p[field] ELSE patch[field]
  IN [p EXCEPT !.provider = New("provider"), !.model = New("model"), !.auth = New("auth"), !.mode = New("mode")]

Idle == [pc |-> "idle", op |-> "none", own |-> None, copy |-> rt, left |-> <<>>, shown |-> RuntimeSnapshot(codexCache), gen |-> <<>>, answer |-> "none"]
\* The versions of what an answer is made from.
Version == <<catalog.gen, codexCache.n>>
HasModelSet(s, list) == SelectSeq(list, LAMBDA p : s.profiles[p.id].model # None)
\* The call did what it was asked to and cloned the state before it let go of the lock.
CopiesState(c, op, own) ==
  call' = [call EXCEPT ![c] = [@ EXCEPT !.pc = "copied", !.op = op, !.own = own, !.copy = rt', !.gen = <<>>, !.answer = "none"]]
Rejects(c, op) == call' = [call EXCEPT ![c] = [@ EXCEPT !.pc = "idle", !.op = op, !.answer = "rejected"]]
\* A client calls; the connections are alike, so the first idle one does.
Calls(c) == call[c].pc = "idle" /\ (\A d \in 1 .. c - 1 : call[d].pc # "idle") /\ calls < MaxCalls /\ calls' = calls + 1

SelectProfile(c) ==
  /\ Calls(c)
  /\ \E p \in Touched :
       IF p \in DOMAIN rt.profiles THEN rt' = [rt EXCEPT !.sel = p] /\ CopiesState(c, "select", <<p, rt.profiles[p]>>)
       ELSE rt' = rt /\ Rejects(c, "select")
  /\ UNCHANGED <<catalog, codexCache, start>>
PatchProfile(c) ==
  /\ Calls(c)
  /\ \E p \in Touched, patch \in Patches, codex \in CodexEntries :
       /\ CodexModelCatalog(codex)
       /\ IF p \notin DOMAIN rt.profiles THEN rt' = rt /\ Rejects(c, "patch") /\ codexCache' = codexCache
          ELSE LET new == PatchedWith(rt.profiles[p], patch) IN
               /\ codexCache' = IF new.model # None /\ new.provider \in Providers /\ Kind(new.provider) = "codex" THEN codex ELSE codexCache
               /\ IF ValidateRuntimeProfile(new, codex)
                  THEN rt' = [rt EXCEPT !.profiles[p] = new] /\ CopiesState(c, "patch", <<p, new>>)
                  ELSE rt' = rt /\ Rejects(c, "patch")
  /\ UNCHANGED <<catalog, start>>
SetExtensionEnabled(c) ==
  /\ Calls(c)
  /\ \E on \in BOOLEAN : rt' = [rt EXCEPT !.ext = on] /\ CopiesState(c, "extension", None)
  /\ UNCHANGED <<catalog, codexCache, start>>
GetSnapshot(c) ==
  /\ Calls(c) /\ rt' = rt /\ CopiesState(c, "get", None)
  /\ UNCHANGED <<catalog, codexCache, start>>

\* build_snapshot: the strategies are observed, then the profiles of the copy are validated.
BuildSnapshot(c) ==
  /\ call[c].pc = "copied"
  /\ \E codex \in CodexEntries :
       /\ CodexModelCatalog(codex) /\ codexCache' = codex
       /\ call' = [call EXCEPT ![c] = [@ EXCEPT !.pc = "validating", !.shown = RuntimeSnapshot(codex),
                                                !.left = HasModelSet(call[c].copy, ProfileList), !.gen = <<catalog.gen, codex.n>>]]
  /\ UNCHANGED <<rt, catalog, start, calls>>
ValidatesNext(c) ==
  /\ call[c].pc = "validating" /\ call[c].left # <<>>
  /\ LET p == call[c].copy.profiles[Head(call[c].left).id] IN
       \E codex \in CodexEntries :
         /\ CodexModelCatalog(codex)
         /\ codexCache' = IF Kind(p.provider) = "codex" THEN codex ELSE codexCache
         /\ call' = [call EXCEPT ![c] =
              IF ValidateRuntimeProfile(p, codex) THEN [@ EXCEPT !.left = Tail(@)]
              ELSE [@ EXCEPT !.pc = "idle", !.left = <<>>, !.answer = "invalid"]]
  /\ UNCHANGED <<rt, catalog, start, calls>>
\* The answer; a version that is still the same says that nothing it was made from changed.
AnswersSnapshot(c) ==
  /\ call[c].pc = "validating" /\ call[c].left = <<>>
  /\ call' = [call EXCEPT ![c] = [@ EXCEPT !.pc = "idle", !.answer = "ok", !.gen = IF @ = Version THEN @ ELSE <<>>]]
  /\ UNCHANGED <<rt, catalog, codexCache, start, calls>>

-----------------------------------------------------------------------------
(* Login and logout, by the kind of the strategy that owns the profile.        *)
Owner(auth) == (CHOOSE a \in AuthRefs : a.id = auth).provider
\* What a login answers: the state of the profile, a browser to visit, or an error.
EnvLogin(provider) == IF provider \in EnvKeys THEN "connected" ELSE "missing"
OpenAiLogin(auth) == IF auth = "openai-chatgpt" THEN "challenge" ELSE EnvLogin("openai")
\* The codex CLI does its own login and is asked afterwards, here with the answer `cli`.
CodexLogin(auth, cli) ==
  IF auth = "codex-key" /\ "openai" \notin EnvKeys THEN "missing"
  ELSE IF CodexAuthState(auth, cli) = "connected" THEN "connected" ELSE "failed"
LoginAnswer(auth, cli) ==
  CASE Kind(Owner(auth)) = "env" -> EnvLogin(Owner(auth))
    [] Kind(Owner(auth)) = "openai" -> OpenAiLogin(auth)
    [] Kind(Owner(auth)) = "codex" -> CodexLogin(auth, cli)

-----------------------------------------------------------------------------
(* The request of a run.                                                       *)
NoStart == [pc |-> "none", profile |-> rt.profiles[rt.sel], asked |-> None, model |-> None, ext |-> TRUE, in |-> FALSE]
\* selected_runtime_profile: the profile of the moment, validated.
SelectedRuntimeProfile ==
  /\ start.pc = "none" /\ calls < MaxCalls /\ calls' = calls + 1
  /\ \E asked \in AskedModels, codex \in CodexEntries :
       /\ CodexModelCatalog(codex)
       /\ LET p == rt.profiles[rt.sel] IN
            /\ codexCache' = IF p.model # None /\ Kind(p.provider) = "codex" THEN codex ELSE codexCache
            /\ start' = [start EXCEPT !.pc = IF ValidateRuntimeProfile(p, codex) THEN "taken" ELSE "refused", !.profile = p, !.asked = asked]
  /\ UNCHANGED <<rt, catalog, call>>
\* build_execution_request validates the profile it was given a second time.
BuildExecutionRequest ==
  /\ start.pc = "taken"
  /\ \E codex \in CodexEntries :
       /\ CodexModelCatalog(codex)
       /\ codexCache' = IF start.profile.model # None /\ Kind(start.profile.provider) = "codex" THEN codex ELSE codexCache
       /\ start' = [start EXCEPT !.pc = IF ValidateRuntimeProfile(start.profile, codex) THEN "validated" ELSE "refused"]
  /\ UNCHANGED <<rt, catalog, call, calls>>
\* resolve_model: what the run asks for, or the profile, or the default of the catalog.
Requested == IF start.asked # None THEN start.asked ELSE start.profile.model
\* Mutant: the model was validated with the profile and is not looked up again.
ResolvedUnchecked(provider, requested) ==
  IF requested # None \/ Kind(provider) \in {"codex", "acp"} THEN [ok |-> TRUE, model |-> requested]
  ELSE [ok |-> DefaultModel(catalog.models, provider) # None, model |-> DefaultModel(catalog.models, provider)]
ResolvedModel(provider, requested) ==
  IF Kind(provider) \in {"codex", "acp"} THEN [ok |-> TRUE, model |-> requested]
  ELSE IF requested # None THEN [ok |-> ContainsModel(catalog.models, provider, requested), model |-> requested]
  ELSE [ok |-> DefaultModel(catalog.models, provider) # None, model |-> DefaultModel(catalog.models, provider)]
ResolveModel ==
  /\ start.pc = "validated"
  /\ LET r == ResolvedModel(start.profile.provider, Requested)
     IN start' = [start EXCEPT !.pc = IF r.ok THEN "built" ELSE "refused", !.model = r.model, !.ext = rt.ext,
                               !.in = \E m \in UNION {catalog.models[p] : p \in DOMAIN catalog.models \cap {start.profile.provider}} :
                                         r.model \in {m.key, m.id}]
  /\ UNCHANGED <<rt, catalog, codexCache, call, calls>>
StartOver ==
  /\ start.pc \in {"built", "refused"} /\ start' = NoStart
  /\ UNCHANGED <<rt, catalog, codexCache, call, calls>>

-----------------------------------------------------------------------------
\* The first profile of the first strategy is selected.
RuntimeInit ==
  /\ rt = [sel |-> ProfileList[1].id, ext |-> TRUE,
           profiles |-> [p \in {ProfileList[i].id : i \in DOMAIN ProfileList} |-> CHOOSE q \in {ProfileList[i] : i \in DOMAIN ProfileList} : q.id = p]]
  /\ catalog = [gen |-> 0, models |-> Embedded]
  /\ codexCache = [n |-> 0, fresh |-> FALSE, ok |-> FALSE, models |-> {}]
  /\ call = [c \in RtClients |-> Idle] /\ start = NoStart /\ calls = 0
RuntimeNext ==
  \/ \E c \in RtClients : SelectProfile(c) \/ PatchProfile(c) \/ SetExtensionEnabled(c) \/ GetSnapshot(c)
                          \/ BuildSnapshot(c) \/ ValidatesNext(c) \/ AnswersSnapshot(c)
  \/ RefreshModelCatalog \/ CacheExpires
  \/ SelectedRuntimeProfile \/ BuildExecutionRequest \/ ResolveModel \/ StartOver

-----------------------------------------------------------------------------
\* The built in strategies register, and no sequence of patches gives a profile to a provider
\* that does not exist or an account of another provider.
ProfilesOwned ==
  /\ FromRegistered(BuiltInStrategies)
  /\ \A p \in DOMAIN rt.profiles : ValidOwners(rt.profiles[p])
  /\ rt.sel \in DOMAIN rt.profiles
\* A refresh may take models away, but leaves every native provider a default model.
AlwaysADefault == \A p \in Providers : ExecutionHarness(p) = "native" => DefaultModel(catalog.models, p) # None
\* A profile whose model is gone makes every snapshot fail, that of a call that was carried out
\* too; clearing the model is accepted whatever the other profiles name.
Repairable ==
  \A p \in DOMAIN rt.profiles :
     ValidateRuntimeProfile(PatchedWith(rt.profiles[p], [provider |-> Keep, model |-> None, auth |-> Keep, mode |-> Keep]), codexCache)
\* An answer shows what its own call did, even if another client changed it in the meantime.  Its
\* lists of models have the model of each profile, unless a list was replaced while it was made.
AnswersConsistent ==
  \A c \in RtClients : call[c].answer = "ok" =>
     LET a == call[c] IN
     /\ a.op = "select" => a.copy.sel = a.own[1]
     /\ a.op = "patch" => a.copy.profiles[a.own[1]] = a.own[2]
     /\ a.gen # <<>> => \A p \in DOMAIN a.copy.profiles :
          LET q == a.copy.profiles[p] IN q.model # None => q.model \in a.shown[q.provider]
\* The request of a native run names a model that the catalog has when the request is made,
\* though the profile was validated against an older one.
RequestRuns ==
  start.pc = "built" =>
     /\ ExecutionHarness(start.profile.provider) = "native" => start.model # None /\ start.in
     /\ start.asked # None => start.model = start.asked
\* A strategy is shown as ready exactly if one of its accounts is connected, and an account that
\* belongs to a variable or to the codex CLI is connected exactly if a login to it succeeds.
AccountsAgree ==
  \A p \in Providers \ {"acp"} :
   \A cli \in IF p = "codex" THEN CliModes ELSE {"out"}, sub \in IF p = "openai" THEN SubStates ELSE {SignedOut} :
     LET o == ObserveStrategy(p, codexCache, cli, sub) IN
     /\ o.health = "ready" <=> \E a \in DOMAIN o.auths : o.auths[a] = "connected"
     /\ \A a \in DOMAIN o.auths : a # "openai-chatgpt" /\ (p = "codex" => codexCache.ok /\ a # "codex-key") =>
          (o.auths[a] = "connected" <=> LoginAnswer(a, cli) = "connected")
\* What the agent runtime service keeps, shows and starts runs with.
RuntimeSound == ProfilesOwned /\ AlwaysADefault /\ Repairable /\ AnswersConsistent /\ RequestRuns /\ AccountsAgree
=============================================================================
