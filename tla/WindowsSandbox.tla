--------------------------- MODULE WindowsSandbox ---------------------------
(* The helper that runs one command in a Windows AppContainer: it makes the    *)
(* container, opens what the profile allows (filters, the loopback exemption, *)
(* access lists of folders), starts the command suspended, puts it in a job and *)
(* lets it run; what it opened it gives back in the opposite order.  Access     *)
(* lists and exemptions are state of the host, shared by all helpers.           *)
EXTENDS Integers, FiniteSets, SequencesExt

CONSTANTS
  Helpers,        \* helper processes; a container has the name of its helper
  Profiles,       \* [policy, entries, reads, writes]
  Folders,
  Destinations,   \* [family, addr, port]; family "loop" is this host
  AddressBits,    \* the width of an address
  Arguments       \* command arguments, sequences over "a", "space", "quote" and "slash"

\* Entries are understood or not, a prefix of -1 is none, and no container is named like a user.
AllowEntries ==
  [form : {"host", "hostPort", "bracketed", "bracketedPort", "port"}, host : {"v4", "v6", "name", "none"},
   addr : Nat, prefix : Nat \cup {-1}, port : Nat]
ASSUME SandboxAssumption ==
  /\ AddressBits \in Nat /\ "user" \notin Helpers /\ Profiles # {}
  /\ Profiles \subseteq [policy : {"off", "loopback", "open", "allowlist"}, entries : SUBSET AllowEntries,
                         reads : Seq(Folders), writes : Seq(Folders)]
  /\ Destinations \subseteq [family : {"v4", "v6", "loop"}, addr : Nat, port : Nat]

VARIABLES
  helper,     \* helper |-> [pc, profile, saved, forward, loopBefore, exempt, job, token]
  acl,        \* folder |-> the <<container, access>> entries of its access list
  exempted,   \* the containers of the loopback exemption list
  boxes,      \* the containers that exist
  wfp,        \* container |-> the committed filters
  boxed,      \* helper |-> [life, inJob, children, net]: the command it runs
  disturbed   \* history: helpers overlapped, one was killed, or a restore failed

hostState == <<acl, exempted, boxes, wfp>>
sandboxVars == <<helper, hostState, boxed, disturbed>>

-----------------------------------------------------------------------------
(* The network of a profile.                                                  *)
NetworkCapability(p) ==
  CASE p.policy = "off" -> "defaultDeny" [] p.policy = "open" -> "internetClient" [] p.policy = "loopback" -> "loopback"
    [] p.policy = "allowlist" -> IF p.entries = {} THEN "defaultDeny" ELSE "destinationAllowlist"
\* appcontainer_capability_names
InternetClient(p) == NetworkCapability(p) \in {"internetClient", "destinationAllowlist"}

NoRule == [family |-> "refused", addr |-> 0, prefix |-> 0, port |-> 0]
\* parse_prefix: the whole address when there is none.
ParsePrefix(prefix) == IF prefix = -1 THEN AddressBits ELSE prefix
\* parse_cidr: only addresses; a name would have to be resolved.
ParseCidr(e, port) ==
  IF e.host = "name" \/ ParsePrefix(e.prefix) > AddressBits THEN NoRule
  ELSE [family |-> e.host, addr |-> e.addr, prefix |-> ParsePrefix(e.prefix), port |-> port]
\* parse_port: zero is none.
PortGiven(e) == e.port > 0
\* split_address_port: an address in brackets needs its port; a bare IPv6 address has none.
SplitAddressPort(e) ==
  CASE e.form = "bracketed" -> NoRule
    [] e.form = "bracketedPort" \/ (e.form = "hostPort" /\ e.host # "v6") -> IF PortGiven(e) THEN ParseCidr(e, e.port) ELSE NoRule
    [] OTHER -> ParseCidr(e, 0)
\* parse_allow_rule: a number is a port of any address.
ParseAllowRule(e) ==
  IF e.form = "port" THEN IF PortGiven(e) THEN [family |-> "any", addr |-> 0, prefix |-> 0, port |-> e.port] ELSE NoRule
  ELSE SplitAddressPort(e)
\* parse_allowlist: one entry that is not understood refuses them all.
ParseAllowlist(p) == {ParseAllowRule(e) : e \in p.entries}
\* The mask of a prefix, as the platform compares it.
SamePrefix(a, b, prefix) == a \div 2^(AddressBits - prefix) = b \div 2^(AddressBits - prefix)
\* add_permit_filters: a rule without an address is added to both layers.
PermitFilters(rule) == {[rule EXCEPT !.family = f] : f \in IF rule.family = "any" THEN {"v4", "v6"} ELSE {rule.family}}
\* add_filter: the conditions of a filter are those of its rule; the default deny has none.
BlockAll(f) == [family |-> f, addr |-> 0, prefix |-> -1, port |-> 0]
Permits(filter, d) ==
  /\ filter.prefix >= 0 /\ filter.family = d.family /\ (filter.port # 0 => filter.port = d.port)
  /\ SamePrefix(filter.addr, d.addr, filter.prefix)
\* What the filters of a container leave: a permit outweighs the default deny.
Passes(fs, d) == (\E x \in fs : x.prefix < 0 /\ x.family = d.family) => \E x \in fs : Permits(x, d)
\* What the platform lets the command of a helper reach: capability, filters, exemption.
Reaches(h) ==
  {d \in Destinations : IF d.family = "loop" THEN h \in exempted ELSE boxed[h].net /\ Passes(wfp[h], d)}

-----------------------------------------------------------------------------
(* The helper, one step of the platform at a time.                            *)
HelperAt(h, pc) == helper[h].pc = pc
Goto(h, pc) == helper' = [helper EXCEPT ![h].pc = pc]
\* An error returns from run, which drops what there is: the job first, the container last.
HelperFails(h) == Goto(h, "dropJob")
IdleHelper == [pc |-> "idle", profile |-> CHOOSE p \in Profiles : TRUE, saved |-> <<>>, forward |-> FALSE,
         loopBefore |-> {}, exempt |-> FALSE, job |-> FALSE, token |-> FALSE]
NotBoxed == [life |-> "none", inJob |-> FALSE, children |-> FALSE, net |-> FALSE]
HelperActive(h) == helper[h].pc \notin {"idle", "gone"}

\* Invocation::parse, validate_windows_appcontainer_profile and AbsoluteCommand::new refuse before anything is made.
ParseInvocation(h, p, good) ==
  /\ HelperAt(h, "idle") /\ helper' = [helper EXCEPT ![h] = [IdleHelper EXCEPT !.pc = IF good THEN "container" ELSE "gone", !.profile = p]]
  /\ disturbed' = (disturbed \/ \E g \in Helpers : HelperActive(g))
  /\ UNCHANGED <<hostState, boxed>>
\* AppContainerProfile::create, under a name of its own.
CreateContainer(h) ==
  /\ HelperAt(h, "container")
  /\ \/ boxes' = boxes \cup {h} /\ Goto(h, "network")
     \/ UNCHANGED boxes /\ Goto(h, "gone")
  /\ UNCHANGED <<acl, exempted, wfp, boxed, disturbed>>
\* WfpAllowlist::apply: every filter in one transaction of a session that ends with the helper.
ApplyFilters(h) ==
  LET rules == ParseAllowlist(helper[h].profile) IN
  /\ HelperAt(h, "network") /\ NetworkCapability(helper[h].profile) = "destinationAllowlist"
  /\ \/ /\ NoRule \notin rules /\ Goto(h, "grant")
        /\ wfp' = [wfp EXCEPT ![h] = (UNION {PermitFilters(r) : r \in rules}) \cup {BlockAll("v4"), BlockAll("v6")}]
     \/ HelperFails(h) /\ UNCHANGED wfp
  /\ UNCHANGED <<acl, exempted, boxes, boxed, disturbed>>
\* LoopbackExemption::apply reads the list of the host...
ReadExemptions(h) ==
  /\ HelperAt(h, "network") /\ NetworkCapability(helper[h].profile) = "loopback"
  /\ helper' = [helper EXCEPT ![h].pc = "exempt", ![h].loopBefore = exempted]
  /\ UNCHANGED <<hostState, boxed, disturbed>>
\* ...and writes it with the container added.
SetExemptions(h) ==
  /\ HelperAt(h, "exempt")
  /\ \/ exempted' = helper[h].loopBefore \cup {h} /\ helper' = [helper EXCEPT ![h].pc = "grant", ![h].exempt = TRUE]
     \/ UNCHANGED exempted /\ HelperFails(h)
  /\ UNCHANGED <<acl, boxes, wfp, boxed, disturbed>>
NoNetwork(h) ==
  /\ HelperAt(h, "network") /\ NetworkCapability(helper[h].profile) \in {"defaultDeny", "internetClient"} /\ Goto(h, "grant")
  /\ UNCHANGED <<hostState, boxed, disturbed>>
\* filesystem_grants: the read paths, then the write paths.
FilesystemGrants(p) ==
  [i \in 1..(Len(p.reads) + Len(p.writes)) |->
     IF i <= Len(p.reads) THEN <<p.reads[i], "read">> ELSE <<p.writes[i - Len(p.reads)], "write">>]
\* FilesystemAllowlist::apply, one grant at a time: the access list is read, and written with an entry added.
ReadAcl(h) ==
  LET grants == FilesystemGrants(helper[h].profile) n == Len(helper[h].saved) + 1 IN
  /\ HelperAt(h, "grant")
  /\ IF n > Len(grants) THEN Goto(h, "token")
     ELSE \/ helper' = [helper EXCEPT ![h].pc = "granting", ![h].saved = Append(helper[h].saved, [folder |-> grants[n][1], was |-> acl[grants[n][1]]])]
          \/ helper' = [helper EXCEPT ![h].pc = "dropJob", ![h].forward = TRUE]
  /\ UNCHANGED <<hostState, boxed, disturbed>>
SetAcl(h) ==
  LET n == Len(helper[h].saved) last == helper[h].saved[n] IN
  /\ HelperAt(h, "granting")
  /\ \/ /\ acl' = [acl EXCEPT ![last.folder] = last.was \cup {<<h, FilesystemGrants(helper[h].profile)[n][2]>>}]
        /\ Goto(h, "grant")
     \/ /\ UNCHANGED acl
        /\ helper' = [helper EXCEPT ![h].pc = "dropJob", ![h].forward = TRUE, ![h].saved = SubSeq(helper[h].saved, 1, n - 1)]
  /\ UNCHANGED <<exempted, boxes, wfp, boxed, disturbed>>
\* RestrictedToken::create
CreateToken(h) ==
  /\ HelperAt(h, "token") /\ (helper' = [helper EXCEPT ![h].pc = "job", ![h].token = TRUE] \/ HelperFails(h))
  /\ UNCHANGED <<hostState, boxed, disturbed>>
\* Job::create_phase1: it ends with its handle, and all that is in it.
CreateJob(h) ==
  /\ HelperAt(h, "job") /\ (helper' = [helper EXCEPT ![h].pc = "spawn", ![h].job = TRUE] \/ HelperFails(h))
  /\ UNCHANGED <<hostState, boxed, disturbed>>
\* spawn_suspended
SpawnSuspended(h) ==
  /\ HelperAt(h, "spawn")
  /\ \/ boxed' = [boxed EXCEPT ![h] = [NotBoxed EXCEPT !.life = "suspended", !.net = InternetClient(helper[h].profile)]] /\ Goto(h, "assign")
     \/ UNCHANGED boxed /\ HelperFails(h)
  /\ UNCHANGED <<hostState, disturbed>>
\* Job::assign; when it fails the command stays as it is, suspended.
AssignToJob(h) ==
  /\ HelperAt(h, "assign")
  /\ \/ boxed' = [boxed EXCEPT ![h].inJob = TRUE] /\ Goto(h, "resume")
     \/ UNCHANGED boxed /\ HelperFails(h)
  /\ UNCHANGED <<hostState, disturbed>>
\* resume_and_wait: a thread that cannot be resumed takes its process with it.
ResumeCommand(h) ==
  /\ HelperAt(h, "resume")
  /\ \/ boxed' = [boxed EXCEPT ![h].life = "running"] /\ Goto(h, "wait")
     \/ boxed' = [boxed EXCEPT ![h].life = "ended"] /\ HelperFails(h)
  /\ UNCHANGED <<hostState, disturbed>>
\* The wait ends with the command, or fails while it runs.
Waited(h) == HelperAt(h, "wait") /\ Goto(h, "dropJob") /\ UNCHANGED <<hostState, boxed, disturbed>>
CommandSteps(h) ==
  /\ boxed[h].life = "running"
  /\ \/ boxed' = [boxed EXCEPT ![h].children = TRUE]
     \/ boxed' = [boxed EXCEPT ![h].life = "ended"]
  /\ UNCHANGED <<helper, hostState, disturbed>>

-----------------------------------------------------------------------------
(* The drops of run, in the opposite order of its variables.                  *)
KilledBox(b) == IF b.inJob THEN [b EXCEPT !.life = "ended", !.children = FALSE] ELSE b
\* Mutant: the job is a variable declared before the restrictions, and closed after them.
CloseJobLast(h) ==
  /\ HelperAt(h, "dropJob") /\ Goto(h, "dropFiles") /\ UNCHANGED <<boxed, hostState, disturbed>>
CloseJob(h) ==
  /\ HelperAt(h, "dropJob") /\ Goto(h, "dropFiles")
  /\ boxed' = (IF helper[h].job THEN [boxed EXCEPT ![h] = KilledBox(boxed[h])] ELSE boxed)
  /\ UNCHANGED <<hostState, disturbed>>
\* Restores are not checked, and an allowlist that was never finished restores from the front.
RestoreAcl(h) ==
  LET saved == helper[h].saved
      next == IF helper[h].forward THEN Head(saved) ELSE Last(saved)
      rest == IF helper[h].forward THEN Tail(saved) ELSE Front(saved) IN
  /\ HelperAt(h, "dropFiles")
  /\ IF saved = <<>> THEN Goto(h, "dropNetwork") /\ UNCHANGED <<acl, disturbed>>
     ELSE /\ helper' = [helper EXCEPT ![h].saved = rest]
          /\ \/ acl' = [acl EXCEPT ![next.folder] = next.was] /\ UNCHANGED disturbed
             \/ UNCHANGED acl /\ disturbed' = TRUE
  /\ UNCHANGED <<exempted, boxes, wfp, boxed>>
RestoreNetwork(h) ==
  /\ HelperAt(h, "dropNetwork") /\ Goto(h, "dropContainer") /\ wfp' = [wfp EXCEPT ![h] = {}]
  /\ IF helper[h].exempt THEN \/ exempted' = helper[h].loopBefore /\ UNCHANGED disturbed
                              \/ UNCHANGED exempted /\ disturbed' = TRUE
     ELSE UNCHANGED <<exempted, disturbed>>
  /\ UNCHANGED <<acl, boxes, boxed>>
DeleteContainer(h) ==
  /\ HelperAt(h, "dropContainer") /\ Goto(h, "gone") /\ boxes' = boxes \ {h}
  /\ UNCHANGED <<acl, exempted, wfp, boxed, disturbed>>
\* The helper is killed: the platform closes its job and its filter session, nothing else.
KillHelper(h) ==
  /\ HelperActive(h) /\ Goto(h, "gone") /\ disturbed' = TRUE
  /\ boxed' = (IF helper[h].job THEN [boxed EXCEPT ![h] = KilledBox(boxed[h])] ELSE boxed) /\ wfp' = [wfp EXCEPT ![h] = {}]
  /\ UNCHANGED <<acl, exempted, boxes>>

-----------------------------------------------------------------------------
(* The command line.                                                          *)
Slashes(n) == [i \in 1..n |-> "slash"]
\* quote_arg: backslashes are doubled only before a quote.
QuoteArg(arg) ==
  IF arg # <<>> /\ Range(arg) \cap {"space", "quote"} = {} THEN arg
  ELSE LET step(s, c) ==
             CASE c = "slash" -> [s EXCEPT !.n = @ + 1]
               [] c = "quote" -> [out |-> s.out \o Slashes(2 * s.n + 1) \o <<"quote">>, n |-> 0]
               [] OTHER -> [out |-> s.out \o Slashes(s.n) \o <<c>>, n |-> 0]
           end == FoldLeft(step, [out |-> <<"quote">>, n |-> 0], arg)
       IN end.out \o Slashes(2 * end.n) \o <<"quote">>
\* argv_to_command_line
CommandLine(args) == FoldLeft(LAMBDA line, a : line \o <<"space">> \o QuoteArg(a), <<"a">>, args)
\* How the platform splits a command line: an odd run of backslashes keeps the quote after it.
SplitLine(line) ==
  LET flush(s) == [s EXCEPT !.now = @ \o Slashes(s.n), !.n = 0, !.in = @ \/ s.n > 0]
      step(s, c) ==
        CASE c = "slash" -> [s EXCEPT !.n = @ + 1]
          [] c = "quote" -> IF s.n % 2 = 1 THEN [s EXCEPT !.now = @ \o Slashes(s.n \div 2) \o <<"quote">>, !.n = 0, !.in = TRUE]
                            ELSE [s EXCEPT !.now = @ \o Slashes(s.n \div 2), !.n = 0, !.open = ~@, !.in = TRUE]
          [] c = "space" /\ ~s.open -> LET t == flush(s) IN IF t.in THEN [t EXCEPT !.all = Append(@, t.now), !.now = <<>>, !.in = FALSE] ELSE t
          [] OTHER -> [flush(s) EXCEPT !.now = Append(@, c), !.in = TRUE]
      end == flush(FoldLeft(step, [all |-> <<>>, now |-> <<>>, n |-> 0, open |-> FALSE, in |-> FALSE], line))
  IN IF end.in THEN Append(end.all, end.now) ELSE end.all

-----------------------------------------------------------------------------
SandboxInit ==
  /\ helper = [h \in Helpers |-> IdleHelper] /\ acl = [f \in Folders |-> {<<"user", "write">>}] /\ exempted = {}
  /\ boxes = {} /\ wfp = [h \in Helpers |-> {}] /\ boxed = [h \in Helpers |-> NotBoxed] /\ disturbed = FALSE
SandboxNext ==
  \E h \in Helpers :
    \/ \E p \in Profiles, good \in BOOLEAN : ParseInvocation(h, p, good)
    \/ CreateContainer(h) \/ ApplyFilters(h) \/ ReadExemptions(h) \/ SetExemptions(h) \/ NoNetwork(h) \/ ReadAcl(h) \/ SetAcl(h)
    \/ CreateToken(h) \/ CreateJob(h) \/ SpawnSuspended(h) \/ AssignToJob(h) \/ ResumeCommand(h) \/ Waited(h) \/ CommandSteps(h)
    \/ CloseJob(h) \/ RestoreAcl(h) \/ RestoreNetwork(h) \/ DeleteContainer(h) \/ KillHelper(h)
SandboxSpec == SandboxInit /\ [][SandboxNext]_sandboxVars

-----------------------------------------------------------------------------
BoxRuns(h) == boxed[h].life = "running" \/ boxed[h].children
\* What the profile of a helper says its command may reach and open.
Wanted(p, d) ==
  CASE p.policy = "off" -> FALSE [] p.policy = "open" -> d.family # "loop" [] p.policy = "loopback" -> d.family = "loop"
    [] p.policy = "allowlist" ->
         \E e \in p.entries :
           \/ e.form = "port" /\ d.port = e.port
           \/ /\ e.form # "port" /\ e.host = d.family /\ (e.form = "bracketedPort" \/ (e.form = "hostPort" /\ e.host # "v6") => e.port = d.port)
              /\ (IF e.prefix = -1 THEN e.addr = d.addr ELSE SamePrefix(e.addr, d.addr, e.prefix))
\* A command, and every process it starts, runs only in its container, with the restricted token and
\* in the job, for as long as its helper is there; and it never reaches or opens more than its
\* profile says, whatever other helpers do to the lists of the host and wherever a helper fails.
Confined ==
  \A h \in Helpers : BoxRuns(h) =>
    LET p == helper[h].profile IN
    /\ HelperActive(h) /\ boxed[h].inJob /\ h \in boxes /\ helper[h].token
    /\ \A d \in Reaches(h) : Wanted(p, d)
    /\ \A f \in Folders : /\ <<h, "write">> \in acl[f] => f \in Range(p.writes)
                          /\ <<h, "read">> \in acl[f] => f \in Range(p.reads)
ListedTwice(p, f) == \E i, j \in DOMAIN FilesystemGrants(p) : i # j /\ \A k \in {i, j} : FilesystemGrants(p)[k][1] = f
\* A helper leaves no entry in the lists of the host when it is alone, is not killed and its restores
\* take effect, except for a folder listed twice whose allowlist failed half way.
RestoredAlone ==
  (~disturbed /\ \A h \in Helpers : ~HelperActive(h)) =>
    /\ exempted = {} /\ boxes = {}
    /\ \A f \in Folders : \A x \in acl[f] : x[1] \in Helpers =>
         helper[x[1]].forward /\ ListedTwice(helper[x[1]].profile, f)
\* The command gets the arguments it was given, whichever they are: what is chosen before a
\* helper starts.
ArgumentsKept ==
  (\A h \in Helpers : helper[h] = IdleHelper) =>
    \A a, b \in Arguments : SplitLine(CommandLine(<<a, b>>)) = <<<<"a">>, a, b>>
\* What the Windows helper guarantees.
WindowsSound == Confined /\ RestoredAlone
=============================================================================
