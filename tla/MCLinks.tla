------------------------------- MODULE MCLinks -------------------------------
(***************************************************************************)
(* The three ways the daemon is linked to the outside, on their own: the   *)
(* work items of a repository with three issues, one of them a pull        *)
(* request; the credentials of a client; and the connections of two peers, *)
(* each local or remote, to listeners with one slot each.  A behaviour     *)
(* takes one side.                                                         *)
(***************************************************************************)
EXTENDS WorkItems, SessionCredentials, RpcHost

CONSTANTS k1, k2

VARIABLE side

\* Two workflows the manager takes, with a label each, and one that it refuses.
TwoWorkflows ==
  { [source |-> "githubIssues", repo |-> "named", states |-> {"ready"}, initialMs |-> 1, maxMs |-> 2],
    [source |-> "githubIssues", repo |-> "named", states |-> {"bug"}, initialMs |-> 1, maxMs |-> 1],
    [source |-> "githubIssues", repo |-> "named", states |-> {"bug"}, initialMs |-> 2, maxMs |-> 1] }
PeerLines == (k1 :> {"initialize", "sessionOpen", "subscribe", "runStart"}) @@
             (k2 :> {"initialize", "sessionOpen", "runStart"})

LinksInit ==
    /\ WorkInit /\ CredentialInit /\ HostInit
    /\ side \in {"work", "credentials", "host"}
LinksNext ==
    \/ side = "work" /\ WorkNext /\ UNCHANGED <<credentialVars, hostVars, side>>
    \/ side = "credentials" /\ CredentialNext /\ UNCHANGED <<workVars, hostVars, side>>
    \/ side = "host" /\ HostNext /\ UNCHANGED <<workVars, credentialVars, side>>
LinksSpec == LinksInit /\ [][LinksNext]_<<workVars, credentialVars, hostVars, side>> /\ HostFairness
==============================================================================
