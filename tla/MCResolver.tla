------------------------------ MODULE MCResolver ------------------------------
(***************************************************************************)
(* A small instance of Resolver: a coredns pod and a nameserver outside of *)
(* the cluster, without a rewrite rule, or with one or the other target.   *)
(***************************************************************************)
EXTENDS Resolver, TLC

CONSTANTS pod, external, address1, address2

MCLabels      == {"*", "wildcard", "www", "db"}
MCPlainLabels == MCLabels \ {"*"}
MCLabelLength == ("*" :> 1) @@ ("wildcard" :> 8) @@ ("www" :> 3) @@ ("db" :> 2)
MCUnstarred   == "*" :> "wildcard"

www == <<"www">>
db  == <<"db">>
nil == <<"db", "www">>

MCUpstream == (db :> {address1})

\* No rule; www for the name db; www for an address.  There is no name nil.
MCConfigurations ==
  {EmptyTable,
   1 :> [from |-> www, to |-> db],
   (1 :> [from |-> www, to |-> address2])}

\* The pods are asked in and outside of the cluster; so is a nameserver like that
\* of the tests, alone and with a pod.
MCCalls ==
  [host : {www}, expected : {db, nil, address2, NoTarget},
   configured : {{}, {external}, {pod, external}}, inCluster : BOOLEAN]

=============================================================================
