------------------------------ MODULE ClusterDns ------------------------------
(***************************************************************************)
(* The cluster DNS, as far as the operator depends on it.  A coredns       *)
(* endpoint serves the rule set it has loaded from the config map: the     *)
(* rewrite lines rename a question once, the hosts lines answer it, and    *)
(* what neither of them covers goes to the rest of the configuration       *)
(* (Upstream).  coredns itself is not part of the repository; the answers  *)
(* here are the ones internal/coredns/rewrite.go writes its lines for.     *)
(***************************************************************************)
EXTENDS RewriteRules

CONSTANTS
  Upstream,   \* the addresses a name has without any rewrite rule
  Unstarred   \* a starred label with its asterisk read as "wildcard"

ASSUME DnsAssumption ==
  /\ Unstarred \in [StarredLabels -> PlainLabels]
  /\ \A label \in StarredLabels : LabelLength[Unstarred[label]] = LabelLength[label] + 7
  /\ \A name \in DOMAIN Upstream :
        name \in Name /\ Upstream[name] \subseteq Addresses

UpstreamOf(name) == IF name \in DOMAIN Upstream THEN Upstream[name] ELSE {}

\* A rule with a name target renames the question, the first match only.
Renamed(table, host) ==
  LET rewriting == {o \in MatchingOwners(table, host) : table[o].to \notin Addresses}
  IN  IF rewriting = {} THEN host ELSE table[CHOOSE o \in rewriting : TRUE].to

\* A rule with an address target is a line of the hosts block.
Answer(table, host) ==
  LET asked == Renamed(table, host)
      lines == {o \in DOMAIN table : table[o].to \in Addresses /\ table[o].from = asked}
  IN  IF lines = {} THEN UpstreamOf(asked) ELSE {table[o].to : o \in lines}

\* dnsutil.Lookup: an address resolves to itself, a name that is not found to
\* no address at all.
Lookup(table, target) ==
  IF target \in Addresses THEN {target} ELSE Answer(table, target)

\* The host the controller asks for: the leading asterisk of a wildcard source
\* becomes "wildcard".
Probe(from) ==
  IF from[1] \in StarredLabels THEN [from EXCEPT ![1] = Unstarred[@]] ELSE from

\* One endpoint confirms a rule: the host has an address, and the addresses are
\* those of the expected target.
Confirms(table, host, expected) ==
  /\ Lookup(table, host) # {}
  /\ Lookup(table, host) = Lookup(table, expected)

=============================================================================
