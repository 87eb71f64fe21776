----------------------------- MODULE RewriteRules -----------------------------
(***************************************************************************)
(* The rewrite rules of internal/coredns/rewrite.go and the name check of  *)
(* internal/dnsutil/name.go, as operators on values.                       *)
(*                                                                         *)
(* A DNS name is the sequence of its labels, <<"a", "example", "io">>.     *)
(* Labels are opaque but for what the two regular expressions tell apart:  *)
(* an ordinary lower-case label, a label that starts with an asterisk, the *)
(* asterisk itself, and everything else.  A target is a name or an IP      *)
(* address.  A rule set is a function from the owners that have a rule to  *)
(* their rules, exactly the Go map rulesByOwner.                           *)
(***************************************************************************)
EXTENDS Integers, Sequences, SequencesExt

CONSTANTS
  Labels,         \* every label that occurs in a name
  Star,           \* the label "*"
  PlainLabels,    \* labels of 1 to 63 characters the lower-case regexp admits
  StarredLabels,  \* labels admitted once their leading "*" reads "wildcard"
  LabelLength,    \* the number of characters of a label
  Addresses       \* the texts that net.ParseIP accepts

ASSUME LabelsAssumption ==
  /\ PlainLabels \subseteq Labels
  /\ StarredLabels \subseteq Labels
  /\ Star \in StarredLabels
  /\ PlainLabels \cap StarredLabels = {}
  /\ LabelLength \in [Labels -> Nat]

MaxNameLength == 255

Name   == Seq(Labels) \ {<<>>}
Target == Addresses \cup Name
Rule   == [from : Name, to : Target]

-----------------------------------------------------------------------------
(* Names *)

\* The characters of a name, the dots between its labels included.
TextLength(name) ==
  LET length[n \in 0 .. Len(name)] ==
        IF n = 0 THEN -1 ELSE length[n - 1] + LabelLength[name[n]] + 1
  IN  length[Len(name)]

\* A leading asterisk is read as "wildcard" before the name is matched, so the
\* text that is measured is seven characters longer than the name (mutant: the
\* name is measured as it is written).
CheckDnsNameAsWritten(name, allowWildcard) ==
  /\ \A i \in 1 .. Len(name) :
       name[i] \in PlainLabels \/ (i = 1 /\ allowWildcard /\ name[i] \in StarredLabels)
  /\ TextLength(name) <= MaxNameLength
CheckDnsName(name, allowWildcard) ==
  LET starred == allowWildcard /\ name[1] \in StarredLabels
  IN  /\ \A i \in 1 .. Len(name) :
            name[i] \in PlainLabels \/ (i = 1 /\ starred)
      /\ TextLength(name) + (IF starred THEN 7 ELSE 0) <= MaxNameLength

-----------------------------------------------------------------------------
(* Rules *)

IsWildcard(name) == name[1] = Star

\* The reverse text of HasSuffix(host, from[1:]): the labels after the asterisk
\* are the last labels of the host, and at least one label precedes them.
Matches(from, host) ==
  \/ /\ IsWildcard(from)
     /\ Len(host) >= Len(from)
     /\ \A i \in 0 .. (Len(from) - 2) : host[Len(host) - i] = from[Len(from) - i]
  \/ /\ ~IsWildcard(from)
     /\ host = from

\* The rules NewRewriteRule accepts.
IsValid(rule) ==
  /\ CheckDnsName(rule.from, TRUE)
  /\ rule.to \in Addresses => ~IsWildcard(rule.from)
  /\ rule.to \notin Addresses => CheckDnsName(rule.to, FALSE)

\* Two rule sources that cannot live in one rule set under different owners
\* (mutant: only the same source twice).
ClashIfEqual(from, other) == from = other
Clash(from, other) == Matches(from, other) \/ Matches(other, from)

-----------------------------------------------------------------------------
(* Rule sets *)

\* The rule sets that give some of the owners one of the rules each.
Tables(owners, rules) == UNION {[held -> rules] : held \in SUBSET owners}

EmptyTable == [owner \in {} |-> {}]

\* What the comment on NewRewriteRuleSet promises of every rule set.
ClashFree(table) ==
  \A o, p \in DOMAIN table : o # p => ~Clash(table[o].from, table[p].from)

\* The owners whose rules match a host; FindMatchingRule returns the rule of one.
MatchingOwners(table, host) == {o \in DOMAIN table : Matches(table[o].from, host)}

\* What that means for the hosts that are looked up: FindMatchingRule has no
\* choice.
Unambiguous(table, hosts) ==
  \A host \in hosts : \A o, p \in MatchingOwners(table, host) : o = p

\* The other owners whose rules make AddRule fail (mutant: only one direction of
\* the match is tried).
ConflictsOneWay(table, owner, rule) ==
  {o \in DOMAIN table \ {owner} : Matches(table[o].from, rule.from)}
Conflicts(table, owner, rule) ==
  {o \in DOMAIN table \ {owner} : Clash(table[o].from, rule.from)}

Put(table, owner, rule) ==
  [o \in DOMAIN table \cup {owner} |-> IF o = owner THEN rule ELSE table[o]]

\* AddRule fails on a conflict; otherwise the owner has the rule, and changed
\* says whether it had another one or none before.
AddRule(table, owner, rule) ==
  IF Conflicts(table, owner, rule) # {}
  THEN [err |-> TRUE, changed |-> FALSE, table |-> table]
  ELSE [err     |-> FALSE,
        changed |-> owner \notin DOMAIN table \/ table[owner] # rule,
        table   |-> Put(table, owner, rule)]

\* RemoveRule deletes the owner's entry.
RemoveRule(table, owner) ==
  [err     |-> FALSE,
   changed |-> owner \in DOMAIN table,
   table   |-> [o \in DOMAIN table \ {owner} |-> table[o]]]

=============================================================================
