----------------------------- MODULE RewriteTable -----------------------------
(***************************************************************************)
(* What the operator promises about the rewrite rules in the coredns       *)
(* config map, whatever its workers are doing: one table that is changed   *)
(* one rule at a time, each change applied to the table as it then is; a   *)
(* rule is in the table only while its owner is held (by the finalizer),   *)
(* and an owner is let go only when its rule is out of the table.          *)
(*                                                                         *)
(* There are no workers, no resource versions and no retries here: that is *)
(* the point.  MasqueradingRuleController is checked against this module.  *)
(***************************************************************************)
EXTENDS RewriteRules

CONSTANTS
  Owners,   \* the owner identifiers, one per object ever created
  Specs,    \* the rules the objects may ask for
  Hosts     \* the names that are looked up

ASSUME TableAssumption ==
  /\ Specs \subseteq Rule
  /\ Hosts \subseteq Name

VARIABLES
  table,    \* the rule set in the config map (none if it is absent; what the
            \* text says, too, while somebody has made it illegible)
  held      \* the owners whose object carries the operator's finalizer

vars == <<table, held>>

Init ==
  /\ table = EmptyTable
  /\ held = {}

\* An object is taken over before anything is written for it.
Hold(owner) ==
  /\ owner \notin held
  /\ held' = held \cup {owner}
  /\ UNCHANGED table

\* A held owner's rule enters the table, or replaces the owner's previous one.
Register(owner, rule) ==
  /\ owner \in held
  /\ Conflicts(table, owner, rule) = {}
  /\ table' = Put(table, owner, rule)
  /\ UNCHANGED held

\* The rule of a held owner leaves the table.
Withdraw(owner) ==
  /\ owner \in held
  /\ owner \in DOMAIN table
  /\ table' = RemoveRule(table, owner).table
  /\ UNCHANGED held

\* An owner is let go when no rule of it is left.
Release(owner) ==
  /\ owner \in held
  /\ owner \notin DOMAIN table
  /\ held' = held \ {owner}
  /\ UNCHANGED table

\* Somebody else empties, deletes or overwrites the config map.
Damage ==
  /\ table' = EmptyTable
  /\ UNCHANGED held

Next ==
  \/ \E owner \in Owners :
       \/ Hold(owner)
       \/ \E rule \in Specs : Register(owner, rule)
       \/ Withdraw(owner)
       \/ Release(owner)
  \/ Damage

Spec == Init /\ [][Next]_vars

-----------------------------------------------------------------------------
\* A rule set over the owners, and owners.
TypeOK ==
  /\ table \in Tables(Owners, Specs)
  /\ held \subseteq Owners

\* Only held owners have a rule: none is left behind when its object goes.
OwnersAreHeld == DOMAIN table \subseteq held

\* The first guarantee in the comment on NewRewriteRuleSet, for all histories of
\* AddRule and RemoveRule: sources do not clash.
SourcesDoNotClash == ClashFree(table)

\* The second: a name that is looked up is matched by at most one rule, so that
\* neither FindMatchingRule nor coredns has a choice.
AtMostOneMatch == Unambiguous(table, Hosts)

=============================================================================
