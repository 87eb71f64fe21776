--------------------- MODULE MCMasqueradingRuleController ---------------------
(***************************************************************************)
(* Small instances of MasqueradingRuleController for TLC.                  *)
(***************************************************************************)
EXTENDS MasqueradingRuleController, TLC

CONSTANTS rule1, rule2,   \* keys
          address1, address2,
          endpoint1

KeySymmetry == Permutations(Keys)

\* The host names "www.shop", "shop", "db" and the wildcard "*.shop"; the label
\* "wildcard" is what the operator looks up in place of the asterisk.
MCLabels        == {"*", "wildcard", "www", "shop", "db"}
MCPlainLabels   == MCLabels \ {"*"}
MCStarredLabels == {"*"}
MCLabelLength   == [label \in MCLabels |->
                      CASE label = "*" -> 1 [] label = "wildcard" -> 8 [] label = "www" -> 3
                        [] label = "shop" -> 4 [] label = "db" -> 2]
MCUnstarred     == [label \in MCStarredLabels |-> "wildcard"]
MCAddresses     == {address1, address2}

www == <<"www", "shop">>
any == <<"*", "shop">>
db  == <<"db">>

MCUpstream == (db :> {address1})

WwwToDb      == [from |-> www, to |-> db]
WwwToAddress == [from |-> www, to |-> address2]
AnyToDb      == [from |-> any, to |-> db]
DbToAddress  == [from |-> db, to |-> address2]
AnyToAddress == [from |-> any, to |-> address1]   \* refused by NewRewriteRule

\* Two targets for one name, a wildcard that clashes with both.
ClashingSpecs == {WwwToDb, AnyToDb, DbToAddress}
\* A name, its new target, and a spec only the webhook would keep out.
ChangingSpecs == {WwwToDb, WwwToAddress, AnyToAddress}
\* Two rules that may trade places; the second changes what the first's target
\* resolves to.
TradingSpecs == {WwwToDb, DbToAddress}

=============================================================================
