---------------------------- MODULE MCRewriteFormat ----------------------------
(***************************************************************************)
(* A small instance of RewriteFormat and of RewriteTable below it: sources *)
(* of up to two labels with and without an asterisk, hosts one label       *)
(* longer, and a wildcard at the limit of the name length.                 *)
(***************************************************************************)
EXTENDS RewriteFormat, TLC

CONSTANTS owner1, owner2, owner3, address

\* The label "*s" starts with an asterisk without being one; the labels of 63, 54
\* and 55 characters make up a wildcard of 248 characters and one of 249.
MCLabels        == {"*", "*s", "wildcard", "wildcards", "a", "b", "63", "54", "55"}
MCStarredLabels == {"*", "*s"}
MCPlainLabels   == MCLabels \ MCStarredLabels
MCLabelLength   ==
  ("*" :> 1) @@ ("*s" :> 2) @@ ("wildcard" :> 8) @@ ("wildcards" :> 9)
    @@ ("a" :> 1) @@ ("b" :> 1) @@ ("63" :> 63) @@ ("54" :> 54) @@ ("55" :> 55)
MCUnstarred     == ("*" :> "wildcard") @@ ("*s" :> "wildcards")
MCUpstream      == <<"a">> :> {address}

Long(label) == <<"*", "63", "63", "63", label>>

Sources == {<<"b", "a">>, <<"*">>, <<"*", "a">>, <<"*", "b", "a">>, <<"*s", "a">>,
            Long("54"), Long("55")}

MCHosts == UNION {[1 .. n -> {"a", "b"}] : n \in 1 .. 3} \cup Sources

MCSpecs == {rule \in [from : Sources, to : {address, <<"a">>}] : IsValid(rule)}

MCOwnerOrder == <<owner1, owner2, owner3>>

=============================================================================
