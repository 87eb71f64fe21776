-------------------------- MODULE RewriteTableProofs --------------------------
(***************************************************************************)
(* The invariants of RewriteTable, for every set of owners, specs and      *)
(* hosts.  Their conjunction is inductive as it stands.                    *)
(***************************************************************************)
EXTENDS RewriteTable, RewriteRulesProofs

Inv == TypeOK /\ OwnersAreHeld /\ SourcesDoNotClash

LEMMA InitInv == Init => Inv
<1> SUFFICES ASSUME Init PROVE Inv
  OBVIOUS
<1> QED
  BY EmptyTableIsTable DEF Init, Inv, TypeOK, OwnersAreHeld, SourcesDoNotClash

LEMMA NextInv == Inv /\ [Next]_vars => Inv'
<1> SUFFICES ASSUME Inv, [Next]_vars PROVE Inv'
  OBVIOUS
<1> USE DEF Inv, TypeOK, OwnersAreHeld, SourcesDoNotClash
<1>1. ASSUME NEW owner \in Owners, Hold(owner) PROVE Inv'
  BY <1>1 DEF Hold
<1>2. ASSUME NEW owner \in Owners, NEW rule \in Specs, Register(owner, rule) PROVE Inv'
  <2>1. ~AddRule(table, owner, rule).err
    BY <1>2 DEF Register, AddRule
  <2>2. /\ table' = AddRule(table, owner, rule).table
        /\ DOMAIN table' = DOMAIN table \cup {owner}
    BY <1>2, <2>1, AddRuleFacts DEF Register
  <2>3. table' \in Tables(Owners, Specs) /\ ClashFree(table')
    BY <2>2, AddRuleFacts
  <2> QED  BY <1>2, <2>2, <2>3 DEF Register
<1>3. ASSUME NEW owner \in Owners, Withdraw(owner) PROVE Inv'
  <2>1. /\ table' \in Tables(Owners, Specs)
        /\ ClashFree(table')
        /\ DOMAIN table' = DOMAIN table \ {owner}
    BY <1>3, RemoveRuleFacts DEF Withdraw
  <2> QED  BY <1>3, <2>1 DEF Withdraw
<1>4. ASSUME NEW owner \in Owners, Release(owner) PROVE Inv'
  BY <1>4 DEF Release
<1>5. ASSUME Damage PROVE Inv'
  BY <1>5, EmptyTableIsTable DEF Damage
<1>6. ASSUME UNCHANGED vars PROVE Inv'
  BY <1>6 DEF vars
<1> QED  BY <1>1, <1>2, <1>3, <1>4, <1>5, <1>6 DEF Next

\* The rule set keeps its type.
THEOREM TableTypeCorrect == Spec => []TypeOK
<1>1. Inv => TypeOK
  BY DEF Inv
<1> QED  BY InitInv, NextInv, <1>1, PTL DEF Spec

\* No entry outlives its owner, in every history of AddRule, RemoveRule,
\* finalizers and damages.
THEOREM TableOwnersAreHeld == Spec => []OwnersAreHeld
<1>1. Inv => OwnersAreHeld
  BY DEF Inv
<1> QED  BY InitInv, NextInv, <1>1, PTL DEF Spec

\* No history leads to two clashing sources (the guarantee of
\* NewRewriteRuleSet).
THEOREM TableSourcesDoNotClash == Spec => []SourcesDoNotClash
<1>1. Inv => SourcesDoNotClash
  BY DEF Inv
<1> QED  BY InitInv, NextInv, <1>1, PTL DEF Spec

\* No history leads to a name that two rules match (the comments on
\* NewRewriteRuleSet and FindMatchingRule).
THEOREM TableAtMostOneMatch == Spec => []AtMostOneMatch
<1>1. Inv => AtMostOneMatch
  <2> SUFFICES ASSUME Inv PROVE AtMostOneMatch
    OBVIOUS
  <2>1. \A o \in DOMAIN table : table[o] \in Rule
    BY TablesDef, TableAssumption DEF Inv, TypeOK
  <2>2. \A o \in DOMAIN table : table[o].from \in Name
    BY <2>1 DEF Rule
  <2> QED
    BY <2>2, ClashFreeIsUnambiguous, TableAssumption
    DEF Inv, SourcesDoNotClash, AtMostOneMatch
<1> QED  BY InitInv, NextInv, <1>1, PTL DEF Spec

=============================================================================
