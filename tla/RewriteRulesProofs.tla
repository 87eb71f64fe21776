-------------------------- MODULE RewriteRulesProofs --------------------------
(***************************************************************************)
(* Facts about the rule sets of RewriteRules, for every set of labels and  *)
(* every rule set.  No induction is needed: a match is a statement about   *)
(* positions counted from the end.                                         *)
(***************************************************************************)
EXTENDS RewriteRules, TLAPS

\* Two sources that match one host clash with each other: of two wildcards the
\* longer one ends like the host, so the shorter one matches it.
LEMMA CommonHostClashes ==
  ASSUME NEW a \in Name, NEW b \in Name, NEW host \in Name,
         Matches(a, host), Matches(b, host)
  PROVE  Clash(a, b)
<1>1. CASE ~IsWildcard(a) \/ ~IsWildcard(b)
  BY <1>1 DEF Clash, Matches
<1>2. CASE IsWildcard(a) /\ IsWildcard(b)
  <2>1. /\ a \in Seq(Labels) /\ b \in Seq(Labels) /\ host \in Seq(Labels)
        /\ Len(a) \in Nat /\ Len(b) \in Nat /\ Len(host) \in Nat
    BY DEF Name
  <2>2. \A i \in 0 .. (Len(a) - 2) : host[Len(host) - i] = a[Len(a) - i]
    BY <1>2 DEF Matches
  <2>3. \A i \in 0 .. (Len(b) - 2) : host[Len(host) - i] = b[Len(b) - i]
    BY <1>2 DEF Matches
  <2>4. CASE Len(a) <= Len(b)
    <3>1. \A i \in 0 .. (Len(a) - 2) : b[Len(b) - i] = a[Len(a) - i]
      BY <2>1, <2>2, <2>3, <2>4
    <3>2. Matches(a, b)
      BY <1>2, <2>4, <3>1 DEF Matches
    <3> QED  BY <3>2 DEF Clash
  <2>5. CASE Len(b) <= Len(a)
    <3>1. \A i \in 0 .. (Len(b) - 2) : a[Len(a) - i] = b[Len(b) - i]
      BY <2>1, <2>2, <2>3, <2>5
    <3>2. Matches(b, a)
      BY <1>2, <2>5, <3>1 DEF Matches
    <3> QED  BY <3>2 DEF Clash
  <2> QED  BY <2>1, <2>4, <2>5
<1> QED  BY <1>1, <1>2

\* The first guarantee of NewRewriteRuleSet gives the second: in a clash-free
\* rule set at most one rule matches a host, whatever FindMatchingRule visits
\* first.
THEOREM ClashFreeIsUnambiguous ==
  ASSUME NEW table, NEW hosts \in SUBSET Name, ClashFree(table),
         \A o \in DOMAIN table : table[o].from \in Name
  PROVE  Unambiguous(table, hosts)
<1> SUFFICES ASSUME NEW host \in hosts,
                    NEW o \in MatchingOwners(table, host),
                    NEW p \in MatchingOwners(table, host),
                    o # p
             PROVE  FALSE
  BY DEF Unambiguous
<1>1. /\ o \in DOMAIN table /\ Matches(table[o].from, host)
      /\ p \in DOMAIN table /\ Matches(table[p].from, host)
  BY DEF MatchingOwners
<1>2. Clash(table[o].from, table[p].from)
  BY <1>1, CommonHostClashes
<1> QED  BY <1>1, <1>2 DEF ClashFree

-----------------------------------------------------------------------------
\* A rule set by its domain and its values.
LEMMA TablesDef ==
  ASSUME NEW owners, NEW rules, NEW table
  PROVE  table \in Tables(owners, rules)
           <=> /\ table = [o \in DOMAIN table |-> table[o]]
               /\ DOMAIN table \subseteq owners
               /\ \A o \in DOMAIN table : table[o] \in rules
  BY DEF Tables

LEMMA EmptyTableIsTable ==
  ASSUME NEW owners, NEW rules
  PROVE  EmptyTable \in Tables(owners, rules) /\ ClashFree(EmptyTable) /\ DOMAIN EmptyTable = {}
<1>1. DOMAIN EmptyTable = {} /\ EmptyTable = [o \in DOMAIN EmptyTable |-> EmptyTable[o]]
  BY DEF EmptyTable
<1> QED  BY <1>1, TablesDef DEF ClashFree

\* AddRule: no new rule set on a conflict; otherwise the owner's rule is the
\* new one, nobody else's has changed, and no clash has come in.
LEMMA AddRuleFacts ==
  ASSUME NEW owners, NEW rules, NEW table \in Tables(owners, rules),
         NEW owner \in owners, NEW rule \in rules
  PROVE  /\ AddRule(table, owner, rule).table \in Tables(owners, rules)
         /\ ClashFree(table) => ClashFree(AddRule(table, owner, rule).table)
         /\ AddRule(table, owner, rule).err <=> Conflicts(table, owner, rule) # {}
         /\ ~AddRule(table, owner, rule).err =>
              /\ AddRule(table, owner, rule).table = Put(table, owner, rule)
              /\ DOMAIN AddRule(table, owner, rule).table = DOMAIN table \cup {owner}
              /\ ~AddRule(table, owner, rule).changed =>
                   owner \in DOMAIN table /\ table[owner] = rule
<1> DEFINE new == Put(table, owner, rule)
<1>1. /\ DOMAIN table \subseteq owners
      /\ \A o \in DOMAIN table : table[o] \in rules
  BY TablesDef
<1>2. /\ DOMAIN new = DOMAIN table \cup {owner}
      /\ new[owner] = rule
      /\ \A o \in DOMAIN table : o # owner => new[o] = table[o]
      /\ new = [o \in DOMAIN new |-> new[o]]
  BY DEF Put
<1>3. new \in Tables(owners, rules)
  <2>1. DOMAIN new \subseteq owners /\ \A o \in DOMAIN new : new[o] \in rules
    BY <1>1, <1>2
  <2> HIDE DEF new
  <2> QED  BY <1>2, <2>1, TablesDef
<1>4. ASSUME Conflicts(table, owner, rule) = {}, ClashFree(table) PROVE ClashFree(new)
  <2> SUFFICES ASSUME NEW o \in DOMAIN new, NEW p \in DOMAIN new, o # p
               PROVE  ~Clash(new[o].from, new[p].from)
    BY DEF ClashFree
  <2>1. \A q \in DOMAIN table : q # owner => ~Clash(table[q].from, rule.from)
    BY <1>4 DEF Conflicts
  <2> HIDE DEF new
  <2>2. CASE o = owner
    BY <1>2, <2>1, <2>2 DEF Clash
  <2>3. CASE p = owner
    BY <1>2, <2>1, <2>3
  <2>4. CASE o # owner /\ p # owner
    BY <1>2, <1>4, <2>4 DEF ClashFree
  <2> QED  BY <2>2, <2>3, <2>4
<1>5. CASE Conflicts(table, owner, rule) = {}
  BY <1>2, <1>3, <1>4, <1>5 DEF AddRule
<1>6. CASE Conflicts(table, owner, rule) # {}
  BY <1>6 DEF AddRule
<1> QED  BY <1>5, <1>6

\* RemoveRule: the owner has no rule, everybody else's is untouched.
LEMMA RemoveRuleFacts ==
  ASSUME NEW owners, NEW rules, NEW table \in Tables(owners, rules), NEW owner
  PROVE  /\ RemoveRule(table, owner).table \in Tables(owners, rules)
         /\ ClashFree(table) => ClashFree(RemoveRule(table, owner).table)
         /\ ~RemoveRule(table, owner).err
         /\ DOMAIN RemoveRule(table, owner).table = DOMAIN table \ {owner}
         /\ RemoveRule(table, owner).changed <=> owner \in DOMAIN table
<1> DEFINE new == [o \in DOMAIN table \ {owner} |-> table[o]]
<1>1. RemoveRule(table, owner).table = new
  BY DEF RemoveRule
<1>2. /\ DOMAIN new = DOMAIN table \ {owner}
      /\ \A o \in DOMAIN new : new[o] = table[o]
      /\ new = [o \in DOMAIN new |-> new[o]]
  OBVIOUS
<1>3. DOMAIN table \subseteq owners /\ \A o \in DOMAIN table : table[o] \in rules
  BY TablesDef
<1> HIDE DEF new
<1>4. new \in Tables(owners, rules)
  BY <1>2, <1>3, TablesDef
<1>5. ClashFree(table) => ClashFree(new)
  BY <1>2 DEF ClashFree
<1> QED  BY <1>1, <1>2, <1>4, <1>5 DEF RemoveRule

=============================================================================
