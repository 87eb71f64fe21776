-------------------------- MODULE RewriteFormatProofs --------------------------
(***************************************************************************)
(* What String writes ParseRewriteRuleSet reads, for every rule set; and   *)
(* what ParseRewriteRuleSet accepts, from whomever, is a rule set that     *)
(* keeps the guarantees of NewRewriteRuleSet.  So these hold of the text,  *)
(* too, over every history of additions, removals and edits by hand.       *)
(*                                                                         *)
(* The parser is a loop and String a concatenation, so these are proofs by *)
(* induction: over the rounds of the one, and the owners of the other.     *)
(***************************************************************************)
EXTENDS RewriteFormat, RewriteTableProofs, WellFoundedInduction

\* The rules NewRewriteRule makes.
Admitted == {rule \in Rule : IsValid(rule)}

\* The lines a text is made of, if it names these owners only.
Line(owners) ==
  {<<"owner", owner>> : owner \in owners}
    \cup {<<"from", name>> : name \in Name}
    \cup {<<"to", target>> : target \in Target}
    \cup {Directive(rule) : rule \in Admitted}
    \cup {HostsLine, EndOfHosts[1], EndOfHosts[2], EndOfHosts[3]}

-----------------------------------------------------------------------------
(* Induction *)

LEMMA LeastNumber ==
  ASSUME NEW T, T \subseteq Nat, T # {}
  PROVE  \E n \in T : \A m \in T : n <= m
<1>1. \A m, n \in Nat : m < n => <<m, n>> \in OpToRel(<, Nat)
  BY DEF OpToRel
<1>2. \E R : IsWellFoundedOn(R, Nat) /\ \A m, n \in Nat : m < n => <<m, n>> \in R
  BY <1>1, NatLessThanWellFounded, Zenon
<1>3. PICK R : IsWellFoundedOn(R, Nat) /\ \A m, n \in Nat : m < n => <<m, n>> \in R
  BY <1>2
<1>4. \E n \in T : \A m \in T : ~(<<m, n>> \in R)
  <2>1. IsWellFoundedOn(R, Nat)
    BY <1>3
  <2> QED  BY <2>1, WFMin, Zenon
<1>5. PICK n \in T : \A m \in T : ~(<<m, n>> \in R)
  BY <1>4
<1>6. ASSUME NEW m \in T PROVE n <= m
  <2>1. ~(m < n)
    BY <1>3, <1>5
  <2> QED  BY <2>1
<1> QED  BY <1>6

\* Induction over the numbers up to a bound, for the set of those of which
\* something is true.
LEMMA InductionUpTo ==
  ASSUME NEW n \in Nat, NEW S, 0 \in S,
         \A i \in 0 .. n - 1 : i \in S => i + 1 \in S
  PROVE  0 .. n \subseteq S
<1> SUFFICES ASSUME (0 .. n) \ S # {} PROVE FALSE
  OBVIOUS
<1> DEFINE T == (0 .. n) \ S
<1>0. T \subseteq Nat /\ T # {}
  OBVIOUS
<1>1. PICK i \in T : \A j \in T : i <= j
  <2> HIDE DEF T
  <2> QED  BY <1>0, LeastNumber
<1>2. i # 0 /\ i - 1 \in 0 .. n - 1
  BY <1>1
<1>3. i - 1 \in S
  BY <1>1, <1>2
<1> QED  BY <1>1, <1>2, <1>3

-----------------------------------------------------------------------------
(* The parser's loop *)

LEMMA RoundsFacts ==
  ASSUME NEW lines, Len(lines) \in Nat
  PROVE  /\ Rounds(lines)[0] = Start
         /\ \A i \in 0 .. Len(lines) - 1 :
              Rounds(lines)[i + 1] = Consume(lines, Rounds(lines)[i])
<1> DEFINE n == Len(lines)
           Is(r, k) == r = [i \in 0 .. k |-> IF i = 0 THEN Start ELSE Consume(lines, r[i - 1])]
           S == {k \in Nat : \E r : Is(r, k)}
<1>1. 0 \in S
  <2>1. Is([i \in 0 .. 0 |-> Start], 0)
    OBVIOUS
  <2> QED  BY <2>1
<1>2. ASSUME NEW k \in 0 .. n - 1, k \in S PROVE k + 1 \in S
  <2>1. PICK r : Is(r, k)
    BY <1>2
  <2> DEFINE t == [i \in 0 .. k + 1 |-> IF i = k + 1 THEN Consume(lines, r[k]) ELSE r[i]]
  <2>2. \A i \in 0 .. k + 1 : t[i] = IF i = 0 THEN Start ELSE Consume(lines, t[i - 1])
    BY <2>1
  <2>3. Is(t, k + 1)
    BY <2>2
  <2>4. \E u : Is(u, k + 1)
    <3> HIDE DEF t, Is
    <3> QED  BY <2>3
  <2> QED  BY <2>4
<1>3. n \in S
  <2>1. 0 .. n \subseteq S
    <3>1. n \in Nat
      OBVIOUS
    <3> HIDE DEF S, n
    <3> QED  BY <1>1, <1>2, <3>1, InductionUpTo
  <2>2. n \in 0 .. n
    OBVIOUS
  <2> QED  BY <2>1, <2>2
<1>4. Is(CHOOSE r : Is(r, n), n)
  BY <1>3
<1>5. Is(Rounds(lines), n)
  BY <1>4 DEF Rounds
<1> QED  BY <1>5

\* The parser comes by there (or the text ends there).
Reaches(lines, p) ==
  \E k \in 0 .. Len(lines) : k <= p.at /\ Rounds(lines)[k] = p

LEMMA ReachesStart ==
  ASSUME NEW lines, Len(lines) \in Nat
  PROVE  Reaches(lines, Start)
<1>1. Start.at = 0 /\ 0 \in 0 .. Len(lines)
  BY DEF Start
<1> QED  BY <1>1, RoundsFacts DEF Reaches

LEMMA ReachesNext ==
  ASSUME NEW lines, Len(lines) \in Nat, NEW p, Reaches(lines, p), p.at \in Nat,
         p.at < Len(lines), NEW q, q = Consume(lines, p), q.at \in Nat, p.at < q.at
  PROVE  Reaches(lines, q)
<1>1. PICK k \in 0 .. Len(lines) : k <= p.at /\ Rounds(lines)[k] = p
  BY DEF Reaches
<1>2. k \in 0 .. Len(lines) - 1 /\ k + 1 \in 0 .. Len(lines) /\ k + 1 <= q.at
  BY <1>1
<1>3. Rounds(lines)[k + 1] = q
  BY <1>1, <1>2, RoundsFacts
<1> QED  BY <1>2, <1>3 DEF Reaches

\* After the last line nothing happens any more.
LEMMA ReachesEnd ==
  ASSUME NEW lines, Len(lines) \in Nat, NEW p, Reaches(lines, p), p.at = Len(lines)
  PROVE  Parse(lines) = p
<1>1. PICK k \in 0 .. Len(lines) : Rounds(lines)[k] = p
  BY DEF Reaches
<1>2. Consume(lines, p) = p
  BY DEF Consume
<1> DEFINE S == {i \in Nat : k + i <= Len(lines) => Rounds(lines)[k + i] = p}
<1>3. 0 \in S
  BY <1>1
<1>4. ASSUME NEW i \in 0 .. Len(lines) - 1, i \in S PROVE i + 1 \in S
  <2> SUFFICES ASSUME k + (i + 1) <= Len(lines) PROVE Rounds(lines)[k + (i + 1)] = p
    OBVIOUS
  <2>1. Rounds(lines)[k + i] = p
    BY <1>4
  <2>2. k + i \in 0 .. Len(lines) - 1 /\ k + (i + 1) = (k + i) + 1
    OBVIOUS
  <2> QED  BY <1>2, <2>1, <2>2, RoundsFacts
<1>5. 0 .. Len(lines) \subseteq S
  <2> HIDE DEF S
  <2> QED  BY <1>3, <1>4, InductionUpTo
<1>6. Len(lines) - k \in S
  <2>1. Len(lines) - k \in 0 .. Len(lines)
    OBVIOUS
  <2> HIDE DEF S
  <2> QED  BY <1>5, <2>1
<1> QED  BY <1>6 DEF Parse

-----------------------------------------------------------------------------
(* What is accepted *)

\* What the parser has at a round: a rule set with the guarantees, and a rule for
\* every owner that the lines behind it name.
IsParser(lines, owners, p) ==
  /\ p \in [at : 0 .. Len(lines), inHosts : BOOLEAN, err : BOOLEAN,
            table : Tables(owners, Admitted)]
  /\ ClashFree(p.table)
  /\ \A i \in 1 .. p.at : lines[i][1] = "owner" => lines[i][2] \in DOMAIN p.table

\* The words of a line, by its first one.
LEMMA LineWords ==
  ASSUME NEW owners, NEW line \in Line(owners)
  PROVE  /\ line[1] = "owner" => \E owner \in owners : line = <<"owner", owner>>
         /\ line[1] = "from" => \E name \in Name : line = <<"from", name>>
         /\ line[1] = "to" => \E target \in Target : line = <<"to", target>>
<1>1. \A rule : Directive(rule)[1] \in {"answer", "rewrite"}
  BY DEF Directive
<1>2. /\ HostsLine[1] = "hosts" /\ EndOfHosts[1][1] = "ttl"
      /\ EndOfHosts[2][1] = "fallthrough" /\ EndOfHosts[3][1] = "}"
  BY DEF HostsLine, EndOfHosts
<1>3. CASE line \in {Directive(rule) : rule \in Admitted}
  BY <1>1, <1>3
<1>4. CASE line \in {HostsLine, EndOfHosts[1], EndOfHosts[2], EndOfHosts[3]}
  BY <1>2, <1>4
<1>5. CASE line \in {<<"owner", owner>> : owner \in owners}
  BY <1>5
<1>6. CASE line \in {<<"from", name>> : name \in Name}
  BY <1>6
<1>7. CASE line \in {<<"to", target>> : target \in Target}
  BY <1>7
<1> QED  BY <1>3, <1>4, <1>5, <1>6, <1>7 DEF Line

LEMMA ParserStarts ==
  ASSUME NEW owners, NEW lines \in Seq(Line(owners))
  PROVE  IsParser(lines, owners, Start)
<1>1. EmptyTable \in Tables(owners, Admitted) /\ ClashFree(EmptyTable)
  BY EmptyTableIsTable
<1>2. 0 \in 0 .. Len(lines)
  OBVIOUS
<1> QED  BY <1>1, <1>2 DEF IsParser, Start

LEMMA ParserGoesOn ==
  ASSUME NEW owners, NEW lines \in Seq(Line(owners)), NEW p, IsParser(lines, owners, p)
  PROVE  /\ IsParser(lines, owners, Consume(lines, p))
         /\ \/ Consume(lines, p).err
            \/ Consume(lines, p).at > p.at
            \/ p.at = Len(lines) /\ Consume(lines, p) = p
<1> DEFINE q == Consume(lines, p)
           owner == lines[p.at + 1][2]
           rule == [from |-> lines[p.at + 2][2], to |-> lines[p.at + 3][2]]
           added == AddRule(p.table, owner, rule)
           Fields == [at : 0 .. Len(lines), inHosts : BOOLEAN, err : BOOLEAN,
                      table : Tables(owners, Admitted)]
<1> HIDE DEF Fields
<1>1. /\ p \in [at : 0 .. Len(lines), inHosts : BOOLEAN, err : BOOLEAN,
                table : Tables(owners, Admitted)]
      /\ p \in Fields
      /\ ClashFree(p.table)
      /\ \A i \in 1 .. p.at : lines[i][1] = "owner" => lines[i][2] \in DOMAIN p.table
      /\ Len(lines) \in Nat
      /\ \A i \in 1 .. Len(lines) : lines[i] \in Line(owners)
  BY DEF IsParser, Fields
<1>2. CASE p.err \/ p.at >= Len(lines)
  <2>1. q = p
    BY <1>2 DEF Consume
  <2> QED  BY <1>1, <1>2, <2>1
<1>3. CASE ~p.err /\ p.at < Len(lines) /\ lines[p.at + 1] = HostsLine /\ ~p.inHosts
  <2>1. q = [p EXCEPT !.at = @ + 1, !.inHosts = TRUE]
    BY <1>1, <1>3 DEF Consume
  <2>2. lines[p.at + 1][1] # "owner"
    BY <1>3 DEF HostsLine
  <2>3. \A i \in 1 .. p.at + 1 : lines[i][1] = "owner" => lines[i][2] \in DOMAIN p.table
    BY <1>1, <2>2
  <2>4. /\ q \in Fields
        /\ q.at = p.at + 1 /\ q.table = p.table
    <3>1. q = [at |-> p.at + 1, inHosts |-> TRUE, err |-> p.err, table |-> p.table]
      BY <1>1, <2>1 DEF Fields
    <3>2. p.at + 1 \in 0 .. Len(lines) /\ p.inHosts \in BOOLEAN /\ p.err \in BOOLEAN
      BY <1>1, <1>3 DEF Fields
    <3>3. p.table \in Tables(owners, Admitted)
      BY <1>1 DEF Fields
    <3> QED  BY <2>1, <3>1, <3>2, <3>3 DEF Fields
  <2>5. IsParser(lines, owners, q)
    BY <1>1, <2>3, <2>4 DEF IsParser, Fields
  <2> QED  BY <1>1, <2>4, <2>5
<1>4. CASE /\ ~p.err /\ p.at < Len(lines) /\ ~(lines[p.at + 1] = HostsLine /\ ~p.inHosts)
           /\ EndsHosts(lines, p.at)
  <2>1. q = [p EXCEPT !.at = @ + 3, !.inHosts = FALSE]
    BY <1>1, <1>4 DEF Consume, AfterEnd
  <2>2. /\ p.at + 3 <= Len(lines)
        /\ lines[p.at + 1][1] # "owner" /\ lines[p.at + 2][1] # "owner"
        /\ lines[p.at + 3][1] # "owner"
    <3>1. p.at + 3 <= Len(lines) /\ \A i \in 1 .. 3 : lines[p.at + i] = EndOfHosts[i]
      BY <1>4 DEF EndsHosts
    <3>2. /\ lines[p.at + 1] = EndOfHosts[1] /\ lines[p.at + 2] = EndOfHosts[2]
          /\ lines[p.at + 3] = EndOfHosts[3]
      BY <3>1
    <3>3. /\ EndOfHosts[1][1] = "ttl" /\ EndOfHosts[2][1] = "fallthrough"
          /\ EndOfHosts[3][1] = "}"
      BY DEF EndOfHosts
    <3> QED  BY <3>1, <3>2, <3>3
  <2>3. \A i \in 1 .. p.at + 3 : lines[i][1] = "owner" => lines[i][2] \in DOMAIN p.table
    BY <1>1, <2>2
  <2>4. /\ q \in Fields
        /\ q.at = p.at + 3 /\ q.table = p.table
    <3>1. q = [at |-> p.at + 3, inHosts |-> FALSE, err |-> p.err, table |-> p.table]
      BY <1>1, <2>1 DEF Fields
    <3>2. p.at + 3 \in 0 .. Len(lines) /\ p.inHosts \in BOOLEAN /\ p.err \in BOOLEAN
      BY <1>1, <2>2 DEF Fields
    <3>3. p.table \in Tables(owners, Admitted)
      BY <1>1 DEF Fields
    <3> QED  BY <2>1, <3>1, <3>2, <3>3 DEF Fields
  <2>5. IsParser(lines, owners, q)
    BY <1>1, <2>3, <2>4 DEF IsParser, Fields
  <2> QED  BY <1>1, <2>4, <2>5
<1>5. CASE /\ ~p.err /\ p.at < Len(lines) /\ ~(lines[p.at + 1] = HostsLine /\ ~p.inHosts)
           /\ ~EndsHosts(lines, p.at)
           /\ ~StartsRule(lines, p.at, p.inHosts) \/ ~AdmitsRule(rule) \/ added.err
  <2>1. q = [p EXCEPT !.err = TRUE]
    BY <1>1, <1>5 DEF Consume
  <2>2. IsParser(lines, owners, q)
    BY <1>1, <2>1 DEF IsParser
  <2> QED  BY <1>1, <2>1, <2>2
<1>6. CASE /\ ~p.err /\ p.at < Len(lines) /\ ~(lines[p.at + 1] = HostsLine /\ ~p.inHosts)
           /\ ~EndsHosts(lines, p.at)
           /\ StartsRule(lines, p.at, p.inHosts) /\ AdmitsRule(rule) /\ ~added.err
  <2>1. q = [p EXCEPT !.at = @ + 4, !.table = added.table]
    BY <1>1, <1>6 DEF Consume
  <2>2. /\ p.at + 4 <= Len(lines)
        /\ lines[p.at + 1][1] = "owner"
        /\ lines[p.at + 2][1] = "from"
        /\ lines[p.at + 3][1] = "to"
        /\ lines[p.at + 4][1] # "owner"
    BY <1>6 DEF StartsRule, IsDirective
  <2>3. owner \in owners /\ rule.from \in Name /\ rule.to \in Target
    <3>1. /\ lines[p.at + 1] \in Line(owners) /\ lines[p.at + 2] \in Line(owners)
          /\ lines[p.at + 3] \in Line(owners)
      BY <1>1, <2>2
    <3>2. /\ \E o \in owners : lines[p.at + 1] = <<"owner", o>>
          /\ \E name \in Name : lines[p.at + 2] = <<"from", name>>
          /\ \E target \in Target : lines[p.at + 3] = <<"to", target>>
      BY <2>2, <3>1, LineWords
    <3> QED  BY <3>2
  <2>4. rule \in Admitted
    BY <1>6, <2>3 DEF Admitted, Rule, AdmitsRule
  <2> HIDE DEF owner, rule
  <2>5. /\ added.table \in Tables(owners, Admitted)
        /\ ClashFree(added.table)
        /\ DOMAIN added.table = DOMAIN p.table \cup {owner}
    BY <1>1, <1>6, <2>3, <2>4, AddRuleFacts
  <2> HIDE DEF added
  <2>6. \A i \in 1 .. p.at + 4 : lines[i][1] = "owner" => lines[i][2] \in DOMAIN added.table
    <3> SUFFICES ASSUME NEW i \in 1 .. p.at + 4, lines[i][1] = "owner"
                 PROVE  lines[i][2] \in DOMAIN added.table
      OBVIOUS
    <3>1. CASE i \in 1 .. p.at
      BY <1>1, <2>5, <3>1
    <3>2. CASE i = p.at + 1
      BY <2>5, <3>2 DEF owner
    <3>3. i \in 1 .. p.at \/ i = p.at + 1
      BY <1>1, <2>2
    <3> QED  BY <3>1, <3>2, <3>3
  <2>7. /\ q \in Fields
        /\ q.at = p.at + 4 /\ q.table = added.table
    <3>1. q = [at |-> p.at + 4, inHosts |-> p.inHosts, err |-> p.err, table |-> added.table]
      BY <1>1, <2>1 DEF Fields
    <3>2. p.at + 4 \in 0 .. Len(lines) /\ p.inHosts \in BOOLEAN /\ p.err \in BOOLEAN
      BY <1>1, <2>2, <2>5 DEF Fields
    <3>3. p.table \in Tables(owners, Admitted)
      BY <1>1 DEF Fields
    <3> QED  BY <2>1, <3>1, <3>2, <3>3, <2>5 DEF Fields
  <2>8. IsParser(lines, owners, q)
    BY <2>5, <2>6, <2>7 DEF IsParser, Fields
  <2> QED  BY <1>1, <2>7, <2>8
<1> HIDE DEF q, rule, added
<1> QED  BY <1>1, <1>2, <1>3, <1>4, <1>5, <1>6 DEF q

\* A text that is accepted has been read to the end; the rule set keeps the
\* guarantees, and gives every owner a rule that the text names.
LEMMA ParseFacts ==
  ASSUME NEW owners, NEW lines \in Seq(Line(owners))
  PROVE  /\ IsParser(lines, owners, Parse(lines))
         /\ Parse(lines).err \/ Parse(lines).at = Len(lines)
<1> DEFINE n == Len(lines)
           S == {k \in 0 .. n : /\ IsParser(lines, owners, Rounds(lines)[k])
                                /\ \/ Rounds(lines)[k].err
                                   \/ Rounds(lines)[k].at >= k}
<1>0. n \in Nat
  OBVIOUS
<1>1. 0 \in S
  <2>1. Rounds(lines)[0] = Start
    BY RoundsFacts
  <2>2. Start.at = 0
    BY DEF Start
  <2> QED  BY <2>1, <2>2, ParserStarts
<1>2. ASSUME NEW k \in 0 .. n - 1, k \in S PROVE k + 1 \in S
  <2> DEFINE p == Rounds(lines)[k]
             q == Rounds(lines)[k + 1]
  <2>1. q = Consume(lines, p)
    BY RoundsFacts
  <2>2. IsParser(lines, owners, p) /\ (p.err \/ p.at >= k)
    BY <1>2
  <2> HIDE DEF p, q
  <2>3. IsParser(lines, owners, q) /\ (q.err \/ q.at > p.at \/ (p.at = Len(lines) /\ q = p))
    BY <2>1, <2>2, ParserGoesOn
  <2>4. p.at \in Nat /\ q.at \in Nat
    BY <2>2, <2>3 DEF IsParser
  <2>5. p.err => q.err
    BY <2>1 DEF Consume
  <2>6. q.err \/ q.at >= k + 1
    BY <2>2, <2>3, <2>4, <2>5
  <2> QED  BY <2>3, <2>6 DEF q
<1>3. n \in S
  <2>1. 0 .. n \subseteq S
    <3> HIDE DEF S, n
    <3> QED  BY <1>0, <1>1, <1>2, InductionUpTo
  <2>2. n \in 0 .. n
    OBVIOUS
  <2> QED  BY <2>1, <2>2
<1>4. IsParser(lines, owners, Parse(lines)) /\ (Parse(lines).err \/ Parse(lines).at >= n)
  BY <1>3 DEF Parse
<1>5. Parse(lines).at \in 0 .. n
  BY <1>4 DEF IsParser
<1> QED  BY <1>4, <1>5

\* The owners that a text names in its comments.
Named(lines) == {lines[i][2] : i \in {j \in DOMAIN lines : lines[j][1] = "owner"}}

\* A text that names some owners is made of the lines for these.
LEMMA NamedLines ==
  ASSUME NEW owners, NEW lines \in Seq(Line(owners))
  PROVE  lines \in Seq(Line(Named(lines))) /\ Named(lines) \subseteq owners
<1>1. ASSUME NEW i \in 1 .. Len(lines) PROVE lines[i] \in Line(Named(lines))
  <2>1. lines[i] \in Line(owners)
    OBVIOUS
  <2>2. CASE lines[i] \in {<<"owner", owner>> : owner \in owners}
    <3>1. PICK owner \in owners : lines[i] = <<"owner", owner>>
      BY <2>2
    <3>2. owner \in Named(lines)
      BY <3>1 DEF Named
    <3> QED  BY <3>1, <3>2 DEF Line
  <2> QED  BY <2>1, <2>2 DEF Line
<1>2. lines \in Seq(Line(Named(lines)))
  BY <1>1
<1>3. ASSUME NEW i \in DOMAIN lines, lines[i][1] = "owner" PROVE lines[i][2] \in owners
  <2>1. lines[i] \in Line(owners)
    OBVIOUS
  <2>2. PICK owner \in owners : lines[i] = <<"owner", owner>>
    BY <1>3, <2>1, LineWords
  <2> QED  BY <2>2
<1> QED  BY <1>2, <1>3 DEF Named

\* Whoever has written a text of such lines, in whatever order: if ParseRewriteRuleSet
\* accepts it, the rules are such as NewRewriteRule makes and do not clash, and the
\* owners that have one are exactly those that the text names; no comment is passed
\* over, and no owner gets a rule without one.
THEOREM AcceptedText ==
  ASSUME NEW lines \in Seq(Line(Owners)), ~Parse(lines).err
  PROVE  /\ Parse(lines).table \in Tables(Owners, Admitted)
         /\ ClashFree(Parse(lines).table)
         /\ DOMAIN Parse(lines).table = Named(lines)
<1> DEFINE p == Parse(lines)
<1>1. IsParser(lines, Owners, p) /\ p.at = Len(lines)
  BY ParseFacts
<1>2. /\ p.table \in Tables(Owners, Admitted) /\ ClashFree(p.table)
      /\ \A i \in 1 .. Len(lines) : lines[i][1] = "owner" => lines[i][2] \in DOMAIN p.table
  BY <1>1 DEF IsParser
<1>3. lines \in Seq(Line(Named(lines)))
  BY NamedLines
<1>4. IsParser(lines, Named(lines), p)
  BY <1>3, ParseFacts
<1>5. DOMAIN p.table \subseteq Named(lines)
  BY <1>4, TablesDef DEF IsParser
<1>6. Named(lines) \subseteq DOMAIN p.table
  BY <1>2 DEF Named
<1> QED  BY <1>2, <1>5, <1>6

-----------------------------------------------------------------------------
(* What is written *)

\* One sequence begins with another.
BeginsWith(long, short) ==
  /\ Len(short) <= Len(long)
  /\ \A j \in 1 .. Len(short) : long[j] = short[j]

LEMMA Appended ==
  ASSUME NEW T, NEW s \in Seq(T), NEW t \in Seq(T)
  PROVE  /\ s \o t \in Seq(T)
         /\ Len(s \o t) = Len(s) + Len(t)
         /\ BeginsWith(s \o t, s)
         /\ \A j \in 1 .. Len(t) : (s \o t)[Len(s) + j] = t[j]
  BY DEF BeginsWith

\* FlattenSeq one sequence at a time.
LEMMA FlattenSteps ==
  ASSUME NEW T, NEW seqs \in Seq(Seq(T))
  PROVE  \E flat :
           /\ flat[0] = <<>>
           /\ \A i \in 0 .. Len(seqs) - 1 : flat[i + 1] = flat[i] \o seqs[i + 1]
           /\ flat[Len(seqs)] = FlattenSeq(seqs)
<1> DEFINE n == Len(seqs)
           Is(f, k) == f = [i \in 1 .. k |-> IF i = 1 THEN seqs[i] ELSE f[i - 1] \o seqs[i]]
           S == {k \in Nat : \E f : Is(f, k)}
<1>0. n \in Nat /\ \A i \in 1 .. n : seqs[i] \in Seq(T)
  OBVIOUS
<1>1. 0 \in S
  <2>1. Is([i \in 1 .. 0 |-> <<>>], 0)
    OBVIOUS
  <2> QED  BY <2>1
<1>2. ASSUME NEW k \in 0 .. n - 1, k \in S PROVE k + 1 \in S
  <2>1. PICK f : Is(f, k)
    BY <1>2
  <2> DEFINE g == [i \in 1 .. k + 1 |->
                     IF i = 1 THEN seqs[i]
                     ELSE IF i = k + 1 THEN f[k] \o seqs[k + 1] ELSE f[i]]
  <2>2. \A i \in 1 .. k + 1 : g[i] = IF i = 1 THEN seqs[i] ELSE g[i - 1] \o seqs[i]
    <3> SUFFICES ASSUME NEW i \in 1 .. k + 1
                 PROVE  g[i] = IF i = 1 THEN seqs[i] ELSE g[i - 1] \o seqs[i]
      OBVIOUS
    <3>1. \A j \in 1 .. k + 1 :
            g[j] = IF j = 1 THEN seqs[j]
                   ELSE IF j = k + 1 THEN f[k] \o seqs[k + 1] ELSE f[j]
      OBVIOUS
    <3>2. \A j \in 1 .. k : f[j] = IF j = 1 THEN seqs[j] ELSE f[j - 1] \o seqs[j]
      BY <2>1
    <3> HIDE DEF g
    <3>3. CASE i = 1
      BY <3>1, <3>3
    <3>4. CASE i # 1 /\ i = k + 1
      <4>1. k \in 1 .. k /\ k \in 1 .. k + 1 /\ k # k + 1 /\ i - 1 = k
        BY <3>4
      <4>2. g[k] = f[k]
        BY <3>1, <3>2, <4>1
      <4>3. g[k + 1] = f[k] \o seqs[k + 1]
        BY <3>1, <3>4
      <4> QED  BY <3>4, <4>1, <4>2, <4>3
    <3>5. CASE i # 1 /\ i \in 1 .. k
      <4>1. i - 1 \in 1 .. k /\ i - 1 \in 1 .. k + 1 /\ i # k + 1 /\ i - 1 # k + 1
        BY <3>5
      <4>2. g[i - 1] = f[i - 1] /\ g[i] = f[i]
        BY <3>1, <3>2, <3>5, <4>1
      <4>3. f[i] = f[i - 1] \o seqs[i]
        BY <3>2, <3>5
      <4> QED  BY <3>5, <4>2, <4>3
    <3> QED  BY <3>3, <3>4, <3>5
  <2>3. Is(g, k + 1)
    BY <2>2
  <2>4. \E h : Is(h, k + 1)
    <3> HIDE DEF g, Is
    <3> QED  BY <2>3
  <2>5. k + 1 \in Nat
    OBVIOUS
  <2> HIDE DEF Is
  <2> QED  BY <2>4, <2>5
<1>3. n \in S
  <2>1. 0 .. n \subseteq S
    <3> HIDE DEF S, n
    <3> QED  BY <1>0, <1>1, <1>2, InductionUpTo
  <2>2. n \in 0 .. n
    OBVIOUS
  <2> QED  BY <2>1, <2>2
<1> DEFINE f == CHOOSE f : Is(f, n)
<1>4. Is(f, n)
  BY <1>3
<1>5. FlattenSeq(seqs) = IF n = 0 THEN seqs ELSE f[n]
  BY DEF FlattenSeq
<1> HIDE DEF f
<1> DEFINE flat == [i \in 0 .. n |-> IF i = 0 THEN <<>> ELSE f[i]]
<1>6. flat[0] = <<>>
  OBVIOUS
<1>7. ASSUME NEW i \in 0 .. n - 1 PROVE flat[i + 1] = flat[i] \o seqs[i + 1]
  <2>1. CASE i = 0
    <3>1. flat[1] = seqs[1] /\ flat[0] = <<>> /\ seqs[1] \in Seq(T)
      BY <1>0, <1>4, <2>1
    <3>2. \A t \in Seq(T) : <<>> \o t = t
      OBVIOUS
    <3> HIDE DEF flat
    <3> QED  BY <2>1, <3>1, <3>2
  <2>2. CASE i # 0
    <3>1. i \in 1 .. n /\ i + 1 \in 1 .. n /\ i + 1 # 1 /\ (i + 1) - 1 = i
      BY <2>2
    <3>2. flat[i] = f[i] /\ flat[i + 1] = f[i + 1]
      BY <3>1
    <3>3. \A j \in 1 .. n : f[j] = IF j = 1 THEN seqs[j] ELSE f[j - 1] \o seqs[j]
      BY <1>4
    <3>4. f[i + 1] = f[i] \o seqs[i + 1]
      BY <3>1, <3>3
    <3> HIDE DEF flat
    <3> QED  BY <3>2, <3>4
  <2> QED  BY <2>1, <2>2
<1>8. flat[n] = FlattenSeq(seqs)
  <2>1. CASE n = 0
    BY <1>5, <2>1
  <2>2. CASE n # 0
    BY <1>5, <2>2
  <2> QED  BY <2>1, <2>2
<1> HIDE DEF flat
<1> QED  BY <1>6, <1>7, <1>8

\* Where its parts are in a flattened sequence: ends[i] is where the first i of
\* them end.
LEMMA FlattenFacts ==
  ASSUME NEW T, NEW seqs \in Seq(Seq(T))
  PROVE  /\ FlattenSeq(seqs) \in Seq(T)
         /\ \E ends \in [0 .. Len(seqs) -> 0 .. Len(FlattenSeq(seqs))] :
              /\ ends[0] = 0
              /\ ends[Len(seqs)] = Len(FlattenSeq(seqs))
              /\ \A i \in 0 .. Len(seqs) - 1 :
                   /\ ends[i + 1] = ends[i] + Len(seqs[i + 1])
                   /\ \A j \in 1 .. Len(seqs[i + 1]) :
                        FlattenSeq(seqs)[ends[i] + j] = seqs[i + 1][j]
<1> DEFINE n == Len(seqs)
<1>1. PICK flat : /\ flat[0] = <<>>
                  /\ \A i \in 0 .. n - 1 : flat[i + 1] = flat[i] \o seqs[i + 1]
                  /\ flat[n] = FlattenSeq(seqs)
  BY FlattenSteps
<1>2. n \in Nat /\ \A i \in 0 .. n - 1 : seqs[i + 1] \in Seq(T)
  OBVIOUS
<1> DEFINE S == {i \in 0 .. n : flat[i] \in Seq(T)}
<1>3. 0 .. n \subseteq S
  <2>1. 0 \in S
    <3>1. <<>> \in Seq(T) /\ 0 \in 0 .. n
      BY <1>2
    <3> QED  BY <1>1, <3>1
  <2>2. ASSUME NEW i \in 0 .. n - 1, i \in S PROVE i + 1 \in S
    <3>1. flat[i + 1] = flat[i] \o seqs[i + 1] /\ flat[i] \in Seq(T) /\ seqs[i + 1] \in Seq(T)
      BY <1>1, <1>2, <2>2
    <3>2. flat[i + 1] \in Seq(T)
      <4> HIDE DEF n, S
      <4> QED  BY <3>1, Appended
    <3> QED  BY <1>2, <3>2
  <2> HIDE DEF S, n
  <2> QED  BY <1>2, <2>1, <2>2, InductionUpTo
<1>4. \A i \in 0 .. n : flat[i] \in Seq(T)
  BY <1>3
<1>5. ASSUME NEW i \in 0 .. n PROVE BeginsWith(flat[n], flat[i])
  <2> DEFINE R == {k \in Nat : i + k <= n => BeginsWith(flat[i + k], flat[i])}
  <2>1. 0 \in R
    BY <1>4 DEF BeginsWith
  <2>2. ASSUME NEW k \in 0 .. (n - i) - 1, k \in R PROVE k + 1 \in R
    <3>1. i + k \in 0 .. n - 1 /\ i + (k + 1) = (i + k) + 1
      BY <1>2
    <3>2. BeginsWith(flat[i + k], flat[i])
      BY <2>2, <3>1
    <3>3. flat[i + (k + 1)] = flat[i + k] \o seqs[(i + k) + 1]
      BY <1>1, <3>1
    <3>4. BeginsWith(flat[i + (k + 1)], flat[i + k])
      <4>1. flat[i + k] \in Seq(T) /\ seqs[(i + k) + 1] \in Seq(T)
        BY <1>2, <1>4, <3>1
      <4> HIDE DEF n, S, R
      <4> QED  BY <3>3, <4>1, Appended
    <3>5. Len(flat[i]) \in Nat /\ Len(flat[i + k]) \in Nat /\ Len(flat[i + (k + 1)]) \in Nat
      BY <1>4, <3>1
    <3>6. BeginsWith(flat[i + (k + 1)], flat[i])
      BY <3>2, <3>4, <3>5 DEF BeginsWith
    <3> QED  BY <3>6
  <2>3. n - i \in Nat /\ n - i \in 0 .. n - i /\ i + (n - i) = n
    BY <1>2
  <2>4. n - i \in R
    <3>1. 0 .. n - i \subseteq R
      <4> HIDE DEF R, n
      <4> QED  BY <2>1, <2>2, <2>3, InductionUpTo
    <3> QED  BY <2>3, <3>1
  <2> QED  BY <1>2, <2>3, <2>4
<1> DEFINE ends == [i \in 0 .. n |-> Len(flat[i])]
<1>6. ends \in [0 .. n -> 0 .. Len(flat[n])]
  <2>1. \A i \in 0 .. n : Len(flat[i]) \in 0 .. Len(flat[n])
    BY <1>2, <1>4, <1>5 DEF BeginsWith
  <2> QED  BY <2>1
<1>7. ends[0] = 0 /\ ends[n] = Len(flat[n])
  BY <1>1, <1>2
<1>8. ASSUME NEW i \in 0 .. n - 1
      PROVE  /\ ends[i + 1] = ends[i] + Len(seqs[i + 1])
             /\ \A j \in 1 .. Len(seqs[i + 1]) : flat[n][ends[i] + j] = seqs[i + 1][j]
  <2>0. i \in 0 .. n /\ i + 1 \in 0 .. n
    BY <1>2
  <2>1. /\ flat[i + 1] = flat[i] \o seqs[i + 1]
        /\ flat[i] \in Seq(T) /\ seqs[i + 1] \in Seq(T)
    <3> HIDE DEF n, S
    <3> QED  BY <1>1, <1>2, <1>4, <2>0
  <2>2. /\ Len(flat[i + 1]) = Len(flat[i]) + Len(seqs[i + 1])
        /\ \A j \in 1 .. Len(seqs[i + 1]) : flat[i + 1][Len(flat[i]) + j] = seqs[i + 1][j]
    <3> HIDE DEF n, S
    <3> DEFINE both == flat[i] \o seqs[i + 1]
    <3>1. /\ Len(both) = Len(flat[i]) + Len(seqs[i + 1])
          /\ \A j \in 1 .. Len(seqs[i + 1]) : both[Len(flat[i]) + j] = seqs[i + 1][j]
      <4>1. \A t \in Seq(T) :
              /\ Len(flat[i] \o t) = Len(flat[i]) + Len(t)
              /\ \A j \in 1 .. Len(t) : (flat[i] \o t)[Len(flat[i]) + j] = t[j]
        BY <2>1, Appended
      <4> QED  BY <2>1, <4>1
    <3>2. flat[i + 1] = both
      BY <2>1
    <3> HIDE DEF both
    <3> QED  BY <3>1, <3>2
  <2>3. \A j \in 1 .. Len(flat[i + 1]) : flat[n][j] = flat[i + 1][j]
    BY <1>5, <2>0 DEF BeginsWith
  <2>4. Len(flat[i]) \in Nat /\ Len(seqs[i + 1]) \in Nat
    BY <2>1
  <2>5. \A j \in 1 .. Len(seqs[i + 1]) : flat[n][Len(flat[i]) + j] = seqs[i + 1][j]
    <3> SUFFICES ASSUME NEW j \in 1 .. Len(seqs[i + 1])
                 PROVE  flat[n][Len(flat[i]) + j] = seqs[i + 1][j]
      OBVIOUS
    <3> HIDE DEF n, S
    <3>1. Len(flat[i]) + j \in 1 .. Len(flat[i + 1])
      <4>1. Len(flat[i + 1]) = Len(flat[i]) + Len(seqs[i + 1])
        BY <2>2
      <4>2. \A k, l \in Nat : \A m \in 1 .. l : k + m \in 1 .. k + l
        OBVIOUS
      <4> QED  BY <2>4, <4>1, <4>2
    <3> QED  BY <2>2, <2>3, <3>1
  <2> QED  BY <2>0, <2>2, <2>5
<1>9. n \in 0 .. n
  BY <1>2
<1>10. flat[n] \in Seq(T)
  BY <1>4, <1>9
<1>11. flat[n] = FlattenSeq(seqs)
  BY <1>1
<1> HIDE DEF ends, S, n
<1>12. /\ ends \in [0 .. n -> 0 .. Len(FlattenSeq(seqs))]
       /\ ends[0] = 0
       /\ ends[n] = Len(FlattenSeq(seqs))
  BY <1>6, <1>7, <1>11
<1>13. \A i \in 0 .. n - 1 :
         /\ ends[i + 1] = ends[i] + Len(seqs[i + 1])
         /\ \A j \in 1 .. Len(seqs[i + 1]) : FlattenSeq(seqs)[ends[i] + j] = seqs[i + 1][j]
  BY <1>8, <1>11
<1>14. FlattenSeq(seqs) \in Seq(T)
  BY <1>10, <1>11
<1> QED  BY <1>12, <1>13, <1>14 DEF n

-----------------------------------------------------------------------------
(* What is written is read *)

\* The parser with no error so far.
At(at, inHosts, rs) == [at |-> at, inHosts |-> inHosts, err |-> FALSE, table |-> rs]

\* The rules of some of the owners.
Part(rs, owners) == [owner \in owners |-> rs[owner]]

LEMMA RuleLines ==
  ASSUME NEW owners, NEW owner \in owners, NEW rule \in Admitted
  PROVE  /\ LinesOf(owner, rule) \in Seq(Line(owners))
         /\ Len(LinesOf(owner, rule)) = 4
         /\ LinesOf(owner, rule)[1] = <<"owner", owner>>
         /\ LinesOf(owner, rule)[2] = <<"from", rule.from>>
         /\ LinesOf(owner, rule)[3] = <<"to", rule.to>>
         /\ LinesOf(owner, rule)[4] = Directive(rule)
<1>1. rule.from \in Name /\ rule.to \in Target
  BY DEF Admitted, Rule
<1>2. /\ <<"owner", owner>> \in Line(owners)
      /\ <<"from", rule.from>> \in Line(owners)
      /\ <<"to", rule.to>> \in Line(owners)
      /\ Directive(rule) \in Line(owners)
  BY <1>1 DEF Line
<1> QED  BY <1>2 DEF LinesOf

\* The rule that comes next makes no conflict with those that are there.
LEMMA AddPart ==
  ASSUME NEW rs \in Tables(Owners, Admitted), ClashFree(rs),
         NEW owners \in SUBSET (DOMAIN rs), NEW owner \in DOMAIN rs
  PROVE  /\ ~AddRule(Part(rs, owners), owner, rs[owner]).err
         /\ AddRule(Part(rs, owners), owner, rs[owner]).table
              = Part(rs, owners \cup {owner})
<1>1. Conflicts(Part(rs, owners), owner, rs[owner]) = {}
  BY DEF Conflicts, Part, ClashFree
<1>2. Put(Part(rs, owners), owner, rs[owner]) = Part(rs, owners \cup {owner})
  BY DEF Put, Part
<1> QED  BY <1>1, <1>2 DEF AddRule

\* The lines of a rule follow, in the hosts block or outside of it.
RuleFollows(lines, at, inHosts, owner, rule) ==
  /\ at \in Nat /\ at + 4 <= Len(lines)
  /\ rule.to \in Addresses <=> inHosts
  /\ \A j \in 1 .. 4 : lines[at + j] = LinesOf(owner, rule)[j]

\* A rule that String has written is one round of the parser.
LEMMA RuleIsRead ==
  ASSUME NEW lines, Len(lines) \in Nat, NEW at,
         NEW rs \in Tables(Owners, Admitted), ClashFree(rs),
         NEW owners \in SUBSET (DOMAIN rs), NEW owner \in DOMAIN rs,
         NEW inHosts \in BOOLEAN, RuleFollows(lines, at, inHosts, owner, rs[owner])
  PROVE  Consume(lines, At(at, inHosts, Part(rs, owners)))
           = At(at + 4, inHosts, Part(rs, owners \cup {owner}))
<1> DEFINE rule == rs[owner]
<1>1. rule \in Admitted
  BY TablesDef
<1>0. /\ at \in Nat /\ at + 4 <= Len(lines)
      /\ rule.to \in Addresses <=> inHosts
      /\ \A j \in 1 .. 4 : lines[at + j] = LinesOf(owner, rule)[j]
  BY DEF RuleFollows
<1>2. /\ lines[at + 1] = <<"owner", owner>>
      /\ lines[at + 2] = <<"from", rule.from>>
      /\ lines[at + 3] = <<"to", rule.to>>
      /\ lines[at + 4] = Directive(rule)
  <2>1. /\ lines[at + 1] = LinesOf(owner, rule)[1]
        /\ lines[at + 2] = LinesOf(owner, rule)[2]
        /\ lines[at + 3] = LinesOf(owner, rule)[3]
        /\ lines[at + 4] = LinesOf(owner, rule)[4]
    BY <1>0
  <2> HIDE DEF rule
  <2> QED  BY <1>1, <2>1, RuleLines
<1>3. lines[at + 1] # HostsLine
  BY <1>2 DEF HostsLine
<1>4. ~EndsHosts(lines, at)
  <2>1. EndOfHosts[1][1] = "ttl"
    BY DEF EndOfHosts
  <2> QED  BY <1>2, <2>1 DEF EndsHosts
<1>5. IsDirective(lines[at + 4], inHosts)
  BY <1>0, <1>2 DEF IsDirective, Directive
<1>6. StartsRule(lines, at, inHosts)
  BY <1>0, <1>2, <1>5 DEF StartsRule
<1>7. [from |-> lines[at + 2][2], to |-> lines[at + 3][2]] = rule
  BY <1>1, <1>2 DEF Admitted, Rule
<1>8. AdmitsRule(rule)
  BY <1>1 DEF AdmitsRule, Admitted
<1>9. /\ ~AddRule(Part(rs, owners), owner, rule).err
      /\ AddRule(Part(rs, owners), owner, rule).table = Part(rs, owners \cup {owner})
  BY AddPart
<1> DEFINE p == At(at, inHosts, Part(rs, owners))
<1>10. p.at = at /\ p.inHosts = inHosts /\ p.err = FALSE /\ p.table = Part(rs, owners)
  BY DEF At
<1> HIDE DEF rule
<1>11. Consume(lines, p) = [p EXCEPT !.at = at + 4, !.table = Part(rs, owners \cup {owner})]
  <2>1. ~(p.err \/ p.at >= Len(lines))
    BY <1>0, <1>10
  <2>2. lines[at + 1][2] = owner
    BY <1>2
  <2> HIDE DEF p
  <2> QED
    BY <1>3, <1>4, <1>6, <1>7, <1>8, <1>9, <1>10, <2>1, <2>2 DEF Consume
<1> QED  BY <1>11 DEF At

\* The lines of each owner that LinesOfAll puts together.
LinesByOwner(rs, inHosts) ==
  [i \in 1 .. Len(OwnerOrder) |->
    LET owner == OwnerOrder[i]
    IN  IF owner \in OwnersOf(rs, inHosts) THEN LinesOf(owner, rs[owner]) ELSE <<>>]

LEMMA WrittenLines ==
  ASSUME NEW rs \in Tables(Owners, Admitted), NEW inHosts \in BOOLEAN
  PROVE  /\ LinesByOwner(rs, inHosts) \in Seq(Seq(Line(DOMAIN rs)))
         /\ Len(OwnerOrder) \in Nat
         /\ Len(LinesByOwner(rs, inHosts)) = Len(OwnerOrder)
         /\ LinesOfAll(rs, inHosts) = FlattenSeq(LinesByOwner(rs, inHosts))
         /\ LinesOfAll(rs, inHosts) \in Seq(Line(DOMAIN rs))
<1> DEFINE n == Len(OwnerOrder)
           blocks == LinesByOwner(rs, inHosts)
<1>1. n \in Nat
  BY FormatAssumption
<1>2. ASSUME NEW i \in 1 .. n PROVE blocks[i] \in Seq(Line(DOMAIN rs))
  <2> DEFINE owner == OwnerOrder[i]
  <2>1. blocks[i] = IF owner \in OwnersOf(rs, inHosts) THEN LinesOf(owner, rs[owner]) ELSE <<>>
    BY DEF LinesByOwner
  <2>2. CASE owner \in OwnersOf(rs, inHosts)
    <3>1. owner \in DOMAIN rs /\ rs[owner] \in Admitted
      BY <2>2, TablesDef DEF OwnersOf
    <3> HIDE DEF blocks, owner
    <3> QED  BY <2>1, <2>2, <3>1, RuleLines
  <2>3. CASE owner \notin OwnersOf(rs, inHosts)
    <3>1. blocks[i] = <<>>
      BY <2>1, <2>3
    <3> QED  BY <3>1
  <2> QED  BY <2>2, <2>3
<1>3. blocks = [i \in 1 .. n |-> blocks[i]]
  BY DEF LinesByOwner
<1> HIDE DEF n, blocks
<1>4. blocks \in Seq(Seq(Line(DOMAIN rs))) /\ Len(blocks) = n
  BY <1>1, <1>2, <1>3
<1>5. LinesOfAll(rs, inHosts) = FlattenSeq(blocks)
  BY DEF LinesOfAll, LinesByOwner, blocks
<1>6. FlattenSeq(blocks) \in Seq(Line(DOMAIN rs))
  BY <1>4, FlattenFacts
<1> QED  BY <1>1, <1>4, <1>5, <1>6 DEF n, blocks

\* Nothing is written only if there is nothing to write.
LEMMA NothingWritten ==
  ASSUME NEW rs \in Tables(Owners, Admitted), NEW inHosts \in BOOLEAN,
         LinesOfAll(rs, inHosts) = <<>>
  PROVE  OwnersOf(rs, inHosts) = {}
<1> DEFINE n == Len(OwnerOrder)
           blocks == LinesByOwner(rs, inHosts)
<1> SUFFICES ASSUME NEW owner \in OwnersOf(rs, inHosts) PROVE FALSE
  OBVIOUS
<1>1. owner \in DOMAIN rs /\ owner \in Owners /\ rs[owner] \in Admitted
  BY TablesDef DEF OwnersOf
<1>2. PICK i \in 0 .. n - 1 : OwnerOrder[i + 1] = owner
  <2>1. \E j \in 1 .. n : OwnerOrder[j] = owner
    BY <1>1, FormatAssumption
  <2>2. \A j \in 1 .. n : j - 1 \in 0 .. n - 1 /\ (j - 1) + 1 = j
    BY FormatAssumption
  <2> HIDE DEF n
  <2> QED  BY <2>1, <2>2
<1>3. blocks[i + 1] = LinesOf(owner, rs[owner])
  BY <1>2, FormatAssumption DEF LinesByOwner
<1>4. Len(blocks[i + 1]) = 4
  BY <1>1, <1>3, RuleLines
<1>5. /\ n \in Nat /\ Len(blocks) = n
      /\ blocks \in Seq(Seq(Line(DOMAIN rs)))
      /\ FlattenSeq(blocks) = <<>>
  BY WrittenLines
<1> HIDE DEF n, blocks
<1>6. PICK ends \in [0 .. n -> 0 .. Len(FlattenSeq(blocks))] :
        \A k \in 0 .. n - 1 : ends[k + 1] = ends[k] + Len(blocks[k + 1])
  BY <1>5, FlattenFacts
<1>7. ends[i] \in 0 .. 0 /\ ends[i + 1] \in 0 .. 0
  BY <1>5, <1>6
<1>8. ends[i + 1] = ends[i] + 4
  BY <1>4, <1>6
<1> QED  BY <1>7, <1>8

\* The lines of a block follow.
BlockFollows(lines, at, block) ==
  /\ at \in Nat /\ at + Len(block) <= Len(lines)
  /\ \A k \in 1 .. Len(block) : lines[at + k] = block[k]

\* So are the lines of all rules of one kind, in the order of their owners.
LEMMA BlockIsRead ==
  ASSUME NEW rs \in Tables(Owners, Admitted), ClashFree(rs), NEW inHosts \in BOOLEAN,
         NEW lines, Len(lines) \in Nat, NEW from, NEW owners \in SUBSET (DOMAIN rs),
         BlockFollows(lines, from, LinesOfAll(rs, inHosts)),
         Reaches(lines, At(from, inHosts, Part(rs, owners)))
  PROVE  Reaches(lines, At(from + Len(LinesOfAll(rs, inHosts)), inHosts,
                           Part(rs, owners \cup OwnersOf(rs, inHosts))))
<1> DEFINE block == LinesOfAll(rs, inHosts)
<1>0. /\ from \in Nat /\ from + Len(block) <= Len(lines)
      /\ \A k \in 1 .. Len(block) : lines[from + k] = block[k]
  BY DEF BlockFollows
<1> DEFINE n == Len(OwnerOrder)
           blocks == LinesByOwner(rs, inHosts)
           Passed(i) == {owner \in OwnersOf(rs, inHosts) :
                           \E j \in 1 .. i : OwnerOrder[j] = owner}
<1>1. n \in Nat /\ blocks \in Seq(Seq(Line(DOMAIN rs))) /\ Len(blocks) = n
  BY WrittenLines
<1>2. block = FlattenSeq(blocks)
  BY WrittenLines
<1> HIDE DEF block
<1>3. \A i \in 0 .. n - 1 :
        blocks[i + 1] = IF OwnerOrder[i + 1] \in OwnersOf(rs, inHosts)
                        THEN LinesOf(OwnerOrder[i + 1], rs[OwnerOrder[i + 1]]) ELSE <<>>
  BY <1>1 DEF LinesByOwner
<1> HIDE DEF blocks
<1>4. PICK ends \in [0 .. n -> 0 .. Len(block)] :
        /\ ends[0] = 0
        /\ ends[n] = Len(block)
        /\ \A i \in 0 .. n - 1 :
             /\ ends[i + 1] = ends[i] + Len(blocks[i + 1])
             /\ \A j \in 1 .. Len(blocks[i + 1]) : block[ends[i] + j] = blocks[i + 1][j]
  <2>1. \E ends \in [0 .. Len(blocks) -> 0 .. Len(FlattenSeq(blocks))] :
          /\ ends[0] = 0
          /\ ends[Len(blocks)] = Len(FlattenSeq(blocks))
          /\ \A i \in 0 .. Len(blocks) - 1 :
               /\ ends[i + 1] = ends[i] + Len(blocks[i + 1])
               /\ \A j \in 1 .. Len(blocks[i + 1]) :
                    FlattenSeq(blocks)[ends[i] + j] = blocks[i + 1][j]
    BY <1>1, FlattenFacts
  <2>2. Len(blocks) = n /\ FlattenSeq(blocks) = block
    BY <1>1, <1>2
  <2> HIDE DEF n
  <2> QED  BY <2>1, <2>2
<1>5. Len(block) \in Nat
  BY <1>1, <1>2, FlattenFacts
<1> DEFINE Behind(i) == At(from + ends[i], inHosts, Part(rs, owners \cup Passed(i)))
           R == {i \in 0 .. n : Reaches(lines, Behind(i))}
<1>6. 0 \in R
  <2>1. Passed(0) = {}
    OBVIOUS
  <2>2. from + ends[0] = from /\ owners \cup Passed(0) = owners
    BY <1>0, <1>4, <2>1
  <2>3. Behind(0) = At(from, inHosts, Part(rs, owners))
    BY <2>2
  <2>4. 0 \in 0 .. n
    BY <1>1
  <2> HIDE DEF Behind, n
  <2> QED  BY <2>3, <2>4
<1>7. ASSUME NEW i \in 0 .. n - 1, i \in R PROVE i + 1 \in R
  <2> DEFINE owner == OwnerOrder[i + 1]
  <2>1. i + 1 \in 0 .. n /\ i \in 0 .. n
    BY <1>1
  <2>2. Reaches(lines, Behind(i))
    BY <1>7
  <2>0. /\ ends[i] \in Nat /\ ends[i + 1] \in Nat
        /\ ends[i + 1] <= Len(block)
        /\ ends[i + 1] = ends[i] + Len(blocks[i + 1])
    <3>1. ends[i] \in 0 .. Len(block) /\ ends[i + 1] \in 0 .. Len(block)
      BY <1>4, <2>1
    <3> QED  BY <1>4, <1>5, <3>1
  <2>3. CASE owner \notin OwnersOf(rs, inHosts)
    <3>0. blocks[i + 1] = <<>>
      BY <1>3, <2>3
    <3>1. Len(blocks[i + 1]) = 0
      BY <3>0
    <3>2. from + ends[i + 1] = from + ends[i]
      BY <2>0, <3>1
    <3>3. Passed(i + 1) = Passed(i)
      BY <2>3
    <3> HIDE DEF Passed
    <3>4. Behind(i + 1) = Behind(i)
      BY <3>2, <3>3
    <3> QED  BY <2>1, <2>2, <3>4
  <2>4. CASE owner \in OwnersOf(rs, inHosts)
    <3>1. blocks[i + 1] = LinesOf(owner, rs[owner])
      BY <1>3, <2>4
    <3>2. /\ owner \in DOMAIN rs
          /\ rs[owner].to \in Addresses <=> inHosts
          /\ rs[owner] \in Admitted
      BY <2>4, TablesDef DEF OwnersOf
    <3>3. Len(blocks[i + 1]) = 4
      BY <3>1, <3>2, RuleLines
    <3>4. /\ ends[i] \in Nat /\ ends[i + 1] <= Len(block)
          /\ ends[i + 1] = ends[i] + 4
      BY <2>0, <3>3
    <3>5. \A j \in 1 .. 4 : block[ends[i] + j] = LinesOf(owner, rs[owner])[j]
      BY <1>4, <3>1, <3>3
    <3> DEFINE at == from + ends[i]
    <3>6. at \in Nat /\ at + 4 <= Len(lines) /\ from + ends[i + 1] = at + 4
      BY <1>0, <1>5, <3>4
    <3>7. \A j \in 1 .. 4 : lines[at + j] = LinesOf(owner, rs[owner])[j]
      <4> SUFFICES ASSUME NEW j \in 1 .. 4
                   PROVE  lines[at + j] = LinesOf(owner, rs[owner])[j]
        OBVIOUS
      <4>1. ends[i] + j \in 1 .. Len(block)
        BY <1>5, <3>4
      <4>2. at + j = from + (ends[i] + j)
        BY <1>0, <3>4
      <4> HIDE DEF at
      <4> QED  BY <1>0, <3>5, <4>1, <4>2
    <3>8. Passed(i + 1) = Passed(i) \cup {owner}
      BY <2>4
    <3> DEFINE some == owners \cup Passed(i)
    <3>9. some \in SUBSET (DOMAIN rs)
      BY DEF OwnersOf
    <3> HIDE DEF at, owner, Passed
    <3>10. Consume(lines, At(at, inHosts, Part(rs, some)))
             = At(at + 4, inHosts, Part(rs, some \cup {owner}))
      <4>1. RuleFollows(lines, at, inHosts, owner, rs[owner])
        BY <3>2, <3>6, <3>7 DEF RuleFollows
      <4> HIDE DEF some, R, Behind, n
      <4> QED  BY <3>2, <3>9, <4>1, RuleIsRead
    <3>11. (owners \cup Passed(i)) \cup {owner} = owners \cup Passed(i + 1)
      BY <3>8
    <3>12. Consume(lines, Behind(i)) = Behind(i + 1)
      BY <3>6, <3>10, <3>11 DEF at, some
    <3>13. /\ Behind(i).at = at /\ Behind(i + 1).at = at + 4
           /\ at < Len(lines) /\ at + 4 \in Nat /\ at < at + 4
      BY <3>6 DEF At, at
    <3> HIDE DEF Behind
    <3>14. Reaches(lines, Behind(i + 1))
      BY <2>2, <3>6, <3>12, <3>13, ReachesNext
    <3> QED  BY <2>1, <3>14
  <2> QED  BY <2>3, <2>4
<1>8. 0 .. n \subseteq R
  <2> HIDE DEF R, n
  <2> QED  BY <1>1, <1>6, <1>7, InductionUpTo
<1>9. n \in 0 .. n
  BY <1>1
<1>10. Passed(n) = OwnersOf(rs, inHosts)
  <2>1. ASSUME NEW owner \in OwnersOf(rs, inHosts)
        PROVE  \E j \in 1 .. n : OwnerOrder[j] = owner
    <3>1. owner \in Owners
      BY TablesDef DEF OwnersOf
    <3>2. \E j \in DOMAIN OwnerOrder : OwnerOrder[j] = owner
      BY <3>1, FormatAssumption
    <3>3. DOMAIN OwnerOrder = 1 .. n
      BY FormatAssumption
    <3> QED  BY <3>2, <3>3
  <2> QED  BY <2>1
<1>11. from + ends[n] = from + Len(block)
  BY <1>4
<1> HIDE DEF Passed
<1>12. Reaches(lines, Behind(n))
  BY <1>8, <1>9
<1> QED  BY <1>10, <1>11, <1>12 DEF block

\* A text with a hosts block, line by line.
WithHosts(a, b) == (<<HostsLine>> \o a \o EndOfHosts) \o b
AreInPlace(lines, a, b) ==
  /\ Len(lines) = 4 + Len(a) + Len(b)
  /\ lines[1] = HostsLine
  /\ \A k \in 1 .. Len(a) : lines[1 + k] = a[k]
  /\ \A k \in 1 .. 3 : lines[(1 + Len(a)) + k] = EndOfHosts[k]
  /\ \A k \in 1 .. Len(b) : lines[(4 + Len(a)) + k] = b[k]

LEMMA TextLines ==
  ASSUME NEW T, HostsLine \in T, EndOfHosts \in Seq(T), NEW a \in Seq(T), NEW b \in Seq(T),
         NEW lines, lines = WithHosts(a, b)
  PROVE  lines \in Seq(T) /\ AreInPlace(lines, a, b)
<1> DEFINE s == <<HostsLine>> \o a
           t == s \o EndOfHosts
           e == EndOfHosts
<1>0. e \in Seq(T) /\ Len(e) = 3
  BY DEF EndOfHosts
<1> HIDE DEF e
<1>1. /\ s \in Seq(T) /\ 1 + Len(a) = Len(s)
      /\ s[1] = HostsLine
      /\ \A k \in 1 .. Len(a) : s[1 + k] = a[k]
  OBVIOUS
<1>2. t = s \o e
  BY DEF e
<1>3. lines = t \o b
  BY DEF WithHosts
<1> HIDE DEF s, t
<1>4. /\ t \in Seq(T) /\ Len(t) = (1 + Len(a)) + Len(e)
      /\ \A k \in 1 .. 1 + Len(a) : t[k] = s[k]
      /\ \A k \in 1 .. Len(e) : t[(1 + Len(a)) + k] = e[k]
  <2>1. /\ t \in Seq(T) /\ Len(t) = Len(s) + Len(e)
        /\ \A k \in 1 .. Len(s) : t[k] = s[k]
        /\ \A k \in 1 .. Len(e) : t[Len(s) + k] = e[k]
    <3>1. s \in Seq(T) /\ e \in Seq(T)
      BY <1>0, <1>1
    <3> QED  BY <1>2, <3>1
  <2> QED  BY <1>1, <2>1
<1>5. Len(a) \in Nat /\ 4 + Len(a) = Len(t)
  BY <1>0, <1>4
<1>6. /\ lines \in Seq(T) /\ Len(lines) = (4 + Len(a)) + Len(b)
      /\ \A k \in 1 .. 4 + Len(a) : lines[k] = t[k]
      /\ \A k \in 1 .. Len(b) : lines[(4 + Len(a)) + k] = b[k]
  <2>1. /\ lines \in Seq(T) /\ Len(lines) = Len(t) + Len(b)
        /\ \A k \in 1 .. Len(t) : lines[k] = t[k]
        /\ \A k \in 1 .. Len(b) : lines[Len(t) + k] = b[k]
    <3>1. t \in Seq(T)
      BY <1>4
    <3> QED  BY <1>3, <3>1
  <2> QED  BY <1>5, <2>1
<1>7. lines[1] = HostsLine
  BY <1>1, <1>4, <1>5, <1>6
<1>8. ASSUME NEW k \in 1 .. Len(a) PROVE lines[1 + k] = a[k]
  <2>1. 1 + k \in 1 .. 1 + Len(a) /\ 1 + k \in 1 .. 4 + Len(a)
    BY <1>5
  <2>2. lines[1 + k] = t[1 + k]
    BY <1>6, <2>1
  <2>3. t[1 + k] = s[1 + k]
    BY <1>4, <2>1
  <2> QED  BY <1>1, <2>2, <2>3
<1>9. ASSUME NEW k \in 1 .. 3 PROVE lines[(1 + Len(a)) + k] = e[k]
  <2>1. (1 + Len(a)) + k \in 1 .. 4 + Len(a)
    BY <1>5
  <2>2. lines[(1 + Len(a)) + k] = t[(1 + Len(a)) + k]
    BY <1>6, <2>1
  <2>3. k \in 1 .. Len(e)
    BY <1>0
  <2> QED  BY <1>4, <2>2, <2>3
<1> QED  BY <1>5, <1>6, <1>7, <1>8, <1>9 DEF e, AreInPlace

\* ParseRewriteRuleSet undoes String: whatever rules the config map is given, the
\* next Reconcile finds them there, and nothing else.
THEOREM ParseUndoesString ==
  ASSUME NEW rs \in Tables(Owners, Admitted), ClashFree(rs)
  PROVE  /\ String(rs) \in Seq(Line(DOMAIN rs))
         /\ ~Parse(String(rs)).err
         /\ Parse(String(rs)).table = rs
<1> DEFINE answers == LinesOfAll(rs, TRUE)
           others == LinesOfAll(rs, FALSE)
           lines == String(rs)
           L == Line(DOMAIN rs)
<1>1. answers \in Seq(L) /\ others \in Seq(L)
  BY WrittenLines
<1>2. OwnersOf(rs, TRUE) \cup OwnersOf(rs, FALSE) = DOMAIN rs
  BY DEF OwnersOf
<1>3. Part(rs, DOMAIN rs) = rs
  BY TablesDef DEF Part
<1>4. Start = At(0, FALSE, Part(rs, {}))
  BY DEF Start, At, Part, EmptyTable
<1>5. lines = (IF answers = <<>> THEN <<>> ELSE <<HostsLine>> \o answers \o EndOfHosts) \o others
  BY DEF String
<1> HIDE DEF answers, others, lines, L
<1>6. CASE answers = <<>>
  <2>1. lines = others
    BY <1>1, <1>5, <1>6
  <2>2. OwnersOf(rs, TRUE) = {}
    BY <1>6, NothingWritten DEF answers
  <2>3. Len(lines) \in Nat
    BY <1>1, <2>1
  <2>4. Reaches(lines, At(0, FALSE, Part(rs, {})))
    BY <1>4, <2>3, ReachesStart
  <2>5. BlockFollows(lines, 0, others)
    BY <2>1, <2>3 DEF BlockFollows
  <2>6. Reaches(lines, At(0 + Len(others), FALSE, Part(rs, {} \cup OwnersOf(rs, FALSE))))
    BY <2>3, <2>4, <2>5, BlockIsRead DEF others
  <2>7. Part(rs, {} \cup OwnersOf(rs, FALSE)) = rs /\ 0 + Len(others) = Len(lines)
    <3>1. {} \cup OwnersOf(rs, FALSE) = DOMAIN rs
      BY <1>2, <2>2
    <3>2. 0 + Len(others) = Len(lines)
      BY <2>1, <2>3
    <3> QED  BY <1>3, <3>1, <3>2
  <2>8. Parse(lines) = At(Len(lines), FALSE, rs)
    BY <2>3, <2>6, <2>7, ReachesEnd DEF At
  <2> QED  BY <1>1, <2>1, <2>8 DEF At, lines, L
<1>7. CASE answers # <<>>
  <2>1. /\ HostsLine \in L /\ EndOfHosts \in Seq(L) /\ Len(EndOfHosts) = 3
    BY DEF L, Line, EndOfHosts
  <2>2. lines = WithHosts(answers, others)
    BY <1>5, <1>7 DEF WithHosts
  <2> DEFINE a == Len(answers)
  <2>3. /\ lines \in Seq(L)
        /\ Len(lines) = 4 + a + Len(others)
        /\ lines[1] = HostsLine
        /\ \A k \in 1 .. a : lines[1 + k] = answers[k]
        /\ \A k \in 1 .. 3 : lines[(1 + a) + k] = EndOfHosts[k]
        /\ \A k \in 1 .. Len(others) : lines[(4 + a) + k] = others[k]
    <3>1. lines \in Seq(L) /\ AreInPlace(lines, answers, others)
      BY <1>1, <2>1, <2>2, TextLines
    <3> QED  BY <3>1 DEF AreInPlace
  <2>4. a \in Nat /\ Len(others) \in Nat /\ Len(lines) \in Nat
    BY <1>1, <2>3
  <2> HIDE DEF a
  <2> DEFINE P == Part(rs, OwnersOf(rs, TRUE))
  <2>5. Reaches(lines, At(1, TRUE, Part(rs, {})))
    <3>1. Reaches(lines, At(0, FALSE, Part(rs, {})))
      BY <1>4, <2>4, ReachesStart
    <3> DEFINE p == At(0, FALSE, Part(rs, {}))
               q == At(1, TRUE, Part(rs, {}))
    <3>2. /\ p.at = 0 /\ p.inHosts = FALSE /\ p.err = FALSE /\ q.at = 1
          /\ 0 < Len(lines)
      BY <2>3, <2>4 DEF At
    <3>3. Consume(lines, p) = [p EXCEPT !.at = 1, !.inHosts = TRUE]
      <4> HIDE DEF p, q
      <4>1. p.at + 1 = 1 /\ ~(p.at >= Len(lines))
        BY <2>4, <3>2
      <4> QED  BY <2>3, <3>2, <4>1 DEF Consume
    <3>4. Consume(lines, p) = q
      BY <3>3 DEF At
    <3> HIDE DEF p, q
    <3>5. Reaches(lines, q)
      <4>1. p.at \in Nat /\ p.at < Len(lines) /\ q.at \in Nat /\ p.at < q.at
        BY <3>2
      <4>2. Reaches(lines, p)
        BY <3>1 DEF p
      <4> QED  BY <2>4, <3>4, <4>1, <4>2, ReachesNext
    <3> QED  BY <3>5 DEF q
  <2>6. Reaches(lines, At(1 + a, TRUE, P))
    <3>1. BlockFollows(lines, 1, answers)
      BY <2>3, <2>4 DEF a, BlockFollows
    <3>2. {} \cup OwnersOf(rs, TRUE) = OwnersOf(rs, TRUE)
      OBVIOUS
    <3>3. Reaches(lines, At(1 + Len(answers), TRUE, Part(rs, {} \cup OwnersOf(rs, TRUE))))
      BY <2>4, <2>5, <3>1, BlockIsRead DEF answers
    <3> QED  BY <3>2, <3>3 DEF a
  <2>7. Reaches(lines, At(4 + a, FALSE, P))
    <3> DEFINE p == At(1 + a, TRUE, P)
               q == At(4 + a, FALSE, P)
    <3>1. p.at = 1 + a /\ q.at = 4 + a /\ p.inHosts = TRUE /\ p.err = FALSE /\ p.table = P
      BY DEF At
    <3>2. EndsHosts(lines, 1 + a)
      BY <2>3, <2>4 DEF EndsHosts
    <3>3. Consume(lines, p) = [p EXCEPT !.at = 4 + a, !.inHosts = FALSE]
      <4> HIDE DEF p, q
      <4>1. p.at + 3 = 4 + a /\ ~(p.at >= Len(lines))
        BY <2>3, <2>4, <3>1
      <4> QED  BY <3>1, <3>2, <4>1 DEF Consume, AfterEnd
    <3>4. Consume(lines, p) = q
      BY <3>3 DEF At
    <3>5. p.at \in Nat /\ q.at \in Nat /\ p.at < Len(lines) /\ p.at < q.at
      <4> HIDE DEF p, q
      <4> QED  BY <2>3, <2>4, <3>1
    <3> HIDE DEF p, q
    <3>6. Reaches(lines, q)
      BY <2>4, <2>6, <3>4, <3>5, ReachesNext DEF p
    <3> QED  BY <3>6 DEF q
  <2>8. Reaches(lines, At(Len(lines), FALSE, rs))
    <3>1. (4 + a) + Len(others) = Len(lines) /\ 4 + a \in Nat
      BY <2>3, <2>4
    <3>2. OwnersOf(rs, TRUE) \in SUBSET (DOMAIN rs)
      BY DEF OwnersOf
    <3>3. Reaches(lines, At((4 + a) + Len(others), FALSE,
                            Part(rs, OwnersOf(rs, TRUE) \cup OwnersOf(rs, FALSE))))
      <4>1. BlockFollows(lines, 4 + a, others)
        BY <2>3, <2>4, <3>1 DEF BlockFollows
      <4> QED  BY <2>4, <2>7, <3>2, <4>1, BlockIsRead DEF others
    <3> QED  BY <1>2, <1>3, <3>1, <3>3
  <2>9. Parse(lines) = At(Len(lines), FALSE, rs)
    BY <2>4, <2>8, ReachesEnd DEF At
  <2> QED  BY <2>3, <2>9 DEF At, lines, L
<1> QED  BY <1>6, <1>7

-----------------------------------------------------------------------------
(* The names that are looked up *)

\* TextLength one label at a time.
LEMMA LengthSteps ==
  ASSUME NEW name, Len(name) \in Nat
  PROVE  \E length :
           /\ length[0] = -1
           /\ \A i \in 0 .. Len(name) - 1 :
                length[i + 1] = length[i] + LabelLength[name[i + 1]] + 1
           /\ length[Len(name)] = TextLength(name)
<1> DEFINE n == Len(name)
           Is(s, k) == s = [i \in 0 .. k |->
                              IF i = 0 THEN -1 ELSE s[i - 1] + LabelLength[name[i]] + 1]
           S == {k \in Nat : \E s : Is(s, k)}
<1>1. 0 \in S
  <2>1. Is([i \in 0 .. 0 |-> -1], 0)
    OBVIOUS
  <2> QED  BY <2>1
<1>2. ASSUME NEW k \in 0 .. n - 1, k \in S PROVE k + 1 \in S
  <2>1. PICK s : Is(s, k)
    BY <1>2
  <2> DEFINE t == [i \in 0 .. k + 1 |->
                     IF i = k + 1 THEN s[k] + LabelLength[name[k + 1]] + 1 ELSE s[i]]
  <2>2. \A i \in 0 .. k + 1 :
          t[i] = IF i = 0 THEN -1 ELSE t[i - 1] + LabelLength[name[i]] + 1
    BY <2>1
  <2>3. Is(t, k + 1)
    BY <2>2
  <2>4. \E u : Is(u, k + 1)
    <3> HIDE DEF t, Is
    <3> QED  BY <2>3
  <2>5. k + 1 \in Nat
    OBVIOUS
  <2> HIDE DEF Is
  <2> QED  BY <2>4, <2>5
<1>3. n \in S
  <2>1. n \in Nat /\ n \in 0 .. n
    OBVIOUS
  <2>2. 0 .. n \subseteq S
    <3> HIDE DEF S, n
    <3> QED  BY <1>1, <1>2, <2>1, InductionUpTo
  <2> QED  BY <2>1, <2>2
<1> DEFINE f == CHOOSE s : Is(s, n)
<1>4. Is(f, n)
  BY <1>3
<1>5. TextLength(name) = f[n]
  BY DEF TextLength
<1> HIDE DEF f
<1>6. /\ f[0] = -1
      /\ \A i \in 0 .. n - 1 : f[i + 1] = f[i] + LabelLength[name[i + 1]] + 1
  BY <1>4
<1> QED  BY <1>5, <1>6

\* A leading asterisk that reads "wildcard" makes a name seven characters longer.
LEMMA ProbeLength ==
  ASSUME NEW from \in Name, from[1] \in StarredLabels
  PROVE  TextLength(from) \in Int /\ TextLength(Probe(from)) = TextLength(from) + 7
<1> DEFINE n == Len(from)
           probe == Probe(from)
<1>1. n \in Nat \ {0} /\ \A i \in 1 .. n : from[i] \in Labels
  BY DEF Name
<1>2. /\ Len(probe) = n
      /\ LabelLength[probe[1]] = LabelLength[from[1]] + 7
      /\ \A i \in 2 .. n : probe[i] = from[i]
  BY <1>1, DnsAssumption DEF Probe, Name
<1>3. \A i \in 1 .. n : LabelLength[from[i]] \in Nat
  BY <1>1, LabelsAssumption
<1> HIDE DEF probe
<1>4. PICK long :
        /\ long[0] = -1
        /\ \A i \in 0 .. n - 1 : long[i + 1] = long[i] + LabelLength[probe[i + 1]] + 1
        /\ long[n] = TextLength(probe)
  BY <1>1, <1>2, LengthSteps
<1>5. PICK short :
        /\ short[0] = -1
        /\ \A i \in 0 .. n - 1 : short[i + 1] = short[i] + LabelLength[from[i + 1]] + 1
        /\ short[n] = TextLength(from)
  BY <1>1, LengthSteps
<1> DEFINE S == {i \in 0 .. n : /\ short[i] \in Int
                                /\ long[i] = short[i] + (IF i = 0 THEN 0 ELSE 7)}
<1>6. 0 \in S
  BY <1>1, <1>4, <1>5
<1>7. ASSUME NEW i \in 0 .. n - 1, i \in S PROVE i + 1 \in S
  <2>1. /\ short[i] \in Int /\ long[i] = short[i] + (IF i = 0 THEN 0 ELSE 7)
        /\ i + 1 \in 1 .. n
    BY <1>1, <1>7
  <2>2. /\ short[i + 1] = short[i] + LabelLength[from[i + 1]] + 1
        /\ long[i + 1] = long[i] + LabelLength[probe[i + 1]] + 1
        /\ LabelLength[from[i + 1]] \in Nat
    BY <1>3, <1>4, <1>5, <2>1
  <2>3. CASE i = 0
    <3>1. LabelLength[probe[i + 1]] = LabelLength[from[i + 1]] + 7
      BY <1>2, <2>3
    <3> QED  BY <2>1, <2>2, <2>3, <3>1
  <2>4. CASE i # 0
    <3>1. probe[i + 1] = from[i + 1]
      BY <1>1, <1>2, <2>4
    <3> QED  BY <2>1, <2>2, <2>4, <3>1
  <2> QED  BY <2>3, <2>4
<1>8. n \in S
  <2>1. n \in Nat /\ n \in 0 .. n
    BY <1>1
  <2>2. 0 .. n \subseteq S
    <3> HIDE DEF S, n
    <3> QED  BY <1>6, <1>7, <2>1, InductionUpTo
  <2> QED  BY <2>1, <2>2
<1> QED  BY <1>1, <1>4, <1>5, <1>8 DEF probe

\* Whatever source NewRewriteRule accepts, the controller looks up a name.
LEMMA ProbeIsName ==
  ASSUME NEW from \in Name, CheckDnsName(from, TRUE)
  PROVE  CheckDnsName(Probe(from), FALSE)
<1>1. CASE from[1] \in StarredLabels
  <2>1. /\ \A i \in 1 .. Len(from) : from[i] \in PlainLabels \/ i = 1
        /\ TextLength(from) + 7 <= MaxNameLength
    BY <1>1 DEF CheckDnsName
  <2>2. /\ Len(Probe(from)) = Len(from)
        /\ \A i \in 1 .. Len(from) : Probe(from)[i] \in PlainLabels
    BY <1>1, <2>1, DnsAssumption DEF Probe, Name
  <2>3. TextLength(Probe(from)) + 0 <= MaxNameLength
    BY <1>1, <2>1, ProbeLength
  <2> QED  BY <2>2, <2>3 DEF CheckDnsName
<1>2. CASE from[1] \notin StarredLabels
  BY <1>2 DEF CheckDnsName, Probe
<1> QED  BY <1>1, <1>2

\* The rule's own probe is one of the names it matches, if its asterisk is a label.
LEMMA ProbeMatches ==
  ASSUME NEW from \in Name, from[1] \in StarredLabels => IsWildcard(from)
  PROVE  Probe(from) \in Name /\ Matches(from, Probe(from))
<1>1. Len(from) \in Nat \ {0} /\ from \in Seq(Labels)
  BY DEF Name
<1>2. CASE from[1] \in StarredLabels
  <2> DEFINE probe == Probe(from)
  <2>1. Unstarred[from[1]] \in Labels
    BY <1>2, DnsAssumption, LabelsAssumption
  <2>2. probe = [from EXCEPT ![1] = Unstarred[from[1]]]
    BY <1>2 DEF Probe
  <2>3. /\ probe \in Seq(Labels) /\ Len(probe) = Len(from)
        /\ \A i \in 2 .. Len(from) : probe[i] = from[i]
    BY <1>1, <2>1, <2>2
  <2> HIDE DEF probe
  <2>4. probe \in Name
    BY <1>1, <2>3 DEF Name
  <2>5. \A i \in 0 .. (Len(from) - 2) : probe[Len(probe) - i] = from[Len(from) - i]
    BY <1>1, <2>3
  <2>6. Matches(from, probe)
    BY <1>1, <1>2, <2>3, <2>5 DEF Matches
  <2> QED  BY <2>4, <2>6 DEF probe
<1>3. CASE from[1] \notin StarredLabels
  <2>1. Probe(from) = from /\ ~IsWildcard(from)
    BY <1>3, LabelsAssumption DEF Probe, IsWildcard
  <2> QED  BY <2>1 DEF Matches
<1> QED  BY <1>2, <1>3

\* An endpoint that has loaded the rule set confirms the rule, whatever other rules
\* there are, so that CheckRecord can find it active: the source is not a text that
\* is taken for an address, its asterisk is a label, and a target that is a name has
\* an address and is not renamed by a rule itself.
THEOREM LoadedRuleIsConfirmed ==
  ASSUME NEW rs \in Tables(Owners, Admitted), ClashFree(rs), NEW owner \in DOMAIN rs,
         NEW from, NEW to, rs[owner].from = from, rs[owner].to = to,
         from[1] \in StarredLabels => IsWildcard(from),
         Probe(from) \notin Addresses,
         to \notin Addresses => Renamed(rs, to) = to /\ Answer(rs, to) # {}
  PROVE  Confirms(rs, Probe(from), to)
<1> DEFINE host == Probe(from)
<1>1. \A o \in DOMAIN rs : rs[o] \in Admitted /\ rs[o].from \in Name
  BY TablesDef DEF Admitted, Rule
<1>2. host \in Name /\ Matches(from, host)
  BY <1>1, ProbeMatches
<1>3. MatchingOwners(rs, host) = {owner}
  <2>1. owner \in MatchingOwners(rs, host)
    BY <1>2 DEF MatchingOwners
  <2>2. Unambiguous(rs, {host})
    <3>1. {host} \in SUBSET Name
      BY <1>2
    <3> HIDE DEF host
    <3> QED  BY <1>1, <3>1, ClashFreeIsUnambiguous
  <2> QED  BY <2>1, <2>2 DEF Unambiguous
<1> HIDE DEF host
<1>4. CASE to \in Addresses
  <2>1. Renamed(rs, host) = host
    BY <1>3, <1>4 DEF Renamed
  <2>2. ~IsWildcard(from)
    BY <1>1, <1>4 DEF Admitted, IsValid
  <2>3. host = from
    BY <2>2 DEF host, Probe
  <2> DEFINE hosts == {o \in DOMAIN rs : rs[o].to \in Addresses /\ rs[o].from = host}
  <2>4. hosts = {owner}
    <3>1. owner \in hosts
      BY <1>4, <2>3
    <3>2. ASSUME NEW o \in hosts PROVE o = owner
      <4>1. Matches(rs[o].from, host)
        BY <1>2, <2>3
      <4> QED  BY <1>3, <4>1 DEF MatchingOwners
    <3> QED  BY <3>1, <3>2
  <2>5. Answer(rs, host) = {to}
    <3>1. Answer(rs, host) = {rs[o].to : o \in hosts}
      BY <2>1, <2>4 DEF Answer
    <3> QED  BY <2>4, <3>1
  <2> QED  BY <1>4, <2>5 DEF Confirms, Lookup, host
<1>5. CASE to \notin Addresses
  <2>1. Renamed(rs, host) = to
    <3>1. {o \in MatchingOwners(rs, host) : rs[o].to \notin Addresses} = {owner}
      BY <1>3, <1>5
    <3> QED  BY <3>1 DEF Renamed
  <2>2. Answer(rs, host) = Answer(rs, to)
    BY <1>5, <2>1 DEF Answer
  <2> QED  BY <1>5, <2>2 DEF Confirms, Lookup, host
<1> QED  BY <1>4, <1>5

-----------------------------------------------------------------------------
(* Over every history *)

\* Between two changes the text is made of the lines that String writes, for
\* whatever owners, and says what the table is.
FormatInv ==
  /\ text \in Seq(Line(Owners))
  /\ table \in Tables(Owners, Admitted)
  /\ SourcesDoNotClash
  /\ TextIsFaithful

LEMMA SpecsAreAdmitted == Specs \subseteq Admitted
  BY TableAssumption, FormatAssumption DEF Admitted

LEMMA EmptyTextIsEmptyTable ==
  /\ <<>> \in Seq(Line(Owners))
  /\ ~Parse(<<>>).err
  /\ Parse(<<>>).table = EmptyTable
<1>1. Len(<<>>) = 0 /\ Len(<<>>) \in Nat
  OBVIOUS
<1>2. Rounds(<<>>)[0] = Start
  BY <1>1, RoundsFacts
<1> QED  BY <1>1, <1>2 DEF Parse, Start

LEMMA FormatInitInv == FormatInit => FormatInv
<1> SUFFICES ASSUME FormatInit PROVE FormatInv
  OBVIOUS
<1>1. text = <<>> /\ table = EmptyTable
  BY DEF FormatInit, Init
<1>2. EmptyTable \in Tables(Owners, Admitted) /\ ClashFree(EmptyTable)
  BY EmptyTableIsTable
<1> QED
  BY <1>1, <1>2, EmptyTextIsEmptyTable DEF FormatInv, SourcesDoNotClash, TextIsFaithful

\* What an edited text is made of.
LEMMA EditedLines ==
  ASSUME NEW T, NEW lines \in Seq(T), NEW i \in DOMAIN lines, NEW j \in DOMAIN lines,
         NEW edited \in Edited(lines, i, j)
  PROVE  edited \in Seq(T)
<1>1. CASE edited = SubSeq(lines, 1, i - 1) \o SubSeq(lines, j + 1, Len(lines))
  <2>1. SubSeq(lines, 1, i - 1) \in Seq(T)
    OBVIOUS
  <2>2. SubSeq(lines, j + 1, Len(lines)) \in Seq(T)
    OBVIOUS
  <2> QED  BY <1>1, <2>1, <2>2
<1>2. CASE edited = [lines EXCEPT ![i] = lines[j]]
  BY <1>2
<1> QED  BY <1>1, <1>2 DEF Edited

\* A pasted rule is made of the lines that the operator would write for it.
LEMMA PastedLines ==
  ASSUME NEW lines \in Seq(Line(Owners)), NEW owner \in Owners, NEW rule \in Specs,
         NEW i \in 0 .. Len(lines)
  PROVE  Pasted(lines, i, owner, rule) \in Seq(Line(Owners))
<1>1. rule \in Admitted
  BY SpecsAreAdmitted
<1>2. LinesOf(owner, rule) \in Seq(Line(Owners))
  BY <1>1, RuleLines
<1>3. SubSeq(lines, 1, i) \in Seq(Line(Owners))
  OBVIOUS
<1>4. SubSeq(lines, i + 1, Len(lines)) \in Seq(Line(Owners))
  OBVIOUS
<1> QED  BY <1>2, <1>3, <1>4 DEF Pasted

\* What is accepted from whomever is a rule set that NewRewriteRule and AddRule
\* could have made.
LEMMA TamperInv ==
  ASSUME FormatInv, Tamper
  PROVE  FormatInv'
<1>1. text \in Seq(Line(Owners))
  BY DEF FormatInv
<1>2. ~Parse(text').err /\ table' = Parse(text').table
  BY DEF Tamper
<1>3. text' \in Seq(Line(Owners))
  <2>1. CASE \E i, j \in DOMAIN text : text' \in Edited(text, i, j)
    BY <1>1, <2>1, EditedLines
  <2>2. CASE \E owner \in Owners, rule \in Specs, i \in 0 .. Len(text) :
               text' = Pasted(text, i, owner, rule)
    BY <1>1, <2>2, PastedLines
  <2> QED  BY <2>1, <2>2 DEF Tamper
<1>4. table' \in Tables(Owners, Admitted) /\ ClashFree(table')
  BY <1>2, <1>3, ParseFacts DEF IsParser
<1> QED  BY <1>2, <1>3, <1>4 DEF FormatInv, SourcesDoNotClash, TextIsFaithful

\* A change of the rule set is a change of the text.
LEMMA ChangeInv ==
  ASSUME FormatInv, table' \in Tables(Owners, Admitted), ClashFree(table'),
         text' = String(table') \/ (text' = text /\ table' = table)
  PROVE  FormatInv'
<1>1. CASE text' = String(table')
  <2>1. /\ text' \in Seq(Line(DOMAIN table'))
        /\ ~Parse(text').err /\ Parse(text').table = table'
    BY <1>1, ParseUndoesString
  <2>2. Line(DOMAIN table') \subseteq Line(Owners)
    <3>1. DOMAIN table' \subseteq Owners
      BY TablesDef
    <3> QED  BY <3>1 DEF Line
  <2>3. text' \in Seq(Line(Owners))
    BY <2>1, <2>2
  <2> QED  BY <2>1, <2>3 DEF FormatInv, SourcesDoNotClash, TextIsFaithful
<1>2. CASE text' = text /\ table' = table
  BY <1>2 DEF FormatInv, SourcesDoNotClash, TextIsFaithful
<1> QED  BY <1>1, <1>2

LEMMA FormatNextInv == FormatInv /\ [FormatNext]_formatVars => FormatInv'
<1> SUFFICES ASSUME FormatInv, [FormatNext]_formatVars PROVE FormatInv'
  OBVIOUS
<1>0. /\ table \in Tables(Owners, Admitted) /\ ClashFree(table)
      /\ Parse(text).table = table
  BY DEF FormatInv, SourcesDoNotClash, TextIsFaithful
<1>1. ASSUME NEW owner \in Owners, Hold(owner) \/ Release(owner), UNCHANGED text
      PROVE  FormatInv'
  <2>1. table' = table
    BY <1>1 DEF Hold, Release
  <2> QED  BY <1>0, <1>1, <2>1, ChangeInv
<1>2. ASSUME NEW owner \in Owners, NEW rule \in Specs, AddToText(owner, rule)
      PROVE  FormatInv'
  <2> DEFINE added == AddRule(table, owner, rule)
  <2>1. /\ Conflicts(table, owner, rule) = {}
        /\ table' = Put(table, owner, rule)
        /\ text' = Rewritten(added)
    BY <1>0, <1>2 DEF AddToText, Register
  <2>2. /\ ~added.err /\ added.table = table'
        /\ added.changed <=> (owner \notin DOMAIN table \/ table[owner] # rule)
    BY <2>1 DEF AddRule
  <2>3. rule \in Admitted
    BY SpecsAreAdmitted
  <2>4. table' \in Tables(Owners, Admitted) /\ ClashFree(table')
    <3>1. added.table \in Tables(Owners, Admitted) /\ ClashFree(added.table)
      <4>1. ~added.err
        BY <2>2
      <4> QED  BY <1>0, <2>3, <4>1, AddRuleFacts
    <3> HIDE DEF added
    <3> QED  BY <2>2, <3>1
  <2>5. text' = String(table') \/ (text' = text /\ table' = table)
    <3>1. CASE added.changed
      BY <2>1, <2>2, <3>1 DEF Rewritten
    <3>2. CASE ~added.changed
      <4>1. owner \in DOMAIN table /\ table[owner] = rule
        BY <2>2, <3>2
      <4>2. table = [o \in DOMAIN table |-> table[o]]
        BY <1>0, TablesDef
      <4>3. Put(table, owner, rule) = table
        BY <4>1, <4>2 DEF Put
      <4> QED  BY <2>1, <3>2, <4>3 DEF Rewritten
    <3> QED  BY <3>1, <3>2
  <2> QED  BY <1>0, <2>1, <2>4, <2>5, ChangeInv
<1>3. ASSUME NEW owner \in Owners, RemoveFromText(owner) PROVE FormatInv'
  <2> DEFINE removed == RemoveRule(table, owner)
  <2>1. /\ owner \in DOMAIN table /\ table' = removed.table
        /\ text' = Rewritten(removed)
    BY <1>0, <1>3 DEF RemoveFromText, Withdraw
  <2>2. table' \in Tables(Owners, Admitted) /\ ClashFree(table') /\ removed.changed
    BY <1>0, <2>1, RemoveRuleFacts
  <2>3. text' = String(table')
    BY <2>1, <2>2 DEF Rewritten
  <2> QED  BY <1>0, <2>1, <2>2, <2>3, ChangeInv
<1>4. ASSUME EmptyText PROVE FormatInv'
  <2>1. table' = EmptyTable /\ text' = <<>>
    BY <1>4 DEF EmptyText, Damage
  <2>2. EmptyTable \in Tables(Owners, Admitted) /\ ClashFree(EmptyTable)
    BY EmptyTableIsTable
  <2> QED
    BY <2>1, <2>2, EmptyTextIsEmptyTable DEF FormatInv, SourcesDoNotClash, TextIsFaithful
<1>5. ASSUME Tamper PROVE FormatInv'
  BY <1>5, TamperInv
<1>6. ASSUME UNCHANGED formatVars PROVE FormatInv'
  BY <1>6 DEF formatVars, FormatInv, SourcesDoNotClash, TextIsFaithful
<1> QED
  BY <1>1, <1>2, <1>3, <1>4, <1>5, <1>6 DEF FormatNext

\* What the operator wrote is what it reads, after every history of AddRule,
\* RemoveRule and edits by hand that ParseRewriteRuleSet accepts.
THEOREM TextStaysFaithful == FormatSpec => []TextIsFaithful
<1>1. FormatInv => TextIsFaithful
  BY DEF FormatInv
<1> QED  BY FormatInitInv, FormatNextInv, <1>1, PTL DEF FormatSpec

\* The parser lets no clash in: the guarantee of NewRewriteRuleSet does not depend
\* on who wrote the text.
THEOREM TextSourcesDoNotClash == FormatSpec => []SourcesDoNotClash
<1>1. FormatInv => SourcesDoNotClash
  BY DEF FormatInv
<1> QED  BY FormatInitInv, FormatNextInv, <1>1, PTL DEF FormatSpec

\* So FindMatchingRule has no choice, whoever wrote the text.
THEOREM TextAtMostOneMatch == FormatSpec => []AtMostOneMatch
<1>1. FormatInv => AtMostOneMatch
  <2> SUFFICES ASSUME FormatInv PROVE AtMostOneMatch
    OBVIOUS
  <2>1. \A o \in DOMAIN table : table[o] \in Admitted
    BY TablesDef DEF FormatInv
  <2>2. \A o \in DOMAIN table : table[o].from \in Name
    BY <2>1 DEF Admitted, Rule
  <2> QED
    BY <2>2, ClashFreeIsUnambiguous, TableAssumption
    DEF FormatInv, SourcesDoNotClash, AtMostOneMatch
<1> QED  BY FormatInitInv, FormatNextInv, <1>1, PTL DEF FormatSpec

\* Every rule in the config map can be probed: with "wildcard" for the asterisk its
\* source is a DNS name that is not too long.
THEOREM TextProbesAreNames == FormatSpec => []ProbesAreNames
<1>1. FormatInv => ProbesAreNames
  <2> SUFFICES ASSUME FormatInv, NEW owner \in DOMAIN table
               PROVE  CheckDnsName(Probe(table[owner].from), FALSE)
    BY DEF ProbesAreNames
  <2>1. table[owner] \in Admitted
    BY TablesDef DEF FormatInv
  <2>2. table[owner].from \in Name /\ CheckDnsName(table[owner].from, TRUE)
    BY <2>1 DEF Admitted, Rule, IsValid
  <2> QED  BY <2>2, ProbeIsName
<1> QED  BY FormatInitInv, FormatNextInv, <1>1, PTL DEF FormatSpec

=============================================================================
