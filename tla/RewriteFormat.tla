---------------------------- MODULE RewriteFormat ----------------------------
(***************************************************************************)
(* The text in the coredns config map: what String writes for a rule set   *)
(* and what ParseRewriteRuleSet makes of a text (internal/coredns/         *)
(* rewrite.go).  Every change of RewriteTable is made to the text here,    *)
(* the way Reconcile makes it: parse, change, write.                       *)
(*                                                                         *)
(* A text is a sequence of lines, a line the tuple of its words: those     *)
(* that the parser compares or extracts, not their letters.  Indentation   *)
(* is left out, since the parser skips it wherever String varies it.       *)
(***************************************************************************)
EXTENDS RewriteTable, ClusterDns

CONSTANTS
  OwnerOrder,      \* all owners, in the order of their names
  MaxTamperings    \* bound: how often somebody edits the text

ASSUME FormatAssumption ==
  /\ OwnerOrder \in Seq(Owners)
  /\ \A owner \in Owners : \E i \in DOMAIN OwnerOrder : OwnerOrder[i] = owner
  /\ \A rule \in Specs : IsValid(rule)
  /\ MaxTamperings \in Nat

VARIABLES
  text,            \* the lines under the config map's key
  tamperings

formatVars == <<table, held, text, tamperings>>

-----------------------------------------------------------------------------
(* Writing *)

HostsLine == <<"hosts">>
EndOfHosts == <<<<"ttl">>, <<"fallthrough">>, <<"}">>>>

\* The line that is for coredns, by target and by kind of source.
Directive(rule) ==
  IF rule.to \in Addresses THEN <<"answer", rule.to, rule.from>>
  ELSE <<"rewrite", IF IsWildcard(rule.from) THEN "regex" ELSE "exact", rule.from, rule.to>>

\* A rule is written as three comments and its directive.
LinesOf(owner, rule) ==
  <<<<"owner", owner>>, <<"from", rule.from>>, <<"to", rule.to>>, Directive(rule)>>

\* The owners whose rules are written in the hosts block, or outside of it.
OwnersOf(rs, inHosts) == {owner \in DOMAIN rs : (rs[owner].to \in Addresses) = inHosts}

LinesOfAll(rs, inHosts) ==
  FlattenSeq([i \in 1 .. Len(OwnerOrder) |->
    LET owner == OwnerOrder[i]
    IN  IF owner \in OwnersOf(rs, inHosts) THEN LinesOf(owner, rs[owner]) ELSE <<>>])

\* String: the rules with an address in one hosts block, then the others.
String(rs) ==
  LET answers == LinesOfAll(rs, TRUE)
  IN  (IF answers = <<>> THEN <<>> ELSE <<HostsLine>> \o answers \o EndOfHosts)
        \o LinesOfAll(rs, FALSE)

-----------------------------------------------------------------------------
(* Reading *)

\* The parser looks for two words in a hosts block, for a rewrite outside of it;
\* it does not compare them with the comments.
IsDirective(line, inHosts) ==
  IF inHosts THEN line[1] \in {"answer", "ttl"} ELSE line[1] = "rewrite"

StartsRule(lines, at, inHosts) ==
  /\ at + 4 <= Len(lines)
  /\ lines[at + 1][1] = "owner" /\ lines[at + 2][1] = "from" /\ lines[at + 3][1] = "to"
  /\ IsDirective(lines[at + 4], inHosts)

EndsHosts(lines, at) ==
  /\ at + 3 <= Len(lines)
  /\ \A i \in 1 .. 3 : lines[at + i] = EndOfHosts[i]

\* The parser admits only what NewRewriteRule does (mutant: whatever it finds).
AdmitsAnything(rule) == TRUE
AdmitsRule(rule) == IsValid(rule)

\* (mutant: the end of a hosts block is passed over without leaving it)
AfterEndInside(inHosts) == inHosts
AfterEnd(inHosts) == FALSE

\* The parser before the first line: how many lines it has passed, whether it is in
\* a hosts block, and what it has made of them.
Start == [at |-> 0, inHosts |-> FALSE, err |-> FALSE, table |-> EmptyTable]

\* One round of its loop.
Consume(lines, p) ==
  LET rule  == [from |-> lines[p.at + 2][2], to |-> lines[p.at + 3][2]]
      added == AddRule(p.table, lines[p.at + 1][2], rule)
  IN  IF p.err \/ p.at >= Len(lines) THEN p
      ELSE IF lines[p.at + 1] = HostsLine /\ ~p.inHosts
           THEN [p EXCEPT !.at = @ + 1, !.inHosts = TRUE]
      ELSE IF EndsHosts(lines, p.at)
           THEN [p EXCEPT !.at = @ + 3, !.inHosts = AfterEnd(@)]
      ELSE IF ~StartsRule(lines, p.at, p.inHosts) \/ ~AdmitsRule(rule) \/ added.err
           THEN [p EXCEPT !.err = TRUE]
      ELSE [p EXCEPT !.at = @ + 4, !.table = added.table]

\* The rounds of the loop; each one passes a line or is the last.
Rounds(lines) ==
  LET round[n \in 0 .. Len(lines)] == IF n = 0 THEN Start ELSE Consume(lines, round[n - 1])
  IN  round

Parse(lines) == Rounds(lines)[Len(lines)]

-----------------------------------------------------------------------------
(* The text under changes *)

\* What is written when the text has been read and its rule set changed.
Rewritten(result) == IF result.changed THEN String(result.table) ELSE text

AddToText(owner, rule) ==
  /\ Register(owner, rule)
  /\ ~Parse(text).err
  /\ text' = Rewritten(AddRule(Parse(text).table, owner, rule))
  /\ UNCHANGED tamperings

RemoveFromText(owner) ==
  /\ Withdraw(owner)
  /\ ~Parse(text).err
  /\ text' = Rewritten(RemoveRule(Parse(text).table, owner))
  /\ UNCHANGED tamperings

EmptyText ==
  /\ Damage
  /\ text' = <<>>
  /\ UNCHANGED tamperings

\* A text after somebody has taken out some lines or copied one over another.
Edited(lines, i, j) ==
  {SubSeq(lines, 1, i - 1) \o SubSeq(lines, j + 1, Len(lines)), [lines EXCEPT ![i] = lines[j]]}

\* A text after somebody has put in a rule of whatever owner, held or not.
Pasted(lines, i, owner, rule) ==
  SubSeq(lines, 1, i) \o LinesOf(owner, rule) \o SubSeq(lines, i + 1, Len(lines))

\* Somebody edits the text and leaves one that is accepted: what it says then is
\* the table.
Tamper ==
  /\ tamperings < MaxTamperings
  /\ tamperings' = tamperings + 1
  /\ \/ \E i, j \in DOMAIN text : text' \in Edited(text, i, j)
     \/ \E owner \in Owners, rule \in Specs, i \in 0 .. Len(text) :
          text' = Pasted(text, i, owner, rule)
  /\ ~Parse(text').err
  /\ table' = Parse(text').table
  /\ UNCHANGED held

FormatInit ==
  /\ Init
  /\ text = <<>>
  /\ tamperings = 0

FormatNext ==
  \/ \E owner \in Owners :
       \/ (Hold(owner) \/ Release(owner)) /\ UNCHANGED <<text, tamperings>>
       \/ \E rule \in Specs : AddToText(owner, rule)
       \/ RemoveFromText(owner)
  \/ EmptyText
  \/ Tamper

FormatSpec == FormatInit /\ [][FormatNext]_formatVars

-----------------------------------------------------------------------------
(* Properties *)

\* What was written is what is read: every text that comes about is parsed to the
\* rule set that was meant, whatever rules were added and removed in whatever
\* order, also after the text has been edited by hand or a rule pasted into it.
TextIsFaithful == ~Parse(text).err /\ Parse(text).table = table

\* The name that the controller looks up for a rule (with "wildcard" in place of
\* the asterisk) is a valid name whenever the source of the rule was accepted, at
\* the limit of 255 characters, too.
ProbesAreNames ==
  \A owner \in DOMAIN table : CheckDnsName(Probe(table[owner].from), FALSE)

=============================================================================
