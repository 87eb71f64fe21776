------------------------ MODULE MCDependentsController ------------------------
(***************************************************************************)
(* Small instances of DependentsController for TLC.                        *)
(***************************************************************************)
EXTENDS DependentsController, TLC

CONSTANTS host1, host2, refused,
          target1, target2, address,
          id1, id2, id3, id4

RuleSymmetry == Permutations(RuleIds)

Asks(from, others, to, balanced) ==
  [from |-> from, others |-> others, to |-> to, balanced |-> balanced]

\* Services that pass the event filter whatever is edited: load balancers with
\* one or another target for two hosts, with no target or no host; services that
\* name hosts of their own, with and without a target.
ServiceShapes ==
  {Asks({}, {host1, host2}, to, TRUE) : to \in {target1, target2}}
    \cup {Asks({}, {host1}, NoTarget, TRUE), Asks({}, {}, target1, TRUE),
          Asks({host1}, {}, NoTarget, FALSE), Asks({host2}, {host1}, target1, FALSE)}

\* An ingress or gateway with one host or none, or with one more whose rule is
\* refused, and with one target, another one or none.
MixedShapes ==
  {Asks({}, {host1}, target1, FALSE), Asks({}, {host1, refused}, target2, FALSE),
   Asks({}, {}, target1, FALSE), Asks({}, {host1}, NoTarget, FALSE)}

\* One host that gets another target.
TargetShapes == {Asks({}, {host1}, to, FALSE) : to \in {target1, target2}}

\* A service that gives up the annotation which made it pass the filter.
LeavingShapes ==
  {Asks({host1}, {}, NoTarget, FALSE), Asks({}, {}, NoTarget, FALSE)}

=============================================================================
