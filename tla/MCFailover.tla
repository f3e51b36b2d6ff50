----------------------------- MODULE MCFailover -----------------------------
(***************************************************************************)
(* Small instances of Failover.                                            *)
(***************************************************************************)
EXTENDS Failover, TLC

\* Pods in some order.
ByName == CHOOSE f \in [Node -> 1 .. Cardinality(Node)] :
             \A m, n \in Node : m # n => f[m] # f[n]

\* Controllers are alike; pods are not, for the list they are in.
Interchangeable == Permutations(Controller)

\* All but the labels: what a round does with them is to write them, one by one,
\* and no node, promotion or property of the runs that use this looks at one.
WithoutLabels ==
    <<nodes, acked, written, service, holder, pc, pointedAt, todo, best, fresh, since,
      answered, faults,
      [c \in Controller |-> {n \in Node : pods[c][n] = None}],
      [c \in Controller |-> [n \in Node |->
          IF view[c][n] = None THEN None
          ELSE LET s == view[c][n] IN <<s.role, s.term, s.fenced, s.ready, s.at>>]]>>
=============================================================================
