---------------------------- MODULE MCVisualizer ----------------------------
(***************************************************************************)
(* A service with one task, in a swarm of a node that another may join or  *)
(* of both; two polls may overlap.                                         *)
(***************************************************************************)
EXTENDS Visualizer, TLC

CONSTANTS n1, n2, t1, web, p1, p2

MCServiceOf == t1 :> web

MCSwarm(nodes) == [nodes    |-> [n \in nodes |-> "ready"],
                   tasks    |-> t1 :> n1,
                   services |-> {web}]

MCInitialSwarms == {MCSwarm({n1}), MCSwarm({n1, n2})}
=============================================================================
