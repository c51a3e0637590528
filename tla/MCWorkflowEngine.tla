---------------------------- MODULE MCWorkflowEngine ---------------------------
(* Orders that are shipped and returned by one action, so that a bulk call can    *)
(* move its instances to different states; shipping takes one unit of stock and   *)
(* inserts a delivery, returning puts it back.                                    *)
EXTENDS WorkflowEngine, TLC

CONSTANTS open, shipped, turn, work, delivery, quantity, unit, i1, i2

MCStates  == {open, shipped}
MCActions == {turn}

Plain(f, a, t) == [from |-> f, action |-> a, to |-> t, perm |-> work,
                   needs |-> <<>>, product |-> None, change |-> 0]

\* shipping always inserts a delivery, and takes stock if the quantity is known
Needs == "stock" :> {quantity} @@ delivery :> {}

MCEdges ==
    { [Plain(open, turn, shipped) EXCEPT !.needs = Needs, !.product = unit, !.change = -1],
      [Plain(shipped, turn, open) EXCEPT !.needs = "stock" :> {quantity}, !.product = unit, !.change = 1] }

MCHolds == Users \X {work}
MCStock == [p \in Products |-> 1]
MCSingle == { <<i1>> }
MCCalls  == { <<i1>>, <<i2>>, <<i1, i2>>, <<i2, i1>> }

Symmetry == Permutations(Sessions) \cup Permutations(Instances)
================================================================================
