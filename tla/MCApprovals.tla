------------------------------ MODULE MCApprovals ------------------------------
(* A document workflow: a draft is submitted for review, and entering review     *)
(* proposes to publish it; what is in review or published can be sent back.      *)
EXTENDS Approvals, TLC

CONSTANTS draft, review, published, submit, publish, sendback, edit, decide

MCStates  == {draft, review, published}
MCActions == {submit, publish, sendback}
MCPerms   == {edit, decide}

MCEdges ==
    { [from |-> draft,  action |-> submit,   to |-> review,    perm |-> edit],
      [from |-> review, action |-> publish,  to |-> published, perm |-> decide],
      [from |-> review, action |-> sendback, to |-> draft,     perm |-> edit],
      [from |-> published, action |-> sendback, to |-> draft, perm |-> edit] }

MCRules == { publish }

Symmetry == Permutations(Handlers) \cup Permutations(Approvals)
================================================================================
