---------------------------- MODULE MCTuiSession ----------------------------
(* Two paths that escape to the same snapshot directory (a/b and a_b).      *)
EXTENDS TuiSession
CONSTANTS u, p1, p2
MCWriters == {1, 2, u}
MCSnapDir == [p \in Paths |-> "a_b"]
MCWorkspaces ==
    {[file |-> [p \in Paths |-> Absent], snaps |-> {}],
     [file |-> [p \in Paths |-> "text"],
      snaps |-> {[dir |-> "a_b", id |-> 0, content |-> "older"]}]}
=============================================================================
