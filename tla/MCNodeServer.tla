---------------------------- MODULE MCNodeServer ----------------------------
(* Small instances of NodeServer for TLC.                                  *)
EXTENDS NodeServer, TLC

Symmetry == Permutations(Calls)

(* Two volumes at a target each. The first is a remote nested in another,  *)
(* so it has two sections.                                                 *)
MCVolumeOf == [t1 |-> "v1", t2 |-> "v2"]

(* Both configData call one of their sections alike.                       *)
MCRemotesOf == [v1 |-> {"base", "crypt"}, v2 |-> {"base"}]
=============================================================================
