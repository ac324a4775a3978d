---------------------------- MODULE MCCheckQueue ----------------------------
(***************************************************************************)
(* Two workers and the master, blocks of up to four checks, batches of up *)
(* to two: a batch can be split three ways, and a block can follow another *)
(* for as long as nobody stops the node.                                   *)
(***************************************************************************)
EXTENDS CheckQueue
=============================================================================
