--------------------------- MODULE MCMasternodeSync ---------------------------
(***************************************************************************)
(* MasternodeSync with six peers that have the current version, as many as *)
(* a stage without an answer asks before it gives up.  In one network      *)
(* lists and winners arrive and rounds begin anew; in the other an old     *)
(* peer comes first, there is one more that may leave, and peers come.     *)
(***************************************************************************)
EXTENDS MasternodeSync

Current(n) == [i \in 1 .. n |-> TRUE]
Once(events) == [e \in Rare |-> IF e \in events THEN 1 ELSE 0]

Restarts ==
  [announced |-> {"list", "winner"}, peers |-> Current(6), maxPeers |-> 6, loaded |-> FALSE,
   budgets |-> {Once({"reset"}), Once({"lost"})}]
PeersComeAndGo ==
  [announced |-> {"list"}, peers |-> <<FALSE>> \o Current(7), maxPeers |-> 8, loaded |-> TRUE,
   budgets |-> {Once({"connect", "disconnect"})}
               \cup {Once({e}) : e \in {"contention", "sleep", "uncleared"}}]
BothNetworks == {Restarts, PeersComeAndGo}
===============================================================================
