---------------------------- MODULE MasternodeSync ----------------------------
(***************************************************************************)
(* CMasternodeSync of masternode-sync.cpp: the stages in which a node asks *)
(* its peers for sporks, the masternode list, the payment winners and the  *)
(* budget, one peer at each turn of Process, and moves on when no new item *)
(* came for a while, or none came at all.                                  *)
(*                                                                         *)
(* Process runs every five seconds.  A time is the number of turns since   *)
(* then, up to the threshold it is compared with; an item does not arrive  *)
(* in the very second of a turn.  New items may come without end, each a   *)
(* hash of its own, and SPORK_8 may change at any time.  A peer's version  *)
(* suffices for all requests or for getsporks alone.  The network is not   *)
(* REGTEST.                                                                *)
(***************************************************************************)
EXTENDS Integers, Sequences, FiniteSetsExt

Kind == {"list", "winner", "budget"}

CONSTANTS
  Never,      \* a time that is 0
  RetryTurns, \* turns until a failure is more than a minute old: 13 in the code
  Networks    \* what a behaviour may meet: for each network
              \*   announced: the kinds of which items exist,
              \*   peers: the flags nVersion >= ActiveProtocol() of vNodes at the start,
              \*   maxPeers: a bound on vNodes,
              \*   loaded: whether mncache.dat has masternodes that are enabled,
              \*   budgets: bounds on the rare events, each vector is one

Stages == {"initial", "sporks", "list", "winner", "budget", "failed", "finished"}
Request == {"getspork", "mnsync", "mnwsync", "busync"}
Rare == {"reset", "sleep", "lost", "contention", "uncleared", "connect", "disconnect"}

THRESHOLD == 2        \* MASTERNODE_SYNC_THRESHOLD
QuietTurns == 3       \* more than MASTERNODE_SYNC_TIMEOUT * 2 seconds
TimeoutTurns == 6     \* more than MASTERNODE_SYNC_TIMEOUT * 5 seconds
MaxOpen == 1          \* bound on the items of a kind that will be announced again

ASSUME SyncAssumption ==
  /\ Never \notin Nat /\ RetryTurns \in Nat
  /\ \A n \in Networks : /\ n.announced \subseteq Kind
                          /\ n.peers \in Seq(BOOLEAN) /\ n.maxPeers \in Nat
                          /\ n.loaded \in BOOLEAN
                          /\ n.budgets \subseteq [Rare -> Nat]

VARIABLES
  network,      \* the one of Networks this behaviour is in
  sync,         \* the members of masternodeSync, see Fresh
  vNodes,       \* for each peer its version flag and its fulfilled requests
  chainSynced,  \* fBlockchainSynced
  enforced,     \* SPORK_8_MASTERNODE_PAYMENT_ENFORCEMENT is active
  enabled,      \* mnodeman.CountEnabled() # 0
  due,          \* Process is about to run
  spent         \* how often each rare event happened

syncVars == <<network, sync, vNodes, chainSynced, enforced, enabled, due, spent>>

\* Reset: RequestedMasternodeAssets and Attempt, nAssetSyncStarted,
\* lastFailure, and for each kind of item the last one that counted and (of
\* mapSeenSyncMNB and its siblings) how many hashes were counted once, so that they
\* count once more.  A history: the stages left without an item because payments
\* were not enforced then.
Fresh == [stage |-> "initial", attempt |-> 0, started |-> 0, failure |-> 0,
          last |-> [k \in Kind |-> Never], open |-> [k \in Kind |-> 0], skipped |-> {}]

SyncInit ==
  /\ network \in Networks
  /\ sync = Fresh
  /\ vNodes = [i \in DOMAIN network.peers |-> [current |-> network.peers[i], asked |-> {}]]
  /\ chainSynced = FALSE
  /\ enforced \in BOOLEAN
  /\ enabled = network.loaded
  /\ due = FALSE
  /\ spent = [e \in Rare |-> 0]

Spend(event) ==
  /\ spent' = [spent EXCEPT ![event] = @ + 1]
  /\ \E budget \in network.budgets : \A e \in Rare : spent'[e] <= budget[e]

\* The stages until Process has read the time of the last item of a kind; later it only
\* matters whether there was one.
Until == [list |-> {"initial", "sporks", "list"},
          winner |-> {"initial", "sporks", "list", "winner"},
          budget |-> {"initial", "sporks", "list", "winner", "budget"}]

\* Five seconds pass.
Older(time, bound) == IF time = Never \/ time = bound THEN time ELSE time + 1
Pass ==
  /\ ~due
  /\ due' = TRUE
  /\ sync' = [sync EXCEPT !.started = Older(@, TimeoutTurns),
                          !.failure = IF sync.stage = "failed" THEN Older(@, RetryTurns) ELSE 0,
                          !.last = [k \in Kind |->
                                      IF sync.stage \in Until[k] THEN Older(@[k], QuietTurns)
                                      ELSE IF @[k] = Never THEN Never ELSE QuietTurns]]
  /\ UNCHANGED <<network, vNodes, chainSynced, enforced, enabled, spent>>

-------------------------------------------------------------------------------
(* Process. *)

After == [initial |-> "sporks", sporks |-> "list", list |-> "winner",
          winner |-> "budget", budget |-> "finished"]
GetNextAsset(s) == [s EXCEPT !.stage = After[@], !.attempt = 0, !.started = 0]

\* The turn leaves the members s and the peers nodes.
Turn(s, nodes) == sync' = s /\ vNodes' = nodes

Without(request) == {i \in DOMAIN vNodes : request \notin vNodes[i].asked}
Modern == {i \in DOMAIN vNodes : vNodes[i].current}
Marked(nodes, i, request) == [nodes EXCEPT ![i].asked = @ \cup {request}]

\* The first peer that was not asked for sporks is, and after three of them the
\* next stage begins, with one attempt counted already.
AskSporks(s, nodes) ==
  LET unasked == {i \in DOMAIN nodes : "getspork" \notin nodes[i].asked}
  IN  IF unasked = {} THEN Turn(s, nodes)
      ELSE Turn([(IF s.attempt >= THRESHOLD THEN GetNextAsset(s) ELSE s)
                   EXCEPT !.attempt = @ + 1],
                Marked(nodes, Min(unasked), "getspork"))

\* Items came, and none for more than ten seconds.
Settled(kind) == sync.last[kind] = QuietTurns /\ sync.attempt >= THRESHOLD
TimedOut(kind) ==
  /\ sync.last[kind] = Never
  /\ sync.attempt >= THRESHOLD * 3 \/ sync.started = TimeoutTurns

Skipping(s) == GetNextAsset(IF enforced THEN s ELSE [s EXCEPT !.skipped = @ \cup {s.stage}])

\* Faulty variant: the stage counts as done without any item.
NoItemAnyway(s) == Skipping(s)

\* IsSporkActive is asked at this moment.
NoItem(s) ==
  IF enforced THEN [s EXCEPT !.stage = "failed", !.attempt = 0, !.failure = 0]
              ELSE Skipping(s)

Attempted(s) == IF s.attempt >= THRESHOLD * 3 THEN s ELSE [s EXCEPT !.attempt = @ + 1]

\* The turn of the masternode list and of the winners.
AskFor(kind, request) ==
  IF Modern # {} /\ Settled(kind) THEN Turn(GetNextAsset(sync), vNodes)
  ELSE LET unasked == Modern \cap Without(request)
       IN  IF unasked = {} THEN Turn(sync, vNodes)
           ELSE Turn(IF TimedOut(kind) THEN NoItem(sync) ELSE Attempted(sync),
                     Marked(vNodes, Min(unasked), request))

\* The turn of the budget: there may be none.
AskBudget ==
  IF Modern # {} /\ (Settled("budget") \/ TimedOut("budget"))
  THEN Turn(GetNextAsset(sync), vNodes)
  ELSE LET unasked == Modern \cap Without("busync")
       IN  IF unasked = {} THEN Turn(sync, vNodes)
           ELSE Turn(Attempted(sync), Marked(vNodes, Min(unasked), "busync"))

\* Faulty variant: ClearFulfilledRequest forgets one request.
ClearedButBudget ==
  [i \in DOMAIN vNodes |-> [vNodes[i] EXCEPT !.asked = @ \cap {"busync"}]]

\* ClearFulfilledRequest.
Cleared == [i \in DOMAIN vNodes |-> [vNodes[i] EXCEPT !.asked = {}]]

\* From the initial members s, the turn goes on with the sporks.  TRY_LOCK may
\* fail in ClearFulfilledRequest, and after it in Process.
Begin(s) ==
  \/ AskSporks(GetNextAsset(s), Cleared) /\ UNCHANGED spent
  \/ Turn(GetNextAsset(s), Cleared) /\ Spend("contention")
  \/ AskSporks(GetNextAsset(s), vNodes) /\ Spend("uncleared")

\* A later stage waits for the chain, and for cs_vNodes.
Continue ==
  \/ /\ sync.stage = "sporks" \/ chainSynced
     /\ \/ sync.stage = "sporks" /\ AskSporks(sync, vNodes)
        \/ sync.stage = "list" /\ AskFor("list", "mnsync")
        \/ sync.stage = "winner" /\ AskFor("winner", "mnwsync")
        \/ sync.stage = "budget" /\ AskBudget
     /\ UNCHANGED spent
  \/ /\ sync.stage \in {"sporks", "list", "winner", "budget"}
     /\ Turn(sync, vNodes)
     /\ IF sync.stage = "sporks" \/ chainSynced THEN Spend("contention") ELSE UNCHANGED spent

\* Faulty variant: a failure is final.
RetryNever == FALSE

\* A minute after a failure.
Retry == sync.stage = "failed" /\ sync.failure = RetryTurns

Process ==
  /\ due /\ due' = FALSE
  /\ \/ sync.stage = "initial" /\ Begin(sync)
     \/ Retry /\ Begin(Fresh)
     \/ sync.stage = "failed" /\ ~Retry /\ Turn(sync, vNodes) /\ UNCHANGED spent
     \/ sync.stage = "finished" /\ enabled /\ Turn(sync, vNodes) /\ UNCHANGED spent
     \/ sync.stage = "finished" /\ ~enabled /\ Begin(Fresh)
     \/ Continue
  /\ UNCHANGED <<network, chainSynced, enforced, enabled>>

-------------------------------------------------------------------------------
(* Items, the chain and the peers. *)

\* The last item of its kind comes now, and leaves open as many that count again.  A
\* masternode in a list may be enabled.
Arrives(kind, open) ==
  /\ sync' = [sync EXCEPT !.last[kind] = 0, !.open[kind] = open]
  /\ enabled' \in IF kind = "list" THEN {enabled, TRUE} ELSE {enabled}
  /\ UNCHANGED <<network, vNodes, chainSynced, enforced, due, spent>>

\* AddedMasternodeList, AddedMasternodeWinner, AddedBudgetItem with a hash that is not in
\* their map: it counts, whether mnodeman knows it or not.
AddedNew(kind) ==
  /\ kind \in network.announced
  /\ Arrives(kind, IF sync.open[kind] < MaxOpen THEN sync.open[kind] + 1 ELSE MaxOpen)

\* Faulty variant: an item that is known counts every time it is announced.
ItemCountsAlways(kind) == sync.last[kind] # Never

\* Some hash in the map has not counted MASTERNODE_SYNC_THRESHOLD times.
ItemCounts(kind) == sync.open[kind] > 0

AddedAgain(kind) ==
  ItemCounts(kind) /\ Arrives(kind, IF sync.open[kind] > 0 THEN sync.open[kind] - 1 ELSE 0)

\* No masternode sends pings any more, or all are removed and their broadcasts
\* forgotten.
LoseMasternodes ==
  /\ enabled
  /\ Spend("lost")
  /\ enabled' = FALSE
  /\ sync' \in {sync, [sync EXCEPT !.open["list"] = 0]}
  /\ UNCHANGED <<network, vNodes, chainSynced, enforced, due>>

\* A spork message or the RPC sets SPORK_8_MASTERNODE_PAYMENT_ENFORCEMENT, or its time comes.
SporkChanges ==
  /\ enforced' = ~enforced
  /\ UNCHANGED <<network, sync, vNodes, chainSynced, enabled, due, spent>>

\* IsBlockchainSynced finds a recent tip.
CatchUp ==
  /\ ~chainSynced
  /\ chainSynced' = TRUE
  /\ UNCHANGED <<network, sync, vNodes, enforced, enabled, due, spent>>

\* IsBlockchainSynced was not called for an hour.
Sleep ==
  /\ Spend("sleep")
  /\ sync' = Fresh
  /\ chainSynced' = FALSE
  /\ UNCHANGED <<network, vNodes, enforced, enabled, due>>

\* mnsync reset.
ResetByUser ==
  /\ Spend("reset")
  /\ sync' = Fresh
  /\ UNCHANGED <<network, vNodes, chainSynced, enforced, enabled, due>>

Connect(current) ==
  /\ Len(vNodes) < network.maxPeers
  /\ Spend("connect")
  /\ vNodes' = Append(vNodes, [current |-> current, asked |-> {}])
  /\ UNCHANGED <<network, sync, chainSynced, enforced, enabled, due>>

Disconnect(i) ==
  /\ Spend("disconnect")
  /\ vNodes' = SubSeq(vNodes, 1, i - 1) \o SubSeq(vNodes, i + 1, Len(vNodes))
  /\ UNCHANGED <<network, sync, chainSynced, enforced, enabled, due>>

SyncNext ==
  \/ Pass
  \/ Process
  \/ \E kind \in Kind : AddedNew(kind) \/ AddedAgain(kind)
  \/ SporkChanges
  \/ LoseMasternodes
  \/ CatchUp
  \/ Sleep
  \/ ResetByUser
  \/ \E current \in BOOLEAN : Connect(current)
  \/ \E i \in DOMAIN vNodes : Disconnect(i)

\* The obfuscation thread calls Process for as long as the node runs.
SyncSpec == SyncInit /\ [][SyncNext]_syncVars /\ WF_syncVars(Pass) /\ WF_syncVars(Process)

-------------------------------------------------------------------------------
(* Properties. *)

\* The members of masternodeSync and the peers keep their types.
SyncTypeOK ==
  /\ network \in Networks
  /\ sync \in [stage : Stages, attempt : Nat, started : Nat, failure : Nat,
               last : [Kind -> Nat \cup {Never}], open : [Kind -> Nat],
               skipped : SUBSET Stages]
  /\ vNodes \in Seq([current : BOOLEAN, asked : SUBSET Request])
  /\ chainSynced \in BOOLEAN /\ enforced \in BOOLEAN /\ enabled \in BOOLEAN /\ due \in BOOLEAN
  /\ spent \in [Rare -> Nat]

\* The node takes its masternode data for complete only if it received a list, and
\* winners, since it last began, unless payments were not enforced at the moment when
\* the list, or the winners, were given up.
SyncedHasAssets ==
  /\ sync.stage \in {"winner", "budget", "finished"} =>
       sync.last["list"] # Never \/ "list" \in sync.skipped
  /\ sync.stage \in {"budget", "finished"} =>
       sync.last["winner"] # Never \/ "winner" \in sync.skipped

\* A peer's flags tell how far it was asked in this round, and the stages to come
\* asked none, unless a round began without clearing them.
FlagsFollowStage ==
  LET asked == UNION {vNodes[i].asked : i \in DOMAIN vNodes}
  IN  spent["uncleared"] = 0 =>
      /\ sync.stage = "sporks" => asked \subseteq {"getspork"}
      /\ sync.stage = "list" => asked \subseteq {"getspork", "mnsync"}
      /\ sync.stage = "winner" => "busync" \notin asked

\* Once the chain is synchronized the stages end, by success or by a failure that will be
\* retried, however often items are announced again and whatever the spork says, unless
\* new items of the kind that is asked for come without end: with at least six peers that
\* stay, and unless a round began without clearing their flags, which asks nobody.
SyncEnds ==
  \/ chainSynced ~> \/ sync.stage \in {"failed", "finished"}
                    \/ ~chainSynced \/ spent["uncleared"] > 0
  \/ []<><<\E kind \in Kind : sync.stage = kind /\ AddedNew(kind)>>_syncVars

\* A failed synchronization is tried again.
FailureIsRetried == sync.stage = "failed" ~> sync.stage # "failed"
===============================================================================
