-------------------------------- MODULE Ante --------------------------------
(***************************************************************************)
(* The ante handler that app.New wraps around the SDK's: a rate limit and  *)
(* a replay check that keep their keys in the mlcoin store, as they act on *)
(* the two states every node runs it on - the state of the block being     *)
(* delivered and the node's own CheckTx state, which is thrown away for    *)
(* the committed state after every block, when the transactions left in    *)
(* the mempool pass the handler again.                                     *)
(*                                                                         *)
(* The flow of a transaction (CheckTx, proposal, delivery, commit,         *)
(* recheck) is CometBFT's and baseapp's: external, modelled from how       *)
(* app.go uses it.  All nodes commit a block in one step: a node proposes  *)
(* the next block only after it committed the last.                        *)
(***************************************************************************)
EXTENDS Integers, Sequences, SequencesExt, FiniteSets

CONSTANTS
  Node,       \* validators, each with a mempool
  Tx,         \* transactions, named by the hash of their bytes
  Sender,     \* the address that signed a transaction
  Limit,      \* perAddrPerBlockLimit: 10 in the code
  Foreign,    \* blocks a proposer makes up instead of reaping its mempool
  MaxHeight   \* bound: the last block considered

ASSUME AnteAssumption ==
  /\ DOMAIN Sender = Tx
  /\ Limit \in Nat \ {0}
  /\ Foreign \subseteq Seq(Tx)
  /\ MaxHeight \in Nat

VARIABLES
  height,     \* the last committed block
  committed,  \* the ante keys of the committed store
  check,      \* the ante keys of each node's CheckTx state
  mempool,    \* each node's mempool, in order of arrival
  reaped      \* history: the blocks that came from a mempool

vars == <<height, committed, check, mempool, reaped>>

-----------------------------------------------------------------------------
(* The keys: "ante:global:count" holds a height and a count, the height of *)
(* a transaction's delivery is under "ante:replay:" and its hash.          *)
NoKeys == [stored |-> 0, count |-> 0, seen |-> [t \in {} |-> 0]]

Count(keys, h) == IF keys.stored < h THEN 1 ELSE keys.count + 1

LimitedLate(keys, h) == Count(keys, h) > Limit + 1   \* mutant
Limited(keys, h) == Count(keys, h) > Limit

ReplayedThisBlock(keys, t, h) == t \in DOMAIN keys.seen /\ keys.seen[t] = h   \* mutant
Replayed(keys, t, h) == t \in DOMAIN keys.seen

(* The SDK's own checks (signature, account sequence, fee) come last; the  *)
(* keys of a transaction that any check refuses are dropped with its cache.*)
Passes(keys, t, h, valid) ==
  ~Limited(keys, h) /\ ~Replayed(keys, t, h) /\ t \in valid

Mark(keys, t, h) ==
  [stored |-> h, count |-> Count(keys, h),
   seen |-> [u \in DOMAIN keys.seen \cup {t} |-> IF u = t THEN h ELSE keys.seen[u]]]

(* A transaction run on what those before it in the list left.             *)
After(acc, t, h, valid) ==
  IF Passes(acc.keys, t, h, valid)
  THEN [keys |-> Mark(acc.keys, t, h), passed |-> Append(acc.passed, t)]
  ELSE acc

(* A list of transactions run in order at height h: the keys afterwards    *)
(* and those that passed.  valid are those the SDK's checks accept.        *)
Ran(keys, list, h, valid) ==
  LET ran[i \in 0 .. Len(list)] ==
        IF i = 0 THEN [keys |-> keys, passed |-> <<>>]
        ELSE After(ran[i - 1], list[i], h, valid)
  IN  ran[Len(list)]

-----------------------------------------------------------------------------
(* The genesis transactions run at height 0 and stop the start of the      *)
(* chain when they exceed the limit.                                       *)
Init ==
  /\ height = 0
  /\ \E g \in 0 .. Limit : committed = [NoKeys EXCEPT !.count = g]
  /\ check = [n \in Node |-> committed]
  /\ mempool = [n \in Node |-> <<>>]
  /\ reaped = {}

(* A transaction arrives from a client or a peer.  The CheckTx state keeps *)
(* the height of the last commit.                                          *)
CheckTx(n, t) ==
  /\ t \notin ToSet(mempool[n])
  /\ Passes(check[n], t, height, Tx)
  /\ check' = [check EXCEPT ![n] = Mark(@, t, height)]
  /\ mempool' = [mempool EXCEPT ![n] = Append(@, t)]
  /\ UNCHANGED <<height, committed, reaped>>

(* A block is delivered and committed.  Every node takes the block's       *)
(* transactions out of its mempool and runs the others again on the        *)
(* committed keys, the old CheckTx state being gone.                       *)
RecheckNothing(keys, pool, txs, valid) ==   \* mutant
  [keys |-> keys, passed |-> SelectSeq(pool, LAMBDA t : t \notin ToSet(txs))]
Recheck(keys, pool, txs, valid) == Ran(keys, pool, height + 1, valid \ ToSet(txs))

Block(txs, valid) ==
  LET keys  == Ran(committed, txs, height + 1, valid).keys
      after == [n \in Node |-> Recheck(keys, mempool[n], txs, valid)]
  IN  /\ height < MaxHeight
      /\ height' = height + 1
      /\ committed' = keys
      /\ check' = [n \in Node |-> after[n].keys]
      /\ mempool' = [n \in Node |-> after[n].passed]

ReapedBlock(n, k, valid) ==
  Block(SubSeq(mempool[n], 1, k), valid) /\ reaped' = reaped \cup {height'}
ForeignBlock(txs, valid) == Block(txs, valid) /\ UNCHANGED reaped

Next ==
  \/ \E n \in Node, t \in Tx : CheckTx(n, t)
  \/ \E n \in Node, valid \in SUBSET Tx : \E k \in 0 .. Len(mempool[n]) :
       ReapedBlock(n, k, valid)
  \/ \E txs \in Foreign, valid \in SUBSET Tx : ForeignBlock(txs, valid)

Spec == Init /\ [][Next]_vars

-----------------------------------------------------------------------------
(* No transaction is delivered twice, in one block or in two, whatever a   *)
(* proposer puts in its block: its replay key never changes.               *)
NeverReplayed ==
  [][\A t \in DOMAIN committed.seen :
       t \in DOMAIN committed'.seen /\ committed'.seen[t] = committed.seen[t]]_committed

Delivered(h) == {t \in DOMAIN committed.seen : committed.seen[t] = h}

(* A block delivers at most Limit transactions, however many a proposer    *)
(* puts in it.                                                             *)
BlockLimit == \A h \in 1 .. height : Cardinality(Delivered(h)) <= Limit

(* A proposer's own mempool always fits: none of it can be turned away by  *)
(* the limit when it is delivered.                                         *)
MempoolFits == \A n \in Node : Len(mempool[n]) <= Limit

(* The count of the last block carries over into the CheckTx states, so a  *)
(* block reaped from a mempool shares its limit with the block before it,  *)
(* whatever that one was: a full block empties every mempool and the next  *)
(* reaped block is empty.                                                  *)
TwoBlocksShareTheLimit ==
  \A h \in 1 .. height - 1 : h + 1 \in reaped =>
    Cardinality(Delivered(h)) + Cardinality(Delivered(h + 1)) <= Limit
=============================================================================
