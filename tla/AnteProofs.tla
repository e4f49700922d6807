----------------------------- MODULE AnteProofs -----------------------------
(***************************************************************************)
(* Proofs about Ante, for any number of nodes and transactions, any limit  *)
(* and any blocks a proposer may make up.  A list of transactions is run   *)
(* by a recursive function; what it does to the keys is an induction over  *)
(* the prefixes of the list.                                               *)
(***************************************************************************)
EXTENDS Ante, LedgerLemmas

(* The transactions that have their replay key at height g, and the part   *)
(* of the limit of height h that is used up.                               *)
Seen(keys, g) == {t \in DOMAIN keys.seen : keys.seen[t] = g}
Spent(keys, h) == IF keys.stored < h THEN 0 ELSE keys.count

(* Keys that height h can leave in a store. *)
Sound(keys, h) ==
  /\ keys.stored \in Nat /\ keys.stored <= h
  /\ keys.count \in 0 .. Limit
  /\ IsFiniteSet(DOMAIN keys.seen)
  /\ \A t \in DOMAIN keys.seen : keys.seen[t] \in 0 .. h
  /\ \A g \in Nat : Cardinality(Seen(keys, g)) <= Limit
  /\ Cardinality(Seen(keys, h)) <= Spent(keys, h)

(* Later keys that change nothing but at height h. *)
Keeps(keys, later, h) ==
  /\ \A t \in DOMAIN keys.seen : t \in DOMAIN later.seen /\ later.seen[t] = keys.seen[t]
  /\ \A t \in DOMAIN later.seen \ DOMAIN keys.seen : later.seen[t] = h

-----------------------------------------------------------------------------
LEMMA SeenFinite ==
  ASSUME NEW keys, NEW h, Sound(keys, h), NEW g
  PROVE  IsFiniteSet(Seen(keys, g)) /\ Cardinality(Seen(keys, g)) \in Nat
<1>1. Seen(keys, g) \subseteq DOMAIN keys.seen /\ IsFiniteSet(DOMAIN keys.seen)
  BY DEF Seen, Sound
<1> QED
  BY <1>1, FS_Subset, FS_CardinalityType

(* A new height starts with nothing seen and nothing spent. *)
LEMMA SoundNextHeight ==
  ASSUME NEW keys, NEW h \in Nat, Sound(keys, h)
  PROVE  Sound(keys, h + 1) /\ Spent(keys, h + 1) = 0
<1>1. Spent(keys, h + 1) = 0
  BY DEF Spent, Sound
<1>2. Seen(keys, h + 1) = {}
  BY DEF Seen, Sound
<1>3. Cardinality(Seen(keys, h + 1)) = 0
  BY <1>2, FS_EmptySet
<1>4. /\ keys.stored \in Nat /\ keys.stored <= h + 1
      /\ \A t \in DOMAIN keys.seen : keys.seen[t] \in 0 .. (h + 1)
  BY DEF Sound
<1> QED
  BY <1>1, <1>3, <1>4 DEF Sound

(* Keys that keep those before them have seen the same at other heights.   *)
LEMMA SeenKept ==
  ASSUME NEW keys, NEW later, NEW h, Keeps(keys, later, h), NEW g, g # h
  PROVE  Seen(later, g) = Seen(keys, g)
BY DEF Keeps, Seen

LEMMA KeepsChain ==
  ASSUME NEW k1, NEW k2, NEW k3, NEW h, Keeps(k1, k2, h), Keeps(k2, k3, h)
  PROVE  Keeps(k1, k3, h)
BY DEF Keeps

(* One transaction that passes: one more seen, one more spent. *)
LEMMA MarkKeeps ==
  ASSUME NEW keys, NEW t, NEW h \in Nat, NEW valid, Sound(keys, h), Passes(keys, t, h, valid)
  PROVE  /\ Sound(Mark(keys, t, h), h)
         /\ Keeps(keys, Mark(keys, t, h), h)
         /\ Spent(Mark(keys, t, h), h) = Spent(keys, h) + 1
<1> DEFINE later == Mark(keys, t, h)
<1>1. t \notin DOMAIN keys.seen /\ ~(Count(keys, h) > Limit)
  BY DEF Passes, Limited, Replayed
<1>2. /\ later.stored = h /\ later.count = Count(keys, h)
      /\ DOMAIN later.seen = DOMAIN keys.seen \cup {t}
      /\ \A u \in DOMAIN later.seen : later.seen[u] = IF u = t THEN h ELSE keys.seen[u]
  BY DEF Mark
<1>3. Spent(keys, h) \in Nat /\ Count(keys, h) = Spent(keys, h) + 1
  BY AnteAssumption DEF Count, Spent, Sound
<1> HIDE DEF later
<1>4. Spent(later, h) = Spent(keys, h) + 1
  BY <1>2, <1>3 DEF Spent
<1>5. Keeps(keys, later, h)
  BY <1>1, <1>2 DEF Keeps
<1>6. Seen(later, h) = Seen(keys, h) \cup {t} /\ t \notin Seen(keys, h)
  BY <1>1, <1>2 DEF Seen
<1>7. Cardinality(Seen(later, h)) = Cardinality(Seen(keys, h)) + 1
  BY <1>6, SeenFinite, FS_AddElement
<1>8. Cardinality(Seen(later, h)) <= Spent(later, h) /\ Spent(later, h) <= Limit
  <2>1. Cardinality(Seen(keys, h)) \in Nat /\ Cardinality(Seen(keys, h)) <= Spent(keys, h)
    BY SeenFinite DEF Sound
  <2>2. Spent(keys, h) + 1 <= Limit
    BY <1>1, <1>3, AnteAssumption
  <2> QED
    BY <1>3, <1>4, <1>7, <2>1, <2>2, AnteAssumption
<1>9. ASSUME NEW g \in Nat PROVE Cardinality(Seen(later, g)) <= Limit
  <2>1. CASE g = h
    <3>1. Cardinality(Seen(keys, h)) \in Nat
      BY SeenFinite
    <3> QED
      BY <1>3, <1>4, <1>7, <1>8, <2>1, <3>1, AnteAssumption
  <2>2. CASE g # h
    BY <1>5, <2>2, SeenKept DEF Sound
  <2> QED
    BY <2>1, <2>2
<1>10. IsFiniteSet(DOMAIN later.seen)
  BY <1>2, FS_AddElement DEF Sound
<1>11. \A u \in DOMAIN later.seen : later.seen[u] \in 0 .. h
  BY <1>2 DEF Sound
<1>12. later.count \in 0 .. Limit
  BY <1>1, <1>2, <1>3, AnteAssumption
<1>13. Sound(later, h)
  BY <1>2, <1>8, <1>9, <1>10, <1>11, <1>12 DEF Sound
<1> QED
  BY <1>4, <1>5, <1>13 DEF later

-----------------------------------------------------------------------------
(* The table of a run over the first n transactions of a list.             *)
Start(keys) == [keys |-> keys, passed |-> <<>>]
IsRun(g, keys, list, h, valid, n) ==
  g = [i \in 0 .. n |-> IF i = 0 THEN Start(keys) ELSE After(g[i - 1], list[i], h, valid)]

LEMMA RunExists ==
  ASSUME NEW keys, NEW list, NEW h, NEW valid, NEW n \in Nat
  PROVE  \E g : IsRun(g, keys, list, h, valid, n)
<1> DEFINE Done == {m \in Nat : \E g : IsRun(g, keys, list, h, valid, m)}
<1>1. 0 \in Done
  <2> DEFINE g == [i \in 0 .. 0 |-> Start(keys)]
  <2>1. IsRun(g, keys, list, h, valid, 0)
    BY DEF IsRun
  <2> QED
    BY <2>1
<1>2. ASSUME NEW m \in Nat, m \in Done PROVE m + 1 \in Done
  <2>1. PICK g : IsRun(g, keys, list, h, valid, m)
    BY <1>2
  <2> DEFINE val(f, i) == IF i = 0 THEN Start(keys) ELSE After(f[i - 1], list[i], h, valid)
             f == [i \in 0 .. (m + 1) |-> val(g, i)]
  <2>2. ASSUME NEW i \in 0 .. (m + 1) PROVE f[i] = val(f, i)
    <3>1. CASE i = 0
      BY <3>1
    <3>2. CASE i # 0
      <4>1. i - 1 \in 0 .. m /\ i - 1 \in 0 .. (m + 1)
        BY <3>2
      <4>2. g[i - 1] = val(g, i - 1)
        BY <2>1, <4>1 DEF IsRun
      <4>3. f[i - 1] = g[i - 1]
        BY <4>1, <4>2
      <4> QED
        BY <3>2, <4>3
    <3> QED
      BY <3>1, <3>2
  <2>3. f = [i \in 0 .. (m + 1) |-> val(f, i)]
    BY <2>2
  <2>4. IsRun(f, keys, list, h, valid, m + 1)
    BY <2>3 DEF IsRun
  <2> HIDE DEF f
  <2> QED
    BY <2>4
<1>3. Nat \subseteq Done
  <2> HIDE DEF Done
  <2> QED
    BY <1>1, <1>2, NatSetInduction
<1> QED
  BY <1>3

LEMMA RanIsRun ==
  ASSUME NEW keys, NEW T, NEW list \in Seq(T), NEW h, NEW valid
  PROVE  \E g : /\ IsRun(g, keys, list, h, valid, Len(list))
                /\ Ran(keys, list, h, valid) = g[Len(list)]
<1> DEFINE g == CHOOSE f : IsRun(f, keys, list, h, valid, Len(list))
<1>1. IsRun(g, keys, list, h, valid, Len(list))
  BY RunExists
<1>2. Ran(keys, list, h, valid) = g[Len(list)]
  BY DEF Ran, IsRun, Start
<1> QED
  BY <1>1, <1>2

(* What a run does to sound keys, whatever the list holds: nothing but at  *)
(* its own height, and one spent for each that passes.                     *)
RunSound(keys, r, h, n) ==
  /\ Sound(r.keys, h) /\ Keeps(keys, r.keys, h)
  /\ r.passed \in Seq(Tx) /\ Len(r.passed) <= n
  /\ Spent(r.keys, h) = Spent(keys, h) + Len(r.passed)

LEMMA AfterSound ==
  ASSUME NEW keys, NEW acc, NEW h \in Nat, NEW n \in Nat, NEW t \in Tx, NEW valid,
         Sound(keys, h), RunSound(keys, acc, h, n)
  PROVE  RunSound(keys, After(acc, t, h, valid), h, n + 1)
<1>1. CASE Passes(acc.keys, t, h, valid)
  <2> DEFINE r == After(acc, t, h, valid)
  <2>1. r.keys = Mark(acc.keys, t, h) /\ r.passed = Append(acc.passed, t)
    BY <1>1 DEF After
  <2> HIDE DEF r
  <2>2. /\ Sound(r.keys, h) /\ Keeps(acc.keys, r.keys, h)
        /\ Spent(r.keys, h) = Spent(acc.keys, h) + 1
    BY <1>1, <2>1, MarkKeeps DEF RunSound
  <2>3. Keeps(keys, r.keys, h)
    BY <2>2, KeepsChain DEF RunSound
  <2>4. r.passed \in Seq(Tx) /\ Len(r.passed) = Len(acc.passed) + 1
    BY <2>1 DEF RunSound
  <2>5. Spent(keys, h) \in Nat /\ Len(acc.passed) \in Nat
    BY AnteAssumption DEF Spent, Sound, RunSound
  <2>6. RunSound(keys, r, h, n + 1)
    BY <2>2, <2>3, <2>4, <2>5 DEF RunSound
  <2> QED
    BY <2>6 DEF r
<1>2. CASE ~Passes(acc.keys, t, h, valid)
  BY <1>2 DEF After, RunSound
<1> QED
  BY <1>1, <1>2

LEMMA RanSound ==
  ASSUME NEW keys, NEW h \in Nat, NEW list \in Seq(Tx), NEW valid, Sound(keys, h)
  PROVE  RunSound(keys, Ran(keys, list, h, valid), h, Len(list))
<1>1. PICK g : /\ IsRun(g, keys, list, h, valid, Len(list))
               /\ Ran(keys, list, h, valid) = g[Len(list)]
  BY RanIsRun
<1> DEFINE Done == {n \in Nat : n <= Len(list) => RunSound(keys, g[n], h, n)}
<1>2. 0 \in Done
  <2>1. g[0] = Start(keys)
    BY <1>1 DEF IsRun
  <2>2. Spent(keys, h) \in Nat
    BY AnteAssumption DEF Spent, Sound
  <2>3. RunSound(keys, Start(keys), h, 0)
    BY <2>2 DEF RunSound, Start, Keeps
  <2> QED
    BY <2>1, <2>3
<1>3. ASSUME NEW n \in Nat, n \in Done PROVE n + 1 \in Done
  <2> SUFFICES ASSUME n + 1 <= Len(list) PROVE RunSound(keys, g[n + 1], h, n + 1)
    OBVIOUS
  <2>1. n + 1 \in 0 .. Len(list) /\ n + 1 # 0 /\ (n + 1) - 1 = n /\ list[n + 1] \in Tx
    OBVIOUS
  <2>2. g[n + 1] = After(g[n], list[n + 1], h, valid)
    BY <1>1, <2>1 DEF IsRun
  <2>3. RunSound(keys, g[n], h, n)
    BY <1>3
  <2> QED
    BY <2>1, <2>2, <2>3, AfterSound
<1>4. Nat \subseteq Done
  <2> HIDE DEF Done
  <2> QED
    BY <1>2, <1>3, NatSetInduction
<1> QED
  BY <1>1, <1>4

-----------------------------------------------------------------------------
(* Every transaction in a mempool is one that the CheckTx state of its     *)
(* node counts beyond what the last block spent.                           *)
AnteInv ==
  /\ height \in Nat
  /\ Sound(committed, height)
  /\ DOMAIN check = Node /\ DOMAIN mempool = Node
  /\ \A n \in Node :
       /\ Sound(check[n], height)
       /\ mempool[n] \in Seq(Tx)
       /\ Spent(check[n], height) = Spent(committed, height) + Len(mempool[n])
  /\ reaped \subseteq 1 .. height
  /\ TwoBlocksShareTheLimit

LEMMA DeliveredIsSeen == \A h : Delivered(h) = Seen(committed, h)
BY DEF Delivered, Seen

LEMMA SpentBounds ==
  ASSUME NEW keys, NEW h, Sound(keys, h)
  PROVE  Spent(keys, h) \in 0 .. Limit
BY AnteAssumption DEF Sound, Spent

LEMMA AnteInit == Init => AnteInv
<1> SUFFICES ASSUME Init PROVE AnteInv
  OBVIOUS
<1>1. PICK g \in 0 .. Limit : committed = [NoKeys EXCEPT !.count = g]
  BY DEF Init
<1>2. committed.stored = 0 /\ committed.count = g /\ DOMAIN committed.seen = {}
  BY <1>1 DEF NoKeys
<1>3. \A h : Seen(committed, h) = {}
  BY <1>2 DEF Seen
<1>4. /\ IsFiniteSet(DOMAIN committed.seen)
      /\ \A h : Cardinality(Seen(committed, h)) = 0
  BY <1>2, <1>3, FS_EmptySet
<1>5. Sound(committed, 0) /\ Spent(committed, 0) = g
  BY <1>2, <1>4, AnteAssumption DEF Sound, Spent
<1>6. /\ height = 0 /\ reaped = {}
      /\ check = [n \in Node |-> committed] /\ mempool = [n \in Node |-> <<>>]
  BY DEF Init
<1> QED
  BY <1>5, <1>6, AnteAssumption DEF AnteInv, TwoBlocksShareTheLimit

LEMMA CheckTxKeeps ==
  ASSUME AnteInv, NEW n \in Node, NEW t \in Tx, CheckTx(n, t)
  PROVE  AnteInv'
<1>1. /\ height' = height /\ committed' = committed /\ reaped' = reaped
      /\ check' = [check EXCEPT ![n] = Mark(check[n], t, height)]
      /\ mempool' = [mempool EXCEPT ![n] = Append(mempool[n], t)]
      /\ Passes(check[n], t, height, Tx)
  BY DEF CheckTx
<1>2. /\ Sound(Mark(check[n], t, height), height)
      /\ Spent(Mark(check[n], t, height), height) = Spent(check[n], height) + 1
  BY <1>1, MarkKeeps DEF AnteInv
<1>3. ASSUME NEW m \in Node
      PROVE  /\ Sound(check'[m], height')
             /\ mempool'[m] \in Seq(Tx)
             /\ Spent(check'[m], height') = Spent(committed', height') + Len(mempool'[m])
  <2>1. CASE m = n
    <3>1. check'[m] = Mark(check[n], t, height) /\ mempool'[m] = Append(mempool[n], t)
      BY <1>1, <2>1 DEF AnteInv
    <3>2. mempool[n] \in Seq(Tx) /\ Spent(check[n], height) = Spent(committed, height) + Len(mempool[n])
      BY DEF AnteInv
    <3>3. Append(mempool[n], t) \in Seq(Tx) /\ Len(Append(mempool[n], t)) = Len(mempool[n]) + 1
      BY <3>2
    <3>4. Spent(committed, height) \in Int
      BY SpentBounds, AnteAssumption DEF AnteInv
    <3>5. Len(mempool[n]) \in Int
      BY <3>2
    <3>6. Spent(Mark(check[n], t, height), height)
            = Spent(committed, height) + Len(Append(mempool[n], t))
      BY <1>2, <3>2, <3>3, <3>4, <3>5
    <3>7. Sound(check'[m], height')
      BY <1>1, <1>2, <3>1
    <3>8. mempool'[m] \in Seq(Tx)
      BY <3>1, <3>3
    <3>9. Spent(check'[m], height') = Spent(committed', height') + Len(mempool'[m])
      BY <1>1, <3>1, <3>6
    <3> QED
      BY <3>7, <3>8, <3>9
  <2>2. CASE m # n
    BY <1>1, <2>2 DEF AnteInv
  <2> QED
    BY <2>1, <2>2
<1>4. TwoBlocksShareTheLimit'
  BY <1>1 DEF AnteInv, TwoBlocksShareTheLimit, Delivered
<1>5. DOMAIN check' = Node /\ DOMAIN mempool' = Node
  BY <1>1 DEF AnteInv
<1> QED
  BY <1>1, <1>3, <1>4, <1>5 DEF AnteInv

(* A block seen from the keys: nothing delivered before changes, and it    *)
(* delivers no more than it lists.                                         *)
LEMMA BlockKeys ==
  ASSUME AnteInv, NEW txs \in Seq(Tx), NEW valid, Block(txs, valid)
  PROVE  /\ height' = height + 1
         /\ Sound(committed', height') /\ Keeps(committed, committed', height')
         /\ Cardinality(Seen(committed', height')) <= Len(txs)
         /\ \A h : h # height' => Seen(committed', h) = Seen(committed, h)
<1> DEFINE r == Ran(committed, txs, height + 1, valid)
<1>1. height' = height + 1 /\ committed' = r.keys /\ height + 1 \in Nat
  BY DEF Block, AnteInv
<1>2. Sound(committed, height + 1) /\ Spent(committed, height + 1) = 0
  BY SoundNextHeight DEF AnteInv
<1>3. RunSound(committed, r, height + 1, Len(txs))
  BY <1>1, <1>2, RanSound
<1> HIDE DEF r
<1>4. /\ Sound(committed', height') /\ Keeps(committed, committed', height')
      /\ Len(r.passed) \in Nat /\ Len(r.passed) <= Len(txs)
      /\ Spent(committed', height') = Len(r.passed)
  BY <1>1, <1>2, <1>3 DEF RunSound
<1>5. Cardinality(Seen(committed', height')) <= Len(txs)
  <2>1. /\ Cardinality(Seen(committed', height')) <= Spent(committed', height')
        /\ Cardinality(Seen(committed', height')) \in Nat
    BY <1>4, SeenFinite DEF Sound
  <2> QED
    BY <1>4, <2>1
<1>6. \A h : h # height' => Seen(committed', h) = Seen(committed, h)
  BY <1>4, SeenKept
<1> QED
  BY <1>1, <1>4, <1>5, <1>6

(* A block seen from the nodes. *)
LEMMA BlockNodes ==
  ASSUME AnteInv, NEW txs \in Seq(Tx), NEW valid, Block(txs, valid), NEW n \in Node
  PROVE  /\ Sound(check'[n], height')
         /\ mempool'[n] \in Seq(Tx)
         /\ Spent(check'[n], height') = Spent(committed', height') + Len(mempool'[n])
<1>1. height' = height + 1 /\ Sound(committed', height') /\ height' \in Nat
  BY BlockKeys DEF AnteInv
<1> DEFINE r == Ran(committed', mempool[n], height', valid \ ToSet(txs))
<1>2. check'[n] = r.keys /\ mempool'[n] = r.passed
  BY <1>1 DEF Block, Recheck
<1>3. RunSound(committed', r, height', Len(mempool[n]))
  BY <1>1, RanSound DEF AnteInv
<1> QED
  BY <1>2, <1>3 DEF RunSound

LEMMA BlockKeeps ==
  ASSUME AnteInv, NEW txs \in Seq(Tx), NEW valid, Block(txs, valid),
         \/ UNCHANGED reaped
         \/ /\ reaped' = reaped \cup {height'}
            /\ \E n \in Node : Len(txs) <= Len(mempool[n])
  PROVE  AnteInv'
<1>1. /\ height' = height + 1 /\ height \in Nat /\ height' \in Nat
      /\ Sound(committed', height')
      /\ Cardinality(Seen(committed', height')) <= Len(txs)
      /\ \A h : h # height' => Seen(committed', h) = Seen(committed, h)
  BY BlockKeys DEF AnteInv
<1>2. reaped' \subseteq 1 .. height'
  <2>1. reaped \subseteq 1 .. height
    BY DEF AnteInv
  <2>2. reaped' \subseteq reaped \cup {height'}
    OBVIOUS
  <2>3. 1 .. height \subseteq 1 .. height' /\ height' \in 1 .. height'
    BY <1>1
  <2> QED
    BY <2>1, <2>2, <2>3
<1>3. ASSUME NEW h \in 1 .. height' - 1, h + 1 \in reaped'
      PROVE  Cardinality(Seen(committed', h)) + Cardinality(Seen(committed', h + 1)) <= Limit
  <2>1. CASE h < height
    <3>1. h \in 1 .. height - 1 /\ h + 1 \in reaped
      BY <1>1, <1>3, <2>1
    <3>2. /\ Seen(committed', h) = Delivered(h)
          /\ Seen(committed', h + 1) = Delivered(h + 1)
      BY <1>1, <2>1, DeliveredIsSeen
    <3>3. Cardinality(Delivered(h)) + Cardinality(Delivered(h + 1)) <= Limit
      BY <3>1 DEF AnteInv, TwoBlocksShareTheLimit
    <3> QED
      BY <3>2, <3>3
  <2>2. CASE h = height
    <3>1. h + 1 = height' /\ height' \notin reaped
      BY <1>1, <2>2 DEF AnteInv
    <3>2. PICK n \in Node : Len(txs) <= Len(mempool[n])
      BY <1>3, <3>1
    <3>3. /\ Spent(check[n], height) = Spent(committed, height) + Len(mempool[n])
          /\ Spent(check[n], height) \in 0 .. Limit /\ Spent(committed, height) \in 0 .. Limit
          /\ Len(mempool[n]) \in Nat
      BY SpentBounds DEF AnteInv
    <3>4. /\ Cardinality(Seen(committed, height)) <= Spent(committed, height)
          /\ Cardinality(Seen(committed, height)) \in Nat
      BY SeenFinite DEF AnteInv, Sound
    <3>5. /\ Seen(committed', h) = Seen(committed, height)
          /\ Seen(committed', h + 1) = Seen(committed', height')
      BY <1>1, <2>2, <3>1
    <3>6. Cardinality(Seen(committed', height')) \in Nat /\ Len(txs) \in Nat
      BY <1>1, SeenFinite
    <3> QED
      BY <1>1, <3>2, <3>3, <3>4, <3>5, <3>6, AnteAssumption
  <2> QED
    BY <1>1, <1>3, <2>1, <2>2
<1>4. TwoBlocksShareTheLimit'
  BY <1>3 DEF TwoBlocksShareTheLimit, Delivered, Seen
<1>5. DOMAIN check' = Node /\ DOMAIN mempool' = Node
  BY DEF Block
<1>6. \A n \in Node :
        /\ Sound(check'[n], height')
        /\ mempool'[n] \in Seq(Tx)
        /\ Spent(check'[n], height') = Spent(committed', height') + Len(mempool'[n])
  BY BlockNodes
<1> QED
  BY <1>1, <1>2, <1>4, <1>5, <1>6 DEF AnteInv

LEMMA NextIsBlockOrCheck ==
  ASSUME AnteInv, Next
  PROVE  \/ \E n \in Node, t \in Tx : CheckTx(n, t)
         \/ \E txs \in Seq(Tx), valid \in SUBSET Tx :
              /\ Block(txs, valid)
              /\ \/ UNCHANGED reaped
                 \/ /\ reaped' = reaped \cup {height'}
                    /\ \E n \in Node : Len(txs) <= Len(mempool[n])
<1>1. ASSUME NEW n \in Node, NEW valid \in SUBSET Tx, NEW k \in 0 .. Len(mempool[n]),
             ReapedBlock(n, k, valid)
      PROVE  \E txs \in Seq(Tx), v \in SUBSET Tx :
               /\ Block(txs, v)
               /\ reaped' = reaped \cup {height'}
               /\ \E m \in Node : Len(txs) <= Len(mempool[m])
  <2>1. mempool[n] \in Seq(Tx)
    BY DEF AnteInv
  <2> DEFINE txs == SubSeq(mempool[n], 1, k)
  <2>2. txs \in Seq(Tx) /\ Len(txs) = k /\ k <= Len(mempool[n])
    BY <2>1
  <2>3. Block(txs, valid) /\ reaped' = reaped \cup {height'}
    BY <1>1 DEF ReapedBlock
  <2> HIDE DEF txs
  <2> QED
    BY <2>2, <2>3
<1>2. ASSUME NEW txs \in Foreign, NEW valid \in SUBSET Tx, ForeignBlock(txs, valid)
      PROVE  Block(txs, valid) /\ txs \in Seq(Tx) /\ UNCHANGED reaped
  BY <1>2, AnteAssumption DEF ForeignBlock
<1> QED
  BY <1>1, <1>2 DEF Next

(* The keys of the committed store and of every CheckTx state, and what    *)
(* the mempools hold, stay accounted for whatever blocks are proposed.     *)
THEOREM AnteInvariant == Spec => []AnteInv
<1>1. AnteInv /\ [Next]_vars => AnteInv'
  <2> SUFFICES ASSUME AnteInv, [Next]_vars PROVE AnteInv'
    OBVIOUS
  <2>1. CASE Next
    BY <2>1, NextIsBlockOrCheck, CheckTxKeeps, BlockKeeps
  <2>2. CASE UNCHANGED vars
    BY <2>2 DEF vars, AnteInv, TwoBlocksShareTheLimit, Delivered
  <2> QED
    BY <2>1, <2>2
<1> QED
  BY <1>1, AnteInit, PTL DEF Spec

(* No proposer gets more than Limit transactions delivered in a block. *)
THEOREM BlocksAreLimited == Spec => []BlockLimit
<1>1. AnteInv => BlockLimit
  BY DeliveredIsSeen DEF AnteInv, Sound, BlockLimit
<1> QED
  BY <1>1, AnteInvariant, PTL

(* A mempool never holds more than one block can deliver. *)
THEOREM MempoolsFit == Spec => []MempoolFits
<1>1. AnteInv => MempoolFits
  <2> SUFFICES ASSUME AnteInv, NEW n \in Node PROVE Len(mempool[n]) <= Limit
    BY DEF MempoolFits
  <2>1. /\ Spent(check[n], height) = Spent(committed, height) + Len(mempool[n])
        /\ Spent(check[n], height) \in 0 .. Limit /\ Spent(committed, height) \in 0 .. Limit
    BY SpentBounds DEF AnteInv
  <2>2. Len(mempool[n]) \in Nat
    BY DEF AnteInv
  <2> QED
    BY <2>1, <2>2, AnteAssumption
<1> QED
  BY <1>1, AnteInvariant, PTL

(* A reaped block and the one before it deliver at most Limit together. *)
THEOREM LimitIsShared == Spec => []TwoBlocksShareTheLimit
BY AnteInvariant, PTL DEF AnteInv

KeysKept ==
  \A t \in DOMAIN committed.seen :
    t \in DOMAIN committed'.seen /\ committed'.seen[t] = committed.seen[t]

(* A transaction is delivered once, whatever a proposer replays.           *)
THEOREM NoReplay == Spec => NeverReplayed
<1>1. AnteInv /\ [Next]_vars => [KeysKept]_committed
  <2> SUFFICES ASSUME AnteInv, Next PROVE KeysKept \/ committed' = committed
    BY DEF vars
  <2>1. CASE \E n \in Node, t \in Tx : CheckTx(n, t)
    BY <2>1 DEF CheckTx
  <2>2. ASSUME NEW txs \in Seq(Tx), NEW valid \in SUBSET Tx, Block(txs, valid)
        PROVE  KeysKept
    BY <2>2, BlockKeys DEF Keeps, KeysKept
  <2> QED
    BY <2>1, <2>2, NextIsBlockOrCheck
<1>2. Spec => [][KeysKept]_committed
  BY <1>1, AnteInvariant, PTL DEF Spec
<1> QED
  BY <1>2, PTL DEF NeverReplayed, KeysKept
=============================================================================
