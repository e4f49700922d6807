----------------------------- MODULE ChainProofs -----------------------------
(***************************************************************************)
(* Proofs about the chain, for every value of its constants: the ledger of *)
(* Mlcoin, the modules composed with it in Mallchain, and the export of    *)
(* ChainExport.  The composed modules implement the ledger's specification,*)
(* so what is proved of Mlcoin holds of Mallchain.                         *)
(***************************************************************************)
EXTENDS ChainExport, LedgerLemmas

(* The ledger without the two logs' numbers and the currency rates. *)
MarketTypeOK ==
  /\ IsStore(wallet, Addr, Word)
  /\ IsStore(kes, Addr, Word)
  /\ circ \in Word
  /\ market \in [buy : Word, sell : Word, buyVol : Word, sellVol : Word]
  /\ seq \in Nat
  /\ bank \in [Addr -> Nat]
  /\ height \in Nat

LEMMA AddInWord ==
  ASSUME NEW a \in Word, NEW b \in Word
  PROVE  Add(a, b) \in Word
BY ConstantsAssumption DEF Add, Word

LEMMA MulInWord ==
  ASSUME NEW a \in Word, NEW b \in Word
  PROVE  Mul(a, b) \in Word
<1> DEFINE p == a * b
<1>1. p \in Nat
  BY ConstantsAssumption DEF Word
<1>2. W \in Nat /\ W > 0
  BY ConstantsAssumption DEF Word
<1> HIDE DEF p
<1>3. p % W \in 0 .. (W - 1)
  BY <1>1, <1>2
<1> QED
  BY <1>3 DEF Mul, Word, p

LEMMA WriteInStore ==
  ASSUME NEW S, NEW T, NEW f, IsStore(f, S, T), NEW k \in S, NEW v \in T
  PROVE  IsStore(Write(f, k, v), S, T)
BY DEF IsStore, Write

LEMMA ReadInWord ==
  ASSUME NEW f, NEW S, IsStore(f, S, Word), NEW k
  PROVE  Read(f, k) \in Word
BY ConstantsAssumption DEF IsStore, Read, Word

LEMMA StepBounds ==
  ASSUME NEW n \in Word, n # 0
  PROVE  PriceStep(n) \in Nat /\ 1 <= PriceStep(n) /\ PriceStep(n) <= n
<1>1. StepUnit \in Nat /\ StepUnit >= 1 /\ n \in Nat /\ n >= 1
  BY ConstantsAssumption DEF Word
<1> DEFINE q == n \div StepUnit
<1>2. q \in Int /\ StepUnit * q <= n /\ n < StepUnit * (q + 1)
  BY <1>1
<1> HIDE DEF q
<1>3. q >= 0
  <2>1. q + 1 > 0
    BY <1>1, <1>2
  <2> QED
    BY <1>2, <2>1
<1>4. q <= n
  <2>1. q <= StepUnit * q
    BY <1>1, <1>2, <1>3
  <2> QED
    BY <1>1, <1>2, <2>1
<1> QED
  BY <1>1, <1>2, <1>3, <1>4 DEF PriceStep, q

-----------------------------------------------------------------------------
(* The inductive invariant of the market.  The price bound is what keeps   *)
(* Add from wrapping a price: a purchase of n MLCN raises it by at most n. *)
MarketCore ==
  /\ MarketTypeOK
  /\ SupplyCap
  /\ PricesOrdered
  /\ market.buy <= market.buyVol + 62
  /\ market.buyVol <= MaxVolume
  /\ market.sellVol <= MaxVolume
MarketInv == MarketCore /\ CirculatingCoversVolumes

LEMMA MarketInit == Init => MarketInv
<1> SUFFICES ASSUME Init PROVE MarketInv
  OBVIOUS
<1> USE ConstantsAssumption DEF Init, Word
<1>1. MarketTypeOK
  BY DEF MarketTypeOK
<1>2. SupplyCap /\ PricesOrdered /\ CirculatingCoversVolumes
  BY DEF SupplyCap, PricesOrdered, CirculatingCoversVolumes
<1> QED
  BY <1>1, <1>2 DEF MarketInv, MarketCore

(* The numbers of the market as integers, with Word expanded once. *)
LEMMA MarketNumbers ==
  ASSUME MarketCore
  PROVE  /\ circ \in Nat /\ circ <= TotalSupply
         /\ market.buy \in Nat /\ market.sell \in Nat
         /\ market.buyVol \in Nat /\ market.sellVol \in Nat
         /\ W \in Nat /\ TotalSupply \in Nat /\ DailyLimit \in Nat /\ MaxVolume \in Nat
         /\ TotalSupply + DailyLimit < W /\ MaxVolume + 62 < W
         /\ GenCirculating \in Nat
BY ConstantsAssumption DEF MarketCore, MarketTypeOK, SupplyCap, Word

LEMMA NatInWord ==
  ASSUME NEW x \in Nat, x < W
  PROVE  x \in Word
BY ConstantsAssumption DEF Word

(* A mint that passes its two checks does not wrap Circulating. *)
LEMMA MintEffect ==
  ASSUME MarketCore, NEW a \in Addr, NEW n \in Word, MintToWallet(a, n)
  PROVE  /\ circ' = circ + n
         /\ circ' \in Word
         /\ circ' <= TotalSupply
         /\ IsStore(wallet', Addr, Word)
<1>1. n \in Nat
  BY ConstantsAssumption DEF Word
<1>2. circ + n < W
  BY <1>1, MarketNumbers DEF MintToWallet
<1>3. circ' = circ + n /\ circ' <= TotalSupply
  BY <1>1, <1>2, MarketNumbers DEF MintToWallet, WithinSupply, Issue, Add
<1>4. circ' \in Word
  BY <1>1, <1>2, <1>3, MarketNumbers, NatInWord
<1>5. Read(wallet, a) \in Word
  BY ReadInWord DEF MarketCore, MarketTypeOK
<1>6. Add(Read(wallet, a), n) \in Word
  BY <1>5, AddInWord
<1>7. IsStore(wallet', Addr, Word)
  BY <1>6, WriteInStore DEF MintToWallet, Credit, MarketCore, MarketTypeOK
<1> QED
  BY <1>3, <1>4, <1>7

LEMMA BuyKeepsMarket ==
  ASSUME MarketCore, NEW a \in Addr, NEW n \in Amounts, BuyMallcoin(a, n)
  PROVE  MarketCore' /\ (CirculatingCoversVolumes => CirculatingCoversVolumes')
<1>1. n \in Word /\ n # 0 /\ n \in Nat
  BY ConstantsAssumption DEF BuyMallcoin, Word
<1>2. circ' = circ + n /\ circ' \in Word /\ circ' <= TotalSupply
      /\ IsStore(wallet', Addr, Word)
  BY <1>1, MintEffect DEF BuyMallcoin
<1> DEFINE step == PriceStep(n)
<1>3. step \in Nat /\ 1 <= step /\ step <= n
  BY <1>1, StepBounds
<1>4. IsStore(kes', Addr, Word)
  <2>1. kes[a] \in Word /\ Mul(n, market.buy) \in Word /\ kes[a] >= Mul(n, market.buy)
    BY <1>1, MulInWord DEF BuyMallcoin, Covers, IsStore, MarketCore, MarketTypeOK
  <2>2. kes[a] - Mul(n, market.buy) \in Word
    BY <2>1, ConstantsAssumption DEF Word
  <2> QED
    BY <2>2, WriteInStore DEF BuyMallcoin, MarketCore, MarketTypeOK
<1>5. /\ market' = [buy |-> Add(market.buy, step), sell |-> Add(market.sell, step),
                    buyVol |-> Add(market.buyVol, n), sellVol |-> market.sellVol]
      /\ market.buyVol + n <= MaxVolume
      /\ seq' = seq + 2 /\ bank' = bank /\ height' = height
  BY DEF BuyMallcoin
<1> HIDE DEF step
<1>6. /\ market.sell <= market.buy
      /\ market.buy <= market.sell + 4
      /\ 1 <= market.sell
      /\ market.buy <= market.buyVol + 62
      /\ market.sellVol <= MaxVolume
  BY DEF MarketCore, PricesOrdered
<1>7. /\ market.buyVol + n < W
      /\ market.buy + step < W
      /\ market.sell + step < W
  BY <1>1, <1>3, <1>5, <1>6, MarketNumbers
<1>8. /\ market'.buyVol = market.buyVol + n
      /\ market'.buy = market.buy + step
      /\ market'.sell = market.sell + step
      /\ market'.sellVol = market.sellVol
  BY <1>5, <1>7 DEF Add
<1>9. market' \in [buy : Word, sell : Word, buyVol : Word, sellVol : Word]
  <2>1. /\ Add(market.buy, step) \in Word /\ Add(market.sell, step) \in Word
        /\ Add(market.buyVol, n) \in Word /\ market.sellVol \in Word
    BY <1>1, <1>3, <1>5, <1>7, <1>8, MarketNumbers, NatInWord
       DEF MarketCore, MarketTypeOK, Add
  <2> QED
    BY <1>5, <2>1
<1>10. MarketTypeOK'
  BY <1>2, <1>4, <1>5, <1>9 DEF MarketTypeOK, MarketCore
<1>11. SupplyCap'
  BY <1>2 DEF SupplyCap
<1>12. PricesOrdered' /\ market'.buy <= market'.buyVol + 62
  BY <1>1, <1>3, <1>6, <1>8, MarketNumbers DEF PricesOrdered
<1>13. /\ CirculatingCoversVolumes => CirculatingCoversVolumes'
       /\ market'.buyVol <= MaxVolume /\ market'.sellVol <= MaxVolume
  BY <1>1, <1>2, <1>5, <1>6, <1>8, MarketNumbers DEF CirculatingCoversVolumes
<1> QED
  BY <1>10, <1>11, <1>12, <1>13 DEF MarketCore

(* A sale may leave Circulating as it is or lower it; both floors keep the *)
(* order of the prices and their distance.                                 *)
LEMMA SellKeepsMarket ==
  ASSUME MarketCore, NEW a \in Addr, NEW n \in Amounts, SellMallcoin(a, n)
  PROVE  MarketCore' /\ (CirculatingCoversVolumes => CirculatingCoversVolumes')
<1>1. n \in Word /\ n # 0 /\ n \in Nat
  BY ConstantsAssumption DEF SellMallcoin, Word
<1> DEFINE step == PriceStep(n)
<1>2. step \in Nat /\ 1 <= step
  BY <1>1, StepBounds
<1>3. IsStore(wallet', Addr, Word)
  <2>1. wallet[a] \in Word /\ wallet[a] >= n
    BY DEF SellMallcoin, Covers, IsStore, MarketCore, MarketTypeOK
  <2>2. wallet[a] - n \in Word
    BY <1>1, <2>1, ConstantsAssumption DEF Word
  <2> QED
    BY <2>2, WriteInStore DEF SellMallcoin, MarketCore, MarketTypeOK
<1>4. IsStore(kes', Addr, Word)
  <2>1. Read(kes, a) \in Word /\ Mul(n, market.sell) \in Word
    BY <1>1, ReadInWord, MulInWord DEF MarketCore, MarketTypeOK
  <2>2. Add(Read(kes, a), Mul(n, market.sell)) \in Word
    BY <2>1, AddInWord
  <2> QED
    BY <2>2, WriteInStore DEF SellMallcoin, Credit, MarketCore, MarketTypeOK
<1>5. circ' = circ \/ (circ' = circ - n /\ circ >= n)
  BY DEF SellMallcoin
<1>6. circ' \in Nat /\ circ' <= circ /\ circ' + n >= circ
  BY <1>1, <1>5, MarketNumbers
<1>7. /\ market' = [buy |-> Lower(market.buy, step), sell |-> Lower(market.sell, step),
                    buyVol |-> market.buyVol, sellVol |-> Add(market.sellVol, n)]
      /\ market.sellVol + n <= MaxVolume
      /\ seq' = seq + 2 /\ bank' = bank /\ height' = height
  BY DEF SellMallcoin
<1> HIDE DEF step
<1>8. /\ market.sell <= market.buy
      /\ market.buy <= market.sell + 4
      /\ 1 <= market.sell
      /\ market.buy <= market.buyVol + 62
      /\ market.buyVol <= MaxVolume
  BY DEF MarketCore, PricesOrdered
<1>9. /\ market'.buy = Lower(market.buy, step)
      /\ market'.sell = Lower(market.sell, step)
      /\ market'.buyVol = market.buyVol
      /\ market'.sellVol = market.sellVol + n
  BY <1>1, <1>7, MarketNumbers DEF Add
<1>10. /\ market'.buy \in Nat /\ market'.sell \in Nat
       /\ 1 <= market'.sell /\ market'.sell <= market'.buy
       /\ market'.buy <= market'.sell + 4
       /\ market'.buy <= market.buy
  BY <1>2, <1>8, <1>9, MarketNumbers DEF Lower
<1>11. market' \in [buy : Word, sell : Word, buyVol : Word, sellVol : Word]
  <2>1. market'.buy \in Word /\ market'.sell \in Word /\ market'.sellVol \in Word
        /\ market.buyVol \in Word
    BY <1>1, <1>7, <1>8, <1>9, <1>10, MarketNumbers, NatInWord
       DEF MarketCore, MarketTypeOK
  <2> QED
    BY <1>7, <1>9, <2>1
<1>12. MarketTypeOK'
  <2>1. circ' \in Word
    BY <1>6, MarketNumbers, NatInWord
  <2> QED
    BY <1>3, <1>4, <1>7, <1>11, <2>1 DEF MarketTypeOK, MarketCore
<1>13. SupplyCap' /\ PricesOrdered'
  BY <1>6, <1>10, MarketNumbers DEF SupplyCap, PricesOrdered
<1>14. /\ market'.buy <= market'.buyVol + 62
       /\ market'.buyVol <= MaxVolume /\ market'.sellVol <= MaxVolume
  BY <1>7, <1>8, <1>9, <1>10, MarketNumbers
<1>15. CirculatingCoversVolumes => CirculatingCoversVolumes'
  BY <1>1, <1>6, <1>8, <1>9, MarketNumbers DEF CirculatingCoversVolumes
<1> QED
  BY <1>12, <1>13, <1>14, <1>15 DEF MarketCore

LEMMA MintToUserKeepsMarket ==
  ASSUME MarketCore, NEW a \in Addr, NEW n \in Amounts, MintToUser(a, n)
  PROVE  MarketCore' /\ (CirculatingCoversVolumes => CirculatingCoversVolumes')
<1>1. n \in Word /\ n \in Nat
  BY ConstantsAssumption DEF Word
<1>2. circ' = circ + n /\ circ' \in Word /\ circ' <= TotalSupply
      /\ IsStore(wallet', Addr, Word)
  BY <1>1, MintEffect DEF MintToUser
<1>3. kes' = kes /\ market' = market /\ seq' = seq + 1 /\ bank' = bank
      /\ height' = height
  BY DEF MintToUser
<1>4. MarketTypeOK'
  BY <1>2, <1>3 DEF MarketTypeOK, MarketCore
<1>5. CirculatingCoversVolumes => CirculatingCoversVolumes'
  BY <1>1, <1>2, <1>3, MarketNumbers DEF CirculatingCoversVolumes
<1> QED
  BY <1>2, <1>3, <1>4, <1>5 DEF MarketCore, SupplyCap, PricesOrdered

(* The bank, the rates and the height are apart from the market. *)
LEMMA OthersKeepMarket ==
  ASSUME MarketCore,
         \/ \E a \in Addr, b \in Addr, n \in Amounts : TransferMallcoin(a, b, n)
         \/ \E b \in Addr, n \in Amounts : MintMallcoin(b, n)
         \/ \E c \in Currency, r \in QuotedRates : SetCurrencyRate(c, r)
         \/ BeginBlock
         \/ UNCHANGED vars
  PROVE  MarketCore' /\ (CirculatingCoversVolumes => CirculatingCoversVolumes')
<1>1. wallet' = wallet /\ kes' = kes /\ circ' = circ /\ market' = market
  BY DEF TransferMallcoin, MintMallcoin, SetCurrencyRate, BeginBlock, vars
<1>2. seq' \in Nat /\ height' \in Nat
  BY DEF TransferMallcoin, MintMallcoin, SetCurrencyRate, BeginBlock, vars,
         MarketCore, MarketTypeOK
<1>3. Amounts \subseteq Nat
  BY ConstantsAssumption DEF Word
<1>4. bank' \in [Addr -> Nat]
  <2>1. ASSUME NEW a \in Addr, NEW b \in Addr, NEW n \in Amounts,
               TransferMallcoin(a, b, n)
        PROVE  bank' \in [Addr -> Nat]
    BY <1>3, <2>1 DEF TransferMallcoin, MarketCore, MarketTypeOK
  <2>2. ASSUME NEW b \in Addr, NEW n \in Amounts, MintMallcoin(b, n)
        PROVE  bank' \in [Addr -> Nat]
    BY <1>3, <2>2 DEF MintMallcoin, MarketCore, MarketTypeOK
  <2>3. ASSUME \/ \E c \in Currency, r \in QuotedRates : SetCurrencyRate(c, r)
               \/ BeginBlock
               \/ UNCHANGED vars
        PROVE  bank' \in [Addr -> Nat]
    BY <2>3 DEF SetCurrencyRate, BeginBlock, vars, MarketCore, MarketTypeOK
  <2> QED
    BY <2>1, <2>2, <2>3
<1> QED
  BY <1>1, <1>2, <1>4 DEF MarketCore, MarketTypeOK, SupplyCap, PricesOrdered,
     CirculatingCoversVolumes

LEMMA MarketStep ==
  ASSUME MarketCore, [Next]_vars
  PROVE  MarketCore' /\ (CirculatingCoversVolumes => CirculatingCoversVolumes')
<1>1. ASSUME NEW a \in Addr, NEW n \in Amounts, BuyMallcoin(a, n)
      PROVE  MarketCore' /\ (CirculatingCoversVolumes => CirculatingCoversVolumes')
  BY <1>1, BuyKeepsMarket
<1>2. ASSUME NEW a \in Addr, NEW n \in Amounts, SellMallcoin(a, n)
      PROVE  MarketCore' /\ (CirculatingCoversVolumes => CirculatingCoversVolumes')
  BY <1>2, SellKeepsMarket
<1>3. ASSUME NEW a \in Addr, NEW n \in Amounts, MintToUser(a, n)
      PROVE  MarketCore' /\ (CirculatingCoversVolumes => CirculatingCoversVolumes')
  BY <1>3, MintToUserKeepsMarket
<1> QED
  BY <1>1, <1>2, <1>3, OthersKeepMarket DEF Next

(* The ledger's types, supply, prices and volumes hold together in every    *)
(* reachable state, whatever order the messages come in.                    *)
THEOREM MarketInvariant == Spec => []MarketInv
<1>1. MarketInv /\ [Next]_vars => MarketInv'
  BY MarketStep DEF MarketInv
<1> QED
  BY <1>1, MarketInit, PTL DEF Spec

(* The market's three invariants, as the runs state them. *)
(* Neither a purchase nor a conversion takes circulation over the supply.   *)
THEOREM SupplyNeverExceeded == Spec => []SupplyCap
BY MarketInvariant, PTL DEF MarketInv, MarketCore

(* No order of purchases and sales, of any size, crosses the two prices or  *)
(* takes one below its floor.                                               *)
THEOREM PricesStayOrdered == Spec => []PricesOrdered
BY MarketInvariant, PTL DEF MarketInv, MarketCore

(* Circulating never understates what the market has issued.                *)
THEOREM CirculatingCovers == Spec => []CirculatingCoversVolumes
BY MarketInvariant, PTL DEF MarketInv, MarketCore

-----------------------------------------------------------------------------
(* The log.  The numbers used so far are exactly those below seq. *)
LogInv == seq \in Nat /\ LogNumbersDense

LEMMA WriteDomain ==
  ASSUME NEW f, NEW k, NEW v
  PROVE  DOMAIN Write(f, k, v) = DOMAIN f \cup {k}
BY DEF Write

LEMMA LogStep ==
  ASSUME LogInv, [Next]_vars
  PROVE  LogInv'
<1> USE DEF LogInv, LogNumbersDense
<1>1. ASSUME NEW a \in Addr, NEW n \in Amounts, BuyMallcoin(a, n)
      PROVE  LogInv'
  <2>1. /\ DOMAIN txs' = DOMAIN txs \cup {seq}
        /\ DOMAIN trades' = DOMAIN trades \cup {seq + 1}
        /\ seq' = seq + 2
    BY <1>1, WriteDomain DEF BuyMallcoin, MintRecord
  <2> QED
    BY <2>1
<1>2. ASSUME NEW a \in Addr, NEW n \in Amounts, SellMallcoin(a, n)
      PROVE  LogInv'
  <2>1. /\ DOMAIN trades' = DOMAIN trades \cup {seq}
        /\ DOMAIN txs' = DOMAIN txs \cup {seq + 1}
        /\ seq' = seq + 2
    BY <1>2, WriteDomain DEF SellMallcoin
  <2> QED
    BY <2>1
<1>3. ASSUME NEW a \in Addr, NEW b \in Addr, NEW n \in Amounts,
             MintToUser(a, n) \/ TransferMallcoin(a, b, n)
      PROVE  LogInv'
  <2>1. /\ DOMAIN txs' = DOMAIN txs \cup {seq}
        /\ trades' = trades
        /\ seq' = seq + 1
    <3>1. CASE MintToUser(a, n)
      BY <3>1, WriteDomain DEF MintToUser, MintRecord
    <3>2. CASE TransferMallcoin(a, b, n)
      BY <3>2, WriteDomain DEF TransferMallcoin
    <3> QED
      BY <1>3, <3>1, <3>2
  <2> QED
    BY <2>1
<1>4. ASSUME \/ \E b \in Addr, n \in Amounts : MintMallcoin(b, n)
             \/ \E c \in Currency, r \in QuotedRates : SetCurrencyRate(c, r)
             \/ BeginBlock
             \/ UNCHANGED vars
      PROVE  LogInv'
  <2>1. txs' = txs /\ trades' = trades /\ seq' = seq
    BY <1>4 DEF MintMallcoin, SetCurrencyRate, BeginBlock, vars
  <2> QED
    BY <2>1
<1> QED
  BY <1>1, <1>2, <1>3, <1>4 DEF Next

LEMMA LogInvariant == Spec => []LogInv
<1>1. Init => LogInv
  BY DEF Init, LogInv, LogNumbersDense
<1> QED
  BY <1>1, LogStep, PTL DEF Spec

(* No record of the two logs is overwritten and no number is skipped.      *)
THEOREM LogNumbering == Spec => []LogNumbersDense
<1>1. LogInv => LogNumbersDense
  BY DEF LogInv
<1> QED
  BY LogInvariant, <1>1, PTL

(* Every store of the ledger but the rates keeps its type: no balance,     *)
(* price or volume leaves the uint64 values.                               *)
THEOREM LedgerTyped == Spec => []LedgerTypeOK
<1>1. MarketInv /\ LogInv => LedgerTypeOK
  BY DEF MarketInv, MarketCore, MarketTypeOK, LogInv, LogNumbersDense, LedgerTypeOK
<1> QED
  BY MarketInvariant, LogInvariant, <1>1, PTL

-----------------------------------------------------------------------------
(* Refinement of the market maker on unbounded integers. *)
LEMMA BuyIsPurchase ==
  ASSUME MarketInv, NEW a \in Addr, NEW n \in Amounts, BuyMallcoin(a, n)
  PROVE  Maker!Purchase(n)
<1>1. n \in Word /\ n # 0 /\ n \in Nat
  BY ConstantsAssumption DEF BuyMallcoin, Word
<1>2. circ' = circ + n /\ circ + n <= TotalSupply /\ n <= DailyLimit
  BY <1>1, MintEffect DEF BuyMallcoin, MintToWallet, MarketInv
<1> DEFINE step == PriceStep(n)
<1>3. step \in 1 .. n
  BY <1>1, StepBounds
<1>4. market'.buy = Add(market.buy, step) /\ market'.sell = Add(market.sell, step)
      /\ market.buyVol + n <= MaxVolume
  BY DEF BuyMallcoin
<1> HIDE DEF step
<1>5. market'.buy = market.buy + step /\ market'.sell = market.sell + step
  <2>1. market.buy <= market.buyVol + 62 /\ market.sell <= market.buy
    BY DEF MarketInv, MarketCore, PricesOrdered
  <2>2. market.buy + step < W /\ market.sell + step < W
    BY <1>1, <1>3, <1>4, <2>1, MarketNumbers DEF MarketInv
  <2> QED
    BY <1>4, <2>2 DEF Add
<1> QED
  BY <1>2, <1>3, <1>5 DEF Maker!Purchase, Maker!Issued

LEMMA SellIsSale ==
  ASSUME MarketInv, NEW a \in Addr, NEW n \in Amounts, SellMallcoin(a, n)
  PROVE  Maker!Sale(n)
<1>1. n \in Word /\ n # 0 /\ n \in Nat
  BY ConstantsAssumption DEF SellMallcoin, Word
<1> DEFINE step == PriceStep(n)
<1>2. step \in 1 .. n
  BY <1>1, StepBounds
<1>3. market'.buy = Lower(market.buy, step) /\ market'.sell = Lower(market.sell, step)
      /\ circ' = IF circ >= n THEN circ - n ELSE circ
  BY DEF SellMallcoin
<1> HIDE DEF step
<1>4. market'.buy = Maker!AtLeastOne(market.buy - step)
      /\ market'.sell = Maker!AtLeastOne(market.sell - step)
  BY <1>1, <1>2, <1>3, MarketNumbers DEF Lower, Maker!AtLeastOne, MarketInv
<1>5. circ' = IF n <= circ THEN circ - n ELSE circ
  BY <1>1, <1>3, MarketNumbers DEF MarketInv
<1> QED
  BY <1>2, <1>4, <1>5 DEF Maker!Sale

LEMMA MintIsGrant ==
  ASSUME MarketInv, NEW a \in Addr, NEW n \in Amounts, MintToUser(a, n)
  PROVE  Maker!Grant(n)
<1>1. n \in Word
  BY ConstantsAssumption DEF Word
<1>2. circ' = circ + n /\ circ' <= TotalSupply /\ n <= DailyLimit
  BY <1>1, MintEffect DEF MintToUser, MintToWallet, MarketInv
<1>3. market' = market
  BY DEF MintToUser
<1> QED
  BY <1>2, <1>3 DEF Maker!Grant, Maker!Issued

LEMMA MakerStep == MarketInv /\ [Next]_vars => [Maker!Next]_(Maker!vars)
<1> SUFFICES ASSUME MarketInv, [Next]_vars
             PROVE  [Maker!Next]_(Maker!vars)
  OBVIOUS
<1>1. CASE \E a \in Addr, n \in Amounts : BuyMallcoin(a, n)
  BY <1>1, BuyIsPurchase DEF Maker!Next
<1>2. CASE \E a \in Addr, n \in Amounts : SellMallcoin(a, n)
  BY <1>2, SellIsSale DEF Maker!Next
<1>3. CASE \E a \in Addr, n \in Amounts : MintToUser(a, n)
  BY <1>3, MintIsGrant DEF Maker!Next
<1>4. CASE \/ \E a \in Addr, b \in Addr, n \in Amounts : TransferMallcoin(a, b, n)
           \/ \E b \in Addr, n \in Amounts : MintMallcoin(b, n)
           \/ \E c \in Currency, r \in QuotedRates : SetCurrencyRate(c, r)
           \/ BeginBlock
           \/ UNCHANGED vars
  <2>1. circ' = circ /\ market' = market
    BY <1>4 DEF TransferMallcoin, MintMallcoin, SetCurrencyRate, BeginBlock, vars
  <2> QED
    BY <2>1 DEF Maker!vars
<1> QED
  BY <1>1, <1>2, <1>3, <1>4 DEF Next

(* The ledger implements the market maker on unbounded integers, for every *)
(* width of its integers that holds the supply and the volumes.            *)
THEOREM LedgerImplementsMaker == Spec => ImplementsMaker
<1>1. Init => Maker!Init
  BY DEF Init, Maker!Init
<1> QED
  BY <1>1, MakerStep, MarketInvariant, PTL DEF Spec, ImplementsMaker, Maker!Spec

-----------------------------------------------------------------------------
(* The logs as accounts.  What a record adds to the sums over its log: the *)
(* sums of the records that are there stay, and the new one counts if it   *)
(* is of the kind.                                                         *)
Grows(f, g, S, T, k) ==
  /\ IsFiniteSet(S) /\ k \notin S
  /\ T = S \/ T = S \cup {k}
  /\ \A x \in S : f[x] \in Int /\ g[x] = f[x]
  /\ g[k] \in Int

LEMMA SumGrows ==
  ASSUME NEW f, NEW g, NEW S, NEW T, NEW k, Grows(f, g, S, T, k)
  PROVE  /\ SumFunctionOnSet(f, S) \in Int
         /\ SumFunctionOnSet(g, T)
              = SumFunctionOnSet(f, S) + (IF k \in T THEN g[k] ELSE 0)
<1>1. SumFunctionOnSet(f, S) \in Int
  BY SumClosed DEF Grows
<1>2. SumFunctionOnSet(g, S) = SumFunctionOnSet(f, S)
  BY SumSame DEF Grows
<1>3. CASE T = S
  BY <1>1, <1>2, <1>3 DEF Grows
<1>4. CASE T = S \cup {k}
  <2>1. SumFunctionOnSet(g, S \cup {k}) = SumFunctionOnSet(g, S) + g[k]
    <3>1. IsFiniteSet(S) /\ k \notin S /\ \A x \in S \cup {k} : g[x] \in Int
      BY DEF Grows
    <3> QED
      BY <3>1, SumAdd
  <2> QED
    BY <1>1, <1>2, <1>4, <2>1
<1> QED
  BY <1>1, <1>3, <1>4 DEF Grows

(* The records carry uint64 amounts; what TradesSince(0) asks of a height  *)
(* holds of every trade.                                                   *)
RecordsOK ==
  /\ \A n \in DOMAIN txs : txs[n].amount \in Word
  /\ \A n \in DOMAIN trades : /\ trades[n].mlcn \in Word /\ trades[n].kes \in Word
                              /\ trades[n].height \in Nat

AccountsOK == MarketInv /\ LogInv /\ RecordsOK

LEMMA LogsFinite ==
  ASSUME LogInv
  PROVE  /\ \A S : S \subseteq DOMAIN txs => IsFiniteSet(S)
         /\ \A S : S \subseteq DOMAIN trades => IsFiniteSet(S)
<1>1. IsFiniteSet(0 .. (seq - 1))
  BY FS_Interval DEF LogInv
<1>2. DOMAIN txs \subseteq 0 .. (seq - 1) /\ DOMAIN trades \subseteq 0 .. (seq - 1)
  BY DEF LogInv, LogNumbersDense
<1> QED
  BY <1>1, <1>2, FS_Subset

(* The transaction log: t is written under a number it does not have. *)
Logs(k, t) == k \notin DOMAIN txs /\ txs' = Write(txs, k, t) /\ t.amount \in Word

LEMMA TransactionLogged ==
  ASSUME LogInv, RecordsOK, NEW k, NEW t, Logs(k, t), NEW a
  PROVE  /\ LoggedIn(a) \in Int /\ LoggedOut(a) \in Int
         /\ LoggedIn(a)' = LoggedIn(a)
              + (IF t.to = a /\ t.type = "mint" THEN t.amount ELSE 0)
         /\ LoggedOut(a)' = LoggedOut(a)
              + (IF t.from = a /\ t.type = "sell" THEN t.amount ELSE 0)
<1>1. /\ DOMAIN txs' = DOMAIN txs \cup {k} /\ txs'[k] = t
      /\ \A x \in DOMAIN txs : txs'[x] = txs[x]
      /\ k \notin DOMAIN txs /\ t.amount \in Int
      /\ \A x \in DOMAIN txs : txs[x].amount \in Int
  BY ConstantsAssumption DEF Logs, Write, RecordsOK, Word
<1> DEFINE In == {n \in DOMAIN txs : txs[n].to = a /\ txs[n].type = "mint"}
           Out == {n \in DOMAIN txs : txs[n].from = a /\ txs[n].type = "sell"}
<1>2. IsFiniteSet(In) /\ IsFiniteSet(Out)
  BY LogsFinite
<1>3. Grows(Moved, Moved', In, In', k)
  BY <1>1, <1>2 DEF Grows, Moved
<1>4. Grows(Moved, Moved', Out, Out', k)
  BY <1>1, <1>2 DEF Grows, Moved
<1>5. Moved'[k] = t.amount
  BY <1>1 DEF Moved
<1>6. /\ k \in In' <=> t.to = a /\ t.type = "mint"
      /\ k \in Out' <=> t.from = a /\ t.type = "sell"
  BY <1>1
<1>7. /\ LoggedIn(a) = SumFunctionOnSet(Moved, In)
      /\ LoggedIn(a)' = SumFunctionOnSet(Moved', In')
      /\ LoggedOut(a) = SumFunctionOnSet(Moved, Out)
      /\ LoggedOut(a)' = SumFunctionOnSet(Moved', Out')
  BY DEF LoggedIn, LoggedOut
<1> HIDE DEF In, Out
<1> QED
  BY <1>3, <1>4, <1>5, <1>6, <1>7, SumGrows

(* The trade log. *)
Trades(k, t) ==
  /\ k \notin DOMAIN trades /\ trades' = Write(trades, k, t)
  /\ t.mlcn \in Word /\ t.kes \in Word /\ t.height \in Nat

LEMMA TradeLogged ==
  ASSUME LogInv, RecordsOK, NEW k, NEW t, Trades(k, t), NEW a, NEW type
  PROVE  /\ Volume(type, 0) \in Int /\ Earned(a, type) \in Int /\ BoughtBy(a) \in Int
         /\ Volume(type, 0)' = Volume(type, 0) + (IF t.type = type THEN t.mlcn ELSE 0)
         /\ Earned(a, type)' = Earned(a, type)
              + (IF t.trader = a /\ t.type = type THEN t.kes ELSE 0)
         /\ BoughtBy(a)' = BoughtBy(a)
              + (IF t.trader = a /\ t.type = "buy" THEN t.mlcn ELSE 0)
<1>1. /\ DOMAIN trades' = DOMAIN trades \cup {k} /\ trades'[k] = t
      /\ \A x \in DOMAIN trades : trades'[x] = trades[x]
      /\ k \notin DOMAIN trades /\ t.mlcn \in Int /\ t.kes \in Int /\ t.height \in Nat
      /\ \A x \in DOMAIN trades : /\ trades[x].mlcn \in Int /\ trades[x].kes \in Int
                                  /\ trades[x].height \in Nat
  BY ConstantsAssumption DEF Trades, Write, RecordsOK, Word
<1> DEFINE All == {n \in TradesSince(0) : trades[n].type = type}
           Own == {n \in DOMAIN trades : trades[n].trader = a /\ trades[n].type = type}
           Buys == {n \in DOMAIN trades : trades[n].trader = a /\ trades[n].type = "buy"}
<1>2. IsFiniteSet(All) /\ IsFiniteSet(Own) /\ IsFiniteSet(Buys)
  BY LogsFinite DEF TradesSince
<1>3. TradesSince(0) = DOMAIN trades /\ TradesSince(0)' = DOMAIN trades'
  <2>1. ~(0 > Window)
    BY ConstantsAssumption
  <2>2. /\ \A x \in DOMAIN trades : trades[x].height >= 0
        /\ \A x \in DOMAIN trades' : trades'[x].height >= 0
    BY <1>1
  <2>3. TradesSince(0) = {n \in DOMAIN trades : trades[n].height >= 0}
    BY <2>1 DEF TradesSince
  <2>4. TradesSince(0)' = {n \in DOMAIN trades' : trades'[n].height >= 0}
    BY <2>1 DEF TradesSince
  <2> QED
    BY <2>2, <2>3, <2>4
<1>4. Grows(Coins, Coins', All, All', k) /\ Grows(Coins, Coins', Buys, Buys', k)
  BY <1>1, <1>2, <1>3 DEF Grows, Coins
<1>5. Grows(Paid, Paid', Own, Own', k)
  BY <1>1, <1>2 DEF Grows, Paid
<1>6. Coins'[k] = t.mlcn /\ Paid'[k] = t.kes
  BY <1>1 DEF Coins, Paid
<1>7. /\ k \in All' <=> t.type = type
      /\ k \in Own' <=> t.trader = a /\ t.type = type
      /\ k \in Buys' <=> t.trader = a /\ t.type = "buy"
  BY <1>1, <1>3
<1>8. /\ Volume(type, 0) = SumFunctionOnSet(Coins, All)
      /\ Volume(type, 0)' = SumFunctionOnSet(Coins', All')
      /\ Earned(a, type) = SumFunctionOnSet(Paid, Own)
      /\ Earned(a, type)' = SumFunctionOnSet(Paid', Own')
      /\ BoughtBy(a) = SumFunctionOnSet(Coins, Buys)
      /\ BoughtBy(a)' = SumFunctionOnSet(Coins', Buys')
  BY DEF Volume, Earned, BoughtBy
<1> HIDE DEF All, Own, Buys
<1> QED
  BY <1>4, <1>5, <1>6, <1>7, <1>8, SumGrows

(* What each message writes into the two logs. *)
LEMMA BuyLogged ==
  ASSUME AccountsOK, NEW a \in Addr, NEW n \in Amounts, BuyMallcoin(a, n)
  PROVE  /\ RecordsOK'
         /\ Logs(seq, Transaction(System, a, n, "mint"))
         /\ Trades(seq + 1, Trade(a, "buy", n, Mul(n, market.buy), market'.buy))
<1>1. n \in Word /\ Mul(n, market.buy) \in Word /\ height \in Nat
  BY ConstantsAssumption, MulInWord DEF AccountsOK, MarketInv, MarketCore, MarketTypeOK
<1>2. Logs(seq, Transaction(System, a, n, "mint"))
  BY <1>1 DEF BuyMallcoin, MintRecord, Logs, Transaction, AccountsOK, LogInv, LogNumbersDense
<1>3. Trades(seq + 1, Trade(a, "buy", n, Mul(n, market.buy), market'.buy))
  BY <1>1 DEF BuyMallcoin, Trades, Trade, AccountsOK, LogInv, LogNumbersDense
<1>4. RecordsOK'
  BY <1>2, <1>3 DEF Logs, Trades, AccountsOK, RecordsOK, Write
<1> QED
  BY <1>2, <1>3, <1>4

LEMMA SellLogged ==
  ASSUME AccountsOK, NEW a \in Addr, NEW n \in Amounts, SellMallcoin(a, n)
  PROVE  /\ RecordsOK'
         /\ Logs(seq + 1, Transaction(a, System, n, "sell"))
         /\ Trades(seq, Trade(a, "sell", n, Mul(n, market.sell), market'.sell))
<1>1. n \in Word /\ Mul(n, market.sell) \in Word /\ height \in Nat
  BY ConstantsAssumption, MulInWord DEF AccountsOK, MarketInv, MarketCore, MarketTypeOK
<1>2. Logs(seq + 1, Transaction(a, System, n, "sell"))
  BY <1>1 DEF SellMallcoin, Logs, Transaction, AccountsOK, LogInv, LogNumbersDense
<1>3. Trades(seq, Trade(a, "sell", n, Mul(n, market.sell), market'.sell))
  BY <1>1 DEF SellMallcoin, Trades, Trade, AccountsOK, LogInv, LogNumbersDense
<1>4. RecordsOK'
  BY <1>2, <1>3 DEF Logs, Trades, AccountsOK, RecordsOK, Write
<1> QED
  BY <1>2, <1>3, <1>4

LEMMA MintLogged ==
  ASSUME AccountsOK, NEW a \in Addr, NEW n \in Amounts, MintToUser(a, n)
  PROVE  RecordsOK' /\ Logs(seq, Transaction(System, a, n, "mint")) /\ trades' = trades
<1>1. n \in Word
  BY ConstantsAssumption
<1>2. Logs(seq, Transaction(System, a, n, "mint")) /\ trades' = trades
  BY <1>1 DEF MintToUser, MintRecord, Logs, Transaction, AccountsOK, LogInv, LogNumbersDense
<1> QED
  BY <1>2 DEF Logs, AccountsOK, RecordsOK, Write

LEMMA TransferLogged ==
  ASSUME AccountsOK, NEW a \in Addr, NEW b \in Addr, NEW n \in Amounts,
         TransferMallcoin(a, b, n)
  PROVE  RecordsOK' /\ Logs(seq, Transaction(a, b, n, "transfer")) /\ trades' = trades
<1>1. n \in Word
  BY ConstantsAssumption
<1>2. Logs(seq, Transaction(a, b, n, "transfer")) /\ trades' = trades
  BY <1>1 DEF TransferMallcoin, Logs, Transaction, AccountsOK, LogInv, LogNumbersDense
<1> QED
  BY <1>2 DEF Logs, AccountsOK, RecordsOK, Write

(* What the messages add to the sums. *)
TradesStill == \A a, type : /\ Earned(a, type)' = Earned(a, type)
                            /\ Volume(type, 0)' = Volume(type, 0)
                            /\ BoughtBy(a)' = BoughtBy(a)
TxsStill == \A a : LoggedIn(a)' = LoggedIn(a) /\ LoggedOut(a)' = LoggedOut(a)

LEMMA StillSums ==
  /\ trades' = trades => TradesStill
  /\ txs' = txs => TxsStill
BY DEF TradesStill, TxsStill, Earned, Volume, BoughtBy, Coins, Paid, Moved, TradesSince,
       LoggedIn, LoggedOut

SumsTyped ==
  \A a, type : /\ LoggedIn(a) \in Int /\ LoggedOut(a) \in Int /\ BoughtBy(a) \in Int
               /\ Volume(type, 0) \in Int /\ Earned(a, type) \in Int

LEMMA SumsAreIntegers == LogInv /\ RecordsOK => SumsTyped
<1> SUFFICES ASSUME LogInv, RecordsOK, NEW a, NEW type
             PROVE  /\ LoggedIn(a) \in Int /\ LoggedOut(a) \in Int /\ BoughtBy(a) \in Int
                    /\ Volume(type, 0) \in Int /\ Earned(a, type) \in Int
  BY DEF SumsTyped
<1>1. /\ \A x \in DOMAIN txs : Moved[x] \in Int
      /\ \A x \in DOMAIN trades : Coins[x] \in Int /\ Paid[x] \in Int
  BY ConstantsAssumption DEF RecordsOK, Word, Moved, Coins, Paid
<1>2. LoggedIn(a) \in Int /\ LoggedOut(a) \in Int
  BY <1>1, LogsFinite, SumClosed DEF LoggedIn, LoggedOut
<1>3. BoughtBy(a) \in Int /\ Earned(a, type) \in Int
  BY <1>1, LogsFinite, SumClosed DEF BoughtBy, Earned
<1>4. Volume(type, 0) \in Int
  <2> DEFINE All == {n \in TradesSince(0) : trades[n].type = type}
  <2>1. All \subseteq DOMAIN trades
    BY DEF TradesSince
  <2> HIDE DEF All
  <2>2. SumFunctionOnSet(Coins, All) \in Int
    BY <1>1, <2>1, LogsFinite, SumClosed
  <2> QED
    BY <2>2 DEF Volume, All
<1> QED
  BY <1>2, <1>3, <1>4

LEMMA BuySums ==
  ASSUME AccountsOK, NEW a \in Addr, NEW n \in Amounts, BuyMallcoin(a, n), NEW b
  PROVE  /\ LoggedIn(b)' = LoggedIn(b) + (IF b = a THEN n ELSE 0)
         /\ LoggedOut(b)' = LoggedOut(b)
         /\ Earned(b, "buy")' = Earned(b, "buy") + (IF b = a THEN Mul(n, market.buy) ELSE 0)
         /\ Earned(b, "sell")' = Earned(b, "sell")
         /\ BoughtBy(b)' = BoughtBy(b) + (IF b = a THEN n ELSE 0)
         /\ Volume("buy", 0)' = Volume("buy", 0) + n
         /\ Volume("sell", 0)' = Volume("sell", 0)
<1> DEFINE t == Transaction(System, a, n, "mint")
           u == Trade(a, "buy", n, Mul(n, market.buy), market'.buy)
<1>1. LogInv /\ RecordsOK /\ SumsTyped /\ Logs(seq, t) /\ Trades(seq + 1, u)
  BY BuyLogged, SumsAreIntegers DEF AccountsOK
<1>2. /\ t.from = System /\ t.to = a /\ t.amount = n /\ t.type = "mint"
      /\ u.trader = a /\ u.type = "buy" /\ u.mlcn = n /\ u.kes = Mul(n, market.buy)
  BY DEF Transaction, Trade
<1> HIDE DEF t, u
<1>3. /\ LoggedIn(b)' = LoggedIn(b) + (IF b = a THEN n ELSE 0)
      /\ LoggedOut(b)' = LoggedOut(b) + 0
  BY <1>1, <1>2, TransactionLogged
<1>4. /\ Earned(b, "buy")' = Earned(b, "buy") + (IF b = a THEN Mul(n, market.buy) ELSE 0)
      /\ BoughtBy(b)' = BoughtBy(b) + (IF b = a THEN n ELSE 0)
      /\ Volume("buy", 0)' = Volume("buy", 0) + n
  BY <1>1, <1>2, TradeLogged
<1>5. Earned(b, "sell")' = Earned(b, "sell") + 0 /\ Volume("sell", 0)' = Volume("sell", 0) + 0
  BY <1>1, <1>2, TradeLogged
<1> QED
  BY <1>1, <1>3, <1>4, <1>5 DEF SumsTyped

LEMMA SellSums ==
  ASSUME AccountsOK, NEW a \in Addr, NEW n \in Amounts, SellMallcoin(a, n), NEW b
  PROVE  /\ LoggedIn(b)' = LoggedIn(b)
         /\ LoggedOut(b)' = LoggedOut(b) + (IF b = a THEN n ELSE 0)
         /\ Earned(b, "buy")' = Earned(b, "buy")
         /\ Earned(b, "sell")' = Earned(b, "sell") + (IF b = a THEN Mul(n, market.sell) ELSE 0)
         /\ BoughtBy(b)' = BoughtBy(b)
         /\ Volume("buy", 0)' = Volume("buy", 0)
         /\ Volume("sell", 0)' = Volume("sell", 0) + n
<1> DEFINE t == Transaction(a, System, n, "sell")
           u == Trade(a, "sell", n, Mul(n, market.sell), market'.sell)
<1>1. LogInv /\ RecordsOK /\ SumsTyped /\ Logs(seq + 1, t) /\ Trades(seq, u)
  BY SellLogged, SumsAreIntegers DEF AccountsOK
<1>2. /\ t.from = a /\ t.amount = n /\ t.type = "sell"
      /\ u.trader = a /\ u.type = "sell" /\ u.mlcn = n /\ u.kes = Mul(n, market.sell)
  BY DEF Transaction, Trade
<1> HIDE DEF t, u
<1>3. /\ LoggedIn(b)' = LoggedIn(b) + 0
      /\ LoggedOut(b)' = LoggedOut(b) + (IF b = a THEN n ELSE 0)
  BY <1>1, <1>2, TransactionLogged
<1>4. /\ Earned(b, "sell")' = Earned(b, "sell") + (IF b = a THEN Mul(n, market.sell) ELSE 0)
      /\ Volume("sell", 0)' = Volume("sell", 0) + n
  BY <1>1, <1>2, TradeLogged
<1>5. /\ Earned(b, "buy")' = Earned(b, "buy") + 0 /\ Volume("buy", 0)' = Volume("buy", 0) + 0
      /\ BoughtBy(b)' = BoughtBy(b) + 0
  BY <1>1, <1>2, TradeLogged
<1> QED
  BY <1>1, <1>3, <1>4, <1>5 DEF SumsTyped

LEMMA MintSums ==
  ASSUME AccountsOK, NEW a \in Addr, NEW n \in Amounts, MintToUser(a, n)
  PROVE  /\ \A b : /\ LoggedIn(b)' = LoggedIn(b) + (IF b = a THEN n ELSE 0)
                   /\ LoggedOut(b)' = LoggedOut(b)
         /\ TradesStill
<1> DEFINE t == Transaction(System, a, n, "mint")
<1>1. LogInv /\ RecordsOK /\ SumsTyped /\ Logs(seq, t) /\ TradesStill
  BY MintLogged, SumsAreIntegers, StillSums DEF AccountsOK
<1>2. t.to = a /\ t.amount = n /\ t.type = "mint"
  BY DEF Transaction
<1> HIDE DEF t
<1>3. ASSUME NEW b
      PROVE  /\ LoggedIn(b)' = LoggedIn(b) + (IF b = a THEN n ELSE 0)
             /\ LoggedOut(b)' = LoggedOut(b) + 0
  BY <1>1, <1>2, TransactionLogged
<1> QED
  BY <1>1, <1>3 DEF SumsTyped

(* A transfer moves bank coins; its record counts in no sum. *)
LEMMA TransferSums ==
  ASSUME AccountsOK, NEW a \in Addr, NEW b \in Addr, NEW n \in Amounts,
         TransferMallcoin(a, b, n)
  PROVE  TxsStill /\ TradesStill
<1> DEFINE t == Transaction(a, b, n, "transfer")
<1>1. LogInv /\ RecordsOK /\ SumsTyped /\ Logs(seq, t) /\ TradesStill
  BY TransferLogged, SumsAreIntegers, StillSums DEF AccountsOK
<1>2. t.type = "transfer"
  BY DEF Transaction
<1> HIDE DEF t
<1>3. ASSUME NEW c
      PROVE  LoggedIn(c)' = LoggedIn(c) + 0 /\ LoggedOut(c)' = LoggedOut(c) + 0
  BY <1>1, <1>2, TransactionLogged
<1> QED
  BY <1>1, <1>3 DEF SumsTyped, TxsStill

(* A stored balance is congruent to its history, which may be beyond W. *)
WalletHistory(a) == Read(GenWallet, a) + LoggedIn(a) - LoggedOut(a)
KesHistory(a) == Read(GenKes, a) + Earned(a, "sell") - Earned(a, "buy")
BalancesExplained ==
  \A a \in Addr : /\ Congruent(Read(wallet, a), WalletHistory(a), W)
                  /\ Congruent(Read(kes, a), KesHistory(a), W)
AccountInv == RecordsOK /\ BalancesExplained /\ VolumesMatchTrades

LEMMA WordSize == W \in Nat /\ W > 0 /\ \A x \in Word : x \in Int
BY ConstantsAssumption DEF Word

LEMMA ReadWritten ==
  ASSUME NEW f, NEW k, NEW v, NEW x
  PROVE  Read(Write(f, k, v), x) = IF x = k THEN v ELSE Read(f, x)
BY DEF Read, Write

LEMMA AddCongruent ==
  ASSUME NEW x \in Word, NEW n \in Word
  PROVE  Congruent(Add(x, n), x + n, W)
<1>1. W \in Nat /\ x \in Int /\ n \in Int
  BY WordSize
<1>2. CASE x + n < W
  <2>1. Add(x, n) = x + n /\ x + n \in Int
    BY <1>1, <1>2 DEF Add
  <2> QED
    BY <1>1, <2>1, CongruentSame
<1>3. CASE ~(x + n < W)
  <2>1. Add(x, n) - (x + n) = (0 - 1) * W
    BY <1>1, <1>3 DEF Add
  <2> QED
    BY <2>1 DEF Congruent
<1> QED
  BY <1>2, <1>3

LEMMA BalancesTyped ==
  ASSUME AccountsOK, NEW a
  PROVE  /\ Read(wallet, a) \in Word /\ Read(kes, a) \in Word
         /\ WalletHistory(a) \in Int /\ KesHistory(a) \in Int
         /\ Read(wallet, a) \in Int /\ Read(kes, a) \in Int
<1>1. /\ Read(wallet, a) \in Word /\ Read(kes, a) \in Word
      /\ Read(GenWallet, a) \in Word /\ Read(GenKes, a) \in Word
  BY ConstantsAssumption, ReadInWord DEF AccountsOK, MarketInv, MarketCore, MarketTypeOK
<1>2. SumsTyped
  BY SumsAreIntegers DEF AccountsOK
<1> QED
  BY <1>1, <1>2, WordSize DEF SumsTyped, WalletHistory, KesHistory

(* A balance and its history that move by the same amount. *)
Follows(x, y, xx, yy, d) ==
  /\ x \in Int /\ y \in Int /\ xx \in Int /\ d \in Int
  /\ Congruent(x, y, W) /\ Congruent(xx, x + d, W) /\ yy = y + d

LEMMA FollowsKeeps ==
  ASSUME NEW x, NEW y, NEW xx, NEW yy, NEW d, Follows(x, y, xx, yy, d)
  PROVE  Congruent(xx, yy, W)
BY CongruentMoves, WordSize DEF Follows

LEMMA BuyKeepsAccounts ==
  ASSUME AccountsOK, BalancesExplained, VolumesMatchTrades,
         NEW a \in Addr, NEW n \in Amounts, BuyMallcoin(a, n)
  PROVE  BalancesExplained' /\ VolumesMatchTrades'
<1> DEFINE paid == Mul(n, market.buy)
<1>1. n \in Word /\ paid \in Word /\ n \in Int /\ paid \in Int
  BY ConstantsAssumption, MulInWord, WordSize DEF AccountsOK, MarketInv, MarketCore, MarketTypeOK
<1> HIDE DEF paid
<1>2. /\ \A b : Read(wallet', b) = IF b = a THEN Add(Read(wallet, a), n) ELSE Read(wallet, b)
      /\ \A b : Read(kes', b) = IF b = a THEN Read(kes, a) - paid ELSE Read(kes, b)
  BY ReadWritten DEF BuyMallcoin, MintToWallet, Credit, Covers, Read, paid
<1>3. ASSUME NEW b \in Addr
      PROVE  /\ Congruent(Read(wallet', b), WalletHistory(b)', W)
             /\ Congruent(Read(kes', b), KesHistory(b)', W)
  <2>1. /\ Congruent(Read(wallet, b), WalletHistory(b), W)
        /\ Congruent(Read(kes, b), KesHistory(b), W)
    BY DEF BalancesExplained
  <2>2. SumsTyped /\ Read(GenWallet, b) \in Int /\ Read(GenKes, b) \in Int
    BY SumsAreIntegers, ConstantsAssumption, ReadInWord, WordSize DEF AccountsOK
  <2>3. /\ WalletHistory(b)' = WalletHistory(b) + (IF b = a THEN n ELSE 0)
        /\ KesHistory(b)' = KesHistory(b) + (IF b = a THEN 0 - paid ELSE 0)
    BY <1>1, <2>2, BuySums DEF WalletHistory, KesHistory, SumsTyped, paid
  <2>4. /\ Read(wallet, b) \in Word /\ WalletHistory(b) \in Int /\ Read(wallet, b) \in Int
        /\ KesHistory(b) \in Int /\ Read(kes, b) \in Int
    BY BalancesTyped
  <2>5. CASE b = a
    <3>1. Read(wallet', b) = Add(Read(wallet, b), n) /\ Add(Read(wallet, b), n) \in Int
          /\ Congruent(Add(Read(wallet, b), n), Read(wallet, b) + n, W)
      BY <1>1, <1>2, <2>4, <2>5, AddCongruent, AddInWord, WordSize
    <3>2. Follows(Read(wallet, b), WalletHistory(b), Read(wallet', b), WalletHistory(b)', n)
      BY <1>1, <2>1, <2>3, <2>4, <2>5, <3>1 DEF Follows
    <3>3. Read(kes', b) = Read(kes, b) + (0 - paid) /\ Read(kes', b) \in Int
          /\ Read(kes, b) + (0 - paid) \in Int
      BY <1>1, <1>2, <2>4, <2>5
    <3>4. Congruent(Read(kes', b), Read(kes, b) + (0 - paid), W)
      BY <3>3, CongruentSame, WordSize
    <3>5. Follows(Read(kes, b), KesHistory(b), Read(kes', b), KesHistory(b)', 0 - paid)
      BY <1>1, <2>1, <2>3, <2>4, <2>5, <3>3, <3>4 DEF Follows
    <3> QED
      BY <3>2, <3>5, FollowsKeeps
  <2>6. CASE b # a
    BY <1>2, <2>1, <2>3, <2>4, <2>6
  <2> QED
    BY <2>5, <2>6
<1>4. VolumesMatchTrades'
  <2>1. /\ market'.buyVol = Add(market.buyVol, n) /\ market'.sellVol = market.sellVol
        /\ market.buyVol + n <= MaxVolume
    BY DEF BuyMallcoin
  <2>2. market'.buyVol = market.buyVol + n
    BY <1>1, <2>1, MarketNumbers DEF Add, AccountsOK, MarketInv
  <2> QED
    BY <2>1, <2>2, BuySums DEF VolumesMatchTrades
<1> QED
  BY <1>3, <1>4 DEF BalancesExplained

LEMMA SellKeepsAccounts ==
  ASSUME AccountsOK, BalancesExplained, VolumesMatchTrades,
         NEW a \in Addr, NEW n \in Amounts, SellMallcoin(a, n)
  PROVE  BalancesExplained' /\ VolumesMatchTrades'
<1> DEFINE earned == Mul(n, market.sell)
<1>1. n \in Word /\ earned \in Word /\ n \in Int /\ earned \in Int
  BY ConstantsAssumption, MulInWord, WordSize DEF AccountsOK, MarketInv, MarketCore, MarketTypeOK
<1> HIDE DEF earned
<1>2. /\ \A b : Read(wallet', b) = IF b = a THEN Read(wallet, a) - n ELSE Read(wallet, b)
      /\ \A b : Read(kes', b) = IF b = a THEN Add(Read(kes, a), earned) ELSE Read(kes, b)
  BY ReadWritten DEF SellMallcoin, Credit, Covers, Read, earned
<1>3. ASSUME NEW b \in Addr
      PROVE  /\ Congruent(Read(wallet', b), WalletHistory(b)', W)
             /\ Congruent(Read(kes', b), KesHistory(b)', W)
  <2>1. /\ Congruent(Read(wallet, b), WalletHistory(b), W)
        /\ Congruent(Read(kes, b), KesHistory(b), W)
    BY DEF BalancesExplained
  <2>2. SumsTyped /\ Read(GenWallet, b) \in Int /\ Read(GenKes, b) \in Int
    BY SumsAreIntegers, ConstantsAssumption, ReadInWord, WordSize DEF AccountsOK
  <2>3. /\ WalletHistory(b)' = WalletHistory(b) + (IF b = a THEN 0 - n ELSE 0)
        /\ KesHistory(b)' = KesHistory(b) + (IF b = a THEN earned ELSE 0)
    BY <1>1, <2>2, SellSums DEF WalletHistory, KesHistory, SumsTyped, earned
  <2>4. /\ Read(kes, b) \in Word /\ WalletHistory(b) \in Int /\ Read(wallet, b) \in Int
        /\ KesHistory(b) \in Int /\ Read(kes, b) \in Int
    BY BalancesTyped
  <2>5. CASE b = a
    <3>1. Read(kes', b) = Add(Read(kes, b), earned) /\ Add(Read(kes, b), earned) \in Int
          /\ Congruent(Add(Read(kes, b), earned), Read(kes, b) + earned, W)
      BY <1>1, <1>2, <2>4, <2>5, AddCongruent, AddInWord, WordSize
    <3>2. Follows(Read(kes, b), KesHistory(b), Read(kes', b), KesHistory(b)', earned)
      BY <1>1, <2>1, <2>3, <2>4, <2>5, <3>1 DEF Follows
    <3>3. Read(wallet', b) = Read(wallet, b) + (0 - n) /\ Read(wallet', b) \in Int
          /\ Read(wallet, b) + (0 - n) \in Int
      BY <1>1, <1>2, <2>4, <2>5
    <3>4. Congruent(Read(wallet', b), Read(wallet, b) + (0 - n), W)
      BY <3>3, CongruentSame, WordSize
    <3>5. Follows(Read(wallet, b), WalletHistory(b), Read(wallet', b), WalletHistory(b)', 0 - n)
      BY <1>1, <2>1, <2>3, <2>4, <2>5, <3>3, <3>4 DEF Follows
    <3> QED
      BY <3>2, <3>5, FollowsKeeps
  <2>6. CASE b # a
    BY <1>2, <2>1, <2>3, <2>4, <2>6
  <2> QED
    BY <2>5, <2>6
<1>4. VolumesMatchTrades'
  <2>1. /\ market'.sellVol = Add(market.sellVol, n) /\ market'.buyVol = market.buyVol
        /\ market.sellVol + n <= MaxVolume
    BY DEF SellMallcoin
  <2>2. market'.sellVol = market.sellVol + n
    BY <1>1, <2>1, MarketNumbers DEF Add, AccountsOK, MarketInv
  <2> QED
    BY <2>1, <2>2, SellSums DEF VolumesMatchTrades
<1> QED
  BY <1>3, <1>4 DEF BalancesExplained

LEMMA MintKeepsAccounts ==
  ASSUME AccountsOK, BalancesExplained, VolumesMatchTrades,
         NEW a \in Addr, NEW n \in Amounts, MintToUser(a, n)
  PROVE  BalancesExplained' /\ VolumesMatchTrades'
<1>1. n \in Word /\ n \in Int
  BY ConstantsAssumption, WordSize
<1>2. /\ \A b : Read(wallet', b) = IF b = a THEN Add(Read(wallet, a), n) ELSE Read(wallet, b)
      /\ kes' = kes /\ market' = market
  BY ReadWritten DEF MintToUser, MintToWallet, Credit
<1>3. TradesStill
  BY MintSums
<1>4. ASSUME NEW b \in Addr
      PROVE  /\ Congruent(Read(wallet', b), WalletHistory(b)', W)
             /\ Congruent(Read(kes', b), KesHistory(b)', W)
  <2>1. /\ Congruent(Read(wallet, b), WalletHistory(b), W)
        /\ Congruent(Read(kes, b), KesHistory(b), W)
    BY DEF BalancesExplained
  <2>2. SumsTyped /\ Read(GenWallet, b) \in Int
    BY SumsAreIntegers, ConstantsAssumption, ReadInWord, WordSize DEF AccountsOK
  <2>3. WalletHistory(b)' = WalletHistory(b) + (IF b = a THEN n ELSE 0)
    <3>1. /\ LoggedIn(b)' = LoggedIn(b) + (IF b = a THEN n ELSE 0)
          /\ LoggedOut(b)' = LoggedOut(b)
      BY MintSums
    <3>2. LoggedIn(b) \in Int /\ LoggedOut(b) \in Int
      BY <2>2 DEF SumsTyped
    <3> QED
      BY <1>1, <2>2, <3>1, <3>2 DEF WalletHistory
  <2>4. KesHistory(b)' = KesHistory(b)
    BY <1>3 DEF KesHistory, TradesStill
  <2>5. /\ Read(wallet, b) \in Word /\ WalletHistory(b) \in Int /\ Read(wallet, b) \in Int
    BY BalancesTyped
  <2>6. CASE b = a
    <3>1. Read(wallet', b) = Add(Read(wallet, b), n) /\ Add(Read(wallet, b), n) \in Int
          /\ Congruent(Add(Read(wallet, b), n), Read(wallet, b) + n, W)
      BY <1>1, <1>2, <2>5, <2>6, AddCongruent, AddInWord, WordSize
    <3>2. Follows(Read(wallet, b), WalletHistory(b), Read(wallet', b), WalletHistory(b)', n)
      BY <1>1, <2>1, <2>3, <2>5, <2>6, <3>1 DEF Follows
    <3> QED
      BY <1>2, <2>1, <2>4, <3>2, FollowsKeeps
  <2>7. CASE b # a
    BY <1>2, <2>1, <2>3, <2>4, <2>5, <2>7
  <2> QED
    BY <2>6, <2>7
<1>5. VolumesMatchTrades'
  BY <1>2, <1>3 DEF VolumesMatchTrades, TradesStill
<1> QED
  BY <1>4, <1>5 DEF BalancesExplained

LEMMA StillKeepsAccounts ==
  ASSUME BalancesExplained, VolumesMatchTrades, UNCHANGED <<wallet, kes, market>>,
         TxsStill, TradesStill
  PROVE  BalancesExplained' /\ VolumesMatchTrades'
BY DEF BalancesExplained, VolumesMatchTrades, WalletHistory, KesHistory, TxsStill, TradesStill

LEMMA AccountInit == Init => AccountInv
<1> SUFFICES ASSUME Init PROVE AccountInv
  OBVIOUS
<1>1. txs = [n \in {} |-> 0] /\ trades = [n \in {} |-> 0]
      /\ wallet = GenWallet /\ kes = GenKes /\ market.buyVol = 0 /\ market.sellVol = 0
  BY DEF Init
<1>2. RecordsOK
  BY <1>1 DEF RecordsOK
<1>3. \A a, type : /\ LoggedIn(a) = 0 /\ LoggedOut(a) = 0 /\ Earned(a, type) = 0
                   /\ Volume(type, 0) = 0
  <2> SUFFICES ASSUME NEW a, NEW type
               PROVE  /\ LoggedIn(a) = 0 /\ LoggedOut(a) = 0 /\ Earned(a, type) = 0
                      /\ Volume(type, 0) = 0
    OBVIOUS
  <2>1. /\ {n \in DOMAIN txs : txs[n].to = a /\ txs[n].type = "mint"} = {}
        /\ {n \in DOMAIN txs : txs[n].from = a /\ txs[n].type = "sell"} = {}
        /\ {n \in DOMAIN trades : trades[n].trader = a /\ trades[n].type = type} = {}
        /\ {n \in TradesSince(0) : trades[n].type = type} = {}
    BY <1>1 DEF TradesSince
  <2> QED
    BY <2>1, SumEmpty DEF LoggedIn, LoggedOut, Earned, Volume
<1>4. BalancesExplained
  <2> SUFFICES ASSUME NEW a \in Addr
               PROVE  /\ Congruent(Read(wallet, a), WalletHistory(a), W)
                      /\ Congruent(Read(kes, a), KesHistory(a), W)
    BY DEF BalancesExplained
  <2>1. Read(GenWallet, a) \in Int /\ Read(GenKes, a) \in Int
    BY ConstantsAssumption, ReadInWord, WordSize
  <2>2. WalletHistory(a) = Read(GenWallet, a) /\ KesHistory(a) = Read(GenKes, a)
    BY <1>3, <2>1 DEF WalletHistory, KesHistory
  <2> QED
    BY <1>1, <2>1, <2>2, CongruentSame, WordSize
<1>5. VolumesMatchTrades
  BY <1>1, <1>3 DEF VolumesMatchTrades
<1> QED
  BY <1>2, <1>4, <1>5 DEF AccountInv

LEMMA AccountStep == MarketInv /\ LogInv /\ AccountInv /\ [Next]_vars => AccountInv'
<1> SUFFICES ASSUME AccountsOK, BalancesExplained, VolumesMatchTrades, [Next]_vars
             PROVE  RecordsOK' /\ BalancesExplained' /\ VolumesMatchTrades'
  BY DEF AccountsOK, AccountInv
<1>1. ASSUME NEW a \in Addr, NEW n \in Amounts, BuyMallcoin(a, n)
      PROVE  RecordsOK' /\ BalancesExplained' /\ VolumesMatchTrades'
  BY <1>1, BuyLogged, BuyKeepsAccounts
<1>2. ASSUME NEW a \in Addr, NEW n \in Amounts, SellMallcoin(a, n)
      PROVE  RecordsOK' /\ BalancesExplained' /\ VolumesMatchTrades'
  BY <1>2, SellLogged, SellKeepsAccounts
<1>3. ASSUME NEW a \in Addr, NEW n \in Amounts, MintToUser(a, n)
      PROVE  RecordsOK' /\ BalancesExplained' /\ VolumesMatchTrades'
  BY <1>3, MintLogged, MintKeepsAccounts
<1>4. ASSUME NEW a \in Addr, NEW b \in Addr, NEW n \in Amounts, TransferMallcoin(a, b, n)
      PROVE  RecordsOK' /\ BalancesExplained' /\ VolumesMatchTrades'
  <2>1. UNCHANGED <<wallet, kes, market>>
    BY <1>4 DEF TransferMallcoin
  <2> QED
    BY <1>4, <2>1, TransferLogged, TransferSums, StillKeepsAccounts
<1>5. ASSUME \/ \E b \in Addr, n \in Amounts : MintMallcoin(b, n)
             \/ \E c \in Currency, r \in QuotedRates : SetCurrencyRate(c, r)
             \/ BeginBlock
             \/ UNCHANGED vars
      PROVE  RecordsOK' /\ BalancesExplained' /\ VolumesMatchTrades'
  <2>1. UNCHANGED <<wallet, kes, market, txs, trades>>
    BY <1>5 DEF MintMallcoin, SetCurrencyRate, BeginBlock, vars
  <2>2. RecordsOK'
    BY <2>1 DEF AccountsOK, RecordsOK
  <2> QED
    BY <2>1, <2>2, StillSums, StillKeepsAccounts
<1> QED
  BY <1>1, <1>2, <1>3, <1>4, <1>5 DEF Next

(* Every balance and both volumes are congruent to what the two logs add   *)
(* up to, at every moment and for any number of addresses.                 *)
THEOREM AccountInvariant == Spec => []AccountInv
BY AccountInit, AccountStep, MarketInvariant, LogInvariant, PTL DEF Spec

LEMMA RemainderOfHistory ==
  ASSUME NEW x \in Word, NEW y \in Int, Congruent(x, y, W)
  PROVE  x = y % W
<1>1. W \in Nat /\ W > 0 /\ x \in 0 .. (W - 1) /\ x \in Int
  BY WordSize DEF Word
<1>2. /\ y % W \in 0 .. (W - 1) /\ y % W \in Int /\ Congruent(y, y % W, W)
  BY <1>1, ModIs
<1>3. Congruent(x, y % W, W)
  BY <1>1, <1>2, CongruentChain
<1> QED
  BY <1>1, <1>2, <1>3, CongruentSmall

LEMMA HistoriesMatch == MarketInv /\ LogInv /\ AccountInv => WalletsMatchLog /\ KesMatchesTrades
<1> SUFFICES ASSUME AccountsOK, BalancesExplained, NEW a \in Addr
             PROVE  /\ Read(wallet, a) = WalletHistory(a) % W
                    /\ Read(kes, a) = KesHistory(a) % W
  BY DEF WalletsMatchLog, KesMatchesTrades, WalletHistory, KesHistory, AccountsOK, AccountInv
<1> QED
  BY BalancesTyped, RemainderOfHistory DEF BalancesExplained

(* Replaying the transaction log gives every wallet.                       *)
THEOREM WalletsReplayed == Spec => []WalletsMatchLog
BY HistoriesMatch, AccountInvariant, MarketInvariant, LogInvariant, PTL

(* Replaying the trade log gives every KES balance.                        *)
THEOREM KesReplayed == Spec => []KesMatchesTrades
BY HistoriesMatch, AccountInvariant, MarketInvariant, LogInvariant, PTL

(* The market's volumes are those of the trades in its log, though no      *)
(* handler ever adds the trades up.                                        *)
THEOREM VolumesAreTrades == Spec => []VolumesMatchTrades
BY AccountInvariant, PTL DEF AccountInv

-----------------------------------------------------------------------------
(* The rates.  A block moves one by a tenth of net/total, rounded half up. *)
LEMMA Cancel ==
  ASSUME NEW t \in Nat, t >= 1, NEW a \in Int, NEW b \in Int
  PROVE  /\ t * a <= t * b => a <= b
         /\ t * a < t * b => a < b
         /\ a <= b => t * a <= t * b
<1>1. CASE a <= b
  <2>1. t * (b - a) >= 0
    BY <1>1
  <2>2. t * b - t * a >= 0
    BY <2>1
  <2>3. t * a < t * b => a # b
    OBVIOUS
  <2> QED
    BY <1>1, <2>2, <2>3
<1>2. CASE a > b
  <2>1. a - b >= 1
    BY <1>2
  <2>2. t * (a - b) >= 1
    BY <2>1
  <2>3. t * a - t * b >= 1
    BY <2>2
  <2> QED
    BY <1>2, <2>3
<1> QED
  BY <1>1, <1>2

(* For any rate that a tenth more leaves in the word and any demand: the   *)
(* new rate is at least one, never moves against the net demand where      *)
(* float64 is exact enough, and by no more than a tenth and the roundings. *)
NudgeOK(old, net, total, new) ==
  /\ new \in Nat /\ new >= 1
  /\ 2 * old < Precision /\ net > 0 => new >= old
  /\ 2 * old < Precision /\ net < 0 /\ old >= 1 => new <= old
  /\ old >= 1 => 10 * Precision * new <= 11 * old * (Precision + 1) + 5 * Precision
  /\ 10 * Precision * new >= 9 * Precision * old - 11 * old - 5 * Precision

(* A rate that is stored is a word, whatever was computed for it. *)
LEMMA ConvertedIsWord ==
  ASSUME NEW num, NEW den, NEW err
  PROVE  Converted(num, den, err) \subseteq Word
<1>1. 1 \in Word
  BY ConstantsAssumption DEF Word
<1> QED
  BY <1>1, ConstantsAssumption DEF Converted

(* The bounds of what is converted, each a multiple of the total demand. *)
NudgeSpan(old, net, total, new) ==
  /\ new \in Nat /\ new >= 1
  /\ old >= 1 =>
       20 * (Precision * new) <= 22 * (Precision * old) + 10 * Precision + 22 * old
  /\ 20 * (Precision * new) >= 18 * (Precision * old) - 10 * Precision - 22 * old
  /\ net > 0 =>
       20 * (Precision * new) >= 20 * (Precision * old) - 10 * Precision - 20 * old
  /\ net < 0 /\ old >= 1 =>
       new = 1
       \/ 20 * (Precision * new) <= 20 * (Precision * old) + 10 * Precision + 20 * old

LEMMA NudgeSpans ==
  ASSUME NEW old \in Nat, NEW total \in Nat, total >= 1, NEW net \in Int,
         0 - total <= net, net <= total, Fits(old),
         NEW new \in Nudged(old, net, total)
  PROVE  NudgeSpan(old, net, total, new)
<1> DEFINE P == Precision
           q == Magnitude(net)
           p == total * old
           n == old * net
           k == old * q
           num == 2 * P * old * (10 * total + net)
           den == 2 * P * (10 * total)
           err == P * (10 * total) + 2 * old * (10 * total + q)
           Pp == P * p
           Pn == P * n
           PT == P * total
<1>1. /\ P \in Nat /\ P >= 1 /\ W \in Nat
      /\ q \in Nat /\ q <= total
      /\ net > 0 => q = net
      /\ net < 0 => q = 0 - net
      /\ net = 0 => q = 0
  BY ConstantsAssumption DEF Magnitude
<1> HIDE DEF P, q
<1>2. /\ p \in Nat /\ n \in Int /\ k \in Nat
      /\ Pp \in Nat /\ Pn \in Int /\ PT \in Nat /\ PT >= 1
  BY <1>1
<1>3. num = 20 * Pp + 2 * Pn
  <2>1. num = 2 * (P * (old * (10 * total + net)))
    BY <1>1
  <2>2. old * (10 * total + net) = 10 * p + n
    OBVIOUS
  <2> HIDE DEF p, n
  <2>3. P * (10 * p + n) = 10 * (P * p) + P * n
    BY <1>1, <1>2
  <2>4. P * (old * (10 * total + net)) = P * (10 * p + n)
    BY <2>2
  <2>5. num = 2 * (10 * Pp + Pn)
    BY <2>1, <2>3, <2>4
  <2> HIDE DEF num, Pp, Pn
  <2> QED
    BY <1>2, <2>5
<1>4. den = 20 * PT /\ err = 10 * PT + 20 * p + 2 * k
  BY <1>1
<1>5. /\ 0 - p <= n /\ n <= p
      /\ k <= p
      /\ net > 0 => n = k
      /\ net < 0 => n = 0 - k
  <2>1. old * (total - net) >= 0 /\ old * (total + net) >= 0 /\ old * (total - q) >= 0
    BY <1>1
  <2> QED
    BY <1>1, <2>1
<1>6. /\ 0 - Pp <= Pn /\ Pn <= Pp
      /\ net > 0 => Pn >= k
      /\ net < 0 => Pn <= 0 - k
  <2> HIDE DEF p, n, k
  <2>1. P * (p - n) >= 0 /\ P * (p + n) >= 0
    BY <1>1, <1>2, <1>5
  <2>2. (P - 1) * k >= 0
    BY <1>1, <1>2
  <2>3. P * k >= k
    BY <1>1, <1>2, <2>2
  <2>4. net > 0 => Pn = P * k
    BY <1>5
  <2>5. net < 0 => Pn = 0 - P * k
    <3>1. P * (0 - k) = 0 - P * k
      BY <1>1, <1>2
    <3> QED
      BY <1>5, <3>1
  <2> QED
    BY <1>1, <1>2, <2>1, <2>3, <2>4, <2>5
<1>7. new \in Converted(num, den, err)
  BY DEF Nudged, P, q
(* Nothing reaches the width of the word. *)
<1>8. ~(den * W <= num + err)
  <2>1. 22 * (P * old) + 22 * old + 10 * P < 20 * (P * W)
    BY <1>1 DEF Fits, P
  <2> DEFINE x == 22 * (P * old) + 22 * old + 10 * P
             y == 20 * (P * W)
  <2>2. x \in Nat /\ y \in Nat
    BY <1>1
  <2>3. total * x = 22 * Pp + 22 * p + 10 * PT
    BY <1>1
  <2>4. total * y = den * W
    BY <1>1
  <2> HIDE DEF x, y
  <2>5. total * x < total * y
    <3>1. total * (y - x) >= 1
      BY <2>1, <2>2 DEF x, y
    <3> QED
      BY <2>2, <3>1
  <2> HIDE DEF p, n, k, num, den, err, Pp, Pn, PT
  <2>6. den * W \in Int
    BY <2>2, <2>4
  <2>7. num + err <= 22 * Pp + 22 * p + 10 * PT
    BY <1>2, <1>3, <1>4, <1>5, <1>6
  <2> QED
    BY <1>2, <1>3, <1>4, <2>3, <2>4, <2>5, <2>6, <2>7
<1> DEFINE m == PT * new
<1>9. \/ /\ new \in Nat /\ new >= 1
         /\ num - err <= den * new /\ den * new <= num + err
      \/ new = 1 /\ num <= err
  BY <1>1, <1>7, <1>8 DEF Converted, Word
<1>10. new \in Nat /\ new >= 1 /\ m \in Nat /\ den * new = 20 * m
  <2>1. new \in Nat /\ new >= 1
    BY <1>9
  <2> QED
    BY <1>1, <1>2, <1>4, <2>1
<1>11. /\ m = total * (P * new)
       /\ Pp = total * (P * old)
       /\ PT = total * P
       /\ P * new \in Nat /\ P * old \in Nat
  BY <1>1, <1>10
<1> HIDE DEF p, n, k, num, den, err, Pp, Pn, PT, m
<1>12. /\ old >= 1 => 20 * m <= 22 * Pp + 10 * PT + 22 * p
       /\ 20 * m >= 18 * Pp - 10 * PT - 22 * p
       /\ net > 0 => 20 * m >= 20 * Pp - 10 * PT - 20 * p
       /\ net < 0 => new = 1 \/ 20 * m <= 20 * Pp + 10 * PT + 20 * p
  <2>1. CASE num - err <= den * new /\ den * new <= num + err
    BY <1>1, <1>2, <1>3, <1>4, <1>5, <1>6, <1>10, <2>1
  <2>2. CASE new = 1 /\ num <= err
    <3>1. m = PT
      BY <1>2, <2>2 DEF m
    <3>2. old >= 1 => Pp >= PT
      <4> SUFFICES ASSUME old >= 1 PROVE Pp >= PT
        OBVIOUS
      <4>1. PT * (old - 1) >= 0
        BY <1>2
      <4>2. Pp = PT * old
        BY <1>1 DEF Pp, PT, p
      <4> QED
        BY <1>2, <4>1, <4>2
    <3> QED
      BY <1>1, <1>2, <1>3, <1>4, <1>5, <1>6, <2>2, <3>1, <3>2
  <2> QED
    BY <1>9, <2>1, <2>2
<1> DEFINE N == P * new
           O == P * old
<1>13. N \in Nat /\ O \in Nat /\ m = total * N /\ Pp = total * O /\ PT = total * P
       /\ p = total * old
  BY <1>11 DEF p
<1> HIDE DEF N, O
<1>14. /\ total * (20 * N) = 20 * m
       /\ total * (22 * O + 10 * P + 22 * old) = 22 * Pp + 10 * PT + 22 * p
       /\ total * (18 * O - 10 * P - 22 * old) = 18 * Pp - 10 * PT - 22 * p
       /\ total * (20 * O - 10 * P - 20 * old) = 20 * Pp - 10 * PT - 20 * p
       /\ total * (20 * O + 10 * P + 20 * old) = 20 * Pp + 10 * PT + 20 * p
  BY <1>1, <1>13
<1>15. /\ old >= 1 => 20 * N <= 22 * O + 10 * P + 22 * old
  <2>1. 20 * N \in Int /\ 22 * O + 10 * P + 22 * old \in Int
    BY <1>1, <1>13
  <2> QED
    BY <2>1, <1>12, <1>14, Cancel
<1>16. 20 * N >= 18 * O - 10 * P - 22 * old
  <2>1. 20 * N \in Int /\ 18 * O - 10 * P - 22 * old \in Int
    BY <1>1, <1>13
  <2>2. 18 * O - 10 * P - 22 * old <= 20 * N
    BY <2>1, <1>12, <1>14, <1>2, <1>10, Cancel
  <2> QED
    BY <2>1, <2>2
<1>17. net > 0 => 20 * N >= 20 * O - 10 * P - 20 * old
  <2>1. 20 * N \in Int /\ 20 * O - 10 * P - 20 * old \in Int
    BY <1>1, <1>13
  <2>2. net > 0 => 20 * O - 10 * P - 20 * old <= 20 * N
    BY <2>1, <1>12, <1>14, <1>2, <1>10, Cancel
  <2> QED
    BY <2>1, <2>2
<1>18. net < 0 => new = 1 \/ 20 * N <= 20 * O + 10 * P + 20 * old
  <2>1. 20 * N \in Int /\ 20 * O + 10 * P + 20 * old \in Int
    BY <1>1, <1>13
  <2> QED
    BY <2>1, <1>12, <1>14, Cancel
<1> QED
  BY <1>10, <1>15, <1>16, <1>17, <1>18 DEF NudgeSpan, N, O, P

LEMMA NudgeBounds ==
  ASSUME NEW old \in Nat, NEW total \in Nat, total >= 1, NEW net \in Int,
         0 - total <= net, net <= total, Fits(old),
         NEW new \in Nudged(old, net, total)
  PROVE  NudgeOK(old, net, total, new)
<1> DEFINE N == Precision * new
           O == Precision * old
<1>1. NudgeSpan(old, net, total, new)
  BY NudgeSpans
<1>2. Precision \in Nat /\ Precision >= 1 /\ new \in Nat /\ new >= 1
  BY <1>1, ConstantsAssumption DEF NudgeSpan
<1>3. N \in Nat /\ O \in Nat
  BY <1>2
<1>4. ASSUME 2 * old < Precision, net > 0
      PROVE  new >= old
  <2>1. CASE old >= 1
    <3>1. 20 * N >= 20 * O - 10 * Precision - 20 * old
      BY <1>1, <1>4, <2>1 DEF NudgeSpan
    <3>2. Precision * old < Precision * (new + 1)
      BY <1>2, <1>3, <1>4, <3>1
    <3> QED
      BY <1>2, <3>2, Cancel
  <2> QED
    BY <1>2, <2>1
<1>5. ASSUME 2 * old < Precision, net < 0, old >= 1
      PROVE  new <= old
  <2>1. CASE new = 1
    BY <1>5, <2>1
  <2>2. CASE new # 1
    <3>1. 20 * N <= 20 * O + 10 * Precision + 20 * old
      BY <1>1, <1>5, <2>2 DEF NudgeSpan
    <3>2. Precision * new < Precision * (old + 1)
      BY <1>2, <1>3, <1>5, <3>1
    <3> QED
      BY <1>2, <3>2, Cancel
  <2> QED
    BY <2>1, <2>2
<1>6. /\ 10 * Precision * new = 10 * N
      /\ 11 * old * (Precision + 1) = 11 * O + 11 * old
      /\ 9 * Precision * old = 9 * O
  BY <1>2
<1>7. /\ old >= 1 => 10 * N <= 11 * O + 5 * Precision + 11 * old
      /\ 10 * N >= 9 * O - 5 * Precision - 11 * old
  <2>1. /\ old >= 1 => 20 * N <= 22 * O + 10 * Precision + 22 * old
        /\ 20 * N >= 18 * O - 10 * Precision - 22 * old
    BY <1>1 DEF NudgeSpan
  <2> HIDE DEF N, O
  <2> QED
    BY <1>2, <1>3, <2>1
<1>8. /\ old >= 1 => 10 * Precision * new <= 11 * old * (Precision + 1) + 5 * Precision
      /\ 10 * Precision * new >= 9 * Precision * old - 11 * old - 5 * Precision
  <2> HIDE DEF N, O
  <2> QED
    BY <1>2, <1>3, <1>6, <1>7
<1> QED
  BY <1>2, <1>4, <1>5, <1>8 DEF NudgeOK

(* Any window's demand is a natural number. *)
LEMMA VolumeTyped ==
  ASSUME LogInv, RecordsOK, NEW type, NEW h
  PROVE  Volume(type, h) \in Nat
<1> DEFINE All == {n \in TradesSince(h) : trades[n].type = type}
<1>1. IsFiniteSet(All) /\ \A x \in All : Coins[x] \in Nat
  <2>1. All \subseteq DOMAIN trades
    BY DEF TradesSince
  <2> HIDE DEF All
  <2> QED
    BY <2>1, LogsFinite, ConstantsAssumption DEF RecordsOK, Coins, Word
<1> HIDE DEF All
<1>2. SumFunctionOnSet(Coins, All) \in Nat
  BY <1>1, SumClosed
<1> QED
  BY <1>2 DEF Volume, All

RatesOK == IsStore(rates, Currency, Word)

(* While both sums are int64, the demand is what it seems. *)
LEMMA DemandIsExact ==
  ASSUME NEW bought \in Nat, NEW sold \in Nat, 2 * bought < W, 2 * sold < W
  PROVE  /\ bought % W = bought /\ sold % W = sold
         /\ Activity(bought, sold) = bought + sold
         /\ NetDemand(bought, sold) = bought - sold
<1>1. W \in Nat /\ W >= 1
  BY ConstantsAssumption
<1>2. bought % W = bought /\ sold % W = sold /\ (bought + sold) % W = bought + sold
  BY <1>1
<1>3. NetDemand(bought, sold) = bought - sold
  <2>1. CASE bought >= sold
    <3>1. (bought - sold) % W = bought - sold
      BY <1>1, <2>1
    <3> QED
      BY <1>1, <2>1, <3>1 DEF NetDemand, Int64
  <2>2. CASE bought < sold
    <3>1. (bought - sold) % W = bought - sold + W
      BY <1>1, <2>2
    <3> QED
      BY <1>1, <2>2, <3>1 DEF NetDemand, Int64
  <2> QED
    BY <2>1, <2>2
<1> QED
  BY <1>2, <1>3 DEF Activity

(* What a block does to the rates. *)
LEMMA BlockMovesRates ==
  ASSUME LogInv, RecordsOK, RatesOK, BeginBlock
  PROVE  /\ RatesOK'
         /\ \A c \in DOMAIN rates :
              LET bought == Volume("buy", height')
                  sold == Volume("sell", height')
              IN  /\ bought + sold = 0 => rates'[c] = rates[c]
                  /\ 2 * bought < W /\ 2 * sold < W /\ bought + sold # 0 /\ Fits(rates[c]) =>
                       NudgeOK(rates[c], bought - sold, bought + sold, rates'[c])
<1> DEFINE bought == Volume("buy", height')
           sold == Volume("sell", height')
           net == NetDemand(bought % W, sold % W)
           total == Activity(bought % W, sold % W)
<1>1. bought \in Nat /\ sold \in Nat
  BY VolumeTyped
<1>2. rates' \in IF total = 0 THEN {rates} ELSE NudgedRates(net, total)
  BY DEF BeginBlock
<1> HIDE DEF bought, sold
<1>3. ASSUME total # 0
      PROVE  /\ DOMAIN rates' = DOMAIN rates
             /\ \A c \in DOMAIN rates : rates'[c] \in Nudged(rates[c], net, total)
  <2> HIDE DEF net, total
  <2> QED
    BY <1>2, <1>3 DEF NudgedRates
<1>4. RatesOK'
  <2>1. CASE total = 0
    BY <1>2, <2>1 DEF RatesOK
  <2>2. CASE total # 0
    <3> HIDE DEF net, total
    <3>1. \A c \in DOMAIN rates : rates'[c] \in Word
      BY <1>3, <2>2, ConvertedIsWord DEF Nudged
    <3>2. rates' = [c \in DOMAIN rates' |-> rates'[c]]
      BY <1>2, <2>2 DEF NudgedRates
    <3> QED
      BY <1>3, <2>2, <3>1, <3>2 DEF RatesOK, IsStore
  <2> QED
    BY <2>1, <2>2
<1>5. ASSUME NEW c \in DOMAIN rates, bought + sold = 0
      PROVE  rates'[c] = rates[c]
  <2>1. bought = 0 /\ sold = 0 /\ 0 < W
    BY <1>1, <1>5, ConstantsAssumption
  <2>2. total = 0
    BY <2>1, DemandIsExact
  <2> QED
    BY <1>2, <2>2
<1>6. ASSUME NEW c \in DOMAIN rates, 2 * bought < W, 2 * sold < W, bought + sold # 0,
             Fits(rates[c])
      PROVE  NudgeOK(rates[c], bought - sold, bought + sold, rates'[c])
  <2>1. total = bought + sold /\ net = bought - sold
    BY <1>1, <1>6, DemandIsExact
  <2>2. rates'[c] \in Nudged(rates[c], bought - sold, bought + sold)
    BY <1>3, <1>6, <2>1
  <2>3. rates[c] \in Nat
    BY ConstantsAssumption DEF RatesOK, IsStore, Word
  <2>4. /\ bought + sold \in Nat /\ bought + sold >= 1 /\ bought - sold \in Int
        /\ 0 - (bought + sold) <= bought - sold /\ bought - sold <= bought + sold
    BY <1>1, <1>6
  <2> QED
    BY <1>6, <2>2, <2>3, <2>4, NudgeBounds
<1> QED
  BY <1>4, <1>5, <1>6 DEF bought, sold

LEMMA RatesStep == LogInv /\ RecordsOK /\ RatesOK /\ [Next]_vars => RatesOK'
<1> SUFFICES ASSUME LogInv, RecordsOK, RatesOK, [Next]_vars PROVE RatesOK'
  OBVIOUS
<1>1. ASSUME NEW c \in Currency, NEW r \in QuotedRates, SetCurrencyRate(c, r)
      PROVE  RatesOK'
  <2>1. r \in Word
    BY ConstantsAssumption
  <2> QED
    BY <1>1, <2>1, WriteInStore DEF SetCurrencyRate, RatesOK
<1>2. CASE BeginBlock
  BY <1>2, BlockMovesRates
<1>3. ASSUME \/ \E a \in Addr, n \in Amounts :
                  BuyMallcoin(a, n) \/ SellMallcoin(a, n) \/ MintToUser(a, n)
             \/ \E a \in Addr, b \in Addr, n \in Amounts : TransferMallcoin(a, b, n)
             \/ \E b \in Addr, n \in Amounts : MintMallcoin(b, n)
             \/ UNCHANGED vars
      PROVE  rates' = rates
  BY <1>3 DEF BuyMallcoin, SellMallcoin, MintToUser, TransferMallcoin, MintMallcoin, vars
<1>4. rates' = rates => RatesOK'
  BY DEF RatesOK
<1> QED
  BY <1>1, <1>2, <1>3, <1>4 DEF Next

LEMMA RatesInvariant == Spec => []RatesOK
<1>1. Init => RatesOK
  BY DEF Init, RatesOK, IsStore
<1>2. AccountInv => RecordsOK
  BY DEF AccountInv
<1> QED
  BY <1>1, <1>2, RatesStep, LogInvariant, AccountInvariant, PTL DEF Spec

(* Every store of the ledger keeps its type, the rates included: whatever  *)
(* float64 makes of one, what is stored is a word.  No record lies at or   *)
(* above the sequence, so none is overwritten by a later one.              *)
THEOREM MlcoinTyped == Spec => []TypeOK
<1>1. LedgerTypeOK /\ RatesOK => TypeOK
  BY DEF TypeOK, RatesOK
<1> QED
  BY <1>1, LedgerTyped, RatesInvariant, PTL

MovesWithDemand(bought, sold, old, new) ==
  /\ bought + sold = 0 => new = old
  /\ 2 * bought < W /\ 2 * sold < W /\ bought + sold # 0 /\ Fits(old) =>
       /\ new >= 1
       /\ 2 * old < Precision /\ bought > sold => new >= old
       /\ 2 * old < Precision /\ bought < sold /\ old >= 1 => new <= old
       /\ old >= 1 => 10 * Precision * new
                        <= 11 * old * (Precision + 1) + 5 * Precision
       /\ 10 * Precision * new >= 9 * Precision * old - 11 * old - 5 * Precision

FollowDemand ==
  \A c \in DOMAIN rates :
    height' # height =>
      MovesWithDemand(Volume("buy", height'), Volume("sell", height'), rates[c], rates'[c])

LEMMA StepFollowsDemand ==
  ASSUME LogInv, RecordsOK, RatesOK, [Next]_vars
  PROVE  FollowDemand
<1>1. CASE BeginBlock
  <2> SUFFICES ASSUME NEW c \in DOMAIN rates
               PROVE  MovesWithDemand(Volume("buy", height'), Volume("sell", height'),
                                      rates[c], rates'[c])
    BY DEF FollowDemand
  <2> DEFINE bought == Volume("buy", height')
             sold == Volume("sell", height')
  <2>1. bought \in Nat /\ sold \in Nat
    BY VolumeTyped
  <2>2. /\ bought + sold = 0 => rates'[c] = rates[c]
        /\ 2 * bought < W /\ 2 * sold < W /\ bought + sold # 0 /\ Fits(rates[c]) =>
             NudgeOK(rates[c], bought - sold, bought + sold, rates'[c])
    BY <1>1, BlockMovesRates
  <2> HIDE DEF bought, sold
  <2>3. /\ bought > sold => bought - sold > 0
        /\ bought < sold => bought - sold < 0
    BY <2>1
  <2>4. MovesWithDemand(bought, sold, rates[c], rates'[c])
    BY <2>2, <2>3 DEF MovesWithDemand, NudgeOK
  <2> QED
    BY <2>4 DEF bought, sold
<1>2. ASSUME ~BeginBlock PROVE height' = height
  BY <1>2 DEF Next, BuyMallcoin, SellMallcoin, MintToUser, TransferMallcoin, MintMallcoin,
              SetCurrencyRate, vars
<1> QED
  BY <1>1, <1>2 DEF FollowDemand

(* Blocks move every rate by at most a tenth and the roundings, with the   *)
(* demand of their window, for any window, any precision of the floats and *)
(* any conversion of those that do not fit, while the volumes are int64    *)
(* and a tenth more is still a word.                                       *)
THEOREM RatesFollow == Spec => RatesFollowDemand
<1>1. AccountInv => RecordsOK
  BY DEF AccountInv
<1>2. LogInv /\ RecordsOK /\ RatesOK /\ [Next]_vars => [FollowDemand]_<<rates, height>>
  BY StepFollowsDemand
<1>3. Spec => [][FollowDemand]_<<rates, height>>
  BY <1>1, <1>2, LogInvariant, AccountInvariant, RatesInvariant, PTL DEF Spec
<1> QED
  BY <1>3, PTL DEF RatesFollowDemand, FollowDemand, MovesWithDemand

-----------------------------------------------------------------------------
(* Badges, points and conversions beside the ledger. *)
LEMMA MallStepIsLedgerStep ==
  ASSUME [MallNext]_allVars
  PROVE  [Next]_vars
<1>1. CASE LedgerNext /\ UNCHANGED mallVars
  BY <1>1 DEF LedgerNext, Next
<1>2. CASE \E a \in Addr : IssueBadge(a)
  BY <1>2 DEF IssueBadge
<1>3. CASE \E a \in Addr, b \in Addr, type \in {"engagement", "task"}, pow \in BOOLEAN,
              n \in Amounts : AwardPoints(a, b, type, pow, n)
  BY <1>3 DEF AwardPoints
<1>4. CASE \E a \in Addr, n \in Amounts : ConvertToMallcoin(a, n)
  <2>1. PICK a \in Addr, n \in Amounts : ConvertToMallcoin(a, n)
    BY <1>4
  <2>2. MintToUser(a, n)
    BY <2>1 DEF ConvertToMallcoin, ConversionMint
  <2> QED
    BY <2>2 DEF Next
<1>5. CASE UNCHANGED allVars
  BY <1>5 DEF allVars
<1> QED
  BY <1>1, <1>2, <1>3, <1>4, <1>5 DEF MallNext

(* Badges, points and conversions never do to the ledger what its own      *)
(* specification does not allow.                                           *)
THEOREM MallchainKeepsLedger == MallSpec => LedgerSpec
<1>1. MallInit => Init
  BY DEF MallInit
<1> QED
  BY <1>1, MallStepIsLedgerStep, PTL DEF MallSpec, LedgerSpec, Spec

(* With conversions as the code makes them, circulation stays within the   *)
(* supply.                                                                 *)
THEOREM ChainSupplyNeverExceeded == MallSpec => []SupplyCap
BY MallchainKeepsLedger, SupplyNeverExceeded, PTL DEF LedgerSpec

-----------------------------------------------------------------------------
LEMMA CreditInStore ==
  ASSUME NEW f, IsStore(f, Addr, Word), NEW a \in Addr, NEW n \in Word
  PROVE  IsStore(Credit(f, a, n), Addr, Word)
BY ReadInWord, AddInWord, WriteInStore DEF Credit

(* Three records of one store, counted below 2^64 because they are bounded.*)
PointsInv == PointsTypeOK /\ MarketCore

LEMMA DeductInStore ==
  ASSUME PointsTypeOK, NEW a \in Addr, NEW n \in Word, Covers(points, a, n)
  PROVE  IsStore(Deduct(a, n), Addr, Word) /\ DOMAIN Deduct(a, n) = DOMAIN points
<1>1. a \in DOMAIN points /\ points[a] \in Word /\ points[a] >= n
  BY DEF PointsTypeOK, IsStore, Covers
<1>2. points[a] - n \in Word
  BY <1>1, ConstantsAssumption DEF Word
<1>3. IsStore(Deduct(a, n), Addr, Word)
  BY <1>2, WriteInStore DEF Deduct, PointsTypeOK
<1>4. DOMAIN Deduct(a, n) = DOMAIN points
  <2>1. DOMAIN Deduct(a, n) = DOMAIN points \cup {a}
    BY WriteDomain DEF Deduct
  <2> QED
    BY <1>1, <2>1
<1> QED
  BY <1>3, <1>4

LEMMA PointsStep ==
  ASSUME PointsInv, [MallNext]_allVars
  PROVE  PointsTypeOK'
<1>1. CASE LedgerNext /\ UNCHANGED mallVars
  BY <1>1 DEF PointsInv, PointsTypeOK, mallVars
<1>2. CASE \E a \in Addr : IssueBadge(a)
  BY <1>2 DEF IssueBadge, PointsInv, PointsTypeOK
<1>3. ASSUME NEW a \in Addr, NEW b \in Addr, NEW type, NEW pow, NEW n \in Amounts,
             AwardPoints(a, b, type, pow, n)
      PROVE  PointsTypeOK'
  <2>1. n \in Word /\ 1 \in Word /\ n \in Nat
    BY ConstantsAssumption DEF Word
  <2>2. IsStore(points', Addr, Word) /\ IsStore(completed', Addr, Word)
    BY <1>3, <2>1, CreditInStore DEF AwardPoints, PointsInv, PointsTypeOK
  <2>3. IsStore(lastEarned', Addr, Nat)
    BY <1>3, WriteInStore DEF AwardPoints, PointsInv, PointsTypeOK, MarketCore, MarketTypeOK
  <2>4. /\ DOMAIN points' = DOMAIN points \cup {b}
        /\ DOMAIN completed' = DOMAIN completed \cup {b}
        /\ DOMAIN lastEarned' = DOMAIN lastEarned \cup {b}
    BY <1>3, WriteDomain DEF AwardPoints, Credit
  <2>5. badges' \subseteq Addr /\ awarded' \in [Addr -> Nat]
    BY <1>3, <2>1 DEF AwardPoints, PointsInv, PointsTypeOK
  <2> QED
    BY <2>2, <2>3, <2>4, <2>5 DEF PointsInv, PointsTypeOK
<1>4. ASSUME NEW a \in Addr, NEW n \in Amounts, ConvertToMallcoin(a, n)
      PROVE  PointsTypeOK'
  <2>1. n \in Word
    BY ConstantsAssumption
  <2>2. IsStore(points', Addr, Word) /\ DOMAIN points' = DOMAIN points
    BY <1>4, <2>1, DeductInStore DEF ConvertToMallcoin, PointsInv
  <2> QED
    BY <1>4, <2>2 DEF ConvertToMallcoin, PointsInv, PointsTypeOK
<1>5. CASE UNCHANGED allVars
  BY <1>5 DEF allVars, mallVars, PointsInv, PointsTypeOK
<1> QED
  BY <1>1, <1>2, <1>3, <1>4, <1>5 DEF MallNext

LEMMA PointsInit == MallInit => PointsTypeOK
<1>1. 0 \in Word
  BY ConstantsAssumption DEF Word
<1> QED
  BY <1>1, PointsAssumption DEF MallInit, PointsTypeOK, IsStore

LEMMA PointsInvariant == MallSpec => []PointsTypeOK
<1>1. MallSpec => []MarketInv
  BY MallchainKeepsLedger, MarketInvariant, PTL DEF LedgerSpec
<1>2. MarketInv /\ PointsTypeOK /\ [MallNext]_allVars => PointsTypeOK'
  BY PointsStep DEF PointsInv, MarketInv
<1> QED
  BY PointsInit, <1>1, <1>2, PTL DEF MallSpec

(* Every points record keeps its type on every path, so a conversion never *)
(* takes points that are not there.                                        *)
THEOREM PointsTyped == MallSpec => []PointsTypeOK
BY PointsInvariant

-----------------------------------------------------------------------------
IssuePaid ==
  circ' > circ =>
    \/ DOMAIN trades' # DOMAIN trades
    \/ \E a \in DOMAIN points : points'[a] = points[a] - (circ' - circ)

LEMMA BuyRecordsTrade ==
  ASSUME LogInv, NEW a \in Addr, NEW n \in Amounts, BuyMallcoin(a, n)
  PROVE  DOMAIN trades' # DOMAIN trades
<1>1. DOMAIN trades' = DOMAIN trades \cup {seq + 1}
  BY WriteDomain DEF BuyMallcoin
<1>2. seq + 1 \notin DOMAIN trades
  BY DEF LogInv, LogNumbersDense
<1> QED
  BY <1>1, <1>2

LEMMA SaleIssuesNothing ==
  ASSUME MarketCore, NEW a \in Addr, NEW n \in Amounts, SellMallcoin(a, n)
  PROVE  ~(circ' > circ)
<1>1. n \in Nat /\ circ \in Nat
  BY ConstantsAssumption, MarketNumbers DEF Word
<1>2. circ' = IF circ >= n THEN circ - n ELSE circ
  BY DEF SellMallcoin
<1> QED
  BY <1>1, <1>2

LEMMA ConversionTakesPoints ==
  ASSUME MarketCore, NEW a \in Addr, NEW n \in Amounts, ConvertToMallcoin(a, n)
  PROVE  a \in DOMAIN points /\ points'[a] = points[a] - (circ' - circ)
<1>1. a \in DOMAIN points /\ points'[a] = points[a] - n
  BY DEF ConvertToMallcoin, Covers, Deduct, Write
<1>2. n \in Word /\ n \in Nat /\ circ \in Nat
  BY ConstantsAssumption, MarketNumbers DEF Word
<1>3. MintToWallet(a, n)
  BY DEF ConvertToMallcoin, ConversionMint, MintToUser
<1>4. circ' = circ + n
  BY <1>2, <1>3, MintEffect
<1>5. circ' - circ = n
  BY <1>2, <1>4
<1> QED
  BY <1>1, <1>5

LEMMA StepIssuePaid ==
  ASSUME MarketCore, LogInv, [MallNext]_allVars
  PROVE  IssuePaid
<1>1. CASE LedgerNext /\ UNCHANGED mallVars
  <2>1. ASSUME NEW a \in Addr, NEW n \in Amounts, BuyMallcoin(a, n)
        PROVE  IssuePaid
    BY <2>1, BuyRecordsTrade DEF IssuePaid
  <2>2. ASSUME NEW a \in Addr, NEW n \in Amounts, SellMallcoin(a, n)
        PROVE  IssuePaid
    BY <2>2, SaleIssuesNothing DEF IssuePaid
  <2>3. ASSUME \/ \E a \in Addr, b \in Addr, n \in Amounts : TransferMallcoin(a, b, n)
               \/ \E b \in Addr, n \in Amounts : MintMallcoin(b, n)
               \/ \E c \in Currency, r \in QuotedRates : SetCurrencyRate(c, r)
               \/ BeginBlock
        PROVE  circ' = circ
    BY <2>3 DEF TransferMallcoin, MintMallcoin, SetCurrencyRate, BeginBlock
  <2>4. circ' = circ => IssuePaid
    BY MarketNumbers DEF IssuePaid
  <2> QED
    BY <1>1, <2>1, <2>2, <2>3, <2>4 DEF LedgerNext
<1>2. CASE \E a \in Addr, n \in Amounts : ConvertToMallcoin(a, n)
  BY <1>2, ConversionTakesPoints DEF IssuePaid
<1>3. CASE \/ \E a \in Addr : IssueBadge(a)
           \/ \E a \in Addr, b \in Addr, type \in {"engagement", "task"},
                 pow \in BOOLEAN, n \in Amounts : AwardPoints(a, b, type, pow, n)
           \/ UNCHANGED allVars
  <2>1. circ' = circ
    BY <1>3 DEF IssueBadge, AwardPoints, vars, allVars
  <2> QED
    BY <2>1, MarketNumbers DEF IssuePaid
<1> QED
  BY <1>1, <1>2, <1>3 DEF MallNext

(* Coins enter circulation against recorded KES or against as many points, *)
(* in every state the chain can reach.                                     *)
THEOREM NoFreeIssue == MallSpec => IssueIsPaidFor
<1>1. MallSpec => []MarketInv /\ []LogInv
  BY MallchainKeepsLedger, MarketInvariant, LogInvariant, PTL DEF LedgerSpec
<1>2. MarketInv /\ LogInv /\ [MallNext]_allVars => [IssuePaid]_allVars
  BY StepIssuePaid DEF MarketInv
<1>3. MallSpec => [][IssuePaid]_allVars
  BY <1>1, <1>2, PTL DEF MallSpec
<1> QED
  BY <1>3, PTL DEF IssueIsPaidFor, IssuePaid

-----------------------------------------------------------------------------
(* The points as an account: what an address was awarded against what it   *)
(* holds and what it was minted without buying.                            *)
Awarded(a) == Read(GenPoints, a) + awarded[a]
Accounted(a) == Read(points, a) + LoggedIn(a) - BoughtBy(a)
PointsBacked == \A a \in Addr : Congruent(Awarded(a), Accounted(a), W)

LEMMA PointNumbers ==
  ASSUME AccountsOK, PointsTypeOK, NEW a \in Addr
  PROVE  /\ Read(points, a) \in Word /\ Read(points, a) \in Int
         /\ LoggedIn(a) \in Int /\ BoughtBy(a) \in Int
         /\ Awarded(a) \in Int /\ Accounted(a) \in Int
         /\ Read(GenPoints, a) \in Int /\ awarded[a] \in Int
<1>1. Read(points, a) \in Word /\ Read(GenPoints, a) \in Word /\ awarded[a] \in Nat
  BY PointsAssumption, ReadInWord DEF PointsTypeOK
<1>2. LoggedIn(a) \in Int /\ BoughtBy(a) \in Int
  BY SumsAreIntegers DEF AccountsOK, SumsTyped
<1> QED
  BY <1>1, <1>2, WordSize DEF Awarded, Accounted

(* An award of n adds n to both sides, modulo W.                           *)
LEMMA AwardBacked ==
  ASSUME AccountsOK, PointsTypeOK, PointsBacked, NEW c, NEW b \in Addr, NEW type, NEW pow,
         NEW n \in Amounts, AwardPoints(c, b, type, pow, n)
  PROVE  PointsBacked'
<1>1. n \in Word /\ n \in Int
  BY ConstantsAssumption, WordSize
<1>2. /\ \A a : Read(points', a) = IF a = b THEN Add(Read(points, b), n) ELSE Read(points, a)
      /\ awarded' = [awarded EXCEPT ![b] = @ + n]
  BY ReadWritten DEF AwardPoints, Credit
<1>3. TxsStill /\ TradesStill
  BY StillSums DEF AwardPoints, vars
<1> SUFFICES ASSUME NEW a \in Addr PROVE Congruent(Awarded(a)', Accounted(a)', W)
  BY DEF PointsBacked
<1>4. /\ Read(points, a) \in Word /\ Read(points, a) \in Int
      /\ LoggedIn(a) \in Int /\ BoughtBy(a) \in Int
      /\ Awarded(a) \in Int /\ Accounted(a) \in Int
      /\ Read(GenPoints, a) \in Int /\ awarded[a] \in Int
  BY PointNumbers
<1>5. LoggedIn(a)' = LoggedIn(a) /\ BoughtBy(a)' = BoughtBy(a)
  BY <1>3 DEF TxsStill, TradesStill
<1>6. Congruent(Awarded(a), Accounted(a), W)
  BY DEF PointsBacked
<1>7. CASE a = b
  <2> DEFINE held == Add(Read(points, a), n)
             rest == LoggedIn(a) - BoughtBy(a)
  <2>1. /\ held \in Int /\ rest \in Int
        /\ Congruent(held, Read(points, a) + n, W)
    <3>1. held \in Word /\ Congruent(held, Read(points, a) + n, W)
      BY <1>1, <1>4, AddCongruent, AddInWord
    <3> QED
      BY <1>4, <3>1, WordSize
  <2>2. Awarded(a)' = Awarded(a) + n
    BY <1>1, <1>2, <1>4, <1>7 DEF Awarded, PointsTypeOK
  <2>3. Accounted(a)' = held + rest
    BY <1>1, <1>2, <1>4, <1>5, <1>7, <2>1 DEF Accounted
  <2> HIDE DEF held
  <2>4. Congruent(held + rest, (Read(points, a) + n) + rest, W)
    BY <1>1, <1>4, <2>1, CongruentSum, CongruentSame, WordSize
  <2>5. (Read(points, a) + n) + rest = Accounted(a) + n /\ held + rest \in Int
    BY <1>1, <1>4, <2>1 DEF Accounted
  <2> HIDE DEF rest
  <2>6. Congruent(Accounted(a) + n, held + rest, W)
    BY <1>1, <1>4, <2>4, <2>5, CongruentSwap, WordSize
  <2>7. Congruent(Awarded(a) + n, Accounted(a) + n, W)
    BY <1>1, <1>4, <1>6, CongruentSum, CongruentSame, WordSize
  <2>8. Awarded(a) + n \in Int /\ Accounted(a) + n \in Int
    BY <1>1, <1>4
  <2> QED
    BY <2>2, <2>3, <2>5, <2>6, <2>7, <2>8, CongruentChain, WordSize
<1>8. CASE a # b
  <2>1. awarded'[a] = awarded[a]
    BY <1>2, <1>8 DEF PointsTypeOK
  <2> QED
    BY <1>2, <1>5, <1>6, <1>8, <2>1 DEF Awarded, Accounted
<1> QED
  BY <1>7, <1>8

(* A conversion takes n points and logs a mint of n; a purchase logs a     *)
(* mint and a trade of n.                                                  *)
LEMMA MessageBacked ==
  ASSUME AccountsOK, PointsTypeOK, PointsBacked, NEW a \in Addr, NEW n \in Amounts,
         \/ ConvertToMallcoin(a, n)
         \/ (BuyMallcoin(a, n) \/ SellMallcoin(a, n)) /\ UNCHANGED mallVars
  PROVE  PointsBacked'
<1> SUFFICES ASSUME NEW b \in Addr PROVE Congruent(Awarded(b)', Accounted(b)', W)
  BY DEF PointsBacked
<1>1. /\ Read(points, b) \in Int /\ LoggedIn(b) \in Int /\ BoughtBy(b) \in Int /\ n \in Int
  BY PointNumbers, ConstantsAssumption, WordSize
<1>2. Congruent(Awarded(b), Accounted(b), W)
  BY DEF PointsBacked
<1>3. awarded' = awarded
  BY DEF ConvertToMallcoin, mallVars
<1>4. Accounted(b)' = Accounted(b)
  <2>1. CASE ConvertToMallcoin(a, n)
    <3>1. MintToUser(a, n) /\ points' = Write(points, a, points[a] - n)
          /\ a \in DOMAIN points
      BY <2>1 DEF ConvertToMallcoin, ConversionMint, Deduct, Covers
    <3>2. Read(points', b) = Read(points, b) - (IF b = a THEN n ELSE 0)
      BY <1>1, <3>1, ReadWritten DEF Read
    <3>3. /\ LoggedIn(b)' = LoggedIn(b) + (IF b = a THEN n ELSE 0)
          /\ BoughtBy(b)' = BoughtBy(b)
      BY <3>1, MintSums DEF TradesStill
    <3> QED
      BY <1>1, <3>2, <3>3 DEF Accounted
  <2>2. CASE BuyMallcoin(a, n) /\ UNCHANGED mallVars
    <3>1. /\ LoggedIn(b)' = LoggedIn(b) + (IF b = a THEN n ELSE 0)
          /\ BoughtBy(b)' = BoughtBy(b) + (IF b = a THEN n ELSE 0)
          /\ points' = points
      BY <2>2, BuySums DEF mallVars
    <3> QED
      BY <1>1, <3>1 DEF Accounted
  <2>3. CASE SellMallcoin(a, n) /\ UNCHANGED mallVars
    <3>1. LoggedIn(b)' = LoggedIn(b) /\ BoughtBy(b)' = BoughtBy(b) /\ points' = points
      BY <2>3, SellSums DEF mallVars
    <3> QED
      BY <3>1 DEF Accounted
  <2> QED
    BY <2>1, <2>2, <2>3
<1> QED
  BY <1>2, <1>3, <1>4 DEF Awarded

LEMMA StillBacked ==
  ASSUME PointsBacked, TxsStill, TradesStill, UNCHANGED <<points, awarded>>
  PROVE  PointsBacked'
BY DEF PointsBacked, Awarded, Accounted, TxsStill, TradesStill

LEMMA BackedStep ==
  ASSUME AccountsOK, PointsTypeOK, PointsBacked, [MallNext]_allVars
  PROVE  PointsBacked'
<1>1. CASE LedgerNext /\ UNCHANGED mallVars
  <2>1. ASSUME NEW a \in Addr, NEW n \in Amounts, BuyMallcoin(a, n) \/ SellMallcoin(a, n)
        PROVE  PointsBacked'
    BY <1>1, <2>1, MessageBacked
  <2>2. ASSUME NEW a \in Addr, NEW b \in Addr, NEW n \in Amounts, TransferMallcoin(a, b, n)
        PROVE  PointsBacked'
    BY <1>1, <2>2, TransferSums, StillBacked DEF mallVars
  <2>3. ASSUME \/ \E b \in Addr, n \in Amounts : MintMallcoin(b, n)
               \/ \E c \in Currency, r \in QuotedRates : SetCurrencyRate(c, r)
               \/ BeginBlock
        PROVE  PointsBacked'
    <3>1. txs' = txs /\ trades' = trades
      BY <2>3 DEF MintMallcoin, SetCurrencyRate, BeginBlock
    <3> QED
      BY <1>1, <3>1, StillSums, StillBacked DEF mallVars
  <2> QED
    BY <1>1, <2>1, <2>2, <2>3 DEF LedgerNext
<1>2. CASE (\E a \in Addr : IssueBadge(a)) \/ UNCHANGED allVars
  <2>1. txs' = txs /\ trades' = trades /\ UNCHANGED <<points, awarded>>
    BY <1>2 DEF IssueBadge, vars, allVars, mallVars
  <2> QED
    BY <2>1, StillSums, StillBacked
<1>3. ASSUME NEW c \in Addr, NEW b \in Addr, NEW type, NEW pow, NEW n \in Amounts,
             AwardPoints(c, b, type, pow, n)
      PROVE  PointsBacked'
  BY <1>3, AwardBacked
<1>4. ASSUME NEW a \in Addr, NEW n \in Amounts, ConvertToMallcoin(a, n)
      PROVE  PointsBacked'
  BY <1>4, MessageBacked
<1> QED
  BY <1>1, <1>2, <1>3, <1>4 DEF MallNext

LEMMA BackedInit == MallInit => PointsBacked
<1> SUFFICES ASSUME MallInit, NEW a \in Addr PROVE Congruent(Awarded(a), Accounted(a), W)
  BY DEF PointsBacked
<1>1. txs = [n \in {} |-> 0] /\ trades = [n \in {} |-> 0] /\ points = GenPoints
      /\ awarded[a] = 0
  BY DEF MallInit, Init
<1>2. LoggedIn(a) = 0 /\ BoughtBy(a) = 0
  <2>1. /\ {n \in DOMAIN txs : txs[n].to = a /\ txs[n].type = "mint"} = {}
        /\ {n \in DOMAIN trades : trades[n].trader = a /\ trades[n].type = "buy"} = {}
    BY <1>1
  <2> QED
    BY <2>1, SumEmpty DEF LoggedIn, BoughtBy
<1>3. Read(GenPoints, a) \in Int
  BY PointsAssumption, ReadInWord, WordSize
<1>4. Awarded(a) = Read(GenPoints, a) /\ Accounted(a) = Read(GenPoints, a)
  BY <1>1, <1>2, <1>3 DEF Awarded, Accounted
<1> QED
  BY <1>3, <1>4, CongruentSame, WordSize

(* No point is spent twice and no mint is free: awards are backed by the   *)
(* points still held and by the mints of the ledger's log.                 *)
THEOREM PointsBackTheMints == MallSpec => []PointsBackMints
<1>1. MallSpec => [](MarketInv /\ LogInv /\ AccountInv)
  BY MallchainKeepsLedger, MarketInvariant, LogInvariant, AccountInvariant, PTL DEF LedgerSpec
<1>2. MarketInv /\ LogInv /\ AccountInv => AccountsOK
  BY DEF AccountsOK, AccountInv
<1>3. AccountsOK /\ PointsTypeOK /\ PointsBacked /\ [MallNext]_allVars => PointsBacked'
  BY BackedStep
<1>4. MallSpec => []PointsBacked
  BY <1>1, <1>2, <1>3, BackedInit, PointsInvariant, PTL DEF MallSpec
<1>5. AccountsOK /\ PointsTypeOK /\ PointsBacked => PointsBackMints
  <2> SUFFICES ASSUME AccountsOK, PointsTypeOK, PointsBacked, NEW a \in Addr
               PROVE  Awarded(a) % W = Accounted(a) % W
    BY DEF PointsBackMints, Awarded, Accounted
  <2>1. Awarded(a) \in Int /\ Accounted(a) \in Int /\ Congruent(Awarded(a), Accounted(a), W)
    BY PointNumbers DEF PointsBacked
  <2> QED
    BY <2>1, ModCongruent, WordSize
<1> QED
  BY <1>1, <1>2, <1>4, <1>5, PointsInvariant, PTL

-----------------------------------------------------------------------------
(* Exports.  A store only grows between two restarts, and a restart keeps  *)
(* what the first genesis file held; after one, that is all there is.      *)
Survivors ==
  /\ DOMAIN GenWallet \subseteq DOMAIN wallet
  /\ DOMAIN GenPoints \subseteq DOMAIN points
  /\ DOMAIN points = DOMAIN completed /\ DOMAIN completed = DOMAIN lastEarned
Fresh ==
  /\ DOMAIN wallet = DOMAIN GenWallet /\ DOMAIN points = DOMAIN GenPoints
  /\ wallet = [a \in DOMAIN wallet |-> wallet[a]]
  /\ points = [a \in DOMAIN points |-> points[a]]
  /\ completed = [a \in DOMAIN completed |-> completed[a]]
  /\ lastEarned = [a \in DOMAIN lastEarned |-> lastEarned[a]]
  /\ badges = {} /\ kes = [a \in {} |-> 0]
  /\ market = [buy |-> 62, sell |-> 58, buyVol |-> 0, sellVol |-> 0]
  /\ seq = 0 /\ txs = [n \in {} |-> 0] /\ trades = [n \in {} |-> 0]
  /\ rates = [c \in {} |-> 0]
LostPair == lost = [wallet |-> lost.wallet, points |-> lost.points]
ExportInv == Survivors /\ LostPair /\ (untouched => Fresh)

LEMMA MessageKeepsStores ==
  ASSUME [MallNext]_allVars
  PROVE  Survivors => Survivors'
<1> SUFFICES ASSUME Survivors PROVE Survivors'
  OBVIOUS
<1>1. CASE LedgerNext /\ UNCHANGED mallVars
  <2>1. ASSUME NEW a \in Addr, NEW n \in Amounts, BuyMallcoin(a, n) \/ SellMallcoin(a, n)
        PROVE  DOMAIN wallet \subseteq DOMAIN wallet'
    <3>1. \/ wallet' = Write(wallet, a, Add(Read(wallet, a), n))
          \/ wallet' = Write(wallet, a, wallet[a] - n)
      BY <2>1 DEF BuyMallcoin, MintToWallet, Credit, SellMallcoin
    <3>2. DOMAIN wallet' = DOMAIN wallet \cup {a}
      BY <3>1, WriteDomain, Zenon
    <3> QED
      BY <3>2
  <2>2. ASSUME \/ \E a \in Addr, b \in Addr, n \in Amounts : TransferMallcoin(a, b, n)
               \/ \E b \in Addr, n \in Amounts : MintMallcoin(b, n)
               \/ \E c \in Currency, r \in QuotedRates : SetCurrencyRate(c, r)
               \/ BeginBlock
        PROVE  wallet' = wallet
    BY <2>2 DEF TransferMallcoin, MintMallcoin, SetCurrencyRate, BeginBlock
  <2>3. DOMAIN wallet \subseteq DOMAIN wallet'
    BY <1>1, <2>1, <2>2 DEF LedgerNext
  <2> QED
    BY <1>1, <2>3 DEF Survivors, mallVars
<1>2. CASE (\E a \in Addr : IssueBadge(a)) \/ UNCHANGED allVars
  BY <1>2 DEF IssueBadge, Survivors, vars, allVars, mallVars
<1>3. ASSUME NEW c \in Addr, NEW b \in Addr, NEW type, NEW pow, NEW n \in Amounts,
             AwardPoints(c, b, type, pow, n)
      PROVE  Survivors'
  <2>1. /\ DOMAIN points' = DOMAIN points \cup {b}
        /\ DOMAIN completed' = DOMAIN completed \cup {b}
        /\ DOMAIN lastEarned' = DOMAIN lastEarned \cup {b}
        /\ wallet' = wallet
    BY <1>3, WriteDomain DEF AwardPoints, Credit, vars
  <2> QED
    BY <2>1 DEF Survivors
<1>4. ASSUME NEW a \in Addr, NEW n \in Amounts, ConvertToMallcoin(a, n)
      PROVE  Survivors'
  <2>1. /\ DOMAIN points' = DOMAIN points
        /\ completed' = completed /\ lastEarned' = lastEarned
        /\ DOMAIN wallet \subseteq DOMAIN wallet'
    <3>1. /\ a \in DOMAIN points
          /\ points' = Write(points, a, points[a] - n)
          /\ wallet' = Write(wallet, a, Add(Read(wallet, a), n))
          /\ completed' = completed /\ lastEarned' = lastEarned
      BY <1>4 DEF ConvertToMallcoin, Deduct, Covers, ConversionMint, MintToUser,
                  MintToWallet, Credit
    <3>2. /\ DOMAIN wallet' = DOMAIN wallet \cup {a}
          /\ DOMAIN points' = DOMAIN points \cup {a}
      BY <3>1, WriteDomain, Zenon
    <3> QED
      BY <3>1, <3>2
  <2> QED
    BY <2>1 DEF Survivors
<1> QED
  BY <1>1, <1>2, <1>3, <1>4 DEF MallNext

LEMMA RestartRefreshes ==
  ASSUME Survivors, Restart
  PROVE  Survivors' /\ Fresh'
<1>1. /\ DOMAIN wallet' = DOMAIN GenWallet /\ DOMAIN points' = DOMAIN GenPoints
      /\ DOMAIN completed' = DOMAIN GenPoints /\ DOMAIN lastEarned' = DOMAIN GenPoints
  BY DEF Restart, Kept, Indexed, Survivors
<1>2. /\ wallet' = [a \in DOMAIN wallet' |-> wallet'[a]]
      /\ points' = [a \in DOMAIN points' |-> points'[a]]
      /\ completed' = [a \in DOMAIN completed' |-> completed'[a]]
      /\ lastEarned' = [a \in DOMAIN lastEarned' |-> lastEarned'[a]]
  BY DEF Restart, Kept
<1>3. /\ badges' = {} /\ kes' = [a \in {} |-> 0]
      /\ market' = [buy |-> 62, sell |-> 58, buyVol |-> 0, sellVol |-> 0]
      /\ seq' = 0 /\ txs' = [n \in {} |-> 0] /\ trades' = [n \in {} |-> 0]
      /\ rates' = [c \in {} |-> 0]
  BY DEF Restart
<1> QED
  BY <1>1, <1>2, <1>3 DEF Survivors, Fresh

(* Whatever messages and restarts do, the addresses of the genesis file     *)
(* keep their records, and after a restart there are no others.            *)
THEOREM ExportInvariant == ExportSpec => []ExportInv
<1>1. ExportInit => ExportInv
  BY DEF ExportInit, MallInit, Init, ExportInv, LostPair, Survivors
<1>2. ExportInv /\ [ExportNext]_chainVars => ExportInv'
  <2> SUFFICES ASSUME ExportInv, [ExportNext]_chainVars PROVE ExportInv'
    OBVIOUS
  <2>1. CASE Message
    BY <2>1, MessageKeepsStores DEF Message, ExportInv, LostPair
  <2>2. CASE Restart
    <3>1. LostPair'
      BY <2>2 DEF Restart, LostPair
    <3> QED
      BY <2>2, <3>1, RestartRefreshes DEF ExportInv
  <2>3. CASE UNCHANGED chainVars
    BY <2>3 DEF chainVars, allVars, vars, mallVars, exportVars, ExportInv, LostPair,
                 Survivors, Fresh
  <2> QED
    BY <2>1, <2>2, <2>3 DEF ExportNext
<1> QED
  BY <1>1, <1>2, PTL DEF ExportSpec

Idempotent ==
  restarts' # restarts /\ untouched =>
    UNCHANGED <<vars, points, completed, lastEarned, badges, lost>>

LEMMA OnlyRestartCounts ==
  ASSUME [ExportNext]_chainVars, restarts' # restarts
  PROVE  Restart
BY DEF ExportNext, Message, chainVars, exportVars

(* Nothing is left to lose: every record is indexed, and what a restart    *)
(* resets is as the last one left it.                                      *)
LEMMA SecondRestart ==
  ASSUME Survivors, LostPair, Fresh, Restart
  PROVE  UNCHANGED <<vars, points, completed, lastEarned, badges, lost>>
<1>1. /\ Indexed(GenWallet, wallet) = DOMAIN wallet
      /\ Indexed(GenPoints, points) = DOMAIN points
      /\ Indexed(GenPoints, completed) = DOMAIN completed
      /\ Indexed(GenPoints, lastEarned) = DOMAIN lastEarned
  BY DEF Survivors, Fresh, Indexed
<1>2. /\ wallet' = wallet /\ points' = points /\ completed' = completed
      /\ lastEarned' = lastEarned
  BY <1>1 DEF Restart, Kept, Fresh
<1>3. lost' = [wallet |-> lost.wallet, points |-> lost.points]
  BY DEF Restart, UnderEmpty, NotIndexed, Survivors, Fresh
<1> QED
  BY <1>2, <1>3 DEF Restart, Fresh, CirculatingKept, LostPair, vars

(* A restart with nothing since the last one changes no store.             *)
THEOREM RestartTwice == ExportSpec => RestartIsIdempotent
<1>1. ExportInv /\ [ExportNext]_chainVars => [Idempotent]_chainVars
  BY OnlyRestartCounts, SecondRestart DEF ExportInv, Idempotent
<1>2. ExportSpec => [][Idempotent]_chainVars
  BY <1>1, ExportInvariant, PTL DEF ExportSpec
<1> QED
  BY <1>2, PTL DEF RestartIsIdempotent, Idempotent

(* What holds of the ledger and of the points at a restart too.  That      *)
(* Circulating covers the volumes is not of them: the volumes start again  *)
(* at 0 and Circulating, which sales may have taken below the genesis      *)
(* file's, does not.                                                       *)
LastingInv == MarketCore /\ LogInv /\ PointsTypeOK

LEMMA KeptInStore ==
  ASSUME NEW f, NEW gen, NEW S, NEW T, IsStore(f, S, T)
  PROVE  IsStore(Kept(gen, f), S, T) /\ DOMAIN Kept(gen, f) = DOMAIN f \cap DOMAIN gen
BY DEF IsStore, Kept, Indexed

LEMMA RestartKeepsLasting ==
  ASSUME LastingInv, Restart
  PROVE  LastingInv'
<1>1. /\ MarketTypeOK /\ SupplyCap /\ PointsTypeOK
  BY DEF LastingInv, MarketCore
<1>2. /\ IsStore(wallet', Addr, Word)
      /\ circ' = circ /\ bank' = bank /\ height' = height /\ awarded' = awarded
      /\ kes' = [a \in {} |-> 0] /\ seq' = 0 /\ badges' = {}
      /\ market' = [buy |-> 62, sell |-> 58, buyVol |-> 0, sellVol |-> 0]
      /\ txs' = [n \in {} |-> 0] /\ trades' = [n \in {} |-> 0]
  BY <1>1, KeptInStore DEF Restart, CirculatingKept, MarketTypeOK
<1>3. MarketCore'
  <2>1. 0 \in Word /\ 58 \in Word /\ 62 \in Word /\ MaxVolume \in Nat
    BY ConstantsAssumption DEF Word
  <2>2. IsStore(kes', Addr, Word)
    BY <1>2 DEF IsStore
  <2>3. MarketTypeOK'
    BY <1>1, <1>2, <2>1, <2>2 DEF MarketTypeOK
  <2> QED
    BY <1>1, <1>2, <2>1, <2>3 DEF MarketCore, SupplyCap, PricesOrdered
<1>4. LogInv'
  BY <1>2 DEF LogInv, LogNumbersDense
<1>5. PointsTypeOK'
  <2>1. /\ IsStore(points', Addr, Word) /\ IsStore(completed', Addr, Word)
        /\ IsStore(lastEarned', Addr, Nat)
        /\ DOMAIN points' = DOMAIN completed' /\ DOMAIN completed' = DOMAIN lastEarned'
    <3>1. /\ points' = Kept(GenPoints, points) /\ completed' = Kept(GenPoints, completed)
          /\ lastEarned' = Kept(GenPoints, lastEarned)
      BY DEF Restart
    <3>2. /\ IsStore(points, Addr, Word) /\ IsStore(completed, Addr, Word)
          /\ IsStore(lastEarned, Addr, Nat)
          /\ DOMAIN points = DOMAIN completed /\ DOMAIN completed = DOMAIN lastEarned
      BY <1>1 DEF PointsTypeOK
    <3>3. IsStore(points', Addr, Word) /\ DOMAIN points' = DOMAIN points \cap DOMAIN GenPoints
      BY <3>1, <3>2, KeptInStore
    <3>4. /\ IsStore(completed', Addr, Word)
          /\ DOMAIN completed' = DOMAIN completed \cap DOMAIN GenPoints
      BY <3>1, <3>2, KeptInStore
    <3>5. /\ IsStore(lastEarned', Addr, Nat)
          /\ DOMAIN lastEarned' = DOMAIN lastEarned \cap DOMAIN GenPoints
      BY <3>1, <3>2, KeptInStore
    <3> QED
      BY <3>2, <3>3, <3>4, <3>5
  <2> QED
    BY <1>1, <1>2, <2>1 DEF PointsTypeOK
<1> QED
  BY <1>3, <1>4, <1>5 DEF LastingInv

LEMMA MessageKeepsLasting ==
  ASSUME LastingInv, [MallNext]_allVars
  PROVE  LastingInv'
<1>1. [Next]_vars
  BY MallStepIsLedgerStep
<1> QED
  BY <1>1, MarketStep, LogStep, PointsStep DEF LastingInv, PointsInv

LEMMA LastingInvariant == ExportSpec => []LastingInv
<1>1. ExportInit => LastingInv
  <2> SUFFICES ASSUME ExportInit PROVE LastingInv
    OBVIOUS
  <2>1. MallInit /\ Init
    BY DEF ExportInit, MallInit
  <2>2. PointsTypeOK
    BY <2>1, PointsInit
  <2> QED
    BY <2>1, <2>2, MarketInit DEF LastingInv, MarketInv, Init, LogInv, LogNumbersDense
<1>2. LastingInv /\ [ExportNext]_chainVars => LastingInv'
  <2> SUFFICES ASSUME LastingInv, [ExportNext]_chainVars PROVE LastingInv'
    OBVIOUS
  <2>1. Restart \/ [MallNext]_allVars
    BY DEF ExportNext, Message, chainVars
  <2> QED
    BY <2>1, RestartKeepsLasting, MessageKeepsLasting
<1> QED
  BY <1>1, <1>2, PTL DEF ExportSpec

(* However often the chain is exported and started again, circulation      *)
(* stays within the supply, the prices keep their order and the new logs   *)
(* are dense.                                                              *)
THEOREM MarketOutlivesRestarts == ExportSpec => [](SupplyCap /\ PricesOrdered /\ LogNumbersDense)
<1>1. LastingInv => SupplyCap /\ PricesOrdered /\ LogNumbersDense
  BY DEF LastingInv, MarketCore, LogInv
<1> QED
  BY <1>1, LastingInvariant, PTL

(* Coins and Circulating.  The sum over a store follows what is written    *)
(* into it, and what a restart keeps, with one of the records it drops, is *)
(* a part of it.                                                           *)
LEMMA HeldWritten ==
  ASSUME NEW f, IsStore(f, Addr, Word), IsFiniteSet(DOMAIN f), NEW k, NEW v \in Word
  PROVE  /\ IsFiniteSet(DOMAIN Write(f, k, v))
         /\ Held(f) \in Int
         /\ Held(Write(f, k, v)) = Held(f) + v - Read(f, k)
<1> DEFINE S == DOMAIN f
           g == Write(f, k, v)
<1>1. \A x \in S : f[x] \in Int
  BY WordSize DEF IsStore
<1>2. v \in Int
  BY WordSize
<1>3. SumFunctionOnSet(f, S) \in Int
  BY <1>1, SumClosed
<1>4. CASE k \in S
  <2>1. DOMAIN g = S /\ g[k] = v /\ \A x \in S \ {k} : f[x] = g[x]
    BY <1>4 DEF Write
  <2>2. SumFunctionOnSet(g, S) = SumFunctionOnSet(f, S) + g[k] - f[k]
    <3> HIDE DEF S, g
    <3> QED
      BY <1>1, <1>2, <1>4, <2>1, SumUpdate DEF S
  <2>3. Read(f, k) = f[k]
    BY <1>4 DEF Read
  <2> QED
    BY <1>3, <2>1, <2>2, <2>3 DEF Held
<1>5. CASE k \notin S
  <2>1. DOMAIN g = S \cup {k} /\ g[k] = v /\ \A x \in S : f[x] = g[x]
    BY <1>5 DEF Write
  <2>2. IsFiniteSet(S \cup {k})
    BY FS_AddElement
  <2>3. SumFunctionOnSet(g, S \cup {k}) = SumFunctionOnSet(g, S) + g[k]
    <3> HIDE DEF S, g
    <3>1. \A x \in S \cup {k} : g[x] \in Int
      BY <1>1, <1>2, <2>1
    <3> QED
      BY <1>5, <3>1, SumAdd DEF S
  <2>4. SumFunctionOnSet(f, S) = SumFunctionOnSet(g, S)
    <3> HIDE DEF g
    <3> QED
      BY <2>1, SumSame
  <2>5. Read(f, k) = 0
    BY <1>5 DEF Read
  <2> HIDE DEF S, g
  <2> QED
    BY <1>2, <1>3, <2>1, <2>2, <2>3, <2>4, <2>5 DEF Held, S, g
<1> QED
  BY <1>4, <1>5

LEMMA HeldKept ==
  ASSUME NEW f, IsStore(f, Addr, Word), IsFiniteSet(DOMAIN f), NEW gen
  PROVE  /\ IsFiniteSet(DOMAIN Kept(gen, f))
         /\ Held(Kept(gen, f)) \in Nat /\ Held(f) \in Nat
         /\ Held(Kept(gen, f)) <= Held(f)
         /\ \A a \in NotIndexed(gen, f) : Held(Kept(gen, f)) + f[a] <= Held(f)
<1> DEFINE S == DOMAIN f
           T == Indexed(gen, f)
           g == Kept(gen, f)
<1>1. \A x \in S : f[x] \in Nat
  BY ConstantsAssumption DEF IsStore, Word
<1>2. T \subseteq S /\ DOMAIN g = T /\ \A x \in T : f[x] = g[x]
  BY DEF Indexed, Kept
<1>3. IsFiniteSet(T)
  BY <1>2, FS_Subset
<1>4. SumFunctionOnSet(f, T) = SumFunctionOnSet(g, T)
  <2> HIDE DEF T, g
  <2> QED
    BY <1>2, <1>3, SumSame
<1>5. SumFunctionOnSet(f, S) \in Nat /\ SumFunctionOnSet(f, T) \in Nat
  <2> HIDE DEF S, T
  <2>1. \A x \in T : f[x] \in Nat
    BY <1>1, <1>2
  <2> QED
    BY <1>1, <1>3, <2>1, SumClosed DEF S
<1>6. SumFunctionOnSet(f, T) <= SumFunctionOnSet(f, S)
  <2> HIDE DEF T
  <2> QED
    BY <1>1, <1>2, SumMonotone
<1>7. ASSUME NEW a \in NotIndexed(gen, f)
      PROVE  SumFunctionOnSet(f, T) + f[a] <= SumFunctionOnSet(f, S)
  <2>1. a \notin T /\ T \cup {a} \subseteq S
    BY DEF NotIndexed, Indexed
  <2> HIDE DEF T, S
  <2>2. \A x \in T \cup {a} : f[x] \in Int
    BY <1>1, <2>1
  <2>3. SumFunctionOnSet(f, T \cup {a}) = SumFunctionOnSet(f, T) + f[a]
    BY <1>3, <2>1, <2>2, SumAdd
  <2>4. SumFunctionOnSet(f, T \cup {a}) <= SumFunctionOnSet(f, S)
    BY <1>1, <2>1, SumMonotone DEF S
  <2> QED
    BY <2>3, <2>4
<1> HIDE DEF S, T, g
<1> QED
  BY <1>2, <1>3, <1>4, <1>5, <1>6, <1>7 DEF Held, S, T, g

(* The coins are counted as natural numbers; a record under "" is one or   *)
(* there is none.                                                          *)
CountInv ==
  /\ IsFiniteSet(DOMAIN wallet)
  /\ lost.wallet \in Int
  /\ CoinsCounted

LEMMA MintCounted ==
  ASSUME MarketCore, CountInv, NEW a \in Addr, NEW n \in Word, MintToWallet(a, n),
         lost' = lost
  PROVE  CountInv'
<1>1. IsStore(wallet, Addr, Word)
  BY DEF MarketCore, MarketTypeOK
<1>2. Read(wallet, a) \in Word /\ Add(Read(wallet, a), n) \in Word
  BY <1>1, ReadInWord, AddInWord
<1>3. /\ IsFiniteSet(DOMAIN wallet')
      /\ Held(wallet) \in Int
      /\ Held(wallet') = Held(wallet) + Add(Read(wallet, a), n) - Read(wallet, a)
  BY <1>1, <1>2, HeldWritten DEF MintToWallet, Credit, CountInv
<1>4. circ' = circ + n
  BY MintEffect
<1>5. Add(Read(wallet, a), n) <= Read(wallet, a) + n
  BY <1>2, ConstantsAssumption DEF Add, Word
<1>6. /\ Read(wallet, a) \in Int /\ n \in Int /\ Add(Read(wallet, a), n) \in Int
  BY <1>2, WordSize
<1>7. /\ Dropped' = Dropped /\ Dropped \in Int
      /\ circ \in Int /\ GenCirculating \in Int
  BY MarketNumbers DEF Dropped, CountInv
<1>8. Held(GenWallet) \in Int
  BY ConstantsAssumption, ExportAssumption, HeldKept
<1>9. CoinsCounted'
  BY <1>3, <1>4, <1>5, <1>6, <1>7, <1>8 DEF CountInv, CoinsCounted
<1> QED
  BY <1>3, <1>9 DEF CountInv

LEMMA SaleCounted ==
  ASSUME MarketCore, CountInv, NEW a \in Addr, NEW n \in Amounts, SellMallcoin(a, n),
         lost' = lost
  PROVE  CountInv'
<1>1. IsStore(wallet, Addr, Word)
  BY DEF MarketCore, MarketTypeOK
<1>2. /\ a \in DOMAIN wallet /\ wallet[a] \in Word /\ wallet[a] >= n
      /\ Read(wallet, a) = wallet[a]
  BY <1>1 DEF SellMallcoin, Covers, IsStore, Read
<1>3. n \in Nat /\ wallet[a] \in Nat
  BY <1>2, ConstantsAssumption DEF Word
<1>4. wallet[a] - n \in Word
  BY <1>2, <1>3, ConstantsAssumption DEF Word
<1>5. /\ IsFiniteSet(DOMAIN wallet')
      /\ Held(wallet) \in Int
      /\ Held(wallet') = Held(wallet) + (wallet[a] - n) - wallet[a]
  BY <1>1, <1>2, <1>4, HeldWritten DEF SellMallcoin, CountInv
<1>6. circ' = IF circ >= n THEN circ - n ELSE circ
  BY DEF SellMallcoin
<1>7. /\ Dropped' = Dropped /\ Dropped \in Int
      /\ circ \in Int /\ GenCirculating \in Int
  BY MarketNumbers DEF Dropped, CountInv
<1>8. Held(GenWallet) \in Int
  BY ConstantsAssumption, ExportAssumption, HeldKept
<1>9. CoinsCounted'
  BY <1>3, <1>5, <1>6, <1>7, <1>8 DEF CountInv, CoinsCounted
<1> QED
  BY <1>5, <1>9 DEF CountInv

LEMMA StillCounted ==
  ASSUME CountInv, wallet' = wallet, circ' = circ, lost' = lost
  PROVE  CountInv'
BY DEF CountInv, CoinsCounted, Dropped

LEMMA MessageCounted ==
  ASSUME MarketCore, CountInv, [MallNext]_allVars, lost' = lost
  PROVE  CountInv'
<1>1. [Next]_vars
  BY MallStepIsLedgerStep
<1>2. ASSUME NEW a \in Addr, NEW n \in Amounts, BuyMallcoin(a, n) \/ MintToUser(a, n)
      PROVE  CountInv'
  <2>1. n \in Word /\ MintToWallet(a, n)
    BY <1>2, ConstantsAssumption DEF BuyMallcoin, MintToUser
  <2> QED
    BY <2>1, MintCounted
<1>3. ASSUME NEW a \in Addr, NEW n \in Amounts, SellMallcoin(a, n)
      PROVE  CountInv'
  BY <1>3, SaleCounted
<1>4. ASSUME \/ \E a \in Addr, b \in Addr, n \in Amounts : TransferMallcoin(a, b, n)
             \/ \E b \in Addr, n \in Amounts : MintMallcoin(b, n)
             \/ \E c \in Currency, r \in QuotedRates : SetCurrencyRate(c, r)
             \/ BeginBlock
             \/ UNCHANGED vars
      PROVE  CountInv'
  <2>1. wallet' = wallet /\ circ' = circ
    BY <1>4 DEF TransferMallcoin, MintMallcoin, SetCurrencyRate, BeginBlock, vars
  <2> QED
    BY <2>1, StillCounted
<1> QED
  BY <1>1, <1>2, <1>3, <1>4 DEF Next

LEMMA RestartCounted ==
  ASSUME MarketCore, CountInv, Restart
  PROVE  CountInv'
<1> DEFINE kept == Kept(GenWallet, wallet)
           others == NotIndexed(GenWallet, wallet)
<1>1. IsStore(wallet, Addr, Word) /\ IsFiniteSet(DOMAIN wallet)
  BY DEF MarketCore, MarketTypeOK, CountInv
<1>2. /\ IsFiniteSet(DOMAIN kept)
      /\ Held(kept) \in Nat /\ Held(wallet) \in Nat
      /\ Held(kept) <= Held(wallet)
      /\ \A a \in others : Held(kept) + wallet[a] <= Held(wallet)
  BY <1>1, HeldKept
<1>3. wallet' = kept /\ circ' = circ
  BY DEF Restart, CirculatingKept
<1>4. lost'.wallet \in UnderEmpty(GenWallet, wallet, lost.wallet)
  BY DEF Restart
<1>5. \A a \in others : wallet[a] \in Nat
  BY <1>1, ConstantsAssumption DEF IsStore, NotIndexed, Word
<1> HIDE DEF kept, others
<1>6. \/ lost'.wallet = lost.wallet
      \/ \E a \in others : lost'.wallet = wallet[a]
  BY <1>4 DEF UnderEmpty, others
<1>7. /\ lost'.wallet \in Int
      /\ Held(kept) + Dropped' <= Held(wallet) + Dropped
      /\ Dropped \in Int /\ Dropped' \in Int
  <2>1. CASE lost'.wallet = lost.wallet
    BY <1>2, <2>1 DEF CountInv, Dropped
  <2>2. ASSUME NEW a \in others, lost'.wallet = wallet[a]
        PROVE  /\ lost'.wallet \in Int
               /\ Held(kept) + Dropped' <= Held(wallet) + Dropped
               /\ Dropped \in Int /\ Dropped' \in Int
    BY <1>2, <1>5, <2>2 DEF CountInv, Dropped
  <2> QED
    BY <1>6, <2>1, <2>2
<1>8. Held(GenWallet) \in Int
  BY ConstantsAssumption, ExportAssumption, HeldKept
<1>9. circ \in Int /\ GenCirculating \in Int
  BY MarketNumbers
<1>10. CoinsCounted'
  BY <1>2, <1>3, <1>7, <1>8, <1>9 DEF CountInv, CoinsCounted
<1> QED
  BY <1>2, <1>3, <1>7, <1>10 DEF CountInv

(* However messages and restarts follow one another, the coins in wallets  *)
(* are counted by Circulating, so the supply cap bounds them too.          *)
THEOREM CoinsStayCounted == ExportSpec => []CoinsCounted
<1>1. ExportInit => CountInv
  <2> SUFFICES ASSUME ExportInit PROVE CountInv
    OBVIOUS
  <2>1. wallet = GenWallet /\ circ = GenCirculating /\ lost.wallet = -1
    BY DEF ExportInit, MallInit, Init
  <2>2. Held(GenWallet) \in Int /\ GenCirculating \in Int
    BY ConstantsAssumption, ExportAssumption, HeldKept
  <2>3. Dropped = 0
    BY <2>1 DEF Dropped
  <2> QED
    BY <2>1, <2>2, <2>3, ExportAssumption DEF CountInv, CoinsCounted
<1>2. LastingInv /\ CountInv /\ [ExportNext]_chainVars => CountInv'
  <2> SUFFICES ASSUME MarketCore, CountInv, [ExportNext]_chainVars PROVE CountInv'
    BY DEF LastingInv
  <2>1. Restart \/ ([MallNext]_allVars /\ lost' = lost)
    BY DEF ExportNext, Message, chainVars, exportVars
  <2> QED
    BY <2>1, RestartCounted, MessageCounted
<1>3. CountInv => CoinsCounted
  BY DEF CountInv
<1> QED
  BY <1>1, <1>2, <1>3, LastingInvariant, PTL DEF ExportSpec

(* No restart issues coins, and none lets a later message issue them for   *)
(* nothing.                                                                *)
THEOREM NoFreeIssueAfterRestart == ExportSpec => IssueIsPaidFor
<1>1. LastingInv /\ [ExportNext]_chainVars => [IssuePaid]_allVars
  <2> SUFFICES ASSUME LastingInv, [ExportNext]_chainVars PROVE [IssuePaid]_allVars
    OBVIOUS
  <2>1. CASE Restart
    <3>1. circ' = circ /\ circ \in Nat
      BY <2>1, MarketNumbers DEF Restart, CirculatingKept, LastingInv
    <3> QED
      BY <3>1 DEF IssuePaid
  <2>2. CASE [MallNext]_allVars
    BY <2>2, StepIssuePaid DEF LastingInv
  <2> QED
    BY <2>1, <2>2 DEF ExportNext, Message, chainVars
<1>2. ExportSpec => [][IssuePaid]_allVars
  BY <1>1, LastingInvariant, PTL DEF ExportSpec
<1> QED
  BY <1>2, PTL DEF IssueIsPaidFor, IssuePaid
==============================================================================
