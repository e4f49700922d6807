------------------------------- MODULE Mlcoin -------------------------------
(***************************************************************************)
(* The x/mlcoin module of the Mallchain application: the in-app wallets,   *)
(* the KES balances, the emission record, the linear market maker, the     *)
(* transaction and trade logs, the community-driven currency rates and the *)
(* bank coins the module moves.                                            *)
(*                                                                         *)
(* An action is one delivered message, one keeper call of another module   *)
(* or one BeginBlock.  The SDK runs a message on a cached store and drops  *)
(* the cache when the handler returns an error, so a rejected message is a *)
(* stuttering step and the guard of an action is the conjunction of the    *)
(* handler's early returns.                                                *)
(***************************************************************************)
EXTENDS Integers, FiniteSets, FiniteSetsExt

CONSTANTS
  Addr,           \* account addresses
  Currency,       \* currencies whose rate to KES the module can store
  Amounts,        \* the MLCN amounts messages carry (uint64)
  QuotedRates,    \* the rates SetCurrencyRate carries (uint64)
  W,              \* the number of uint64 values: 2^64 in the build
  Precision,      \* a rate computed in float64 is off by at most one in Precision:
                  \* 2^49 in the build, eight roundings of one in 2^53 each
  Unfit,          \* what a float64 of W or more converts to: Go leaves it to the machine
  TotalSupply,    \* EmissionState.TotalSupply, never written after genesis
  DailyLimit,     \* EmissionState.DailyLimit, never written after genesis
  StepUnit,       \* MLCN per price step: 1000 in the code
  Window,         \* epochBlocks: 1000 in the code
  GenWallet,      \* genesis wallets: a store of balances
  GenKes,         \* genesis KES balances
  GenCirculating, \* EmissionState.Circulating at genesis
  MaxHeight,      \* bound: the last block considered
  MaxSeq,         \* bound: the log entries considered
  MaxVolume,      \* bound: the volume bought, and the volume sold
  MaxBank         \* bound: the bank coins of a recipient of a mint

Word == 0 .. (W - 1)

(* A collections.Map from S to T holds f. *)
IsStore(f, S, T) == DOMAIN f \subseteq S /\ f \in [DOMAIN f -> T]

(* The two sums say that uint64 arithmetic does not wrap on supplies of    *)
(* genesis' size (670e12 and 8.3e9 against 2^64), and that volumes stay    *)
(* below 2^64 by more than the initial price.                              *)
ASSUME ConstantsAssumption ==
  /\ W \in Nat
  /\ Precision \in Nat \ {0}
  /\ Unfit \subseteq Word /\ Unfit # {}
  /\ Amounts \subseteq Word
  /\ QuotedRates \subseteq Word
  /\ TotalSupply \in Nat /\ DailyLimit \in Nat
  /\ TotalSupply + DailyLimit < W
  /\ StepUnit \in Nat \ {0}
  /\ Window \in Nat
  /\ IsStore(GenWallet, Addr, Word)
  /\ IsStore(GenKes, Addr, Word)
  /\ GenCirculating \in 0 .. TotalSupply
  /\ MaxHeight \in Nat /\ MaxSeq \in Nat /\ MaxVolume \in Nat /\ MaxBank \in Nat
  /\ MaxVolume + 62 < W

-----------------------------------------------------------------------------
VARIABLES
  wallet,  \* WalletBalance: address -> Balance, for the stored records
  kes,     \* KesBalance: address -> Balance, scaled by 100
  circ,    \* EmissionState.Circulating
  market,  \* MarketPrice: the two prices and the two volumes
  seq,     \* TransactionCount: the next sequence number
  txs,     \* Transactions: the record "TX-n" under n
  trades,  \* TradeHistory: the record "TR-n" under n
  rates,   \* CurrencyRates: currency -> RateToKes
  bank,    \* x/bank: address -> coins of denom "mlc"
  height   \* the height of the current block

vars == <<wallet, kes, circ, market, seq, txs, trades, rates, bank, height>>

-----------------------------------------------------------------------------
(* uint64 addition and multiplication *)
Add(a, b) == IF a + b < W THEN a + b ELSE a + b - W
Mul(a, b) == (a * b) % W

(* Map.Get with the zero record a handler starts from, and Map.Set. *)
Read(f, k) == IF k \in DOMAIN f THEN f[k] ELSE 0
Write(f, k, v) == [x \in DOMAIN f \cup {k} |-> IF x = k THEN v ELSE f[x]]

(* A balance record exists and covers n; a balance is credited with n. *)
CoversUnchecked(f, k, n) == k \in DOMAIN f   \* mutant
Covers(f, k, n) == k \in DOMAIN f /\ f[k] >= n
CreditFresh(f, k, n) == Write(f, k, n)   \* mutant
Credit(f, k, n) == Write(f, k, Add(Read(f, k), n))

(* Prices move one per StepUnit MLCN, at least one, and not below one. *)
PriceStep(n) == IF n \div StepUnit = 0 THEN 1 ELSE n \div StepUnit
LowerToZero(price, step) == IF price > step THEN price - step ELSE 0   \* mutant
LowerWrapped(price, step) == (price - step) % W   \* mutant
Lower(price, step) == IF price > step THEN price - step ELSE 1

System == "system"
Transaction(from, to, n, type) ==
  [from |-> from, to |-> to, amount |-> n, type |-> type, height |-> height]
TradeSwapped(who, type, n, k, price) ==   \* mutant
  [trader |-> who, type |-> type, mlcn |-> k, kes |-> price, price |-> n,
   height |-> height]
Trade(who, type, n, k, price) ==
  [trader |-> who, type |-> type, mlcn |-> n, kes |-> k, price |-> price,
   height |-> height]

-----------------------------------------------------------------------------
Init ==
  /\ wallet = GenWallet
  /\ kes = GenKes
  /\ circ = GenCirculating
  /\ market = [buy |-> 62, sell |-> 58, buyVol |-> 0, sellVol |-> 0]
  /\ seq = 0
  /\ txs = [n \in {} |-> 0]
  /\ trades = [n \in {} |-> 0]
  /\ rates = [c \in {} |-> 0]
  /\ bank = [a \in Addr |-> 0]
  /\ height = 1

(* MintToWallet with minting enabled.  The supply check adds two uint64;   *)
(* the daily limit is compared with this amount alone.  Its transaction    *)
(* record is the caller's first one.                                       *)
SupplyLeft(n) == circ < TotalSupply   \* mutant
WithinSupply(n) == Add(circ, n) <= TotalSupply
IssueLost(n) == circ   \* mutant
Issue(n) == Add(circ, n)

MintToWallet(a, n) ==
  /\ WithinSupply(n)
  /\ n <= DailyLimit
  /\ wallet' = Credit(wallet, a, n)
  /\ circ' = Issue(n)

MintUnrecorded(a, n) == txs   \* mutant
MintRecord(a, n) == Write(txs, seq, Transaction(System, a, n, "mint"))

(* The trade carries the price after the adjustment. *)
BuyMallcoin(a, n) ==
  LET paid == Mul(n, market.buy)
      step == PriceStep(n)
  IN  /\ seq + 2 <= MaxSeq /\ market.buyVol + n <= MaxVolume
      /\ n # 0
      /\ Covers(kes, a, paid)
      /\ kes' = Write(kes, a, kes[a] - paid)
      /\ MintToWallet(a, n)
      /\ market' = [buy |-> Add(market.buy, step),
                    sell |-> Add(market.sell, step),
                    buyVol |-> Add(market.buyVol, n),
                    sellVol |-> market.sellVol]
      /\ txs' = MintRecord(a, n)
      /\ trades' = Write(trades, seq + 1, Trade(a, "buy", n, paid, market'.buy))
      /\ seq' = seq + 2
      /\ UNCHANGED <<rates, bank, height>>

(* Circulating is left alone when it is smaller than the amount sold; the  *)
(* wallet's Locked field is not consulted.                                 *)
SellMallcoin(a, n) ==
  LET earned == Mul(n, market.sell)
      step == PriceStep(n)
  IN  /\ seq + 2 <= MaxSeq /\ market.sellVol + n <= MaxVolume
      /\ n # 0
      /\ Covers(wallet, a, n)
      /\ wallet' = Write(wallet, a, wallet[a] - n)
      /\ circ' = IF circ >= n THEN circ - n ELSE circ
      /\ kes' = Credit(kes, a, earned)
      /\ market' = [buy |-> Lower(market.buy, step),
                    sell |-> Lower(market.sell, step),
                    buyVol |-> market.buyVol,
                    sellVol |-> Add(market.sellVol, n)]
      /\ trades' = Write(trades, seq, Trade(a, "sell", n, earned, market'.sell))
      /\ txs' = Write(txs, seq + 1, Transaction(a, System, n, "sell"))
      /\ seq' = seq + 2
      /\ UNCHANGED <<rates, bank, height>>

(* The mint another module makes through the keeper interface. *)
MintToUser(a, n) ==
  /\ seq + 1 <= MaxSeq
  /\ MintToWallet(a, n)
  /\ txs' = MintRecord(a, n)
  /\ seq' = seq + 1
  /\ UNCHANGED <<kes, market, trades, rates, bank, height>>

(* Moves bank coins, not wallets.  An amount of 2^63 or more is a negative *)
(* int64, and building the coin panics.                                    *)
TransferMallcoin(a, b, n) ==
  /\ seq + 1 <= MaxSeq
  /\ 2 * n < W
  /\ bank[a] >= n
  /\ bank' = IF a = b THEN bank ELSE [bank EXCEPT ![a] = @ - n, ![b] = @ + n]
  /\ txs' = Write(txs, seq, Transaction(a, b, n, "transfer"))
  /\ seq' = seq + 1
  /\ UNCHANGED <<wallet, kes, circ, market, trades, rates, height>>

(* By the authority: bank coins, with no supply check and no record. *)
MintMallcoin(b, n) ==
  /\ bank[b] + n <= MaxBank
  /\ n # 0 /\ 2 * n < W
  /\ bank' = [bank EXCEPT ![b] = @ + n]
  /\ UNCHANGED <<wallet, kes, circ, market, seq, txs, trades, rates, height>>

(* By the authority.  The handler is tested through the message server,    *)
(* but the service in tx.proto does not list it: in this build no          *)
(* transaction reaches it, and the store of rates stays empty.             *)
SetCurrencyRate(c, r) ==
  /\ rates' = Write(rates, c, r)
  /\ UNCHANGED <<wallet, kes, circ, market, seq, txs, trades, bank, height>>

-----------------------------------------------------------------------------
(* UpdateCurrencyRatesFromCommunity, at the start of every block: each     *)
(* rate moves by a tenth of net/total, the demand in the window, rounded   *)
(* and not below one.                                                      *)
TradesSince(h) == {n \in DOMAIN trades :
                     trades[n].height >= IF h > Window THEN h - Window ELSE 0}
Coins == [n \in DOMAIN trades |-> trades[n].mlcn]
Volume(type, h) ==
  SumFunctionOnSet(Coins, {n \in TradesSince(h) : trades[n].type = type})

(* The sums are uint64, and so is their own; the demand is the difference  *)
(* of two int64 casts.                                                     *)
Int64(n) == IF 2 * n < W THEN n ELSE n - W
Activity(bought, sold) == (bought + sold) % W
NetDemand(bought, sold) == Int64((bought - sold) % W)

(* The float64 that comes for num/den, off by up to err/den, as a stored   *)
(* rate: anything below one is one, and what the word cannot hold becomes  *)
(* what the machine makes of it.                                           *)
ConvertedWide(num, den, err) ==   \* mutant
  {n \in 1 .. 2 * W : num - err <= den * n /\ den * n <= num + err}
    \cup (IF num <= err THEN {1} ELSE {})
Converted(num, den, err) ==
  {n \in Word \ {0} : num - err <= den * n /\ den * n <= num + err}
    \cup (IF num <= err THEN {1} ELSE {})
    \cup (IF den * W <= num + err THEN Unfit ELSE {})

(* old * (1 + net / (10 * total)), off by a half for the rounding to an    *)
(* integer and by one in Precision for those of the float64 operations.    *)
Magnitude(n) == IF n < 0 THEN 0 - n ELSE n
NudgedByAll(old, net, total) ==   \* mutant
  Converted(2 * Precision * old * (total + net), 2 * Precision * total,
            Precision * total + 2 * old * (total + Magnitude(net)))
Nudged(old, net, total) ==
  Converted(2 * Precision * old * (10 * total + net),
            2 * Precision * (10 * total),
            Precision * (10 * total) + 2 * old * (10 * total + Magnitude(net)))

NudgedRates(net, total) ==
  LET near(c) == Nudged(rates[c], net, total)
  IN  {f \in [DOMAIN rates -> UNION {near(c) : c \in DOMAIN rates}] :
         \A c \in DOMAIN rates : f[c] \in near(c)}

BeginBlock ==
  LET bought == Volume("buy", height + 1) % W
      sold   == Volume("sell", height + 1) % W
  IN  /\ height < MaxHeight
      /\ height' = height + 1
      /\ rates' \in IF Activity(bought, sold) = 0 THEN {rates}
                   ELSE NudgedRates(NetDemand(bought, sold), Activity(bought, sold))
      /\ UNCHANGED <<wallet, kes, circ, market, seq, txs, trades, bank>>

-----------------------------------------------------------------------------
Next ==
  \/ \E a \in Addr, n \in Amounts : BuyMallcoin(a, n)
  \/ \E a \in Addr, n \in Amounts : SellMallcoin(a, n)
  \/ \E a \in Addr, n \in Amounts : MintToUser(a, n)
  \/ \E a \in Addr, b \in Addr, n \in Amounts : TransferMallcoin(a, b, n)
  \/ \E b \in Addr, n \in Amounts : MintMallcoin(b, n)
  \/ \E c \in Currency, r \in QuotedRates : SetCurrencyRate(c, r)
  \/ BeginBlock

Spec == Init /\ [][Next]_vars

-----------------------------------------------------------------------------
(* Every variable holds what its store can hold: balances, prices, volumes *)
(* and rates are uint64 values whatever the handlers add, multiply or      *)
(* convert, and a record's number is below the sequence.                   *)
LedgerTypeOK ==
  /\ IsStore(wallet, Addr, Word)
  /\ IsStore(kes, Addr, Word)
  /\ circ \in Word
  /\ market \in [buy : Word, sell : Word, buyVol : Word, sellVol : Word]
  /\ seq \in Nat
  /\ DOMAIN txs \cup DOMAIN trades \subseteq 0 .. (seq - 1)
  /\ bank \in [Addr -> Nat]
  /\ height \in Nat

TypeOK == LedgerTypeOK /\ IsStore(rates, Currency, Word)

(* The coins the emission record calls circulating never exceed the total  *)
(* supply, whichever of the two minting paths takes them.                  *)
SupplyCap == circ <= TotalSupply

(* Both prices stay at least 1 and the buy price stays above the sell      *)
(* price by at most the initial spread, whatever order of trades drives    *)
(* one of them into its floor: the market never pays for a coin more than  *)
(* it would charge at that moment.                                         *)
PricesOrdered ==
  /\ 1 <= market.sell
  /\ market.sell <= market.buy
  /\ market.buy <= market.sell + 4

(* Circulating against the market's own volumes: it may overstate the net  *)
(* issue (a sale larger than it is not deducted, conversions mint outside  *)
(* the market), it never understates it.                                   *)
CirculatingCoversVolumes ==
  circ + market.sellVol >= GenCirculating + market.buyVol

(* Transactions and trades draw their numbers from one sequence: no number *)
(* is used twice, so no record is ever overwritten, and none is skipped.   *)
LogNumbersDense ==
  /\ DOMAIN txs \cap DOMAIN trades = {}
  /\ DOMAIN txs \cup DOMAIN trades = 0 .. (seq - 1)

(* Replaying the transaction log over genesis gives every wallet: each     *)
(* mint, by purchase or by conversion, and each sale left its record.      *)
Moved == [n \in DOMAIN txs |-> txs[n].amount]
LoggedIn(a)  == SumFunctionOnSet(Moved,
                  {n \in DOMAIN txs : txs[n].to = a /\ txs[n].type = "mint"})
LoggedOut(a) == SumFunctionOnSet(Moved,
                  {n \in DOMAIN txs : txs[n].from = a /\ txs[n].type = "sell"})
WalletsMatchLog ==
  \A a \in Addr :
    Read(wallet, a) = (Read(GenWallet, a) + LoggedIn(a) - LoggedOut(a)) % W

(* Replaying the trade log over genesis gives every KES balance. *)
Paid == [n \in DOMAIN trades |-> trades[n].kes]
Earned(a, type) == SumFunctionOnSet(Paid,
                     {n \in DOMAIN trades : trades[n].trader = a
                                            /\ trades[n].type = type})
KesMatchesTrades ==
  \A a \in Addr :
    Read(kes, a) = (Read(GenKes, a) + Earned(a, "sell") - Earned(a, "buy")) % W

(* The volumes of the market are those of the trades it recorded. *)
VolumesMatchTrades ==
  /\ market.buyVol = Volume("buy", 0)
  /\ market.sellVol = Volume("sell", 0)

(* A block moves a stored rate by at most a tenth of it and the roundings, *)
(* never against the window's net demand, and not at all without trades.   *)
(* That is so while the volumes are int64 and a tenth more is still a word *)
(* (Fits); the direction is sure where float64 can tell the rates apart.   *)
Fits(old) == 11 * old * (Precision + 1) + 5 * Precision < 10 * Precision * W
RatesFollowDemand ==
  [][ \A c \in DOMAIN rates :
        LET bought == Volume("buy", height')
            sold   == Volume("sell", height')
            old    == rates[c]
            new    == rates'[c]
        IN  height' # height =>
              /\ bought + sold = 0 => new = old
              /\ 2 * bought < W /\ 2 * sold < W /\ bought + sold # 0 /\ Fits(old) =>
                   /\ new >= 1
                   /\ 2 * old < Precision /\ bought > sold => new >= old
                   /\ 2 * old < Precision /\ bought < sold /\ old >= 1 => new <= old
                   /\ old >= 1 => 10 * Precision * new
                                    <= 11 * old * (Precision + 1) + 5 * Precision
                   /\ 10 * Precision * new
                         >= 9 * Precision * old - 11 * old - 5 * Precision ]_<<rates, height>>
-----------------------------------------------------------------------------
Maker == INSTANCE MarketMaker
           WITH Cap <- TotalSupply, Limit <- DailyLimit, Genesis <- GenCirculating,
                coins <- circ, ask <- market.buy, bid <- market.sell

(* The ledger, with its uint64 sums, implements the market maker on        *)
(* unbounded integers: no wrap of Circulating or of a price can be seen,   *)
(* and every other handler leaves circulation and quotes alone.            *)
ImplementsMaker == Maker!Spec
=============================================================================
