----------------------------- MODULE Mallchain -----------------------------
(***************************************************************************)
(* The chain's application modules together: x/badge and x/mallpoints      *)
(* beside the ledger of Mlcoin, whose keeper the conversion of points      *)
(* calls.  In the ledger alone MintToUser is the environment's; here the   *)
(* only caller the code has takes the points first.                        *)
(***************************************************************************)
EXTENDS Mlcoin

CONSTANTS
  GenPoints,      \* genesis points: a store
  GenOpen,        \* ConversionWindow.IsOpen at genesis, never written later
  MaxAwards       \* bound: the awards considered

ASSUME PointsAssumption ==
  /\ IsStore(GenPoints, Addr, Word)
  /\ GenOpen \in BOOLEAN
  /\ MaxAwards \in Nat

VARIABLES
  points,      \* UserPoints: address -> Points, for the stored records
  completed,   \* UserPoints: address -> TasksCompleted, with the record
  lastEarned,  \* UserPoints: address -> LastEarned, the height for its time
  badges,      \* UserBadge: the addresses whose badge is issued
  awarded      \* history: what each address was ever awarded

mallVars == <<points, completed, lastEarned, badges, awarded>>
allVars == <<vars, mallVars>>

MallInit ==
  /\ Init
  /\ points = GenPoints
  /\ completed = [a \in DOMAIN GenPoints |-> 0]
  /\ lastEarned = [a \in DOMAIN GenPoints |-> 0]
  /\ badges = {}
  /\ awarded = [a \in Addr |-> 0]

-----------------------------------------------------------------------------
HasUserBadge(a) == a \in badges

(* Anyone may issue a badge to anyone. *)
IssueBadge(recipient) ==
  /\ ~HasUserBadge(recipient)
  /\ badges' = badges \cup {recipient}
  /\ UNCHANGED <<vars, points, completed, lastEarned, awarded>>

(* An engagement award needs a proof of work - whether the digest of these *)
(* very fields has the zero bits is the client's luck - or the creator's   *)
(* badge; any other type is free.                                          *)
MayAward(creator, type, pow) == type = "engagement" => pow \/ HasUserBadge(creator)

AwardPoints(creator, recipient, type, pow, n) ==
  /\ \A a \in Addr : Read(completed, a) < MaxAwards
  /\ MayAward(creator, type, pow)
  /\ points' = Credit(points, recipient, n)
  /\ completed' = Credit(completed, recipient, 1)
  /\ lastEarned' = Write(lastEarned, recipient, height)
  /\ awarded' = [awarded EXCEPT ![recipient] = @ + n]
  /\ UNCHANGED <<vars, badges>>

(* The points go first; if the mint is refused the whole message fails.    *)
DeductNothing(a, n) == points   \* mutant
Deduct(a, n) == Write(points, a, points[a] - n)

MayConvert(a) == GenOpen /\ HasUserBadge(a)

MintWithoutLimit(a, n) ==   \* mutant
  /\ wallet' = Credit(wallet, a, n)
  /\ circ' = circ + n
  /\ txs' = MintRecord(a, n) /\ seq' = seq + 1 /\ seq + 1 <= MaxSeq
  /\ UNCHANGED <<kes, market, trades, rates, bank, height>>
ConversionMint(a, n) == MintToUser(a, n)

ConvertToMallcoin(a, n) ==
  /\ MayConvert(a)
  /\ Covers(points, a, n)
  /\ points' = Deduct(a, n)
  /\ ConversionMint(a, n)
  /\ UNCHANGED <<completed, lastEarned, badges, awarded>>

-----------------------------------------------------------------------------
LedgerNext ==
  \/ \E a \in Addr, n \in Amounts : BuyMallcoin(a, n)
  \/ \E a \in Addr, n \in Amounts : SellMallcoin(a, n)
  \/ \E a \in Addr, b \in Addr, n \in Amounts : TransferMallcoin(a, b, n)
  \/ \E b \in Addr, n \in Amounts : MintMallcoin(b, n)
  \/ \E c \in Currency, r \in QuotedRates : SetCurrencyRate(c, r)
  \/ BeginBlock

MallNext ==
  \/ LedgerNext /\ UNCHANGED mallVars
  \/ \E a \in Addr : IssueBadge(a)
  \/ \E a \in Addr, b \in Addr, type \in {"engagement", "task"}, pow \in BOOLEAN,
       n \in Amounts : AwardPoints(a, b, type, pow, n)
  \/ \E a \in Addr, n \in Amounts : ConvertToMallcoin(a, n)

MallSpec == MallInit /\ [][MallNext]_allVars

-----------------------------------------------------------------------------
(* The three fields of a points record are stored together. *)
PointsTypeOK ==
  /\ IsStore(points, Addr, Word)
  /\ IsStore(completed, Addr, Word)
  /\ IsStore(lastEarned, Addr, Nat)
  /\ DOMAIN points = DOMAIN completed /\ DOMAIN completed = DOMAIN lastEarned
  /\ badges \subseteq Addr
  /\ awarded \in [Addr -> Nat]

(* What an address was awarded is what it still holds plus what the        *)
(* ledger's log says it was minted without buying it: no point is spent    *)
(* twice, none is lost to a failed conversion and no mint is free.         *)
BoughtBy(a) == SumFunctionOnSet(Coins,
                 {n \in DOMAIN trades : trades[n].trader = a /\ trades[n].type = "buy"})
PointsBackMints ==
  \A a \in Addr :
    (Read(GenPoints, a) + awarded[a]) % W
      = (Read(points, a) + LoggedIn(a) - BoughtBy(a)) % W

(* Coins enter circulation only when a trade recorded their price in KES   *)
(* or when somebody gave up as many points.                                *)
IssueIsPaidFor ==
  [][circ' > circ =>
       \/ DOMAIN trades' # DOMAIN trades
       \/ \E a \in DOMAIN points : points'[a] = points[a] - (circ' - circ)]_allVars

(* The composed modules never do to the ledger what its own specification  *)
(* does not allow: every conversion is one of its guarded mints.           *)
LedgerSpec == Spec
=============================================================================
