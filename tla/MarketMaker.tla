---------------------------- MODULE MarketMaker ----------------------------
(***************************************************************************)
(* What the market of x/mlcoin promises its traders, as arithmetic on      *)
(* unbounded integers: coins are issued against a cap and a limit per      *)
(* issue, a purchase pushes both quotes up together, a sale pushes both    *)
(* down and neither below one.  Mlcoin implements it with uint64 values,   *)
(* records in stores and a volume-dependent step.                          *)
(***************************************************************************)
EXTENDS Integers

CONSTANTS
  Cap,       \* the total supply
  Limit,     \* the most one issue may mint
  Amounts,   \* the amounts traders ask for
  Genesis    \* the coins in circulation at the start

VARIABLES
  coins,  \* coins in circulation
  ask,    \* what the market charges for a coin
  bid     \* what the market pays for a coin

vars == <<coins, ask, bid>>

Init == coins = Genesis /\ ask = 62 /\ bid = 58

Issued(n) == n <= Limit /\ coins + n <= Cap /\ coins' = coins + n

Purchase(n) ==
  /\ Issued(n)
  /\ \E step \in 1 .. n : ask' = ask + step /\ bid' = bid + step

(* An issue that is not a trade: converted points. *)
Grant(n) == Issued(n) /\ UNCHANGED <<ask, bid>>

AtLeastOne(price) == IF price >= 1 THEN price ELSE 1

(* A sale of more than what circulates is taken and not deducted. *)
Sale(n) ==
  /\ coins' = IF n <= coins THEN coins - n ELSE coins
  /\ \E step \in 1 .. n : ask' = AtLeastOne(ask - step)
                           /\ bid' = AtLeastOne(bid - step)

Next == \E n \in Amounts : Purchase(n) \/ Grant(n) \/ Sale(n)

Spec == Init /\ [][Next]_vars
=============================================================================
