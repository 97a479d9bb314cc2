--------------------------- MODULE LiquidityQuote ---------------------------
(***************************************************************************)
(* The liquidity quote (packages/domain/src/pancake-v3-liquidity-quote.ts):*)
(* from the capital a caller is willing to give, the liquidity of the      *)
(* position, the amounts of the calldata and the minimums that slippage    *)
(* allows, all in integers, with a rounding at every step and three checks *)
(* of its own arithmetic.  calculatePancakeV3LiquidityQuote is synchronous;*)
(* its steps are actions, and so is each iteration of the square root.     *)
(*                                                                         *)
(* Integers are unbounded, as the code's are; what the code bounds by the  *)
(* types of the protocol is bounded by the constants.  The tick's ratio is *)
(* a constant function, of which only the order is used.                   *)
(***************************************************************************)
EXTENDS Integers

CONSTANTS MinTick, MaxTick,
          Ratio,        \* sqrtRatioAtTick
          Q,            \* the scale of a square-root price (Q96)
          MaxLiquidity, \* UINT128_MAX
          Basis,        \* BPS_DENOMINATOR
          Prices,       \* the prices (uint160) and
          Amounts       \* the amounts (uint256) a caller may pass

Ticks == MinTick..MaxTick

ASSUME TicksAssumption == MinTick \in Int /\ MaxTick \in Int /\ MinTick < MaxTick
ASSUME RatioAssumption ==
  /\ Ratio \in [Ticks -> Nat \ {0}]
  /\ \A t, u \in Ticks : t < u => Ratio[t] < Ratio[u]
ASSUME SizesAssumption ==
  /\ Q \in Nat \ {0} /\ Basis \in Nat \ {0} /\ MaxLiquidity \in Nat
  /\ Prices \subseteq Nat /\ Amounts \subseteq Nat

MinRatio == Ratio[MinTick]
MaxRatio == Ratio[MaxTick]

Inputs == [price : Prices, tick : MinTick..(MaxTick - 1), lower : Ticks, upper : Ticks,
           amount0 : Amounts, amount1 : Amounts, slippage : 0..Basis]

VARIABLES stage,      \* where the calculation stands
          input,
          liquidity,  \* of the capital
          maxima,     \* the amounts of the calldata
          root,       \* the square root under way: its value, result and candidate
          floor,      \* the counterfactual price below
          minima,     \* the least amounts after slippage
          issue       \* why no quote is given

vars == <<stage, input, liquidity, maxima, root, floor, minima, issue>>

-----------------------------------------------------------------------------
(* The arithmetic.                                                         *)

DivideUp(n, d) == IF n % d = 0 THEN n \div d ELSE n \div d + 1

Lesser(a, b) == IF a < b THEN a ELSE b
Greater(a, b) == IF a < b THEN b ELSE a

Amount0Delta(a, b, l) ==
  DivideUp(DivideUp(l * Q * (Greater(a, b) - Lesser(a, b)), Greater(a, b)), Lesser(a, b))

(* Faulty variant: the amount rounded down. *)
Amount1DeltaDown(a, b, l) == (l * (Greater(a, b) - Lesser(a, b))) \div Q

Amount1Delta(a, b, l) == DivideUp(l * (Greater(a, b) - Lesser(a, b)), Q)

(* Faulty variant: the liquidity rounded up as well. *)
LiquidityForAmount0Up(a, b, amount) ==
  DivideUp(amount * ((Lesser(a, b) * Greater(a, b)) \div Q), Greater(a, b) - Lesser(a, b))

LiquidityForAmount0(a, b, amount) ==
  (amount * ((Lesser(a, b) * Greater(a, b)) \div Q)) \div (Greater(a, b) - Lesser(a, b))

LiquidityForAmount1(a, b, amount) == (amount * Q) \div (Greater(a, b) - Lesser(a, b))

(* Below the range only token 0 counts, above it only token 1. *)
Candidates(price, lower, upper, amounts) ==
  IF price <= lower THEN {LiquidityForAmount0(lower, upper, amounts[1])}
  ELSE IF price < upper THEN {LiquidityForAmount0(price, upper, amounts[1]),
                              LiquidityForAmount1(lower, price, amounts[2])}
  ELSE {LiquidityForAmount1(lower, upper, amounts[2])}

Least(S) == CHOOSE m \in S : \A n \in S : m <= n

AmountsAtTick(in, l) ==
  IF in.tick < in.lower
  THEN <<Amount0Delta(Ratio[in.lower], Ratio[in.upper], l), 0>>
  ELSE IF in.tick < in.upper
  THEN <<Amount0Delta(in.price, Ratio[in.upper], l), Amount1Delta(Ratio[in.lower], in.price, l)>>
  ELSE <<0, Amount1Delta(Ratio[in.lower], Ratio[in.upper], l)>>

AmountsAtPrice(price, lower, upper, l) ==
  IF price <= lower THEN <<Amount0Delta(lower, upper, l), 0>>
  ELSE IF price < upper THEN <<Amount0Delta(price, upper, l), Amount1Delta(lower, price, l)>>
  ELSE <<0, Amount1Delta(lower, upper, l)>>

Exceeds(a, b) == a[1] > b[1] \/ a[2] > b[2]

-----------------------------------------------------------------------------
(* The calculation.                                                        *)

None == <<0, 0>>

Init ==
  /\ input \in Inputs
  /\ stage = "received" /\ issue = "none"
  /\ liquidity = 0 /\ maxima = None /\ minima = None
  /\ root = [value |-> 0, result |-> 0, candidate |-> 0] /\ floor = 0

Admissible(in) ==
  /\ in.lower < in.upper
  /\ MinRatio <= in.price /\ in.price < MaxRatio
  /\ Ratio[in.tick] <= in.price /\ in.price < Ratio[in.tick + 1]
  /\ in.amount0 # 0 \/ in.amount1 # 0

Block(code) ==
  /\ stage' = "blocked" /\ issue' = code
  /\ UNCHANGED <<input, liquidity, maxima, root, floor, minima>>

Validate ==
  /\ stage = "received"
  /\ \/ /\ Admissible(input)
        /\ stage' = "admitted"
        /\ UNCHANGED <<input, liquidity, maxima, root, floor, minima, issue>>
     \/ ~Admissible(input) /\ Block("INPUT_INVALID")

OfCapital(in) ==
  Candidates(in.price, Ratio[in.lower], Ratio[in.upper], <<in.amount0, in.amount1>>)

Measure ==
  /\ stage = "admitted"
  /\ LET l == Least(OfCapital(input))
     IN \/ l = 0 /\ Block("ZERO_LIQUIDITY")
        \/ l > MaxLiquidity /\ Block("LIQUIDITY_EXCEEDS_UINT128")
        \/ /\ l # 0 /\ l <= MaxLiquidity
           /\ liquidity' = l
           /\ stage' = "measured"
           /\ UNCHANGED <<input, maxima, root, floor, minima, issue>>

(* "Unexpectedly exceed": the function goes on, or reports its own arithmetic. *)
Expect(holds, next) ==
  /\ stage' = IF holds THEN next ELSE "blocked"
  /\ issue' = IF holds THEN "none" ELSE "ARITHMETIC_INVARIANT_VIOLATION"

RoundUp ==
  /\ stage = "measured"
  /\ maxima' = AmountsAtTick(input, liquidity)
  /\ Expect(~Exceeds(maxima', <<input.amount0, input.amount1>>), "rounded")
  /\ UNCHANGED <<input, liquidity, root, floor, minima>>

Squared(side) ==
  (input.price * input.price * (Basis + side * input.slippage)) \div Basis

(* integerSquareRoot begins with its two small cases or with a candidate. *)
Newton(v) ==
  [value |-> v,
   result |-> IF v > 3 THEN v ELSE IF v = 0 THEN 0 ELSE 1,
   candidate |-> IF v > 3 THEN v \div 2 + 1 ELSE v]

(* The amounts of the calldata must give the same liquidity again. *)
Remeasure ==
  /\ stage = "rounded"
  /\ LET again == Candidates(input.price, Ratio[input.lower], Ratio[input.upper], maxima)
         l == Least(again)
     IN \/ /\ \E c \in again : c > MaxLiquidity
           /\ Block("CALLDATA_LIQUIDITY_CANDIDATE_EXCEEDS_UINT128")
        \/ /\ \A c \in again : c <= MaxLiquidity
           /\ \/ l = 0 /\ Block("CALLDATA_ZERO_LIQUIDITY")
              \/ l # 0 /\ l # liquidity /\ Block("CALLDATA_LIQUIDITY_DRIFT")
              \/ /\ l # 0 /\ l = liquidity
                 /\ stage' = "below"
                 /\ root' = Newton(Squared(-1))
                 /\ UNCHANGED <<input, liquidity, maxima, floor, minima, issue>>

(* Faulty variants: a loop that does not notice its fixed point, and one   *)
(* that ends a step too early.                                             *)
NotWorse(r) == r.value > 3 /\ r.candidate <= r.result
ClearlyBetter(r) == r.value > 3 /\ r.candidate + 1 < r.result

Improves(r) == r.value > 3 /\ r.candidate < r.result

Refine ==
  /\ stage \in {"below", "above"}
  /\ Improves(root)
  /\ root' = [root EXCEPT
       !.result = root.candidate,
       !.candidate = (root.value \div root.candidate + root.candidate) \div 2]
  /\ UNCHANGED <<stage, input, liquidity, maxima, floor, minima, issue>>

(* The price after slippage stays inside the protocol's bounds. *)
BoundBelow ==
  /\ stage = "below"
  /\ ~Improves(root)
  /\ floor' = IF root.result <= MinRatio THEN MinRatio + 1 ELSE root.result
  /\ root' = Newton(Squared(1))
  /\ stage' = "above"
  /\ UNCHANGED <<input, liquidity, maxima, minima, issue>>

Ceiling == IF root.result >= MaxRatio THEN MaxRatio - 1 ELSE root.result

Conclude ==
  /\ stage = "above"
  /\ ~Improves(root)
  /\ LET at(price) == AmountsAtPrice(price, Ratio[input.lower], Ratio[input.upper], liquidity)
     IN minima' = <<at(Ceiling)[1], at(floor)[2]>>
  /\ Expect(~Exceeds(minima', maxima), "quoted")
  /\ UNCHANGED <<input, liquidity, maxima, root, floor>>

Step == Validate \/ Measure \/ RoundUp \/ Remeasure \/ Refine \/ BoundBelow \/ Conclude

Spec == Init /\ [][Step]_vars

(* A synchronous function runs to its end. *)
FairSpec == Spec /\ WF_vars(Step)

-----------------------------------------------------------------------------
(***************************************************************************)
(* The function's checks of its own arithmetic ("unexpectedly exceed",     *)
(* pancake-v3-liquidity-quote.ts:544 and :620) never fail: no rounding     *)
(* asks for more than the capital, and no minimum exceeds what is offered. *)
(* The one exception is the least price there is, with a range that begins *)
(* there: the clamp then puts the price "below" above it.                  *)
(***************************************************************************)
AtTheEdge == input.price = MinRatio /\ input.lower = MinTick

ArithmeticHolds == issue = "ARITHMETIC_INVARIANT_VIOLATION" => AtTheEdge

(***************************************************************************)
(* Newton's iteration on integers (integerSquareRoot) never divides by     *)
(* zero, and where it stops improving it has the greatest number whose     *)
(* square is no more than the value: no price bound is off by one.         *)
(***************************************************************************)
IsRoot(n, v) == n * n <= v /\ v < (n + 1) * (n + 1)

RootExact ==
  stage \in {"below", "above"} =>
    IF Improves(root) THEN root.candidate # 0 ELSE IsRoot(root.result, root.value)

(***************************************************************************)
(* The liquidity that the calldata would mint differs from the one of the  *)
(* capital only downwards, and never for a position all in token 1: only   *)
(* the amount of token 0 is rounded in two places                          *)
(* (CALLDATA_LIQUIDITY_DRIFT, CALLDATA_ZERO_LIQUIDITY).                    *)
(***************************************************************************)
OfCalldata == Candidates(input.price, Ratio[input.lower], Ratio[input.upper], maxima)

DriftsDown ==
  issue \in {"CALLDATA_LIQUIDITY_DRIFT", "CALLDATA_ZERO_LIQUIDITY"} =>
    /\ Least(OfCalldata) < liquidity
    /\ input.price < Ratio[input.upper]

(***************************************************************************)
(* Every step brings the calculation nearer to its end: it goes on to a    *)
(* later stage, or the square root under way gets smaller.                 *)
(***************************************************************************)
Rank ==
  CASE stage = "received" -> 6
    [] stage = "admitted" -> 5
    [] stage = "measured" -> 4
    [] stage = "rounded" -> 3
    [] stage = "below" -> 2
    [] stage = "above" -> 1
    [] OTHER -> 0

Nearer ==
  /\ Rank \in Nat /\ root.result \in Nat
  /\ \/ Rank' < Rank
     \/ Rank' = Rank /\ root'.result < root.result

Approaches == [][Nearer]_vars

(***************************************************************************)
(* Every calculation ends: the square root converges.                      *)
(***************************************************************************)
Ends == <>(stage \in {"blocked", "quoted"})
=============================================================================
