---------------------------- MODULE TokenBudget ----------------------------
(***************************************************************************)
(* How much of a history a Session loads under WithTokenBudget: messages   *)
(* from the end, as long as what they have cost, or are said to have cost  *)
(* by a caller's estimator, stays within the budget.                       *)
(***************************************************************************)
EXTENDS Integers, Sequences

CONSTANT MaxInt       \* the largest int of the build

(* The sum of two ints, which wraps around. *)
SumOf(a, b) == IF a + b > MaxInt THEN a + b - 2 * (MaxInt + 1)
               ELSE IF a + b < -MaxInt - 1 THEN a + b + 2 * (MaxInt + 1)
               ELSE a + b

(* generationUsageTokenEstimator.  A message without usage has 0 of each.  *)
EstimateTokens(usage) ==
  IF usage.totalTokens > 0 THEN usage.totalTokens
  ELSE IF SumOf(usage.inputTokens, usage.outputTokens) > 0
       THEN SumOf(usage.inputTokens, usage.outputTokens)
  ELSE 1

(* An estimator may say anything; a message counts for one at least. *)
Cost(estimate) == IF estimate <= 0 THEN 1 ELSE estimate

(* The loop from the last message to the first, which breaks off at one    *)
(* that does not fit; after k messages, start is the first that is kept.   *)
applyTokenBudget(msgs, estimates, budget) ==
  LET L == Len(msgs)
      loop[k \in 0..L] ==
        IF k = 0 THEN [start |-> L + 1, used |-> 0]
        ELSE LET i    == L - k + 1
                 used == SumOf(loop[k - 1].used, Cost(estimates[i]))
             IN IF loop[k - 1].start = i + 1 /\ used <= budget
                THEN [start |-> i, used |-> used]
                ELSE loop[k - 1]
  IN IF budget <= 0 THEN <<>> ELSE SubSeq(msgs, loop[L].start, L)

(* What the last k messages cost together. *)
Spent(estimates) ==
  LET L == Len(estimates)
      sum[k \in 0..L] ==
        IF k = 0 THEN 0 ELSE sum[k - 1] + Cost(estimates[L - k + 1])
  IN sum
=============================================================================
