------------------------ MODULE SessionLedger_proofs ------------------------
(***************************************************************************)
(* Proofs about SessionLedger: type correctness for every specification of *)
(* the module, and that no step but a deletion removes anything.  When     *)
(* sessions are deleted only while no flow uses them (QuietSpec): messages *)
(* are numbered by their position, a save that succeeds is atomic, and     *)
(* what saves done one after another keep therefore holds of all that is   *)
(* stored, that turns and snapshots are numbered, turns replay the history *)
(* and snapshots mark turns; a save refused as a conflict was one; and the *)
(* ledger implements SessionLog.  Before that, what a token budget loads.  *)
(***************************************************************************)
EXTENDS SessionLedger, TokenBudget, WellFoundedInduction, FiniteSetTheorems,
        SequenceTheorems, TLAPS

-----------------------------------------------------------------------------
(* Induction *)

(* A set that has 0, and n + 1 if it has n, has every natural number.      *)
LEMMA Induct ==
  ASSUME NEW S, 0 \in S, \A n \in Nat : n \in S => n + 1 \in S
  PROVE  Nat \subseteq S
<1> DEFINE Rest == Nat \ S
           R == {ss \in Nat \X Nat : ss[1] < ss[2]}
<1> SUFFICES ASSUME Rest # {} PROVE FALSE
  OBVIOUS
<1>1. IsWellFoundedOn(R, Nat)
  BY NatLessThanWellFounded DEF OpToRel
<1> HIDE DEF R
<1>2. PICK n \in Rest : \A m \in Rest : ~(<<m, n>> \in R)
  BY <1>1, WFMin
<1>3. n # 0 /\ n - 1 \in Nat /\ <<n - 1, n>> \in R
  BY <1>2 DEF R
<1>4. n - 1 \in S
  BY <1>2, <1>3
<1> QED
  BY <1>2, <1>3, <1>4

-----------------------------------------------------------------------------
(* Operators on session state *)

LEMMA LastNFact ==
  ASSUME NEW S, NEW q \in Seq(S), NEW n \in Nat, n <= Len(q)
  PROVE  /\ LastN(q, n) \in Seq(S)
         /\ Len(LastN(q, n)) = n
BY DEF LastN

(* What a load returns is never longer than what is stored. *)
LEMMA LoadedFact ==
  ASSUME NEW S, NEW q \in Seq(S), NEW mode \in Modes, NEW n \in Nat,
         NEW loaded \in LoadedMessages(q, mode, n)
  PROVE  /\ loaded \in Seq(S)
         /\ Len(loaded) <= Len(q)
<1>1. CASE mode = "TokenBudget"
  BY <1>1, LastNFact DEF LoadedMessages
<1>2. CASE mode # "TokenBudget"
  <2>1. loaded = filterMessages(q, mode, n)
    BY <1>2 DEF LoadedMessages
  <2>2. CASE mode = "SlidingWindow" /\ n > 0 /\ n < Len(q)
    BY <2>1, <2>2, LastNFact DEF filterMessages
  <2>3. CASE mode = "TailEndsPruning" /\ n > 0 /\ 2 * n < Len(q)
    <3>1. /\ SubSeq(q, 1, n) \in Seq(S)
          /\ Len(SubSeq(q, 1, n)) = n
      BY <2>3
    <3>2. /\ LastN(q, n) \in Seq(S)
          /\ Len(LastN(q, n)) = n
      BY <2>3, LastNFact
    <3>3. loaded = SubSeq(q, 1, n) \o LastN(q, n)
      BY <2>1, <2>3 DEF filterMessages
    <3>4. QED BY <3>1, <3>2, <3>3, <2>3
  <2>4. CASE /\ ~(mode = "SlidingWindow" /\ n > 0 /\ n < Len(q))
             /\ ~(mode = "TailEndsPruning" /\ n > 0 /\ 2 * n < Len(q))
    BY <2>1, <2>4 DEF filterMessages
  <2>5. QED BY <2>2, <2>3, <2>4
<1>3. QED BY <1>1, <1>2

-----------------------------------------------------------------------------
(* What a token budget admits *)

(* loop and sum are the functions that the two recursions define.          *)
IsLoop(loop, L, estimates, budget) ==
  \A k \in 0..L :
    loop[k] = IF k = 0 THEN [start |-> L + 1, used |-> 0]
              ELSE LET i    == L - k + 1
                       used == SumOf(loop[k - 1].used, Cost(estimates[i]))
                   IN IF loop[k - 1].start = i + 1 /\ used <= budget
                      THEN [start |-> i, used |-> used]
                      ELSE loop[k - 1]

IsSum(sum, L, estimates) ==
  \A k \in 0..L :
    sum[k] = IF k = 0 THEN 0 ELSE sum[k - 1] + Cost(estimates[L - k + 1])

(* What the loop ends with is all that the budget pays for. *)
Pays(loop, sum, L, budget) ==
  \E n \in 0..L : /\ loop[L].start = L - n + 1
                  /\ \A j \in 0..L : sum[j] <= budget <=> j <= n

(* No message that is added to what fits the budget exceeds an int. *)
Summable(estimates, budget) ==
  /\ budget < MaxInt
  /\ \A i \in 1..Len(estimates) : estimates[i] <= MaxInt - budget

LEMMA LoopIs ==
  ASSUME NEW msgs, NEW estimates, NEW budget, Len(msgs) \in Nat
  PROVE  \E loop :
           /\ IsLoop(loop, Len(msgs), estimates, budget)
           /\ applyTokenBudget(msgs, estimates, budget) =
                IF budget <= 0 THEN <<>>
                ELSE SubSeq(msgs, loop[Len(msgs)].start, Len(msgs))
<1> DEFINE L == Len(msgs)
           body(f, k) ==
             IF k = 0 THEN [start |-> L + 1, used |-> 0]
             ELSE LET i    == L - k + 1
                      used == SumOf(f[k - 1].used, Cost(estimates[i]))
                  IN IF f[k - 1].start = i + 1 /\ used <= budget
                     THEN [start |-> i, used |-> used]
                     ELSE f[k - 1]
           def(f) == [k \in 0..L |-> body(f, k)]
           loop == CHOOSE f : f = def(f)
<1>1. applyTokenBudget(msgs, estimates, budget) =
        IF budget <= 0 THEN <<>> ELSE SubSeq(msgs, loop[L].start, L)
  BY DEF applyTokenBudget
<1> HIDE DEF L
<1>2. \E f : f = def(f)
  <2> DEFINE part(f, m) == [i \in 0..m |-> body(f, i)]
             Has == {m \in Nat : \E f : f = part(f, m)}
  <2>1. 0 \in Has
    <3> DEFINE f == [i \in 0..0 |-> [start |-> L + 1, used |-> 0]]
    <3>1. f = part(f, 0)
      OBVIOUS
    <3> HIDE DEF f, part
    <3> QED
      BY <3>1
  <2>2. ASSUME NEW m \in Nat, m \in Has PROVE m + 1 \in Has
    <3>1. PICK f : f = part(f, m)
      BY <2>2
    <3> DEFINE g == part(f, m + 1)
    <3>2. \A i \in 0..(m + 1) : i # 0 => g[i - 1] = f[i - 1]
      <4> TAKE i \in 0..(m + 1)
      <4> HAVE i # 0
      <4>1. i - 1 \in 0..m /\ i - 1 \in 0..(m + 1)
        OBVIOUS
      <4> HIDE DEF body
      <4> QED
        BY <3>1, <4>1
    <3>3. \A i \in 0..(m + 1) : body(g, i) = body(f, i)
      <4> HIDE DEF g
      <4> QED
        BY <3>2
    <3>4. g = part(g, m + 1)
      <4> HIDE DEF body
      <4> QED
        BY <3>3
    <3> HIDE DEF part, g
    <3> QED
      BY <3>4
  <2>3. Nat \subseteq Has
    <3> HIDE DEF Has
    <3> QED
      BY <2>1, <2>2, Induct
  <2>4. L \in Has
    BY <2>3 DEF L
  <2> QED
    BY <2>4
<1>3. loop = def(loop)
  <2> HIDE DEF def
  <2> QED
    BY <1>2
<1> HIDE DEF loop
<1>4. \A k \in 0..L : loop[k] = body(loop, k)
  <2> HIDE DEF body
  <2> QED
    BY <1>3
<1>5. IsLoop(loop, L, estimates, budget)
  BY <1>4 DEF IsLoop
<1> QED
  BY <1>1, <1>5 DEF L

LEMMA SumIs ==
  ASSUME NEW estimates, Len(estimates) \in Nat
  PROVE  IsSum(Spent(estimates), Len(estimates), estimates)
<1> DEFINE L == Len(estimates)
           body(f, k) ==
             IF k = 0 THEN 0 ELSE f[k - 1] + Cost(estimates[L - k + 1])
           def(f) == [k \in 0..L |-> body(f, k)]
           sum == CHOOSE f : f = def(f)
<1>1. Spent(estimates) = sum
  BY DEF Spent
<1> HIDE DEF L
<1>2. \E f : f = def(f)
  <2> DEFINE part(f, m) == [i \in 0..m |-> body(f, i)]
             Has == {m \in Nat : \E f : f = part(f, m)}
  <2>1. 0 \in Has
    <3> DEFINE f == [i \in 0..0 |-> 0]
    <3>1. f = part(f, 0)
      OBVIOUS
    <3> HIDE DEF f, part
    <3> QED
      BY <3>1
  <2>2. ASSUME NEW m \in Nat, m \in Has PROVE m + 1 \in Has
    <3>1. PICK f : f = part(f, m)
      BY <2>2
    <3> DEFINE g == part(f, m + 1)
    <3>2. \A i \in 0..(m + 1) : i # 0 => g[i - 1] = f[i - 1]
      <4> TAKE i \in 0..(m + 1)
      <4> HAVE i # 0
      <4>1. i - 1 \in 0..m /\ i - 1 \in 0..(m + 1)
        OBVIOUS
      <4> HIDE DEF body
      <4> QED
        BY <3>1, <4>1
    <3>3. \A i \in 0..(m + 1) : body(g, i) = body(f, i)
      <4> HIDE DEF g
      <4> QED
        BY <3>2
    <3>4. g = part(g, m + 1)
      <4> HIDE DEF body
      <4> QED
        BY <3>3
    <3> HIDE DEF part, g
    <3> QED
      BY <3>4
  <2>3. Nat \subseteq Has
    <3> HIDE DEF Has
    <3> QED
      BY <2>1, <2>2, Induct
  <2>4. L \in Has
    BY <2>3 DEF L
  <2> QED
    BY <2>4
<1>3. sum = def(sum)
  <2> HIDE DEF def
  <2> QED
    BY <1>2
<1> HIDE DEF sum
<1>4. \A k \in 0..L : sum[k] = body(sum, k)
  <2> HIDE DEF body
  <2> QED
    BY <1>3
<1> QED
  BY <1>1, <1>4 DEF L, IsSum

(* A message costs at least one token, so more messages cost more. *)
LEMMA SumGrows ==
  ASSUME NEW estimates \in Seq(Int), NEW L \in Nat, L = Len(estimates),
         NEW sum, IsSum(sum, L, estimates)
  PROVE  /\ \A k \in 0..L : sum[k] \in Nat /\ sum[k] >= k
         /\ \A k \in 0..L : \A j \in 0..k : sum[j] <= sum[k]
<1> DEFINE Grown == {k \in Nat : k <= L =>
                       /\ sum[k] \in Nat /\ sum[k] >= k
                       /\ \A j \in 0..k : sum[j] \in Nat /\ sum[j] <= sum[k]}
<1>1. 0 \in Grown
  <2>1. sum[0] = 0
    BY DEF IsSum
  <2> QED
    BY <2>1
<1>2. ASSUME NEW k \in Nat, k \in Grown PROVE k + 1 \in Grown
  <2> SUFFICES ASSUME k + 1 <= L
               PROVE  /\ sum[k + 1] \in Nat /\ sum[k + 1] >= k + 1
                      /\ \A j \in 0..(k + 1) :
                           sum[j] \in Nat /\ sum[j] <= sum[k + 1]
    OBVIOUS
  <2>1. /\ sum[k] \in Nat /\ sum[k] >= k
        /\ \A j \in 0..k : sum[j] \in Nat /\ sum[j] <= sum[k]
    BY <1>2
  <2>3. /\ k + 1 \in 0..L /\ k + 1 # 0 /\ (k + 1) - 1 = k
        /\ L - (k + 1) + 1 \in 1..L
    OBVIOUS
  <2>4. sum[k + 1] = sum[k] + Cost(estimates[L - (k + 1) + 1])
    BY <2>3 DEF IsSum
  <2>5. /\ Cost(estimates[L - (k + 1) + 1]) \in Nat
        /\ Cost(estimates[L - (k + 1) + 1]) >= 1
    BY <2>3, ElementOfSeq DEF Cost
  <2>6. sum[k + 1] \in Nat /\ sum[k + 1] >= k + 1 /\ sum[k] <= sum[k + 1]
    BY <2>1, <2>4, <2>5
  <2>7. ASSUME NEW j \in 0..(k + 1)
        PROVE  sum[j] \in Nat /\ sum[j] <= sum[k + 1]
    <3>1. CASE j = k + 1
      BY <3>1, <2>6
    <3>2. CASE j \in 0..k
      <4>1. sum[j] \in Nat /\ sum[j] <= sum[k]
        BY <3>2, <2>1
      <4> QED
        BY <4>1, <2>1, <2>6
    <3> QED
      BY <3>1, <3>2
  <2> QED
    BY <2>6, <2>7
<1>3. Nat \subseteq Grown
  <2> HIDE DEF Grown
  <2> QED
    BY <1>1, <1>2, Induct
<1>4. ASSUME NEW k \in 0..L
      PROVE  /\ sum[k] \in Nat /\ sum[k] >= k
             /\ \A j \in 0..k : sum[j] <= sum[k]
  <2>1. k \in Grown
    BY <1>3
  <2> QED
    BY <2>1
<1> QED
  BY <1>4

(* After k messages the loop has kept the most that the budget pays for. *)
LEMMA LoopKeeps ==
  ASSUME NEW estimates \in Seq(Int), NEW L \in Nat, L = Len(estimates),
         NEW budget \in Nat, NEW loop, NEW sum,
         MaxInt \in Nat, Summable(estimates, budget),
         IsLoop(loop, L, estimates, budget), IsSum(sum, L, estimates)
  PROVE  Pays(loop, sum, L, budget)
<1> DEFINE Held(k, n) == /\ loop[k].start = L - n + 1
                         /\ loop[k].used = sum[n]
                         /\ \A j \in 0..k : sum[j] <= budget <=> j <= n
           Keeps == {k \in Nat : k <= L => \E n \in 0..k : Held(k, n)}
<1>1. \A k \in 0..L : sum[k] \in Nat
  BY SumGrows
<1>2. \A k \in 0..L : \A j \in 0..k : sum[j] <= sum[k]
  BY SumGrows
<1>3. 0 \in Keeps
  <2>1. sum[0] = 0
    BY DEF IsSum
  <2>2. loop[0] = [start |-> L + 1, used |-> 0]
    <3> HIDE DEF Keeps
    <3>1. 0 \in 0..L
      OBVIOUS
    <3> QED
      BY <3>1 DEF IsLoop
  <2>3. loop[0].start = L - 0 + 1 /\ loop[0].used = sum[0]
    BY <2>1, <2>2
  <2>4. ASSUME NEW j \in 0..0 PROVE sum[j] <= budget <=> j <= 0
    <3>1. j = 0
      OBVIOUS
    <3> QED
      BY <2>1, <3>1
  <2>5. Held(0, 0)
    BY <2>3, <2>4
  <2>6. 0 \in 0..0
    OBVIOUS
  <2> HIDE DEF Held
  <2> QED
    BY <2>5, <2>6
<1>4. ASSUME NEW k \in Nat, k \in Keeps PROVE k + 1 \in Keeps
  <2> SUFFICES ASSUME k + 1 <= L PROVE \E n \in 0..(k + 1) : Held(k + 1, n)
    OBVIOUS
  <2>1. PICK n \in 0..k : Held(k, n)
    BY <1>4
  <2>2. /\ k + 1 \in 0..L /\ k \in 0..L /\ n \in 0..L
        /\ k + 1 # 0 /\ (k + 1) - 1 = k /\ L - (k + 1) + 1 = L - k
    OBVIOUS
  <2> DEFINE more == SumOf(loop[k].used, Cost(estimates[L - k]))
  <2>3. loop[k + 1] = IF loop[k].start = L - k + 1 /\ more <= budget
                      THEN [start |-> L - k, used |-> more]
                      ELSE loop[k]
    BY <2>2 DEF IsLoop
  <2>4. sum[k + 1] = sum[k] + Cost(estimates[L - k])
    BY <2>2 DEF IsSum
  <2>5. loop[k].start = L - k + 1 <=> n = k
    BY <2>1
  <2>6. ASSUME n = k PROVE more = sum[k + 1]
    <3>1. loop[k].used = sum[k] /\ sum[k] <= budget /\ sum[k] \in Nat
      <4>1. n \in 0..k /\ sum[n] <= budget
        BY <2>1
      <4> QED
        BY <1>1, <2>1, <2>2, <2>6, <4>1
    <3>2. L - k \in 1..L /\ estimates[L - k] \in Int
      <4>1. L - k \in 1..L
        BY <2>2
      <4> QED
        BY <4>1, ElementOfSeq
    <3>3. /\ Cost(estimates[L - k]) \in Nat
          /\ Cost(estimates[L - k]) <= MaxInt - budget
      BY <3>2 DEF Cost, Summable
    <3> QED
      BY <2>4, <3>1, <3>3 DEF SumOf
  <2> HIDE DEF more
  <2>7. CASE n = k /\ more <= budget
    <3>1. loop[k + 1] = [start |-> L - k, used |-> more]
      BY <2>3, <2>5, <2>7
    <3>2. sum[k + 1] <= budget
      BY <2>6, <2>7
    <3>3. ASSUME NEW j \in 0..(k + 1) PROVE sum[j] <= budget <=> j <= k + 1
      <4>1. j \in 0..L /\ sum[j] \in Nat /\ sum[k + 1] \in Nat
        BY <1>1, <2>2
      <4>2. sum[j] <= sum[k + 1]
        BY <1>2, <2>2
      <4> QED
        BY <3>2, <4>1, <4>2
    <3>4. loop[k + 1].start = L - (k + 1) + 1 /\ loop[k + 1].used = sum[k + 1]
      BY <3>1, <2>6, <2>7, <2>2
    <3>5. Held(k + 1, k + 1)
      BY <3>3, <3>4
    <3> HIDE DEF Held
    <3>6. k + 1 \in 0..(k + 1)
      OBVIOUS
    <3> QED
      BY <3>5, <3>6
  <2>8. CASE ~(n = k /\ more <= budget)
    <3>1. loop[k + 1] = loop[k]
      BY <2>3, <2>5, <2>8
    <3>2. ~(sum[k + 1] <= budget)
      <4>1. CASE n = k
        BY <4>1, <2>6, <2>8
      <4>2. CASE n # k
        <5>1. ~(sum[k] <= budget)
          BY <4>2, <2>1
        <5>2. sum[k] <= sum[k + 1]
          BY <1>2, <2>2
        <5> QED
          BY <5>1, <5>2, <1>1, <2>2
      <4> QED
        BY <4>1, <4>2
    <3>3. ASSUME NEW j \in 0..(k + 1) PROVE sum[j] <= budget <=> j <= n
      <4>1. CASE j = k + 1
        BY <4>1, <3>2
      <4>2. CASE j \in 0..k
        BY <4>2, <2>1
      <4> QED
        BY <4>1, <4>2
    <3>4. Held(k + 1, n)
      BY <3>1, <3>3, <2>1
    <3>5. n \in 0..(k + 1)
      OBVIOUS
    <3> HIDE DEF Held
    <3> QED
      BY <3>4, <3>5
  <2> QED
    BY <2>7, <2>8
<1>5. Nat \subseteq Keeps
  <2> HIDE DEF Keeps
  <2> QED
    BY <1>3, <1>4, Induct
<1>6. L \in Keeps
  BY <1>5
<1> QED
  BY <1>6 DEF Pays

(* What is loaded is the longest suffix that the budget pays for. *)
Admits(msgs, estimates, budget) ==
  \E n \in 0..Len(msgs) :
    /\ applyTokenBudget(msgs, estimates, budget) = LastN(msgs, n)
    /\ \A j \in 1..Len(msgs) : Spent(estimates)[j] <= budget <=> j <= n

LEMMA LastNNone ==
  ASSUME NEW S, NEW msgs \in Seq(S)
  PROVE  LastN(msgs, 0) = <<>>
BY DEF LastN

(* A load under a token budget keeps the longest suffix whose messages,    *)
(* each counted for one token at least, cost no more than the budget: as   *)
(* many messages as it can pay for, never one more, and never a gap        *)
(* (memory/token_budget.go, applyTokenBudget).                             *)
THEOREM BudgetFits ==
  ASSUME NEW S, NEW msgs \in Seq(S), NEW estimates \in Seq(Int),
         Len(estimates) = Len(msgs), NEW budget \in Int,
         MaxInt \in Nat, Summable(estimates, budget)
  PROVE  Admits(msgs, estimates, budget)
<1> DEFINE L == Len(msgs)
<1>1. L \in Nat /\ L = Len(estimates)
  OBVIOUS
<1>2. PICK sum : sum = Spent(estimates) /\ IsSum(sum, L, estimates)
  BY <1>1, SumIs
<1>3. \A j \in 0..L : sum[j] \in Nat /\ sum[j] >= j
  BY <1>1, <1>2, SumGrows
<1>4. PICK loop : /\ IsLoop(loop, L, estimates, budget)
                  /\ applyTokenBudget(msgs, estimates, budget) =
                       IF budget <= 0 THEN <<>>
                       ELSE SubSeq(msgs, loop[L].start, L)
  BY <1>1, LoopIs
<1>5. CASE budget <= 0
  <2>1. applyTokenBudget(msgs, estimates, budget) = LastN(msgs, 0)
    BY <1>4, <1>5, LastNNone
  <2>2. \A j \in 1..L : sum[j] <= budget <=> j <= 0
    BY <1>3, <1>5
  <2>3. 0 \in 0..L
    BY <1>1
  <2> QED
    BY <2>1, <2>2, <2>3, <1>2 DEF Admits
<1>6. CASE budget > 0
  <2>1. PICK n \in 0..L : /\ loop[L].start = L - n + 1
                          /\ \A j \in 0..L : sum[j] <= budget <=> j <= n
    <3>1. budget \in Nat
      BY <1>6
    <3>2. IsLoop(loop, L, estimates, budget)
      BY <1>4
    <3>3. Pays(loop, sum, L, budget)
      <4> HIDE DEF L
      <4> QED
        BY <1>1, <1>2, <3>1, <3>2, LoopKeeps
    <3> QED
      BY <3>3 DEF Pays
  <2>2. applyTokenBudget(msgs, estimates, budget) = LastN(msgs, n)
    BY <1>4, <1>6, <2>1 DEF LastN
  <2> QED
    BY <2>1, <2>2, <1>2 DEF Admits
<1> QED
  BY <1>5, <1>6

(* The ledger leaves out estimators and loads any suffix of no more        *)
(* messages than the budget has tokens.  That is neither more nor less     *)
(* than what applyTokenBudget returns under some estimator whose values    *)
(* can be added to the budget (memory/token_budget.go, sessions.go).       *)
THEOREM BudgetLoads ==
  ASSUME NEW S, NEW msgs \in Seq(S), NEW budget \in Nat,
         MaxInt \in Nat, 2 * budget < MaxInt
  PROVE  LoadedMessages(msgs, "TokenBudget", budget) =
           {applyTokenBudget(msgs, estimates, budget) :
              estimates \in {e \in [1..Len(msgs) -> Int] :
                              Summable(e, budget)}}
<1> DEFINE L == Len(msgs)
           Given == {e \in [1..L -> Int] : Summable(e, budget)}
           Loads == {applyTokenBudget(msgs, estimates, budget) :
                       estimates \in Given}
<1>1. LoadedMessages(msgs, "TokenBudget", budget) =
        {LastN(msgs, k) : k \in {k \in 0..L : k <= budget}}
  BY DEF LoadedMessages
<1>2. L \in Nat
  OBVIOUS
<1>3. ASSUME NEW estimates \in [1..L -> Int]
      PROVE  estimates \in Seq(Int) /\ Len(estimates) = L
  OBVIOUS
<1>4. ASSUME NEW estimates \in Given
      PROVE  \E k \in 0..L :
               /\ k <= budget
               /\ applyTokenBudget(msgs, estimates, budget) = LastN(msgs, k)
  <2>1. /\ estimates \in Seq(Int) /\ Len(estimates) = Len(msgs)
        /\ Summable(estimates, budget)
    BY <1>3
  <2>2. PICK k \in 0..L :
          /\ applyTokenBudget(msgs, estimates, budget) = LastN(msgs, k)
          /\ \A j \in 1..L : Spent(estimates)[j] <= budget <=> j <= k
    <3>1. Admits(msgs, estimates, budget)
      <4> HIDE DEF L
      <4>1. budget \in Int
        OBVIOUS
      <4> QED
        BY <2>1, <4>1, BudgetFits
    <3> QED
      BY <3>1 DEF Admits
  <2>3. IsSum(Spent(estimates), L, estimates)
    BY <1>2, <2>1, SumIs
  <2>4. /\ Spent(estimates)[k] \in Nat
        /\ Spent(estimates)[k] >= k
    <3> HIDE DEF L
    <3>1. \A j \in 0..L : /\ Spent(estimates)[j] \in Nat
                           /\ Spent(estimates)[j] >= j
      <4>1. L = Len(estimates)
        BY <2>1 DEF L
      <4> QED
        BY <1>2, <2>1, <2>3, <4>1, SumGrows
    <3> QED
      BY <2>2, <3>1
  <2>5. k <= budget
    <3>1. CASE k = 0
      BY <3>1
    <3>2. CASE k # 0
      <4>1. k \in 1..L
        BY <1>2, <3>2
      <4>2. Spent(estimates)[k] <= budget
        BY <2>2, <4>1
      <4> QED
        BY <2>4, <4>2
    <3> QED
      BY <3>1, <3>2
  <2> QED
    BY <2>2, <2>5
<1>5. ASSUME NEW k \in 0..L, k <= budget
      PROVE  \E estimates \in Given :
               applyTokenBudget(msgs, estimates, budget) = LastN(msgs, k)
  <2> DEFINE estimates == [i \in 1..L |-> IF i > L - k THEN 1 ELSE budget + 1]
  <2>1. estimates \in [1..L -> Int]
    BY <1>2
  <2>2. /\ estimates \in Seq(Int) /\ Len(estimates) = Len(msgs)
        /\ Summable(estimates, budget)
    <3>1. estimates \in Seq(Int) /\ Len(estimates) = L
      BY <1>3, <2>1
    <3>2. \A i \in 1..L : estimates[i] <= MaxInt - budget
      BY <1>2
    <3> QED
      BY <3>1, <3>2 DEF Summable
  <2>3. \A i \in 1..L : Cost(estimates[i]) = IF i > L - k THEN 1 ELSE budget + 1
    BY <1>2 DEF Cost
  <2> HIDE DEF estimates
  <2>4. PICK n \in 0..L :
          /\ applyTokenBudget(msgs, estimates, budget) = LastN(msgs, n)
          /\ \A j \in 1..L : Spent(estimates)[j] <= budget <=> j <= n
    <3>1. Admits(msgs, estimates, budget)
      <4> HIDE DEF L
      <4>1. budget \in Int
        OBVIOUS
      <4> QED
        BY <2>2, <4>1, BudgetFits
    <3> QED
      BY <3>1 DEF Admits
  <2>5. PICK sum : sum = Spent(estimates) /\ IsSum(sum, L, estimates)
    BY <1>2, <2>2, SumIs
  <2>7. sum[k] = k
    <3> DEFINE Exact == {j \in Nat : j <= k => sum[j] = j}
    <3>1. 0 \in Exact
      <4>1. 0 \in 0..L
        BY <1>2
      <4> QED
        BY <2>5, <4>1 DEF IsSum
    <3>2. ASSUME NEW j \in Nat, j \in Exact PROVE j + 1 \in Exact
      <4> SUFFICES ASSUME j + 1 <= k PROVE sum[j + 1] = j + 1
        OBVIOUS
      <4>1. sum[j] = j
        BY <3>2
      <4>2. /\ j + 1 \in 0..L /\ j + 1 # 0 /\ (j + 1) - 1 = j
            /\ L - (j + 1) + 1 \in 1..L /\ L - (j + 1) + 1 > L - k
        BY <1>2
      <4>3. sum[j + 1] = sum[j] + Cost(estimates[L - (j + 1) + 1])
        BY <2>5, <4>2 DEF IsSum
      <4> QED
        BY <2>3, <4>1, <4>2, <4>3
    <3>3. Nat \subseteq Exact
      <4> HIDE DEF Exact
      <4> QED
        BY <3>1, <3>2, Induct
    <3>4. k \in Exact
      BY <1>2, <3>3
    <3> QED
      BY <3>4
  <2>8. k <= n
    <3>1. CASE k = 0
      BY <3>1
    <3>2. CASE k # 0
      <4>1. k \in 1..L
        BY <1>2, <3>2
      <4> QED
        BY <1>5, <2>4, <2>5, <2>7, <4>1
    <3> QED
      BY <3>1, <3>2
  <2>9. n <= k
    <3>1. CASE k = L
      BY <1>2, <3>1
    <3>2. CASE k # L
      <4>1. /\ k + 1 \in 1..L /\ k + 1 \in 0..L /\ k + 1 # 0
            /\ (k + 1) - 1 = k /\ L - (k + 1) + 1 = L - k /\ L - k \in 1..L
        BY <1>2, <3>2
      <4>2. sum[k + 1] = sum[k] + Cost(estimates[L - k])
        BY <2>5, <4>1 DEF IsSum
      <4>3. Cost(estimates[L - k]) = budget + 1
        BY <1>2, <2>3, <4>1
      <4>4. ~(sum[k + 1] <= budget)
        BY <1>2, <2>7, <4>2, <4>3
      <4>5. ~(k + 1 <= n)
        BY <2>4, <2>5, <4>1, <4>4
      <4> QED
        BY <1>2, <4>5
    <3> QED
      BY <3>1, <3>2
  <2>10. n = k
    BY <1>2, <2>8, <2>9
  <2> QED
    BY <2>1, <2>2, <2>4, <2>10
<1> HIDE DEF L
<1>6. \A loaded : loaded \in Loads <=>
        loaded \in {LastN(msgs, k) : k \in {k \in 0..L : k <= budget}}
  BY <1>4, <1>5
<1> QED
  BY <1>1, <1>6 DEF L

-----------------------------------------------------------------------------
(* Ledgers *)

LEMMA LedgerFact ==
  ASSUME NEW l \in Ledger
  PROVE  /\ l.msgs \in Seq(Message)
         /\ l.turns \in Seq(Turn)
         /\ l.snaps \in Seq(Snapshot)
BY DEF Ledger

LEMMA EmptyLedgerFact ==
  /\ EmptyLedger \in Ledger
  /\ EmptyLedger.msgs = <<>>
BY DEF EmptyLedger, Ledger

LEMMA MessageLast ==
  ASSUME NEW msgs \in Seq(Message)
  PROVE  LastSequence(msgs) \in Nat
<1>1. CASE msgs = <<>>
  BY <1>1 DEF LastSequence
<1>2. CASE msgs # <<>>
  <2>1. Len(msgs) \in 1..Len(msgs)
    BY <1>2, EmptySeq
  <2>2. msgs[Len(msgs)] \in Message
    BY <2>1
  <2>3. QED BY <1>2, <2>2 DEF LastSequence, Message
<1>3. QED BY <1>1, <1>2

LEMMA TurnLast ==
  ASSUME NEW turns \in Seq(Turn)
  PROVE  LastSequence(turns) \in Nat
<1>1. CASE turns = <<>>
  BY <1>1 DEF LastSequence
<1>2. CASE turns # <<>>
  <2>1. Len(turns) \in 1..Len(turns)
    BY <1>2, EmptySeq
  <2>2. turns[Len(turns)] \in Turn
    BY <2>1
  <2>3. QED BY <1>2, <2>2 DEF LastSequence, Turn
<1>3. QED BY <1>1, <1>2

LEMMA SnapLast ==
  ASSUME NEW snaps \in Seq(Snapshot)
  PROVE  LastSequence(snaps) \in Nat
<1>1. CASE snaps = <<>>
  BY <1>1 DEF LastSequence
<1>2. CASE snaps # <<>>
  <2>1. Len(snaps) \in 1..Len(snaps)
    BY <1>2, EmptySeq
  <2>2. snaps[Len(snaps)] \in Snapshot
    BY <2>1
  <2>3. QED BY <1>2, <2>2 DEF LastSequence, Snapshot
<1>3. QED BY <1>1, <1>2

LEMMA ZeroCount ==
  ASSUME NEW items, NEW i \in Nat, NEW known \in Nat
  PROVE  Cardinality({j \in (known + 1)..i : items[j].seq = 0}) \in Nat
<1>1. IsFiniteSet((known + 1)..i)
  BY FS_Interval
<1>2. IsFiniteSet({j \in (known + 1)..i : items[j].seq = 0})
  BY <1>1, FS_Subset
<1>3. QED BY <1>2, FS_CardinalityType

(* Number keeps the length, and the type. *)
LEMMA AssignMessages ==
  ASSUME NEW msgs \in Seq(Message), NEW known \in Nat, NEW last \in Nat
  PROVE  /\ AssignSequences(msgs, known, last) \in Seq(Message)
         /\ Len(AssignSequences(msgs, known, last)) = Len(msgs)
<1>1. ASSUME NEW i \in 1..Len(msgs)
      PROVE  AssignSequences(msgs, known, last)[i] \in Message
  <2>1. Cardinality({j \in (known + 1)..i : msgs[j].seq = 0}) \in Nat
    BY ZeroCount
  <2>2. msgs[i] \in Message
    OBVIOUS
  <2>3. last + Cardinality({j \in (known + 1)..i : msgs[j].seq = 0}) \in Nat
    BY <2>1
  <2>4. QED BY <2>2, <2>3 DEF AssignSequences, Message
<1>2. /\ DOMAIN AssignSequences(msgs, known, last) = 1..Len(msgs)
      /\ Len(msgs) \in Nat
  BY DEF AssignSequences
<1>3. AssignSequences(msgs, known, last) \in [1..Len(msgs) -> Message]
  BY <1>1, <1>2 DEF AssignSequences
<1>4. QED BY <1>2, <1>3

LEMMA AssignTurns ==
  ASSUME NEW turns \in Seq(Turn), NEW known \in Nat, NEW last \in Nat
  PROVE  /\ AssignSequences(turns, known, last) \in Seq(Turn)
         /\ Len(AssignSequences(turns, known, last)) = Len(turns)
<1>1. ASSUME NEW i \in 1..Len(turns)
      PROVE  AssignSequences(turns, known, last)[i] \in Turn
  <2>1. Cardinality({j \in (known + 1)..i : turns[j].seq = 0}) \in Nat
    BY ZeroCount
  <2>2. turns[i] \in Turn
    OBVIOUS
  <2>3. last + Cardinality({j \in (known + 1)..i : turns[j].seq = 0}) \in Nat
    BY <2>1
  <2>4. QED BY <2>2, <2>3 DEF AssignSequences, Turn
<1>2. /\ DOMAIN AssignSequences(turns, known, last) = 1..Len(turns)
      /\ Len(turns) \in Nat
  BY DEF AssignSequences
<1>3. AssignSequences(turns, known, last) \in [1..Len(turns) -> Turn]
  BY <1>1, <1>2 DEF AssignSequences
<1>4. QED BY <1>2, <1>3

LEMMA AssignIDsType ==
  ASSUME NEW msgs \in Seq(Message), NEW known \in Nat, NEW r \in Nat
  PROVE  /\ AssignIDs(msgs, known, r) \in Seq(Message)
         /\ Len(AssignIDs(msgs, known, r)) = Len(msgs)
<1>1. ASSUME NEW i \in 1..Len(msgs)
      PROVE  AssignIDs(msgs, known, r)[i] \in Message
  <2>1. <<r, i>> \in ID
    BY DEF ID
  <2>2. msgs[i] \in Message
    OBVIOUS
  <2>3. DEFINE m == msgs[i] id == <<r, i>>
  <2>4. [m EXCEPT !.id = id] \in Message
    <3> HIDE DEF m, id
    <3> QED BY <2>1, <2>2 DEF Message, m, id
  <2>5. QED BY <2>2, <2>4 DEF AssignIDs
<1>2. /\ DOMAIN AssignIDs(msgs, known, r) = 1..Len(msgs)
      /\ Len(msgs) \in Nat
  BY DEF AssignIDs
<1>3. AssignIDs(msgs, known, r) \in [1..Len(msgs) -> Message]
  BY <1>1, <1>2 DEF AssignIDs
<1>4. QED BY <1>2, <1>3

LEMMA NewMessagesType ==
  ASSUME NEW old \in Ledger, NEW new \in Ledger, NEW r \in Nat
  PROVE  /\ NewMessages(old, new, r) \in Seq(Message)
         /\ Len(NewMessages(old, new, r)) = Len(new.msgs)
BY LedgerFact, AssignIDsType, AssignMessages, MessageLast DEF NewMessages

(* When the turns match, the new windows lie within the new messages. *)
LEMMA CutsInRange ==
  ASSUME NEW old \in Ledger, NEW new \in Ledger, NEW cut \in Cuts(old, new),
         NEW t \in (Len(old.turns) + 1)..Len(new.turns),
         new.turns[t].count > 0
  PROVE  /\ Len(old.msgs) + cut[t - 1] + 1 \in 1..Len(new.msgs)
         /\ Len(old.msgs) + cut[t] \in 1..Len(new.msgs)
<1> DEFINE known == Len(old.turns)
           total == Len(new.turns)
           added == Len(new.msgs) - Len(old.msgs)
<1>1. /\ known \in Nat /\ total \in Nat
      /\ Len(old.msgs) \in Nat /\ Len(new.msgs) \in Nat
  BY LedgerFact
<1>2. /\ t \in known..total
      /\ t - 1 \in known..total
  BY <1>1
<1>3. /\ cut \in [known..total -> 0..added]
      /\ cut[t] = cut[t - 1] + new.turns[t].count
  BY DEF Cuts
<1> HIDE DEF known, total
<1>4. /\ cut[t] \in 0..added
      /\ cut[t - 1] \in 0..added
  BY <1>2, <1>3
<1>5. new.turns[t].count \in Nat
  <2>1. new.turns[t] \in Turn
    BY LedgerFact, <1>1, <1>2 DEF known, total
  <2>2. QED BY <2>1 DEF Turn
<1>6. new.turns[t].count > 0
  OBVIOUS
<1> DEFINE a == cut[t - 1]
           b == cut[t]
           n == new.turns[t].count
           o == Len(old.msgs)
           m == Len(new.msgs)
<1>7. /\ a \in 0..(m - o) /\ b \in 0..(m - o)
      /\ b = a + n /\ n \in Nat /\ n > 0
      /\ o \in Nat /\ m \in Nat
  BY <1>1, <1>3, <1>4, <1>5, <1>6
<1> HIDE DEF a, b, n, o, m
<1>8. o + a + 1 \in 1..m /\ o + b \in 1..m
  BY <1>7
<1>9. QED BY <1>8 DEF a, b, o, m

LEMMA WindowedTurnsType ==
  ASSUME NEW old \in Ledger, NEW new \in Ledger,
         NEW turns \in Seq(Turn), NEW msgs \in Seq(Message),
         Len(turns) = Len(new.turns), Len(msgs) = Len(new.msgs),
         \A t \in 1..Len(turns) : turns[t].count = new.turns[t].count,
         Cuts(old, new) # {}
  PROVE  WindowedTurns(old, new, turns, msgs) \in Seq(Turn)
<1> DEFINE cut == CHOOSE f \in Cuts(old, new) : TRUE
           known == Len(old.turns)
           w == WindowedTurns(old, new, turns, msgs)
<1>1. cut \in Cuts(old, new)
  OBVIOUS
<1>2. known \in Nat /\ Len(turns) \in Nat
  BY LedgerFact
<1>3. w = [t \in 1..Len(turns) |->
             IF t > known /\ turns[t].count > 0
             THEN [turns[t] EXCEPT
                     !.first = IF @ = 0
                               THEN msgs[Len(old.msgs) + cut[t - 1] + 1].seq
                               ELSE @,
                     !.last  = IF @ = 0 THEN msgs[Len(old.msgs) + cut[t]].seq
                                        ELSE @]
             ELSE turns[t]]
  BY DEF WindowedTurns
<1> HIDE DEF cut, w
<1>4. ASSUME NEW t \in 1..Len(turns)
      PROVE  w[t] \in Turn
  <2>1. turns[t] \in Turn
    OBVIOUS
  <2>2. CASE ~(t > known /\ turns[t].count > 0)
    BY <2>1, <2>2, <1>3
  <2>3. CASE t > known /\ turns[t].count > 0
    <3> DEFINE f == msgs[Len(old.msgs) + cut[t - 1] + 1].seq
               l == msgs[Len(old.msgs) + cut[t]].seq
               first == IF turns[t].first = 0 THEN f ELSE turns[t].first
               last  == IF turns[t].last = 0 THEN l ELSE turns[t].last
    <3>1. t \in (Len(old.turns) + 1)..Len(new.turns)
      BY <2>3, <1>2
    <3>2. new.turns[t].count > 0
      BY <2>3
    <3>3. f \in Nat /\ l \in Nat
      <4>1. /\ Len(old.msgs) + cut[t - 1] + 1 \in 1..Len(msgs)
            /\ Len(old.msgs) + cut[t] \in 1..Len(msgs)
        BY <1>1, <3>1, <3>2, CutsInRange
      <4>2. /\ msgs[Len(old.msgs) + cut[t - 1] + 1] \in Message
            /\ msgs[Len(old.msgs) + cut[t]] \in Message
        BY <4>1
      <4>3. QED BY <4>2 DEF Message
    <3>4. w[t] = [turns[t] EXCEPT !.first = first, !.last = last]
      BY <2>3, <1>3
    <3>5. first \in Nat /\ last \in Nat
      BY <3>3, <2>1 DEF Turn
    <3> HIDE DEF first, last
    <3>6. QED BY <2>1, <3>4, <3>5 DEF Turn
  <2>4. QED BY <2>2, <2>3
<1>5. w \in [1..Len(turns) -> Turn]
  BY <1>3, <1>4
<1>6. w \in Seq(Turn)
  <2> DEFINE n == Len(turns)
  <2>1. n \in Nat /\ w \in [1..n -> Turn]
    BY <1>2, <1>5
  <2> HIDE DEF n
  <2>2. w \in UNION {[1..k -> Turn] : k \in Nat}
    BY <2>1, Zenon
  <2> QED
    BY <2>2, SeqDef, Zenon
<1>7. QED BY <1>6 DEF w

LEMMA NewTurnsType ==
  ASSUME NEW old \in Ledger, NEW new \in Ledger, NEW r \in Nat,
         NEW msgs \in Seq(Message), Len(msgs) = Len(new.msgs),
         Len(new.msgs) > Len(old.msgs),
         ~Truncates(old, new), ~TurnMismatch(old, new)
  PROVE  /\ NewTurns(old, new, msgs, r) \in Seq(Turn)
         /\ NewTurns(old, new, msgs, r) # <<>>
<1>1. /\ Len(old.turns) \in Nat /\ Len(new.turns) \in Nat
      /\ Len(old.msgs) \in Nat /\ Len(new.msgs) \in Nat
      /\ Len(new.turns) >= Len(old.turns)
      /\ new.turns \in Seq(Turn)
      /\ LastSequence(old.turns) \in Nat
  BY LedgerFact, TurnLast DEF Truncates
<1>2. CASE Len(new.turns) = Len(old.turns)
  <2>1. AutoTurn(old, msgs, r) \in Turn
    <3>1. <<r, Len(old.turns) + 1>> \in ID
      BY <1>1 DEF ID
    <3>2. /\ msgs[Len(old.msgs) + 1].seq \in Nat
          /\ msgs[Len(msgs)].seq \in Nat
      <4>1. /\ msgs[Len(old.msgs) + 1] \in Message
            /\ msgs[Len(msgs)] \in Message
        BY <1>1
      <4>2. QED BY <4>1 DEF Message
    <3>3. Len(msgs) - Len(old.msgs) \in Nat
      BY <1>1
    <3>4. LastSequence(old.turns) + 1 \in Nat
      BY <1>1
    <3>5. QED BY <3>1, <3>2, <3>3, <3>4 DEF AutoTurn, Turn
  <2> DEFINE auto == AutoTurn(old, msgs, r)
  <2>2. NewTurns(old, new, msgs, r) = Append(new.turns, auto)
    BY <1>2 DEF NewTurns
  <2>3. auto \in Turn
    BY <2>1
  <2> HIDE DEF auto
  <2>4. /\ Append(new.turns, auto) \in Seq(Turn)
        /\ Len(Append(new.turns, auto)) = Len(new.turns) + 1
    BY <1>1, <2>3
  <2>5. QED BY <1>1, <2>2, <2>4, EmptySeq
<1>3. CASE Len(new.turns) # Len(old.turns)
  <2> DEFINE turns == AssignSequences(new.turns, Len(old.turns),
                                      LastSequence(old.turns))
  <2>1. turns \in Seq(Turn) /\ Len(turns) = Len(new.turns)
    BY <1>1, AssignTurns
  <2>2. ASSUME NEW t \in 1..Len(turns)
        PROVE  turns[t].count = new.turns[t].count
    <3>1. t \in 1..Len(new.turns)
      BY <2>1
    <3>2. new.turns[t] \in Turn
      BY <3>1, <1>1
    <3>3. QED BY <3>1, <3>2 DEF AssignSequences, Turn
  <2>3. Cuts(old, new) # {}
    BY <1>1, <1>3 DEF TurnMismatch
  <2>4. NewTurns(old, new, msgs, r) = WindowedTurns(old, new, turns, msgs)
    BY <1>3 DEF NewTurns
  <2> HIDE DEF turns
  <2>5. WindowedTurns(old, new, turns, msgs) \in Seq(Turn)
    BY <2>1, <2>2, <2>3, WindowedTurnsType
  <2>6. Len(WindowedTurns(old, new, turns, msgs)) = Len(turns)
    BY <2>1 DEF WindowedTurns
  <2>7. QED BY <1>1, <1>3, <2>1, <2>4, <2>5, <2>6, EmptySeq
<1>4. QED BY <1>2, <1>3

LEMMA NewSnapshotsType ==
  ASSUME NEW old \in Ledger, NEW new \in Ledger, NEW r \in Nat,
         NEW msgs \in Seq(Message), NEW turns \in Seq(Turn), turns # <<>>
  PROVE  NewSnapshots(old, new, msgs, turns, r) \in Seq(Snapshot)
<1> DEFINE snap == [id       |-> <<r, Len(old.snaps) + 1>>,
                    seq      |-> LastSequence(old.snaps) + 1,
                    messages |-> Len(msgs),
                    turn     |-> turns[Len(turns)].seq]
<1>1. /\ Len(old.snaps) \in Nat
      /\ new.snaps \in Seq(Snapshot)
      /\ LastSequence(old.snaps) \in Nat
  BY LedgerFact, SnapLast
<1>2. turns[Len(turns)] \in Turn
  BY EmptySeq
<1>3. <<r, Len(old.snaps) + 1>> \in ID
  BY <1>1 DEF ID
<1>4. /\ turns[Len(turns)].seq \in Nat
      /\ Len(msgs) \in Nat
      /\ LastSequence(old.snaps) + 1 \in Nat
  <2>1. turns[Len(turns)].seq \in Nat
    BY <1>2, Zenon DEF Turn
  <2>2. Len(msgs) \in Nat
    BY LenProperties, Zenon
  <2>3. LastSequence(old.snaps) + 1 \in Nat
    BY <1>1
  <2> QED
    BY <2>1, <2>2, <2>3
<1>5. snap \in Snapshot
  BY <1>3, <1>4 DEF Snapshot
<1>6. CASE Len(new.snaps) = Len(old.snaps)
  <2>1. NewSnapshots(old, new, msgs, turns, r) = Append(new.snaps, snap)
    BY <1>6 DEF NewSnapshots
  <2> HIDE DEF snap
  <2>2. QED BY <1>1, <1>5, <2>1
<1>7. CASE Len(new.snaps) # Len(old.snaps)
  BY <1>1, <1>7 DEF NewSnapshots
<1>8. QED BY <1>6, <1>7

(* Save makes well formed session data of well formed session data. *)
LEMMA PreparedType ==
  ASSUME NEW old \in Ledger, NEW new \in Ledger, NEW r \in Nat,
         ~Truncates(old, new), ~TurnMismatch(old, new)
  PROVE  /\ Prepared(old, new, r) \in Ledger
         /\ Prepared(old, new, r).msgs = NewMessages(old, new, r)
<1> DEFINE msgs  == NewMessages(old, new, r)
           turns == NewTurns(old, new, msgs, r)
           snaps == NewSnapshots(old, new, msgs, turns, r)
<1>1. msgs \in Seq(Message) /\ Len(msgs) = Len(new.msgs)
  BY NewMessagesType
<1>2. CASE Len(new.msgs) > Len(old.msgs)
  <2>1. Prepared(old, new, r)
          = [msgs |-> msgs, turns |-> turns, snaps |-> snaps]
    BY <1>2 DEF Prepared
  <2> HIDE DEF msgs
  <2>2. turns \in Seq(Turn) /\ turns # <<>>
    BY <1>1, <1>2, NewTurnsType
  <2> HIDE DEF turns
  <2>3. snaps \in Seq(Snapshot)
    BY <1>1, <2>2, NewSnapshotsType
  <2> HIDE DEF snaps
  <2>4. QED BY <1>1, <2>1, <2>2, <2>3 DEF Ledger, msgs
<1>3. CASE ~(Len(new.msgs) > Len(old.msgs))
  <2>1. Prepared(old, new, r) = [new EXCEPT !.msgs = msgs]
    BY <1>3 DEF Prepared
  <2> HIDE DEF msgs
  <2>2. QED BY <1>1, <2>1 DEF Ledger, msgs
<1>4. QED BY <1>2, <1>3

LEMMA NewMessagesBlank ==
  ASSUME NEW n \in Nat
  PROVE  /\ [i \in 1..n |-> NewMessage] \in Seq(Message)
         /\ Len([i \in 1..n |-> NewMessage]) = n
<1>1. NewMessage \in Message
  BY DEF NewMessage, Message, ID, NoID
<1> HIDE DEF NewMessage
<1>2. [i \in 1..n |-> NewMessage] \in [1..n -> Message]
  BY <1>1
<1>3. QED BY <1>2

LEMMA WithBatchType ==
  ASSUME NEW l \in Ledger, NEW b \in Batches, NEW r \in Nat
  PROVE  /\ WithBatch(l, b, r) \in Ledger
         /\ Len(WithBatch(l, b, r).msgs) = Len(l.msgs) + b.n
         /\ \A i \in (Len(l.msgs) + 1)..(Len(l.msgs) + b.n) :
              WithBatch(l, b, r).msgs[i] = NewMessage
<1> DEFINE blank == [i \in 1..b.n |-> NewMessage]
           added == [t \in 1..Len(b.turns) |->
                       NewTurn(r, Len(l.turns) + t, b.turns[t])]
           msgs  == l.msgs \o blank
           turns == l.turns \o added
<1>1. /\ b.n \in Nat /\ b.turns \in Seq(Nat) /\ Len(b.turns) \in Nat
      /\ l.msgs \in Seq(Message) /\ l.turns \in Seq(Turn)
      /\ Len(l.msgs) \in Nat /\ Len(l.turns) \in Nat
  BY LedgerAssumption, LedgerFact
<1>2. blank \in Seq(Message) /\ Len(blank) = b.n
  BY <1>1, NewMessagesBlank
<1>3. added \in Seq(Turn)
  <2>1. ASSUME NEW t \in 1..Len(b.turns)
        PROVE  NewTurn(r, Len(l.turns) + t, b.turns[t]) \in Turn
    <3>1. <<r, Len(l.turns) + t>> \in ID
      BY <1>1 DEF ID
    <3>2. b.turns[t] \in Nat
      BY <1>1
    <3>3. QED BY <3>1, <3>2 DEF Turn, NewTurn
  <2>2. added \in [1..Len(b.turns) -> Turn]
    BY <2>1
  <2>3. QED BY <1>1, <2>2
<1>4. /\ WithBatch(l, b, r) = [l EXCEPT !.msgs = msgs, !.turns = turns]
      /\ \A i \in 1..b.n : blank[i] = NewMessage
  BY DEF WithBatch
<1> HIDE DEF blank, added
<1>5. msgs \in Seq(Message) /\ Len(msgs) = Len(l.msgs) + b.n
  <2> DEFINE base == l.msgs
  <2>1. base \in Seq(Message)
    BY <1>1
  <2> HIDE DEF base
  <2>2. /\ base \o blank \in Seq(Message)
        /\ Len(base \o blank) = Len(base) + Len(blank)
    BY <1>2, <2>1, ConcatProperties
  <2>3. QED BY <1>2, <2>2 DEF base
<1>6. turns \in Seq(Turn)
  BY <1>1, <1>3
<1>7. \A i \in (Len(l.msgs) + 1)..(Len(l.msgs) + b.n) : msgs[i] = NewMessage
  <2> SUFFICES ASSUME NEW i \in (Len(l.msgs) + 1)..(Len(l.msgs) + b.n)
               PROVE  msgs[i] = NewMessage
    OBVIOUS
  <2> DEFINE base == l.msgs
  <2>1. base \in Seq(Message) /\ Len(base) \in Nat
    BY <1>1
  <2> HIDE DEF base
  <2>2. \A k \in 1..(Len(base) + Len(blank)) :
          (base \o blank)[k] = IF k <= Len(base) THEN base[k]
                               ELSE blank[k - Len(base)]
    BY <1>2, <2>1, ConcatProperties
  <2>3. i \in (Len(base) + 1)..(Len(base) + b.n)
    BY DEF base
  <2>4. /\ i \in 1..(Len(base) + Len(blank)) /\ ~(i <= Len(base))
        /\ i - Len(base) \in 1..b.n
    BY <1>1, <1>2, <2>1, <2>3
  <2>5. (base \o blank)[i] = blank[i - Len(base)]
    BY <2>2, <2>4
  <2> QED
    BY <1>4, <2>4, <2>5 DEF base
<1> HIDE DEF msgs, turns
<1>8. WithBatch(l, b, r) \in Ledger /\ WithBatch(l, b, r).msgs = msgs
  BY <1>4, <1>5, <1>6 DEF Ledger
<1>9. QED BY <1>5, <1>7, <1>8

-----------------------------------------------------------------------------
(* Type correctness *)

LEMMA TypeInit == Init => TypeOK
BY EmptyLedgerFact DEF Init, TypeOK

LEMMA ReturnType ==
  ASSUME TypeOK, NEW c \in Clients,
         NEW result \in {"saved", "conflict", "malformed", "aborted"},
         Return(c, result),
         UNCHANGED <<storeVars, run, runs, view>>,
         committed' \subseteq Nat
  PROVE  TypeOK'
BY EmptyLedgerFact DEF TypeOK, Return, storeVars

LEMMA StartType ==
  ASSUME TypeOK, NEW c \in Clients, NEW s \in Sessions,
         NEW next \in {"run", "create"}, NEW state \in Ledger,
         NEW loaded \in {"whole", "part", "stale"},
         Start(c, s, next, state, loaded)
  PROVE  TypeOK'
BY DEF TypeOK, Start, storeVars

LEMMA LoadType ==
  ASSUME TypeOK, NEW c \in Clients, NEW s \in Sessions, Load(c, s)
  PROVE  TypeOK'
<1>1. PICK msgs \in LoadedMessages(store[s].msgs, ModeOf[c], NMessages) :
        Start(c, s, "run", [store[s] EXCEPT !.msgs = msgs],
              IF msgs = store[s].msgs THEN "whole" ELSE "part")
  BY DEF Load
<1>2. store[s] \in Ledger
  BY DEF TypeOK
<1>3. ModeOf[c] \in Modes /\ NMessages \in Nat
  BY LedgerAssumption
<1>4. msgs \in Seq(Message)
  BY <1>2, <1>3, LoadedFact, LedgerFact
<1> DEFINE state == [store[s] EXCEPT !.msgs = msgs]
<1>5. state \in Ledger
  BY <1>2, <1>4 DEF Ledger
<1> HIDE DEF state
<1>6. QED BY <1>1, <1>5, StartType DEF state

LEMMA RunLoopType ==
  ASSUME TypeOK, NEW c \in Clients, NEW b \in Batches, RunLoop(c, b)
  PROVE  TypeOK'
<1> DEFINE state == WithBatch(data[c], b, runs + 1)
<1>1. data[c] \in Ledger /\ runs + 1 \in Nat
  BY DEF TypeOK
<1>2. state \in Ledger
  BY <1>1, WithBatchType
<1>3. data' = [data EXCEPT ![c] = state]
  BY DEF RunLoop
<1> HIDE DEF state
<1>4. QED BY <1>1, <1>2, <1>3 DEF TypeOK, RunLoop, storeVars

LEMMA PrepareSaveType ==
  ASSUME TypeOK, NEW c \in Clients, PrepareSave(c)
  PROVE  TypeOK'
<1> DEFINE state == Prepared(store[on[c]], data[c], run[c])
<1>1. on[c] \in Sessions
  BY DEF TypeOK, PrepareSave
<1>2. store[on[c]] \in Ledger /\ data[c] \in Ledger /\ run[c] \in Nat
  BY <1>1 DEF TypeOK
<1>3. state \in Ledger
  BY <1>2, PreparedType DEF PrepareSave
<1>4. data' = [data EXCEPT ![c] = state]
  BY DEF PrepareSave
<1> HIDE DEF state
<1>5. QED BY <1>1, <1>3, <1>4 DEF TypeOK, PrepareSave, storeVars

LEMMA StoreType ==
  ASSUME TypeOK, NEW s \in Sessions, NEW l \in Ledger, NEW except,
         Store(s, l, except)
  PROVE  /\ store' \in [Sessions -> Ledger]
         /\ view' \in [Clients -> {"whole", "part", "stale"}]
BY DEF TypeOK, Store

LEMMA CommitNewType ==
  ASSUME TypeOK, NEW c \in Clients, CommitNew(c)
  PROVE  TypeOK'
<1>1. on[c] \in Sessions /\ data[c] \in Ledger
  BY DEF TypeOK, CommitNew
<1>2. /\ store' \in [Sessions -> Ledger]
        /\ view' \in [Clients -> {"whole", "part", "stale"}]
  BY <1>1, StoreType DEF CommitNew
<1>3. QED BY <1>1, <1>2 DEF TypeOK, CommitNew

LEMMA CommitSaveType ==
  ASSUME TypeOK, NEW c \in Clients, CommitSave(c)
  PROVE  TypeOK'
<1>1. on[c] \in Sessions /\ data[c] \in Ledger
  BY DEF TypeOK, CommitSave
<1>2. /\ store' \in [Sessions -> Ledger]
        /\ view' \in [Clients -> {"whole", "part", "stale"}]
  BY <1>1, StoreType DEF CommitSave
<1>3. QED BY <1>1, <1>2, EmptyLedgerFact DEF TypeOK, CommitSave, Return

LEMMA DeleteType ==
  ASSUME TypeOK, NEW s \in Sessions, DeleteSession(s)
  PROVE  TypeOK'
<1>1. /\ store' \in [Sessions -> Ledger]
        /\ view' \in [Clients -> {"whole", "part", "stale"}]
  BY StoreType, EmptyLedgerFact DEF DeleteSession
<1>2. QED BY <1>1 DEF TypeOK, DeleteSession, clientVars

LEMMA FlowType ==
  ASSUME TypeOK, NEW c \in Clients, Flow(c)
  PROVE  TypeOK'
<1>1. ASSUME NEW s \in Sessions, Load(c, s) PROVE TypeOK'
  BY <1>1, LoadType
<1>2. ASSUME NEW s \in Sessions, LoadMissing(c, s) PROVE TypeOK'
  BY <1>2, StartType, EmptyLedgerFact DEF LoadMissing
<1>3. ASSUME NEW s \in Sessions, LoadFails(c, s) PROVE TypeOK'
  BY <1>3, StartType, EmptyLedgerFact DEF LoadFails
<1>4. ASSUME NEW b \in Batches, RunLoop(c, b) PROVE TypeOK'
  BY <1>4, RunLoopType
<1>5. CASE SaveTruncates(c)
  BY <1>5, ReturnType DEF SaveTruncates, TypeOK
<1>6. CASE SaveMismatch(c)
  BY <1>6, ReturnType DEF SaveMismatch, TypeOK
<1>7. CASE PrepareSave(c)
  BY <1>7, PrepareSaveType
<1>8. CASE SaveRejected(c)
  BY <1>8, ReturnType DEF SaveRejected, TypeOK
<1>9. CASE CommitNew(c)
  BY <1>9, CommitNewType
<1>10. CASE CommitSave(c)
  BY <1>10, CommitSaveType
<1>11. CASE Abort(c)
  BY <1>11, ReturnType DEF Abort, TypeOK
<1>12. QED
  BY <1>1, <1>2, <1>3, <1>4, <1>5, <1>6, <1>7, <1>8, <1>9, <1>10, <1>11
  DEF Flow

LEMMA TypeStep == TypeOK /\ [Next]_vars => TypeOK'
<1> SUFFICES ASSUME TypeOK, [Next]_vars PROVE TypeOK'
  OBVIOUS
<1>1. ASSUME NEW c \in Clients, Flow(c) PROVE TypeOK'
  BY <1>1, FlowType
<1>2. ASSUME NEW s \in Sessions, DeleteSession(s) PROVE TypeOK'
  BY <1>2, DeleteType
<1>3. CASE UNCHANGED vars
  BY <1>3 DEF vars, TypeOK
<1>4. QED BY <1>1, <1>2, <1>3 DEF Next

(* Whatever the interleaving of flows and deletions, also under a running  *)
(* flow, the stored ledgers and the session data held by the flows are     *)
(* well formed; in particular the turn windows Save derives always lie     *)
(* within the messages.                                                    *)
THEOREM TypeCorrect == Spec => []TypeOK
BY TypeInit, TypeStep, PTL DEF Spec

-----------------------------------------------------------------------------
(* Only growth, whatever is deleted when *)

LEMMA KeepsIsKept ==
  ASSUME NEW S, NEW old \in Seq(S), NEW new \in Seq(S), KeepsPrefix(old, new)
  PROVE  Kept(old, new)
BY DEF KeepsPrefix, Kept

LEMMA KeptSame ==
  ASSUME NEW S, NEW l \in Seq(S)
  PROVE  Kept(l, l)
BY DEF Kept

(* What the operator stores in place of a live session keeps its entries. *)
LEMMA AcceptedKept ==
  ASSUME TypeOK, NEW c \in Clients, NEW s \in Sessions, s \in live,
         Acceptable(c), on[c] \in Sessions,
         store' = [store EXCEPT ![on[c]] = data[c]]
  PROVE  /\ Kept(store[s].msgs, store'[s].msgs)
         /\ Kept(store[s].turns, store'[s].turns)
         /\ Kept(store[s].snaps, store'[s].snaps)
<1>1. /\ store[s].msgs \in Seq(Message) /\ store[s].turns \in Seq(Turn)
      /\ store[s].snaps \in Seq(Snapshot)
  BY LedgerFact DEF TypeOK
<1>2. /\ data[c].msgs \in Seq(Message) /\ data[c].turns \in Seq(Turn)
      /\ data[c].snaps \in Seq(Snapshot)
  BY LedgerFact DEF TypeOK
<1>3. CASE s = on[c]
  <2>1. store'[s] = data[c]
    BY <1>3 DEF TypeOK
  <2>2. /\ KeepsPrefix(store[s].msgs, data[c].msgs)
        /\ KeepsPrefix(store[s].turns, data[c].turns)
        /\ KeepsPrefix(store[s].snaps, data[c].snaps)
    BY <1>3 DEF Acceptable, validateAppendOnlyState
  <2>3. QED BY <1>1, <1>2, <2>1, <2>2, KeepsIsKept
<1>4. CASE s # on[c]
  <2>1. store'[s] = store[s]
    BY <1>4
  <2>2. QED BY <1>1, <2>1, KeptSame
<1>5. QED BY <1>3, <1>4

LEMMA GrowthStep ==
  ASSUME TypeOK, [Next]_vars, NEW s \in Sessions, s \in live, s \in live'
  PROVE  /\ Kept(store[s].msgs, store'[s].msgs)
         /\ Kept(store[s].turns, store'[s].turns)
         /\ Kept(store[s].snaps, store'[s].snaps)
<1> DEFINE Same == store'[s] = store[s]
<1>1. ASSUME Same
      PROVE  /\ Kept(store[s].msgs, store'[s].msgs)
             /\ Kept(store[s].turns, store'[s].turns)
             /\ Kept(store[s].snaps, store'[s].snaps)
  <2>1. /\ store[s].msgs \in Seq(Message) /\ store[s].turns \in Seq(Turn)
        /\ store[s].snaps \in Seq(Snapshot)
    BY LedgerFact DEF TypeOK
  <2>2. QED BY <1>1, <2>1, KeptSame
<1>2. ASSUME NEW c \in Clients, CommitNew(c) \/ CommitSave(c)
      PROVE  /\ Kept(store[s].msgs, store'[s].msgs)
             /\ Kept(store[s].turns, store'[s].turns)
             /\ Kept(store[s].snaps, store'[s].snaps)
  <2>1. /\ Acceptable(c) /\ on[c] \in Sessions
        /\ store' = [store EXCEPT ![on[c]] = data[c]]
    BY <1>2 DEF CommitNew, CommitSave, Store, TypeOK
  <2>2. QED BY <2>1, AcceptedKept
<1>3. ASSUME NEW c \in Clients, Flow(c), ~CommitNew(c), ~CommitSave(c)
      PROVE  Same
  BY <1>3
  DEF Flow, Load, LoadMissing, LoadFails, Start, RunLoop, SaveTruncates,
      SaveMismatch, PrepareSave, SaveRejected, Abort, storeVars
<1>4. ASSUME NEW t \in Sessions, DeleteSession(t)
      PROVE  Same
  <2>1. s # t
    BY <1>4 DEF DeleteSession
  <2>2. QED BY <1>4, <2>1 DEF DeleteSession, Store, TypeOK
<1>5. CASE UNCHANGED vars
  BY <1>1, <1>5 DEF vars, storeVars
<1>6. QED BY <1>1, <1>2, <1>3, <1>4, <1>5 DEF Next

(* What a live session holds is never removed or replaced, neither by      *)
(* flows that race nor by one that saves what it loaded before a deletion. *)
THEOREM Grows == Spec => AppendOnly
<1>1. TypeOK /\ [Next]_vars =>
        [\A s \in Sessions :
           s \in live /\ s \in live' =>
             /\ Kept(store[s].msgs, store'[s].msgs)
             /\ Kept(store[s].turns, store'[s].turns)
             /\ Kept(store[s].snaps, store'[s].snaps)]_storeVars
  BY GrowthStep
<1>2. QED BY <1>1, TypeCorrect, PTL DEF Spec, AppendOnly

-----------------------------------------------------------------------------
(* The inductive invariant, when sessions are deleted only while quiet *)

LEMMA QuietIsNext == [QuietNext]_vars => [Next]_vars
BY DEF QuietNext, Next

LEMMA QuietType == QuietSpec => []TypeOK
<1>1. TypeOK /\ [QuietNext]_vars => TypeOK'
  BY TypeStep, QuietIsNext
<1>2. QED BY TypeInit, <1>1, PTL DEF QuietSpec

LEMMA IInit == Init => IInv
BY EmptyLedgerFact, LedgerAssumption
DEF Init, IInv, StoredInv, RunsInv, HeldInv, HeldBy, Saving

(* What a client holds stays in step with a ledger that only grows. *)
LEMMA HeldGrows ==
  ASSUME NEW held, NEW r, NEW m \in Nat, NEW n \in Nat, m <= n
  PROVE  /\ Unnumbered(held, m) => Unnumbered(held, n)
         /\ NumberedFor(held, m, r) => NumberedFor(held, n, r)
<1>1. 0..m \subseteq 0..n
  OBVIOUS
<1>2. Unnumbered(held, m) => Unnumbered(held, n)
  BY <1>1, Zenon DEF Unnumbered
<1>3. NumberedFor(held, m, r) => NumberedFor(held, n, r)
  BY <1>1, Zenon DEF NumberedFor
<1>4. QED BY <1>2, <1>3

(* A step that changes only what client c holds. *)
LEMMA LocalStep ==
  ASSUME TypeOK, IInv, NEW c \in Clients,
         UNCHANGED <<live, store, committed>>,
         \A d \in Clients \ {c} : /\ pc'[d] = pc[d]
                                  /\ on'[d] = on[d]
                                  /\ data'[d] = data[d]
                                  /\ run'[d] = run[d],
         RunsInv', HeldBy(c)'
  PROVE  IInv'
<1>1. StoredInv'
  BY DEF IInv, StoredInv
<1>2. ASSUME NEW d \in Clients \ {c} PROVE HeldBy(d)'
  BY DEF IInv, HeldInv, HeldBy
<1>3. QED BY <1>1, <1>2 DEF IInv, HeldInv

LEMMA ReturnStep ==
  ASSUME TypeOK, IInv, NEW c \in Clients, NEW result, Return(c, result),
         UNCHANGED <<live, store, committed, run, runs>>
  PROVE  IInv'
<1>1. /\ pc'[c] = "idle"
      /\ \A d \in Clients \ {c} : /\ pc'[d] = pc[d]
                                   /\ on'[d] = on[d]
                                   /\ data'[d] = data[d]
                                   /\ run'[d] = run[d]
  BY DEF Return, TypeOK
<1>2. RunsInv'
  BY <1>1 DEF IInv, RunsInv, Saving
<1>3. HeldBy(c)'
  BY <1>1 DEF HeldBy
<1>4. QED BY <1>1, <1>2, <1>3, LocalStep

LEMMA StartStep ==
  ASSUME TypeOK, IInv, NEW c \in Clients, NEW s \in Sessions,
         NEW next \in {"run", "create"}, NEW state, NEW loaded,
         Start(c, s, next, state, loaded),
         next = "create" => state.msgs = <<>>,
         next = "run" => Len(state.msgs) <= Len(store[s].msgs)
  PROVE  IInv'
<1>1. /\ pc'[c] = next /\ on'[c] = s /\ data'[c] = state
      /\ UNCHANGED <<live, store, committed, run, runs>>
      /\ \A d \in Clients \ {c} : /\ pc'[d] = pc[d]
                                   /\ on'[d] = on[d]
                                   /\ data'[d] = data[d]
                                   /\ run'[d] = run[d]
  BY DEF Start, TypeOK, storeVars
<1>2. RunsInv'
  BY <1>1 DEF IInv, RunsInv, Saving
<1>3. HeldBy(c)'
  BY <1>1 DEF HeldBy
<1>4. QED BY <1>1, <1>2, <1>3, LocalStep

LEMMA LoadStep ==
  ASSUME TypeOK, IInv, NEW c \in Clients, NEW s \in Sessions, Load(c, s)
  PROVE  IInv'
<1>1. PICK msgs \in LoadedMessages(store[s].msgs, ModeOf[c], NMessages) :
        Start(c, s, "run", [store[s] EXCEPT !.msgs = msgs],
              IF msgs = store[s].msgs THEN "whole" ELSE "part")
  BY DEF Load
<1>2. store[s] \in Ledger
  BY DEF TypeOK
<1>3. ModeOf[c] \in Modes /\ NMessages \in Nat
  BY LedgerAssumption
<1>4. Len(msgs) <= Len(store[s].msgs)
  BY <1>2, <1>3, LoadedFact, LedgerFact
<1> DEFINE state == [store[s] EXCEPT !.msgs = msgs]
<1>5. state.msgs = msgs
  BY <1>2 DEF Ledger
<1> HIDE DEF state
<1>6. QED BY <1>1, <1>4, <1>5, StartStep DEF state

LEMMA RunLoopStep ==
  ASSUME TypeOK, IInv, NEW c \in Clients, NEW b \in Batches, RunLoop(c, b)
  PROVE  IInv'
<1> DEFINE old == data[c].msgs
           new == WithBatch(data[c], b, runs + 1).msgs
           stored == Len(store[on[c]].msgs)
<1>1. /\ pc[c] = "run" /\ pc'[c] = "save" /\ on'[c] = on[c]
      /\ data'[c] = WithBatch(data[c], b, runs + 1)
      /\ run'[c] = runs + 1 /\ runs' = runs + 1
      /\ UNCHANGED <<live, store, committed>>
      /\ \A d \in Clients \ {c} : /\ pc'[d] = pc[d]
                                   /\ on'[d] = on[d]
                                   /\ data'[d] = data[d]
                                   /\ run'[d] = run[d]
  BY DEF RunLoop, TypeOK, storeVars
<1>2. /\ on[c] \in Sessions
      /\ store[on[c]] \in Ledger /\ data[c] \in Ledger /\ runs \in Nat
  BY <1>1 DEF TypeOK
<1>3. /\ Len(old) \in Nat /\ stored \in Nat
      /\ Len(old) <= stored
      /\ b.n \in Nat
  BY <1>1, <1>2, LedgerFact, LedgerAssumption DEF IInv, HeldInv, HeldBy
<1>4. /\ Len(new) = Len(old) + b.n
      /\ \A i \in (Len(old) + 1)..(Len(old) + b.n) : new[i] = NewMessage
  BY <1>2, WithBatchType
<1>5. Unnumbered(new, stored)
  <2> HIDE DEF old, new, stored
  <2>1. Len(old) \in 0..stored /\ Len(new) - Len(old) = b.n
    BY <1>3, <1>4
  <2>2. QED BY <1>3, <1>4, <2>1 DEF Unnumbered
<1>6. HeldBy(c)'
  BY <1>1, <1>5 DEF HeldBy
<1>7. RunsInv'
  <2>1. committed \subseteq 1..runs /\ runs \in Nat /\ runs + 1 <= MaxRuns
    BY <1>2, LedgerAssumption DEF IInv, RunsInv, RunLoop
  <2>2. \A d \in Clients : Saving(d) => run[d] \in (1..runs) \ committed
    BY DEF IInv, RunsInv
  <2>3. \A d, e \in Clients : Saving(d) /\ Saving(e) /\ run[d] = run[e] => d = e
    BY DEF IInv, RunsInv
  <2>4. \A d \in Clients \ {c} : Saving(d)' <=> Saving(d)
    BY <1>1 DEF Saving
  <2>5. QED BY <1>1, <2>1, <2>2, <2>3, <2>4 DEF RunsInv
<1>8. QED BY <1>1, <1>6, <1>7, LocalStep

(* What Save makes of messages of which the first v were loaded: those     *)
(* beyond the stored ones get the run's IDs and their positions.           *)
LEMMA NewMessagesNumbered ==
  ASSUME NEW old \in Ledger, NEW new \in Ledger, NEW r \in Nat,
         Len(old.msgs) <= Len(new.msgs),
         LastSequence(old.msgs) = Len(old.msgs),
         NEW v \in 0..Len(old.msgs),
         \A i \in (v + 1)..Len(new.msgs) : new.msgs[i] = NewMessage
  PROVE  LET msgs == NewMessages(old, new, r)
         IN /\ \A i \in 1..Len(old.msgs) : msgs[i] = new.msgs[i]
            /\ \A i \in (Len(old.msgs) + 1)..Len(new.msgs) :
                 msgs[i].id = <<r, i>> /\ msgs[i].seq = i
<1> DEFINE k == Len(old.msgs)
           n == Len(new.msgs)
           named == AssignIDs(new.msgs, k, r)
           msgs == NewMessages(old, new, r)
<1>1. k \in Nat /\ n \in Nat /\ k <= n /\ v <= k
  BY LedgerFact
<1>2. named \in Seq(Message) /\ Len(named) = n
  BY LedgerFact, AssignIDsType
<1>3. msgs = AssignSequences(named, k, k)
  BY DEF NewMessages
<1>4. \A i \in 1..k : named[i] = new.msgs[i]
  BY <1>1 DEF AssignIDs
<1>5. \A i \in (k + 1)..n : named[i].id = <<r, i>> /\ named[i].seq = 0
  <2> TAKE i \in (k + 1)..n
  <2>1. new.msgs[i] = NewMessage
    BY <1>1
  <2>2. NewMessage.id = NoID
    BY DEF NewMessage
  <2>3. i \in 1..Len(new.msgs) /\ i > k
    BY <1>1
  <2> DEFINE m == new.msgs[i]
  <2>4. named[i] = [m EXCEPT !.id = <<r, i>>]
    BY <2>1, <2>2, <2>3 DEF AssignIDs
  <2>5. m = NewMessage
    BY <2>1
  <2> HIDE DEF m, named
  <2>6. QED BY <2>4, <2>5 DEF NewMessage
<1> HIDE DEF named, msgs
<1>6. ASSUME NEW i \in 1..k PROVE msgs[i] = new.msgs[i]
  BY <1>1, <1>2, <1>3, <1>4 DEF AssignSequences
<1>7. ASSUME NEW i \in (k + 1)..n
      PROVE  msgs[i].id = <<r, i>> /\ msgs[i].seq = i
  <2> DEFINE blank == {j \in (k + 1)..i : named[j].seq = 0}
  <2>1. blank = (k + 1)..i
    BY <1>1, <1>5
  <2>2. Cardinality((k + 1)..i) = i - k
    <3>1. k + 1 \in Int /\ i \in Int /\ ~(k + 1 > i)
      BY <1>1
    <3>2. Cardinality((k + 1)..i) = i - (k + 1) + 1
      BY <3>1, FS_Interval
    <3>3. QED BY <1>1, <3>2
  <2>3. msgs[i] = [named[i] EXCEPT !.seq = k + Cardinality(blank)]
    BY <1>1, <1>2, <1>3, <1>5 DEF AssignSequences
  <2> HIDE DEF blank
  <2>4. k + Cardinality(blank) = i
    BY <1>1, <2>1, <2>2
  <2>5. named[i] \in Message
    BY <1>1, <1>2
  <2>6. msgs[i] = [named[i] EXCEPT !.seq = i]
    BY <2>3, <2>4
  <2>7. QED BY <1>5, <2>5, <2>6 DEF Message
<1>8. QED BY <1>6, <1>7 DEF msgs

(* In a numbered ledger the last sequence is the length. *)
LEMMA StoredLast ==
  ASSUME TypeOK, StoredInv, NEW s \in Sessions
  PROVE  LastSequence(store[s].msgs) = Len(store[s].msgs)
<1>1. store[s].msgs \in Seq(Message) /\ Len(store[s].msgs) \in Nat
  BY LedgerFact DEF TypeOK
<1>2. CASE store[s].msgs = <<>>
  BY <1>2 DEF LastSequence
<1>3. CASE store[s].msgs # <<>>
  <2>1. Len(store[s].msgs) \in 1..Len(store[s].msgs)
    BY <1>1, <1>3, EmptySeq
  <2>2. QED BY <1>3, <2>1 DEF LastSequence, StoredInv
<1>4. QED BY <1>2, <1>3

LEMMA PrepareSaveStep ==
  ASSUME TypeOK, IInv, NEW c \in Clients, PrepareSave(c)
  PROVE  IInv'
<1> DEFINE old == store[on[c]]
           new == data[c]
           r == run[c]
           msgs == NewMessages(old, new, r)
           k == Len(old.msgs)
<1>1. /\ pc[c] \in {"create", "save"}
      /\ pc'[c] = IF pc[c] = "create" THEN "commitNew" ELSE "commit"
      /\ on'[c] = on[c] /\ data'[c] = Prepared(old, new, r)
      /\ ~Truncates(old, new) /\ ~TurnMismatch(old, new)
      /\ UNCHANGED <<live, store, committed, run, runs>>
      /\ \A d \in Clients \ {c} : /\ pc'[d] = pc[d]
                                   /\ on'[d] = on[d]
                                   /\ data'[d] = data[d]
                                   /\ run'[d] = run[d]
  BY DEF PrepareSave, TypeOK, storeVars
<1>2. /\ on[c] \in Sessions
      /\ old \in Ledger /\ new \in Ledger /\ r \in Nat
  BY <1>1 DEF TypeOK
<1>3. /\ data'[c].msgs = msgs
      /\ msgs \in Seq(Message)
      /\ Len(msgs) = Len(new.msgs)
  BY <1>1, <1>2, PreparedType, NewMessagesType
<1>4. k \in Nat /\ Len(new.msgs) \in Nat /\ k <= Len(new.msgs)
  BY <1>1, <1>2, LedgerFact DEF Truncates
<1>5. RunsInv'
  BY <1>1 DEF IInv, RunsInv, Saving
<1>6. CASE pc[c] = "create"
  <2>1. new.msgs = <<>>
    BY <1>6 DEF IInv, HeldInv, HeldBy
  <2>2. msgs = <<>>
    BY <1>3, <2>1, EmptySeq
  <2> HIDE DEF msgs, old, new, r
  <2>3. HeldBy(c)'
    BY <1>1, <1>3, <1>6, <2>2 DEF HeldBy
  <2>4. QED BY <1>1, <1>5, <2>3, LocalStep
<1>7. CASE pc[c] = "save"
  <2>1. Unnumbered(new.msgs, k)
    BY <1>7 DEF IInv, HeldInv, HeldBy
  <2>2. PICK v \in 0..k :
          /\ v <= Len(new.msgs)
          /\ Len(new.msgs) - v \in {b.n : b \in Batches}
          /\ \A i \in (v + 1)..Len(new.msgs) : new.msgs[i] = NewMessage
    BY <2>1 DEF Unnumbered
  <2>3. LastSequence(old.msgs) = k
    BY <1>2, StoredLast DEF IInv
  <2>4. /\ \A i \in 1..k : msgs[i] = new.msgs[i]
        /\ \A i \in (k + 1)..Len(new.msgs) :
             msgs[i].id = <<r, i>> /\ msgs[i].seq = i
    BY <1>2, <1>4, <2>2, <2>3, NewMessagesNumbered
  <2>5. \A i \in (v + 1)..k : msgs[i].id = NoID
    BY <1>4, <2>2, <2>4 DEF NewMessage
  <2> HIDE DEF msgs, k
  <2>6. v <= k /\ k \in 0..k
    BY <1>4
  <2>7. NumberedFor(msgs, k, r)
    BY <1>3, <1>4, <2>2, <2>4, <2>5, <2>6 DEF NumberedFor
  <2>8. HeldBy(c)'
    BY <1>1, <1>3, <1>7, <2>7 DEF HeldBy, k
  <2>9. QED BY <1>1, <1>5, <2>8, LocalStep
<1>8. QED BY <1>1, <1>6, <1>7

(* What the operator accepts from a flow that numbered its batch: the      *)
(* stored messages, still where they were, and the batch after them.  If   *)
(* the ledger had grown since the flow loaded it, an ID would differ at    *)
(* the first place the flow did not see.                                   *)
LEMMA CommitFact ==
  ASSUME TypeOK, IInv, NEW c \in Clients, pc[c] = "commit", Acceptable(c)
  PROVE  LET stored == store[on[c]].msgs
             held   == data[c].msgs
         IN /\ on[c] \in Sessions
            /\ stored \in Seq(Message) /\ held \in Seq(Message)
            /\ Len(stored) <= Len(held)
            /\ Len(held) - Len(stored) \in {b.n : b \in Batches}
            /\ \A i \in 1..Len(stored) : held[i].id = stored[i].id
            /\ \A i \in 1..Len(held) : held[i].seq = i
            /\ \A i \in (Len(stored) + 1)..Len(held) :
                 held[i].id = <<run[c], i>>
<1> DEFINE stored == store[on[c]].msgs
           held   == data[c].msgs
           m == Len(stored)
           n == Len(held)
           r == run[c]
<1>1. /\ on[c] \in Sessions
      /\ stored \in Seq(Message) /\ held \in Seq(Message)
      /\ m \in Nat /\ n \in Nat
  BY LedgerFact DEF TypeOK
<1>2. /\ \A i \in 1..m : stored[i].seq = i /\ stored[i].id[1] \in committed
      /\ on[c] \notin live => m = 0
  BY <1>1, EmptyLedgerFact DEF IInv, StoredInv
<1>3. r \in (1..runs) \ committed /\ committed \subseteq 1..runs /\ runs \in Nat
  BY DEF IInv, RunsInv, Saving, TypeOK
<1>4. NumberedFor(held, m, r)
  BY DEF IInv, HeldInv, HeldBy
<1>5. /\ m <= n
      /\ \A i \in 1..m : held[i].id = stored[i].id /\ held[i].seq = i
  <2>1. CASE on[c] \in live
    <3>1. KeepsPrefix(stored, held)
      BY <2>1 DEF Acceptable, validateAppendOnlyState
    <3>2. /\ n >= m
          /\ \A i \in 1..m : /\ held[i].id = stored[i].id
                             /\ stored[i].seq > 0 =>
                                  held[i].seq = stored[i].seq
      BY <3>1 DEF KeepsPrefix
    <3> HIDE DEF stored, held, m, n
    <3>3. \A i \in 1..m : stored[i].seq = i /\ i > 0
      BY <1>1, <1>2
    <3>4. QED BY <1>1, <3>2, <3>3
  <2>2. CASE on[c] \notin live
    BY <1>1, <1>2, <2>2
  <2>3. QED BY <2>1, <2>2
<1> HIDE DEF stored, held, r
<1>6. PICK v, k \in 0..m :
        /\ v <= k /\ k <= n
        /\ n - v \in {b.n : b \in Batches}
        /\ \A i \in (v + 1)..k : held[i].id = NoID
        /\ \A i \in (k + 1)..n : held[i].id = <<r, i>> /\ held[i].seq = i
  BY <1>4 DEF NumberedFor
<1>7. v = m
  <2> SUFFICES ASSUME v < m PROVE FALSE
    BY <1>1, <1>6
  <2>1. v + 1 \in 1..m /\ v + 1 \in 1..n
    BY <1>1, <1>5, <1>6
  <2>2. held[v + 1].id = stored[v + 1].id /\ stored[v + 1].id[1] \in committed
    BY <1>2, <1>5, <2>1
  <2>3. CASE v < k
    <3>1. held[v + 1].id = NoID
      BY <1>1, <1>6, <2>3
    <3>2. 0 \in committed
      BY <2>2, <3>1 DEF NoID
    <3>3. QED BY <1>3, <3>2
  <2>4. CASE v = k
    <3>1. held[v + 1].id = <<r, v + 1>>
      BY <1>1, <1>6, <2>1, <2>4
    <3>2. r \in committed
      BY <2>2, <3>1
    <3>3. QED BY <1>3, <3>2
  <2>5. QED BY <1>1, <1>6, <2>3, <2>4
<1>8. k = m
  BY <1>1, <1>6, <1>7
<1>9. \A i \in 1..n : held[i].seq = i
  BY <1>1, <1>5, <1>6, <1>8
<1>10. QED
  BY <1>1, <1>5, <1>6, <1>7, <1>8, <1>9 DEF stored, held, r

(* A session just created is empty, or was there and still is empty. *)
LEMMA CommitNewStep ==
  ASSUME TypeOK, IInv, NEW c \in Clients, CommitNew(c)
  PROVE  IInv'
<1> DEFINE s == on[c]
<1>1. /\ pc[c] = "commitNew" /\ Acceptable(c)
      /\ store' = [store EXCEPT ![s] = data[c]]
      /\ live' = live \cup {s}
      /\ pc' = [pc EXCEPT ![c] = "run"]
      /\ UNCHANGED <<on, data, run, runs, committed>>
  BY DEF CommitNew, Store
<1>2. s \in Sessions /\ store[s] \in Ledger /\ data[c] \in Ledger
  BY <1>1 DEF TypeOK
<1>3. data[c].msgs = <<>>
  BY <1>1 DEF IInv, HeldInv, HeldBy
<1>4. store[s].msgs = <<>>
  <2>1. CASE s \in live
    <3>1. KeepsPrefix(store[s].msgs, data[c].msgs)
      BY <1>1, <2>1 DEF Acceptable, validateAppendOnlyState
    <3>2. /\ Len(store[s].msgs) <= 0
          /\ store[s].msgs \in Seq(Message)
      BY <1>2, <1>3, <3>1, LedgerFact DEF KeepsPrefix
    <3>3. QED BY <3>2, EmptySeq
  <2>2. CASE s \notin live
    BY <1>2, <2>2, EmptyLedgerFact DEF IInv, StoredInv
  <2>3. QED BY <2>1, <2>2
<1>5. \A t \in Sessions : store'[t].msgs = store[t].msgs
  BY <1>1, <1>2, <1>3, <1>4 DEF TypeOK
<1>6. StoredInv'
  <2>1. \A t \in Sessions : t \notin live' => store'[t] = EmptyLedger
    BY <1>1 DEF IInv, StoredInv, TypeOK
  <2>2. QED BY <1>1, <1>5, <2>1 DEF IInv, StoredInv
<1>7. \A d \in Clients \ {c} : pc'[d] = pc[d]
  BY <1>1 DEF TypeOK
<1>8. RunsInv'
  BY <1>1, <1>7 DEF IInv, RunsInv, Saving, TypeOK
<1>9. ASSUME NEW d \in Clients PROVE HeldBy(d)'
  <2>1. CASE d = c
    BY <1>1, <1>2, <1>3, <2>1 DEF HeldBy, TypeOK
  <2>2. CASE d # c
    <3>1. pc[d] # "idle" => on[d] \in Sessions
      BY DEF TypeOK
    <3>2. HeldBy(d)
      BY DEF IInv, HeldInv
    <3>3. QED BY <1>1, <1>5, <1>7, <2>2, <3>1, <3>2 DEF HeldBy, TypeOK
  <2>3. QED BY <2>1, <2>2
<1>10. QED BY <1>6, <1>8, <1>9 DEF IInv, HeldInv

LEMMA CommitSaveStep ==
  ASSUME TypeOK, IInv, NEW c \in Clients, CommitSave(c)
  PROVE  IInv'
<1> DEFINE s == on[c]
           old == store[s].msgs
           new == data[c].msgs
<1>1. /\ pc[c] = "commit" /\ Acceptable(c)
      /\ store' = [store EXCEPT ![s] = data[c]]
      /\ live' = live \cup {s}
      /\ committed' = committed \cup {run[c]}
      /\ UNCHANGED <<run, runs>>
  BY DEF CommitSave, Store
<1>2. /\ pc'[c] = "idle"
      /\ \A d \in Clients \ {c} : /\ pc'[d] = pc[d]
                                   /\ on'[d] = on[d]
                                   /\ data'[d] = data[d]
                                   /\ run'[d] = run[d]
  BY DEF CommitSave, Return, TypeOK
<1>3. /\ s \in Sessions
      /\ old \in Seq(Message) /\ new \in Seq(Message)
      /\ Len(old) <= Len(new)
      /\ \A i \in 1..Len(old) : new[i].id = old[i].id
      /\ \A i \in 1..Len(new) : new[i].seq = i
      /\ \A i \in (Len(old) + 1)..Len(new) : new[i].id = <<run[c], i>>
  BY <1>1, CommitFact
<1>4. \A i \in 1..Len(old) : old[i].id[1] \in committed /\ old[i].id[2] = i
  BY <1>3 DEF IInv, StoredInv
<1>5. /\ store'[s] = data[c]
      /\ \A t \in Sessions \ {s} : store'[t] = store[t]
  BY <1>1, <1>3 DEF TypeOK
<1>6. StoredInv'
  <2>1. ASSUME NEW i \in 1..Len(new)
        PROVE  /\ new[i].seq = i
               /\ new[i].id[1] \in committed'
               /\ new[i].id[2] = i
    <3>1. CASE i \in 1..Len(old)
      BY <1>1, <1>3, <1>4, <3>1
    <3>2. CASE i \in (Len(old) + 1)..Len(new)
      BY <1>1, <1>3, <3>2
    <3>3. QED BY <1>3, <3>1, <3>2
  <2>2. ASSUME NEW t \in Sessions \ {s}
        PROVE  /\ t \notin live' => store'[t] = EmptyLedger
               /\ \A i \in 1..Len(store'[t].msgs) :
                    /\ store'[t].msgs[i].seq = i
                    /\ store'[t].msgs[i].id[1] \in committed'
                    /\ store'[t].msgs[i].id[2] = i
    BY <1>1, <1>5 DEF IInv, StoredInv
  <2>3. s \in live'
    BY <1>1
  <2>4. QED BY <1>5, <2>1, <2>2, <2>3 DEF StoredInv
<1>7. RunsInv'
  <2>1. /\ runs <= MaxRuns
        /\ committed \subseteq 1..runs
        /\ run[c] \in (1..runs) \ committed
        /\ Saving(c)
    BY <1>1 DEF IInv, RunsInv, Saving
  <2>2. \A d \in Clients : Saving(d)' => Saving(d) /\ d # c
    BY <1>2 DEF Saving
  <2>3. \A d \in Clients : Saving(d)' => run[d] # run[c]
    BY <2>1, <2>2 DEF IInv, RunsInv
  <2>4. committed' \subseteq 1..runs
    BY <1>1, <2>1
  <2>5. \A d \in Clients : Saving(d)' => run[d] \in (1..runs) \ committed'
    BY <1>1, <2>2, <2>3 DEF IInv, RunsInv
  <2>6. \A d, e \in Clients :
          Saving(d)' /\ Saving(e)' /\ run[d] = run[e] => d = e
    BY <2>2 DEF IInv, RunsInv
  <2>7. QED BY <1>1, <2>1, <2>4, <2>5, <2>6 DEF RunsInv
<1>8. ASSUME NEW d \in Clients PROVE HeldBy(d)'
  <2>1. CASE d = c
    BY <1>2, <2>1 DEF HeldBy
  <2>2. CASE d # c /\ pc[d] = "idle"
    BY <1>2, <2>2 DEF HeldBy
  <2>3. CASE d # c /\ pc[d] # "idle"
    <3> DEFINE m == Len(store[on[d]].msgs)
               n == Len(store'[on[d]].msgs)
    <3>1. on[d] \in Sessions
      BY <2>3 DEF TypeOK
    <3>2. m \in Nat /\ n \in Nat /\ m <= n
      <4>1. CASE on[d] = s
        BY <1>3, <1>5, <4>1
      <4>2. CASE on[d] # s
        <5>1. store[on[d]] \in Ledger
          BY <3>1 DEF TypeOK
        <5>2. QED BY <1>5, <3>1, <4>2, <5>1, LedgerFact
      <4>3. QED BY <4>1, <4>2
    <3>3. HeldBy(d)
      BY DEF IInv, HeldInv
    <3>4. /\ pc'[d] = pc[d] /\ on'[d] = on[d]
          /\ data'[d] = data[d] /\ run'[d] = run[d]
      BY <1>2, <2>3
    <3> DEFINE held == data[d].msgs
    <3>5. /\ Unnumbered(held, m) => Unnumbered(held, n)
          /\ NumberedFor(held, m, run[d]) => NumberedFor(held, n, run[d])
      BY <3>2, HeldGrows
    <3>6. pc[d] = "run" => Len(held) <= n
      <4>1. data[d] \in Ledger
        BY DEF TypeOK
      <4>2. Len(held) \in Nat
        BY <4>1, LedgerFact
      <4>3. pc[d] = "run" => Len(held) <= m
        BY <3>3, Zenon DEF HeldBy
      <4> HIDE DEF held, m, n
      <4>4. QED BY <3>2, <4>2, <4>3
    <3>7. /\ pc[d] \in {"create", "commitNew"} => held = <<>>
          /\ pc[d] = "save" => Unnumbered(held, m)
          /\ pc[d] = "commit" => NumberedFor(held, m, run[d])
      BY <3>3 DEF HeldBy
    <3>8. /\ pc'[d] \in {"create", "commitNew"} => data'[d].msgs = <<>>
          /\ pc'[d] = "run" => Len(data'[d].msgs) <= Len(store'[on'[d]].msgs)
          /\ pc'[d] = "save" =>
               Unnumbered(data'[d].msgs, Len(store'[on'[d]].msgs))
          /\ pc'[d] = "commit" =>
               NumberedFor(data'[d].msgs, Len(store'[on'[d]].msgs), run'[d])
      BY <3>4, <3>5, <3>6, <3>7
    <3>9. QED BY <3>8 DEF HeldBy, Unnumbered, NumberedFor
  <2>4. QED BY <2>1, <2>2, <2>3
<1>9. QED BY <1>6, <1>7, <1>8 DEF IInv, HeldInv

(* Deleting a session that no flow uses. *)
LEMMA DeleteStep ==
  ASSUME TypeOK, IInv, NEW s \in Sessions, Quiet(s), DeleteSession(s)
  PROVE  IInv'
<1>1. /\ store' = [store EXCEPT ![s] = EmptyLedger]
      /\ live' = live \ {s}
      /\ UNCHANGED <<pc, on, data, run, runs, committed>>
  BY DEF DeleteSession, Store, clientVars
<1>2. StoredInv'
  BY <1>1, EmptyLedgerFact DEF IInv, StoredInv, TypeOK
<1>3. RunsInv'
  BY <1>1 DEF IInv, RunsInv, Saving
<1>4. ASSUME NEW c \in Clients PROVE HeldBy(c)'
  <2>1. HeldBy(c) /\ on[c] # s
    BY DEF IInv, HeldInv, Quiet
  <2>2. CASE pc[c] = "idle"
    BY <1>1, <2>2 DEF HeldBy
  <2>3. CASE pc[c] # "idle"
    <3>1. store'[on[c]] = store[on[c]]
      BY <1>1, <2>1, <2>3 DEF TypeOK
    <3>2. QED BY <1>1, <2>1, <3>1 DEF HeldBy
  <2>4. QED BY <2>2, <2>3
<1>5. QED BY <1>2, <1>3, <1>4 DEF IInv, HeldInv

LEMMA FlowStep ==
  ASSUME TypeOK, IInv, NEW c \in Clients, Flow(c)
  PROVE  IInv'
<1>1. ASSUME NEW s \in Sessions, Load(c, s) PROVE IInv'
  BY <1>1, LoadStep
<1>2. ASSUME NEW s \in Sessions, LoadMissing(c, s) PROVE IInv'
  BY <1>2, StartStep, EmptyLedgerFact DEF LoadMissing
<1>3. ASSUME NEW s \in Sessions, LoadFails(c, s) PROVE IInv'
  BY <1>3, StartStep, EmptyLedgerFact DEF LoadFails
<1>4. ASSUME NEW b \in Batches, RunLoop(c, b) PROVE IInv'
  BY <1>4, RunLoopStep
<1>5. CASE SaveTruncates(c)
  BY <1>5, ReturnStep DEF SaveTruncates, storeVars
<1>6. CASE SaveMismatch(c)
  BY <1>6, ReturnStep DEF SaveMismatch, storeVars
<1>7. CASE PrepareSave(c)
  BY <1>7, PrepareSaveStep
<1>8. CASE SaveRejected(c)
  BY <1>8, ReturnStep DEF SaveRejected, storeVars
<1>9. CASE CommitNew(c)
  BY <1>9, CommitNewStep
<1>10. CASE CommitSave(c)
  BY <1>10, CommitSaveStep
<1>11. CASE Abort(c)
  BY <1>11, ReturnStep DEF Abort, storeVars
<1>12. QED
  BY <1>1, <1>2, <1>3, <1>4, <1>5, <1>6, <1>7, <1>8, <1>9, <1>10, <1>11
  DEF Flow

LEMMA InvariantStep == TypeOK /\ IInv /\ [QuietNext]_vars => IInv'
<1> SUFFICES ASSUME TypeOK, IInv, [QuietNext]_vars PROVE IInv'
  OBVIOUS
<1>1. ASSUME NEW c \in Clients, Flow(c) PROVE IInv'
  BY <1>1, FlowStep
<1>2. ASSUME NEW s \in Sessions, Quiet(s), DeleteSession(s) PROVE IInv'
  BY <1>2, DeleteStep
<1>3. CASE UNCHANGED vars
  BY <1>3
  DEF vars, IInv, StoredInv, RunsInv, HeldInv, HeldBy, Saving
<1>4. QED BY <1>1, <1>2, <1>3 DEF QuietNext

(* Every message stored was committed by a run, at the position it was     *)
(* numbered for, and a flow about to save holds exactly its own batch      *)
(* beyond what it loaded: this is the invariant the next two theorems      *)
(* follow from.                                                            *)
THEOREM Invariant == QuietSpec => []IInv
BY IInit, InvariantStep, QuietType, PTL DEF QuietSpec

(* Save's numbering survives every interleaving of flows on a session: the *)
(* k-th stored message always has Sequence k.                              *)
THEOREM Numbered == QuietSpec => []MessagesNumbered
<1>1. IInv => MessagesNumbered
  BY DEF IInv, StoredInv, MessagesNumbered
<1>2. QED BY <1>1, Invariant, PTL

-----------------------------------------------------------------------------
(* What a Save stores                                                      *)
(*                                                                         *)
(* A Save reads the ledger, completes what its client holds from what it   *)
(* read, and stores the result: SaveOf relates what is stored to what was  *)
(* loaded and read.  The operator accepts only a successor of what it has, *)
(* and this is enough (Serial): had the client loaded, and Save read, the  *)
(* ledger as it is when the operator stores, it would store the same.      *)
(* All that is stored is therefore made by saves done one after another.   *)

LEMMA LedgerLengths ==
  ASSUME NEW l \in Ledger
  PROVE  Len(l.msgs) \in Nat /\ Len(l.turns) \in Nat /\ Len(l.snaps) \in Nat
BY LedgerFact, LenProperties

(* The items beyond the known ones are numbered by their position. *)
Numbers(items, known) ==
  \A i \in (known + 1)..Len(items) : items[i].seq = i

LEMMA AssignNumbers ==
  ASSUME NEW turns \in Seq(Turn), NEW known \in Nat,
         \A i \in (known + 1)..Len(turns) : turns[i].seq = 0
  PROVE  Numbers(AssignSequences(turns, known, known), known)
<1> DEFINE new == AssignSequences(turns, known, known)
<1>1. Len(new) = Len(turns) /\ Len(turns) \in Nat
  BY AssignTurns, LenProperties
<1>2. ASSUME NEW i \in (known + 1)..Len(turns)
      PROVE  new[i].seq = i
  <2> DEFINE blank == {j \in (known + 1)..i : turns[j].seq = 0}
  <2>1. blank = (known + 1)..i
    BY <1>1, <1>2
  <2>2. Cardinality((known + 1)..i) = i - known
    <3>1. known + 1 \in Int /\ i \in Int /\ ~(known + 1 > i)
      BY <1>1, <1>2
    <3>2. Cardinality((known + 1)..i) = i - (known + 1) + 1
      BY <3>1, FS_Interval
    <3> QED
      BY <1>1, <1>2, <3>2
  <2>3. i \in 1..Len(turns) /\ i > known /\ turns[i].seq = 0
    BY <1>1, <1>2
  <2>4. new[i] = [turns[i] EXCEPT !.seq = known + Cardinality(blank)]
    BY <2>3 DEF AssignSequences
  <2>5. turns[i] \in Turn
    BY <2>3
  <2> HIDE DEF blank, new
  <2>6. known + Cardinality(blank) = i
    BY <1>1, <1>2, <2>1, <2>2
  <2> QED
    BY <2>4, <2>5, <2>6 DEF Turn
<1> QED
  BY <1>1, <1>2 DEF Numbers

(* A batch without messages has no turns: Save would store them without a  *)
(* sequence.                                                               *)
TurnsHaveMessages == \A b \in Batches : b.n = 0 => b.turns = <<>>

LEMMA NewTurnsNumbered ==
  ASSUME NEW old \in Ledger, NEW new \in Ledger, NEW r \in Nat,
         NEW msgs \in Seq(Message), Len(msgs) = Len(new.msgs),
         Len(new.msgs) > Len(old.msgs), Len(new.turns) >= Len(old.turns),
         LastSequence(old.turns) = Len(old.turns),
         \A i \in (Len(old.turns) + 1)..Len(new.turns) : new.turns[i].seq = 0
  PROVE  Numbers(NewTurns(old, new, msgs, r), Len(old.turns))
<1> DEFINE known == Len(old.turns)
<1>1. known \in Nat /\ Len(new.turns) \in Nat /\ new.turns \in Seq(Turn)
  BY LedgerFact, LedgerLengths
<1>2. CASE Len(new.turns) = known
  <2> DEFINE auto == AutoTurn(old, msgs, r)
             turns == new.turns
  <2>1. NewTurns(old, new, msgs, r) = Append(turns, auto)
    BY <1>2 DEF NewTurns
  <2>2. auto.seq = known + 1
    BY DEF AutoTurn
  <2>3. turns \in Seq(Turn) /\ Len(turns) = known
    BY <1>1, <1>2
  <2> HIDE DEF auto, turns
  <2>4. /\ Len(Append(turns, auto)) = known + 1
        /\ Append(turns, auto)[known + 1] = auto
    BY <2>3
  <2> HIDE DEF known
  <2>5. \A i \in (known + 1)..Len(Append(turns, auto)) : i = known + 1
    BY <1>1, <2>4
  <2> QED
    BY <2>1, <2>2, <2>4, <2>5 DEF Numbers, known
<1>3. CASE Len(new.turns) # known
  <2> DEFINE turns == AssignSequences(new.turns, known, known)
             cut == CHOOSE f \in Cuts(old, new) : TRUE
             windowed == WindowedTurns(old, new, turns, msgs)
  <2>1. turns \in Seq(Turn) /\ Numbers(turns, known)
    BY <1>1, AssignTurns, AssignNumbers
  <2>2. NewTurns(old, new, msgs, r) = windowed
    BY <1>3 DEF NewTurns
  <2> HIDE DEF turns
  <2>3. Len(windowed) = Len(turns)
    BY <2>1 DEF WindowedTurns
  <2>4. ASSUME NEW t \in 1..Len(turns)
        PROVE  windowed[t].seq = turns[t].seq
    <3> DEFINE cutTo(f, l) == [turns[t] EXCEPT !.first = f, !.last = l]
    <3>1. turns[t] \in Turn
      BY <2>1
    <3>2. \A f, l : cutTo(f, l).seq = turns[t].seq
      BY <3>1 DEF Turn
    <3>3. \/ windowed[t] = turns[t]
          \/ \E f, l : windowed[t] = cutTo(f, l)
      BY DEF WindowedTurns
    <3> HIDE DEF windowed, cutTo
    <3>4. CASE windowed[t] = turns[t]
      BY <3>4
    <3>5. CASE windowed[t] # turns[t]
      <4>1. PICK f, l : windowed[t] = cutTo(f, l)
        BY <3>3, <3>5, Zenon
      <4>2. cutTo(f, l).seq = turns[t].seq
        BY <3>2, Zenon
      <4> QED
        BY <4>1, <4>2, Zenon
    <3> QED
      BY <3>4, <3>5
  <2> HIDE DEF windowed, known
  <2>5. \A i \in (known + 1)..Len(turns) : i \in 1..Len(turns)
    BY <1>1, <2>1, LenProperties
  <2> QED
    BY <2>1, <2>2, <2>3, <2>4, <2>5 DEF Numbers, known
<1> QED
  BY <1>2, <1>3

LEMMA NewSnapshotsNumbered ==
  ASSUME NEW old \in Ledger, NEW new \in Ledger, NEW r, NEW msgs, NEW turns,
         Len(new.snaps) = Len(old.snaps),
         LastSequence(old.snaps) = Len(old.snaps)
  PROVE  Numbers(NewSnapshots(old, new, msgs, turns, r), Len(old.snaps))
<1> DEFINE known == Len(old.snaps)
           snaps == new.snaps
           snap == [id       |-> <<r, Len(old.snaps) + 1>>,
                    seq      |-> LastSequence(old.snaps) + 1,
                    messages |-> Len(msgs),
                    turn     |-> turns[Len(turns)].seq]
<1>1. known \in Nat /\ snaps \in Seq(Snapshot) /\ Len(snaps) = known
  BY LedgerFact, LedgerLengths
<1>2. NewSnapshots(old, new, msgs, turns, r) = Append(snaps, snap)
  BY DEF NewSnapshots
<1>3. snap.seq = known + 1
  OBVIOUS
<1> HIDE DEF snap, snaps
<1>4. /\ Len(Append(snaps, snap)) = known + 1
      /\ Append(snaps, snap)[known + 1] = snap
  BY <1>1
<1> HIDE DEF known
<1>5. \A i \in (known + 1)..Len(Append(snaps, snap)) : i = known + 1
  BY <1>1, <1>4
<1> QED
  BY <1>2, <1>3, <1>4, <1>5 DEF Numbers, known

LEMMA KnownMessages ==
  ASSUME NEW old \in Ledger, NEW new \in Ledger, NEW r \in Nat,
         NEW i \in 1..Len(new.msgs), i <= Len(old.msgs)
  PROVE  NewMessages(old, new, r)[i] = new.msgs[i]
<1> DEFINE k == Len(old.msgs)
           named == AssignIDs(new.msgs, k, r)
<1>1. k \in Nat /\ Len(new.msgs) \in Nat
  BY LedgerLengths
<1>2. named \in Seq(Message) /\ Len(named) = Len(new.msgs)
  BY <1>1, LedgerFact, AssignIDsType
<1>3. named[i] = new.msgs[i]
  BY <1>1 DEF AssignIDs
<1>4. NewMessages(old, new, r) =
        AssignSequences(named, k, LastSequence(old.msgs))
  BY DEF NewMessages
<1> HIDE DEF named
<1>5. AssignSequences(named, k, LastSequence(old.msgs))[i] = named[i]
  BY <1>1, <1>2 DEF AssignSequences
<1> QED
  BY <1>3, <1>4, <1>5

(* One sequence begins with the other; so does every list of a ledger.     *)
Prefix(old, new) ==
  /\ Len(old) <= Len(new)
  /\ \A i \in 1..Len(old) : new[i] = old[i]

Within(old, new) ==
  /\ Prefix(old.msgs, new.msgs)
  /\ Prefix(old.turns, new.turns)
  /\ Prefix(old.snaps, new.snaps)

(* l may have been loaded from m, or from a ledger that has become m.      *)
Loaded(l, m) ==
  /\ Len(l.msgs) <= Len(m.msgs)
  /\ Prefix(l.turns, m.turns)
  /\ Prefix(l.snaps, m.snaps)

(* The ledger l with the batch b of run r saved at once. *)
Extended(l, b, r) == Prepared(l, WithBatch(l, b, r), r)

LEMMA PrefixEqual ==
  ASSUME NEW S, NEW old \in Seq(S), NEW new \in Seq(S), Prefix(old, new),
         Len(new) <= Len(old)
  PROVE  old = new
BY LenProperties, SeqEqual DEF Prefix

LEMMA PrefixChain ==
  ASSUME NEW S, NEW p \in Seq(S), NEW q \in Seq(S), NEW u \in Seq(S),
         Prefix(p, q), Prefix(q, u)
  PROVE  Prefix(p, u)
BY LenProperties DEF Prefix

LEMMA PrefixSelf == \A q : Len(q) \in Nat => Prefix(q, q)
BY DEF Prefix

LEMMA LedgerEqual ==
  ASSUME NEW l \in Ledger, NEW m \in Ledger,
         l.msgs = m.msgs, l.turns = m.turns, l.snaps = m.snaps
  PROVE  l = m
BY DEF Ledger

LEMMA WithinChain ==
  ASSUME NEW l \in Ledger, NEW m \in Ledger, NEW n \in Ledger, Within(m, n)
  PROVE  /\ Within(l, m) => Within(l, n)
         /\ Loaded(l, m) => Loaded(l, n)
<1>1. Within(l, m) => Within(l, n)
  BY LedgerFact, PrefixChain DEF Within
<1>2. Loaded(l, m) => Loaded(l, n)
  <2> SUFFICES ASSUME Loaded(l, m) PROVE Loaded(l, n)
    OBVIOUS
  <2>1. Prefix(l.turns, n.turns) /\ Prefix(l.snaps, n.snaps)
    BY LedgerFact, PrefixChain DEF Within, Loaded
  <2>2. Len(l.msgs) <= Len(n.msgs)
    BY LedgerLengths DEF Within, Loaded, Prefix
  <2> QED
    BY <2>1, <2>2 DEF Loaded
<1> QED
  BY <1>1, <1>2

LEMMA WithinSelf ==
  ASSUME NEW l \in Ledger
  PROVE  Within(l, l) /\ Loaded(l, l)
BY LedgerLengths, PrefixSelf DEF Within, Loaded

LEMMA ConcatPrefix ==
  ASSUME NEW S, NEW p \in Seq(S), NEW q \in Seq(S)
  PROVE  /\ Prefix(p, p \o q)
         /\ Len(p \o q) = Len(p) + Len(q)
         /\ \A i \in (Len(p) + 1)..Len(p \o q) : (p \o q)[i] = q[i - Len(p)]
BY ConcatProperties, LenProperties DEF Prefix

(* What the agent loop adds to what was loaded. *)
LEMMA WithBatchParts ==
  ASSUME NEW l \in Ledger, NEW b \in Batches, NEW r \in Nat
  PROVE  LET new == WithBatch(l, b, r)
         IN /\ new \in Ledger
            /\ Prefix(l.msgs, new.msgs)
            /\ Len(new.msgs) = Len(l.msgs) + b.n
            /\ \A i \in (Len(l.msgs) + 1)..Len(new.msgs) :
                 new.msgs[i] = NewMessage
            /\ Prefix(l.turns, new.turns)
            /\ Len(new.turns) = Len(l.turns) + Len(b.turns)
            /\ \A i \in (Len(l.turns) + 1)..Len(new.turns) :
                 new.turns[i] = NewTurn(r, i, b.turns[i - Len(l.turns)])
            /\ new.snaps = l.snaps
<1> DEFINE new == WithBatch(l, b, r)
           blank == [i \in 1..b.n |-> NewMessage]
           added == [t \in 1..Len(b.turns) |->
                       NewTurn(r, Len(l.turns) + t, b.turns[t])]
           first == l.msgs
           turns == l.turns
<1>1. /\ b.n \in Nat /\ b.turns \in Seq(Nat) /\ Len(b.turns) \in Nat
      /\ first \in Seq(Message) /\ turns \in Seq(Turn)
      /\ Len(first) \in Nat /\ Len(turns) \in Nat
  BY LedgerAssumption, LedgerFact, LenProperties
<1>2. blank \in Seq(Message) /\ Len(blank) = b.n
  BY <1>1, NewMessagesBlank
<1>3. added \in Seq(Turn) /\ Len(added) = Len(b.turns)
  <2>1. ASSUME NEW t \in 1..Len(b.turns)
        PROVE  NewTurn(r, Len(l.turns) + t, b.turns[t]) \in Turn
    <3>1. <<r, Len(l.turns) + t>> \in ID
      BY <1>1 DEF ID
    <3>2. b.turns[t] \in Nat
      BY <1>1
    <3> QED
      BY <3>1, <3>2 DEF Turn, NewTurn
  <2>2. added \in [1..Len(b.turns) -> Turn]
    BY <2>1
  <2> QED
    BY <1>1, <2>2
<1>4. new.msgs = first \o blank /\ new.turns = turns \o added
      /\ new.snaps = l.snaps /\ new \in Ledger
  <2>1. new = [l EXCEPT !.msgs = first \o blank, !.turns = turns \o added]
    BY DEF WithBatch
  <2> HIDE DEF new, first, turns, blank, added
  <2>2. new.msgs = first \o blank /\ new.turns = turns \o added
        /\ new.snaps = l.snaps
    BY <2>1 DEF Ledger
  <2>3. new \in Ledger
    BY WithBatchType, Zenon DEF new
  <2> QED
    BY <2>2, <2>3
<1>5. /\ \A i \in 1..b.n : blank[i] = NewMessage
      /\ \A t \in 1..Len(b.turns) :
           added[t] = NewTurn(r, Len(turns) + t, b.turns[t])
  OBVIOUS
<1> HIDE DEF new, blank, added, first, turns
<1>6. /\ Prefix(first, new.msgs)
      /\ Len(new.msgs) = Len(first) + b.n
      /\ \A i \in (Len(first) + 1)..Len(new.msgs) :
           new.msgs[i] = blank[i - Len(first)]
  <2>1. /\ Prefix(first, first \o blank)
        /\ Len(first \o blank) = Len(first) + Len(blank)
        /\ \A i \in (Len(first) + 1)..Len(first \o blank) :
             (first \o blank)[i] = blank[i - Len(first)]
    BY <1>1, <1>2, ConcatPrefix
  <2> QED
    BY <1>2, <1>4, <2>1
<1>7. /\ Prefix(turns, new.turns)
      /\ Len(new.turns) = Len(turns) + Len(b.turns)
      /\ \A i \in (Len(turns) + 1)..Len(new.turns) :
           new.turns[i] = added[i - Len(turns)]
  <2>1. /\ Prefix(turns, turns \o added)
        /\ Len(turns \o added) = Len(turns) + Len(added)
        /\ \A i \in (Len(turns) + 1)..Len(turns \o added) :
             (turns \o added)[i] = added[i - Len(turns)]
    BY <1>1, <1>3, ConcatPrefix
  <2> QED
    BY <1>3, <1>4, <2>1
<1>8. ASSUME NEW i \in (Len(first) + 1)..Len(new.msgs)
      PROVE  new.msgs[i] = NewMessage
  <2>1. i - Len(first) \in 1..b.n
    BY <1>1, <1>6
  <2> QED
    BY <1>5, <1>6, <2>1
<1>9. ASSUME NEW i \in (Len(turns) + 1)..Len(new.turns)
      PROVE  new.turns[i] = NewTurn(r, i, b.turns[i - Len(turns)])
  <2>1. i - Len(turns) \in 1..Len(b.turns) /\ Len(turns) + (i - Len(turns)) = i
    BY <1>1, <1>7
  <2> QED
    BY <1>5, <1>7, <2>1
<1> QED
  BY <1>4, <1>6, <1>7, <1>8, <1>9 DEF new, first, turns

LEMMA AppendPrefix ==
  ASSUME NEW S, NEW q \in Seq(S), NEW x
  PROVE  /\ Prefix(q, Append(q, x))
         /\ Len(Append(q, x)) = Len(q) + 1
         /\ Append(q, x)[Len(q) + 1] = x
BY LenProperties DEF Prefix

(* The turns that Save makes: those it was given, under their IDs, and one *)
(* of its own if it was given no new one.                                  *)
LEMMA NewTurnsParts ==
  ASSUME NEW old \in Ledger, NEW new \in Ledger, NEW r \in Nat,
         NEW msgs, Len(old.turns) <= Len(new.turns)
  PROVE  LET turns == NewTurns(old, new, msgs, r)
         IN /\ Len(turns) \in Nat /\ Len(new.turns) <= Len(turns)
            /\ \A i \in 1..Len(new.turns) : turns[i].id = new.turns[i].id
            /\ \A i \in 1..Len(old.turns) : turns[i] = new.turns[i]
            /\ \A i \in (Len(new.turns) + 1)..Len(turns) :
                 turns[i].id = <<r, i>>
<1> DEFINE turns == NewTurns(old, new, msgs, r)
           given == new.turns
           known == Len(old.turns)
<1>1. given \in Seq(Turn) /\ Len(given) \in Nat /\ known \in Nat
      /\ known <= Len(given)
  BY LedgerFact, LedgerLengths
<1>2. CASE Len(given) = known
  <2> DEFINE auto == AutoTurn(old, msgs, r)
  <2>1. turns = Append(given, auto)
    BY <1>2 DEF NewTurns
  <2>2. auto.id = <<r, known + 1>>
    BY DEF AutoTurn
  <2> HIDE DEF auto, turns, given, known
  <2>3. /\ Prefix(given, turns) /\ Len(turns) = known + 1
        /\ turns[known + 1] = auto
    BY <1>1, <1>2, <2>1, AppendPrefix
  <2>4. \A i \in (Len(given) + 1)..Len(turns) : i = known + 1
    BY <1>1, <1>2, <2>3
  <2> QED
    BY <1>1, <1>2, <2>2, <2>3, <2>4 DEF Prefix, turns, given, known
<1>3. CASE Len(given) # known
  <2> DEFINE numbered == AssignSequences(given, known, LastSequence(old.turns))
  <2>1. turns = WindowedTurns(old, new, numbered, msgs)
    BY <1>3 DEF NewTurns
  <2>2. numbered \in Seq(Turn) /\ Len(numbered) = Len(given)
    BY <1>1, AssignTurns, TurnLast, LedgerFact
  <2>3. ASSUME NEW i \in 1..Len(given)
        PROVE  /\ numbered[i].id = given[i].id
               /\ i <= known => numbered[i] = given[i]
    <3>1. given[i] \in Turn
      BY <1>1
    <3> DEFINE last == LastSequence(old.turns)
               count == Cardinality({j \in (known + 1)..i : given[j].seq = 0})
    <3>2. numbered[i] = IF i > known /\ given[i].seq = 0
                        THEN [given[i] EXCEPT !.seq = last + count]
                        ELSE given[i]
      BY DEF AssignSequences
    <3> HIDE DEF last, count, numbered, given, known
    <3> QED
      BY <1>1, <3>1, <3>2 DEF Turn
  <2> HIDE DEF numbered
  <2>4. Len(turns) = Len(numbered)
    <3>1. \A q : Len(q) \in Nat =>
            Len(WindowedTurns(old, new, q, msgs)) = Len(q)
      BY DEF WindowedTurns
    <3> HIDE DEF turns
    <3> QED
      BY <1>1, <2>1, <2>2, <3>1
  <2>5. ASSUME NEW i \in 1..Len(given)
        PROVE  /\ turns[i].id = numbered[i].id
               /\ i <= known => turns[i] = numbered[i]
    <3> DEFINE cut == CHOOSE f \in Cuts(old, new) : TRUE
               from == msgs[Len(old.msgs) + cut[i - 1] + 1].seq
               to == msgs[Len(old.msgs) + cut[i]].seq
               turn == numbered[i]
               cutTo(f, t) == [turn EXCEPT !.first = IF @ = 0 THEN f ELSE @,
                                           !.last = IF @ = 0 THEN t ELSE @]
    <3>1. turn \in Turn
      BY <2>2
    <3>2. \A f, t : cutTo(f, t).id = turn.id
      BY <3>1 DEF Turn
    <3>3. turns[i] = IF i > known /\ turn.count > 0 THEN cutTo(from, to)
                                                     ELSE turn
      BY <2>1, <2>2 DEF WindowedTurns
    <3> HIDE DEF cutTo, turn, from, to, turns
    <3>4. CASE i > known /\ turn.count > 0
      <4>1. turns[i] = cutTo(from, to) /\ cutTo(from, to).id = turn.id
        BY <3>2, <3>3, <3>4, Zenon
      <4> QED
        BY <1>1, <3>4, <4>1 DEF turn
    <3>5. CASE ~(i > known /\ turn.count > 0)
      BY <3>3, <3>5 DEF turn
    <3> QED
      BY <3>4, <3>5
  <2> HIDE DEF turns
  <2>6. \A i \in 1..known : i \in 1..Len(given) /\ i <= known
    BY <1>1
  <2> HIDE DEF given, known
  <2> QED
    BY <1>1, <2>2, <2>3, <2>4, <2>5, <2>6 DEF turns, given, known
<1> QED
  BY <1>2, <1>3

(* What Save makes of the turns and snapshots it is given. *)
LEMMA PreparedParts ==
  ASSUME NEW old \in Ledger, NEW new \in Ledger, NEW r \in Nat,
         ~Truncates(old, new)
  PROVE  LET p == Prepared(old, new, r)
         IN /\ Len(p.turns) \in Nat /\ Len(new.turns) <= Len(p.turns)
            /\ \A i \in 1..Len(new.turns) : p.turns[i].id = new.turns[i].id
            /\ \A i \in 1..Len(old.turns) : p.turns[i] = new.turns[i]
            /\ \A i \in (Len(new.turns) + 1)..Len(p.turns) :
                 p.turns[i].id = <<r, i>>
            /\ Prefix(new.snaps, p.snaps) /\ Len(p.snaps) \in Nat
            /\ \A i \in (Len(new.snaps) + 1)..Len(p.snaps) :
                 p.snaps[i].id = <<r, i>>
<1> DEFINE p == Prepared(old, new, r)
           msgs == NewMessages(old, new, r)
           turns == NewTurns(old, new, msgs, r)
           snaps == NewSnapshots(old, new, msgs, turns, r)
<1>1. /\ new.turns \in Seq(Turn) /\ new.snaps \in Seq(Snapshot)
      /\ Len(new.turns) \in Nat /\ Len(new.snaps) \in Nat
      /\ Len(old.turns) \in Nat /\ Len(old.snaps) \in Nat
      /\ Len(old.turns) <= Len(new.turns)
  BY LedgerFact, LedgerLengths DEF Truncates
<1>2. CASE Len(new.msgs) > Len(old.msgs)
  <2>1. p.turns = turns /\ p.snaps = snaps
    BY <1>2 DEF Prepared
  <2>2. /\ Prefix(new.snaps, snaps) /\ Len(snaps) \in Nat
        /\ \A i \in (Len(new.snaps) + 1)..Len(snaps) : snaps[i].id = <<r, i>>
    <3>1. CASE Len(new.snaps) = Len(old.snaps)
      <4> DEFINE n == Len(new.snaps)
                 q == new.snaps
                 snap == [id       |-> <<r, Len(old.snaps) + 1>>,
                          seq      |-> LastSequence(old.snaps) + 1,
                          messages |-> Len(msgs),
                          turn     |-> turns[Len(turns)].seq]
      <4>1. snaps = Append(q, snap) /\ snap.id = <<r, n + 1>>
        BY <3>1 DEF NewSnapshots
      <4>2. q \in Seq(Snapshot) /\ Len(q) = n /\ n \in Nat
        BY <1>1
      <4> HIDE DEF snap, q, snaps, n
      <4>3. Prefix(q, snaps) /\ Len(snaps) = n + 1 /\ snaps[n + 1] = snap
        BY <4>1, <4>2, AppendPrefix
      <4>4. \A i \in (n + 1)..Len(snaps) : i = n + 1
        BY <4>2, <4>3
      <4> QED
        BY <4>1, <4>2, <4>3, <4>4 DEF q, n
    <3>2. CASE Len(new.snaps) # Len(old.snaps)
      <4>1. snaps = new.snaps
        BY <3>2 DEF NewSnapshots
      <4> QED
        BY <1>1, <4>1, PrefixSelf
    <3> QED
      BY <3>1, <3>2
  <2> HIDE DEF p, msgs, snaps
  <2>3. /\ Len(turns) \in Nat /\ Len(new.turns) <= Len(turns)
        /\ \A i \in 1..Len(new.turns) : turns[i].id = new.turns[i].id
        /\ \A i \in 1..Len(old.turns) : turns[i] = new.turns[i]
        /\ \A i \in (Len(new.turns) + 1)..Len(turns) : turns[i].id = <<r, i>>
    BY <1>1, NewTurnsParts
  <2> HIDE DEF turns
  <2> QED
    BY <2>1, <2>2, <2>3 DEF p
<1>3. CASE ~(Len(new.msgs) > Len(old.msgs))
  <2>1. p.turns = new.turns /\ p.snaps = new.snaps
    BY <1>3 DEF Prepared, Ledger
  <2> HIDE DEF p
  <2> QED
    BY <1>1, <2>1, PrefixSelf DEF p
<1> QED
  BY <1>2, <1>3

(* What the client at next holds, l and old being what it loaded and what  *)
(* its Save read, cur what is stored now, whole whether it is known to     *)
(* have loaded just that.                                                  *)
SaveOf(held, l, old, b, r) ==
  LET new == WithBatch(l, b, r)
  IN /\ ~Truncates(old, new)
     /\ ~TurnMismatch(old, new)
     /\ held = Prepared(old, new, r)

HeldFrom(next, whole, held, cur, r) ==
  /\ next \in {"create", "commitNew"} =>
       held = EmptyLedger /\ (whole => cur = EmptyLedger)
  /\ next = "run" => Loaded(held, cur) /\ (whole => held = cur)
  /\ next = "save" =>
       \E l \in Ledger, b \in Batches :
         /\ held = WithBatch(l, b, r)
         /\ Loaded(l, cur) /\ (whole => l = cur)
  /\ next = "commit" =>
       \E l \in Ledger, old \in Ledger, b \in Batches :
         /\ SaveOf(held, l, old, b, r)
         /\ Loaded(l, old) /\ Within(old, cur)
         /\ whole => l = cur /\ old = cur

(* Stored turns and snapshots carry the numbers of committed runs. *)
EntriesCommitted ==
  \A s \in Sessions :
    /\ \A i \in 1..Len(store[s].turns) : store[s].turns[i].id[1] \in committed
    /\ \A i \in 1..Len(store[s].snaps) : store[s].snaps[i].id[1] \in committed

SaveInv ==
  /\ EntriesCommitted
  /\ \A c \in Clients :
       pc[c] # "idle" =>
         HeldFrom(pc[c], view[c] = "whole", data[c], store[on[c]], run[c])

LEMMA SaveInvNext ==
  SaveInv' <=>
    /\ EntriesCommitted'
    /\ \A c \in Clients :
         pc'[c] # "idle" =>
           HeldFrom(pc'[c], view'[c] = "whole", data'[c], store'[on'[c]],
                    run'[c])
BY DEF SaveInv

LEMMA SaveInit == Init => SaveInv
BY DEF Init, SaveInv, EntriesCommitted, EmptyLedger

(* What a client holds stays what it is while the ledger grows. *)
LEMMA HeldFromGrows ==
  ASSUME NEW cur \in Ledger, NEW new \in Ledger, Within(cur, new),
         NEW next, NEW held \in Ledger, NEW r, NEW w1, NEW w2,
         HeldFrom(next, w1, held, cur, r),
         w2 => w1 /\ new = cur
  PROVE  HeldFrom(next, w2, held, new, r)
<1>1. next \in {"create", "commitNew"} =>
        held = EmptyLedger /\ (w2 => new = EmptyLedger)
  BY DEF HeldFrom
<1>2. next = "run" => Loaded(held, new) /\ (w2 => held = new)
  BY WithinChain DEF HeldFrom
<1>3. ASSUME next = "save"
      PROVE  \E l \in Ledger, b \in Batches :
               /\ held = WithBatch(l, b, r)
               /\ Loaded(l, new) /\ (w2 => l = new)
  <2>1. PICK l \in Ledger, b \in Batches :
          /\ held = WithBatch(l, b, r)
          /\ Loaded(l, cur) /\ (w1 => l = cur)
    BY <1>3 DEF HeldFrom
  <2>2. Loaded(l, new) /\ (w2 => l = new)
    BY <2>1, WithinChain
  <2> QED
    BY <2>1, <2>2
<1>4. ASSUME next = "commit"
      PROVE  \E l \in Ledger, old \in Ledger, b \in Batches :
               /\ SaveOf(held, l, old, b, r)
               /\ Loaded(l, old) /\ Within(old, new)
               /\ w2 => l = new /\ old = new
  <2>1. PICK l \in Ledger, old \in Ledger, b \in Batches :
          /\ SaveOf(held, l, old, b, r)
          /\ Loaded(l, old) /\ Within(old, cur)
          /\ w1 => l = cur /\ old = cur
    BY <1>4 DEF HeldFrom
  <2>2. Within(old, new) /\ (w2 => l = new /\ old = new)
    BY <2>1, WithinChain
  <2> QED
    BY <2>1, <2>2
<1> QED
  BY <1>1, <1>2, <1>3, <1>4 DEF HeldFrom

(* A step that changes only what client c holds. *)
LEMMA SaveLocal ==
  ASSUME SaveInv, NEW c \in Clients, UNCHANGED store, UNCHANGED committed,
         \A d \in Clients \ {c} :
           /\ pc'[d] = pc[d] /\ on'[d] = on[d] /\ data'[d] = data[d]
           /\ run'[d] = run[d] /\ view'[d] = view[d],
         pc'[c] # "idle" =>
           HeldFrom(pc'[c], view'[c] = "whole", data'[c], store[on'[c]],
                    run'[c])
  PROVE  SaveInv'
<1>1. EntriesCommitted'
  BY DEF SaveInv, EntriesCommitted
<1>2. ASSUME NEW d \in Clients, pc'[d] # "idle"
      PROVE  HeldFrom(pc'[d], view'[d] = "whole", data'[d], store'[on'[d]],
                      run'[d])
  <2>1. CASE d = c
    BY <1>2, <2>1
  <2>2. CASE d # c
    BY <1>2, <2>2 DEF SaveInv
  <2> QED
    BY <2>1, <2>2
<1> QED
  BY <1>1, <1>2, SaveInvNext

LEMMA SaveReturn ==
  ASSUME TypeOK, SaveInv, NEW c \in Clients, NEW result, Return(c, result),
         UNCHANGED <<store, committed, run, view>>
  PROVE  SaveInv'
<1>1. /\ pc'[c] = "idle"
      /\ \A d \in Clients \ {c} :
           /\ pc'[d] = pc[d] /\ on'[d] = on[d] /\ data'[d] = data[d]
           /\ run'[d] = run[d] /\ view'[d] = view[d]
  BY DEF Return, TypeOK
<1> QED
  BY <1>1, SaveLocal

LEMMA SaveStart ==
  ASSUME TypeOK, SaveInv, NEW c \in Clients, NEW s \in Sessions,
         NEW next, NEW state, NEW loaded, Start(c, s, next, state, loaded),
         HeldFrom(next, loaded = "whole", state, store[s], run[c])
  PROVE  SaveInv'
<1>1. /\ pc'[c] = next /\ on'[c] = s /\ data'[c] = state
      /\ view'[c] = loaded /\ UNCHANGED <<store, committed, run>>
      /\ \A d \in Clients \ {c} :
           /\ pc'[d] = pc[d] /\ on'[d] = on[d] /\ data'[d] = data[d]
           /\ run'[d] = run[d] /\ view'[d] = view[d]
  BY DEF Start, TypeOK, storeVars
<1> QED
  BY <1>1, SaveLocal

LEMMA SaveLoad ==
  ASSUME TypeOK, SaveInv, NEW c \in Clients, NEW s \in Sessions, Load(c, s)
  PROVE  SaveInv'
<1> DEFINE cur == store[s]
<1>1. cur \in Ledger
  BY DEF TypeOK
<1>2. PICK msgs \in LoadedMessages(cur.msgs, ModeOf[c], NMessages) :
        Start(c, s, "run", [cur EXCEPT !.msgs = msgs],
              IF msgs = cur.msgs THEN "whole" ELSE "part")
  BY DEF Load
<1>3. msgs \in Seq(Message) /\ Len(msgs) <= Len(cur.msgs)
  BY <1>1, LoadedFact, LedgerFact, LedgerAssumption
<1> DEFINE held == [cur EXCEPT !.msgs = msgs]
<1>4. /\ held.msgs = msgs /\ held.turns = cur.turns
      /\ held.snaps = cur.snaps /\ held \in Ledger
  BY <1>1, <1>3 DEF Ledger
<1> HIDE DEF held, cur
<1>5. Loaded(held, cur)
  BY <1>1, <1>3, <1>4, LedgerLengths, PrefixSelf DEF Loaded
<1>6. msgs = cur.msgs => held = cur
  BY <1>1, <1>4, LedgerEqual
<1>7. HeldFrom("run", (IF msgs = cur.msgs THEN "whole" ELSE "part") = "whole",
               held, cur, run[c])
  BY <1>5, <1>6 DEF HeldFrom
<1> QED
  BY <1>2, <1>7, SaveStart DEF held, cur

LEMMA SaveMissing ==
  ASSUME TypeOK, IInv, SaveInv, NEW c \in Clients, NEW s \in Sessions,
         LoadMissing(c, s) \/ LoadFails(c, s)
  PROVE  SaveInv'
<1>1. CASE LoadMissing(c, s)
  <2>1. store[s] = EmptyLedger
    BY <1>1 DEF LoadMissing, IInv, StoredInv
  <2>2. HeldFrom("create", "whole" = "whole", EmptyLedger, store[s], run[c])
    BY <2>1 DEF HeldFrom
  <2> QED
    BY <1>1, <2>2, SaveStart DEF LoadMissing
<1>2. CASE LoadFails(c, s)
  <2>1. HeldFrom("create", "stale" = "whole", EmptyLedger, store[s], run[c])
    BY DEF HeldFrom
  <2> QED
    BY <1>2, <2>1, SaveStart DEF LoadFails
<1> QED
  BY <1>1, <1>2

LEMMA SaveRun ==
  ASSUME TypeOK, SaveInv, NEW c \in Clients, NEW b \in Batches, RunLoop(c, b)
  PROVE  SaveInv'
<1> DEFINE l == data[c]
<1>1. /\ pc[c] = "run" /\ pc'[c] = "save" /\ on'[c] = on[c]
      /\ data'[c] = WithBatch(l, b, runs + 1) /\ run'[c] = runs + 1
      /\ UNCHANGED <<store, committed, view>>
      /\ \A d \in Clients \ {c} :
           /\ pc'[d] = pc[d] /\ on'[d] = on[d] /\ data'[d] = data[d]
           /\ run'[d] = run[d] /\ view'[d] = view[d]
  BY DEF RunLoop, TypeOK, storeVars
<1>2. l \in Ledger
  BY DEF TypeOK
<1>3. Loaded(l, store[on[c]]) /\ (view[c] = "whole" => l = store[on[c]])
  BY <1>1 DEF SaveInv, HeldFrom
<1> HIDE DEF l
<1>4. HeldFrom("save", view[c] = "whole", WithBatch(l, b, runs + 1),
               store[on[c]], runs + 1)
  BY <1>2, <1>3 DEF HeldFrom
<1> QED
  BY <1>1, <1>4, SaveLocal

(* Save makes nothing of an empty state. *)
LEMMA PreparedEmpty ==
  ASSUME NEW r \in Nat
  PROVE  Prepared(EmptyLedger, EmptyLedger, r) = EmptyLedger
<1> DEFINE e == EmptyLedger
           p == Prepared(e, e, r)
<1>1. Len(e.msgs) = 0 /\ e \in Ledger
  BY EmptyLedgerFact
<1>2. NewMessages(e, e, r) \in Seq(Message) /\ Len(NewMessages(e, e, r)) = 0
  BY <1>1, NewMessagesType
<1>3. NewMessages(e, e, r) = e.msgs
  BY <1>2, EmptyLedgerFact, EmptySeq
<1>4. p = [e EXCEPT !.msgs = NewMessages(e, e, r)]
  BY <1>1 DEF Prepared
<1> QED
  BY <1>1, <1>3, <1>4 DEF Ledger

LEMMA SavePrepare ==
  ASSUME TypeOK, SaveInv, NEW c \in Clients, PrepareSave(c)
  PROVE  SaveInv'
<1> DEFINE cur == store[on[c]]
           new == data[c]
           r == run[c]
           whole == view[c] = "whole"
<1>1. /\ pc[c] \in {"create", "save"}
      /\ ~Truncates(cur, new) /\ ~TurnMismatch(cur, new)
      /\ pc'[c] = (IF pc[c] = "create" THEN "commitNew" ELSE "commit")
      /\ on'[c] = on[c] /\ data'[c] = Prepared(cur, new, r)
      /\ UNCHANGED <<store, committed, run, view>>
      /\ \A d \in Clients \ {c} :
           /\ pc'[d] = pc[d] /\ on'[d] = on[d] /\ data'[d] = data[d]
           /\ run'[d] = run[d] /\ view'[d] = view[d]
  BY DEF PrepareSave, TypeOK, storeVars
<1>2. cur \in Ledger /\ new \in Ledger /\ r \in Nat
  BY <1>1 DEF TypeOK
<1>3. HeldFrom(pc[c], whole, new, cur, r)
  BY <1>1 DEF SaveInv
<1>4. UNCHANGED whole
  BY <1>1
<1> DEFINE held == Prepared(cur, new, r)
<1>5. HeldFrom(pc'[c], whole, held, cur, r)
  <2> HIDE DEF cur, new, r, whole
  <2>1. CASE pc[c] = "create"
    <3>1. new = EmptyLedger /\ (whole => cur = EmptyLedger)
      BY <1>3, <2>1 DEF HeldFrom
    <3>2. cur = EmptyLedger
      <4>1. Len(cur.msgs) = 0 /\ Len(cur.turns) = 0 /\ Len(cur.snaps) = 0
        BY <1>1, <1>2, <3>1, LedgerLengths DEF Truncates, EmptyLedger
      <4>2. cur.msgs = <<>> /\ cur.turns = <<>> /\ cur.snaps = <<>>
        BY <1>2, <4>1, LedgerFact, EmptySeq
      <4> QED
        BY <1>2, <4>2, EmptyLedgerFact, LedgerEqual DEF EmptyLedger
    <3>3. held = EmptyLedger
      BY <1>2, <3>1, <3>2, PreparedEmpty
    <3>4. pc'[c] = "commitNew"
      BY <1>1, <2>1
    <3> QED
      BY <3>2, <3>3, <3>4 DEF HeldFrom
  <2>2. CASE pc[c] = "save"
    <3>1. PICK l \in Ledger, b \in Batches :
            /\ new = WithBatch(l, b, r)
            /\ Loaded(l, cur) /\ (whole => l = cur)
      BY <1>3, <2>2 DEF HeldFrom
    <3>2. SaveOf(held, l, cur, b, r)
      BY <1>1, <3>1 DEF SaveOf
    <3>3. Within(cur, cur)
      BY <1>2, WithinSelf
    <3>4. pc'[c] = "commit"
      BY <1>1, <2>2
    <3> HIDE DEF held
    <3> QED
      BY <1>2, <3>1, <3>2, <3>3, <3>4 DEF HeldFrom
  <2> QED
    BY <1>1, <2>1, <2>2
<1> HIDE DEF held
<1> QED
  BY <1>1, <1>5, SaveLocal DEF cur, new, r, held

(* The operator refuses nothing of what it has if it has nothing. *)
LEMMA AcceptedPrefix ==
  ASSUME TypeOK, IInv, NEW c \in Clients, pc[c] # "idle", Acceptable(c)
  PROVE  /\ KeepsPrefix(store[on[c]].msgs, data[c].msgs)
         /\ KeepsPrefix(store[on[c]].turns, data[c].turns)
         /\ KeepsPrefix(store[on[c]].snaps, data[c].snaps)
<1>1. CASE on[c] \in live
  BY <1>1 DEF Acceptable, validateAppendOnlyState
<1>2. CASE on[c] \notin live
  <2>1. on[c] \in Sessions /\ data[c] \in Ledger
    BY DEF TypeOK
  <2>2. store[on[c]] = EmptyLedger
    BY <1>2, <2>1 DEF IInv, StoredInv
  <2>3. /\ Len(data[c].msgs) \in Nat /\ Len(data[c].turns) \in Nat
        /\ Len(data[c].snaps) \in Nat
    BY <2>1, LedgerLengths
  <2> QED
    BY <2>2, <2>3 DEF KeepsPrefix, EmptyLedger
<1> QED
  BY <1>1, <1>2

(* A message that has no ID gets one from the run that saves it. *)
LEMMA NewMessageID ==
  ASSUME NEW old \in Ledger, NEW new \in Ledger, NEW r \in Nat,
         NEW i \in 1..Len(new.msgs), i > Len(old.msgs), new.msgs[i].id = NoID
  PROVE  NewMessages(old, new, r)[i].id = <<r, i>>
<1> DEFINE k == Len(old.msgs)
           named == AssignIDs(new.msgs, k, r)
           last == LastSequence(old.msgs)
<1>1. k \in Nat /\ Len(new.msgs) \in Nat /\ last \in Nat
  BY LedgerLengths, LedgerFact, MessageLast
<1>2. named \in Seq(Message) /\ Len(named) = Len(new.msgs)
  BY <1>1, LedgerFact, AssignIDsType
<1>3. named[i] = [new.msgs[i] EXCEPT !.id = <<r, i>>]
  BY <1>1 DEF AssignIDs
<1>4. new.msgs[i] \in Message
  BY LedgerFact
<1>5. named[i].id = <<r, i>> /\ named[i] \in Message
  <2>1. named[i].id = <<r, i>>
    BY <1>3, <1>4 DEF Message
  <2> QED
    BY <1>2, <2>1
<1>6. NewMessages(old, new, r) = AssignSequences(named, k, last)
  BY DEF NewMessages
<1> HIDE DEF named, last
<1>7. \/ AssignSequences(named, k, last)[i] = named[i]
      \/ \E q : AssignSequences(named, k, last)[i]
                  = [named[i] EXCEPT !.seq = q]
  BY <1>1, <1>2 DEF AssignSequences
<1>8. AssignSequences(named, k, last)[i].id = named[i].id
  BY <1>5, <1>7 DEF Message
<1> QED
  BY <1>5, <1>6, <1>8

(* Entries of a run that is not committed cannot stand where the stored    *)
(* list has some: the two lists agree, or the save would be refused.       *)
LEMMA SameEntries ==
  ASSUME NEW S, NEW l \in Seq(S), NEW old \in Seq(S), NEW cur \in Seq(S),
         NEW p, Len(p) \in Nat, NEW r, r \notin committed,
         Prefix(l, old), Prefix(old, cur), KeepsPrefix(cur, p),
         \A i \in (Len(l) + 1)..Len(p) : p[i].id = <<r, i>>,
         \A i \in 1..Len(cur) : cur[i].id[1] \in committed
  PROVE  l = cur /\ old = cur
<1>1. Prefix(l, cur)
  BY PrefixChain
<1>2. Len(l) \in Nat /\ Len(old) \in Nat /\ Len(cur) \in Nat
      /\ Len(l) <= Len(old) /\ Len(old) <= Len(cur) /\ Len(cur) <= Len(p)
  BY LenProperties DEF Prefix, KeepsPrefix
<1>3. Len(cur) <= Len(l)
  <2> SUFFICES ASSUME Len(l) < Len(cur) PROVE FALSE
    BY <1>2
  <2> DEFINE i == Len(l) + 1
  <2>1. i \in 1..Len(cur) /\ i \in (Len(l) + 1)..Len(p)
    BY <1>2
  <2> HIDE DEF i
  <2>2. cur[i].id = <<r, i>>
    BY <2>1 DEF KeepsPrefix
  <2> QED
    BY <2>1, <2>2
<1> QED
  BY <1>1, <1>2, <1>3, PrefixEqual

(* A save that the operator accepts was made from the ledger as it is: the *)
(* client loaded all of it, and nobody stored anything since.              *)
LEMMA Serial ==
  ASSUME TypeOK, IInv, SaveInv, NEW c \in Clients, pc[c] = "commit",
         Acceptable(c)
  PROVE  \E b \in Batches : SaveOf(data[c], store[on[c]], store[on[c]], b,
                                   run[c])
<1> DEFINE cur == store[on[c]]
           held == data[c]
           r == run[c]
<1>1. /\ cur \in Ledger /\ held \in Ledger /\ r \in Nat
      /\ on[c] \in Sessions
  BY DEF TypeOK
<1>2. PICK l \in Ledger, old \in Ledger, b \in Batches :
        /\ SaveOf(held, l, old, b, r)
        /\ Loaded(l, old) /\ Within(old, cur)
  BY DEF SaveInv, HeldFrom
<1>3. /\ KeepsPrefix(cur.turns, held.turns)
      /\ KeepsPrefix(cur.snaps, held.snaps)
  BY AcceptedPrefix
<1>4. r \in (1..runs) \ committed
  BY DEF IInv, RunsInv, Saving
<1>5. /\ \A i \in 1..Len(cur.turns) : cur.turns[i].id[1] \in committed
      /\ \A i \in 1..Len(cur.snaps) : cur.snaps[i].id[1] \in committed
      /\ \A i \in 1..Len(cur.msgs) :
           /\ cur.msgs[i].seq = i
           /\ cur.msgs[i].id[1] \in committed
           /\ cur.msgs[i].id[2] = i
  BY <1>1 DEF SaveInv, EntriesCommitted, IInv, StoredInv
<1>6. /\ Len(cur.msgs) <= Len(held.msgs)
      /\ \A i \in 1..Len(cur.msgs) : held.msgs[i].id = cur.msgs[i].id
      /\ \A i \in 1..Len(held.msgs) : held.msgs[i].seq = i
      /\ \A i \in (Len(cur.msgs) + 1)..Len(held.msgs) :
           held.msgs[i].id = <<r, i>>
  BY CommitFact
<1> DEFINE new == WithBatch(l, b, r)
<1>7. ~Truncates(old, new) /\ ~TurnMismatch(old, new)
      /\ held = Prepared(old, new, r)
  BY <1>2 DEF SaveOf
<1>8. /\ new \in Ledger
      /\ Prefix(l.msgs, new.msgs)
      /\ \A i \in (Len(l.msgs) + 1)..Len(new.msgs) : new.msgs[i] = NewMessage
      /\ Prefix(l.turns, new.turns)
      /\ \A i \in (Len(l.turns) + 1)..Len(new.turns) :
           new.turns[i].id = <<r, i>>
      /\ new.snaps = l.snaps
  <2>1. \A i, x : NewTurn(r, i, x).id = <<r, i>>
    BY DEF NewTurn
  <2>2. /\ new \in Ledger
        /\ Prefix(l.msgs, new.msgs)
        /\ \A i \in (Len(l.msgs) + 1)..Len(new.msgs) :
             new.msgs[i] = NewMessage
        /\ Prefix(l.turns, new.turns)
        /\ \A i \in (Len(l.turns) + 1)..Len(new.turns) :
             new.turns[i] = NewTurn(r, i, b.turns[i - Len(l.turns)])
        /\ new.snaps = l.snaps
    BY <1>1, WithBatchParts
  <2> HIDE DEF new, r
  <2> QED
    BY <2>1, <2>2
<1> HIDE DEF cur, held, r, new
<1>9. /\ Len(held.turns) \in Nat /\ Len(new.turns) <= Len(held.turns)
      /\ \A i \in 1..Len(new.turns) : held.turns[i].id = new.turns[i].id
      /\ \A i \in (Len(new.turns) + 1)..Len(held.turns) :
           held.turns[i].id = <<r, i>>
      /\ Len(held.snaps) \in Nat
      /\ \A i \in (Len(new.snaps) + 1)..Len(held.snaps) :
           held.snaps[i].id = <<r, i>>
  <2> DEFINE p == Prepared(old, new, r)
  <2>1. /\ Len(p.turns) \in Nat /\ Len(new.turns) <= Len(p.turns)
        /\ \A i \in 1..Len(new.turns) : p.turns[i].id = new.turns[i].id
        /\ \A i \in (Len(new.turns) + 1)..Len(p.turns) :
             p.turns[i].id = <<r, i>>
        /\ Len(p.snaps) \in Nat
        /\ \A i \in (Len(new.snaps) + 1)..Len(p.snaps) :
             p.snaps[i].id = <<r, i>>
    <3>1. new \in Ledger /\ r \in Nat /\ ~Truncates(old, new)
      BY <1>1, <1>7, <1>8
    <3> QED
      BY <3>1, PreparedParts
  <2> QED
    BY <1>7, <2>1
<1>10. held.msgs = NewMessages(old, new, r)
       /\ Len(held.msgs) = Len(new.msgs)
  BY <1>1, <1>7, <1>8, PreparedType, NewMessagesType
<1>11. l.turns = cur.turns /\ old.turns = cur.turns
  <2>1. Len(l.turns) \in Nat /\ Len(new.turns) \in Nat
    BY <1>8, LedgerLengths
  <2>2. \A i \in (Len(l.turns) + 1)..Len(held.turns) :
          held.turns[i].id = <<r, i>>
    <3> TAKE i \in (Len(l.turns) + 1)..Len(held.turns)
    <3>1. CASE i <= Len(new.turns)
      <4>1. i \in (Len(l.turns) + 1)..Len(new.turns) /\ i \in 1..Len(new.turns)
        BY <1>9, <2>1, <3>1
      <4> QED
        BY <1>8, <1>9, <4>1
    <3>2. CASE ~(i <= Len(new.turns))
      BY <1>9, <2>1, <3>2
    <3> QED
      BY <3>1, <3>2
  <2>3. Prefix(l.turns, old.turns) /\ Prefix(old.turns, cur.turns)
    BY <1>2 DEF Loaded, Within
  <2>4. /\ l.turns \in Seq(Turn) /\ old.turns \in Seq(Turn)
        /\ cur.turns \in Seq(Turn)
    BY <1>1, LedgerFact
  <2>5. \A i \in 1..Len(cur.turns) : cur.turns[i].id[1] \in committed
    BY <1>5
  <2>6. /\ r \notin committed /\ Len(held.turns) \in Nat
        /\ KeepsPrefix(cur.turns, held.turns)
    BY <1>3, <1>4, <1>9
  <2> QED
    BY <2>2, <2>3, <2>4, <2>5, <2>6, SameEntries
<1>12. l.snaps = cur.snaps /\ old.snaps = cur.snaps
  <2>1. Prefix(l.snaps, old.snaps) /\ Prefix(old.snaps, cur.snaps)
    BY <1>2 DEF Loaded, Within
  <2>2. \A i \in (Len(l.snaps) + 1)..Len(held.snaps) :
          held.snaps[i].id = <<r, i>>
    BY <1>8, <1>9
  <2>4. /\ l.snaps \in Seq(Snapshot) /\ old.snaps \in Seq(Snapshot)
        /\ cur.snaps \in Seq(Snapshot)
    BY <1>1, LedgerFact
  <2>5. \A i \in 1..Len(cur.snaps) : cur.snaps[i].id[1] \in committed
    BY <1>5
  <2>6. /\ r \notin committed /\ Len(held.snaps) \in Nat
        /\ KeepsPrefix(cur.snaps, held.snaps)
    BY <1>3, <1>4, <1>9
  <2> QED
    BY <2>1, <2>2, <2>4, <2>5, <2>6, SameEntries
<1> DEFINE k == Len(l.msgs)
           o == Len(old.msgs)
           n == Len(cur.msgs)
<1>13. /\ k \in Nat /\ o \in Nat /\ n \in Nat /\ Len(new.msgs) \in Nat
       /\ k <= o /\ o <= n /\ n <= Len(new.msgs)
  BY <1>1, <1>2, <1>6, <1>8, <1>10, LedgerLengths DEF Loaded, Within, Prefix
<1>14. k = n
  <2> SUFFICES ASSUME k < n PROVE FALSE
    BY <1>13
  <2> DEFINE i == k + 1
  <2>1. i \in 1..n /\ i \in (k + 1)..Len(new.msgs) /\ i \in 1..Len(new.msgs)
        /\ i # 0
    BY <1>13
  <2>2. new.msgs[i] = NewMessage
    BY <1>8, <2>1
  <2>3. held.msgs[i].id = cur.msgs[i].id /\ cur.msgs[i].id[1] \in committed
        /\ cur.msgs[i].id[2] = i
    BY <1>5, <1>6, <2>1
  <2> HIDE DEF i
  <2>4. CASE i <= o
    <3>1. held.msgs[i].id = NoID
      BY <1>1, <1>8, <1>10, <2>1, <2>2, <2>4, KnownMessages DEF NewMessage
    <3> QED
      BY <2>1, <2>3, <3>1 DEF NoID
  <2>5. CASE i > o
    <3>1. held.msgs[i].id = <<r, i>>
      BY <1>1, <1>8, <1>10, <2>1, <2>2, <2>5, NewMessageID DEF NewMessage
    <3> QED
      BY <1>4, <2>3, <3>1
  <2> QED
    BY <1>13, <2>1, <2>4, <2>5
<1>15. old.msgs = cur.msgs
  <2>1. Prefix(old.msgs, cur.msgs) /\ n <= o
    BY <1>2, <1>13, <1>14 DEF Within
  <2> QED
    BY <1>1, <2>1, PrefixEqual, LedgerFact
<1>16. l.msgs = cur.msgs
  <2>1. ASSUME NEW i \in 1..k PROVE l.msgs[i] = cur.msgs[i]
    <3>1. i \in 1..n /\ i \in 1..Len(new.msgs) /\ i <= o
      BY <1>13, <1>14
    <3>2. new.msgs[i] = l.msgs[i]
      BY <1>8 DEF Prefix
    <3>3. held.msgs[i] = l.msgs[i]
      BY <1>1, <1>8, <1>10, <3>1, <3>2, KnownMessages
    <3>4. l.msgs[i].id = cur.msgs[i].id /\ l.msgs[i].seq = cur.msgs[i].seq
      BY <1>5, <1>6, <1>10, <3>1, <3>3
    <3>5. l.msgs[i] \in Message /\ cur.msgs[i] \in Message
      BY <1>1, <3>1, LedgerFact
    <3> QED
      BY <3>4, <3>5 DEF Message
  <2>2. l.msgs \in Seq(Message) /\ cur.msgs \in Seq(Message)
    BY <1>1, LedgerFact
  <2> QED
    BY <1>14, <2>1, <2>2, SeqEqual
<1>17. l = cur /\ old = cur
  BY <1>1, <1>11, <1>12, <1>15, <1>16, LedgerEqual
<1> QED
  BY <1>2, <1>17 DEF cur, held, r

(* A save made of the ledger as it is extends it, by entries of its run.   *)
LEMMA SaveExtends ==
  ASSUME NEW cur \in Ledger, NEW b \in Batches, NEW r \in Nat, NEW held,
         SaveOf(held, cur, cur, b, r)
  PROVE  /\ held \in Ledger /\ Within(cur, held)
         /\ \A i \in (Len(cur.turns) + 1)..Len(held.turns) :
              held.turns[i].id = <<r, i>>
         /\ \A i \in (Len(cur.snaps) + 1)..Len(held.snaps) :
              held.snaps[i].id = <<r, i>>
<1> DEFINE new == WithBatch(cur, b, r)
<1>1. ~Truncates(cur, new) /\ ~TurnMismatch(cur, new)
      /\ held = Prepared(cur, new, r)
  BY DEF SaveOf
<1>2. /\ new \in Ledger /\ Prefix(cur.msgs, new.msgs)
      /\ Prefix(cur.turns, new.turns) /\ new.snaps = cur.snaps
      /\ \A i \in (Len(cur.turns) + 1)..Len(new.turns) :
           new.turns[i] = NewTurn(r, i, b.turns[i - Len(cur.turns)])
  BY WithBatchParts
<1>3. \A i, x : NewTurn(r, i, x).id = <<r, i>>
  BY DEF NewTurn
<1> HIDE DEF new
<1>4. /\ held \in Ledger /\ held.msgs = NewMessages(cur, new, r)
      /\ Len(held.msgs) = Len(new.msgs)
  BY <1>1, <1>2, PreparedType, NewMessagesType
<1>5. /\ Len(held.turns) \in Nat /\ Len(new.turns) <= Len(held.turns)
      /\ \A i \in 1..Len(new.turns) : held.turns[i].id = new.turns[i].id
      /\ \A i \in 1..Len(cur.turns) : held.turns[i] = new.turns[i]
      /\ \A i \in (Len(new.turns) + 1)..Len(held.turns) :
           held.turns[i].id = <<r, i>>
      /\ Prefix(new.snaps, held.snaps) /\ Len(held.snaps) \in Nat
      /\ \A i \in (Len(new.snaps) + 1)..Len(held.snaps) :
           held.snaps[i].id = <<r, i>>
  <2> DEFINE p == Prepared(cur, new, r)
  <2>1. /\ Len(p.turns) \in Nat /\ Len(new.turns) <= Len(p.turns)
        /\ \A i \in 1..Len(new.turns) : p.turns[i].id = new.turns[i].id
        /\ \A i \in 1..Len(cur.turns) : p.turns[i] = new.turns[i]
        /\ \A i \in (Len(new.turns) + 1)..Len(p.turns) :
             p.turns[i].id = <<r, i>>
        /\ Prefix(new.snaps, p.snaps) /\ Len(p.snaps) \in Nat
        /\ \A i \in (Len(new.snaps) + 1)..Len(p.snaps) :
             p.snaps[i].id = <<r, i>>
    <3>1. new \in Ledger /\ ~Truncates(cur, new)
      BY <1>1, <1>2
    <3> QED
      BY <3>1, PreparedParts
  <2> QED
    BY <1>1, <2>1
<1>6. /\ Len(cur.msgs) \in Nat /\ Len(new.msgs) \in Nat
      /\ Len(cur.turns) \in Nat /\ Len(new.turns) \in Nat
      /\ Len(cur.msgs) <= Len(new.msgs) /\ Len(cur.turns) <= Len(new.turns)
  BY <1>2, LedgerLengths DEF Prefix
<1>7. Prefix(cur.msgs, held.msgs)
  <2>1. ASSUME NEW i \in 1..Len(cur.msgs)
        PROVE  held.msgs[i] = cur.msgs[i]
    <3>1. i \in 1..Len(new.msgs) /\ i <= Len(cur.msgs)
      BY <1>6
    <3>2. held.msgs[i] = new.msgs[i]
      BY <1>2, <1>4, <3>1, KnownMessages
    <3> QED
      BY <1>2, <3>2 DEF Prefix
  <2> QED
    BY <1>4, <1>6, <2>1 DEF Prefix
<1>8. Prefix(cur.turns, held.turns)
  BY <1>2, <1>5, <1>6 DEF Prefix
<1>9. \A i \in (Len(cur.turns) + 1)..Len(held.turns) :
        held.turns[i].id = <<r, i>>
  <2> TAKE i \in (Len(cur.turns) + 1)..Len(held.turns)
  <2>1. CASE i <= Len(new.turns)
    <3>1. i \in (Len(cur.turns) + 1)..Len(new.turns)
          /\ i \in 1..Len(new.turns)
      BY <1>5, <1>6, <2>1
    <3>2. held.turns[i].id = new.turns[i].id
      BY <1>5, <3>1, Zenon
    <3>3. new.turns[i].id = <<r, i>>
      BY <1>2, <1>3, <3>1, Zenon
    <3> QED
      BY <3>2, <3>3, Zenon
  <2>2. CASE ~(i <= Len(new.turns))
    BY <1>5, <1>6, <2>2
  <2> QED
    BY <2>1, <2>2
<1> QED
  BY <1>2, <1>4, <1>5, <1>7, <1>8, <1>9 DEF Within

(* A step that stores what client c holds, which extends the ledger. *)
LEMMA SaveStore ==
  ASSUME TypeOK, SaveInv, NEW c \in Clients, on[c] \in Sessions,
         Store(on[c], data[c], c), Within(store[on[c]], data[c]),
         \A d \in Clients \ {c} :
           /\ pc'[d] = pc[d] /\ on'[d] = on[d] /\ data'[d] = data[d]
           /\ run'[d] = run[d],
         committed \subseteq committed',
         \A i \in (Len(store[on[c]].turns) + 1)..Len(data[c].turns) :
           data[c].turns[i].id[1] \in committed',
         \A i \in (Len(store[on[c]].snaps) + 1)..Len(data[c].snaps) :
           data[c].snaps[i].id[1] \in committed',
         pc'[c] # "idle" =>
           HeldFrom(pc'[c], view'[c] = "whole", data'[c], store'[on'[c]],
                    run'[c])
  PROVE  SaveInv'
<1> DEFINE s == on[c]
           cur == store[s]
           new == data[c]
<1>1. /\ cur \in Ledger /\ new \in Ledger
      /\ store' = [store EXCEPT ![s] = new]
      /\ view' = [d \in Clients |->
                    IF on[d] = s /\ d # c /\ new # cur THEN "stale"
                                                      ELSE view[d]]
  BY DEF TypeOK, Store
<1>2. store'[s] = new /\ \A t \in Sessions \ {s} : store'[t] = store[t]
  BY <1>1 DEF TypeOK
<1>3. EntriesCommitted'
  <2>1. /\ \A i \in 1..Len(cur.turns) : cur.turns[i].id[1] \in committed
        /\ \A i \in 1..Len(cur.snaps) : cur.snaps[i].id[1] \in committed
    BY DEF SaveInv, EntriesCommitted
  <2>2. /\ Len(cur.turns) \in Nat /\ Len(new.turns) \in Nat
        /\ Len(cur.snaps) \in Nat /\ Len(new.snaps) \in Nat
    BY <1>1, LedgerLengths
  <2>3. ASSUME NEW i \in 1..Len(new.turns)
        PROVE  new.turns[i].id[1] \in committed'
    <3>1. CASE i \in 1..Len(cur.turns)
      BY <2>1, <3>1 DEF Within, Prefix
    <3>2. CASE i \notin 1..Len(cur.turns)
      BY <2>2, <3>2
    <3> QED
      BY <3>1, <3>2
  <2>4. ASSUME NEW i \in 1..Len(new.snaps)
        PROVE  new.snaps[i].id[1] \in committed'
    <3>1. CASE i \in 1..Len(cur.snaps)
      BY <2>1, <3>1 DEF Within, Prefix
    <3>2. CASE i \notin 1..Len(cur.snaps)
      BY <2>2, <3>2
    <3> QED
      BY <3>1, <3>2
  <2>5. ASSUME NEW t \in Sessions \ {s}
        PROVE  /\ \A i \in 1..Len(store'[t].turns) :
                    store'[t].turns[i].id[1] \in committed'
               /\ \A i \in 1..Len(store'[t].snaps) :
                    store'[t].snaps[i].id[1] \in committed'
    BY <1>2 DEF SaveInv, EntriesCommitted
  <2> QED
    BY <1>2, <2>3, <2>4, <2>5 DEF EntriesCommitted
<1>4. ASSUME NEW d \in Clients, pc'[d] # "idle"
      PROVE  HeldFrom(pc'[d], view'[d] = "whole", data'[d], store'[on'[d]],
                      run'[d])
  <2>1. CASE d = c
    BY <1>4, <2>1
  <2>2. CASE d # c
    <3>1. /\ pc'[d] = pc[d] /\ on'[d] = on[d] /\ data'[d] = data[d]
          /\ run'[d] = run[d] /\ pc[d] # "idle" /\ on[d] \in Sessions
          /\ data[d] \in Ledger
      BY <1>4, <2>2 DEF TypeOK
    <3>2. HeldFrom(pc[d], view[d] = "whole", data[d], store[on[d]], run[d])
      BY <3>1 DEF SaveInv
    <3>3. CASE on[d] = s
      <4>1. view'[d] = "whole" => view[d] = "whole" /\ new = cur
        BY <1>1, <2>2, <3>3
      <4> DEFINE w1 == view[d] = "whole"
                 w2 == view'[d] = "whole"
                 held == data[d]
      <4>2. HeldFrom(pc[d], w1, held, cur, run[d]) /\ held \in Ledger
        BY <3>1, <3>2, <3>3
      <4>3. Within(cur, new)
        OBVIOUS
      <4> HIDE DEF w1, w2, held, cur, new
      <4>4. HeldFrom(pc[d], w2, held, new, run[d])
        BY <1>1, <4>1, <4>2, <4>3, HeldFromGrows DEF w1, w2
      <4> QED
        BY <1>2, <3>1, <3>3, <4>4 DEF w2, held
    <3>4. CASE on[d] # s
      BY <1>1, <1>2, <3>1, <3>2, <3>4
    <3> QED
      BY <3>3, <3>4
  <2> QED
    BY <2>1, <2>2
<1> QED
  BY <1>3, <1>4, SaveInvNext

LEMMA SaveCommitNew ==
  ASSUME TypeOK, IInv, SaveInv, NEW c \in Clients, CommitNew(c)
  PROVE  SaveInv'
<1> DEFINE cur == store[on[c]]
<1>1. /\ pc[c] = "commitNew" /\ pc'[c] = "run" /\ Acceptable(c)
      /\ Store(on[c], data[c], c)
      /\ UNCHANGED <<on, data, run, committed>>
      /\ \A d \in Clients \ {c} : pc'[d] = pc[d]
  BY DEF CommitNew, TypeOK
<1>2. on[c] \in Sessions /\ cur \in Ledger
  BY <1>1 DEF TypeOK
<1>3. data[c] = EmptyLedger
  BY <1>1 DEF SaveInv, HeldFrom
<1>4. cur = EmptyLedger
  <2>1. /\ KeepsPrefix(cur.msgs, EmptyLedger.msgs)
        /\ KeepsPrefix(cur.turns, EmptyLedger.turns)
        /\ KeepsPrefix(cur.snaps, EmptyLedger.snaps)
    BY <1>1, <1>3, AcceptedPrefix
  <2>2. Len(cur.msgs) = 0 /\ Len(cur.turns) = 0 /\ Len(cur.snaps) = 0
    BY <1>2, <2>1, LedgerLengths DEF KeepsPrefix, EmptyLedger
  <2>3. cur.msgs = <<>> /\ cur.turns = <<>> /\ cur.snaps = <<>>
    BY <1>2, <2>2, LedgerFact, EmptySeq
  <2> QED
    BY <1>2, <2>3, EmptyLedgerFact, LedgerEqual DEF EmptyLedger
<1>5. Within(cur, data[c]) /\ Loaded(cur, cur)
  BY <1>2, <1>3, <1>4, WithinSelf
<1>6. store'[on[c]] = EmptyLedger
  BY <1>1, <1>2, <1>3 DEF Store, TypeOK
<1>7. HeldFrom("run", view'[c] = "whole", data'[c], store'[on'[c]], run'[c])
  BY <1>1, <1>3, <1>4, <1>5, <1>6 DEF HeldFrom
<1>8. /\ Len(cur.turns) = 0 /\ Len(cur.snaps) = 0
      /\ Len(data[c].turns) = 0 /\ Len(data[c].snaps) = 0
  BY <1>3, <1>4 DEF EmptyLedger
<1> QED
  BY <1>1, <1>2, <1>5, <1>7, <1>8, SaveStore

LEMMA SaveCommit ==
  ASSUME TypeOK, IInv, SaveInv, NEW c \in Clients, CommitSave(c)
  PROVE  SaveInv'
<1> DEFINE cur == store[on[c]]
<1>1. /\ pc[c] = "commit" /\ pc'[c] = "idle" /\ Acceptable(c)
      /\ Store(on[c], data[c], c)
      /\ committed' = committed \cup {run[c]}
      /\ \A d \in Clients \ {c} :
           /\ pc'[d] = pc[d] /\ on'[d] = on[d] /\ data'[d] = data[d]
           /\ run'[d] = run[d]
  BY DEF CommitSave, Return, TypeOK
<1>2. on[c] \in Sessions /\ cur \in Ledger /\ run[c] \in Nat
  BY <1>1 DEF TypeOK
<1>3. PICK b \in Batches : SaveOf(data[c], cur, cur, b, run[c])
  BY <1>1, Serial
<1>4. /\ Within(cur, data[c])
      /\ \A i \in (Len(cur.turns) + 1)..Len(data[c].turns) :
           data[c].turns[i].id = <<run[c], i>>
      /\ \A i \in (Len(cur.snaps) + 1)..Len(data[c].snaps) :
           data[c].snaps[i].id = <<run[c], i>>
  <2> DEFINE held == data[c]
             r == run[c]
  <2>1. SaveOf(held, cur, cur, b, r) /\ cur \in Ledger /\ r \in Nat
    BY <1>2, <1>3
  <2> HIDE DEF cur, held, r
  <2>2. /\ Within(cur, held)
        /\ \A i \in (Len(cur.turns) + 1)..Len(held.turns) :
             held.turns[i].id = <<r, i>>
        /\ \A i \in (Len(cur.snaps) + 1)..Len(held.snaps) :
             held.snaps[i].id = <<r, i>>
    BY <2>1, SaveExtends
  <2> QED
    BY <2>2 DEF held, r
<1>5. /\ \A i \in (Len(cur.turns) + 1)..Len(data[c].turns) :
           data[c].turns[i].id[1] \in committed'
      /\ \A i \in (Len(cur.snaps) + 1)..Len(data[c].snaps) :
           data[c].snaps[i].id[1] \in committed'
  BY <1>1, <1>4
<1> QED
  BY <1>1, <1>2, <1>4, <1>5, SaveStore

LEMMA SaveDelete ==
  ASSUME TypeOK, SaveInv, NEW s \in Sessions, Quiet(s), DeleteSession(s)
  PROVE  SaveInv'
<1>1. /\ store' = [store EXCEPT ![s] = EmptyLedger]
      /\ view' = [d \in Clients |->
                    IF on[d] = s /\ d # NoSession /\ EmptyLedger # store[s]
                    THEN "stale" ELSE view[d]]
      /\ UNCHANGED <<pc, on, data, run, committed>>
  BY DEF DeleteSession, Store, clientVars
<1>2. /\ store'[s] = EmptyLedger
      /\ \A t \in Sessions \ {s} : store'[t] = store[t]
  BY <1>1 DEF TypeOK
<1>3. EntriesCommitted'
  <2>1. ASSUME NEW t \in Sessions
        PROVE  /\ \A i \in 1..Len(store'[t].turns) :
                    store'[t].turns[i].id[1] \in committed
               /\ \A i \in 1..Len(store'[t].snaps) :
                    store'[t].snaps[i].id[1] \in committed
    <3>1. CASE t = s
      BY <1>2, <3>1 DEF EmptyLedger
    <3>2. CASE t # s
      BY <1>2, <3>2 DEF SaveInv, EntriesCommitted
    <3> QED
      BY <3>1, <3>2
  <2> QED
    BY <1>1, <2>1 DEF EntriesCommitted
<1>4. ASSUME NEW d \in Clients, pc'[d] # "idle"
      PROVE  HeldFrom(pc'[d], view'[d] = "whole", data'[d], store'[on'[d]],
                      run'[d])
  <2>1. pc[d] # "idle" /\ on[d] # s /\ on[d] \in Sessions
    BY <1>1, <1>4 DEF Quiet, TypeOK
  <2>2. store'[on[d]] = store[on[d]] /\ view'[d] = view[d]
    BY <1>1, <1>2, <2>1
  <2>3. HeldFrom(pc[d], view[d] = "whole", data[d], store[on[d]], run[d])
    BY <2>1 DEF SaveInv
  <2> QED
    BY <1>1, <2>2, <2>3
<1> QED
  BY <1>3, <1>4, SaveInvNext

LEMMA SaveStep ==
  TypeOK /\ IInv /\ SaveInv /\ [QuietNext]_vars => SaveInv'
<1> SUFFICES ASSUME TypeOK, IInv, SaveInv, [QuietNext]_vars
             PROVE  SaveInv'
  OBVIOUS
<1>1. ASSUME NEW c \in Clients, Flow(c)
      PROVE  SaveInv'
  <2>1. ASSUME NEW s \in Sessions, Load(c, s) PROVE SaveInv'
    BY <2>1, SaveLoad
  <2>2. ASSUME NEW s \in Sessions, LoadMissing(c, s) \/ LoadFails(c, s)
        PROVE  SaveInv'
    BY <2>2, SaveMissing
  <2>3. ASSUME NEW b \in Batches, RunLoop(c, b) PROVE SaveInv'
    BY <2>3, SaveRun
  <2>4. CASE \/ SaveTruncates(c) \/ SaveMismatch(c) \/ SaveRejected(c)
             \/ Abort(c)
    BY <2>4, SaveReturn
    DEF SaveTruncates, SaveMismatch, SaveRejected, Abort, storeVars
  <2>5. CASE PrepareSave(c)
    BY <2>5, SavePrepare
  <2>6. CASE CommitNew(c)
    BY <2>6, SaveCommitNew
  <2>7. CASE CommitSave(c)
    BY <2>7, SaveCommit
  <2> QED
    BY <1>1, <2>1, <2>2, <2>3, <2>4, <2>5, <2>6, <2>7 DEF Flow
<1>2. ASSUME NEW s \in Sessions, Quiet(s), DeleteSession(s)
      PROVE  SaveInv'
  BY <1>2, SaveDelete
<1>3. CASE UNCHANGED vars
  BY <1>3, SaveInvNext DEF vars, SaveInv, EntriesCommitted
<1> QED
  BY <1>1, <1>2, <1>3 DEF QuietNext

LEMMA SaveInvariant == QuietSpec => []SaveInv
<1>1. Init => SaveInv
  BY SaveInit
<1> QED
  BY <1>1, SaveStep, QuietType, Invariant, PTL DEF QuietSpec

(* A save that succeeds is atomic: although Save reads the ledger first    *)
(* and stores afterwards, what it stores is the ledger of that moment with *)
(* the run's own batch, as if nobody else were there.                      *)
AtomicSave ==
  \A c \in Clients : CommitSave(c) =>
    \E b \in Batches :
      /\ ~TurnMismatch(store[on[c]], WithBatch(store[on[c]], b, run[c]))
      /\ store'[on[c]] = Extended(store[on[c]], b, run[c])

(* This is so for every interleaving of flows: a flow whose Save worked    *)
(* with a stale read is refused by the operator.                           *)
THEOREM SavesAtomic == QuietSpec => [][AtomicSave]_vars
<1>1. TypeOK /\ IInv /\ SaveInv => AtomicSave
  <2> SUFFICES ASSUME TypeOK, IInv, SaveInv, NEW c \in Clients, CommitSave(c)
               PROVE  \E b \in Batches :
                        /\ ~TurnMismatch(store[on[c]],
                                         WithBatch(store[on[c]], b, run[c]))
                        /\ store'[on[c]] = Extended(store[on[c]], b, run[c])
    BY DEF AtomicSave
  <2>1. /\ pc[c] = "commit" /\ Acceptable(c) /\ on[c] \in Sessions
        /\ store'[on[c]] = data[c]
    BY DEF CommitSave, Store, TypeOK
  <2>2. \E b \in Batches : SaveOf(data[c], store[on[c]], store[on[c]], b,
                                  run[c])
    BY <2>1, Serial
  <2> QED
    BY <2>1, <2>2 DEF SaveOf, Extended
<1> QED
  BY <1>1, QuietType, Invariant, SaveInvariant, PTL DEF QuietSpec

-----------------------------------------------------------------------------
(* What a save makes of a numbered ledger                                  *)

Positions(items) == \A i \in 1..Len(items) : items[i].seq = i

(* What a save made of a numbered ledger consists of. *)
LEMMA SaveShape ==
  ASSUME NEW cur \in Ledger, NEW b \in Batches, NEW r \in Nat, NEW held,
         SaveOf(held, cur, cur, b, r), Positions(cur.msgs)
  PROVE  LET new == WithBatch(cur, b, r)
         IN /\ Positions(held.msgs)
            /\ Len(held.msgs) = Len(cur.msgs) + b.n
            /\ b.n = 0 =>
                 /\ held.msgs = cur.msgs /\ held.turns = new.turns
                 /\ held.snaps = new.snaps
            /\ b.n > 0 =>
                 /\ held.turns = NewTurns(cur, new, held.msgs, r)
                 /\ held.snaps =
                      NewSnapshots(cur, new, held.msgs, held.turns, r)
<1> DEFINE new == WithBatch(cur, b, r)
           msgs == NewMessages(cur, new, r)
           first == cur.msgs
<1>1. ~Truncates(cur, new) /\ ~TurnMismatch(cur, new)
      /\ held = Prepared(cur, new, r) /\ b.n \in Nat
  BY LedgerAssumption DEF SaveOf
<1>2. /\ new \in Ledger /\ Prefix(cur.msgs, new.msgs)
      /\ Len(new.msgs) = Len(first) + b.n
      /\ \A i \in (Len(first) + 1)..Len(new.msgs) : new.msgs[i] = NewMessage
  BY WithBatchParts
<1>3. first \in Seq(Message) /\ Len(first) \in Nat
  BY LedgerFact, LenProperties
<1>4. LastSequence(first) = Len(first)
  <2>1. CASE first = <<>>
    BY <2>1 DEF LastSequence
  <2>2. CASE first # <<>>
    <3>1. Len(first) \in 1..Len(first)
      BY <1>3, <2>2, EmptySeq
    <3> QED
      BY <2>2, <3>1 DEF LastSequence, Positions
  <2> QED
    BY <2>1, <2>2
<1>5. Len(first) \in 0..Len(first) /\ Len(first) <= Len(new.msgs)
  BY <1>1, <1>2, <1>3
<1>6. /\ \A i \in 1..Len(first) : msgs[i] = new.msgs[i]
      /\ \A i \in (Len(first) + 1)..Len(new.msgs) :
           msgs[i].id = <<r, i>> /\ msgs[i].seq = i
  BY <1>2, <1>4, <1>5, NewMessagesNumbered
<1>7. held.msgs = msgs /\ msgs \in Seq(Message) /\ Len(msgs) = Len(new.msgs)
  BY <1>1, <1>2, PreparedType, NewMessagesType
<1> HIDE DEF msgs, new
<1>8. Positions(held.msgs)
  <2>1. ASSUME NEW i \in 1..Len(msgs) PROVE msgs[i].seq = i
    <3>1. CASE i \in 1..Len(first)
      <4>1. new.msgs[i] = cur.msgs[i]
        BY <1>2, <3>1 DEF Prefix
      <4> QED
        BY <1>6, <3>1, <4>1 DEF Positions
    <3>2. CASE i \notin 1..Len(first)
      BY <1>1, <1>2, <1>3, <1>6, <1>7, <3>2
    <3> QED
      BY <3>1, <3>2
  <2> QED
    BY <1>7, <2>1 DEF Positions
<1>9. ASSUME b.n = 0
      PROVE  /\ held.msgs = cur.msgs /\ held.turns = new.turns
             /\ held.snaps = new.snaps
  <2>1. held = [new EXCEPT !.msgs = msgs]
    BY <1>1, <1>2, <1>3, <1>9 DEF Prepared, msgs
  <2>2. \A i \in 1..Len(first) : msgs[i] = first[i]
    BY <1>2, <1>6 DEF Prefix
  <2>3. msgs = first
    BY <1>2, <1>3, <1>7, <1>9, <2>2, SeqEqual
  <2> QED
    BY <1>2, <1>7, <2>1, <2>3 DEF Ledger
<1>10. ASSUME b.n > 0
       PROVE  /\ held.turns = NewTurns(cur, new, held.msgs, r)
              /\ held.snaps = NewSnapshots(cur, new, held.msgs, held.turns, r)
  <2>1. Len(new.msgs) > Len(first)
    BY <1>1, <1>2, <1>3, <1>10
  <2> QED
    BY <1>1, <2>1 DEF Prepared, msgs
<1> QED
  BY <1>2, <1>7, <1>8, <1>9, <1>10 DEF new

(* The messages from..to are those of a turn. *)
Piece(turn, from, to) ==
  \/ to = from /\ turn.first = 0
  \/ /\ from < to
     /\ turn.first = from + 1 /\ turn.last = to /\ turn.count = to - from

(* The turns cut the history into pieces. *)
Tiles(cut, l) ==
  /\ cut \in [0..Len(l.turns) -> 0..Len(l.msgs)]
  /\ cut[0] = 0 /\ cut[Len(l.turns)] = Len(l.msgs)
  /\ \A t \in 1..Len(l.turns) : Piece(l.turns[t], cut[t - 1], cut[t])

Tiled(l) == \E cut : Tiles(cut, l)

(* So do the turns of a save the messages that are new in it. *)
TilesNew(cut, cur, held) ==
  LET known == Len(cur.turns)
      total == Len(held.turns)
      n     == Len(cur.msgs)
      m     == Len(held.msgs)
  IN /\ cut \in [known..total -> n..m]
     /\ cut[known] = n /\ cut[total] = m
     /\ \A t \in (known + 1)..total : Piece(held.turns[t], cut[t - 1], cut[t])

LEMMA TiledExtends ==
  ASSUME NEW cur \in Ledger, NEW held \in Ledger, Within(cur, held),
         Tiled(cur), NEW new, TilesNew(new, cur, held)
  PROVE  Tiled(held)
<1> DEFINE known == Len(cur.turns)
           total == Len(held.turns)
           n     == Len(cur.msgs)
           m     == Len(held.msgs)
<1>1. /\ known \in Nat /\ total \in Nat /\ n \in Nat /\ m \in Nat
      /\ known <= total /\ n <= m
  BY LedgerLengths DEF Within, Prefix
<1>2. PICK cut : Tiles(cut, cur)
  BY DEF Tiled
<1>3. /\ cut \in [0..known -> 0..n] /\ cut[0] = 0 /\ cut[known] = n
      /\ \A t \in 1..known : Piece(cur.turns[t], cut[t - 1], cut[t])
  BY <1>2 DEF Tiles
<1>4. /\ new \in [known..total -> n..m] /\ new[known] = n /\ new[total] = m
      /\ \A t \in (known + 1)..total : Piece(held.turns[t], new[t - 1], new[t])
  BY DEF TilesNew
<1>5. \A t \in 1..known : held.turns[t] = cur.turns[t]
  BY DEF Within, Prefix
<1> DEFINE both == [t \in 0..total |-> IF t <= known THEN cut[t] ELSE new[t]]
<1> HIDE DEF known, total, n, m
<1>6. both \in [0..total -> 0..m]
  <2>1. ASSUME NEW t \in 0..total
        PROVE  (IF t <= known THEN cut[t] ELSE new[t]) \in 0..m
    <3>1. CASE t <= known
      <4>1. t \in 0..known
        BY <1>1, <3>1
      <4>2. cut[t] \in 0..n
        BY <1>3, <4>1
      <4> QED
        BY <1>1, <3>1, <4>2
    <3>2. CASE ~(t <= known)
      <4>1. t \in known..total
        BY <1>1, <3>2
      <4>2. new[t] \in n..m
        BY <1>4, <4>1
      <4> QED
        BY <1>1, <3>2, <4>2
    <3> QED
      BY <3>1, <3>2
  <2> QED
    BY <2>1
<1>7. both[0] = 0 /\ both[total] = m
  <2>1. 0 \in 0..total /\ total \in 0..total /\ 0 <= known
    BY <1>1
  <2>2. total <= known => total = known
    BY <1>1
  <2> QED
    BY <1>3, <1>4, <2>1, <2>2
<1>8. ASSUME NEW t \in 1..total
      PROVE  Piece(held.turns[t], both[t - 1], both[t])
  <2>1. t \in 0..total /\ t - 1 \in 0..total
    BY <1>1
  <2>2. CASE t <= known
    <3>1. t - 1 <= known /\ t \in 1..known
      BY <1>1, <2>2
    <3>2. both[t] = cut[t] /\ both[t - 1] = cut[t - 1]
      BY <2>1, <2>2, <3>1
    <3> QED
      BY <1>3, <1>5, <3>1, <3>2
  <2>3. CASE ~(t <= known)
    <3>1. t \in (known + 1)..total /\ (t - 1 <= known => t - 1 = known)
      BY <1>1, <2>3
    <3>2. both[t] = new[t] /\ both[t - 1] = new[t - 1]
      BY <1>3, <1>4, <2>1, <2>3, <3>1
    <3> QED
      BY <1>4, <3>1, <3>2
  <2> QED
    BY <2>2, <2>3
<1> HIDE DEF both
<1>9. Tiles(both, held)
  BY <1>6, <1>7, <1>8 DEF Tiles, total, m
<1> QED
  BY <1>9 DEF Tiled

CutOf(old, new) == CHOOSE f \in Cuts(old, new) : TRUE

(* What becomes of a new turn record that has no window yet. *)
LEMMA WindowOfTurn ==
  ASSUME NEW cur \in Ledger, NEW new \in Ledger, NEW msgs, NEW r \in Nat,
         Cuts(cur, new) # {}, Len(new.turns) # Len(cur.turns),
         Positions(msgs), Len(msgs) = Len(new.msgs),
         NEW t \in (Len(cur.turns) + 1)..Len(new.turns),
         new.turns[t].first = 0, new.turns[t].last = 0
  PROVE  LET cut == CutOf(cur, new)
             n == Len(cur.msgs)
             turns == NewTurns(cur, new, msgs, r)
         IN /\ Len(turns) = Len(new.turns)
            /\ turns[t].count = new.turns[t].count
            /\ turns[t].count = 0 => turns[t].first = 0
            /\ turns[t].count > 0 =>
                 /\ turns[t].first = n + cut[t - 1] + 1
                 /\ turns[t].last = n + cut[t]
<1> DEFINE known == Len(cur.turns)
           numbered == AssignSequences(new.turns, known,
                                       LastSequence(cur.turns))
           cut == CutOf(cur, new)
           n == Len(cur.msgs)
           turns == NewTurns(cur, new, msgs, r)
           given == new.turns[t]
           from == msgs[n + cut[t - 1] + 1].seq
           to == msgs[n + cut[t]].seq
<1>1. /\ known \in Nat /\ new.turns \in Seq(Turn) /\ Len(new.turns) \in Nat
      /\ t \in 1..Len(new.turns) /\ t > known /\ given \in Turn
  BY LedgerFact, LedgerLengths
<1>2. numbered \in Seq(Turn) /\ Len(numbered) = Len(new.turns)
  BY <1>1, AssignTurns, TurnLast, LedgerFact
<1>3. /\ numbered[t].first = 0 /\ numbered[t].last = 0
      /\ numbered[t].count = given.count /\ numbered[t] \in Turn
  <2> DEFINE seq == LastSequence(cur.turns) +
                      Cardinality({j \in (known + 1)..t :
                                     new.turns[j].seq = 0})
  <2>1. numbered[t] = IF given.seq = 0 THEN [given EXCEPT !.seq = seq]
                                       ELSE given
    BY <1>1 DEF AssignSequences
  <2>2. numbered[t] \in Turn
    BY <1>1, <1>2
  <2> HIDE DEF seq, numbered, given
  <2>3. given.first = 0 /\ given.last = 0
    BY DEF given
  <2> QED
    BY <1>1, <2>1, <2>2, <2>3 DEF Turn
<1>4. turns = WindowedTurns(cur, new, numbered, msgs)
  BY DEF NewTurns
<1>5. cut \in Cuts(cur, new)
  BY DEF CutOf
<1> HIDE DEF numbered, turns
<1>6. Len(turns) = Len(numbered)
  <2>1. \A q : Len(q) \in Nat =>
          Len(WindowedTurns(cur, new, q, msgs)) = Len(q)
    BY DEF WindowedTurns
  <2> QED
    BY <1>1, <1>2, <1>4, <2>1
<1> DEFINE turn == numbered[t]
           windowed == [turn EXCEPT
                          !.first = IF @ = 0 THEN from ELSE @,
                          !.last  = IF @ = 0 THEN to ELSE @]
<1>7. turns[t] = IF turn.count > 0 THEN windowed ELSE turn
  BY <1>1, <1>2, <1>4 DEF WindowedTurns, CutOf
<1>8. windowed.first = from /\ windowed.last = to
      /\ windowed.count = turn.count
  <2> HIDE DEF from, to, turn
  <2>1. turn \in Turn /\ turn.first = 0 /\ turn.last = 0
    BY <1>3 DEF turn
  <2> QED
    BY <2>1 DEF Turn
<1>9. turn.count \in Nat /\ turn.count = given.count /\ turn.first = 0
  BY <1>3 DEF Turn
<1> HIDE DEF windowed, turn, from, to, given
<1>10. CASE turn.count > 0
  <2>1. /\ n + cut[t - 1] + 1 \in 1..Len(new.msgs)
        /\ n + cut[t] \in 1..Len(new.msgs)
    BY <1>5, <1>9, <1>10, CutsInRange DEF given
  <2>2. from = n + cut[t - 1] + 1 /\ to = n + cut[t]
    BY <2>1 DEF Positions, from, to
  <2>3. turns[t] = windowed
    BY <1>7, <1>10
  <2> HIDE DEF cut, n
  <2> QED
    BY <1>2, <1>6, <1>8, <1>9, <1>10, <2>2, <2>3 DEF cut, n, given, turns
<1>11. CASE ~(turn.count > 0)
  <2>1. turns[t] = turn
    BY <1>7, <1>11
  <2> HIDE DEF cut, n
  <2> QED
    BY <1>2, <1>6, <1>9, <1>11, <2>1 DEF cut, n, given, turns
<1> QED
  BY <1>10, <1>11

Counting(b) == \A i \in 1..Len(b.turns) : b.turns[i] > 0

(* The turns of a save cut its messages into pieces. *)
LEMMA SaveTiles ==
  ASSUME NEW cur \in Ledger, NEW b \in Batches, NEW r \in Nat,
         NEW held \in Ledger, SaveOf(held, cur, cur, b, r),
         Positions(cur.msgs)
  PROVE  \E cut : /\ TilesNew(cut, cur, held)
                  /\ b.n > 0 /\ Counting(b) =>
                       LET last == Len(held.turns)
                       IN last > Len(cur.turns) /\ cut[last - 1] < cut[last]
<1> DEFINE new == WithBatch(cur, b, r)
           known == Len(cur.turns)
           total == Len(held.turns)
           n     == Len(cur.msgs)
           m     == Len(held.msgs)
<1>1. /\ ~Truncates(cur, new) /\ ~TurnMismatch(cur, new)
      /\ b.n \in Nat /\ b.turns \in Seq(Nat) /\ Len(b.turns) \in Nat
  BY LedgerAssumption, LenProperties DEF SaveOf
<1>2. /\ new \in Ledger /\ Len(new.msgs) = n + b.n
      /\ Prefix(cur.turns, new.turns)
      /\ Len(new.turns) = known + Len(b.turns)
      /\ \A i \in (known + 1)..Len(new.turns) :
           new.turns[i] = NewTurn(r, i, b.turns[i - known])
  BY WithBatchParts
<1>3. /\ Positions(held.msgs) /\ m = n + b.n
      /\ b.n = 0 => held.turns = new.turns
      /\ b.n > 0 => held.turns = NewTurns(cur, new, held.msgs, r)
  BY SaveShape
<1>4. n \in Nat /\ m \in Nat /\ known \in Nat /\ total \in Nat
  BY LedgerLengths
<1>5. \A i, x : /\ NewTurn(r, i, x).first = 0 /\ NewTurn(r, i, x).last = 0
                /\ NewTurn(r, i, x).count = x
  BY DEF NewTurn
<1> HIDE DEF new, known, total, n, m
<1>6. CASE b.n = 0
  <2> DEFINE cut == [t \in known..total |-> n]
  <2>1. held.turns = new.turns /\ m = n /\ known <= total
    BY <1>1, <1>2, <1>3, <1>4, <1>6 DEF total
  <2>2. cut \in [known..total -> n..m] /\ cut[known] = n /\ cut[total] = m
    BY <1>4, <2>1
  <2>3. ASSUME NEW t \in (known + 1)..total
        PROVE  Piece(held.turns[t], cut[t - 1], cut[t])
    <3>1. held.turns[t].first = 0
      BY <1>2, <1>5, <2>1 DEF total
    <3>2. t \in known..total /\ t - 1 \in known..total
      BY <1>4
    <3> QED
      BY <3>1, <3>2 DEF Piece
  <2> HIDE DEF cut
  <2>4. TilesNew(cut, cur, held)
    BY <2>2, <2>3 DEF TilesNew, known, total, n, m
  <2> QED
    BY <1>6, <2>4
<1>7. CASE b.n > 0 /\ Len(b.turns) = 0
  <2> DEFINE cut == [t \in known..total |-> IF t = known THEN n ELSE m]
             auto == AutoTurn(cur, held.msgs, r)
             turns == new.turns
  <2>1. held.turns = Append(turns, auto) /\ turns \in Seq(Turn)
        /\ Len(turns) = known
    BY <1>2, <1>3, <1>4, <1>7, LedgerFact DEF NewTurns, known
  <2>2. /\ auto.first = held.msgs[n + 1].seq /\ auto.last = held.msgs[m].seq
        /\ auto.count = m - n
    BY DEF AutoTurn, n, m
  <2>3. n + 1 \in 1..m /\ m \in 1..m /\ n < m
    BY <1>1, <1>3, <1>4, <1>7
  <2>4. auto.first = n + 1 /\ auto.last = m
    BY <1>3, <2>2, <2>3 DEF Positions, m
  <2> HIDE DEF auto, turns
  <2>5. total = known + 1 /\ held.turns[known + 1] = auto
    BY <1>4, <2>1, AppendPrefix DEF total
  <2>6. cut \in [known..total -> n..m]
    BY <1>4, <2>3
  <2>7. cut[known] = n /\ cut[total] = m
    BY <1>4, <2>5
  <2>8. ASSUME NEW t \in (known + 1)..total
        PROVE  Piece(held.turns[t], cut[t - 1], cut[t])
    <3>1. t = known + 1 /\ t - 1 = known /\ t = total
      BY <1>4, <2>5
    <3> HIDE DEF cut
    <3> QED
      BY <2>2, <2>3, <2>4, <2>5, <2>7, <3>1 DEF Piece
  <2>9. total > known /\ total - 1 = known
    BY <1>4, <2>5
  <2> HIDE DEF cut
  <2>10. TilesNew(cut, cur, held)
    BY <2>6, <2>7, <2>8 DEF TilesNew, known, total, n, m
  <2>11. total > known /\ cut[total - 1] < cut[total]
    BY <2>3, <2>7, <2>9
  <2> QED
    BY <2>10, <2>11 DEF total, known
<1>8. CASE b.n > 0 /\ Len(b.turns) > 0
  <2> DEFINE f == CutOf(cur, new)
             cut == [t \in known..total |-> n + f[t]]
  <2>1. Cuts(cur, new) # {} /\ Len(new.turns) # known
    <3>1. Len(new.msgs) > n /\ Len(new.turns) > known
          /\ Len(new.turns) # known
      <4>1. Len(new.msgs) = n + b.n /\ Len(new.turns) = known + Len(b.turns)
        BY <1>2
      <4> QED
        BY <1>1, <1>4, <1>8, <4>1
    <3> QED
      BY <1>1, <3>1 DEF TurnMismatch, known, n
  <2>2. f \in Cuts(cur, new)
    BY <2>1 DEF CutOf
  <2>3. Len(new.turns) \in Nat /\ known < Len(new.turns)
    BY <1>1, <1>2, <1>4, <1>8
  <2>4. Len(new.msgs) - n = b.n
    BY <1>1, <1>2, <1>4
  <2>5. /\ f \in [known..Len(new.turns) -> 0..b.n]
        /\ f[known] = 0 /\ f[Len(new.turns)] = b.n
        /\ \A t \in (known + 1)..Len(new.turns) :
             f[t] = f[t - 1] + new.turns[t].count
    BY <2>2, <2>4 DEF Cuts, known, n
  <2>6. ASSUME NEW t \in (known + 1)..Len(new.turns)
        PROVE  /\ total = Len(new.turns)
               /\ held.turns[t].count = new.turns[t].count
               /\ held.turns[t].count = 0 => held.turns[t].first = 0
               /\ held.turns[t].count > 0 =>
                    /\ held.turns[t].first = n + f[t - 1] + 1
                    /\ held.turns[t].last = n + f[t]
               /\ new.turns[t].count = b.turns[t - known]
    <3>1. /\ new.turns[t].first = 0 /\ new.turns[t].last = 0
          /\ new.turns[t].count = b.turns[t - known]
      BY <1>2, <1>5
    <3>2. Len(held.msgs) = Len(new.msgs)
      BY <1>2, <1>3 DEF m
    <3>3. held.turns = NewTurns(cur, new, held.msgs, r)
      BY <1>3, <1>8
    <3>4. /\ new \in Ledger /\ Positions(held.msgs)
          /\ Cuts(cur, new) # {} /\ Len(new.turns) # Len(cur.turns)
          /\ t \in (Len(cur.turns) + 1)..Len(new.turns)
      BY <1>2, <1>3, <2>1 DEF known
    <3> HIDE DEF f, cut
    <3> DEFINE turns == NewTurns(cur, new, held.msgs, r)
    <3>5. /\ Len(turns) = Len(new.turns)
          /\ turns[t].count = new.turns[t].count
          /\ turns[t].count = 0 => turns[t].first = 0
          /\ turns[t].count > 0 =>
               /\ turns[t].first = Len(cur.msgs) + f[t - 1] + 1
               /\ turns[t].last = Len(cur.msgs) + f[t]
      BY <3>1, <3>2, <3>4, WindowOfTurn DEF f
    <3> HIDE DEF turns
    <3>6. held.turns = turns
      BY <3>3 DEF turns
    <3> QED
      BY <3>1, <3>5, <3>6 DEF total, n
  <2> HIDE DEF f
  <2>7. total = Len(new.turns)
    <3>1. Len(new.turns) \in (known + 1)..Len(new.turns)
      BY <1>4, <2>3
    <3> QED
      BY <2>6, <3>1
  <2>14. total = known + Len(b.turns)
    BY <1>2, <2>7
  <2>8. \A t \in known..total : f[t] \in 0..b.n
    BY <2>5, <2>7
  <2>9. cut \in [known..total -> n..m]
    <3>1. \A t \in known..total : n + f[t] \in n..m
      BY <1>1, <1>3, <1>4, <2>8
    <3> QED
      BY <3>1
  <2>10. cut[known] = n /\ cut[total] = m
    BY <1>1, <1>3, <1>4, <2>3, <2>5, <2>7
  <2>11. ASSUME NEW t \in (known + 1)..total
         PROVE  /\ Piece(held.turns[t], cut[t - 1], cut[t])
                /\ b.turns[t - known] > 0 => cut[t - 1] < cut[t]
    <3>1. t \in known..total /\ t - 1 \in known..total
          /\ t - known \in 1..Len(b.turns)
      BY <1>1, <1>4, <2>14
    <3>2. f[t] \in 0..b.n /\ f[t - 1] \in 0..b.n /\ b.turns[t - known] \in Nat
      BY <1>1, <2>8, <3>1
    <3>3. cut[t] = n + f[t] /\ cut[t - 1] = n + f[t - 1]
      BY <3>1
    <3> DEFINE x == f[t - 1]
               y == f[t]
               k == held.turns[t].count
    <3>4. y = x + k /\ k = b.turns[t - known]
      BY <2>5, <2>6, <2>7
    <3>5. /\ k = 0 => held.turns[t].first = 0
          /\ k > 0 => held.turns[t].first = n + x + 1
                      /\ held.turns[t].last = n + y
      BY <2>6, <2>7
    <3>6. x \in Nat /\ y \in Nat /\ k \in Nat
      BY <1>1, <3>2, <3>4
    <3> HIDE DEF x, y, k, cut
    <3>7. cut[t] = n + y /\ cut[t - 1] = n + x
      BY <3>3 DEF x, y
    <3>8. held.turns[t].count = k
      BY DEF k
    <3>9. CASE k = 0
      BY <1>4, <3>4, <3>5, <3>6, <3>7, <3>9 DEF Piece
    <3>10. CASE k > 0
      <4>1. n + x < n + y /\ (n + y) - (n + x) = k
        BY <1>4, <3>4, <3>6, <3>10
      <4> QED
        BY <3>4, <3>5, <3>7, <3>8, <3>10, <4>1 DEF Piece
    <3> QED
      BY <3>6, <3>9, <3>10
  <2> HIDE DEF cut
  <2>12. TilesNew(cut, cur, held)
    BY <2>9, <2>10, <2>11 DEF TilesNew, known, total, n, m
  <2>13. Counting(b) => total > known /\ cut[total - 1] < cut[total]
    <3>1. total \in (known + 1)..total /\ total - known \in 1..Len(b.turns)
          /\ total > known
      BY <1>1, <1>2, <1>4, <2>3, <2>7
    <3> QED
      BY <2>11, <3>1 DEF Counting
  <2> QED
    BY <2>12, <2>13 DEF total, known
<1> QED
  BY <1>1, <1>6, <1>7, <1>8

-----------------------------------------------------------------------------
(* Turns and snapshots are numbered                                        *)

(* What holds of the empty ledger, and is kept by a save of the ledger as  *)
(* it is, holds of every ledger that is ever stored.                       *)
LEMMA StoreStep ==
  ASSUME NEW G \in SUBSET Ledger, EmptyLedger \in G,
         \A cur \in G, b \in Batches, r \in Nat, held \in Ledger :
           SaveOf(held, cur, cur, b, r) => held \in G,
         TypeOK, IInv, SaveInv, [QuietNext]_vars,
         \A s \in Sessions : store[s] \in G
  PROVE  \A s \in Sessions : store'[s] \in G
<1>1. ASSUME NEW s \in Sessions, NEW l \in G,
             store' = [store EXCEPT ![s] = l]
      PROVE  \A t \in Sessions : store'[t] \in G
  BY <1>1 DEF TypeOK
<1>2. ASSUME NEW c \in Clients, Flow(c)
      PROVE  \A s \in Sessions : store'[s] \in G
  <2>1. CASE CommitNew(c)
    <3>1. pc[c] = "commitNew" /\ store' = [store EXCEPT ![on[c]] = data[c]]
      BY <2>1 DEF CommitNew, Store
    <3>2. on[c] \in Sessions /\ data[c] = EmptyLedger
      BY <3>1 DEF TypeOK, SaveInv, HeldFrom
    <3> QED
      BY <1>1, <3>1, <3>2
  <2>2. CASE CommitSave(c)
    <3>1. /\ pc[c] = "commit" /\ Acceptable(c)
          /\ store' = [store EXCEPT ![on[c]] = data[c]]
      BY <2>2 DEF CommitSave, Store
    <3>2. on[c] \in Sessions /\ run[c] \in Nat /\ data[c] \in Ledger
      BY <3>1 DEF TypeOK
    <3>3. PICK b \in Batches : SaveOf(data[c], store[on[c]], store[on[c]], b,
                                      run[c])
      BY <3>1, Serial
    <3>4. data[c] \in G
      BY <3>2, <3>3
    <3> QED
      BY <1>1, <3>1, <3>2, <3>4
  <2>3. CASE UNCHANGED store
    BY <2>3
  <2> QED
    BY <1>2, <2>1, <2>2, <2>3
    DEF Flow, Load, LoadMissing, LoadFails, Start, RunLoop, SaveTruncates,
        SaveMismatch, PrepareSave, SaveRejected, Abort, storeVars
<1>3. ASSUME NEW s \in Sessions, DeleteSession(s)
      PROVE  \A t \in Sessions : store'[t] \in G
  BY <1>1, <1>3 DEF DeleteSession, Store
<1>4. CASE UNCHANGED vars
  BY <1>4 DEF vars
<1> QED
  BY <1>2, <1>3, <1>4 DEF QuietNext

Counted(l) == Positions(l.msgs) /\ Positions(l.turns) /\ Positions(l.snaps)

LEMMA PositionsExtend ==
  ASSUME NEW old, NEW new, Len(old) \in Nat, Len(new) \in Nat,
         Prefix(old, new), Positions(old), Numbers(new, Len(old))
  PROVE  Positions(new)
<1>1. ASSUME NEW i \in 1..Len(new) PROVE new[i].seq = i
  <2>1. CASE i \in 1..Len(old)
    BY <2>1 DEF Prefix, Positions
  <2>2. CASE i \notin 1..Len(old)
    BY <2>2 DEF Numbers
  <2> QED
    BY <2>1, <2>2
<1> QED
  BY <1>1 DEF Positions

LEMMA PositionsLast ==
  ASSUME NEW items, Len(items) \in Nat, Positions(items),
         items = <<>> <=> Len(items) = 0
  PROVE  LastSequence(items) = Len(items)
<1>1. CASE items = <<>>
  BY <1>1 DEF LastSequence
<1>2. CASE items # <<>>
  <2>1. Len(items) \in 1..Len(items)
    BY <1>2
  <2> QED
    BY <1>2, <2>1 DEF LastSequence, Positions
<1> QED
  BY <1>1, <1>2

LEMMA CountedKept ==
  ASSUME TurnsHaveMessages, NEW cur \in Ledger, Counted(cur),
         NEW b \in Batches, NEW r \in Nat, NEW held \in Ledger,
         SaveOf(held, cur, cur, b, r)
  PROVE  Counted(held)
<1> DEFINE new == WithBatch(cur, b, r)
<1>1. ~Truncates(cur, new) /\ b.n \in Nat /\ b.turns \in Seq(Nat)
  BY LedgerAssumption DEF SaveOf
<1>2. /\ new \in Ledger /\ Len(new.msgs) = Len(cur.msgs) + b.n
      /\ Prefix(cur.turns, new.turns) /\ new.snaps = cur.snaps
      /\ Len(new.turns) = Len(cur.turns) + Len(b.turns)
      /\ \A i \in (Len(cur.turns) + 1)..Len(new.turns) :
           new.turns[i] = NewTurn(r, i, b.turns[i - Len(cur.turns)])
  BY WithBatchParts
<1>3. /\ Positions(held.msgs) /\ Len(held.msgs) = Len(cur.msgs) + b.n
      /\ b.n = 0 => held.turns = new.turns /\ held.snaps = new.snaps
      /\ b.n > 0 =>
           /\ held.turns = NewTurns(cur, new, held.msgs, r)
           /\ held.snaps = NewSnapshots(cur, new, held.msgs, held.turns, r)
  BY SaveShape DEF Counted
<1>4. Within(cur, held)
  BY SaveExtends
<1>5. \A i, x : NewTurn(r, i, x).seq = 0
  BY DEF NewTurn
<1> HIDE DEF new
<1>6. /\ Len(cur.msgs) \in Nat /\ Len(cur.turns) \in Nat
      /\ Len(cur.snaps) \in Nat /\ Len(held.turns) \in Nat
      /\ Len(held.snaps) \in Nat /\ Len(new.turns) \in Nat
  BY <1>2, LedgerLengths
<1>7. CASE b.n = 0
  <2>1. Len(b.turns) = 0
    BY <1>7 DEF TurnsHaveMessages
  <2>2. Len(new.turns) = Len(cur.turns)
    BY <1>2, <1>6, <2>1
  <2>3. /\ Numbers(held.turns, Len(cur.turns))
        /\ Numbers(held.snaps, Len(cur.snaps))
    BY <1>2, <1>3, <1>6, <1>7, <2>2 DEF Numbers
  <2> QED
    BY <1>3, <1>4, <1>6, <2>3, PositionsExtend DEF Counted, Within
<1>8. CASE b.n > 0
  <2>1. /\ LastSequence(cur.turns) = Len(cur.turns)
        /\ LastSequence(cur.snaps) = Len(cur.snaps)
    <3>1. /\ cur.turns = <<>> <=> Len(cur.turns) = 0
          /\ cur.snaps = <<>> <=> Len(cur.snaps) = 0
      BY LedgerFact, EmptySeq
    <3> QED
      BY <1>6, <3>1, PositionsLast DEF Counted
  <2>2. /\ \A i \in (Len(cur.turns) + 1)..Len(new.turns) :
             new.turns[i].seq = 0
        /\ Len(new.turns) >= Len(cur.turns)
        /\ Len(held.msgs) = Len(new.msgs) /\ Len(new.msgs) > Len(cur.msgs)
        /\ held.msgs \in Seq(Message)
    <3>1. \A i \in (Len(cur.turns) + 1)..Len(new.turns) :
            new.turns[i].seq = 0
      <4> SUFFICES ASSUME NEW i \in (Len(cur.turns) + 1)..Len(new.turns)
                   PROVE  new.turns[i].seq = 0
        OBVIOUS
      <4>1. new.turns[i] = NewTurn(r, i, b.turns[i - Len(cur.turns)])
        BY <1>2, Zenon
      <4> QED
        BY <1>5, <4>1, Zenon
    <3>2. Len(new.turns) >= Len(cur.turns)
      BY <1>2, <1>6 DEF Prefix
    <3>3. /\ Len(held.msgs) = Len(cur.msgs) + b.n
          /\ Len(new.msgs) = Len(cur.msgs) + b.n
      BY <1>2, <1>3
    <3>4. Len(new.msgs) > Len(cur.msgs)
      BY <1>1, <1>6, <1>8, <3>3
    <3> QED
      BY <3>1, <3>2, <3>3, <3>4, LedgerFact
  <2>3. Numbers(held.turns, Len(cur.turns))
    BY <1>2, <1>3, <1>8, <2>1, <2>2, NewTurnsNumbered
  <2>4. Numbers(held.snaps, Len(cur.snaps))
    BY <1>2, <1>3, <1>8, <2>1, NewSnapshotsNumbered
  <2> QED
    BY <1>3, <1>4, <1>6, <2>3, <2>4, PositionsExtend DEF Counted, Within
<1> QED
  BY <1>1, <1>7, <1>8

LEMMA CountedEmpty == Counted(EmptyLedger)
BY DEF Counted, Positions, EmptyLedger

LEMMA StoreCounted ==
  ASSUME TurnsHaveMessages
  PROVE  QuietSpec => [](\A s \in Sessions : Counted(store[s]))
<1> DEFINE G == {l \in Ledger : Counted(l)}
           Inv == \A s \in Sessions : store[s] \in G
<1>1. EmptyLedger \in G
  BY CountedEmpty, EmptyLedgerFact
<1>2. \A cur \in G, b \in Batches, r \in Nat, held \in Ledger :
        SaveOf(held, cur, cur, b, r) => held \in G
  BY CountedKept
<1>3. Init => Inv
  BY <1>1 DEF Init
<1>4. TypeOK /\ IInv /\ SaveInv /\ [QuietNext]_vars /\ Inv => Inv'
  <2> HIDE DEF G
  <2>1. G \in SUBSET Ledger
    BY DEF G
  <2> QED
    BY <1>1, <1>2, <2>1, StoreStep
<1>5. Inv => \A s \in Sessions : Counted(store[s])
  OBVIOUS
<1> HIDE DEF Inv
<1> QED
  BY <1>3, <1>4, <1>5, QuietType, Invariant, SaveInvariant, PTL
  DEF QuietSpec

(* Save's numbering of turns and snapshots survives every interleaving of  *)
(* flows too, although a flow holds a turn ledger that others extend: the  *)
(* k-th stored turn, and the k-th snapshot, has Sequence k.                *)
THEOREM TurnsCounted ==
  ASSUME TurnsHaveMessages
  PROVE  QuietSpec => []TurnsNumbered
<1>1. (\A s \in Sessions : Counted(store[s])) => TurnsNumbered
  BY DEF Counted, Positions, TurnsNumbered
<1> QED
  BY <1>1, StoreCounted, PTL

-----------------------------------------------------------------------------
(* Replay *)

(* The messages of a turn are the piece it stands for. *)
LEMMA PieceReplayed ==
  ASSUME NEW l \in Ledger, Positions(l.msgs), NEW turn \in Turn,
         NEW a \in 0..Len(l.msgs), NEW b \in 0..Len(l.msgs),
         Piece(turn, a, b)
  PROVE  /\ a <= b
         /\ MessagesForTurn(l, turn) = SubSeq(l.msgs, a + 1, b)
<1> DEFINE msgs == l.msgs
           at(seq) == {i \in 1..Len(msgs) : msgs[i].seq = seq}
           latest(S) == CHOOSE i \in S : \A j \in S : j <= i
           window == SubSeq(msgs, latest(at(turn.first)),
                            latest(at(turn.last)))
<1>1. msgs \in Seq(Message) /\ Len(msgs) \in Nat /\ a \in Nat /\ b \in Nat
  BY LedgerFact, LenProperties
<1>2. MessagesForTurn(l, turn) =
        IF \/ turn.first = 0 \/ turn.last = 0 \/ turn.last < turn.first
           \/ at(turn.first) = {} \/ at(turn.last) = {}
           \/ latest(at(turn.last)) < latest(at(turn.first))
           \/ turn.count > 0 /\ Len(window) # turn.count
        THEN <<>> ELSE window
  BY DEF MessagesForTurn
<1>3. \A k \in 1..Len(msgs) : at(k) = {k} /\ latest({k}) = k
  <2> TAKE k \in 1..Len(msgs)
  <2>1. at(k) = {k}
    BY DEF Positions
  <2>2. latest({k}) = k
    BY <1>1
  <2> QED
    BY <2>1, <2>2
<1>4. CASE b = a /\ turn.first = 0
  <2>1. MessagesForTurn(l, turn) = <<>>
    BY <1>2, <1>4
  <2>2. SubSeq(msgs, a + 1, b) = <<>>
    BY <1>1, <1>4, SubSeqProperties
  <2> QED
    BY <1>1, <1>4, <2>1, <2>2
<1>5. CASE /\ a < b
           /\ turn.first = a + 1 /\ turn.last = b /\ turn.count = b - a
  <2>1. turn.first \in 1..Len(msgs) /\ turn.last \in 1..Len(msgs)
    BY <1>1, <1>5
  <2> DEFINE starts == at(turn.first)
             ends   == at(turn.last)
             start  == latest(starts)
             end    == latest(ends)
  <2>2. /\ starts = {turn.first} /\ ends = {turn.last}
        /\ start = turn.first /\ end = turn.last
    BY <1>3, <2>1
  <2> HIDE DEF starts, ends, start, end
  <2>3. window = SubSeq(msgs, a + 1, b)
    BY <1>5, <2>2 DEF starts, ends, start, end
  <2>4. Len(SubSeq(msgs, a + 1, b)) = b - a
    BY <1>1, <1>5, SubSeqProperties
  <2> HIDE DEF window
  <2>5. MessagesForTurn(l, turn) = window
    <3>1. ~(turn.first = 0 \/ turn.last = 0 \/ turn.last < turn.first)
      BY <1>1, <1>5
    <3>2. starts # {} /\ ends # {} /\ ~(end < start)
      BY <1>1, <1>5, <2>2
    <3>3. Len(window) = turn.count
      BY <1>5, <2>3, <2>4
    <3> QED
      BY <1>2, <3>1, <3>2, <3>3 DEF starts, ends, start, end
  <2> QED
    BY <1>1, <1>5, <2>3, <2>5
<1> QED
  BY <1>4, <1>5 DEF Piece

LEMMA ConcatType ==
  ASSUME NEW S, NEW p \in Seq(S), NEW s \in Seq(S)
  PROVE  p \o s \in Seq(S) /\ Len(p \o s) = Len(p) + Len(s)
BY ConcatProperties

LEMMA SubSeqJoin ==
  ASSUME NEW S, NEW q \in Seq(S), NEW a \in Nat, NEW b \in Nat,
         a <= b, b <= Len(q)
  PROVE  SubSeq(q, 1, a) \o SubSeq(q, a + 1, b) = SubSeq(q, 1, b)
<1> DEFINE p == SubSeq(q, 1, a)
           s == SubSeq(q, a + 1, b)
           u == SubSeq(q, 1, b)
<1>1. /\ p \in Seq(S) /\ Len(p) = a /\ \A i \in 1..a : p[i] = q[i]
  BY SubSeqProperties
<1>2. /\ s \in Seq(S) /\ Len(s) = b - a
      /\ \A i \in 1..(b - a) : s[i] = q[a + i]
  BY SubSeqProperties
<1>3. /\ u \in Seq(S) /\ Len(u) = b /\ \A i \in 1..b : u[i] = q[i]
  BY SubSeqProperties
<1> HIDE DEF p, s, u
<1>4. p \o s \in Seq(S) /\ Len(p \o s) = b
  <2>1. p \in Seq(S) /\ s \in Seq(S) /\ Len(p) = a /\ Len(s) = b - a
    BY <1>1, <1>2
  <2>2. p \o s \in Seq(S) /\ Len(p \o s) = Len(p) + Len(s)
    BY <2>1, ConcatType, Zenon
  <2> QED
    BY <2>1, <2>2
<1>5. ASSUME NEW i \in 1..b PROVE (p \o s)[i] = q[i]
  <2>1. (p \o s)[i] = IF i <= Len(p) THEN p[i] ELSE s[i - Len(p)]
    BY <1>1, <1>2, <1>4, ConcatProperties
  <2>2. CASE i <= a
    BY <1>1, <2>1, <2>2
  <2>3. CASE ~(i <= a)
    <3>1. i - a \in 1..(b - a) /\ a + (i - a) = i
      BY <2>3
    <3> QED
      BY <1>1, <1>2, <2>1, <2>3, <3>1
  <2> QED
    BY <2>2, <2>3
<1> QED
  BY <1>3, <1>4, <1>5, SeqEqual DEF p, s, u

(* Sequences that are the pieces of another make it up. *)
LEMMA PiecesMakeUp ==
  ASSUME NEW S, NEW q \in Seq(S), NEW n \in Nat,
         NEW cut \in [0..n -> 0..Len(q)], cut[0] = 0, cut[n] = Len(q),
         NEW parts, DOMAIN parts = 1..n, Len(parts) = n,
         n = 0 => parts = <<>>,
         \A t \in 1..n : /\ cut[t - 1] <= cut[t]
                         /\ parts[t] = SubSeq(q, cut[t - 1] + 1, cut[t])
  PROVE  FlattenSeq(parts) = q
<1>1. CASE n = 0
  BY <1>1, EmptySeq, LenProperties DEF FlattenSeq
<1>2. CASE n # 0
  <2> DEFINE whole == [i \in 1..n |-> SubSeq(q, 1, cut[i])]
             def(f) == [i \in 1..n |-> IF i = 1 THEN parts[i]
                                                ELSE f[i - 1] \o parts[i]]
             flatten == CHOOSE f : f = def(f)
  <2>1. FlattenSeq(parts) = flatten[n]
    BY <1>2 DEF FlattenSeq
  <2>2. ASSUME NEW i \in 1..n
        PROVE  whole[i] = IF i = 1 THEN parts[i] ELSE whole[i - 1] \o parts[i]
    <3>1. /\ i \in 0..n /\ i - 1 \in 0..n
          /\ cut[i] \in 0..Len(q) /\ cut[i - 1] \in 0..Len(q)
          /\ cut[i - 1] <= cut[i] /\ Len(q) \in Nat
      BY LenProperties
    <3> DEFINE a == cut[i - 1]
               b == cut[i]
    <3>5. a \in Nat /\ b \in Nat /\ a <= b /\ b <= Len(q)
      BY <3>1
    <3> HIDE DEF a, b
    <3>2. parts[i] = SubSeq(q, cut[i - 1] + 1, cut[i])
      OBVIOUS
    <3>3. CASE i = 1
      <4>1. cut[i - 1] + 1 = 1
        BY <3>3
      <4> QED
        BY <3>2, <3>3, <4>1
    <3>4. CASE i # 1
      <4>1. i - 1 \in 1..n
        BY <3>4
      <4>2. SubSeq(q, 1, cut[i - 1]) \o SubSeq(q, cut[i - 1] + 1, cut[i])
              = SubSeq(q, 1, cut[i])
        BY <3>5, SubSeqJoin DEF a, b
      <4> QED
        BY <3>2, <3>4, <4>1, <4>2
    <3> QED
      BY <3>3, <3>4
  <2>3. whole = def(whole)
    <3> HIDE DEF whole
    <3>1. whole = [i \in 1..n |-> whole[i]]
      BY DEF whole
    <3> QED
      BY <2>2, <3>1
  <2>4. flatten = def(flatten)
    <3> HIDE DEF whole, def
    <3> QED
      BY <2>3
  <2> HIDE DEF flatten
  <2>5. \A i \in 1..n : flatten[i] = IF i = 1 THEN parts[i]
                                     ELSE flatten[i - 1] \o parts[i]
    BY <2>4
  <2> HIDE DEF whole, def
  <2> DEFINE Same == {i \in Nat : i + 1 \in 1..n =>
                                    flatten[i + 1] = whole[i + 1]}
  <2>6. 0 \in Same
    <3>1. 1 \in 1..n
      BY <1>2
    <3>2. flatten[1] = parts[1] /\ whole[1] = parts[1]
      BY <2>2, <2>5, <3>1
    <3> QED
      BY <3>2
  <2>7. ASSUME NEW i \in Nat, i \in Same PROVE i + 1 \in Same
    <3> SUFFICES ASSUME i + 2 \in 1..n
                 PROVE  flatten[i + 2] = whole[i + 2]
      OBVIOUS
    <3>1. i + 1 \in 1..n /\ i + 2 # 1 /\ (i + 2) - 1 = i + 1
      OBVIOUS
    <3>2. flatten[i + 1] = whole[i + 1]
      BY <2>7, <3>1
    <3>3. /\ flatten[i + 2] = flatten[i + 1] \o parts[i + 2]
          /\ whole[i + 2] = whole[i + 1] \o parts[i + 2]
      BY <2>2, <2>5, <3>1
    <3> QED
      BY <3>2, <3>3
  <2>8. Nat \subseteq Same
    <3> HIDE DEF Same
    <3> QED
      BY <2>6, <2>7, Induct
  <2>9. n \in 1..n /\ n - 1 \in Nat /\ (n - 1) + 1 = n
    BY <1>2
  <2>10. flatten[n] = whole[n]
    BY <2>8, <2>9
  <2>11. whole[n] = SubSeq(q, 1, Len(q))
    BY <2>9 DEF whole
  <2>12. SubSeq(q, 1, Len(q)) = q
    <3>1. /\ SubSeq(q, 1, Len(q)) \in Seq(S)
          /\ Len(SubSeq(q, 1, Len(q))) = Len(q)
          /\ \A i \in 1..Len(q) : SubSeq(q, 1, Len(q))[i] = q[i]
      BY SubSeqProperties, LenProperties
    <3> QED
      BY <3>1, SeqEqual
  <2> QED
    BY <2>1, <2>10, <2>11, <2>12
<1> QED
  BY <1>1, <1>2

LEMMA TiledReplays ==
  ASSUME NEW l \in Ledger, Positions(l.msgs), Tiled(l)
  PROVE  FlattenSeq([t \in 1..Len(l.turns) |-> MessagesForTurn(l, l.turns[t])])
           = l.msgs
<1> DEFINE n == Len(l.turns)
           q == l.msgs
           parts == [t \in 1..n |-> MessagesForTurn(l, l.turns[t])]
<1>1. /\ n \in Nat /\ q \in Seq(Message) /\ l.turns \in Seq(Turn)
  BY LedgerFact, LedgerLengths
<1>2. PICK cut : Tiles(cut, l)
  BY DEF Tiled
<1>3. /\ cut \in [0..n -> 0..Len(q)] /\ cut[0] = 0 /\ cut[n] = Len(q)
      /\ \A t \in 1..n : Piece(l.turns[t], cut[t - 1], cut[t])
  BY <1>2 DEF Tiles
<1>4. ASSUME NEW t \in 1..n
      PROVE  /\ cut[t - 1] <= cut[t]
             /\ parts[t] = SubSeq(q, cut[t - 1] + 1, cut[t])
  <2>1. t \in 0..n /\ t - 1 \in 0..n
    BY <1>1
  <2>2. l.turns[t] \in Turn
    BY <1>1
  <2>3. parts[t] = MessagesForTurn(l, l.turns[t])
    OBVIOUS
  <2>4. Piece(l.turns[t], cut[t - 1], cut[t])
    BY <1>3
  <2> HIDE DEF parts, n
  <2>5. cut[t] \in 0..Len(q) /\ cut[t - 1] \in 0..Len(q)
    BY <1>3, <2>1
  <2> QED
    BY <2>2, <2>3, <2>4, <2>5, PieceReplayed
<1>5. /\ DOMAIN parts = 1..n /\ Len(parts) = n /\ (n = 0 => parts = <<>>)
  BY <1>1
<1> HIDE DEF parts, n, q
<1>6. FlattenSeq(parts) = q
  BY <1>1, <1>3, <1>4, <1>5, PiecesMakeUp
<1> QED
  BY <1>6 DEF parts, n, q

Replayable(l) == Positions(l.msgs) /\ Tiled(l)

LEMMA ReplayableEmpty == Replayable(EmptyLedger)
<1> DEFINE cut == [t \in 0..0 |-> 0]
<1>1. Tiles(cut, EmptyLedger)
  BY DEF Tiles, EmptyLedger
<1>2. Tiled(EmptyLedger)
  BY <1>1 DEF Tiled
<1> QED
  BY <1>2 DEF Replayable, Positions, EmptyLedger

LEMMA ReplayableKept ==
  ASSUME NEW cur \in Ledger, Replayable(cur), NEW b \in Batches,
         NEW r \in Nat, NEW held \in Ledger, SaveOf(held, cur, cur, b, r)
  PROVE  Replayable(held)
<1>1. Positions(cur.msgs) /\ Tiled(cur)
  BY DEF Replayable
<1>2. Positions(held.msgs)
  BY <1>1, SaveShape
<1>3. Within(cur, held)
  BY SaveExtends
<1>4. PICK cut : TilesNew(cut, cur, held)
  BY <1>1, SaveTiles
<1>5. Tiled(held)
  BY <1>1, <1>3, <1>4, TiledExtends
<1> QED
  BY <1>2, <1>5 DEF Replayable

LEMMA StoreReplayable ==
  QuietSpec => [](\A s \in Sessions : Replayable(store[s]))
<1> DEFINE G == {l \in Ledger : Replayable(l)}
           Inv == \A s \in Sessions : store[s] \in G
<1>1. EmptyLedger \in G
  BY ReplayableEmpty, EmptyLedgerFact
<1>2. \A cur \in G, b \in Batches, r \in Nat, held \in Ledger :
        SaveOf(held, cur, cur, b, r) => held \in G
  BY ReplayableKept
<1>3. Init => Inv
  BY <1>1 DEF Init
<1>4. TypeOK /\ IInv /\ SaveInv /\ [QuietNext]_vars /\ Inv => Inv'
  <2> HIDE DEF G
  <2>1. G \in SUBSET Ledger
    BY DEF G
  <2> QED
    BY <1>1, <1>2, <2>1, StoreStep
<1>5. Inv => \A s \in Sessions : Replayable(store[s])
  OBVIOUS
<1> HIDE DEF Inv
<1> QED
  BY <1>3, <1>4, <1>5, QuietType, Invariant, SaveInvariant, PTL
  DEF QuietSpec

(* However flows race and whatever turns an agent loop reports, the        *)
(* windows of the stored turns are the stored messages, each once.         *)
THEOREM TurnsReplay == QuietSpec => []TurnsReplayHistory
<1>1. ASSUME TypeOK, \A s \in Sessions : Replayable(store[s])
      PROVE  TurnsReplayHistory
  <2>1. ASSUME NEW s \in Sessions
        PROVE  LET l == store[s]
               IN FlattenSeq([t \in 1..Len(l.turns) |->
                                MessagesForTurn(l, l.turns[t])]) = l.msgs
    <3>1. store[s] \in Ledger
      BY <1>1 DEF TypeOK
    <3> QED
      BY <1>1, <3>1, TiledReplays DEF Replayable
  <2> QED
    BY <2>1 DEF TurnsReplayHistory
<1> QED
  BY <1>1, StoreReplayable, QuietType, PTL

-----------------------------------------------------------------------------
(* Snapshots *)

(* A turn record of an agent loop counts the messages of a turn, of which  *)
(* there is at least the user's.                                           *)
TurnsCount == \A b \in Batches : Counting(b)

Marked(l) ==
  /\ \A k \in 1..Len(l.snaps) :
       \E t \in 1..Len(l.turns) :
         /\ l.snaps[k].turn = l.turns[t].seq
         /\ l.snaps[k].messages = l.turns[t].last
  /\ l.msgs # <<>> =>
       /\ l.snaps # <<>>
       /\ l.snaps[Len(l.snaps)].messages = Len(l.msgs)
       /\ l.snaps[Len(l.snaps)].turn = LastSequence(l.turns)

LEMMA MarkedEmpty == Marked(EmptyLedger)
BY DEF Marked, EmptyLedger

LEMMA MarkedKept ==
  ASSUME TurnsHaveMessages, TurnsCount, NEW cur \in Ledger,
         Positions(cur.msgs), Marked(cur),
         NEW b \in Batches, NEW r \in Nat, NEW held \in Ledger,
         SaveOf(held, cur, cur, b, r)
  PROVE  Marked(held)
<1> DEFINE new == WithBatch(cur, b, r)
           total == Len(held.turns)
           known == Len(cur.turns)
<1>1. b.n \in Nat /\ b.turns \in Seq(Nat)
  BY LedgerAssumption
<1>2. /\ new \in Ledger /\ new.snaps = cur.snaps
      /\ Prefix(cur.turns, new.turns)
      /\ Len(new.turns) = known + Len(b.turns)
  BY WithBatchParts
<1>3. /\ b.n = 0 => /\ held.msgs = cur.msgs /\ held.turns = new.turns
                    /\ held.snaps = new.snaps
      /\ b.n > 0 => held.snaps =
                      NewSnapshots(cur, new, held.msgs, held.turns, r)
  BY SaveShape
<1>4. Prefix(cur.turns, held.turns) /\ Prefix(cur.snaps, held.snaps)
  BY SaveExtends DEF Within
<1> HIDE DEF new
<1>5. /\ total \in Nat /\ known \in Nat /\ known <= total
      /\ held.turns \in Seq(Turn) /\ cur.turns \in Seq(Turn)
  BY <1>4, LedgerFact, LedgerLengths DEF Prefix
<1>6. CASE b.n = 0
  <2>1. Len(b.turns) = 0
    BY <1>6 DEF TurnsHaveMessages
  <2>2. Len(new.turns) <= Len(cur.turns)
    BY <1>2, <1>5, <2>1
  <2>3. new.turns = cur.turns
    BY <1>2, <1>5, <2>2, PrefixEqual, LedgerFact
  <2>4. /\ held.msgs = cur.msgs /\ held.turns = cur.turns
        /\ held.snaps = cur.snaps
    BY <1>2, <1>3, <1>6, <2>3
  <2> HIDE DEF total, known
  <2> QED
    BY <2>4 DEF Marked
<1>7. CASE b.n > 0
  <2> DEFINE snap == [id       |-> <<r, Len(cur.snaps) + 1>>,
                      seq      |-> LastSequence(cur.snaps) + 1,
                      messages |-> Len(held.msgs),
                      turn     |-> held.turns[total].seq]
             old == cur.snaps
             snaps == held.snaps
             n == Len(old)
  <2>1. snaps = Append(old, snap)
    BY <1>2, <1>3, <1>7 DEF NewSnapshots
  <2>2. snap.messages = Len(held.msgs) /\ snap.turn = held.turns[total].seq
    OBVIOUS
  <2>3. old \in Seq(Snapshot) /\ n \in Nat
    BY LedgerFact, LedgerLengths
  <2> HIDE DEF snap, old, snaps, n
  <2>4. Prefix(old, snaps) /\ Len(snaps) = n + 1 /\ snaps[n + 1] = snap
    BY <2>1, <2>3, AppendPrefix DEF n
  <2>5. PICK cut : /\ TilesNew(cut, cur, held)
                   /\ total > known /\ cut[total - 1] < cut[total]
    BY <1>7, SaveTiles DEF TurnsCount
  <2>6. total \in (known + 1)..total /\ total \in 1..total /\ total # 0
    BY <1>5, <2>5
  <2>7. held.turns[total].last = Len(held.msgs)
    <3>1. Piece(held.turns[total], cut[total - 1], cut[total])
          /\ cut[total] = Len(held.msgs)
          /\ cut \in [known..total -> Len(cur.msgs)..Len(held.msgs)]
      BY <2>5, <2>6 DEF TilesNew
    <3>2. total \in known..total /\ total - 1 \in known..total
      BY <1>5, <2>6
    <3>3. cut[total] \in Len(cur.msgs)..Len(held.msgs)
          /\ cut[total - 1] \in Len(cur.msgs)..Len(held.msgs)
          /\ Len(cur.msgs) \in Nat /\ Len(held.msgs) \in Nat
      BY <3>1, <3>2, LedgerLengths
    <3>4. cut[total - 1] # cut[total]
      BY <2>5, <3>3
    <3> QED
      BY <3>1, <3>4 DEF Piece
  <2>8. LastSequence(held.turns) = held.turns[total].seq
    <3>1. held.turns # <<>>
      BY <1>5, <2>6, EmptySeq
    <3> QED
      BY <3>1 DEF LastSequence
  <2>9. ASSUME NEW k \in 1..Len(snaps)
        PROVE  \E t \in 1..total :
                 /\ snaps[k].turn = held.turns[t].seq
                 /\ snaps[k].messages = held.turns[t].last
    <3>1. CASE k \in 1..n
      <4>1. snaps[k] = old[k]
        BY <2>4, <3>1 DEF Prefix, n
      <4>2. PICK t \in 1..known : /\ old[k].turn = cur.turns[t].seq
                                  /\ old[k].messages = cur.turns[t].last
        BY <3>1 DEF Marked, old, n
      <4>3. t \in 1..total /\ held.turns[t] = cur.turns[t]
        BY <1>4, <1>5 DEF Prefix
      <4> QED
        BY <4>1, <4>2, <4>3
    <3>2. CASE k \notin 1..n
      <4>1. k = n + 1
        BY <2>3, <2>4, <3>2
      <4> QED
        BY <2>2, <2>4, <2>6, <2>7, <4>1
    <3> QED
      BY <3>1, <3>2
  <2>10. snaps # <<>> /\ snaps[Len(snaps)] = snap
    <3>1. Len(snaps) # 0
      BY <2>3, <2>4
    <3>2. snaps # <<>>
      BY <3>1, LenProperties, EmptySeq
    <3> QED
      BY <2>4, <3>2
  <2> QED
    BY <2>2, <2>8, <2>9, <2>10 DEF Marked, snaps
<1> QED
  BY <1>1, <1>6, <1>7

LEMMA StoreMarked ==
  ASSUME TurnsHaveMessages, TurnsCount
  PROVE  QuietSpec => [](\A s \in Sessions : Marked(store[s]))
<1> DEFINE G == {l \in Ledger : Positions(l.msgs) /\ Marked(l)}
           Inv == \A s \in Sessions : store[s] \in G
<1>1. EmptyLedger \in G
  BY CountedEmpty, MarkedEmpty, EmptyLedgerFact DEF Counted
<1>2. \A cur \in G, b \in Batches, r \in Nat, held \in Ledger :
        SaveOf(held, cur, cur, b, r) => held \in G
  <2> SUFFICES ASSUME NEW cur \in G, NEW b \in Batches, NEW r \in Nat,
                      NEW held \in Ledger, SaveOf(held, cur, cur, b, r)
               PROVE  held \in G
    OBVIOUS
  <2>1. cur \in Ledger /\ Positions(cur.msgs) /\ Marked(cur)
    OBVIOUS
  <2>2. Positions(held.msgs)
    BY <2>1, SaveShape
  <2>3. Marked(held)
    BY <2>1, MarkedKept
  <2> QED
    BY <2>2, <2>3
<1>3. Init => Inv
  BY <1>1 DEF Init
<1>4. TypeOK /\ IInv /\ SaveInv /\ [QuietNext]_vars /\ Inv => Inv'
  <2> HIDE DEF G
  <2>1. G \in SUBSET Ledger
    BY DEF G
  <2> QED
    BY <1>1, <1>2, <2>1, StoreStep
<1>5. Inv => \A s \in Sessions : Marked(store[s])
  OBVIOUS
<1> HIDE DEF Inv
<1> QED
  BY <1>3, <1>4, <1>5, QuietType, Invariant, SaveInvariant, PTL
  DEF QuietSpec

(* Every stored snapshot marks the end of a stored turn, and the latest    *)
(* one the end of the history, if no agent loop reports a turn without     *)
(* messages.                                                               *)
THEOREM SnapshotsMark ==
  ASSUME TurnsHaveMessages, TurnsCount
  PROVE  QuietSpec => []SnapshotsMarkTurns
<1>1. (\A s \in Sessions : Marked(store[s])) => SnapshotsMarkTurns
  BY DEF Marked, SnapshotsMarkTurns
<1> QED
  BY <1>1, StoreMarked, PTL

-----------------------------------------------------------------------------
(* Conflicts *)

LEMMA ExtensionKept ==
  ASSUME NEW S, NEW old \in Seq(S), NEW new \in Seq(S), Prefix(old, new)
  PROVE  KeepsPrefix(old, new)
BY LenProperties DEF Prefix, KeepsPrefix

LEMMA PositionsIncrease ==
  ASSUME NEW items, Len(items) \in Nat, Positions(items)
  PROVE  StrictlyIncreasing(items)
BY DEF Positions, StrictlyIncreasing

(* A client that saves what it made of the ledger as it is is not refused. *)
LEMMA WholeAccepted ==
  ASSUME TurnsHaveMessages, TypeOK, SaveInv, NEW c \in Clients,
         \A s \in Sessions : Counted(store[s]), view[c] = "whole"
  PROVE  /\ pc[c] \in {"create", "save"} => ~Truncates(store[on[c]], data[c])
         /\ pc[c] \in {"commitNew", "commit"} => Acceptable(c)
<1> DEFINE cur == store[on[c]]
           held == data[c]
           r == run[c]
<1>1. pc[c] # "idle" => on[c] \in Sessions /\ cur \in Ledger
  BY DEF TypeOK
<1>2. held \in Ledger /\ r \in Nat
  BY DEF TypeOK
<1>3. pc[c] # "idle" => HeldFrom(pc[c], TRUE, held, cur, r)
  BY DEF SaveInv
<1>4. pc[c] \in {"create", "commitNew"} =>
        held = EmptyLedger /\ cur = EmptyLedger
  BY <1>3 DEF HeldFrom
<1>5. pc[c] = "create" => ~Truncates(cur, held)
  BY <1>4 DEF Truncates, EmptyLedger
<1>6. pc[c] = "commitNew" => validateAppendOnlyState(cur, held)
  BY <1>4 DEF validateAppendOnlyState, KeepsPrefix, StrictlyIncreasing,
              EmptyLedger
<1>7. ASSUME pc[c] = "save" PROVE ~Truncates(cur, held)
  <2> HIDE DEF cur, held, r
  <2>1. cur \in Ledger
    BY <1>1, <1>7
  <2>2. PICK b \in Batches : held = WithBatch(cur, b, r)
    BY <1>3, <1>7 DEF HeldFrom
  <2>3. /\ Prefix(cur.msgs, held.msgs) /\ Prefix(cur.turns, held.turns)
        /\ held.snaps = cur.snaps
    BY <1>2, <2>1, <2>2, WithBatchParts
  <2> QED
    BY <1>2, <2>1, <2>3, LedgerLengths DEF Truncates, Prefix
<1>8. ASSUME pc[c] = "commit" PROVE validateAppendOnlyState(cur, held)
  <2>1. cur \in Ledger /\ Counted(cur)
    BY <1>1, <1>8
  <2> HIDE DEF cur, held, r
  <2>2. PICK b \in Batches : SaveOf(held, cur, cur, b, r)
    BY <1>3, <1>8 DEF HeldFrom
  <2>3. Within(cur, held)
    BY <1>2, <2>1, <2>2, SaveExtends
  <2>4. Counted(held)
    BY <1>2, <2>1, <2>2, CountedKept
  <2>5. /\ KeepsPrefix(cur.msgs, held.msgs)
        /\ KeepsPrefix(cur.turns, held.turns)
        /\ KeepsPrefix(cur.snaps, held.snaps)
    BY <1>2, <2>1, <2>3, LedgerFact, ExtensionKept DEF Within
  <2>6. /\ StrictlyIncreasing(held.msgs) /\ StrictlyIncreasing(held.turns)
        /\ StrictlyIncreasing(held.snaps)
    BY <1>2, <2>4, LedgerLengths, PositionsIncrease DEF Counted
  <2> QED
    BY <2>5, <2>6 DEF validateAppendOnlyState
<1> QED
  BY <1>5, <1>6, <1>7, <1>8 DEF Acceptable

LEMMA ConflictStep ==
  ASSUME TurnsHaveMessages, TypeOK, SaveInv,
         \A s \in Sessions : Counted(store[s]),
         ConflictMeansStale, [QuietNext]_vars
  PROVE  ConflictMeansStale'
<1>1. ASSUME NEW c \in Clients, NEW result, Return(c, result),
             UNCHANGED view, result = "conflict" => view[c] # "whole"
      PROVE  ConflictMeansStale'
  BY <1>1 DEF Return, TypeOK, ConflictMeansStale
<1>2. ASSUME NEW s, NEW l, NEW except, Store(s, l, except),
             NEW c, \A d \in Clients : outcome'[d] = "conflict" =>
                                         outcome[d] = "conflict"
      PROVE  ConflictMeansStale'
  BY <1>2 DEF Store, TypeOK, ConflictMeansStale
<1>3. ASSUME NEW c \in Clients, Flow(c)
      PROVE  ConflictMeansStale'
  <2>1. ASSUME NEW s \in Sessions, NEW next, NEW state, NEW loaded,
               Start(c, s, next, state, loaded)
        PROVE  ConflictMeansStale'
    BY <2>1 DEF Start, TypeOK, ConflictMeansStale
  <2>2. ASSUME NEW s \in Sessions,
               Load(c, s) \/ LoadMissing(c, s) \/ LoadFails(c, s)
        PROVE  ConflictMeansStale'
    BY <2>1, <2>2 DEF Load, LoadMissing, LoadFails
  <2>3. ASSUME NEW b \in Batches, RunLoop(c, b) PROVE ConflictMeansStale'
    BY <2>3 DEF RunLoop, ConflictMeansStale
  <2>4. CASE SaveTruncates(c)
    BY <1>1, <2>4, WholeAccepted DEF SaveTruncates
  <2>5. CASE SaveMismatch(c)
    BY <1>1, <2>5 DEF SaveMismatch
  <2>6. CASE PrepareSave(c)
    BY <2>6 DEF PrepareSave, ConflictMeansStale
  <2>7. CASE SaveRejected(c)
    BY <1>1, <2>7, WholeAccepted DEF SaveRejected
  <2>8. CASE CommitNew(c)
    BY <1>2, <2>8 DEF CommitNew
  <2>9. CASE CommitSave(c)
    <3>1. \A d \in Clients : outcome'[d] = "conflict" =>
                               outcome[d] = "conflict"
      BY <2>9 DEF CommitSave, Return, TypeOK
    <3> QED
      BY <1>2, <2>9, <3>1 DEF CommitSave
  <2>10. CASE Abort(c)
    BY <1>1, <2>10 DEF Abort
  <2> QED
    BY <1>3, <2>2, <2>3, <2>4, <2>5, <2>6, <2>7, <2>8, <2>9, <2>10 DEF Flow
<1>4. ASSUME NEW s \in Sessions, DeleteSession(s)
      PROVE  ConflictMeansStale'
  BY <1>2, <1>4 DEF DeleteSession
<1>5. CASE UNCHANGED vars
  BY <1>5 DEF vars, ConflictMeansStale
<1> QED
  BY <1>3, <1>4, <1>5 DEF QuietNext

(* A save is refused as a conflict only if there was one: the client had   *)
(* loaded a part of the ledger, or somebody else has changed it since.     *)
THEOREM ConflictsReal ==
  ASSUME TurnsHaveMessages
  PROVE  QuietSpec => []ConflictMeansStale
<1>1. Init => ConflictMeansStale
  BY DEF Init, ConflictMeansStale
<1>2. /\ TypeOK /\ SaveInv /\ (\A s \in Sessions : Counted(store[s]))
      /\ ConflictMeansStale /\ [QuietNext]_vars
      => ConflictMeansStale'
  BY ConflictStep
<1> QED
  BY <1>1, <1>2, StoreCounted, QuietType, SaveInvariant, PTL DEF QuietSpec

-----------------------------------------------------------------------------
(* Refinement *)

(* The log a ledger stands for: the IDs of its messages. *)
IDs(l) == [i \in 1..Len(l.msgs) |-> l.msgs[i].id]

LEMMA IDsOfEmpty ==
  ASSUME NEW l, l.msgs = <<>>
  PROVE  IDs(l) = <<>>
BY DEF IDs

LEMMA LogInit == Init => Log!Init
BY EmptyLedgerFact DEF Init, Log!Init

(* A save appends the run's whole batch to the log. *)
LEMMA CommitSaveLog ==
  ASSUME TypeOK, IInv, NEW c \in Clients, CommitSave(c)
  PROVE  Log!Next
<1> DEFINE s == on[c]
           old == store[s].msgs
           new == data[c].msgs
           r == run[c]
           n == Len(new) - Len(old)
           oldLog == [t \in Sessions |-> IDs(store[t])]
           newLog == [t \in Sessions |-> IDs(store'[t])]
<1>1. /\ pc[c] = "commit" /\ Acceptable(c)
      /\ store' = [store EXCEPT ![s] = data[c]]
      /\ committed' = committed \cup {r}
  BY DEF CommitSave, Store
<1>2. /\ s \in Sessions
      /\ old \in Seq(Message) /\ new \in Seq(Message)
      /\ Len(old) <= Len(new)
      /\ n \in {b.n : b \in Batches}
      /\ \A i \in 1..Len(old) : new[i].id = old[i].id
      /\ \A i \in (Len(old) + 1)..Len(new) : new[i].id = <<r, i>>
  BY <1>1, CommitFact
<1>3. r \in 1..MaxRuns /\ r \notin committed
  BY <1>1, LedgerAssumption DEF IInv, RunsInv, Saving, TypeOK
<1>4. /\ store'[s] = data[c]
      /\ \A t \in Sessions \ {s} : store'[t] = store[t]
  BY <1>1, <1>2 DEF TypeOK
<1>5. /\ Len(old) \in Nat /\ Len(new) \in Nat /\ n \in Nat
      /\ Len(new) = Len(old) + n
  BY <1>2
<1> HIDE DEF s, old, new, r, n
<1>6. IDs(data[c]) = IDs(store[s]) \o Log!Entries(r, Len(IDs(store[s])), n)
  <2> DEFINE front == [i \in 1..Len(old) |-> old[i].id]
             back  == [i \in 1..n |-> <<r, Len(old) + i>>]
             whole == [i \in 1..Len(new) |-> new[i].id]
  <2>1. /\ IDs(store[s]) = front /\ IDs(data[c]) = whole
        /\ front \in Seq(ID) /\ Len(front) = Len(old)
    <3>1. ASSUME NEW i \in 1..Len(old) PROVE old[i].id \in ID
      <4>1. old[i] \in Message
        BY <1>2
      <4>2. QED BY <4>1 DEF Message
    <3>2. front \in [1..Len(old) -> ID]
      BY <3>1
    <3>3. IDs(store[s]) = front /\ IDs(data[c]) = whole
      BY DEF IDs, old, new
    <3>4. QED BY <1>5, <3>2, <3>3
  <2>2. Log!Entries(r, Len(old), n) = back
    BY DEF Log!Entries
  <2>3. back \in Seq(ID) /\ Len(back) = n
    <3>1. r \in Nat
      BY <1>3
    <3>2. back \in [1..n -> ID]
      BY <1>5, <3>1 DEF ID
    <3>3. QED BY <1>5, <3>2
  <2>4. /\ \A i \in 1..Len(old) : whole[i] = front[i]
        /\ \A i \in 1..n : whole[Len(old) + i] = back[i]
    BY <1>2, <1>5
  <2> DEFINE joined == front \o back
  <2>5. /\ \A i \in 1..Len(old) : joined[i] = front[i]
        /\ \A i \in 1..n : joined[Len(old) + i] = back[i]
        /\ DOMAIN joined = 1..(Len(old) + n)
        /\ joined = [i \in 1..(Len(old) + n) |-> joined[i]]
    <3> HIDE DEF front, back
    <3>1. joined \in Seq(ID) /\ Len(joined) = Len(front) + Len(back)
      BY <2>1, <2>3, ConcatProperties, Zenon
    <3>2. \A i \in 1..Len(joined) :
            joined[i] = IF i <= Len(front) THEN front[i]
                        ELSE back[i - Len(front)]
      BY <2>1, <2>3, ConcatProperties
    <3> HIDE DEF joined
    <3>3. \A i \in 1..Len(old) : joined[i] = front[i]
      BY <1>5, <2>1, <2>3, <3>1, <3>2
    <3>4. ASSUME NEW i \in 1..n PROVE joined[Len(old) + i] = back[i]
      <4>1. /\ Len(old) + i \in 1..Len(joined)
            /\ ~(Len(old) + i <= Len(front))
            /\ (Len(old) + i) - Len(front) = i
        BY <1>5, <2>1, <2>3, <3>1
      <4>2. QED BY <3>2, <4>1
    <3>5. QED BY <1>5, <2>1, <2>3, <3>1, <3>3, <3>4
  <2> HIDE DEF front, back, joined
  <2>6. \A i \in 1..(Len(old) + n) : whole[i] = joined[i]
    <3> TAKE i \in 1..(Len(old) + n)
    <3> HIDE DEF whole
    <3>1. CASE i \in 1..Len(old)
      BY <2>4, <2>5, <3>1
    <3>2. CASE i - Len(old) \in 1..n
      <4>1. i = Len(old) + (i - Len(old))
        BY <1>5
      <4>2. QED BY <2>4, <2>5, <3>2, <4>1
    <3>3. QED BY <1>5, <3>1, <3>2
  <2>7. whole = joined
    BY <1>5, <2>5, <2>6
  <2>8. QED BY <2>1, <2>2, <2>7 DEF joined
<1>7. newLog = [oldLog EXCEPT
                  ![s] = oldLog[s] \o Log!Entries(r, Len(oldLog[s]), n)]
  <2> DEFINE grown == IDs(store[s]) \o Log!Entries(r, Len(IDs(store[s])), n)
  <2>1. newLog[s] = grown
    BY <1>2, <1>4, <1>6
  <2>2. \A t \in Sessions \ {s} : newLog[t] = oldLog[t]
    BY <1>4
  <2>3. oldLog[s] \o Log!Entries(r, Len(oldLog[s]), n) = grown
    BY <1>2
  <2> HIDE DEF grown
  <2>4. QED BY <1>2, <2>1, <2>2, <2>3
<1>8. /\ r \notin committed
      /\ newLog = [oldLog EXCEPT ![s] =
                     oldLog[s] \o Log!Entries(r, Len(oldLog[s]), n)]
      /\ committed' = committed \cup {r}
  BY <1>1, <1>3, <1>7 DEF r
<1>9. \E q \in 1..MaxRuns, m \in {b.n : b \in Batches} :
        /\ q \notin committed
        /\ newLog = [oldLog EXCEPT ![s] =
                       oldLog[s] \o Log!Entries(q, Len(oldLog[s]), m)]
        /\ committed' = committed \cup {q}
  <2> HIDE DEF newLog, oldLog
  <2>1. QED BY <1>2, <1>3, <1>8
<1>10. \E q \in 1..MaxRuns, m \in {b.n : b \in Batches} : Log!Commit(s, q, m)
  BY <1>9 DEF Log!Commit, IDs
<1>11. QED BY <1>2, <1>10 DEF Log!Next

(* Creating a session, deleting one, and any step that is not a save. *)
LEMMA CommitNewLog ==
  ASSUME TypeOK, IInv, NEW c \in Clients, CommitNew(c)
  PROVE  UNCHANGED Log!logVars
<1>1. /\ store' = [store EXCEPT ![on[c]] = data[c]]
      /\ committed' = committed
      /\ pc[c] = "commitNew" /\ Acceptable(c)
  BY DEF CommitNew, Store
<1>2. on[c] \in Sessions
  BY <1>1 DEF TypeOK
<1>3. /\ data[c].msgs = <<>>
      /\ store[on[c]].msgs = <<>>
  <2>1. data[c].msgs = <<>>
    BY <1>1 DEF IInv, HeldInv, HeldBy
  <2>2. CASE on[c] \in live
    <3>1. KeepsPrefix(store[on[c]].msgs, data[c].msgs)
      BY <1>1, <2>2 DEF Acceptable, validateAppendOnlyState
    <3>2. store[on[c]].msgs \in Seq(Message)
      BY <1>2, LedgerFact DEF TypeOK
    <3>3. Len(store[on[c]].msgs) <= 0
      BY <2>1, <3>1 DEF KeepsPrefix
    <3>4. QED BY <2>1, <3>2, <3>3, EmptySeq
  <2>3. CASE on[c] \notin live
    BY <1>2, <2>1, <2>3, EmptyLedgerFact DEF IInv, StoredInv
  <2>4. QED BY <2>2, <2>3
<1>4. \A t \in Sessions : store'[t].msgs = store[t].msgs
  BY <1>1, <1>2, <1>3 DEF TypeOK
<1>5. QED BY <1>1, <1>4 DEF Log!logVars

LEMMA DeleteLog ==
  ASSUME TypeOK, NEW s \in Sessions, DeleteSession(s)
  PROVE  Log!Next
<1> DEFINE oldLog == [t \in Sessions |-> IDs(store[t])]
           newLog == [t \in Sessions |-> IDs(store'[t])]
<1>1. /\ store' = [store EXCEPT ![s] = EmptyLedger]
      /\ committed' = committed
  BY DEF DeleteSession, Store
<1>2. IDs(store'[s]) = <<>>
  BY <1>1, EmptyLedgerFact, IDsOfEmpty DEF TypeOK
<1>3. \A t \in Sessions \ {s} : IDs(store'[t]) = IDs(store[t])
  BY <1>1 DEF TypeOK
<1>4. newLog = [oldLog EXCEPT ![s] = <<>>]
  BY <1>2, <1>3
<1>5. Log!Delete(s)
  BY <1>1, <1>4 DEF Log!Delete, IDs
<1>6. QED BY <1>5 DEF Log!Next

LEMMA LogStep == TypeOK /\ IInv /\ [QuietNext]_vars => [Log!Next]_(Log!logVars)
<1> SUFFICES ASSUME TypeOK, IInv, [QuietNext]_vars
             PROVE  Log!Next \/ UNCHANGED Log!logVars
  OBVIOUS
<1>1. ASSUME NEW c \in Clients, Flow(c)
      PROVE  Log!Next \/ UNCHANGED Log!logVars
  <2>1. CASE CommitSave(c)
    BY <2>1, CommitSaveLog
  <2>2. CASE CommitNew(c)
    BY <2>2, CommitNewLog
  <2>3. ASSUME UNCHANGED <<store, committed>> PROVE UNCHANGED Log!logVars
    BY <2>3 DEF Log!logVars
  <2>4. ASSUME ~CommitSave(c), ~CommitNew(c)
        PROVE  UNCHANGED <<store, committed>>
    BY <1>1, <2>4
    DEF Flow, Load, LoadMissing, LoadFails, Start, RunLoop, SaveTruncates,
        SaveMismatch, PrepareSave, SaveRejected, Abort, storeVars
  <2>5. QED BY <2>1, <2>2, <2>3, <2>4
<1>2. ASSUME NEW s \in Sessions, DeleteSession(s)
      PROVE  Log!Next
  BY <1>2, DeleteLog
<1>3. CASE UNCHANGED vars
  BY <1>3 DEF vars, Log!logVars
<1>4. QED BY <1>1, <1>2, <1>3 DEF QuietNext

(* The session ledger implements the session log: a flow whose Save        *)
(* returned nil put its whole batch at the end of the log, once, and a     *)
(* flow that failed left nothing there, however the flows interleave.      *)
THEOREM Implements == QuietSpec => ImplementsLog
<1>1. Init => Log!Init
  BY LogInit
<1>2. TypeOK /\ IInv /\ [QuietNext]_vars => [Log!Next]_(Log!logVars)
  BY LogStep
<1>3. QED BY <1>1, <1>2, QuietType, Invariant, PTL
  DEF QuietSpec, ImplementsLog, Log!Spec
=============================================================================
