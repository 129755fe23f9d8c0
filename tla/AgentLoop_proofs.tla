-------------------------- MODULE AgentLoop_proofs --------------------------
(***************************************************************************)
(* Proofs about AgentLoop, for every limit on turns and tools: type        *)
(* correctness, that the MessageCounts of a finished run cut its new       *)
(* messages into its turns, and that the tool executions reported with a   *)
(* turn are those its model message asked for.                             *)
(*                                                                         *)
(* The loop derives both from positions alone.  The inductive invariant    *)
(* IInv says where the messages of a run are (RunShape) and how its tool   *)
(* records are cut into model calls (Recorded).                            *)
(***************************************************************************)
EXTENDS AgentLoop, WellFoundedInduction, FiniteSetTheorems, SequenceTheorems,
        TLAPS

-----------------------------------------------------------------------------
(* Induction *)

(* A set that has 0, and n + 1 if it has n, has every natural number.      *)
LEMMA Induct ==
  ASSUME NEW S, 0 \in S, \A n \in Nat : n \in S => n + 1 \in S
  PROVE  Nat \subseteq S
<1> DEFINE Rest == Nat \ S
           R == {ss \in Nat \X Nat : ss[1] < ss[2]}
<1> SUFFICES ASSUME Rest # {} PROVE FALSE
  OBVIOUS
<1>1. IsWellFoundedOn(R, Nat)
  BY NatLessThanWellFounded DEF OpToRel
<1> HIDE DEF R
<1>2. PICK n \in Rest : \A m \in Rest : ~(<<m, n>> \in R)
  BY <1>1, WFMin
<1>3. n # 0 /\ n - 1 \in Nat /\ <<n - 1, n>> \in R
  BY <1>2 DEF R
<1>4. n - 1 \in S
  BY <1>2, <1>3
<1> QED
  BY <1>2, <1>3, <1>4

-----------------------------------------------------------------------------
(* Picked *)

(* The first n values of f are the positions up to m, in increasing order. *)
Enumerates(f, n, positions, m) ==
  /\ n \in Nat /\ f \in [1..n -> 1..m]
  /\ \A j, k \in 1..n : j < k => f[j] < f[k]
  /\ \A i \in 1..m : i \in positions <=> \E k \in 1..n : f[k] = i

(* How many of the positions are not beyond i. *)
Counting(c, f, n, m) ==
  /\ c \in [0..m -> 0..n]
  /\ \A i \in 0..m, k \in 1..n : f[k] <= i <=> k <= c[i]

(* There is such a count, by induction on i. *)
LEMMA Counts ==
  ASSUME NEW m \in Nat, NEW positions, NEW n, NEW f,
         Enumerates(f, n, positions, m)
  PROVE  \E c : Counting(c, f, n, m)
<1> DEFINE Is(i, c) == \A k \in 1..n : f[k] <= i <=> k <= c
           Has == {i \in Nat : \E c \in 0..n : Is(i, c)}
<1> USE DEF Enumerates
<1>1. 0 \in Has
  <2>1. Is(0, 0) /\ 0 \in 0..n
    OBVIOUS
  <2> HIDE DEF Is
  <2> QED
    BY <2>1
<1>2. ASSUME NEW i \in Nat, i \in Has PROVE i + 1 \in Has
  <2>1. PICK c \in 0..n : Is(i, c)
    BY <1>2
  <2>2. CASE \E k \in 1..n : f[k] = i + 1
    <3>1. PICK k \in 1..n : f[k] = i + 1
      BY <2>2
    <3>2. c < k /\ \A j \in 1..n : j < k => f[j] <= i
      BY <2>1, <3>1
    <3>3. \A j \in 1..n : j < k => j <= c
      BY <2>1, <3>2
    <3>4. k = c + 1
      <4>1. k - 1 \in 1..n => k - 1 <= c
        <5> DEFINE j == k - 1
        <5>1. j < k
          OBVIOUS
        <5> HIDE DEF j
        <5>2. j \in 1..n => j <= c
          BY <3>3, <5>1
        <5> QED
          BY <5>2 DEF j
      <4> QED
        BY <3>2, <4>1
    <3>5. Is(i + 1, k)
      BY <2>1, <3>1, <3>4
    <3> HIDE DEF Is
    <3> QED
      BY <3>5
  <2>3. CASE ~\E k \in 1..n : f[k] = i + 1
    <3>1. Is(i + 1, c)
      BY <2>1, <2>3
    <3> HIDE DEF Is
    <3> QED
      BY <3>1
  <2> QED
    BY <2>2, <2>3
<1>3. Nat \subseteq Has
  <2> HIDE DEF Has
  <2> QED
    BY <1>1, <1>2, Induct
<1>4. \A i \in 0..m : \E c \in 0..n : Is(i, c)
  <2> HIDE DEF Is
  <2>1. \A i \in 0..m : i \in Nat
    OBVIOUS
  <2> QED
    BY <1>3, <2>1
<1> DEFINE count == [i \in 0..m |-> CHOOSE c \in 0..n : Is(i, c)]
<1>5. \A i \in 0..m : count[i] \in 0..n /\ Is(i, count[i])
  <2> HIDE DEF Is
  <2> QED
    BY <1>4
<1>6. count \in [0..m -> 0..n]
  <2> HIDE DEF Is
  <2> QED
    BY <1>5
<1>7. Counting(count, f, n, m)
  BY <1>5, <1>6 DEF Counting
<1> HIDE DEF count
<1> QED
  BY <1>7

(* Picked takes the items at the enumerated positions, in their order. *)
LEMMA PickedIs ==
  ASSUME NEW S, NEW items \in Seq(S), NEW positions, NEW n, NEW f,
         Enumerates(f, n, positions, Len(items))
  PROVE  Picked(items, positions) = [k \in 1..n |-> items[f[k]]]
<1> DEFINE m == Len(items)
<1>1. /\ m \in Nat /\ n \in Nat /\ f \in [1..n -> 1..m]
      /\ \A j, k \in 1..n : j < k => f[j] < f[k]
      /\ \A i \in 1..m : i \in positions <=> \E k \in 1..n : f[k] = i
  BY LenProperties DEF Enumerates
<1>2. PICK c : Counting(c, f, n, m)
  <2> HIDE DEF m
  <2>1. Enumerates(f, n, positions, m)
    BY DEF m
  <2> QED
    BY <1>1, <2>1, Counts
<1>3. /\ c \in [0..m -> 0..n]
      /\ \A i \in 0..m, k \in 1..n : f[k] <= i <=> k <= c[i]
  BY <1>2 DEF Counting
<1> DEFINE upto == [i \in 0..m |-> [k \in 1..c[i] |-> items[f[k]]]]
           def(g) == [i \in 0..m |->
                        IF i = 0 THEN <<>>
                        ELSE IF i \in positions
                             THEN Append(g[i - 1], items[i]) ELSE g[i - 1]]
           picked == CHOOSE g : g = def(g)
<1>4. Picked(items, positions) = picked[m]
  BY DEF Picked
<1>5. ASSUME NEW i \in 0..m
      PROVE  upto[i] = IF i = 0 THEN <<>>
                       ELSE IF i \in positions
                            THEN Append(upto[i - 1], items[i])
                            ELSE upto[i - 1]
  <2> HIDE DEF upto, def, picked, m
  <2>1. c[i] \in 0..n
    BY <1>3
  <2>2. CASE i = 0
    <3>1. c[i] = 0
      <4>1. \A k \in 1..n : ~(k <= c[i])
        BY <1>1, <1>3, <2>2
      <4> QED
        BY <2>1, <4>1
    <3>2. upto[i] = [k \in 1..0 |-> items[f[k]]]
      BY <2>2, <3>1 DEF upto
    <3> QED
      BY <2>2, <3>2
  <2>3. CASE i # 0
    <3>1. i \in 1..m /\ i - 1 \in 0..m /\ c[i - 1] \in 0..n
      BY <1>1, <1>3, <2>3
    <3>2. CASE i \in positions
      <4>1. PICK k \in 1..n : f[k] = i
        BY <1>1, <3>1, <3>2
      <4>2. k <= c[i] /\ ~(k <= c[i - 1])
        BY <1>1, <1>3, <3>1, <4>1
      <4>3. \A j \in 1..n : j < k => j <= c[i - 1]
        BY <1>1, <1>3, <3>1, <4>1
      <4>4. \A j \in 1..n : k < j => ~(j <= c[i])
        BY <1>1, <1>3, <3>1, <4>1
      <4>5. c[i] = k
        <5>1. k + 1 \in 1..n => ~(k + 1 <= c[i])
          BY <4>4
        <5> QED
          BY <1>1, <2>1, <4>2, <5>1
      <4>6. c[i - 1] = k - 1
        <5>1. k - 1 \in 1..n => k - 1 <= c[i - 1]
          BY <4>3
        <5>2. k \in 1..n /\ k - 1 \in 0..n /\ n \in Nat
          BY <1>1, <4>1
        <5> QED
          BY <3>1, <4>2, <5>1, <5>2
      <4> DEFINE shorter == [j \in 1..(k - 1) |-> items[f[j]]]
      <4>7. shorter \in Seq(S) /\ Len(shorter) = k - 1
        BY <1>1, ElementOfSeq DEF m
      <4>8. upto[i - 1] = shorter /\ upto[i] = [j \in 1..k |-> items[f[j]]]
        BY <3>1, <4>5, <4>6 DEF upto
      <4>9. Append(shorter, items[i]) = [j \in 1..k |-> items[f[j]]]
        BY <4>1, <4>7 
      <4> HIDE DEF shorter
      <4> QED
        BY <2>3, <3>2, <4>8, <4>9
    <3>3. CASE i \notin positions
      <4>1. \A k \in 1..n : f[k] <= i <=> f[k] <= i - 1
        BY <1>1, <3>1, <3>3
      <4>2. \A k \in 1..n : k <= c[i] <=> k <= c[i - 1]
        BY <1>1, <1>3, <3>1, <4>1
      <4>3. c[i] = c[i - 1]
        BY <2>1, <3>1, <4>2
      <4> QED
        BY <2>3, <3>1, <3>3, <4>3 DEF upto
    <3> QED
      BY <3>2, <3>3
  <2> QED
    BY <2>2, <2>3
<1>6. upto = def(upto)
  <2>1. upto = [i \in 0..m |-> upto[i]]
    OBVIOUS
  <2> HIDE DEF upto
  <2> QED
    BY <1>5, <2>1
<1>7. picked = def(picked)
  <2> HIDE DEF upto, def
  <2> QED
    BY <1>6
<1> HIDE DEF picked
<1>8. \A i \in 0..m : picked[i] = IF i = 0 THEN <<>>
                                  ELSE IF i \in positions
                                       THEN Append(picked[i - 1], items[i])
                                       ELSE picked[i - 1]
  BY <1>7
<1> HIDE DEF upto, def, m
<1> DEFINE Same == {i \in Nat : i \in 0..m => picked[i] = upto[i]}
<1>9. 0 \in Same
  BY <1>1, <1>5, <1>8
<1>10. ASSUME NEW i \in Nat, i \in Same PROVE i + 1 \in Same
  <2> SUFFICES ASSUME i + 1 \in 0..m PROVE picked[i + 1] = upto[i + 1]
    OBVIOUS
  <2>1. i \in 0..m /\ i + 1 # 0 /\ (i + 1) - 1 = i
    BY <1>1
  <2>2. picked[i] = upto[i]
    BY <1>10, <2>1
  <2> QED
    BY <1>5, <1>8, <2>1, <2>2
<1>11. Nat \subseteq Same
  <2> HIDE DEF Same
  <2> QED
    BY <1>9, <1>10, Induct
<1>12. picked[m] = upto[m]
  BY <1>1, <1>11
<1>13. c[m] = n
  <2>1. \A k \in 1..n : f[k] <= m
    BY <1>1
  <2>2. \A k \in 1..n : k <= c[m]
    BY <1>1, <1>3, <2>1
  <2>3. n \in 1..n => n <= c[m]
    BY <2>2
  <2>4. c[m] \in 0..n
    BY <1>1, <1>3
  <2> QED
    BY <1>1, <2>3, <2>4
<1> QED
  BY <1>1, <1>4, <1>12, <1>13 DEF upto

-----------------------------------------------------------------------------
(* The messages of a run *)

Resumed == [Msg("tool", 1) EXCEPT !.resumed = TRUE]

(* SMT does not look into Msg: its fields. *)
LEMMA MsgFields ==
  ASSUME NEW role, NEW call
  PROVE  /\ Msg(role, call).role = role /\ Msg(role, call).call = call
         /\ Msg(role, call).interrupts = 0
BY DEF Msg

LEMMA ResumedFields ==
  Resumed.role = "tool" /\ Resumed.call = 1 /\ Resumed.resumed
BY DEF Resumed, Msg

(* What the run was given comes first: after a system message if sys is 1, *)
(* and before a resumed tool message if lead is 1.                         *)
Starts(msgs, sys, lead) ==
  /\ sys = 1 => msgs[1].role = "system"
  /\ \A i \in 1..Len(stored) : msgs[sys + i] = stored[i]
  /\ kind = "message" => msgs[sys + Given] = Msg("user", 1)
  /\ lead = 1 => msgs[sys + Given + lead] = Resumed

(* Then n model messages, each answered, but for the last if open is 1. *)
Rounds(msgs, base, n, open) ==
  /\ \A k \in 1..n : /\ msgs[base + 2 * k - 1].role = "model"
                     /\ msgs[base + 2 * k - 1].call = k
  /\ \A k \in 1..(n - open) : /\ msgs[base + 2 * k - 1].interrupts = 0
                              /\ msgs[base + 2 * k] = Msg("tool", k)

RunShape(sys, lead, n, open) ==
  /\ sys \in 0..1 /\ lead \in 0..1 /\ open \in 0..1 /\ n \in Nat /\ open <= n
  /\ Len(messages) = sys + Given + lead + 2 * n - open
  /\ Starts(messages, sys, lead)
  /\ Rounds(messages, sys + Given + lead, n, open)

User == IF kind = "message" THEN 1 ELSE 0

LEMMA GivenFact ==
  ASSUME TypeOK
  PROVE  Len(stored) \in Nat /\ User \in 0..1 /\ Given = Len(stored) + User
         /\ (User = 1 <=> kind = "message")
BY LenProperties DEF TypeOK, Given, User

(* A number is the first or the second of a pair. *)
LEMMA Parity ==
  ASSUME NEW j \in Nat, j > 0
  PROVE  \E k \in Nat : k > 0 /\ (j = 2 * k - 1 \/ j = 2 * k)
<1> DEFINE Halved == {i \in Nat : \E k \in Nat : i = 2 * k \/ i = 2 * k + 1}
<1>1. 0 \in Halved
  <2>1. 0 = 2 * 0 /\ 0 \in Nat
    OBVIOUS
  <2> QED
    BY <2>1
<1>2. ASSUME NEW i \in Nat, i \in Halved PROVE i + 1 \in Halved
  <2>1. PICK k \in Nat : i = 2 * k \/ i = 2 * k + 1
    BY <1>2
  <2>2. \/ k \in Nat /\ i + 1 = 2 * k + 1
        \/ k + 1 \in Nat /\ i + 1 = 2 * (k + 1)
    BY <2>1
  <2>3. \E h \in Nat : i + 1 = 2 * h \/ i + 1 = 2 * h + 1
    BY <2>2
  <2> QED
    BY <2>3
<1>3. Nat \subseteq Halved
  <2> HIDE DEF Halved
  <2> QED
    BY <1>1, <1>2, Induct
<1>4. PICK k \in Nat : j = 2 * k \/ j = 2 * k + 1
  BY <1>3
<1>5. CASE j = 2 * k
  BY <1>5
<1>6. CASE j = 2 * k + 1
  <2>1. j = 2 * (k + 1) - 1 /\ k + 1 \in Nat
    BY <1>6
  <2> QED
    BY <2>1
<1> QED
  BY <1>4, <1>5, <1>6

(* Where a message of the run comes from. *)
LEMMA Places ==
  ASSUME TypeOK, NEW sys, NEW lead, NEW n, NEW open,
         RunShape(sys, lead, n, open), NEW i \in 1..Len(messages)
  PROVE  LET base == sys + Given + lead
         IN \/ i = 1 /\ sys = 1
            \/ i - sys \in 1..Len(stored)
            \/ i = sys + Given /\ kind = "message"
            \/ i = base /\ lead = 1
            \/ \E k \in 1..n : i = base + 2 * k - 1
            \/ \E k \in 1..(n - open) : i = base + 2 * k
<1> DEFINE base == sys + Given + lead
<1>1. /\ Len(stored) \in Nat /\ User \in 0..1 /\ Given = Len(stored) + User
      /\ (User = 1 => kind = "message")
  BY GivenFact
<1>2. /\ sys \in 0..1 /\ lead \in 0..1 /\ open \in 0..1 /\ n \in Nat
      /\ Len(messages) = base + 2 * n - open
  BY DEF RunShape, Starts, Rounds
<1>3. base \in Nat
  BY <1>1, <1>2
<1>4. CASE i <= base
  <2> DEFINE s == Len(stored)
             m == Len(messages)
  <2>1. /\ i \in 1..m /\ s \in Nat /\ User \in 0..1 /\ Given = s + User
        /\ (User = 1 => kind = "message")
        /\ sys \in 0..1 /\ lead \in 0..1
    BY <1>1, <1>2
  <2>2. /\ i \in Nat /\ i >= 1
        /\ \/ i <= sys \/ i = sys + Given \/ i = base
           \/ i > sys /\ i <= sys + s
    <3> HIDE DEF s, m
    <3> QED
      BY <1>4, <2>1
  <2>3. CASE i <= sys
    BY <2>1, <2>2, <2>3
  <2>4. CASE i > sys /\ i <= sys + s
    <3>1. i - sys \in 1..s
      <4> HIDE DEF s, m
      <4> QED
        BY <2>1, <2>2, <2>4
    <3> QED
      BY <3>1
  <2>5. CASE i > sys + s
    <3>1. \/ User = 1 /\ i = sys + Given
          \/ lead = 1 /\ i = base
      <4> HIDE DEF s, m
      <4> QED
        BY <1>4, <2>1, <2>2, <2>5
    <3> QED
      BY <2>1, <3>1
  <2> QED
    <3> HIDE DEF s, m
    <3> QED
      BY <2>1, <2>2, <2>3, <2>4, <2>5
<1>5. CASE i > base
  <2>1. i - base \in Nat /\ i - base > 0 /\ i - base <= 2 * n - open
    BY <1>2, <1>3, <1>5
  <2>2. PICK k \in Nat : k > 0 /\ (i - base = 2 * k - 1 \/ i - base = 2 * k)
    BY <2>1, Parity
  <2> HIDE DEF base
  <2>3. CASE i - base = 2 * k - 1
    <3>1. k \in 1..n /\ i = base + 2 * k - 1
      BY <1>2, <1>3, <2>1, <2>2, <2>3
    <3> QED
      BY <3>1 DEF base
  <2>4. CASE i - base = 2 * k
    <3>1. k \in 1..(n - open) /\ i = base + 2 * k
      BY <1>2, <1>3, <2>1, <2>2, <2>4
    <3> QED
      BY <3>1 DEF base
  <2> QED
    BY <2>2, <2>3, <2>4
<1> QED
  BY <1>3, <1>4, <1>5, <1>2

(* The only system message of a run is the first. *)
LEMMA SystemFirst ==
  ASSUME TypeOK, NEW sys, NEW lead, NEW n, NEW open,
         RunShape(sys, lead, n, open), NEW i \in 1..Len(messages)
  PROVE  messages[i].role # "system" <=> i > sys
<1>1. sys \in 0..1 /\ (i <= sys => i = 1 /\ sys = 1)
  BY DEF RunShape, Starts, Rounds
<1>2. i <= sys => messages[i].role = "system"
  BY <1>1 DEF RunShape, Starts, Rounds
<1>3. ASSUME i > sys PROVE messages[i].role # "system"
  <2> DEFINE base == sys + Given + lead
  <2>1. CASE i - sys \in 1..Len(stored)
    <3>1. messages[sys + (i - sys)] = stored[i - sys]
      BY <2>1 DEF RunShape, Starts, Rounds
    <3>2. sys + (i - sys) = i
      BY <1>1
    <3> QED
      BY <2>1, <3>1, <3>2 DEF TypeOK
  <2>2. CASE i = sys + Given /\ kind = "message"
    BY <2>2 DEF RunShape, Starts, Rounds, Msg
  <2>3. CASE i = base /\ lead = 1
    BY <2>3, ResumedFields DEF RunShape, Starts, Rounds
  <2>4. CASE \E k \in 1..n : i = base + 2 * k - 1
    BY <2>4 DEF RunShape, Starts, Rounds
  <2>5. CASE \E k \in 1..(n - open) : i = base + 2 * k
    <3>1. PICK k \in 1..(n - open) : i = base + 2 * k
      BY <2>5
    <3>2. messages[i] = Msg("tool", k)
      BY <3>1 DEF RunShape, Starts, Rounds
    <3> QED
      BY <3>2 DEF Msg
  <2>6. ~(i = 1 /\ sys = 1)
    BY <1>3
  <2> QED
    BY <2>1, <2>2, <2>3, <2>4, <2>5, <2>6, Places
<1> QED
  BY <1>1, <1>2, <1>3

(* The history is the messages without the system message. *)
LEMMA HistoryIs ==
  ASSUME TypeOK, NEW sys, NEW lead, NEW n, NEW open,
         RunShape(sys, lead, n, open)
  PROVE  /\ Len(messages) - sys \in Nat
         /\ History = [i \in 1..(Len(messages) - sys) |-> messages[sys + i]]
         /\ History \in Seq(Message)
         /\ Len(History) = Len(messages) - sys
<1> DEFINE m == Len(messages)
           base == sys + Given + lead
           f == [k \in 1..(m - sys) |-> sys + k]
           others == {i \in 1..m : messages[i].role # "system"}
<1>1. messages \in Seq(Message) /\ m \in Nat
  BY LenProperties DEF TypeOK
<1>2. sys \in 0..1 /\ m - sys \in Nat
  <2>1. /\ Len(stored) \in Nat /\ User \in 0..1 /\ Given = Len(stored) + User
    BY GivenFact
  <2>2. /\ sys \in 0..1 /\ lead \in 0..1 /\ open \in 0..1 /\ n \in Nat
        /\ m = base + 2 * n - open /\ open <= n
    BY DEF RunShape, Starts, Rounds
  <2> HIDE DEF m
  <2> QED
    BY <2>1, <2>2
<1>3. f \in [1..(m - sys) -> 1..m]
  BY <1>1, <1>2
<1>4. \A j, k \in 1..(m - sys) : j < k => f[j] < f[k]
  BY <1>2
<1>5. \A i \in 1..m : i \in others <=> \E k \in 1..(m - sys) : f[k] = i
  <2> SUFFICES ASSUME NEW i \in 1..m
               PROVE  i > sys <=> \E k \in 1..(m - sys) : f[k] = i
    BY SystemFirst
  <2>1. ASSUME i > sys PROVE i - sys \in 1..(m - sys) /\ f[i - sys] = i
    BY <1>1, <1>2, <2>1
  <2>2. \A k \in 1..(m - sys) : f[k] > sys
    BY <1>2
  <2> QED
    BY <2>1, <2>2
<1> DEFINE picked == [k \in 1..(m - sys) |-> messages[f[k]]]
           history == [k \in 1..(m - sys) |-> messages[sys + k]]
<1>6. picked = history
  OBVIOUS
<1>7. Picked(messages, others) = picked
  <2> DEFINE len == m - sys
  <2>1. Enumerates(f, len, others, Len(messages))
    BY <1>2, <1>3, <1>4, <1>5 DEF Enumerates
  <2> HIDE DEF len, f, others
  <2>2. Picked(messages, others) = [k \in 1..len |-> messages[f[k]]]
    BY <1>1, <2>1, PickedIs
  <2> QED
    BY <2>2 DEF len
<1>8. History = history
  BY <1>6, <1>7 DEF History, conversationHistory
<1>9. \A k \in 1..(m - sys) : messages[sys + k] \in Message
  BY <1>1, <1>2, ElementOfSeq
<1>10. history \in Seq(Message) /\ Len(history) = m - sys
  BY <1>2, <1>9
<1> QED
  BY <1>2, <1>8, <1>10

(* What a finished run hands to the loop. *)
LEMMA Finished ==
  ASSUME TypeOK, NEW sys, NEW lead, NEW n, RunShape(sys, lead, n, 1)
  PROVE  LET base == Given + lead
         IN /\ lead \in 0..1 /\ n \in Nat /\ n > 0
            /\ Len(History) = base + 2 * n - 1
            /\ \A i \in 1..Len(stored) : History[i] = stored[i]
            /\ kind = "message" => History[Given] = Msg("user", 1)
            /\ lead = 1 => History[base] = Resumed
            /\ \A k \in 1..n : /\ History[base + 2 * k - 1].role = "model"
                               /\ History[base + 2 * k - 1].call = k
            /\ \A k \in 1..(n - 1) :
                 /\ History[base + 2 * k - 1].interrupts = 0
                 /\ History[base + 2 * k] = Msg("tool", k)
            /\ \A k \in 1..n : History[base + 2 * k - 1]
                                 = messages[sys + Given + lead + 2 * k - 1]
<1> DEFINE base == Given + lead
           h == History
           len == Len(messages) - sys
<1>1. /\ sys \in 0..1 /\ lead \in 0..1 /\ n \in Nat /\ n > 0
      /\ Len(messages) = sys + Given + lead + 2 * n - 1
  BY DEF RunShape, Starts, Rounds
<1>2. /\ Len(stored) \in Nat /\ User \in 0..1 /\ Given = Len(stored) + User
      /\ (User = 1 <=> kind = "message")
  BY GivenFact
<1>3. len \in Nat /\ Len(h) = len /\ \A i \in 1..len : h[i] = messages[sys + i]
  BY HistoryIs
<1> HIDE DEF h
<1>4. len = base + 2 * n - 1 /\ base \in Nat
  BY <1>1, <1>2
<1> HIDE DEF len
<1>5. ASSUME NEW i \in 1..Len(stored) PROVE h[i] = stored[i]
  <2>1. i \in 1..len
    BY <1>1, <1>2, <1>4
  <2> QED
    BY <1>3, <2>1 DEF RunShape, Starts, Rounds
<1>6. ASSUME kind = "message" PROVE h[Given] = Msg("user", 1)
  <2>1. Given \in 1..len
    BY <1>1, <1>2, <1>4, <1>6
  <2> QED
    BY <1>3, <1>6, <2>1 DEF RunShape, Starts, Rounds
<1>7. ASSUME lead = 1
      PROVE  h[base] = Resumed
  <2>1. base \in 1..len /\ sys + base = sys + Given + lead
    BY <1>1, <1>2, <1>4, <1>7
  <2>2. h[base] = messages[sys + Given + lead]
    BY <1>3, <2>1
  <2> QED
    BY <1>7, <2>2 DEF RunShape, Starts, Rounds
<1>8. ASSUME NEW k \in 1..n
      PROVE  h[base + 2 * k - 1] = messages[sys + Given + lead + 2 * k - 1]
  <2>1. base + 2 * k - 1 \in 1..len
    BY <1>1, <1>4
  <2>2. sys + (base + 2 * k - 1) = sys + Given + lead + 2 * k - 1
    BY <1>1, <1>2
  <2> QED
    BY <1>3, <2>1, <2>2
<1>9. ASSUME NEW k \in 1..(n - 1)
      PROVE  h[base + 2 * k] = messages[sys + Given + lead + 2 * k]
  <2>1. base + 2 * k \in 1..len
    BY <1>1, <1>4
  <2>2. sys + (base + 2 * k) = sys + Given + lead + 2 * k
    BY <1>1, <1>2
  <2> QED
    BY <1>3, <2>1, <2>2
<1>10. \A k \in 1..n : /\ h[base + 2 * k - 1].role = "model"
                       /\ h[base + 2 * k - 1].call = k
  BY <1>8 DEF RunShape, Starts, Rounds
<1>11. \A k \in 1..(n - 1) : /\ h[base + 2 * k - 1].interrupts = 0
                             /\ h[base + 2 * k] = Msg("tool", k)
  <2>1. \A k \in 1..(n - 1) : k \in 1..n
    BY <1>1
  <2> QED
    BY <1>8, <1>9, <2>1 DEF RunShape, Starts, Rounds
<1> QED
  BY <1>1, <1>3, <1>4, <1>5, <1>6, <1>7, <1>8, <1>10, <1>11 DEF h

(* The positions themselves, in increasing order. *)
LEMMA PositionsPicked ==
  ASSUME NEW m \in Nat, NEW positions, NEW n, NEW f,
         Enumerates(f, n, positions, m)
  PROVE  Picked([i \in 1..m |-> i], positions) = f
<1> DEFINE places == [i \in 1..m |-> i]
           S == 1..m
<1>1. places \in Seq(S) /\ Len(places) = m
  OBVIOUS
<1>2. \A i \in 1..m : places[i] = i
  OBVIOUS
<1> HIDE DEF places
<1>3. Picked(places, positions) = [k \in 1..n |-> places[f[k]]]
  <2> HIDE DEF S
  <2> QED
    BY <1>1, PickedIs
<1>4. f \in [1..n -> 1..m]
  BY DEF Enumerates
<1>5. [k \in 1..n |-> places[f[k]]] = f
  BY <1>2, <1>4
<1> QED
  BY <1>3, <1>5 DEF places

(* The loop finds the model messages of the run. *)
LEMMA ModelsAre ==
  ASSUME TypeOK, NEW sys, NEW lead, NEW n, RunShape(sys, lead, n, 1)
  PROVE  ModelsAt(History, Given) = [k \in 1..n |-> Given + lead + 2 * k - 1]
<1> DEFINE base == Given + lead
           h == History
           m == Len(h)
           places == [i \in 1..m |-> i]
           models == {i \in (Given + 1)..m : h[i].role = "model"}
           f == [k \in 1..n |-> base + 2 * k - 1]
<1>1. lead \in 0..1 /\ n \in Nat /\ n > 0 /\ m = base + 2 * n - 1
  BY Finished
<1>2. Given \in Nat
  BY GivenFact
<1>3. lead = 1 => h[base].role = "tool"
  BY Finished, ResumedFields
<1>4. \A k \in 1..n : h[base + 2 * k - 1].role = "model"
  BY Finished
<1>5. \A k \in 1..(n - 1) : h[base + 2 * k].role = "tool"
  <2>1. \A k \in 1..(n - 1) : h[base + 2 * k] = Msg("tool", k)
    BY Finished
  <2> HIDE DEF h
  <2> QED
    BY <2>1, MsgFields
<1> HIDE DEF h
<1>6. base \in Nat
  BY <1>1, <1>2
<1>7. f \in [1..n -> 1..m] /\ \A j, k \in 1..n : j < k => f[j] < f[k]
  BY <1>1, <1>6
<1>8. ASSUME NEW i \in 1..m
      PROVE  i \in models <=> \E k \in 1..n : f[k] = i
  <2>1. ASSUME NEW k \in 1..n, f[k] = i PROVE i \in models
    <3>1. i = base + 2 * k - 1
      BY <2>1
    <3>2. i >= Given + 1
      BY <1>1, <1>2, <3>1
    <3> QED
      BY <1>4, <3>1, <3>2
  <2>2. ASSUME i \in models PROVE \E k \in 1..n : f[k] = i
    <3>1. i >= Given + 1 /\ h[i].role = "model"
      BY <2>2
    <3>2. i > base
      BY <1>1, <1>2, <1>3, <3>1
    <3>3. i - base \in Nat /\ i - base > 0 /\ i - base <= 2 * n - 1
      BY <1>1, <1>6, <3>2
    <3>4. PICK k \in Nat : k > 0 /\ (i - base = 2 * k - 1 \/ i - base = 2 * k)
      BY <3>3, Parity
    <3> HIDE DEF base
    <3>5. CASE i - base = 2 * k
      <4>1. k \in 1..(n - 1) /\ i = base + 2 * k
        BY <1>1, <1>6, <3>3, <3>4, <3>5
      <4> QED
        BY <1>5, <3>1, <4>1
    <3>6. CASE i - base = 2 * k - 1
      <4>1. k \in 1..n /\ i = base + 2 * k - 1
        BY <1>1, <1>6, <3>3, <3>4, <3>6
      <4> QED
        BY <4>1
    <3> QED
      BY <3>4, <3>5, <3>6
  <2> QED
    BY <2>1, <2>2
<1>9. m \in Nat
  BY <1>1, <1>6
<1> HIDE DEF m, models
<1>10. Picked(places, models) = f
  <2> HIDE DEF f
  <2>1. Enumerates(f, n, models, m)
    BY <1>1, <1>7, <1>8 DEF Enumerates
  <2> QED
    BY <1>9, <2>1, PositionsPicked
<1> QED
  BY <1>10 DEF ModelsAt, models, h, m

(* How many messages a turn gets. *)
LEMMA TurnCount ==
  ASSUME TypeOK, NEW sys, NEW lead, NEW n, RunShape(sys, lead, n, 1),
         NEW k \in 1..n
  PROVE  LET at(j) == Given + lead + 2 * j - 1
         IN /\ Answered(History, at(k)) <=> k < n
            /\ PersistedMessageCount(History,
                 IF k = 1 THEN Given ELSE TurnEnd(History, at(k - 1)), at(k))
                 = 1 + (IF k = 1 THEN lead ELSE 0) + (IF k < n THEN 1 ELSE 0)
<1> DEFINE base == Given + lead
           h == History
           at(j) == Given + lead + 2 * j - 1
           after == IF k = 1 THEN Given ELSE TurnEnd(h, at(k - 1))
           resumed == {j \in (after + 1)..(at(k) - 1) :
                         h[j].role = "tool" /\ h[j].resumed}
<1>1. lead \in 0..1 /\ n \in Nat /\ n > 0 /\ Len(h) = base + 2 * n - 1
  BY Finished
<1>2. Given \in Nat
  BY GivenFact
<1>3. lead = 1 => h[base].role = "tool" /\ h[base].resumed
  BY Finished, ResumedFields
<1>4. \A j \in 1..(n - 1) : h[base + 2 * j].role = "tool"
  <2>1. \A j \in 1..(n - 1) : h[base + 2 * j] = Msg("tool", j)
    BY Finished
  <2> HIDE DEF h
  <2> QED
    BY <2>1, MsgFields
<1> HIDE DEF h
<1>5. ASSUME NEW j \in 1..n PROVE Answered(h, at(j)) <=> j < n
  <2>1. at(j) + 1 = base + 2 * j
    BY <1>1, <1>2
  <2>2. at(j) < Len(h) <=> j < n
    BY <1>1, <1>2
  <2>3. j < n => h[at(j) + 1].role = "tool"
    BY <1>1, <1>4, <2>1
  <2> QED
    BY <2>2, <2>3 DEF Answered
<1>6. Cardinality(resumed) = IF k = 1 THEN lead ELSE 0
  <2>1. CASE k # 1
    <3>1. k - 1 \in 1..n /\ k - 1 < n
      BY <1>1, <2>1
    <3>2. after = at(k - 1) + 1
      BY <1>5, <2>1, <3>1 DEF TurnEnd
    <3>3. after + 1 > at(k) - 1
      BY <1>1, <1>2, <3>2
    <3> HIDE DEF after
    <3>4. (after + 1)..(at(k) - 1) = {}
      BY <1>1, <1>2, <3>2
    <3>5. resumed = {}
      BY <3>4
    <3> HIDE DEF resumed
    <3> QED
      BY <2>1, <3>5, FS_EmptySet
  <2>2. CASE k = 1 /\ lead = 0
    <3>1. (after + 1)..(at(k) - 1) = {}
      BY <1>1, <1>2, <2>2
    <3>2. resumed = {}
      BY <3>1
    <3> HIDE DEF resumed
    <3> QED
      BY <2>2, <3>2, FS_EmptySet
  <2>3. CASE k = 1 /\ lead = 1
    <3>1. after + 1 = base /\ at(k) - 1 = base
      BY <1>2, <2>3
    <3>2. (after + 1)..(at(k) - 1) = {base}
      BY <1>2, <2>3, <3>1
    <3>3. resumed = {base}
      BY <1>3, <2>3, <3>2
    <3> HIDE DEF resumed
    <3> QED
      BY <2>3, <3>3, FS_Singleton
  <2> QED
    BY <1>1, <2>1, <2>2, <2>3
<1>7. PersistedMessageCount(h, after, at(k))
        = 1 + Cardinality(resumed) + (IF Answered(h, at(k)) THEN 1 ELSE 0)
  BY DEF PersistedMessageCount
<1>8. PersistedMessageCount(h, after, at(k))
        = 1 + (IF k = 1 THEN lead ELSE 0) + (IF k < n THEN 1 ELSE 0)
  <2> HIDE DEF resumed, after, at
  <2> QED
    BY <1>5, <1>6, <1>7
<1> QED
  BY <1>5, <1>8 DEF h

(* The turns of a finished run, and how many messages the flow saves with  *)
(* each.                                                                   *)
LEMMA TurnsAre ==
  ASSUME TypeOK, NEW sys, NEW lead, NEW n, RunShape(sys, lead, n, 1)
  PROVE  /\ Len(Turns) = n
         /\ \A k \in 1..n :
              MessageCount(k) = 1 + (IF k = 1 THEN User + lead ELSE 0)
                                  + (IF k < n THEN 1 ELSE 0)
<1> DEFINE h == History
           at == [k \in 1..n |-> Given + lead + 2 * k - 1]
           after(k) == IF k = 1 THEN Given ELSE TurnEnd(h, at[k - 1])
<1>1. lead \in 0..1 /\ n \in Nat /\ n > 0
  BY Finished
<1>2. ModelsAt(h, Given) = at
  BY ModelsAre
<1>3. User \in 0..1 /\ (User = 1 <=> kind = "message")
  BY GivenFact
<1>4. Len(at) = n
  BY <1>1
<1>5. ASSUME NEW k \in 1..n
      PROVE  PersistedMessageCount(h, after(k), at[k])
               = 1 + (IF k = 1 THEN lead ELSE 0) + (IF k < n THEN 1 ELSE 0)
  <2>1. k # 1 => k - 1 \in 1..n
    BY <1>1
  <2>2. /\ at[k] = Given + lead + 2 * k - 1
        /\ k # 1 => at[k - 1] = Given + lead + 2 * (k - 1) - 1
    BY <2>1
  <2>3. PersistedMessageCount(h,
            IF k = 1 THEN Given
            ELSE TurnEnd(h, Given + lead + 2 * (k - 1) - 1),
            Given + lead + 2 * k - 1)
          = 1 + (IF k = 1 THEN lead ELSE 0) + (IF k < n THEN 1 ELSE 0)
    BY TurnCount
  <2> HIDE DEF h, at
  <2>4. after(k) = IF k = 1 THEN Given
                   ELSE TurnEnd(h, Given + lead + 2 * (k - 1) - 1)
    BY <2>2
  <2> QED
    BY <2>2, <2>3, <2>4
<1> HIDE DEF at
<1>6. /\ DOMAIN Turns = 1..n /\ Len(Turns) = n
      /\ \A k \in 1..n :
           Turns[k].count = PersistedMessageCount(h, after(k), at[k])
  BY <1>1, <1>2, <1>4 DEF Turns, buildAgentLoopTurnRecords
<1> HIDE DEF after, h
<1>7. ASSUME NEW k \in 1..n
      PROVE  MessageCount(k) = 1 + (IF k = 1 THEN User + lead ELSE 0)
                                 + (IF k < n THEN 1 ELSE 0)
  BY <1>1, <1>3, <1>5, <1>6 DEF MessageCount
<1> QED
  BY <1>6, <1>7

(* Where the k-th of n turns ends, of u messages before the first model    *)
(* message.                                                                *)
End(u, n, k) ==
  IF k = 0 THEN 0 ELSE IF k = n THEN u + 2 * n - 1 ELSE u + 2 * k

(* What call a new message belongs to. *)
LEMMA CallOf ==
  ASSUME TypeOK, NEW sys, NEW lead, NEW n, RunShape(sys, lead, n, 1)
  PROVE  LET u == User + lead
         IN /\ Len(NewMessages) = u + 2 * n - 1
            /\ \A i \in 1..(u + 2 * n - 1) :
                 LET k == NewMessages[i].call
                 IN k \in 1..n /\ End(u, n, k - 1) < i /\ i <= End(u, n, k)
<1> DEFINE h == History
           s == Len(stored)
           base == Given + lead
           u == User + lead
           total == u + 2 * n - 1
           new == NewMessages
<1>1. /\ lead \in 0..1 /\ n \in Nat /\ n > 0 /\ Len(h) = base + 2 * n - 1
      /\ kind = "message" => h[Given] = Msg("user", 1)
      /\ \A k \in 1..n : h[base + 2 * k - 1].call = k
      /\ \A k \in 1..(n - 1) : h[base + 2 * k] = Msg("tool", k)
  BY Finished
<1>2. lead = 1 => h[base].call = 1
  BY Finished, ResumedFields
<1>3. /\ s \in Nat /\ User \in 0..1 /\ Given = s + User
      /\ (User = 1 <=> kind = "message")
  BY GivenFact
<1>4. h \in Seq(Message)
  BY HistoryIs
<1>5. new = [i \in 1..(Len(h) - (s + 1) + 1) |-> h[s + 1 + i - 1]]
  BY DEF NewMessages, SubSeq
<1>6. Len(h) - (s + 1) + 1 = total /\ total \in Nat
  <2> DEFINE m == Len(h)
  <2>1. /\ m = base + 2 * n - 1 /\ base = s + User + lead
        /\ lead \in Nat /\ n \in Nat /\ n > 0
        /\ s \in Nat /\ User \in Nat
    BY <1>1, <1>3
  <2> HIDE DEF m, s, base
  <2> QED
    BY <2>1 DEF m
<1> HIDE DEF h, new
<1>7. Len(new) = total /\ \A i \in 1..total : new[i] = h[s + i]
  BY <1>3, <1>5, <1>6
<1>8. ASSUME NEW i \in 1..total
      PROVE  LET k == new[i].call
             IN k \in 1..n /\ End(u, n, k - 1) < i /\ i <= End(u, n, k)
  <2>1. new[i] = h[s + i]
    BY <1>7
  <2>2. CASE i <= u
    <3>1. End(u, n, 0) < i /\ i <= End(u, n, 1)
      BY <1>1, <1>3, <2>2 DEF End
    <3>2. new[i].call = 1
      <4>1. CASE i = User
        <5>1. s + i = Given /\ kind = "message"
          BY <1>1, <1>3, <4>1
        <5> QED
          BY <1>1, <2>1, <5>1, MsgFields
      <4>2. CASE i = u /\ lead = 1
        <5>1. s + i = base
          BY <1>1, <1>3, <4>2
        <5> QED
          BY <1>2, <2>1, <4>2, <5>1
      <4> QED
        BY <1>1, <1>3, <2>2, <4>1, <4>2
    <3> QED
      BY <1>1, <3>1, <3>2
  <2>3. CASE i > u
    <3>1. i - u \in Nat /\ i - u > 0 /\ i - u <= 2 * n - 1
      BY <1>1, <1>3, <2>3
    <3>2. PICK k \in Nat : k > 0 /\ (i - u = 2 * k - 1 \/ i - u = 2 * k)
      BY <3>1, Parity
    <3>3. k \in 1..n /\ End(u, n, k - 1) < i /\ i <= End(u, n, k)
      BY <1>1, <1>3, <3>1, <3>2 DEF End
    <3>4. new[i].call = k
      <4>1. CASE i - u = 2 * k - 1
        <5>1. s + i = base + 2 * k - 1
          <6>1. base = s + u /\ u \in Nat
            BY <1>1, <1>3
          <6> HIDE DEF base, u, s
          <6> QED
            BY <1>3, <4>1, <6>1
        <5> QED
          BY <1>1, <2>1, <3>3, <5>1
      <4>2. CASE i - u = 2 * k
        <5>1. s + i = base + 2 * k /\ k \in 1..(n - 1)
          BY <1>1, <1>3, <3>1, <3>2, <4>2
        <5>2. new[i] = Msg("tool", k)
          BY <1>1, <2>1, <5>1
        <5> QED
          BY <5>2, MsgFields
      <4> QED
        BY <3>2, <4>1, <4>2
    <3> QED
      BY <3>3, <3>4
  <2> QED
    BY <1>1, <1>3, <2>2, <2>3
<1> QED
  BY <1>7, <1>8 DEF new

(* The counts cut the new messages of a finished run into its turns. *)
LEMMA WindowsCut ==
  ASSUME TypeOK, NEW sys, NEW lead, NEW n, RunShape(sys, lead, n, 1)
  PROVE  WindowsAreTurns
<1> DEFINE u == User + lead
           total == u + 2 * n - 1
           def(f) == [k \in 0..n |-> IF k = 0 THEN 0
                                     ELSE f[k - 1] + MessageCount(k)]
           end == CHOOSE f : f = def(f)
           explicit == [k \in 0..n |-> End(u, n, k)]
<1>1. lead \in 0..1 /\ n \in Nat /\ n > 0
  BY Finished
<1>2. User \in 0..1
  BY GivenFact
<1>3. /\ Len(Turns) = n
      /\ \A k \in 1..n :
           MessageCount(k) = 1 + (IF k = 1 THEN u ELSE 0)
                               + (IF k < n THEN 1 ELSE 0)
  BY TurnsAre
<1>4. /\ Len(NewMessages) = total
      /\ \A i \in 1..total :
           LET k == NewMessages[i].call
           IN k \in 1..n /\ End(u, n, k - 1) < i /\ i <= End(u, n, k)
  BY CallOf
<1>5. u \in Nat
  BY <1>1, <1>2
<1> HIDE DEF u
<1>6. ASSUME NEW k \in 0..n
      PROVE  End(u, n, k) = IF k = 0 THEN 0
                            ELSE End(u, n, k - 1) + MessageCount(k)
  <2>1. CASE k = 0
    BY <2>1 DEF End
  <2>2. CASE k # 0
    <3>1. k \in 1..n
      BY <2>2
    <3>2. MessageCount(k) = 1 + (IF k = 1 THEN u ELSE 0)
                              + (IF k < n THEN 1 ELSE 0)
      BY <1>3, <3>1
    <3>3. End(u, n, k) = End(u, n, k - 1) + MessageCount(k)
      BY <1>1, <1>5, <3>1, <3>2 DEF End
    <3> QED
      BY <2>2, <3>3
  <2> QED
    BY <2>1, <2>2
<1>7. explicit = def(explicit)
  <2>1. \A k \in 0..n : explicit[k] = IF k = 0 THEN 0
                                      ELSE explicit[k - 1] + MessageCount(k)
    <3>1. ASSUME NEW k \in 0..n, k # 0 PROVE k - 1 \in 0..n
      BY <1>1, <3>1
    <3> QED
      BY <1>6, <3>1
  <2>2. explicit = [k \in 0..n |-> explicit[k]]
    OBVIOUS
  <2> HIDE DEF explicit
  <2> QED
    BY <2>1, <2>2
<1>8. end = def(end)
  <2> HIDE DEF explicit, def
  <2> QED
    BY <1>7
<1> HIDE DEF end
<1>9. \A k \in 0..n : end[k] = IF k = 0 THEN 0
                               ELSE end[k - 1] + MessageCount(k)
  BY <1>8
<1> DEFINE Same == {k \in Nat : k \in 0..n => end[k] = End(u, n, k)}
<1>10. 0 \in Same
  BY <1>6, <1>9
<1>11. ASSUME NEW k \in Nat, k \in Same PROVE k + 1 \in Same
  <2> SUFFICES ASSUME k + 1 \in 0..n PROVE end[k + 1] = End(u, n, k + 1)
    OBVIOUS
  <2>1. k \in 0..n /\ k + 1 # 0 /\ (k + 1) - 1 = k
    BY <1>1
  <2>2. end[k] = End(u, n, k)
    BY <1>11, <2>1
  <2> QED
    BY <1>6, <1>9, <2>1, <2>2
<1>12. Nat \subseteq Same
  <2> HIDE DEF Same
  <2> QED
    BY <1>10, <1>11, Induct
<1>13. \A k \in 0..n : end[k] = End(u, n, k)
  BY <1>1, <1>12
<1>14. end[n] = Len(NewMessages)
  BY <1>1, <1>4, <1>13 DEF End
<1>15. ASSUME NEW k \in 1..n
       PROVE  {i \in 1..Len(NewMessages) : NewMessages[i].call = k}
                = (end[k - 1] + 1)..end[k]
  <2>1. /\ end[k - 1] = End(u, n, k - 1) /\ end[k] = End(u, n, k)
    BY <1>1, <1>13
  <2>2. /\ End(u, n, k - 1) \in 0..total /\ End(u, n, k) \in 0..total
    BY <1>1, <1>5 DEF End
  <2>3. ASSUME NEW i \in 1..total, NewMessages[i].call = k
        PROVE  End(u, n, k - 1) < i /\ i <= End(u, n, k)
    BY <1>4, <2>3
  <2>4. ASSUME NEW i \in 1..total, End(u, n, k - 1) < i, i <= End(u, n, k)
        PROVE  NewMessages[i].call = k
    <3> DEFINE j == NewMessages[i].call
    <3>1. j \in 1..n /\ End(u, n, j - 1) < i /\ i <= End(u, n, j)
      BY <1>4
    <3> HIDE DEF j
    <3>2. j < k => End(u, n, j) <= End(u, n, k - 1)
      BY <1>1, <1>5, <3>1 DEF End
    <3>3. k < j => End(u, n, k) <= End(u, n, j - 1)
      BY <1>1, <1>5, <3>1 DEF End
    <3>4. End(u, n, j) \in Int /\ End(u, n, j - 1) \in Int
      BY <1>1, <1>5, <3>1 DEF End
    <3>5. j = k
      BY <2>2, <2>4, <3>1, <3>2, <3>3, <3>4
    <3> QED
      BY <3>5 DEF j
  <2> HIDE DEF total
  <2> QED
    BY <1>4, <2>1, <2>2, <2>3, <2>4
<1> QED
  BY <1>3, <1>14, <1>15 DEF WindowsAreTurns, end

-----------------------------------------------------------------------------
(* The tool records of a run *)

(* The tool records between two cuts are those of one model message. *)
RecordsCut(recorded, cut, n) ==
  /\ cut \in [0..n -> 0..Len(recorded)]
  /\ cut[0] = 0 /\ cut[n] = Len(recorded)
  /\ \A i \in 1..Len(recorded) : recorded[i].call \in 1..n
  /\ \A k \in 1..n, i \in 1..Len(recorded) :
       recorded[i].call = k <=> cut[k - 1] < i /\ i <= cut[k]

(* They are as many as it asked for; of the last message those of the      *)
(* tools that are still running are missing.                               *)
AsManyAsAsked(msgs, cut, base, n, missing) ==
  \A k \in 1..n : cut[k - 1] + msgs[base + 2 * k - 1].requests
                    = cut[k] + (IF k = n THEN missing ELSE 0)

(* What is recorded so far. *)
Recorded(cut, base, n) ==
  /\ RecordsCut(toolRecords, cut, n)
  /\ AsManyAsAsked(messages, cut, base, n, Cardinality(running))

(* The loop takes the records of each turn from one cut to the next. *)
LEMMA ToolsTakenAre ==
  ASSUME TypeOK, NEW sys, NEW lead, NEW n, RunShape(sys, lead, n, 1),
         NEW cut, Recorded(cut, sys + Given + lead, n), running = {},
         Latest.interrupts > 0 \/ Latest.requests = 0, NEW k \in 1..n
  PROVE  LET i == Given + lead + 2 * k - 1
         IN /\ cut[k - 1] <= cut[k]
            /\ ToolsTaken(History, i, cut[k - 1], Len(toolRecords)) = cut[k]
<1> DEFINE h == History
           i == Given + lead + 2 * k - 1
           total == Len(toolRecords)
           asked == h[i].requests
<1>1. n \in Nat /\ n > 0 /\ h[i] = messages[sys + Given + lead + 2 * k - 1]
  BY Finished
<1>2. /\ Answered(h, i) <=> k < n
      /\ k < n => h[i].interrupts = 0
  BY TurnCount, Finished
<1>3. h[i] \in Message
  <2>1. h \in Seq(Message)
    BY HistoryIs
  <2>2. Len(h) = Given + lead + 2 * n - 1 /\ lead \in 0..1
    BY Finished
  <2>3. Given \in Nat
    BY GivenFact
  <2> HIDE DEF h
  <2>4. i \in 1..Len(h)
    BY <1>1, <2>2, <2>3
  <2> HIDE DEF i
  <2> QED
    BY <2>1, <2>4, ElementOfSeq
<1>4. k = n => h[i] = Latest
  <2>1. Len(messages) = sys + Given + lead + 2 * n - 1
    BY DEF RunShape, Starts, Rounds
  <2> QED
    BY <1>1, <2>1 DEF Latest
<1>5. asked \in Nat /\ h[i].interrupts \in Nat
  BY <1>3 DEF Message
<1>6. /\ cut[k - 1] \in 0..total /\ cut[k] \in 0..total /\ total \in Nat
      /\ cut[n] = total
  <2>1. k \in 0..n /\ k - 1 \in 0..n
    BY <1>1
  <2> QED
    BY <2>1, LenProperties DEF Recorded, RecordsCut, TypeOK
<1>7. cut[k - 1] + asked = cut[k]
  <2>1. cut[k - 1] + asked
          = cut[k] + (IF k = n THEN Cardinality(running) ELSE 0)
    BY <1>1 DEF Recorded, AsManyAsAsked
  <2>2. Cardinality(running) = 0
    BY FS_EmptySet
  <2> HIDE DEF asked
  <2> QED
    BY <1>6, <2>1, <2>2
<1> HIDE DEF h, i, total
<1>8. cut[k - 1] <= cut[k]
  BY <1>5, <1>6, <1>7
<1> DEFINE before == cut[k - 1]
           now == cut[k]
<1> HIDE DEF before, now
<1>9. ASSUME k < n PROVE ToolsTaken(h, i, before, total) = now
  <2>1. before + asked = now /\ asked <= total - before
    BY <1>5, <1>6, <1>7 DEF before, now
  <2> QED
    BY <1>2, <1>9, <2>1 DEF ToolsTaken
<1>10. ASSUME k = n, h[i].interrupts > 0
       PROVE  ToolsTaken(h, i, before, total) = now
  BY <1>6, <1>10 DEF ToolsTaken, now
<1>11. ASSUME k = n, h[i].interrupts = 0
       PROVE  ToolsTaken(h, i, before, total) = now
  <2>1. asked = 0
    BY <1>4, <1>11
  <2>2. before = now
    BY <1>6, <1>7, <2>1 DEF before, now
  <2>3. ~Answered(h, i)
    BY <1>1, <1>2, <1>11
  <2> QED
    BY <1>11, <2>2, <2>3 DEF ToolsTaken
<1>12. ToolsTaken(h, i, cut[k - 1], total) = cut[k]
  BY <1>1, <1>5, <1>9, <1>10, <1>11 DEF before, now
<1> QED
  BY <1>8, <1>12 DEF h, i, total

(* Those are the executions the turn's model message asked for. *)
LEMMA SummariesCut ==
  ASSUME TypeOK, NEW sys, NEW lead, NEW n, RunShape(sys, lead, n, 1),
         NEW cut, Recorded(cut, sys + Given + lead, n), running = {},
         Latest.interrupts > 0 \/ Latest.requests = 0
  PROVE  SummariesAreOwn
<1> DEFINE h == History
           at == ModelsAt(h, Given)
           total == Len(toolRecords)
           def(f) == [k \in 0..Len(at) |->
                        IF k = 0 THEN 0
                        ELSE ToolsTaken(h, at[k], f[k - 1], total)]
           taken == CHOOSE f : f = def(f)
<1>1. n \in Nat /\ n > 0
  BY Finished
<1>2. at = [k \in 1..n |-> Given + lead + 2 * k - 1]
  BY ModelsAre
<1>3. Len(at) = n
  <2> HIDE DEF at
  <2> QED
    BY <1>1, <1>2
<1>4. /\ cut \in [0..n -> 0..total] /\ cut[0] = 0 /\ total \in Nat
      /\ \A k \in 1..n, i \in 1..total :
           toolRecords[i].call = k <=> cut[k - 1] < i /\ i <= cut[k]
  BY LenProperties DEF Recorded, RecordsCut, TypeOK
<1>5. \A k \in 1..n :
        cut[k - 1] <= cut[k] /\ ToolsTaken(h, at[k], cut[k - 1], total) = cut[k]
  <2>1. \A k \in 1..n :
          /\ cut[k - 1] <= cut[k]
          /\ ToolsTaken(h, Given + lead + 2 * k - 1, cut[k - 1], total) = cut[k]
    BY ToolsTakenAre
  <2>2. \A k \in 1..n : at[k] = Given + lead + 2 * k - 1
    BY <1>2
  <2> HIDE DEF h, at, total
  <2> QED
    BY <2>1, <2>2
<1>6. Turns = [k \in 1..Len(at) |->
                 [count     |-> PersistedMessageCount(h,
                                  IF k = 1 THEN Given
                                  ELSE TurnEnd(h, at[k - 1]), at[k]),
                  summaries |-> SubSeq(toolRecords, taken[k - 1] + 1, taken[k]),
                  finish    |-> FinishReason(h, at[k])]]
  BY DEF Turns, buildAgentLoopTurnRecords
<1> HIDE DEF at, taken
<1>15. /\ Len(Turns) = n
       /\ \A k \in 1..n :
            Turns[k].summaries = SubSeq(toolRecords, taken[k - 1] + 1, taken[k])
  BY <1>1, <1>3, <1>6
<1> HIDE DEF h, total
<1>7. cut = def(cut)
  <2>1. \A k \in 0..n : cut[k] = IF k = 0 THEN 0
                                 ELSE ToolsTaken(h, at[k], cut[k - 1], total)
    <3>1. \A k \in 0..n : k # 0 => k \in 1..n
      BY <1>1
    <3> QED
      BY <1>4, <1>5, <3>1
  <2>2. cut = [k \in 0..n |-> cut[k]]
    BY <1>4
  <2> QED
    BY <1>3, <2>1, <2>2
<1>8. taken = def(taken)
  <2> HIDE DEF def
  <2> QED
    BY <1>7 DEF taken
<1>9. \A k \in 0..n : taken[k] = IF k = 0 THEN 0
                                 ELSE ToolsTaken(h, at[k], taken[k - 1], total)
  BY <1>3, <1>8
<1> DEFINE Same == {k \in Nat : k \in 0..n => taken[k] = cut[k]}
<1>10. 0 \in Same
  BY <1>4, <1>9
<1>11. ASSUME NEW k \in Nat, k \in Same PROVE k + 1 \in Same
  <2> SUFFICES ASSUME k + 1 \in 0..n PROVE taken[k + 1] = cut[k + 1]
    OBVIOUS
  <2>1. k \in 0..n /\ k + 1 # 0 /\ (k + 1) - 1 = k /\ k + 1 \in 1..n
    BY <1>1
  <2>2. taken[k] = cut[k]
    BY <1>11, <2>1
  <2> QED
    BY <1>5, <1>9, <2>1, <2>2
<1>12. Nat \subseteq Same
  <2> HIDE DEF Same
  <2> QED
    BY <1>10, <1>11, Induct
<1>13. \A k \in 0..n : taken[k] = cut[k]
  BY <1>1, <1>12
<1>14. ASSUME NEW k \in 1..n
       PROVE  Turns[k].summaries
                = Picked(toolRecords, {i \in 1..Len(toolRecords) :
                                         toolRecords[i].call = k})
  <2> DEFINE a == cut[k - 1]
             b == cut[k]
             len == b - a
             f == [j \in 1..len |-> a + j]
             own == {i \in 1..Len(toolRecords) : toolRecords[i].call = k}
  <2>1. k - 1 \in 0..n /\ k \in 0..n
    BY <1>1
  <2>2. a \in 0..total /\ b \in 0..total /\ a <= b
    BY <1>4, <1>5, <2>1
  <2>3. \A i \in 1..total : toolRecords[i].call = k <=> a < i /\ i <= b
    BY <1>4
  <2>4. Turns[k].summaries = SubSeq(toolRecords, a + 1, b)
    BY <1>13, <1>15, <2>1
  <2> HIDE DEF a, b
  <2>5. total = Len(toolRecords)
    BY DEF total
  <2>6. len \in Nat
    BY <1>4, <2>2
  <2>7. f \in [1..len -> 1..Len(toolRecords)]
    BY <1>4, <2>2, <2>5
  <2>8. \A j, l \in 1..len : j < l => f[j] < f[l]
    BY <1>4, <2>2
  <2>9. \A i \in 1..Len(toolRecords) : i \in own <=> \E j \in 1..len : f[j] = i
    <3> SUFFICES ASSUME NEW i \in 1..total
                 PROVE  a < i /\ i <= b <=> \E j \in 1..len : f[j] = i
      BY <2>3, <2>5
    <3>1. ASSUME a < i, i <= b PROVE i - a \in 1..len /\ f[i - a] = i
      BY <1>4, <2>2, <3>1
    <3>2. \A j \in 1..len : a < f[j] /\ f[j] <= b
      BY <1>4, <2>2
    <3> QED
      BY <3>1, <3>2
  <2>10. toolRecords \in Seq(ToolRecord)
    BY DEF TypeOK
  <2>11. Enumerates(f, len, own, Len(toolRecords))
    BY <2>6, <2>7, <2>8, <2>9 DEF Enumerates
  <2>12. Picked(toolRecords, own) = [j \in 1..len |-> toolRecords[f[j]]]
    <3> HIDE DEF f, own, len
    <3> QED
      BY <2>10, <2>11, PickedIs
  <2>13. SubSeq(toolRecords, a + 1, b) = [j \in 1..len |-> toolRecords[f[j]]]
    BY <1>4, <2>2, <2>5, <2>10
  <2> QED
    BY <2>4, <2>12, <2>13
<1> QED
  BY <1>14, <1>15 DEF SummariesAreOwn

-----------------------------------------------------------------------------
(* The inductive invariant *)

(* A run with n model messages, which an interrupted tool that was         *)
(* restarted may have given records of no model message.                   *)
Going(sys, lead, n, open) ==
  /\ RunShape(sys, lead, n, open)
  /\ ~restarted => \E cut : Recorded(cut, sys + Given + lead, n)

IInv ==
  /\ pc # "tools" => running = {}
  /\ pc = "resume" => /\ modelCalls = 0 /\ toolRecords = <<>>
                      /\ \E sys : RunShape(sys, 0, 0, 0)
  /\ pc = "model" => /\ modelCalls <= MaxTurns
                     /\ \E sys, lead : Going(sys, lead, modelCalls, 0)
  /\ pc = "tools" => /\ modelCalls <= MaxTurns /\ Latest.interrupts = 0
                     /\ \E sys, lead : Going(sys, lead, modelCalls, 1)
  /\ pc = "done" => /\ Latest.interrupts > 0 \/ Latest.requests = 0
                    /\ \E sys, lead, n : Going(sys, lead, n, 1)

LEMMA InitStep == Init => TypeOK /\ IInv
<1> SUFFICES ASSUME Init PROVE TypeOK /\ IInv
  OBVIOUS
<1>1. 0 \in 0..(MaxTurns + 1)
  BY LoopAssumption
<1>2. /\ stored \in Seq(Message) /\ messages \in Seq(Message)
      /\ toolRecords \in Seq(ToolRecord) /\ Len(stored) = 0
  BY EmptySeq, LenProperties DEF Init
<1>3. TypeOK
  <2>1. 0 <= MaxTurns + 1 /\ MaxTurns + 1 \in Nat
    BY LoopAssumption
  <2>2. modelCalls \in 0..(MaxTurns + 1)
    BY <1>1 DEF Init
  <2>3. \A i \in 1..Len(stored) : stored[i].role # "system"
    BY <1>2
  <2> QED
    BY <1>2, <2>2, <2>3 DEF Init, TypeOK, Kinds
<1> QED
  BY <1>3 DEF Init, IInv

LEMMA MsgType ==
  ASSUME NEW role \in {"system", "user", "model", "tool"}, NEW call \in Nat
  PROVE  /\ Msg(role, call) \in Message
         /\ \A requests \in Nat :
              LET msg == [Msg(role, call) EXCEPT !.requests = requests]
              IN /\ msg \in Message /\ msg.role = role /\ msg.call = call
                 /\ msg.requests = requests /\ msg.interrupts = 0
BY DEF Msg, Message

LEMMA ResumedType == Resumed \in Message
BY DEF Resumed, Msg, Message

(* What is appended to the messages of a run. *)
LEMMA Appended ==
  ASSUME TypeOK, NEW x \in Message, messages' = Append(messages, x)
  PROVE  /\ messages' \in Seq(Message) /\ Len(messages) \in Nat
         /\ Len(messages') = Len(messages) + 1
         /\ \A i \in 1..Len(messages) : messages'[i] = messages[i]
         /\ messages'[Len(messages) + 1] = x
BY LenProperties DEF TypeOK

LEMMA ShapeNumbers ==
  ASSUME TypeOK, NEW sys, NEW lead, NEW n, NEW open,
         RunShape(sys, lead, n, open)
  PROVE  /\ sys \in 0..1 /\ lead \in 0..1 /\ open \in 0..1 /\ n \in Nat
         /\ open <= n /\ Given \in Nat /\ Len(stored) \in Nat
         /\ Len(stored) <= Given /\ (kind = "message" => Given > 0)
         /\ Len(messages) = sys + Given + lead + 2 * n - open
         /\ sys + Given + lead \in Nat
<1>1. /\ Len(stored) \in Nat /\ User \in 0..1 /\ Given = Len(stored) + User
      /\ (User = 1 <=> kind = "message")
  BY GivenFact
<1> QED
  BY <1>1 DEF RunShape

LEMMA ShapeNext ==
  ASSUME UNCHANGED <<stored, kind>>, NEW sys, NEW lead, NEW n, NEW open
  PROVE  /\ Given' = Given
         /\ Latest' = messages'[Len(messages')]
         /\ RunShape(sys, lead, n, open)' <=>
              /\ sys \in 0..1 /\ lead \in 0..1 /\ open \in 0..1 /\ n \in Nat
              /\ open <= n
              /\ Len(messages') = sys + Given + lead + 2 * n - open
              /\ Starts(messages', sys, lead)
              /\ Rounds(messages', sys + Given + lead, n, open)
<1>1. Given' = Given
  BY DEF Given
<1>2. Starts(messages, sys, lead)' <=> Starts(messages', sys, lead)
  BY <1>1 DEF Starts
<1>3. Rounds(messages, sys + Given + lead, n, open)'
        <=> Rounds(messages', sys + Given + lead, n, open)
  BY <1>1 DEF Rounds
<1> QED
  BY <1>1, <1>2, <1>3 DEF RunShape, Latest

(* A run that goes on starts with what it was given. *)
LEMMA StartsKept ==
  ASSUME TypeOK, NEW sys \in 0..1, NEW lead \in 0..1, NEW msgs,
         Starts(messages, sys, lead),
         \A i \in 1..(sys + Given + lead) : msgs[i] = messages[i]
  PROVE  Starts(msgs, sys, lead)
<1>1. /\ Len(stored) \in Nat /\ User \in 0..1 /\ Given = Len(stored) + User
      /\ (User = 1 <=> kind = "message")
  BY GivenFact
<1>2. sys = 1 => 1 \in 1..(sys + Given + lead)
  BY <1>1
<1>3. \A i \in 1..Len(stored) : sys + i \in 1..(sys + Given + lead)
  BY <1>1
<1>4. kind = "message" => sys + Given \in 1..(sys + Given + lead)
  BY <1>1
<1>5. lead = 1 => sys + Given + lead \in 1..(sys + Given + lead)
  BY <1>1
<1> QED
  BY <1>2, <1>3, <1>4, <1>5 DEF Starts

(* So it goes on with the model messages it has. *)
LEMMA RoundsKept ==
  ASSUME NEW base \in Nat, NEW n \in Nat, NEW open \in 0..1, open <= n,
         NEW len, len = base + 2 * n - open, NEW msgs, NEW old,
         Rounds(old, base, n, open), \A i \in 1..len : msgs[i] = old[i]
  PROVE  Rounds(msgs, base, n, open)
<1>1. ASSUME NEW k \in 1..n
      PROVE  msgs[base + 2 * k - 1] = old[base + 2 * k - 1]
  <2>1. base + 2 * k - 1 \in 1..len
    OBVIOUS
  <2> QED
    BY <2>1
<1>2. ASSUME NEW k \in 1..(n - open)
      PROVE  msgs[base + 2 * k] = old[base + 2 * k] /\ k \in 1..n
  <2>1. base + 2 * k \in 1..len /\ k \in 1..n
    OBVIOUS
  <2> QED
    BY <2>1
<1>3. \A k \in 1..n : /\ msgs[base + 2 * k - 1].role = "model"
                     /\ msgs[base + 2 * k - 1].call = k
  BY <1>1 DEF Rounds
<1>4. \A k \in 1..(n - open) : /\ msgs[base + 2 * k - 1].interrupts = 0
                              /\ msgs[base + 2 * k] = Msg("tool", k)
  BY <1>1, <1>2 DEF Rounds
<1> QED
  BY <1>3, <1>4 DEF Rounds

(* A model message opens a round, a tool message closes it. *)
LEMMA ModelAppended ==
  ASSUME TypeOK, NEW sys, NEW lead, NEW n, RunShape(sys, lead, n, 0),
         NEW x \in Message, x.role = "model", x.call = n + 1,
         messages' = Append(messages, x), UNCHANGED <<stored, kind>>
  PROVE  RunShape(sys, lead, n + 1, 1)'
<1> DEFINE base == sys + Given + lead
           len == Len(messages)
<1>1. /\ sys \in 0..1 /\ lead \in 0..1 /\ n \in Nat /\ Given \in Nat
      /\ len = base + 2 * n - 0 /\ base \in Nat
  BY ShapeNumbers
<1>2. /\ Len(messages') = len + 1 /\ messages'[len + 1] = x
      /\ \A i \in 1..len : messages'[i] = messages[i]
  BY Appended
<1>3. Starts(messages, sys, lead) /\ Rounds(messages, base, n, 0)
  BY DEF RunShape
<1>4. Starts(messages', sys, lead)
  <2>1. \A i \in 1..base : i \in 1..len
    BY <1>1
  <2> QED
    BY <1>1, <1>2, <1>3, <2>1, StartsKept
<1>5. Rounds(messages', base, n, 0)
  <2> DEFINE zero == 0
  <2>1. /\ Rounds(messages, base, n, zero) /\ zero \in 0..1 /\ zero <= n
        /\ len = base + 2 * n - zero
    BY <1>1, <1>3
  <2> HIDE DEF base, len, zero
  <2>2. Rounds(messages', base, n, zero)
    BY <1>1, <1>2, <2>1, RoundsKept
  <2> QED
    BY <2>2 DEF zero
<1> HIDE DEF base
<1>6. messages'[base + 2 * (n + 1) - 1] = x
  <2>1. base + 2 * (n + 1) - 1 = len + 1
    BY <1>1
  <2> QED
    BY <1>2, <2>1
<1>7. Rounds(messages', base, n + 1, 1)
  <2>1. \A k \in 1..(n + 1) : k \in 1..n \/ k = n + 1
    BY <1>1
  <2>2. (n + 1) - 1 = n /\ n - 0 = n
    BY <1>1
  <2> QED
    BY <1>5, <1>6, <2>1, <2>2 DEF Rounds
<1> DEFINE m == n + 1
<1>8. Len(messages') = base + 2 * m - 1 /\ m \in Nat /\ 1 <= m
  BY <1>1, <1>2
<1>9. Rounds(messages', base, m, 1)
  BY <1>7
<1>10. RunShape(sys, lead, m, 1)'
  <2> DEFINE one == 1
  <2>1. /\ Len(messages') = base + 2 * m - one /\ m \in Nat /\ one <= m
        /\ Rounds(messages', base, m, one) /\ one \in 0..1
    BY <1>8, <1>9
  <2> HIDE DEF m, one
  <2>2. RunShape(sys, lead, m, one)'
    BY <1>1, <1>4, <2>1, ShapeNext DEF base
  <2> QED
    BY <2>2 DEF one
<1> HIDE DEF m
<1> QED
  BY <1>10 DEF m

LEMMA ToolAppended ==
  ASSUME TypeOK, NEW sys, NEW lead, NEW n, RunShape(sys, lead, n, 1),
         Latest.interrupts = 0,
         messages' = Append(messages, Msg("tool", n)),
         UNCHANGED <<stored, kind>>
  PROVE  RunShape(sys, lead, n, 0)'
<1> DEFINE base == sys + Given + lead
           len == Len(messages)
<1>1. /\ sys \in 0..1 /\ lead \in 0..1 /\ n \in Nat /\ 1 <= n /\ Given \in Nat
      /\ len = base + 2 * n - 1 /\ base \in Nat
  BY ShapeNumbers
<1>2. /\ Len(messages') = len + 1 /\ messages'[len + 1] = Msg("tool", n)
      /\ \A i \in 1..len : messages'[i] = messages[i]
  <2>1. Msg("tool", n) \in Message
    BY <1>1, MsgType
  <2> QED
    BY <2>1, Appended
<1>3. Starts(messages, sys, lead) /\ Rounds(messages, base, n, 1)
  BY DEF RunShape
<1>4. Starts(messages', sys, lead)
  <2>1. \A i \in 1..base : i \in 1..len
    BY <1>1
  <2> QED
    BY <1>1, <1>2, <1>3, <2>1, StartsKept
<1>5. Rounds(messages', base, n, 1)
  <2> DEFINE one == 1
  <2>1. /\ Rounds(messages, base, n, one) /\ one \in 0..1 /\ one <= n
        /\ len = base + 2 * n - one
    BY <1>1, <1>3
  <2> HIDE DEF base, len, one
  <2>2. Rounds(messages', base, n, one)
    BY <1>1, <1>2, <2>1, RoundsKept
  <2> QED
    BY <2>2 DEF one
<1> HIDE DEF base
<1>6. messages'[base + 2 * n] = Msg("tool", n)
  <2>1. base + 2 * n = len + 1
    BY <1>1
  <2> QED
    BY <1>2, <2>1
<1>7. messages'[base + 2 * n - 1].interrupts = 0
  <2>1. len \in 1..len /\ base + 2 * n - 1 = len
    BY <1>1
  <2> QED
    BY <1>2, <2>1 DEF Latest
<1>8. Rounds(messages', base, n, 0)
  <2>1. \A k \in 1..n : k \in 1..(n - 1) \/ k = n
    BY <1>1
  <2>2. n - 0 = n
    BY <1>1
  <2> QED
    BY <1>5, <1>6, <1>7, <2>1, <2>2 DEF Rounds
<1>9. Len(messages') = base + 2 * n - 0
  BY <1>1, <1>2
<1> QED
  BY <1>1, <1>4, <1>8, <1>9, ShapeNext DEF base

LEMMA ResumedAppended ==
  ASSUME TypeOK, NEW sys, RunShape(sys, 0, 0, 0),
         messages' = Append(messages, Resumed), UNCHANGED <<stored, kind>>
  PROVE  RunShape(sys, 1, 0, 0)'
<1> DEFINE base == sys + Given
           len == Len(messages)
           zero == 0
<1>1. /\ sys \in 0..1 /\ Given \in Nat /\ base \in Nat /\ len = base
  <2>1. RunShape(sys, zero, zero, zero)
    OBVIOUS
  <2> HIDE DEF zero
  <2>2. /\ sys \in 0..1 /\ Given \in Nat
        /\ len = sys + Given + zero + 2 * zero - zero
    BY <2>1, ShapeNumbers
  <2> QED
    BY <2>2 DEF zero
<1>2. /\ Len(messages') = len + 1 /\ messages'[len + 1] = Resumed
      /\ \A i \in 1..len : messages'[i] = messages[i]
  BY Appended, ResumedType
<1>3. Starts(messages, sys, zero)
  BY DEF RunShape
<1>4. Starts(messages', sys, zero)
  <2>1. \A i \in 1..(sys + Given + zero) : messages'[i] = messages[i]
    BY <1>1, <1>2
  <2>2. zero \in 0..1
    OBVIOUS
  <2> HIDE DEF zero
  <2> QED
    BY <1>1, <1>3, <2>1, <2>2, StartsKept
<1>5. Starts(messages', sys, 1)
  BY <1>1, <1>2, <1>4 DEF Starts
<1> DEFINE one == 1
<1>6. Rounds(messages', sys + Given + one, zero, zero)
  BY DEF Rounds
<1>7. /\ Len(messages') = sys + Given + one + 2 * zero - zero
      /\ zero \in 0..1 /\ one \in 0..1 /\ zero \in Nat /\ zero <= zero
      /\ Starts(messages', sys, one)
  BY <1>1, <1>2, <1>5
<1>8. RunShape(sys, one, zero, zero)'
  <2> HIDE DEF zero, one
  <2> QED
    BY <1>1, <1>6, <1>7, ShapeNext
<1> QED
  BY <1>8

(* A new round has no record yet. *)
LEMMA RoundOpened ==
  ASSUME NEW recorded, Len(recorded) \in Nat, NEW n \in Nat,
         NEW cut, RecordsCut(recorded, cut, n),
         NEW base \in Nat, NEW old, AsManyAsAsked(old, cut, base, n, 0),
         NEW msgs, \A i \in 1..(base + 2 * n) : msgs[i] = old[i],
         NEW m, m = n + 1
  PROVE  \E c : /\ RecordsCut(recorded, c, m)
                /\ AsManyAsAsked(msgs, c, base, m,
                                 msgs[base + 2 * m - 1].requests)
<1> DEFINE total == Len(recorded)
           c == [k \in 0..m |-> IF k = m THEN total ELSE cut[k]]
           asked == msgs[base + 2 * m - 1].requests
<1>1. /\ cut \in [0..n -> 0..total]
      /\ cut[0] = 0 /\ cut[n] = total
      /\ \A i \in 1..total : recorded[i].call \in 1..n
      /\ \A k \in 1..n, i \in 1..total :
           recorded[i].call = k <=> cut[k - 1] < i /\ i <= cut[k]
  BY DEF RecordsCut
<1>2. /\ c \in [0..m -> 0..total] /\ c[0] = 0 /\ c[m] = total /\ c[n] = total
      /\ \A k \in 0..n : c[k] = cut[k]
      /\ m \in Nat /\ m - 1 = n
  BY <1>1
<1> HIDE DEF c
<1>3. \A i \in 1..total : recorded[i].call \in 1..m /\ recorded[i].call # m
  BY <1>1
<1>4. ASSUME NEW k \in 1..m, NEW i \in 1..total
      PROVE  recorded[i].call = k <=> c[k - 1] < i /\ i <= c[k]
  <2>1. CASE k = m
    BY <1>2, <1>3, <2>1
  <2>2. CASE k # m
    <3>1. k \in 1..n /\ k \in 0..n /\ k - 1 \in 0..n
      BY <2>2
    <3> QED
      BY <1>1, <1>2, <3>1
  <2> QED
    BY <2>1, <2>2
<1>5. RecordsCut(recorded, c, m)
  BY <1>2, <1>3, <1>4 DEF RecordsCut
<1>6. ASSUME NEW k \in 1..m
      PROVE  c[k - 1] + msgs[base + 2 * k - 1].requests
               = c[k] + (IF k = m THEN asked ELSE 0)
  <2>1. CASE k = m
    BY <1>2, <2>1
  <2>2. CASE k # m
    <3>1. /\ k \in 1..n /\ k \in 0..n /\ k - 1 \in 0..n
          /\ base + 2 * k - 1 \in 1..(base + 2 * n)
      BY <2>2
    <3>2. cut[k - 1] + old[base + 2 * k - 1].requests
            = cut[k] + (IF k = n THEN 0 ELSE 0)
      BY <3>1 DEF AsManyAsAsked
    <3>3. msgs[base + 2 * k - 1] = old[base + 2 * k - 1]
      BY <3>1
    <3>4. c[k - 1] = cut[k - 1] /\ c[k] = cut[k]
      BY <1>2, <3>1
    <3> QED
      BY <2>2, <3>2, <3>3, <3>4
  <2> QED
    BY <2>1, <2>2
<1>7. AsManyAsAsked(msgs, c, base, m, asked)
  BY <1>6 DEF AsManyAsAsked
<1> QED
  BY <1>5, <1>7

(* A tool that ends is recorded with the round it was asked for in. *)
LEMMA ToolRecorded ==
  ASSUME NEW S, NEW recorded \in Seq(S), NEW n \in Nat, n > 0,
         NEW cut, RecordsCut(recorded, cut, n),
         NEW base, NEW msgs, NEW missing \in Nat,
         AsManyAsAsked(msgs, cut, base, n, missing + 1),
         NEW record \in S, record.call = n
  PROVE  \E c : /\ RecordsCut(Append(recorded, record), c, n)
                /\ AsManyAsAsked(msgs, c, base, n, missing)
<1> DEFINE total == Len(recorded)
           more == Append(recorded, record)
           c == [k \in 0..n |-> IF k = n THEN total + 1 ELSE cut[k]]
<1>1. /\ cut \in [0..n -> 0..total]
      /\ cut[0] = 0 /\ cut[n] = total
      /\ \A i \in 1..total : recorded[i].call \in 1..n
      /\ \A k \in 1..n, i \in 1..total :
           recorded[i].call = k <=> cut[k - 1] < i /\ i <= cut[k]
      /\ total \in Nat
  BY LenProperties DEF RecordsCut
<1>2. /\ Len(more) = total + 1 /\ more[total + 1] = record
      /\ \A i \in 1..total : more[i] = recorded[i]
  BY <1>1
<1>3. /\ c \in [0..n -> 0..(total + 1)] /\ c[0] = 0 /\ c[n] = total + 1
      /\ \A k \in 0..n : k # n => c[k] = cut[k]
  BY <1>1
<1> HIDE DEF c, more
<1>4. \A i \in 1..(total + 1) : more[i].call \in 1..n
  <2>1. \A i \in 1..(total + 1) : i \in 1..total \/ i = total + 1
    BY <1>1
  <2>2. n \in 1..n
    OBVIOUS
  <2> QED
    BY <1>1, <1>2, <2>1, <2>2
<1>5. ASSUME NEW k \in 1..n, NEW i \in 1..(total + 1)
      PROVE  more[i].call = k <=> c[k - 1] < i /\ i <= c[k]
  <2>1. k \in 0..n /\ k - 1 \in 0..n /\ k - 1 # n
    OBVIOUS
  <2>2. /\ c[k - 1] = cut[k - 1] /\ (k # n => c[k] = cut[k])
        /\ cut[k - 1] \in 0..total /\ cut[k] \in 0..total
    BY <1>1, <1>3, <2>1
  <2>3. CASE i = total + 1
    <3>1. more[i].call = n
      BY <1>2, <2>3
    <3> QED
      BY <1>1, <1>3, <2>2, <2>3, <3>1
  <2>4. CASE i # total + 1
    <3>0. total \in Nat
      BY <1>1
    <3>1. i \in 1..total
      <4> HIDE DEF total
      <4> QED
        BY <3>0, <2>4
    <3>2. more[i].call = k <=> cut[k - 1] < i /\ i <= cut[k]
      BY <1>1, <1>2, <3>1
    <3> QED
      BY <1>1, <1>3, <2>2, <3>1, <3>2
  <2> QED
    BY <2>3, <2>4
<1>6. RecordsCut(more, c, n)
  BY <1>2, <1>3, <1>4, <1>5 DEF RecordsCut
<1>7. ASSUME NEW k \in 1..n
      PROVE  c[k - 1] + msgs[base + 2 * k - 1].requests
               = c[k] + (IF k = n THEN missing ELSE 0)
  <2>1. k \in 0..n /\ k - 1 \in 0..n /\ k - 1 # n
    OBVIOUS
  <2>2. cut[k - 1] + msgs[base + 2 * k - 1].requests
          = cut[k] + (IF k = n THEN missing + 1 ELSE 0)
    BY DEF AsManyAsAsked
  <2>3. c[k - 1] = cut[k - 1] /\ (k # n => c[k] = cut[k])
    BY <1>3, <2>1
  <2>4. CASE k = n
    <3>1. total + (missing + 1) = (total + 1) + missing
      BY <1>1
    <3> QED
      BY <1>1, <1>3, <2>2, <2>3, <2>4, <3>1
  <2>5. CASE k # n
    BY <2>2, <2>3, <2>5
  <2> QED
    BY <2>4, <2>5
<1>8. AsManyAsAsked(msgs, c, base, n, missing)
  BY <1>7 DEF AsManyAsAsked
<1> QED
  BY <1>6, <1>8 DEF more

(* How many requests a message has is all that counts here. *)
LEMMA AskedKept ==
  ASSUME NEW n \in Nat, NEW base \in Nat, NEW cut, NEW old, NEW msgs,
         NEW missing, AsManyAsAsked(old, cut, base, n, missing),
         NEW len, base + 2 * n - 1 <= len, len \in Nat,
         \A i \in 1..len : msgs[i].requests = old[i].requests
  PROVE  AsManyAsAsked(msgs, cut, base, n, missing)
<1>1. \A k \in 1..n : base + 2 * k - 1 \in 1..len
  OBVIOUS
<1> QED
  BY <1>1 DEF AsManyAsAsked

LEMMA NothingRecorded ==
  ASSUME NEW recorded, recorded = <<>>, NEW msgs, NEW base, NEW missing
  PROVE  \E c : /\ RecordsCut(recorded, c, 0)
                /\ AsManyAsAsked(msgs, c, base, 0, missing)
<1> DEFINE c == [k \in 0..0 |-> 0]
<1>1. RecordsCut(recorded, c, 0)
  BY DEF RecordsCut
<1>2. AsManyAsAsked(msgs, c, base, 0, missing)
  BY DEF AsManyAsAsked
<1> QED
  BY <1>1, <1>2

-----------------------------------------------------------------------------
(* Every action keeps it *)

LEMMA RecordedNext ==
  ASSUME UNCHANGED <<stored, kind>>, NEW cut, NEW sys, NEW lead, NEW n
  PROVE  Recorded(cut, sys + Given + lead, n)' <=>
           /\ RecordsCut(toolRecords', cut, n)
           /\ AsManyAsAsked(messages', cut, sys + Given + lead, n,
                            Cardinality(running'))
<1>1. Given' = Given
  BY DEF Given
<1>2. RecordsCut(toolRecords, cut, n)' <=> RecordsCut(toolRecords', cut, n)
  BY DEF RecordsCut
<1>3. AsManyAsAsked(messages, cut, sys + Given + lead, n,
                    Cardinality(running))'
        <=> AsManyAsAsked(messages', cut, sys + Given + lead, n,
                          Cardinality(running'))
  BY <1>1 DEF AsManyAsAsked
<1> QED
  BY <1>2, <1>3 DEF Recorded

(* Nothing is recorded before the first model call. *)
LEMMA NoneRecorded ==
  ASSUME NEW sys, NEW lead, NEW n, n = 0, toolRecords' = <<>>
  PROVE  \E cut : Recorded(cut, sys + Given + lead, n)'
<1> DEFINE msgs == messages'
           base == sys + Given' + lead
           missing == Cardinality(running')
<1>1. PICK cut : /\ RecordsCut(toolRecords', cut, 0)
                 /\ AsManyAsAsked(msgs, cut, base, 0, missing)
  <2> HIDE DEF msgs, base, missing
  <2> QED
    BY NothingRecorded
<1>2. RecordsCut(toolRecords, cut, n)'
  BY <1>1 DEF RecordsCut
<1>3. AsManyAsAsked(messages, cut, sys + Given + lead, n,
                    Cardinality(running))'
  BY <1>1 DEF AsManyAsAsked
<1>4. Recorded(cut, sys + Given + lead, n)'
  BY <1>2, <1>3 DEF Recorded
<1> QED
  BY <1>4

LEMMA RecordType ==
  ASSUME NEW b \in BOOLEAN, NEW recorded,
         \/ recorded = <<>>
         \/ recorded = <<[call |-> 0, tool |-> 1, interrupted |-> b]>>
  PROVE  recorded \in Seq(ToolRecord)
<1> DEFINE r == [call |-> 0, tool |-> 1, interrupted |-> b]
<1>1. r \in ToolRecord
  BY DEF ToolRecord
<1> HIDE DEF r
<1>2. <<r>> \in Seq(ToolRecord) /\ <<>> \in Seq(ToolRecord)
  BY <1>1
<1> QED
  BY <1>2 DEF r

LEMMA Joined ==
  ASSUME NEW S, NEW a \in Seq(S), NEW b \in Seq(S)
  PROVE  /\ a \o b \in Seq(S) /\ Len(a \o b) = Len(a) + Len(b)
         /\ \A i \in 1..Len(a) : (a \o b)[i] = a[i]
         /\ \A i \in 1..Len(b) : (a \o b)[Len(a) + i] = b[i]
OBVIOUS

(* What is left to show when an action goes to pc'. *)
LEMMA ToModel ==
  ASSUME pc' = "model", running' = {}, modelCalls' <= MaxTurns,
         NEW sys, NEW lead, NEW n, n = modelCalls',
         RunShape(sys, lead, n, 0)',
         ~restarted' => \E cut : Recorded(cut, sys + Given + lead, n)'
  PROVE  IInv'
BY DEF IInv, Going

LEMMA ToTools ==
  ASSUME pc' = "tools", modelCalls' <= MaxTurns, Latest'.interrupts = 0,
         NEW sys, NEW lead, NEW n, n = modelCalls',
         RunShape(sys, lead, n, 1)',
         ~restarted' => \E cut : Recorded(cut, sys + Given + lead, n)'
  PROVE  IInv'
BY DEF IInv, Going

LEMMA ToDone ==
  ASSUME pc' = "done", running' = {},
         Latest'.interrupts > 0 \/ Latest'.requests = 0,
         NEW sys, NEW lead, NEW n, RunShape(sys, lead, n, 1)',
         ~restarted' => \E cut : Recorded(cut, sys + Given + lead, n)'
  PROVE  IInv'
BY DEF IInv, Going

(* A run begins with what it was given. *)
LEMMA BeginStep ==
  ASSUME TypeOK, IInv, NEW k \in Kinds, NEW system \in BOOLEAN,
         Begin(k, system)
  PROVE  TypeOK' /\ IInv'
<1> DEFINE s == IF system THEN 1 ELSE 0
           u == IF k = "message" THEN 1 ELSE 0
           pre == IF system THEN <<Msg("system", 0)>> ELSE <<>>
           post == IF k = "message" THEN <<Msg("user", 1)>> ELSE <<>>
           len == Len(stored)
<1>1. /\ kind' = k /\ messages' = pre \o stored \o post /\ stored' = stored
      /\ modelCalls' = 0 /\ toolRecords' = <<>> /\ restarted' = FALSE
      /\ pc' = IF k = "resume" THEN "resume" ELSE "model"
      /\ running' = {}
  BY DEF Begin, IInv
<1>2. Msg("system", 0) \in Message /\ Msg("user", 1) \in Message
  BY MsgType
<1>3. /\ pre \in Seq(Message) /\ post \in Seq(Message)
      /\ Len(pre) = s /\ Len(post) = u
      /\ s \in 0..1 /\ u \in 0..1
      /\ s = 1 => pre[1] = Msg("system", 0)
      /\ u = 1 => post[1] = Msg("user", 1)
      /\ u = 1 <=> k = "message"
  BY <1>2
<1>4. stored \in Seq(Message) /\ len \in Nat
  BY LenProperties DEF TypeOK
<1> HIDE DEF pre, post, s, u
<1>5. /\ messages' \in Seq(Message)
      /\ Len(messages') = s + len + u
      /\ s = 1 => messages'[1] = Msg("system", 0)
      /\ \A i \in 1..len : messages'[s + i] = stored[i]
      /\ u = 1 => messages'[s + len + u] = Msg("user", 1)
  <2> DEFINE front == pre \o stored
  <2>1. front \in Seq(Message) /\ Len(front) = s + len
    BY <1>3, <1>4
  <2>2. /\ s = 1 => front[1] = pre[1]
        /\ \A i \in 1..len : front[s + i] = stored[i]
    BY <1>3, <1>4
  <2> HIDE DEF front
  <2>3. messages' = front \o post
    BY <1>1 DEF front
  <2>4. /\ messages' \in Seq(Message) /\ Len(messages') = s + len + u
        /\ \A i \in 1..(s + len) : messages'[i] = front[i]
        /\ u = 1 => messages'[s + len + u] = post[1]
    <3> HIDE DEF len
    <3>1. /\ messages' \in Seq(Message)
          /\ Len(messages') = Len(front) + Len(post)
          /\ \A i \in 1..Len(front) : messages'[i] = front[i]
          /\ \A i \in 1..Len(post) : messages'[Len(front) + i] = post[i]
      BY <1>3, <2>1, <2>3, Joined
    <3> QED
      BY <1>3, <1>4, <2>1, <3>1
  <2>5. /\ \A i \in 1..len : s + i \in 1..(s + len)
        /\ s = 1 => 1 \in 1..(s + len)
    BY <1>3, <1>4
  <2> QED
    BY <1>3, <2>2, <2>4, <2>5
<1>6. Given' = len + u
  BY <1>1, <1>3, <1>4 DEF Given, u
<1>7. TypeOK'
  <2>1. 0 \in 0..(MaxTurns + 1)
    BY LoopAssumption
  <2>2. toolRecords' \in Seq(ToolRecord)
    BY <1>1
  <2>3. /\ stored' \in Seq(Message) /\ running' \subseteq 1..MaxTools
        /\ \A i \in 1..Len(stored') : stored'[i].role # "system"
    BY <1>1 DEF TypeOK
  <2> QED
    BY <1>1, <1>5, <2>1, <2>2, <2>3 DEF TypeOK
<1> DEFINE zero == 0
<1>8. RunShape(s, zero, zero, zero)'
  <2>1. Starts(messages, s, zero)'
    BY <1>1, <1>3, <1>5, <1>6, MsgFields DEF Starts
  <2>2. Rounds(messages, s + Given + zero, zero, zero)'
    BY DEF Rounds
  <2>3. Len(messages') = s + Given' + zero + 2 * zero - zero
    BY <1>3, <1>4, <1>5, <1>6
  <2>4. zero \in 0..1 /\ zero \in Nat /\ zero <= zero
    OBVIOUS
  <2> HIDE DEF zero
  <2> QED
    BY <1>3, <2>1, <2>2, <2>3, <2>4 DEF RunShape
<1>9. CASE k = "resume"
  BY <1>1, <1>7, <1>8, <1>9 DEF IInv
<1>10. CASE k # "resume"
  <2>1. \E cut : Recorded(cut, s + Given + zero, zero)'
    BY <1>1, NoneRecorded
  <2>2. modelCalls' <= MaxTurns /\ zero = modelCalls'
    BY <1>1, LoopAssumption
  <2>3. RunShape(s, zero, zero, 0)'
    BY <1>8
  <2> HIDE DEF zero
  <2> QED
    BY <1>1, <1>7, <1>10, <2>1, <2>2, <2>3, ToModel
<1> QED
  BY <1>9, <1>10

LEMMA ResumeStep ==
  ASSUME TypeOK, IInv, Resume
  PROVE  TypeOK' /\ IInv'
<1>1. /\ messages' = Append(messages, Resumed) /\ pc = "resume"
      /\ pc' = "model" /\ running' = {} /\ UNCHANGED <<stored, kind>>
      /\ modelCalls = 0 /\ modelCalls' = 0 /\ toolRecords = <<>>
      /\ running = {}
  BY DEF Resume, IInv, Resumed
<1>2. /\ restarted' \in BOOLEAN
      /\ ~restarted' => toolRecords' = <<>>
      /\ toolRecords' = <<>> \/ toolRecords' = <<[call |-> 0, tool |-> 1,
                                                   interrupted |-> FALSE]>>
  BY <1>1 DEF Resume, Restart, TypeOK
<1>3. PICK sys : RunShape(sys, 0, 0, 0)
  BY <1>1 DEF IInv
<1>4. RunShape(sys, 1, 0, 0)'
  BY <1>1, <1>3, ResumedAppended
<1>5. messages' \in Seq(Message)
  BY <1>1, Appended, ResumedType
<1>6. TypeOK'
  <2>1. toolRecords' \in Seq(ToolRecord)
    BY <1>2, RecordType
  <2> QED
    BY <1>1, <1>2, <1>5, <2>1 DEF TypeOK
<1> DEFINE zero == 0
           one == 1
<1>7. ~restarted' => \E cut : Recorded(cut, sys + Given + one, zero)'
  BY <1>2, NoneRecorded
<1>8. modelCalls' <= MaxTurns /\ zero = modelCalls'
  BY <1>1, LoopAssumption
<1>9. RunShape(sys, one, zero, 0)'
  BY <1>4
<1> HIDE DEF zero, one
<1> QED
  BY <1>1, <1>6, <1>7, <1>8, <1>9, ToModel

LEMMA ResumeInterruptedStep ==
  ASSUME TypeOK, IInv, ResumeInterrupted
  PROVE  TypeOK' /\ IInv'
<1> DEFINE x == [Latest EXCEPT !.interrupts = 1, !.call = 1]
           zero == 0
           one == 1
<1>1. /\ messages' = Append(History, x) /\ pc = "resume" /\ pc' = "done"
      /\ running' = {} /\ UNCHANGED <<stored, kind, modelCalls>>
      /\ restarted' = TRUE /\ toolRecords = <<>> /\ messages # <<>>
      /\ Latest.role = "model"
      /\ toolRecords' = <<>> \/ toolRecords' = <<[call |-> 0, tool |-> 1,
                                                   interrupted |-> TRUE]>>
  BY DEF ResumeInterrupted, IInv, History, CanResume, Restart
<1>2. PICK sys : RunShape(sys, 0, 0, 0)
  BY <1>1 DEF IInv
<1>3. RunShape(sys, zero, zero, zero)
  BY <1>2
<1>4. /\ sys \in 0..1 /\ Given \in Nat /\ Len(messages) = sys + Given
      /\ Len(stored) \in Nat /\ Len(stored) <= Given
      /\ kind = "message" => Given > 0
      /\ Starts(messages, sys, zero)
      /\ History \in Seq(Message) /\ Len(History) = Given
      /\ \A i \in 1..Given : History[i] = messages[sys + i]
  <2> HIDE DEF zero
  <2>1. /\ sys \in 0..1 /\ Given \in Nat
        /\ Len(messages) = sys + Given + zero + 2 * zero - zero
        /\ Len(stored) \in Nat /\ Len(stored) <= Given
        /\ kind = "message" => Given > 0
    BY <1>3, ShapeNumbers
  <2>2. Len(messages) = sys + Given
    BY <2>1 DEF zero
  <2>3. /\ History = [i \in 1..(Len(messages) - sys) |-> messages[sys + i]]
        /\ History \in Seq(Message) /\ Len(History) = Len(messages) - sys
    BY <1>3, HistoryIs
  <2>4. Len(messages) - sys = Given
    BY <2>1, <2>2
  <2>5. Starts(messages, sys, zero)
    BY <1>3 DEF RunShape
  <2> QED
    BY <2>1, <2>2, <2>3, <2>4, <2>5
<1>5. /\ x \in Message /\ x.role = "model" /\ x.call = 1 /\ x.interrupts = 1
  <2>1. Len(messages) \in 1..Len(messages)
    BY <1>1, <1>4, EmptySeq, LenProperties DEF TypeOK
  <2>2. Latest \in Message
    BY <2>1, ElementOfSeq DEF TypeOK, Latest
  <2> QED
    BY <1>1, <2>2 DEF Message
<1> HIDE DEF x
<1>6. /\ messages' \in Seq(Message) /\ Len(messages') = Given + 1
      /\ messages'[Given + 1] = x
      /\ \A i \in 1..Given : messages'[i] = messages[sys + i]
  BY <1>1, <1>4, <1>5
<1>7. TypeOK'
  <2>1. toolRecords' \in Seq(ToolRecord)
    BY <1>1, RecordType
  <2> QED
    BY <1>1, <1>6, <2>1 DEF TypeOK
<1>8. Starts(messages', zero, zero)
  <2>1. ASSUME NEW i \in 1..Len(stored)
        PROVE  messages'[zero + i] = stored[i]
    <3>1. i \in 1..Given /\ zero + i = i
      BY <1>4
    <3>2. messages[sys + i] = stored[i]
      BY <1>4 DEF Starts
    <3> QED
      BY <1>6, <3>1, <3>2
  <2>2. kind = "message" => messages'[zero + Given] = Msg("user", 1)
    BY <1>4, <1>6 DEF Starts
  <2>3. zero # 1
    OBVIOUS
  <2> HIDE DEF zero
  <2> QED
    BY <2>1, <2>2, <2>3 DEF Starts
<1>9. Rounds(messages', zero + Given + zero, one, one)
  <2>1. \A k \in 1..one : k = 1 /\ zero + Given + zero + 2 * k - 1 = Given + 1
    BY <1>4
  <2>2. 1..(one - one) = {}
    OBVIOUS
  <2> HIDE DEF zero, one
  <2> QED
    BY <1>5, <1>6, <2>1, <2>2 DEF Rounds
<1>10. RunShape(zero, zero, one, one)'
  <2>1. /\ zero \in 0..1 /\ one \in 0..1 /\ one \in Nat /\ one <= one
        /\ Len(messages') = zero + Given + zero + 2 * one - one
    BY <1>4, <1>6
  <2> HIDE DEF zero, one
  <2> QED
    BY <1>1, <1>8, <1>9, <2>1, ShapeNext
<1>11. Latest'.interrupts > 0
  BY <1>5, <1>6 DEF Latest
<1>12. RunShape(zero, zero, one, 1)'
  BY <1>10
<1> HIDE DEF zero, one
<1> QED
  BY <1>1, <1>7, <1>11, <1>12, ToDone

LEMMA CallModelStep ==
  ASSUME TypeOK, IInv, NEW requests \in 0..MaxTools, CallModel(requests)
  PROVE  TypeOK' /\ IInv'
<1>0. PICK n : n = modelCalls
  OBVIOUS
<1> DEFINE m == n + 1
           x == [Msg("model", m) EXCEPT !.requests = requests]
<1>1. /\ messages' = Append(messages, x) /\ modelCalls' = m
      /\ UNCHANGED <<stored, kind, toolRecords, restarted>>
      /\ running' = IF requests > 0 /\ m <= MaxTurns THEN 1..requests ELSE {}
      /\ pc' = IF requests = 0 THEN "done"
               ELSE IF m <= MaxTurns THEN "tools" ELSE "failed"
      /\ running = {} /\ n <= MaxTurns
  BY <1>0 DEF CallModel, IInv
<1>2. n \in Nat /\ MaxTurns \in Nat /\ requests \in Nat /\ MaxTools \in Nat
  BY <1>0, LoopAssumption DEF TypeOK
<1>3. PICK sys, lead : Going(sys, lead, n, 0)
  BY <1>0 DEF CallModel, IInv
<1>4. /\ x \in Message /\ x.role = "model" /\ x.call = n + 1
      /\ x.requests = requests /\ x.interrupts = 0
  <2>1. m \in Nat /\ "model" \in {"system", "user", "model", "tool"}
    BY <1>2
  <2> QED
    BY <1>2, <2>1, MsgType
<1> HIDE DEF x
<1>5. RunShape(sys, lead, n + 1, 1)'
  BY <1>1, <1>3, <1>4, ModelAppended DEF Going
<1>6. /\ sys \in 0..1 /\ lead \in 0..1 /\ Given \in Nat
      /\ Len(messages) = sys + Given + lead + 2 * n - 0
      /\ sys + Given + lead \in Nat
  BY <1>3, ShapeNumbers DEF Going
<1>7. /\ messages' \in Seq(Message) /\ Len(messages') = Len(messages) + 1
      /\ \A i \in 1..Len(messages) : messages'[i] = messages[i]
      /\ messages'[Len(messages) + 1] = x
  BY <1>1, <1>4, Appended
<1>8. Latest'.requests = requests /\ Latest'.interrupts = 0
  BY <1>4, <1>7 DEF Latest
<1>9. TypeOK'
  <2>1. modelCalls' \in 0..(MaxTurns + 1)
    BY <1>1, <1>2
  <2>2. running' \subseteq 1..MaxTools
    BY <1>1, <1>2
  <2>3. pc' \in {"idle", "resume", "model", "tools", "done", "failed"}
    BY <1>1
  <2> QED
    BY <1>1, <1>7, <2>1, <2>2, <2>3 DEF TypeOK
<1>10. RunShape(sys, lead, m, 1)'
  BY <1>5
<1>11. ASSUME ~restarted', Cardinality(running') = requests
       PROVE  \E cut : Recorded(cut, sys + Given + lead, m)'
  <2> DEFINE base == sys + Given + lead
             total == Len(toolRecords)
  <2>1. PICK cut : Recorded(cut, base, n)
    BY <1>1, <1>3, <1>11 DEF Going
  <2>2. total \in Nat /\ base \in Nat
    BY <1>6, LenProperties DEF TypeOK
  <2>3. /\ RecordsCut(toolRecords, cut, n)
        /\ AsManyAsAsked(messages, cut, base, n, 0)
    BY <1>1, <2>1, FS_EmptySet DEF Recorded
  <2>4. \A i \in 1..(base + 2 * n) : messages'[i] = messages[i]
    <3>1. Len(messages) = base + 2 * n
      BY <1>2, <1>6
    <3> QED
      BY <1>7, <3>1
  <2> DEFINE msgs == messages'
  <2>5. \A i \in 1..(base + 2 * n) : msgs[i] = messages[i]
    BY <2>4
  <2>6. m = n + 1
    OBVIOUS
  <2> HIDE DEF msgs, m, base
  <2>7. PICK c : /\ RecordsCut(toolRecords, c, m)
                 /\ AsManyAsAsked(msgs, c, base, m,
                                  msgs[base + 2 * m - 1].requests)
    BY <1>2, <2>2, <2>3, <2>5, <2>6, RoundOpened
  <2>8. msgs[base + 2 * m - 1].requests = requests
    <3>1. base + 2 * m - 1 = Len(messages')
      BY <1>2, <1>6, <1>7, <2>6 DEF base
    <3> QED
      BY <1>8, <3>1 DEF Latest, msgs
  <2>9. RecordsCut(toolRecords', c, m)
    BY <1>1, <2>7
  <2>10. AsManyAsAsked(messages', c, sys + Given + lead, m,
                       Cardinality(running'))
    BY <1>11, <2>7, <2>8 DEF msgs, base
  <2>11. Recorded(c, sys + Given + lead, m)'
    BY <1>1, <2>9, <2>10, RecordedNext
  <2> QED
    BY <2>11
<1> HIDE DEF m
<1>12. CASE requests = 0
  <2>1. Cardinality(running') = requests /\ running' = {}
    BY <1>1, <1>12, FS_EmptySet
  <2> QED
    BY <1>1, <1>8, <1>9, <1>10, <1>11, <1>12, <2>1, ToDone
<1>13. CASE requests # 0 /\ m <= MaxTurns
  <2>1. running' = 1..requests
    BY <1>1, <1>2, <1>13
  <2>2. Cardinality(1..requests) = requests
    <3>1. Cardinality(1..requests)
            = IF 1 <= requests THEN requests - 1 + 1 ELSE 0
      BY <1>2, FS_Interval
    <3> QED
      BY <1>2, <1>13, <3>1
  <2>3. Cardinality(running') = requests
    BY <2>1, <2>2
  <2>4. pc' = "tools" /\ modelCalls' <= MaxTurns
    BY <1>1, <1>13
  <2> QED
    BY <1>1, <1>8, <1>9, <1>10, <1>11, <2>3, <2>4, ToTools
<1>14. CASE requests # 0 /\ ~(m <= MaxTurns)
  BY <1>1, <1>9, <1>14 DEF IInv
<1> QED
  BY <1>12, <1>13, <1>14

LEMMA ToolEndsStep ==
  ASSUME TypeOK, IInv, NEW tool \in running, NEW interrupted \in BOOLEAN,
         ToolEnds(tool, interrupted)
  PROVE  TypeOK' /\ IInv'
<1> DEFINE n == modelCalls
           record == [call |-> n, tool |-> tool, interrupted |-> interrupted]
           missing == Cardinality(running')
<1>1. /\ toolRecords' = Append(toolRecords, record)
      /\ running' = running \ {tool}
      /\ UNCHANGED <<stored, kind, messages, modelCalls, restarted, pc>>
      /\ pc = "tools" /\ n <= MaxTurns /\ Latest.interrupts = 0
  BY DEF ToolEnds, IInv, request
<1>2. PICK sys, lead : Going(sys, lead, n, 1)
  BY <1>1 DEF IInv
<1>3. record \in ToolRecord /\ record.call = n
  <2>1. tool \in Nat /\ n \in Nat
    BY DEF TypeOK
  <2> QED
    BY <2>1 DEF ToolRecord
<1> HIDE DEF record
<1>4. missing \in Nat /\ Cardinality(running) = missing + 1
  <2>1. IsFiniteSet(1..MaxTools)
    BY LoopAssumption, FS_Interval
  <2>2. IsFiniteSet(running)
    BY <2>1, FS_Subset DEF TypeOK
  <2>3. /\ IsFiniteSet(running \ {tool})
        /\ Cardinality(running \ {tool}) = Cardinality(running) - 1
    BY <2>2, FS_RemoveElement
  <2>4. Cardinality(running) \in Nat /\ Cardinality(running \ {tool}) \in Nat
    BY <2>2, <2>3, FS_CardinalityType
  <2> QED
    BY <1>1, <2>3, <2>4
<1>5. /\ Given \in Nat /\ n \in Nat /\ n > 0 /\ sys \in 0..1 /\ lead \in 0..1
  <2> DEFINE one == 1
  <2>1. RunShape(sys, lead, n, one)
    BY <1>2 DEF Going
  <2> HIDE DEF one
  <2>2. /\ Given \in Nat /\ n \in Nat /\ one <= n
        /\ sys \in 0..1 /\ lead \in 0..1
    BY <2>1, ShapeNumbers
  <2> QED
    BY <2>2 DEF one
<1>6. TypeOK'
  <2>1. toolRecords' \in Seq(ToolRecord)
    BY <1>1, <1>3 DEF TypeOK
  <2>2. running' \subseteq 1..MaxTools
    BY <1>1 DEF TypeOK
  <2> QED
    BY <1>1, <2>1, <2>2 DEF TypeOK
<1>7. RunShape(sys, lead, n, 1)'
  <2>1. Given' = Given
    BY <1>1 DEF Given
  <2>2. RunShape(sys, lead, n, 1)
    BY <1>2 DEF Going
  <2> QED
    BY <1>1, <2>1, <2>2 DEF RunShape, Starts, Rounds
<1>8. ASSUME ~restarted'
      PROVE  \E cut : Recorded(cut, sys + Given + lead, modelCalls)'
  <2> DEFINE base == sys + Given + lead
  <2>1. PICK cut : Recorded(cut, base, n)
    BY <1>1, <1>2, <1>8 DEF Going
  <2>2. /\ RecordsCut(toolRecords, cut, n)
        /\ AsManyAsAsked(messages, cut, base, n, missing + 1)
    BY <1>4, <2>1 DEF Recorded
  <2>3. toolRecords \in Seq(ToolRecord)
    BY DEF TypeOK
  <2> HIDE DEF missing, base
  <2>4. PICK c : /\ RecordsCut(Append(toolRecords, record), c, n)
                 /\ AsManyAsAsked(messages, c, base, n, missing)
    BY <1>3, <1>4, <1>5, <2>2, <2>3, ToolRecorded
  <2>5. Given' = Given
    BY <1>1 DEF Given
  <2>6. RecordsCut(toolRecords, c, modelCalls)'
    BY <1>1, <2>4 DEF RecordsCut
  <2>7. AsManyAsAsked(messages, c, sys + Given + lead, modelCalls,
                      Cardinality(running))'
    BY <1>1, <2>4, <2>5 DEF AsManyAsAsked, missing, base
  <2>8. Recorded(c, sys + Given + lead, modelCalls)'
    BY <2>6, <2>7 DEF Recorded
  <2> QED
    BY <2>8
<1>9. Going(sys, lead, modelCalls, 1)'
  <2>1. RunShape(sys, lead, modelCalls, 1)'
    BY <1>1, <1>7 DEF RunShape
  <2> QED
    BY <1>8, <2>1 DEF Going
<1>10. Latest' = Latest
  BY <1>1 DEF Latest
<1> QED
  BY <1>1, <1>6, <1>9, <1>10 DEF IInv

LEMMA ToolsAnswerStep ==
  ASSUME TypeOK, IInv, ToolsAnswer
  PROVE  TypeOK' /\ IInv'
<1> DEFINE n == modelCalls
           x == Msg("tool", n)
<1>1. /\ messages' = Append(messages, x) /\ pc = "tools" /\ pc' = "model"
      /\ running = {} /\ running' = {}
      /\ UNCHANGED <<stored, kind, modelCalls, toolRecords, restarted>>
      /\ n <= MaxTurns /\ Latest.interrupts = 0
  BY DEF ToolsAnswer, IInv, records
<1>2. PICK sys, lead : Going(sys, lead, n, 1)
  BY <1>1 DEF IInv
<1>3. n \in Nat
  BY DEF TypeOK
<1>4. x \in Message
  BY <1>3, MsgType
<1>5. RunShape(sys, lead, n, 0)'
  BY <1>1, <1>2, ToolAppended DEF Going
<1>6. /\ messages' \in Seq(Message) /\ Len(messages) \in Nat
      /\ \A i \in 1..Len(messages) : messages'[i] = messages[i]
  BY <1>1, <1>4, Appended
<1>7. TypeOK'
  BY <1>1, <1>6 DEF TypeOK
<1>8. ASSUME ~restarted'
      PROVE  \E cut : Recorded(cut, sys + Given + lead, n)'
  <2> DEFINE base == sys + Given + lead
             msgs == messages'
             len == Len(messages)
             missing == Cardinality(running)
  <2>1. PICK cut : Recorded(cut, base, n)
    BY <1>1, <1>2, <1>8 DEF Going
  <2>2. base \in Nat /\ len \in Nat /\ base + 2 * n - 1 <= len
    BY <1>2, <1>3, ShapeNumbers DEF Going
  <2>3. /\ RecordsCut(toolRecords, cut, n)
        /\ AsManyAsAsked(messages, cut, base, n, missing)
    BY <2>1 DEF Recorded
  <2>4. \A i \in 1..len : msgs[i].requests = messages[i].requests
    BY <1>6
  <2> HIDE DEF base, msgs, len, missing
  <2>5. AsManyAsAsked(msgs, cut, base, n, missing)
    BY <1>3, <2>2, <2>3, <2>4, AskedKept
  <2>6. /\ RecordsCut(toolRecords', cut, n)
        /\ AsManyAsAsked(messages', cut, base, n, Cardinality(running'))
    BY <1>1, <2>3, <2>5 DEF msgs, missing
  <2>7. Recorded(cut, sys + Given + lead, n)'
    BY <1>1, <2>6, RecordedNext DEF base
  <2> QED
    BY <2>7
<1> QED
  BY <1>1, <1>5, <1>7, <1>8, ToModel

LEMMA ToolsInterruptStep ==
  ASSUME TypeOK, IInv, ToolsInterrupt
  PROVE  TypeOK' /\ IInv'
<1>0. PICK n : n = modelCalls
  OBVIOUS
<1> DEFINE len == Len(messages)
           x == [messages[len] EXCEPT !.interrupts = Interrupts]
<1>1. /\ messages' = [messages EXCEPT ![len].interrupts = Interrupts]
      /\ pc = "tools" /\ pc' = "done" /\ Interrupts > 0
      /\ running = {} /\ running' = {} /\ modelCalls' = n
      /\ UNCHANGED <<stored, kind, modelCalls, toolRecords, restarted>>
  BY <1>0 DEF ToolsInterrupt, IInv, records
<1>2. PICK sys, lead : Going(sys, lead, n, 1)
  BY <1>0, <1>1 DEF IInv
<1>3. /\ sys \in 0..1 /\ lead \in 0..1 /\ n \in Nat /\ n > 0
      /\ len = sys + Given + lead + 2 * n - 1
      /\ sys + Given + lead \in Nat /\ len \in Nat /\ len > 0
      /\ Starts(messages, sys, lead)
      /\ Rounds(messages, sys + Given + lead, n, 1)
  <2> DEFINE one == 1
  <2>1. RunShape(sys, lead, n, one)
    BY <1>2 DEF Going
  <2>2. /\ Starts(messages, sys, lead)
        /\ Rounds(messages, sys + Given + lead, n, 1)
    BY <2>1 DEF RunShape
  <2> HIDE DEF one
  <2>3. /\ sys \in 0..1 /\ lead \in 0..1 /\ n \in Nat /\ one <= n
        /\ len = sys + Given + lead + 2 * n - one
        /\ sys + Given + lead \in Nat
    BY <2>1, ShapeNumbers
  <2> QED
    BY <2>2, <2>3 DEF one
<1>4. Interrupts \in Nat
  <2> DEFINE places == 1..Len(toolRecords)
             of == {i \in places : /\ toolRecords[i].call = modelCalls
                                   /\ toolRecords[i].interrupted}
  <2>1. Len(toolRecords) \in Nat
    BY LenProperties DEF TypeOK
  <2>2. IsFiniteSet(places)
    BY <2>1, FS_Interval
  <2>3. of \subseteq places
    OBVIOUS
  <2> HIDE DEF places
  <2>4. IsFiniteSet(of)
    BY <2>2, <2>3, FS_Subset
  <2>5. Cardinality(of) \in Nat
    BY <2>4, FS_CardinalityType
  <2> QED
    BY <2>5 DEF Interrupts, places
<1>5. messages \in Seq(Message) /\ len \in 1..len /\ messages[len] \in Message
  BY <1>3, ElementOfSeq DEF TypeOK
<1>6. /\ x \in Message /\ x.interrupts = Interrupts
      /\ x.role = messages[len].role
      /\ x.call = messages[len].call /\ x.requests = messages[len].requests
  BY <1>4, <1>5 DEF Message
<1>7. /\ messages' \in Seq(Message) /\ Len(messages') = len
      /\ messages'[len] = x
      /\ \A i \in 1..len : i # len => messages'[i] = messages[i]
  <2> HIDE DEF x
  <2>1. messages' = [messages EXCEPT ![len] = x]
    BY <1>1 DEF x
  <2> QED
    BY <1>5, <1>6, <2>1, ExceptSeq
<1> HIDE DEF x
<1>8. TypeOK'
  BY <1>1, <1>7 DEF TypeOK
<1> DEFINE base == sys + Given + lead
           msgs == messages'
<1>9. Starts(msgs, sys, lead)
  <2>1. \A i \in 1..base : i \in 1..len /\ i # len
    <3> HIDE DEF base
    <3>1. len = base + 2 * n - 1 /\ base \in Nat
      BY <1>3 DEF base
    <3> HIDE DEF len
    <3> QED
      BY <1>3, <3>1
  <2>2. \A i \in 1..base : msgs[i] = messages[i]
    BY <1>7, <2>1
  <2> HIDE DEF msgs
  <2> QED
    BY <1>3, <2>2, StartsKept
<1>10. /\ \A i \in 1..len : /\ msgs[i].role = messages[i].role
                            /\ msgs[i].call = messages[i].call
                            /\ msgs[i].requests = messages[i].requests
  BY <1>6, <1>7
<1>11. Rounds(msgs, base, n, 1)
  <2>1. len = base + 2 * n - 1 /\ base \in Nat
    BY <1>3
  <2> HIDE DEF base, msgs, len
  <2>2. \A k \in 1..n : base + 2 * k - 1 \in 1..len
    BY <1>3, <2>1
  <2>3. \A k \in 1..(n - 1) :
          /\ base + 2 * k - 1 \in 1..len /\ base + 2 * k - 1 # len
          /\ base + 2 * k \in 1..len /\ base + 2 * k # len
    BY <1>3, <2>1
  <2>4. \A i \in 1..len : i # len => msgs[i] = messages[i]
    BY <1>7 DEF msgs
  <2>5. Rounds(messages, base, n, 1)
    BY <1>3 DEF base
  <2>6. \A k \in 1..n : /\ msgs[base + 2 * k - 1].role = "model"
                       /\ msgs[base + 2 * k - 1].call = k
    BY <1>10, <2>2, <2>5 DEF Rounds
  <2>7. \A k \in 1..(n - 1) : /\ msgs[base + 2 * k - 1].interrupts = 0
                             /\ msgs[base + 2 * k] = Msg("tool", k)
    BY <2>3, <2>4, <2>5 DEF Rounds
  <2> QED
    BY <2>6, <2>7 DEF Rounds
<1>12. RunShape(sys, lead, n, 1)'
  <2> DEFINE one == 1
  <2>1. /\ one \in 0..1 /\ one <= n
        /\ Len(messages') = sys + Given + lead + 2 * n - one
        /\ Rounds(messages', sys + Given + lead, n, one)
    BY <1>3, <1>7, <1>11
  <2> HIDE DEF one
  <2>2. RunShape(sys, lead, n, one)'
    BY <1>1, <1>3, <1>9, <2>1, ShapeNext
  <2> QED
    BY <2>2 DEF one
<1>13. Latest'.interrupts > 0
  BY <1>1, <1>6, <1>7 DEF Latest
<1>14. ASSUME ~restarted'
       PROVE  \E cut : Recorded(cut, sys + Given + lead, n)'
  <2> DEFINE missing == Cardinality(running)
  <2>1. PICK cut : Recorded(cut, base, n)
    BY <1>1, <1>2, <1>14 DEF Going
  <2>2. base \in Nat /\ len \in Nat /\ base + 2 * n - 1 <= len
    BY <1>3
  <2>3. /\ RecordsCut(toolRecords, cut, n)
        /\ AsManyAsAsked(messages, cut, base, n, missing)
    BY <2>1 DEF Recorded
  <2> HIDE DEF base, msgs, len, missing
  <2>4. AsManyAsAsked(msgs, cut, base, n, missing)
    BY <1>3, <1>10, <2>2, <2>3, AskedKept
  <2>5. /\ RecordsCut(toolRecords', cut, n)
        /\ AsManyAsAsked(messages', cut, base, n, Cardinality(running'))
    BY <1>1, <2>3, <2>4 DEF msgs, missing
  <2>6. Recorded(cut, sys + Given + lead, n)'
    BY <1>1, <2>5, RecordedNext DEF base
  <2> QED
    BY <2>6
<1> QED
  BY <1>1, <1>8, <1>12, <1>13, <1>14, ToDone

LEMMA SaveStep ==
  ASSUME TypeOK, IInv, Save
  PROVE  TypeOK' /\ IInv'
<1> DEFINE s == Len(stored)
           new == NewMessages
           item(i) == [new[i] EXCEPT !.call = 0]
           added == [i \in 1..Len(new) |-> item(i)]
<1>1. /\ stored' = stored \o added /\ messages' = <<>> /\ pc' = "idle"
      /\ pc = "done" /\ running' = {}
      /\ UNCHANGED <<kind, modelCalls, toolRecords, restarted>>
  BY DEF Save, IInv, records
<1>2. PICK sys, lead, n : RunShape(sys, lead, n, 1)
  BY <1>1 DEF IInv, Going
<1>3. /\ Len(messages) - sys \in Nat
      /\ History = [i \in 1..(Len(messages) - sys) |-> messages[sys + i]]
      /\ History \in Seq(Message)
      /\ Len(History) = Len(messages) - sys
  BY <1>2, HistoryIs
<1>4. sys \in 0..1 /\ s \in Nat
  BY <1>2, LenProperties DEF TypeOK, RunShape
<1>5. \A i \in 1..Len(History) : History[i].role # "system"
  <2> SUFFICES ASSUME NEW i \in 1..Len(History)
               PROVE  History[i].role # "system"
    OBVIOUS
  <2>1. sys + i \in 1..Len(messages) /\ sys + i > sys
    BY <1>3, <1>4
  <2>2. messages[sys + i].role # "system"
    BY <1>2, <2>1, SystemFirst
  <2> QED
    BY <1>3, <2>2
<1>6. /\ new \in Seq(Message) /\ Len(new) \in Nat
      /\ \A i \in 1..Len(new) : new[i].role # "system"
  <2> DEFINE h == History
  <2>1. /\ h \in Seq(Message) /\ Len(h) \in Nat
        /\ \A i \in 1..Len(h) : h[i].role # "system"
    BY <1>3, <1>5
  <2> HIDE DEF h
  <2>2. new = SubSeq(h, s + 1, Len(h))
    BY DEF NewMessages, h
  <2> HIDE DEF new, s
  <2>3. \A i \in (s + 1)..Len(h) : h[i] \in Message
    BY <1>4, <2>1
  <2>4. /\ new \in Seq(Message)
        /\ Len(new) = IF s + 1 <= Len(h) THEN Len(h) - s ELSE 0
        /\ \A i \in 1..(Len(h) - s) : new[i] = h[s + i]
    <3>1. s + 1 \in Int /\ Len(h) \in Int
      BY <1>4, <2>1
    <3> QED
      BY <1>4, <2>1, <2>2, <2>3, <3>1
  <2>5. \A i \in 1..Len(new) : i \in 1..(Len(h) - s) /\ s + i \in 1..Len(h)
    BY <1>4, <2>1, <2>4
  <2> QED
    BY <1>4, <2>1, <2>4, <2>5
<1> HIDE DEF new
<1>7. \A i \in 1..Len(new) : item(i) \in Message /\ item(i).role # "system"
  <2> SUFFICES ASSUME NEW i \in 1..Len(new)
               PROVE  item(i) \in Message /\ item(i).role # "system"
    OBVIOUS
  <2>1. new[i] \in Message /\ new[i].role # "system"
    BY <1>6, ElementOfSeq
  <2> QED
    BY <2>1 DEF Message
<1> HIDE DEF item
<1>8. /\ added \in Seq(Message) /\ Len(added) = Len(new)
      /\ \A i \in 1..Len(added) : added[i].role # "system"
  BY <1>6, <1>7
<1> HIDE DEF added
<1>9. /\ stored' \in Seq(Message)
      /\ \A i \in 1..Len(stored') : stored'[i].role # "system"
  <2>1. /\ stored \in Seq(Message)
        /\ \A i \in 1..s : stored[i].role # "system"
    BY DEF TypeOK
  <2>2. /\ stored' \in Seq(Message) /\ Len(stored') = s + Len(added)
        /\ \A i \in 1..s : stored'[i] = stored[i]
        /\ \A i \in 1..Len(added) : stored'[s + i] = added[i]
    BY <1>1, <1>8, <2>1, Joined
  <2>3. ASSUME NEW i \in 1..Len(stored') PROVE stored'[i].role # "system"
    <3>1. CASE i \in 1..s
      BY <2>1, <2>2, <3>1
    <3>2. CASE i \notin 1..s
      <4>1. Len(added) \in Nat
        BY <1>6, <1>8
      <4> HIDE DEF s
      <4>2. i - s \in 1..Len(added) /\ s + (i - s) = i
        BY <1>4, <2>2, <3>2, <4>1
      <4> QED
        BY <1>8, <2>2, <4>2
    <3> QED
      BY <3>1, <3>2
  <2> QED
    BY <2>2, <2>3
<1>10. messages' \in Seq(Message)
  BY <1>1
<1>11. TypeOK'
  BY <1>1, <1>9, <1>10 DEF TypeOK
<1> QED
  BY <1>1, <1>11 DEF IInv

(* A run that has failed has nothing to keep. *)
LEMMA OtherSteps ==
  ASSUME TypeOK, IInv, Fail \/ GiveUp \/ DeleteSession
  PROVE  TypeOK' /\ IInv'
<1>1. CASE Fail
  <2>1. TypeOK'
    BY <1>1 DEF Fail, TypeOK, request, records
  <2> QED
    BY <1>1, <2>1 DEF Fail, IInv
<1>2. CASE GiveUp
  <2>1. messages' = <<>> /\ messages' \in Seq(Message)
    BY <1>2 DEF GiveUp
  <2>2. TypeOK'
    BY <1>2, <2>1 DEF GiveUp, TypeOK, records
  <2> QED
    BY <1>2, <2>2 DEF GiveUp, IInv
<1>3. CASE DeleteSession
  <2>1. stored' = <<>> /\ stored' \in Seq(Message) /\ Len(stored') = 0
    BY <1>3 DEF DeleteSession
  <2>2. \A i \in 1..Len(stored') : stored'[i].role # "system"
    BY <2>1
  <2>3. TypeOK'
    BY <1>3, <2>1, <2>2 DEF DeleteSession, TypeOK, request, records
  <2> QED
    BY <1>3, <2>3 DEF DeleteSession, IInv
<1> QED
  BY <1>1, <1>2, <1>3

LEMMA Unchanged ==
  ASSUME TypeOK, IInv, UNCHANGED vars
  PROVE  TypeOK' /\ IInv'
<1>1. /\ stored' = stored /\ kind' = kind /\ messages' = messages
      /\ modelCalls' = modelCalls /\ toolRecords' = toolRecords
      /\ running' = running /\ restarted' = restarted /\ pc' = pc
  BY DEF vars
<1>2. TypeOK'
  BY <1>1 DEF TypeOK
<1>3. Latest' = Latest /\ Given' = Given
  BY <1>1 DEF Latest, Given
<1>4. ASSUME NEW sys, NEW lead, NEW n, NEW open
      PROVE  RunShape(sys, lead, n, open)' <=> RunShape(sys, lead, n, open)
  BY <1>1, <1>3 DEF RunShape, Starts, Rounds
<1>5. ASSUME NEW cut, NEW sys, NEW lead, NEW n
      PROVE  Recorded(cut, sys + Given + lead, n)'
               <=> Recorded(cut, sys + Given + lead, n)
  BY <1>1, <1>3 DEF Recorded, RecordsCut, AsManyAsAsked
<1>6. PICK n : n = modelCalls /\ n = modelCalls'
  BY <1>1
<1>7. ASSUME NEW sys, NEW lead, NEW k, NEW open
      PROVE  Going(sys, lead, k, open)' <=> Going(sys, lead, k, open)
  BY <1>1, <1>4, <1>5 DEF Going
<1>8. CASE pc = "resume"
  BY <1>1, <1>2, <1>4, <1>8 DEF IInv
<1>9. CASE pc = "model"
  <2>1. PICK sys, lead : Going(sys, lead, n, 0)
    BY <1>6, <1>9 DEF IInv
  <2>2. Going(sys, lead, n, 0)'
    BY <1>7, <2>1
  <2> QED
    BY <1>1, <1>2, <1>6, <1>9, <2>2, ToModel DEF IInv, Going
<1>10. CASE pc = "tools"
  <2>1. PICK sys, lead : Going(sys, lead, n, 1)
    BY <1>6, <1>10 DEF IInv
  <2>2. Going(sys, lead, n, 1)'
    BY <1>7, <2>1
  <2> QED
    BY <1>1, <1>2, <1>3, <1>6, <1>10, <2>2, ToTools DEF IInv, Going
<1>11. CASE pc = "done"
  <2>1. PICK sys, lead, k : Going(sys, lead, k, 1)
    BY <1>11 DEF IInv
  <2>2. Going(sys, lead, k, 1)'
    BY <1>7, <2>1
  <2> QED
    BY <1>1, <1>2, <1>3, <1>11, <2>2, ToDone DEF IInv, Going
<1>12. CASE pc \in {"idle", "failed"}
  BY <1>1, <1>2, <1>12 DEF IInv
<1> QED
  BY <1>8, <1>9, <1>10, <1>11, <1>12 DEF TypeOK

-----------------------------------------------------------------------------
(* The theorems *)

LEMMA Step == TypeOK /\ IInv /\ [Next]_vars => TypeOK' /\ IInv'
<1> SUFFICES ASSUME TypeOK, IInv, [Next]_vars PROVE TypeOK' /\ IInv'
  OBVIOUS
<1>1. CASE \E k \in Kinds, system \in BOOLEAN : Begin(k, system)
  BY <1>1, BeginStep
<1>2. CASE Resume
  BY <1>2, ResumeStep
<1>3. CASE ResumeInterrupted
  BY <1>3, ResumeInterruptedStep
<1>4. CASE \E requests \in 0..MaxTools : CallModel(requests)
  BY <1>4, CallModelStep
<1>5. CASE \E tool \in running, interrupted \in BOOLEAN :
             ToolEnds(tool, interrupted)
  BY <1>5, ToolEndsStep
<1>6. CASE ToolsAnswer
  BY <1>6, ToolsAnswerStep
<1>7. CASE ToolsInterrupt
  BY <1>7, ToolsInterruptStep
<1>8. CASE Save
  BY <1>8, SaveStep
<1>9. CASE Fail \/ GiveUp \/ DeleteSession
  BY <1>9, OtherSteps
<1>10. CASE UNCHANGED vars
  BY <1>10, Unchanged
<1> QED
  BY <1>1, <1>2, <1>3, <1>4, <1>5, <1>6, <1>7, <1>8, <1>9, <1>10 DEF Next

(* At every moment of every run, for every limit on turns and tools, the   *)
(* state has its type: the recorder has at most one call more than         *)
(* MaxTurns, a stored message is never a system message.                   *)
THEOREM TypeCorrect == Spec => []TypeOK
<1>1. Init => TypeOK /\ IInv
  BY InitStep
<1>2. TypeOK /\ IInv /\ [Next]_vars => (TypeOK /\ IInv)'
  BY Step
<1> QED
  BY <1>1, <1>2, PTL DEF Spec

(* The messages of a run are what it was given, then model messages, each  *)
(* but the last answered; and the recorder's tool records are cut into the *)
(* model calls they belong to, as many as each asked for.                  *)
THEOREM RunsHaveShape == Spec => []IInv
<1>1. Init => TypeOK /\ IInv
  BY InitStep
<1>2. TypeOK /\ IInv /\ [Next]_vars => (TypeOK /\ IInv)'
  BY Step
<1> QED
  BY <1>1, <1>2, PTL DEF Spec

(* The MessageCounts that buildAgentLoopTurnRecords derives by position    *)
(* cut the new messages of every finished run into its turns: message,     *)
(* resumed and heartbeat runs, with a system message or without, finished  *)
(* or interrupted.                                                         *)
THEOREM CountsCutTurns == Spec => []WindowsAreTurns
<1>1. TypeOK /\ IInv => WindowsAreTurns
  <2> SUFFICES ASSUME TypeOK, IInv, pc = "done" PROVE WindowsAreTurns
    BY DEF WindowsAreTurns
  <2>1. PICK sys, lead, n : RunShape(sys, lead, n, 1)
    BY DEF IInv, Going
  <2> QED
    BY <2>1, WindowsCut
<1>2. Spec => [](TypeOK /\ IInv)
  BY TypeCorrect, RunsHaveShape, PTL
<1> QED
  BY <1>1, <1>2, PTL

(* The tool summaries of a turn are those of the executions its own model  *)
(* message asked for, although the recorder notes them in the order they   *)
(* end and the loop takes them by number: in every finished run in which   *)
(* no interrupted tool was restarted.                                      *)
THEOREM SummariesAreTheTurns == Spec => []SummariesAreOwn
<1>1. TypeOK /\ IInv => SummariesAreOwn
  <2> SUFFICES ASSUME TypeOK, IInv, pc = "done", ~restarted
               PROVE  SummariesAreOwn
    BY DEF SummariesAreOwn
  <2>1. PICK sys, lead, n : Going(sys, lead, n, 1)
    BY DEF IInv
  <2>2. /\ Latest.interrupts > 0 \/ Latest.requests = 0
        /\ running = {}
    BY DEF IInv
  <2>3. RunShape(sys, lead, n, 1)
    BY <2>1 DEF Going
  <2>4. PICK cut : Recorded(cut, sys + Given + lead, n)
    BY <2>1 DEF Going
  <2> QED
    BY <2>2, <2>3, <2>4, SummariesCut
<1>2. Spec => [](TypeOK /\ IInv)
  BY TypeCorrect, RunsHaveShape, PTL
<1> QED
  BY <1>1, <1>2, PTL
=============================================================================
