------------------------------ MODULE ListFacts ------------------------------
(***************************************************************************)
(* Facts about numbers and sequences that the proofs about the list of     *)
(* segments and about the message queue rest on: the least element of a    *)
(* set, which a scan that stops at the first match finds; induction over   *)
(* the natural numbers, with the property given as a set; functions that   *)
(* are computed step by step; a sequence that an element is taken out of.  *)
(***************************************************************************)
EXTENDS Integers, FiniteSetTheorems, SequenceTheorems, WellFoundedInduction, TLAPS

(* The intervals 0 .. s are finite sets, well ordered by inclusion.        *)
LEMMA LeastExists ==
  ASSUME NEW S \in SUBSET Nat, S # {}
  PROVE  \E s \in S : \A t \in S : s <= t
<1> DEFINE T == {0 .. s : s \in S}
           R == StrictSubsetOrdering(Nat)
<1>1. T \subseteq FiniteSubsetsOf(Nat) /\ T # {}
  <2>1. \A s \in S : IsFiniteSet(0 .. s) /\ 0 .. s \in SUBSET Nat
    BY FS_Interval
  <2> QED BY <2>1 DEF FiniteSubsetsOf
<1>2. PICK x \in T : \A y \in T : <<y, x>> \notin R
  <2>1. IsWellFoundedOn(R, FiniteSubsetsOf(Nat))
    BY FS_StrictSubsetOrderingWellFounded
  <2> HIDE DEF T, R
  <2> QED BY <1>1, <2>1, WFMin
<1>3. PICK s \in S : x = 0 .. s
  OBVIOUS
<1>4. ASSUME NEW t \in S PROVE s <= t
  <2> SUFFICES ASSUME t < s PROVE FALSE
    OBVIOUS
  <2>1. 0 .. t \in SUBSET Nat /\ 0 .. s \in SUBSET Nat /\ 0 .. t \subseteq 0 .. s
    OBVIOUS
  <2>2. s \in 0 .. s /\ s \notin 0 .. t
    OBVIOUS
  <2>3. <<0 .. t, 0 .. s>> \in R
    BY <2>1, <2>2 DEF StrictSubsetOrdering
  <2>4. 0 .. t \in T
    OBVIOUS
  <2> HIDE DEF T, R
  <2> QED BY <1>2, <1>3, <2>3, <2>4
<1> QED BY <1>4

(* Mathematical induction, with the property given by the set of its       *)
(* numbers.                                                                *)
LEMMA SetInduction ==
  ASSUME NEW S, 0 \in S, \A n \in Nat : n \in S => n + 1 \in S
  PROVE  Nat \subseteq S
<1> SUFFICES ASSUME Nat \ S # {} PROVE FALSE
  OBVIOUS
<1>1. PICK m \in Nat \ S : \A n \in Nat \ S : m <= n
  <2>1. Nat \ S \in SUBSET Nat
    OBVIOUS
  <2> QED BY <2>1, LeastExists
<1>2. m # 0 /\ m - 1 \in Nat
  OBVIOUS
<1>3. m - 1 \in S
  BY <1>1, <1>2
<1> QED BY <1>2, <1>3

(* A function that is computed from its previous value exists.             *)
LEMMA NatStepwise ==
  ASSUME NEW base \in Nat, NEW n \in Nat, NEW step \in [1 .. n -> [Nat -> Nat]]
  PROVE  \E f \in [0 .. n -> Nat] :
           f[0] = base /\ \A k \in 1 .. n : f[k] = step[k][f[k - 1]]
<1> DEFINE S == Nat
           b == base
<1>0. b \in S /\ step \in [1 .. n -> [S -> S]]
  OBVIOUS
<1> HIDE DEF S, b
<1> DEFINE Good(m, f) == /\ f \in [0 .. m -> S] /\ f[0] = b
                         /\ \A k \in 1 .. m : f[k] = step[k][f[k - 1]]
           P(m) == \E f : Good(m, f)
           Done == {m \in Nat : m <= n => P(m)}
<1>1. P(0)
  <2>1. Good(0, [k \in 0 .. 0 |-> b])
    BY <1>0
  <2> HIDE DEF Good
  <2> QED BY <2>1
<1>2. ASSUME NEW m \in Nat, P(m), m + 1 <= n PROVE P(m + 1)
  <2>1. PICK f : Good(m, f)
    BY <1>2
  <2> DEFINE new == step[m + 1][f[m]]
             g == [k \in 0 .. m + 1 |-> IF k <= m THEN f[k] ELSE new]
  <2>2. new \in S
    BY <1>0, <1>2, <2>1
  <2>3. g \in [0 .. m + 1 -> S] /\ g[0] = b
    BY <1>0, <2>1, <2>2
  <2>4. ASSUME NEW k \in 1 .. m + 1 PROVE g[k] = step[k][g[k - 1]]
    <3>1. CASE k <= m
      <4>1. g[k] = f[k] /\ g[k - 1] = f[k - 1] /\ k \in 1 .. m
        BY <3>1
      <4> QED BY <2>1, <4>1
    <3>2. CASE k = m + 1
      <4>1. g[k] = new /\ g[k - 1] = f[m]
        BY <3>2
      <4> QED BY <3>2, <4>1
    <3> QED BY <3>1, <3>2
  <2>5. Good(m + 1, g)
    <3> HIDE DEF g
    <3> QED BY <2>3, <2>4
  <2> HIDE DEF Good
  <2> QED BY <2>5
<1>3. P(n)
  <2> HIDE DEF P
  <2>1. 0 \in Done /\ \A m \in Nat : m \in Done => m + 1 \in Done
    BY <1>1, <1>2
  <2>2. n \in Done
    <3> HIDE DEF Done
    <3> QED BY <2>1, SetInduction
  <2> QED BY <2>2
<1>4. PICK f : Good(n, f)
  BY <1>3
<1>5. f \in [0 .. n -> Nat] /\ f[0] = base /\ \A k \in 1 .. n : f[k] = step[k][f[k - 1]]
  BY <1>4 DEF S, b
<1> QED BY <1>5

(* A sequence without its element k, as RemoveAt of SequencesExt has it.   *)
Without(s, k) == SubSeq(s, 1, k - 1) \o SubSeq(s, k + 1, Len(s))

(* It is one shorter; what came after k has moved up.                      *)
LEMMA RemovedAt ==
  ASSUME NEW S, NEW s \in Seq(S), NEW k \in 1 .. Len(s)
  PROVE  /\ Without(s, k) \in Seq(S)
         /\ Len(Without(s, k)) = Len(s) - 1
         /\ \A j \in 1 .. Len(s) - 1 :
              Without(s, k)[j] = IF j < k THEN s[j] ELSE s[j + 1]
<1> DEFINE front == SubSeq(s, 1, k - 1)
           rest == SubSeq(s, k + 1, Len(s))
<1>1. front \in Seq(S) /\ Len(front) = k - 1 /\ \A j \in 1 .. k - 1 : front[j] = s[j]
  OBVIOUS
<1>2. /\ rest \in Seq(S) /\ Len(rest) = Len(s) - k
      /\ \A j \in 1 .. Len(s) - k : rest[j] = s[k + j]
  OBVIOUS
<1> HIDE DEF front, rest
<1>3. /\ front \o rest \in Seq(S)
      /\ Len(front \o rest) = Len(s) - 1
      /\ \A j \in 1 .. Len(s) - 1 :
           (front \o rest)[j] = IF j <= k - 1 THEN front[j] ELSE rest[j - (k - 1)]
  BY <1>1, <1>2, ConcatProperties
<1>4. \A j \in 1 .. Len(s) - 1 : (front \o rest)[j] = IF j < k THEN s[j] ELSE s[j + 1]
  <2> SUFFICES ASSUME NEW j \in 1 .. Len(s) - 1
               PROVE  (front \o rest)[j] = IF j < k THEN s[j] ELSE s[j + 1]
    OBVIOUS
  <2>1. CASE j < k
    BY <1>1, <1>3, <2>1
  <2>2. CASE ~(j < k)
    <3>1. j - (k - 1) \in 1 .. Len(s) - k /\ k + (j - (k - 1)) = j + 1
      BY <2>2
    <3> QED BY <1>2, <1>3, <2>2, <3>1
  <2> QED BY <2>1, <2>2
<1> QED BY <1>3, <1>4 DEF Without, front, rest
==============================================================================
