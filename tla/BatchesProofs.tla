---------------------------- MODULE BatchesProofs ----------------------------
(***************************************************************************)
(* What Delivered does to the logs of the instances, for every list.  It   *)
(* is a recursion over the list, so these lemmas are proved by induction;  *)
(* the induction rule for sequences is stated about a set of sequences     *)
(* and comes from the well-foundedness of the natural numbers.             *)
(***************************************************************************)
EXTENDS Batches, SequencesExt, SequenceTheorems, FiniteSetTheorems, WellFoundedInduction,
        TLAPS

-----------------------------------------------------------------------------
(* Induction *)

\* A set of natural numbers that is not empty has a least element.
LEMMA LeastNat ==
  ASSUME NEW T \in SUBSET Nat, T # {}
  PROVE  \E n \in T : \A m \in T : n <= m
<1> DEFINE R == OpToRel(<, Nat)
<1>1. IsWellFoundedOn(R, Nat)
  BY NatLessThanWellFounded
<1>2. \A m, n \in Nat : <<m, n>> \in R <=> m < n
  BY DEF OpToRel
<1> HIDE DEF R
<1>3. PICK n \in T : \A m \in T : ~(<<m, n>> \in R)
  BY <1>1, WFMin
<1>4. \A m \in T : ~(m < n)
  BY <1>2, <1>3
<1> QED  BY <1>4

LEMMA NatSetInduction ==
  ASSUME NEW T \in SUBSET Nat, 0 \in T, \A n \in T : n + 1 \in T
  PROVE  T = Nat
<1> SUFFICES ASSUME Nat \ T # {} PROVE FALSE
  OBVIOUS
<1>1. PICK n \in Nat \ T : \A m \in Nat \ T : n <= m
  BY LeastNat
<1>2. n # 0 /\ n - 1 \in Nat
  BY <1>1
<1>3. n - 1 \in T
  BY <1>1, <1>2
<1>4. (n - 1) + 1 \in T
  BY <1>3
<1> QED  BY <1>1, <1>4

\* A set of sequences that has the empty one, and with a sequence all that are
\* longer by one element, has them all.
LEMMA SeqSetInduction ==
  ASSUME NEW S, NEW T \in SUBSET Seq(S), <<>> \in T,
         \A s \in T : \A e \in S : Append(s, e) \in T
  PROVE  T = Seq(S)
<1> DEFINE N == {n \in Nat : \A s \in Seq(S) : Len(s) = n => s \in T}
<1>1. 0 \in N
  BY EmptySeq
<1>2. ASSUME NEW n \in N PROVE n + 1 \in N
  <2> SUFFICES ASSUME NEW s \in Seq(S), Len(s) = n + 1 PROVE s \in T
    OBVIOUS
  <2>1. s # <<>>
    BY EmptySeq
  <2>2. PICK t \in Seq(S), e \in S : s = Append(t, e)
    BY <2>1, SequenceEmptyOrAppend
  <2>3. Len(s) = Len(t) + 1 /\ Len(t) \in Nat
    BY <2>2, AppendProperties, LenProperties
  <2>4. t \in T
    BY <2>3
  <2> QED  BY <2>2, <2>4
<1> HIDE DEF N
<1>3. N = Nat
  BY <1>1, <1>2, NatSetInduction DEF N
<1>4. \A s \in Seq(S) : Len(s) \in N
  BY <1>3, LenProperties
<1> QED  BY <1>4 DEF N

\* Induction up to a bound.
LEMMA UptoInduction ==
  ASSUME NEW n \in Nat, NEW T, 0 \in T, \A k \in 1 .. n : k - 1 \in T => k \in T
  PROVE  n \in T
<1> DEFINE N == {k \in Nat : k <= n => k \in T}
<1>1. 0 \in N
  OBVIOUS
<1>2. ASSUME NEW k \in N PROVE k + 1 \in N
  <2> SUFFICES ASSUME k + 1 <= n PROVE k + 1 \in T
    OBVIOUS
  <2>1. k \in Nat /\ k + 1 \in 1 .. n /\ (k + 1) - 1 = k /\ k <= n
    OBVIOUS
  <2> QED  BY <2>1
<1> HIDE DEF N
<1>3. N = Nat
  BY <1>1, <1>2, NatSetInduction DEF N
<1> QED  BY <1>3 DEF N

-----------------------------------------------------------------------------
(* Folds *)

\* Steps from T to T along the elements of S, a choice of what to take off next, and the
\* values of the fold for every subset.
IsStep(step, S, T) == \A x \in T : \A s \in S : step[x][s] \in T
IsChoice(choice, S) == \A t \in SUBSET S : t # {} => choice[t] \in t
IsFold(f, S, base, step, choice) ==
  \A t \in SUBSET S : f[t] = IF t = {} THEN base ELSE step[f[t \ {choice[t]}]][choice[t]]

\* A fold over a finite set is well-defined.
LEMMA FoldExists ==
  ASSUME NEW S, IsFiniteSet(S), NEW T, NEW base \in T, NEW step, IsStep(step, S, T),
         NEW choice, IsChoice(choice, S)
  PROVE  \E f \in [SUBSET S -> T] : IsFold(f, S, base, step, choice)
<1> USE DEF IsStep, IsChoice
<1> DEFINE Upto(k) == {t \in SUBSET S : Cardinality(t) <= k}
           Folds(f, t) == f[t] = IF t = {} THEN base ELSE step[f[t \ {choice[t]}]][choice[t]]
           N == {k \in Nat : \E f \in [Upto(k) -> T] : \A t \in Upto(k) : Folds(f, t)}
<1>1. \A t \in SUBSET S :
        /\ IsFiniteSet(t) /\ Cardinality(t) \in Nat /\ Cardinality(t) <= Cardinality(S)
        /\ Cardinality(t) = 0 <=> t = {}
        /\ t # {} => /\ t \ {choice[t]} \in SUBSET S
                     /\ Cardinality(t \ {choice[t]}) = Cardinality(t) - 1
  <2> TAKE t \in SUBSET S
  <2>1. IsFiniteSet(t) /\ Cardinality(t) <= Cardinality(S)
    BY FS_Subset
  <2>2. Cardinality(t) \in Nat /\ (Cardinality(t) = 0 <=> t = {})
    BY <2>1, FS_CardinalityType, FS_EmptySet
  <2>3. t # {} => Cardinality(t \ {choice[t]}) = Cardinality(t) - 1
    BY <2>1, FS_RemoveElement
  <2> QED  BY <2>1, <2>2, <2>3
<1>2. 0 \in N
  <2> DEFINE f == [t \in Upto(0) |-> base]
  <2>1. ASSUME NEW t \in Upto(0) PROVE t = {}
    <3>1. Cardinality(t) <= 0 /\ Cardinality(t) \in Nat /\ (Cardinality(t) = 0 <=> t = {})
      BY <1>1
    <3> QED  BY <3>1
  <2>2. f \in [Upto(0) -> T] /\ \A t \in Upto(0) : Folds(f, t)
    BY <2>1
  <2> QED  BY <2>2
<1>3. ASSUME NEW k \in N PROVE k + 1 \in N
  <2>1. k \in Nat /\ k + 1 \in Nat
    OBVIOUS
  <2>2. PICK f \in [Upto(k) -> T] : \A t \in Upto(k) : Folds(f, t)
    OBVIOUS
  <2> DEFINE Value(t) == IF t = {} THEN base ELSE step[f[t \ {choice[t]}]][choice[t]]
             g == [t \in Upto(k + 1) |-> IF t \in Upto(k) THEN f[t] ELSE Value(t)]
  <2>3. ASSUME NEW t \in Upto(k + 1), t # {}
        PROVE  /\ t \ {choice[t]} \in Upto(k) /\ t \ {choice[t]} \in Upto(k + 1)
               /\ choice[t] \in S
    <3>1. Cardinality(t \ {choice[t]}) = Cardinality(t) - 1 /\ Cardinality(t) \in Nat
      BY <1>1, <2>3
    <3>2. Cardinality(t) - 1 <= k /\ Cardinality(t) - 1 <= k + 1
      BY <2>1, <3>1
    <3> QED  BY <2>3, <3>1, <3>2
  <2> HIDE DEF Upto
  <2>4. \A t \in Upto(k + 1) : Value(t) \in T
    <3> SUFFICES ASSUME NEW t \in Upto(k + 1), t # {} PROVE Value(t) \in T
      OBVIOUS
    <3>1. f[t \ {choice[t]}] \in T /\ choice[t] \in S
      BY <2>2, <2>3
    <3>2. step[f[t \ {choice[t]}]][choice[t]] \in T
      BY <3>1
    <3> QED  BY <3>2
  <2>5. g \in [Upto(k + 1) -> T]
    BY <2>2, <2>4
  <2>6. ASSUME NEW t \in Upto(k + 1) PROVE g[t] = Value(t)
    BY <2>2
  <2>7. ASSUME NEW t \in Upto(k + 1) PROVE Folds(g, t)
    <3>1. CASE t = {}
      BY <2>6, <3>1
    <3>2. CASE t # {}
      <4>1. g[t \ {choice[t]}] = f[t \ {choice[t]}]
        BY <2>3, <3>2
      <4> HIDE DEF g
      <4> QED  BY <2>6, <3>2, <4>1
    <3> QED  BY <3>1, <3>2
  <2> HIDE DEF g, Folds
  <2>8. \E h \in [Upto(k + 1) -> T] : \A t \in Upto(k + 1) : Folds(h, t)
    BY <2>5, <2>7
  <2> QED  BY <2>1, <2>8
<1>4. N \in SUBSET Nat
  OBVIOUS
<1>5. Upto(Cardinality(S)) = SUBSET S
  BY <1>1
<1>6. Cardinality(S) \in Nat
  BY FS_CardinalityType
<1> HIDE DEF N, Upto, Folds
<1>7. Cardinality(S) \in N
  BY <1>2, <1>3, <1>4, <1>6, NatSetInduction
<1> QED  BY <1>5, <1>7 DEF N, Folds, IsFold

\* A finite set of numbers that is not empty has a greatest element, and a least one.
LEMMA MaxOf ==
  ASSUME NEW S \in SUBSET Int, IsFiniteSet(S), S # {}
  PROVE  Max(S) \in S /\ \A y \in S : Max(S) >= y
<1> DEFINE P(R) == R # {} => \E x \in R : \A y \in R : x >= y
           T == {n \in Nat : \A R \in SUBSET S : Cardinality(R) = n => P(R)}
<1>1. 0 \in T
  <2>1. \A R \in SUBSET S : Cardinality(R) = 0 => R = {}
    BY FS_Subset, FS_EmptySet
  <2> QED  BY <2>1
<1>2. ASSUME NEW n \in T PROVE n + 1 \in T
  <2> SUFFICES ASSUME NEW R \in SUBSET S, Cardinality(R) = n + 1, R # {}
               PROVE  \E x \in R : \A y \in R : x >= y
    OBVIOUS
  <2>1. PICK e \in R : TRUE
    OBVIOUS
  <2>2. IsFiniteSet(R)
    BY FS_Subset
  <2>3. Cardinality(R \ {e}) = n
    <3>1. Cardinality(R \ {e}) = Cardinality(R) - 1
      BY <2>1, <2>2, FS_RemoveElement
    <3>2. n \in Nat
      OBVIOUS
    <3> QED  BY <3>1, <3>2
  <2>4. P(R \ {e})
    BY <2>3
  <2>5. CASE R \ {e} = {}
    <3>1. \A y \in R : y = e
      BY <2>5
    <3> QED  BY <2>1, <3>1
  <2>6. CASE R \ {e} # {}
    <3>1. PICK x \in R \ {e} : \A y \in R \ {e} : x >= y
      BY <2>4, <2>6
    <3>2. x \in Int /\ e \in Int
      BY <2>1, <3>1
    <3>3. CASE x >= e
      BY <3>1, <3>3
    <3>4. CASE ~(x >= e)
      BY <2>1, <3>1, <3>2, <3>4
    <3> QED  BY <3>3, <3>4
  <2> QED  BY <2>5, <2>6
<1>3. T \in SUBSET Nat
  OBVIOUS
<1>4. Cardinality(S) \in Nat
  BY FS_CardinalityType
<1> HIDE DEF T
<1>5. Cardinality(S) \in T
  BY <1>1, <1>2, <1>3, <1>4, NatSetInduction
<1>6. \E x \in S : \A y \in S : x >= y
  BY <1>5 DEF T
<1> QED  BY <1>6 DEF Max

LEMMA MinOf ==
  ASSUME NEW S \in SUBSET Int, IsFiniteSet(S), S # {}
  PROVE  Min(S) \in S /\ \A y \in S : Min(S) <= y
<1> DEFINE N == {0 - x : x \in S}
<1>1. N \in SUBSET Int /\ N # {} /\ IsFiniteSet(N)
  <2>1. IsFiniteSet({0 - x : x \in S})
    <3> DEFINE f == [x \in S |-> 0 - x]
    <3>1. f \in Surjection(S, N)
      BY DEF Surjection
    <3> QED  BY <3>1, FS_Surjection
  <2>2. \A x \in S : 0 - x \in Int
    OBVIOUS
  <2>3. N # {}
    OBVIOUS
  <2> QED  BY <2>1, <2>2, <2>3
<1>2. Max(N) \in N /\ \A y \in N : Max(N) >= y
  BY <1>1, MaxOf
<1>3. PICK x \in S : Max(N) = 0 - x
  BY <1>2
<1>4. \A y \in S : x <= y
  <2> TAKE y \in S
  <2>1. 0 - x >= 0 - y /\ x \in Int /\ y \in Int
    BY <1>2, <1>3
  <2> QED  BY <2>1
<1>5. \E m \in S : \A y \in S : m <= y
  BY <1>4
<1> QED  BY <1>5 DEF Min

LEMMA MaxIs ==
  ASSUME NEW S \in SUBSET Int, NEW x \in S, \A y \in S : x >= y
  PROVE  Max(S) = x
<1>1. Max(S) \in S /\ \A y \in S : Max(S) >= y
  BY DEF Max
<1>2. Max(S) >= x /\ x >= Max(S) /\ Max(S) \in Int /\ x \in Int
  BY <1>1
<1> QED  BY <1>2

LEMMA MinIs ==
  ASSUME NEW S \in SUBSET Int, NEW x \in S, \A y \in S : x <= y
  PROVE  Min(S) = x
<1>1. Min(S) \in S /\ \A y \in S : Min(S) <= y
  BY DEF Min
<1>2. Min(S) <= x /\ x <= Min(S) /\ Min(S) \in Int /\ x \in Int
  BY <1>1
<1> QED  BY <1>2

LEMMA MaxOfPlaces ==
  ASSUME NEW n \in Nat, NEW t \in SUBSET (1 .. n), t # {}
  PROVE  Max(t) \in t /\ \A y \in t : Max(t) >= y
<1>1. IsFiniteSet(1 .. n)
  BY FS_Interval
<1>2. IsFiniteSet(t)
  BY <1>1, FS_Subset
<1>3. t \in SUBSET Int
  OBVIOUS
<1> QED  BY <1>2, <1>3, MaxOf

LEMMA MinOfPlaces ==
  ASSUME NEW n \in Nat, NEW t \in SUBSET (1 .. n), t # {}
  PROVE  Min(t) \in t /\ \A y \in t : Min(t) <= y
<1>1. IsFiniteSet(1 .. n)
  BY FS_Interval
<1>2. IsFiniteSet(t)
  BY <1>1, FS_Subset
<1>3. t \in SUBSET Int
  OBVIOUS
<1> QED  BY <1>2, <1>3, MinOf

LEMMA MaxOfInterval == \A n \in Nat \ {0} : Max(1 .. n) = n /\ (1 .. n) \ {n} = 1 .. n - 1
<1> TAKE n \in Nat \ {0}
<1>1. \E x \in 1 .. n : \A y \in 1 .. n : x >= y
  <2>1. n \in 1 .. n /\ \A y \in 1 .. n : n >= y
    OBVIOUS
  <2> QED  BY <2>1
<1>2. Max(1 .. n) \in 1 .. n /\ \A y \in 1 .. n : Max(1 .. n) >= y
  BY <1>1 DEF Max
<1>3. n \in 1 .. n
  OBVIOUS
<1>4. Max(1 .. n) = n
  BY <1>2, <1>3
<1> QED  BY <1>4

\* A fold over a list of n takes off the last element.
IsListFold(f, n, base, step) ==
  \A t \in SUBSET (1 .. n) : f[t] = IF t = {} THEN base ELSE step[f[t \ {Max(t)}]][Max(t)]

LEMMA ListFoldExists ==
  ASSUME NEW n \in Nat, NEW T, NEW base \in T, NEW step, IsStep(step, 1 .. n, T)
  PROVE  \E f \in [SUBSET (1 .. n) -> T] : IsListFold(f, n, base, step)
<1> DEFINE S == 1 .. n
           choice == [t \in SUBSET S |-> Max(t)]
<1>1. IsFiniteSet(S)
  BY FS_Interval
<1>2. \A t \in SUBSET S : t # {} => choice[t] \in t
  <2> SUFFICES ASSUME NEW t \in SUBSET S, t # {} PROVE Max(t) \in t
    OBVIOUS
  <2> QED  BY MaxOfPlaces
<1>3. \A t \in SUBSET S : choice[t] = Max(t)
  OBVIOUS
<1> HIDE DEF choice
<1>4. IsStep(step, S, T) /\ IsChoice(choice, S)
  BY <1>2 DEF IsChoice
<1> HIDE DEF S
<1>5. \E f \in [SUBSET S -> T] : IsFold(f, S, base, step, choice)
  BY <1>1, <1>4, FoldExists
<1> QED  BY <1>3, <1>5 DEF S, IsFold, IsListFold

-----------------------------------------------------------------------------
(* The recursion *)

Steps(logs, list, N, f) ==
  f = [n \in 0 .. N |-> IF n = 0 THEN logs
                        ELSE [f[n - 1] EXCEPT ![list[n].uid] = Append(@, list[n])]]

LEMMA StepsExist == \A logs, list : \A N \in Nat : \E f : Steps(logs, list, N, f)
<1> SUFFICES ASSUME NEW logs, NEW list PROVE \A N \in Nat : \E f : Steps(logs, list, N, f)
  OBVIOUS
<1> DEFINE T == {N \in Nat : \E f : Steps(logs, list, N, f)}
<1>1. 0 \in T
  <2>1. Steps(logs, list, 0, [n \in 0 .. 0 |-> logs])
    BY DEF Steps
  <2> QED  BY <2>1
<1>2. ASSUME NEW N \in T PROVE N + 1 \in T
  <2>1. PICK f : Steps(logs, list, N, f)
    OBVIOUS
  <2> DEFINE x == [f[N] EXCEPT ![list[N + 1].uid] = Append(@, list[N + 1])]
             g == [n \in 0 .. N + 1 |-> IF n = N + 1 THEN x ELSE f[n]]
  <2>2. N \in Nat /\ N + 1 \in Nat
    OBVIOUS
  <2>3. ASSUME NEW n \in 0 .. N + 1
        PROVE  g[n] = IF n = 0 THEN logs
                      ELSE [g[n - 1] EXCEPT ![list[n].uid] = Append(@, list[n])]
    <3>1. CASE n = N + 1
      <4>1. g[n] = x /\ n # 0
        BY <2>2, <3>1
      <4>2. n - 1 = N /\ n - 1 \in 0 .. N + 1 /\ n - 1 # N + 1
        BY <2>2, <3>1
      <4>3. g[n - 1] = f[N]
        BY <4>2
      <4> HIDE DEF g
      <4> QED  BY <3>1, <4>1, <4>3
    <3>2. CASE n # N + 1
      <4>1. n \in 0 .. N /\ g[n] = f[n]
        BY <2>2, <3>2
      <4>2. n # 0 => n - 1 \in 0 .. N /\ g[n - 1] = f[n - 1]
        BY <2>2, <4>1
      <4>3. f[n] = IF n = 0 THEN logs
                   ELSE [f[n - 1] EXCEPT ![list[n].uid] = Append(@, list[n])]
        BY <2>1, <4>1 DEF Steps
      <4> HIDE DEF g
      <4> QED  BY <4>1, <4>2, <4>3
    <3> QED  BY <3>1, <3>2
  <2>4. Steps(logs, list, N + 1, g)
    BY <2>3 DEF Steps
  <2> HIDE DEF g
  <2> QED  BY <2>2, <2>4
<1> HIDE DEF T
<1>3. T = Nat
  BY <1>1, <1>2, NatSetInduction DEF T
<1> QED  BY <1>3 DEF T

LEMMA DeliveredSteps ==
  ASSUME NEW logs, NEW S, NEW list \in Seq(S)
  PROVE  \E f : Steps(logs, list, Len(list), f) /\ Delivered(logs, list) = f[Len(list)]
<1>1. Len(list) \in Nat
  BY LenProperties
<1>2. \E f : Steps(logs, list, Len(list), f)
  BY <1>1, StepsExist
<1> DEFINE g == CHOOSE f : Steps(logs, list, Len(list), f)
<1>3. Steps(logs, list, Len(list), g)
  BY <1>2
<1>4. Delivered(logs, list) = g[Len(list)]
  BY DEF Delivered, Steps
<1> QED  BY <1>3, <1>4

LEMMA DeliveredEmpty == \A logs : Delivered(logs, <<>>) = logs
<1> TAKE logs
<1>1. <<>> \in Seq({}) /\ Len(<<>>) = 0
  BY EmptySeq
<1>2. PICK f : Steps(logs, <<>>, 0, f) /\ Delivered(logs, <<>>) = f[0]
  BY <1>1, DeliveredSteps
<1> QED  BY <1>2 DEF Steps

\* One more message of the list is one more message in the log of its instance.
LEMMA DeliveredAppend ==
  ASSUME NEW logs, NEW S, NEW list \in Seq(S), NEW m \in S
  PROVE  Delivered(logs, Append(list, m)) =
           [Delivered(logs, list) EXCEPT ![m.uid] = Append(@, m)]
<1> DEFINE N == Len(list)
           longer == Append(list, m)
<1>1. /\ N \in Nat /\ longer \in Seq(S) /\ Len(longer) = N + 1 /\ longer[N + 1] = m
      /\ \A i \in 1 .. N : longer[i] = list[i]
  BY LenProperties, AppendProperties
<1> HIDE DEF longer, N
<1>2. PICK f : Steps(logs, list, N, f) /\ Delivered(logs, list) = f[N]
  BY DeliveredSteps DEF N
<1>3. PICK g : Steps(logs, longer, N + 1, g) /\ Delivered(logs, longer) = g[N + 1]
  BY <1>1, DeliveredSteps
<1>4. \A n \in 0 .. N : n <= N => g[n] = f[n]
  <2> DEFINE T == {n \in Nat : n <= N => g[n] = f[n]}
  <2>1. 0 \in T
    BY <1>1, <1>2, <1>3 DEF Steps
  <2>2. ASSUME NEW n \in T PROVE n + 1 \in T
    <3> SUFFICES ASSUME n + 1 <= N PROVE g[n + 1] = f[n + 1]
      BY <1>1
    <3>1. /\ n + 1 \in 0 .. N + 1 /\ n + 1 \in 0 .. N /\ n + 1 # 0 /\ (n + 1) - 1 = n
          /\ n + 1 \in 1 .. N /\ n <= N
      BY <1>1
    <3>2. g[n + 1] = [g[n] EXCEPT ![longer[n + 1].uid] = Append(@, longer[n + 1])]
      BY <1>3, <3>1, ZenonT(30) DEF Steps
    <3>3. f[n + 1] = [f[n] EXCEPT ![list[n + 1].uid] = Append(@, list[n + 1])]
      BY <1>2, <3>1, ZenonT(30) DEF Steps
    <3> QED  BY <1>1, <3>1, <3>2, <3>3
  <2> HIDE DEF T
  <2>3. T = Nat
    BY <2>1, <2>2, NatSetInduction DEF T
  <2> QED  BY <1>1, <2>3 DEF T
<1>5. g[N + 1] = [g[N] EXCEPT ![longer[N + 1].uid] = Append(@, longer[N + 1])]
  <2>1. N + 1 \in 0 .. N + 1 /\ N + 1 # 0 /\ (N + 1) - 1 = N
    BY <1>1
  <2> QED  BY <1>3, <2>1 DEF Steps
<1>6. g[N] = f[N]
  BY <1>1, <1>4
<1> QED  BY <1>1, <1>2, <1>3, <1>5, <1>6 DEF longer

-----------------------------------------------------------------------------
(* Logs of the instances of U, of messages of M *)

Addressed(U, M) == \A m \in M : m.uid \in U

LEMMA DeliveredType ==
  ASSUME NEW U, NEW M, Addressed(U, M), NEW logs \in [U -> Seq(M)], NEW list \in Seq(M)
  PROVE  Delivered(logs, list) \in [U -> Seq(M)]
<1> DEFINE T == {l \in Seq(M) : Delivered(logs, l) \in [U -> Seq(M)]}
<1>1. <<>> \in T
  BY EmptySeq, DeliveredEmpty
<1>2. ASSUME NEW l \in T, NEW m \in M PROVE Append(l, m) \in T
  <2>1. Delivered(logs, Append(l, m)) = [Delivered(logs, l) EXCEPT ![m.uid] = Append(@, m)]
    BY DeliveredAppend
  <2>2. Append(l, m) \in Seq(M)
    BY AppendProperties
  <2>3. Append(Delivered(logs, l)[m.uid], m) \in Seq(M)
    BY AppendProperties DEF Addressed
  <2> QED  BY <2>1, <2>2, <2>3
<1> HIDE DEF T
<1>3. T = Seq(M)
  BY <1>1, <1>2, SeqSetInduction DEF T
<1> QED  BY <1>3 DEF T

\* What the logs have after some of the list is what they have first after all
\* of it.
Begins(s, t) == Len(s) <= Len(t) /\ \A i \in 1 .. Len(s) : s[i] = t[i]

LEMMA DeliveredBegins ==
  ASSUME NEW U, NEW M, Addressed(U, M), NEW logs \in [U -> Seq(M)], NEW list \in Seq(M),
         NEW n \in 0 .. Len(list), NEW u \in U
  PROVE  Begins(Delivered(logs, SubSeq(list, 1, n))[u], Delivered(logs, list)[u])
<1> DEFINE D(l) == Delivered(logs, l)[u]
           T == {l \in Seq(M) : \A k \in 0 .. Len(l) : Begins(D(SubSeq(l, 1, k)), D(l))}
<1>0. \A l \in Seq(M) : D(l) \in Seq(M) /\ Len(D(l)) \in Nat /\ Begins(D(l), D(l))
  BY DeliveredType, LenProperties, SMTT(30) DEF Begins
<1>1. <<>> \in T
  <2>1. <<>> \in Seq(M) /\ Len(<<>>) = 0 /\ SubSeq(<<>>, 1, 0) = <<>>
    BY EmptySeq, SubSeqEmpty
  <2>2. Begins(D(<<>>), D(<<>>))
    BY <1>0, <2>1
  <2>3. ASSUME NEW k \in 0 .. Len(<<>>) PROVE Begins(D(SubSeq(<<>>, 1, k)), D(<<>>))
    <3>1. k = 0
      BY <2>1
    <3> HIDE DEF D
    <3> QED  BY <2>1, <2>2, <3>1
  <2> HIDE DEF D
  <2> QED  BY <2>1, <2>3
<1>2. ASSUME NEW l \in T, NEW m \in M PROVE Append(l, m) \in T
  <2> DEFINE longer == Append(l, m)
  <2>1. /\ l \in Seq(M) /\ longer \in Seq(M) /\ Len(l) \in Nat /\ Len(longer) = Len(l) + 1
        /\ \A i \in 1 .. Len(l) : longer[i] = l[i]
    BY AppendProperties, LenProperties
  <2>2. Begins(D(l), D(longer))
    <3>1. Delivered(logs, longer) = [Delivered(logs, l) EXCEPT ![m.uid] = Append(@, m)]
      BY DeliveredAppend
    <3>2. Delivered(logs, l) \in [U -> Seq(M)]
      BY DeliveredType
    <3>3. D(longer) = D(l) \/ D(longer) = Append(D(l), m)
      BY <3>1, <3>2
    <3>4. Begins(D(l), Append(D(l), m))
      BY <1>0, AppendProperties DEF Begins
    <3> QED  BY <1>0, <3>3, <3>4
  <2> HIDE DEF longer
  <2>3. ASSUME NEW k \in 0 .. Len(longer) PROVE Begins(D(SubSeq(longer, 1, k)), D(longer))
    <3>1. CASE k = Len(longer)
      BY <1>0, <2>1, <3>1, SubSeqFull
    <3>2. CASE k # Len(longer)
      <4>1. k \in 0 .. Len(l) /\ k \in Int
        BY <2>1, <3>2
      <4>2. SubSeq(longer, 1, k) = SubSeq(l, 1, k)
        <5>1. \A i \in 1 .. k : i \in 1 .. Len(l) /\ longer[i] = l[i]
          BY <2>1, <4>1
        <5>2. \A i \in 1 .. k : longer[i] \in M /\ l[i] \in M
          BY <2>1, <5>1, ElementOfSeq
        <5>3. /\ SubSeq(l, 1, k) \in Seq(M)
              /\ Len(SubSeq(l, 1, k)) = IF 1 <= k THEN k - 1 + 1 ELSE 0
              /\ \A i \in 1 .. k - 1 + 1 : SubSeq(l, 1, k)[i] = l[1 + i - 1]
          BY <4>1, <5>2, SubSeqProperties
        <5>4. /\ SubSeq(longer, 1, k) \in Seq(M)
              /\ Len(SubSeq(longer, 1, k)) = IF 1 <= k THEN k - 1 + 1 ELSE 0
              /\ \A i \in 1 .. k - 1 + 1 : SubSeq(longer, 1, k)[i] = longer[1 + i - 1]
          BY <4>1, <5>2, SubSeqProperties
        <5>5. /\ Len(SubSeq(l, 1, k)) = k /\ Len(SubSeq(longer, 1, k)) = k
              /\ \A i \in 1 .. k : SubSeq(l, 1, k)[i] = SubSeq(longer, 1, k)[i]
          <6>1. \A i \in 1 .. k : i \in 1 .. k - 1 + 1 /\ 1 + i - 1 = i
            BY <4>1
          <6> QED  BY <4>1, <5>1, <5>3, <5>4, <6>1
        <5> QED  BY <5>3, <5>4, <5>5, SeqEqual
      <4>3. Begins(D(SubSeq(l, 1, k)), D(l))
        BY <4>1
      <4>4. SubSeq(l, 1, k) \in Seq(M)
        <5>1. \A i \in 1 .. k : l[i] \in M
          BY <2>1, <4>1, ElementOfSeq
        <5> QED  BY <4>1, <5>1, SubSeqProperties
      <4>5. Len(D(SubSeq(l, 1, k))) \in Nat /\ Len(D(l)) \in Nat /\ Len(D(longer)) \in Nat
        BY <1>0, <2>1, <4>4
      <4> HIDE DEF D
      <4>6. Len(D(SubSeq(l, 1, k))) <= Len(D(longer))
        BY <2>2, <4>3, <4>5 DEF Begins
      <4>7. \A i \in 1 .. Len(D(SubSeq(l, 1, k))) : D(SubSeq(l, 1, k))[i] = D(longer)[i]
        <5> SUFFICES ASSUME NEW i \in 1 .. Len(D(SubSeq(l, 1, k)))
                     PROVE  D(SubSeq(l, 1, k))[i] = D(longer)[i]
          OBVIOUS
        <5>1. i \in 1 .. Len(D(l))
          BY <4>3, <4>5 DEF Begins
        <5> QED  BY <2>2, <4>3, <5>1 DEF Begins
      <4> QED  BY <4>2, <4>6, <4>7 DEF Begins
    <3> QED  BY <3>1, <3>2
  <2> QED  BY <2>1, <2>3 DEF longer
<1> HIDE DEF T
<1>3. T = Seq(M)
  BY <1>1, <1>2, SeqSetInduction DEF T
<1> QED  BY <1>3 DEF T

\* A list that has at most one message for each instance adds that one.
OnePerInstance(list) == \A i, j \in DOMAIN list : i # j => list[i].uid # list[j].uid

LEMMA DeliveredOnce ==
  ASSUME NEW U, NEW M, Addressed(U, M), NEW logs \in [U -> Seq(M)], NEW list \in Seq(M),
         NEW last \in Seq(M), OnePerInstance(last)
  PROVE  /\ \A i \in DOMAIN last :
              Delivered(logs, list \o last)[last[i].uid] =
                Append(Delivered(logs, list)[last[i].uid], last[i])
         /\ \A u \in U : (\A i \in DOMAIN last : last[i].uid # u) =>
              Delivered(logs, list \o last)[u] = Delivered(logs, list)[u]
<1> DEFINE D(l) == Delivered(logs, l)
           Once(l) == /\ \A i \in DOMAIN l : D(list \o l)[l[i].uid] = Append(D(list)[l[i].uid], l[i])
                      /\ \A u \in U : (\A i \in DOMAIN l : l[i].uid # u) =>
                           D(list \o l)[u] = D(list)[u]
           T == {l \in Seq(M) : OnePerInstance(l) => Once(l)}
<1>1. <<>> \in T
  <2>1. <<>> \in Seq(M) /\ DOMAIN <<>> = {} /\ list \o <<>> = list
    BY EmptySeq, ConcatEmptySeq
  <2> QED  BY <2>1
<1>2. ASSUME NEW l \in T, NEW m \in M PROVE Append(l, m) \in T
  <2> DEFINE longer == Append(l, m)
             N == Len(l)
  <2>1. /\ l \in Seq(M) /\ longer \in Seq(M) /\ N \in Nat
        /\ DOMAIN l = 1 .. N /\ DOMAIN longer = 1 .. N + 1
        /\ longer[N + 1] = m /\ \A i \in 1 .. N : longer[i] = l[i]
    BY AppendProperties, LenProperties
  <2>2. D(list \o longer) = [D(list \o l) EXCEPT ![m.uid] = Append(@, m)]
    <3>1. Append(l, m) = l \o <<m>> /\ <<m>> \in Seq(M) /\ list \o l \in Seq(M)
      BY <2>1, AppendIsConcat, ConcatProperties
    <3>2. list \o longer = Append(list \o l, m)
      BY <2>1, <3>1, ConcatAssociative, AppendIsConcat
    <3>3. Delivered(logs, Append(list \o l, m)) =
            [Delivered(logs, list \o l) EXCEPT ![m.uid] = Append(@, m)]
      <4> DEFINE before == list \o l
      <4>1. before \in Seq(M)
        BY <3>1
      <4> HIDE DEF before
      <4>2. Delivered(logs, Append(before, m)) =
              [Delivered(logs, before) EXCEPT ![m.uid] = Append(@, m)]
        BY <4>1, DeliveredAppend
      <4> QED  BY <4>2 DEF before
    <3> QED  BY <3>2, <3>3
  <2>3. D(list \o l) \in [U -> Seq(M)]
    BY <2>1, ConcatProperties, DeliveredType
  <2> HIDE DEF longer, N, D
  <2>4. ASSUME OnePerInstance(longer) PROVE Once(longer)
    <3>1. OnePerInstance(l)
      <4> SUFFICES ASSUME NEW i \in 1 .. N, NEW j \in 1 .. N, i # j PROVE l[i].uid # l[j].uid
        BY <2>1 DEF OnePerInstance
      <4>1. i \in DOMAIN longer /\ j \in DOMAIN longer /\ longer[i] = l[i] /\ longer[j] = l[j]
        BY <2>1
      <4> QED  BY <2>4, <4>1 DEF OnePerInstance
    <3>2. Once(l)
      BY <3>1
    <3>3. \A i \in 1 .. N : l[i].uid # m.uid /\ l[i].uid \in U
      <4>1. \A i \in 1 .. N : longer[i].uid # longer[N + 1].uid
        <5> SUFFICES ASSUME NEW i \in 1 .. N PROVE longer[i].uid # longer[N + 1].uid
          OBVIOUS
        <5>1. i \in DOMAIN longer /\ N + 1 \in DOMAIN longer /\ i # N + 1
          BY <2>1
        <5> QED  BY <2>4, <5>1 DEF OnePerInstance
      <4>2. \A i \in 1 .. N : l[i] \in M
        BY <2>1, ElementOfSeq DEF N
      <4> QED  BY <2>1, <4>1, <4>2 DEF Addressed
    <3>4. m.uid \in U
      BY DEF Addressed
    <3>5. D(list \o longer)[m.uid] = Append(D(list)[m.uid], m)
      <4>1. D(list \o l)[m.uid] = D(list)[m.uid]
        BY <2>1, <3>2, <3>3, <3>4
      <4> QED  BY <2>2, <2>3, <3>4, <4>1
    <3>6. \A i \in 1 .. N : D(list \o longer)[l[i].uid] = Append(D(list)[l[i].uid], l[i])
      BY <2>1, <2>2, <2>3, <3>2, <3>3
    <3>7. ASSUME NEW u \in U, \A i \in DOMAIN longer : longer[i].uid # u
          PROVE  D(list \o longer)[u] = D(list)[u]
      <4>1. u # m.uid /\ \A i \in DOMAIN l : l[i].uid # u
        <5>1. N + 1 \in DOMAIN longer /\ longer[N + 1] = m
          BY <2>1
        <5>2. \A i \in DOMAIN l : i \in DOMAIN longer /\ longer[i] = l[i]
          BY <2>1
        <5> QED  BY <3>7, <5>1, <5>2
      <4> QED  BY <2>2, <2>3, <3>2, <4>1
    <3>8. ASSUME NEW i \in DOMAIN longer
          PROVE  D(list \o longer)[longer[i].uid] = Append(D(list)[longer[i].uid], longer[i])
      <4>1. CASE i = N + 1
        BY <2>1, <3>5, <4>1
      <4>2. CASE i # N + 1
        <5>1. i \in 1 .. N /\ longer[i] = l[i]
          BY <2>1, <4>2
        <5> QED  BY <3>6, <5>1
      <4> QED  BY <4>1, <4>2
    <3> QED  BY <3>7, <3>8
  <2> QED  BY <2>1, <2>4 DEF longer
<1> HIDE DEF T, Once
<1>3. T = Seq(M)
  BY <1>1, <1>2, SeqSetInduction DEF T
<1>4. Once(last)
  BY <1>3 DEF T
<1> QED  BY <1>4 DEF Once

\* A sequence with the elements of a finite set, each once, has them all.
LEMMA EachOnce ==
  ASSUME NEW S, IsFiniteSet(S), NEW order \in SetToSeqs(S)
  PROVE  /\ order \in Seq(S) /\ DOMAIN order = 1 .. Len(order)
         /\ \A i, j \in DOMAIN order : i # j => order[i] # order[j]
         /\ \A x \in S : \E i \in DOMAIN order : order[i] = x
<1> DEFINE n == Cardinality(S)
<1>1. n \in Nat /\ IsFiniteSet(1 .. n) /\ Cardinality(1 .. n) = n
  BY FS_CardinalityType, FS_Interval
<1>2. order \in [1 .. n -> S] /\ \A i, j \in 1 .. n : i # j => order[i] # order[j]
  BY DEF SetToSeqs
<1> HIDE DEF n
<1>3. order \in Injection(1 .. n, S)
  BY <1>2 DEF Injection, IsInjective
<1>4. order \in Surjection(1 .. n, S)
  BY <1>1, <1>3, FS_Injection DEF n
<1>5. \A x \in S : \E i \in 1 .. n : order[i] = x
  BY <1>4 DEF Surjection
<1>6. order \in Seq(S)
  BY <1>1, <1>2
<1> QED  BY <1>2, <1>5, <1>6, LenProperties

-----------------------------------------------------------------------------
(* Reading a log that grew or was cut *)

LEMMA AppendLog ==
  ASSUME NEW M, NEW s \in Seq(M), NEW m \in M
  PROVE  /\ Append(s, m) \in Seq(M) /\ Append(s, m) # <<>>
         /\ Len(s) \in Nat /\ DOMAIN s = 1 .. Len(s)
         /\ Len(Append(s, m)) = Len(s) + 1 /\ DOMAIN Append(s, m) = 1 .. Len(s) + 1
         /\ Append(s, m)[Len(s) + 1] = m
         /\ \A i \in DOMAIN s : Append(s, m)[i] = s[i]
<1>1. /\ Append(s, m) \in Seq(M) /\ Len(s) \in Nat /\ DOMAIN s = 1 .. Len(s)
      /\ Len(Append(s, m)) = Len(s) + 1 /\ Append(s, m)[Len(s) + 1] = m
      /\ \A i \in 1 .. Len(s) : Append(s, m)[i] = s[i]
  BY AppendProperties, LenProperties
<1>2. DOMAIN Append(s, m) = 1 .. Len(Append(s, m))
  BY <1>1, LenProperties
<1>3. Append(s, m) # <<>>
  BY <1>1, EmptySeq
<1> QED  BY <1>1, <1>2, <1>3

LEMMA BeginsLog ==
  ASSUME NEW M, NEW s \in Seq(M), NEW t \in Seq(M), Begins(s, t)
  PROVE  /\ \A i \in DOMAIN s : i \in DOMAIN t /\ s[i] = t[i]
         /\ t = <<>> => s = <<>>
<1>1. /\ Len(s) \in Nat /\ DOMAIN s = 1 .. Len(s)
      /\ Len(t) \in Nat /\ DOMAIN t = 1 .. Len(t)
  BY LenProperties
<1>2. \A i \in DOMAIN s : i \in DOMAIN t /\ s[i] = t[i]
  BY <1>1 DEF Begins
<1>3. t = <<>> => Len(s) = 0
  BY <1>1, EmptySeq DEF Begins
<1> QED  BY <1>2, <1>3, EmptySeq

-----------------------------------------------------------------------------
(* Counting the messages of one kind *)

Places(list, u, k) == {i \in DOMAIN list : list[i].uid = u /\ list[i].kind = k}
NewPlaces(log, longer, k) == {i \in DOMAIN longer \ DOMAIN log : longer[i].kind = k}

LEMMA FinitePlaces ==
  ASSUME NEW M, NEW list \in Seq(M), NEW u, NEW k
  PROVE  /\ IsFiniteSet(Places(list, u, k))
         /\ Cardinality(Places(list, u, k)) \in Nat
         /\ Places(list, u, k) \subseteq 1 .. Len(list)
<1>1. Len(list) \in Nat /\ DOMAIN list = 1 .. Len(list)
  BY LenProperties
<1>2. IsFiniteSet(1 .. Len(list))
  BY <1>1, FS_Interval
<1>3. Places(list, u, k) \subseteq 1 .. Len(list)
  BY <1>1 DEF Places
<1>4. IsFiniteSet(Places(list, u, k))
  BY <1>2, <1>3, FS_Subset
<1> QED  BY <1>3, <1>4, FS_CardinalityType

LEMMA NoPlaces == \A u, k : Places(<<>>, u, k) = {} /\ Cardinality(Places(<<>>, u, k)) = 0
<1>1. DOMAIN <<>> = {}
  OBVIOUS
<1>2. \A u, k : Places(<<>>, u, k) = {}
  BY <1>1 DEF Places
<1> QED  BY <1>2, FS_EmptySet

LEMMA PlacesAppend ==
  ASSUME NEW M, NEW list \in Seq(M), NEW m \in M, NEW u, NEW k
  PROVE  Cardinality(Places(Append(list, m), u, k)) =
           Cardinality(Places(list, u, k)) + (IF m.uid = u /\ m.kind = k THEN 1 ELSE 0)
<1> DEFINE longer == Append(list, m)
           N == Len(list)
<1>1. /\ N \in Nat /\ DOMAIN list = 1 .. N /\ DOMAIN longer = 1 .. N + 1
      /\ longer[N + 1] = m /\ \A i \in DOMAIN list : longer[i] = list[i]
  BY AppendLog
<1> HIDE DEF longer, N
<1>2. /\ IsFiniteSet(Places(list, u, k)) /\ Cardinality(Places(list, u, k)) \in Nat
      /\ N + 1 \notin Places(list, u, k)
  <2>1. N + 1 \notin Places(list, u, k)
    BY <1>1 DEF Places
  <2> QED  BY <2>1, FinitePlaces
<1>3. CASE m.uid = u /\ m.kind = k
  <2>1. Places(longer, u, k) = Places(list, u, k) \cup {N + 1}
    <3>1. \A i : i \in 1 .. N + 1 <=> i \in 1 .. N \/ i = N + 1
      BY <1>1
    <3>2. \A i : i \in Places(longer, u, k) <=> i \in Places(list, u, k) \/ i = N + 1
      BY <1>1, <1>3, <3>1 DEF Places
    <3> QED  BY <3>2
  <2>2. Cardinality(Places(longer, u, k)) = Cardinality(Places(list, u, k)) + 1
    BY <1>2, <2>1, FS_AddElement
  <2> QED  BY <1>3, <2>2 DEF longer
<1>4. CASE ~(m.uid = u /\ m.kind = k)
  <2>1. Places(longer, u, k) = Places(list, u, k)
    <3>1. \A i : i \in 1 .. N + 1 <=> i \in 1 .. N \/ i = N + 1
      BY <1>1
    <3>2. \A i : i \in Places(longer, u, k) <=> i \in Places(list, u, k)
      BY <1>1, <1>4, <3>1 DEF Places
    <3> QED  BY <3>2
  <2> QED  BY <1>2, <1>4, <2>1 DEF longer
<1> QED  BY <1>3, <1>4

\* Every message of the list becomes one in the log of its instance.
LEMMA DeliveredCounts ==
  ASSUME NEW U, NEW M, Addressed(U, M), NEW logs \in [U -> Seq(M)], NEW list \in Seq(M),
         NEW u \in U, NEW k
  PROVE  /\ Begins(logs[u], Delivered(logs, list)[u])
         /\ IsFiniteSet(NewPlaces(logs[u], Delivered(logs, list)[u], k))
         /\ Cardinality(NewPlaces(logs[u], Delivered(logs, list)[u], k)) =
              Cardinality(Places(list, u, k))
<1> DEFINE D(l) == Delivered(logs, l)[u]
           New(l) == NewPlaces(logs[u], D(l), k)
           T == {l \in Seq(M) : /\ Begins(logs[u], D(l)) /\ IsFiniteSet(New(l))
                                /\ Cardinality(New(l)) = Cardinality(Places(l, u, k))}
<1>0. \A l \in Seq(M) : D(l) \in Seq(M)
  BY DeliveredType
<1>1. <<>> \in T
  <2>1. D(<<>>) = logs[u] /\ <<>> \in Seq(M)
    BY DeliveredEmpty, EmptySeq
  <2>2. NewPlaces(logs[u], logs[u], k) = {}
    BY DEF NewPlaces
  <2>3. New(<<>>) = {}
    BY <2>1, <2>2
  <2>4. Begins(logs[u], logs[u])
    BY LenProperties DEF Begins
  <2>5. IsFiniteSet(New(<<>>)) /\ Cardinality(New(<<>>)) = 0
    BY <2>3, FS_EmptySet
  <2> HIDE DEF D, New
  <2> QED  BY <2>1, <2>4, <2>5, NoPlaces
<1>2. ASSUME NEW l \in T, NEW m \in M PROVE Append(l, m) \in T
  <2> DEFINE longer == Append(l, m)
  <2>1. /\ l \in Seq(M) /\ longer \in Seq(M) /\ Begins(logs[u], D(l)) /\ IsFiniteSet(New(l))
        /\ Cardinality(New(l)) = Cardinality(Places(l, u, k))
    BY AppendLog
  <2>2. Delivered(logs, longer) = [Delivered(logs, l) EXCEPT ![m.uid] = Append(@, m)]
    BY <2>1, DeliveredAppend
  <2>3. Delivered(logs, l) \in [U -> Seq(M)]
    BY <2>1, DeliveredType
  <2>4. D(longer) = IF m.uid = u THEN Append(D(l), m) ELSE D(l)
    BY <2>2, <2>3
  <2>5. Cardinality(Places(longer, u, k)) =
          Cardinality(Places(l, u, k)) + (IF m.uid = u /\ m.kind = k THEN 1 ELSE 0)
    BY <2>1, PlacesAppend
  <2>6. Cardinality(Places(l, u, k)) \in Nat
    BY <2>1, FinitePlaces
  <2>7. CASE m.uid # u
    <3>1. D(longer) = D(l)
      BY <2>4, <2>7
    <3>2. New(longer) = New(l)
      BY <3>1
    <3> HIDE DEF D, New, longer
    <3> QED  BY <2>1, <2>5, <2>6, <2>7, <3>1, <3>2 DEF longer
  <2>8. CASE m.uid = u
    <3> DEFINE n == Len(D(l))
    <3>1. D(longer) = Append(D(l), m) /\ D(l) \in Seq(M)
      BY <1>0, <2>1, <2>4, <2>8
    <3> HIDE DEF D
    <3>2. /\ n \in Nat /\ DOMAIN D(l) = 1 .. n /\ DOMAIN D(longer) = 1 .. n + 1
          /\ D(longer)[n + 1] = m /\ \A i \in DOMAIN D(l) : D(longer)[i] = D(l)[i]
          /\ Len(D(longer)) = n + 1
      BY <3>1, AppendLog
    <3>3. Len(logs[u]) \in Nat /\ DOMAIN logs[u] = 1 .. Len(logs[u]) /\ Len(logs[u]) <= n
      BY <2>1, LenProperties DEF Begins
    <3> HIDE DEF n
    <3>4. Begins(logs[u], D(longer))
      <4>1. \A i \in 1 .. Len(logs[u]) : i \in DOMAIN D(l) /\ logs[u][i] = D(l)[i]
        BY <2>1, <3>2, <3>3 DEF Begins
      <4> QED  BY <3>2, <3>3, <4>1 DEF Begins
    <3>5. /\ n + 1 \notin DOMAIN logs[u] /\ n + 1 \notin DOMAIN D(l)
          /\ \A i : i \in DOMAIN D(longer) <=> i \in DOMAIN D(l) \/ i = n + 1
      BY <3>2, <3>3
    <3>6. CASE m.kind = k
      <4>1. \A i : i \in New(longer) <=> i \in New(l) \/ i = n + 1
        BY <3>2, <3>5, <3>6 DEF NewPlaces
      <4>2. n + 1 \notin New(l)
        BY <3>5 DEF NewPlaces
      <4> HIDE DEF New
      <4>3. New(longer) = New(l) \cup {n + 1}
        BY <4>1
      <4>4. IsFiniteSet(New(longer)) /\ Cardinality(New(longer)) = Cardinality(New(l)) + 1
        BY <2>1, <4>2, <4>3, FS_AddElement
      <4> QED  BY <2>1, <2>5, <2>8, <3>4, <3>6, <4>4
    <3>7. CASE m.kind # k
      <4>1. \A i : i \in New(longer) <=> i \in New(l)
        BY <3>2, <3>5, <3>7 DEF NewPlaces
      <4> HIDE DEF New
      <4>2. New(longer) = New(l)
        BY <4>1
      <4> QED  BY <2>1, <2>5, <2>6, <2>8, <3>4, <3>7, <4>2
    <3> QED  BY <3>6, <3>7
  <2> QED  BY <2>7, <2>8
<1> HIDE DEF T
<1>3. T = Seq(M)
  BY <1>1, <1>2, SeqSetInduction DEF T
<1> QED  BY <1>3 DEF T

LEMMA PlacesConcat ==
  ASSUME NEW M, NEW list \in Seq(M), NEW last \in Seq(M), NEW u, NEW k
  PROVE  Cardinality(Places(list \o last, u, k)) =
           Cardinality(Places(list, u, k)) + Cardinality(Places(last, u, k))
<1> DEFINE C(l) == Cardinality(Places(l, u, k))
           T == {l \in Seq(M) : C(list \o l) = C(list) + C(l)}
<1>0. \A l \in Seq(M) : C(l) \in Nat
  BY FinitePlaces
<1>1. <<>> \in T
  <2>1. <<>> \in Seq(M) /\ list \o <<>> = list
    BY EmptySeq, ConcatEmptySeq
  <2>2. C(<<>>) = 0 /\ C(list) \in Nat
    BY <1>0, NoPlaces
  <2> HIDE DEF C
  <2> QED  BY <2>1, <2>2
<1>2. ASSUME NEW l \in T, NEW m \in M PROVE Append(l, m) \in T
  <2> DEFINE one == IF m.uid = u /\ m.kind = k THEN 1 ELSE 0
             both == list \o l
  <2>1. l \in Seq(M) /\ both \in Seq(M) /\ C(both) = C(list) + C(l) /\ Append(l, m) \in Seq(M)
    BY ConcatProperties, AppendProperties
  <2>2. list \o Append(l, m) = Append(both, m)
    <3>1. <<m>> \in Seq(M)
      OBVIOUS
    <3>2. Append(l, m) = l \o <<m>> /\ Append(both, m) = both \o <<m>>
      BY <2>1, AppendIsConcat
    <3> QED  BY <2>1, <3>1, <3>2, ConcatAssociative
  <2> HIDE DEF both
  <2>3. C(Append(l, m)) = C(l) + one /\ C(Append(both, m)) = C(both) + one
    BY <2>1, PlacesAppend
  <2>4. C(l) \in Nat /\ C(list) \in Nat /\ one \in Nat
    BY <1>0, <2>1
  <2> HIDE DEF C, one
  <2>5. C(list \o Append(l, m)) = C(Append(both, m))
    BY <2>2
  <2>6. C(list \o Append(l, m)) = C(list) + C(Append(l, m))
    BY <2>1, <2>3, <2>4, <2>5
  <2> QED  BY <2>1, <2>6
<1> HIDE DEF T
<1>3. T = Seq(M)
  BY <1>1, <1>2, SeqSetInduction DEF T
<1> QED  BY <1>3 DEF T

LEMMA PlacesOnce ==
  ASSUME NEW M, NEW last \in Seq(M), OnePerInstance(last), NEW u, NEW k
  PROVE  Cardinality(Places(last, u, k)) =
           IF \E i \in DOMAIN last : last[i].uid = u /\ last[i].kind = k THEN 1 ELSE 0
<1>1. CASE \E i \in DOMAIN last : last[i].uid = u /\ last[i].kind = k
  <2>1. PICK i \in DOMAIN last : last[i].uid = u /\ last[i].kind = k
    BY <1>1
  <2>2. Places(last, u, k) = {i}
    BY <2>1 DEF Places, OnePerInstance
  <2>3. Cardinality({i}) = 1
    BY FS_Singleton
  <2> QED  BY <1>1, <2>2, <2>3
<1>2. CASE ~\E i \in DOMAIN last : last[i].uid = u /\ last[i].kind = k
  <2>1. Places(last, u, k) = {}
    BY <1>2 DEF Places
  <2> QED  BY <1>2, <2>1, FS_EmptySet
<1> QED  BY <1>1, <1>2

\* A beginning of a list is a list, and delivers no more than the whole.
LEMMA CutType ==
  ASSUME NEW M, NEW list \in Seq(M), NEW n \in 0 .. Len(list)
  PROVE  /\ SubSeq(list, 1, n) \in Seq(M) /\ DOMAIN SubSeq(list, 1, n) = 1 .. n
         /\ \A i \in 1 .. n : i \in DOMAIN list /\ SubSeq(list, 1, n)[i] = list[i]
<1>1. Len(list) \in Nat /\ DOMAIN list = 1 .. Len(list) /\ n \in Int
  BY LenProperties
<1>2. \A i \in 1 .. n : i \in 1 .. Len(list)
  BY <1>1
<1>3. \A i \in 1 .. n : list[i] \in M
  BY <1>2, ElementOfSeq
<1>4. /\ SubSeq(list, 1, n) \in Seq(M)
      /\ Len(SubSeq(list, 1, n)) = IF 1 <= n THEN n - 1 + 1 ELSE 0
      /\ \A i \in 1 .. n - 1 + 1 : SubSeq(list, 1, n)[i] = list[1 + i - 1]
  BY <1>1, <1>3, SubSeqProperties
<1>5. \A i \in 1 .. n : i \in 1 .. n - 1 + 1 /\ 1 + i - 1 = i
  BY <1>1
<1>6. Len(SubSeq(list, 1, n)) = n
  BY <1>1, <1>4
<1>7. DOMAIN SubSeq(list, 1, n) = 1 .. n
  BY <1>4, <1>6, LenProperties
<1> QED  BY <1>1, <1>2, <1>4, <1>5, <1>7

LEMMA CutCounts ==
  ASSUME NEW U, NEW M, Addressed(U, M), NEW logs \in [U -> Seq(M)], NEW list \in Seq(M),
         NEW n \in 0 .. Len(list), NEW u \in U, NEW k
  PROVE  LET cut == Delivered(logs, SubSeq(list, 1, n))[u] IN
         /\ Begins(logs[u], cut)
         /\ Cardinality(NewPlaces(logs[u], cut, k)) \in Nat
         /\ Cardinality(NewPlaces(logs[u], cut, k)) <= Cardinality(Places(list, u, k))
<1> DEFINE s == SubSeq(list, 1, n)
<1>1. /\ s \in Seq(M) /\ DOMAIN s = 1 .. n
      /\ \A i \in 1 .. n : i \in DOMAIN list /\ s[i] = list[i]
  BY CutType
<1> HIDE DEF s
<1>2. /\ Begins(logs[u], Delivered(logs, s)[u])
      /\ Cardinality(NewPlaces(logs[u], Delivered(logs, s)[u], k)) = Cardinality(Places(s, u, k))
  <2>1. s \in Seq(M)
    BY <1>1
  <2> QED  BY <2>1, DeliveredCounts
<1>3. Places(s, u, k) \in SUBSET Places(list, u, k)
  BY <1>1 DEF Places
<1>4. Cardinality(Places(s, u, k)) \in Nat /\ IsFiniteSet(Places(list, u, k))
  BY <1>1, FinitePlaces
<1>5. Cardinality(Places(s, u, k)) <= Cardinality(Places(list, u, k))
  BY <1>3, <1>4, FS_Subset
<1> QED  BY <1>2, <1>4, <1>5 DEF s

\* The kinds of a log, and of a longer one.
KindsOf(log) == [i \in DOMAIN log |-> log[i].kind]

LEMMA KindsOfLog ==
  ASSUME NEW M, NEW K, \A m \in M : m.kind \in K,
         NEW s \in Seq(M), NEW t \in Seq(M), Begins(s, t)
  PROVE  /\ Len(KindsOf(t)) >= Len(KindsOf(s))
         /\ SubSeq(KindsOf(t), 1, Len(KindsOf(s))) = KindsOf(s)
         /\ \A k : {i \in DOMAIN KindsOf(t) \ DOMAIN KindsOf(s) : KindsOf(t)[i] = k} =
                     NewPlaces(s, t, k)
<1> DEFINE a == [i \in DOMAIN s |-> s[i].kind]
           b == [i \in DOMAIN t |-> t[i].kind]
<1>1. /\ Len(s) \in Nat /\ DOMAIN s = 1 .. Len(s) /\ Len(t) \in Nat /\ DOMAIN t = 1 .. Len(t)
      /\ Len(s) <= Len(t)
  BY LenProperties DEF Begins
<1>2. \A i \in DOMAIN s : s[i].kind \in K
  <2>1. \A i \in DOMAIN s : s[i] \in M
    BY <1>1, ElementOfSeq
  <2> QED  BY <2>1
<1>3. \A i \in DOMAIN t : t[i].kind \in K
  <2>1. \A i \in DOMAIN t : t[i] \in M
    BY <1>1, ElementOfSeq
  <2> QED  BY <2>1
<1>4. a \in [1 .. Len(s) -> K] /\ b \in [1 .. Len(t) -> K]
  BY <1>1, <1>2, <1>3
<1>5. a \in Seq(K) /\ b \in Seq(K)
  BY <1>1, <1>4
<1>6. DOMAIN a = DOMAIN s /\ DOMAIN b = DOMAIN t
  OBVIOUS
<1>7. \A i \in 1 .. Len(s) : a[i] = b[i] /\ i \in 1 .. Len(t)
  BY <1>1 DEF Begins
<1>8. \A k : {i \in DOMAIN b \ DOMAIN a : b[i] = k} = NewPlaces(s, t, k)
  BY DEF NewPlaces
<1> HIDE DEF a, b
<1>9. Len(a) = Len(s) /\ Len(b) = Len(t)
  <2>1. Len(a) \in Nat /\ DOMAIN a = 1 .. Len(a) /\ Len(b) \in Nat /\ DOMAIN b = 1 .. Len(b)
    BY <1>5, LenProperties
  <2> QED  BY <1>1, <1>6, <2>1
<1>10. SubSeq(b, 1, Len(a)) = a
  <2> DEFINE cut == SubSeq(b, 1, Len(a))
  <2>1. Len(a) \in 0 .. Len(b)
    BY <1>1, <1>9
  <2>2. /\ cut \in Seq(K) /\ DOMAIN cut = 1 .. Len(a)
        /\ \A i \in 1 .. Len(a) : cut[i] = b[i]
    BY <1>5, <2>1, CutType
  <2> HIDE DEF cut
  <2>3. Len(cut) = Len(a)
    <3>1. Len(cut) \in Nat /\ DOMAIN cut = 1 .. Len(cut)
      BY <2>2, LenProperties
    <3> QED  BY <1>1, <1>9, <2>2, <3>1
  <2>4. \A i \in 1 .. Len(cut) : cut[i] = a[i]
    BY <1>7, <1>9, <2>2, <2>3
  <2>5. cut = a
    BY <1>5, <2>2, <2>3, <2>4, SeqEqual
  <2> QED  BY <2>5 DEF cut
<1>11. a = KindsOf(s) /\ b = KindsOf(t)
  BY DEF a, b, KindsOf
<1> QED  BY <1>1, <1>8, <1>9, <1>10, <1>11
=============================================================================
