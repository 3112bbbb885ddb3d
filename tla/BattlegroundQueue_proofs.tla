----------------------- MODULE BattlegroundQueue_proofs -----------------------
(***************************************************************************)
(* That the counts of the battlegrounds are exact, that invitations hold,  *)
(* that instance ids are unique, that the events remove players in time,   *)
(* and that the variables have their types, for any number of players,     *)
(* queues and battlegrounds.  One inductive invariant, BattlegroundInv, is *)
(* behind all of it: what the queues, the battlegrounds and the players    *)
(* say of each other agrees (Agree), and each invitation has its event.    *)
(* What a fold over the groups, the battlegrounds, the events, the         *)
(* scheduled queues or the players of a battleground computes is found by  *)
(* induction over the sequence or the set.                                 *)
(***************************************************************************)
EXTENDS BattlegroundQueue, FiniteSetTheorems, SequenceTheorems, TLAPS

\* Induction over the natural numbers, for a set of them: the least number outside of
\* it would have a predecessor inside.
LEMMA NatSetInduction ==
    ASSUME NEW S, 0 \in S, \A n \in Nat : n \in S => n + 1 \in S
    PROVE  \A n \in Nat : n \in S
<1> DEFINE T == {n \in Nat : n \notin S}
           R == {ss \in Nat \X Nat : ss[1] < ss[2]}
<1>1. IsWellFoundedOn(R, Nat)
  BY NatLessThanWellFounded DEF OpToRel
<1>2. T \subseteq Nat
  OBVIOUS
<1>3. SUFFICES ASSUME T # {} PROVE FALSE
  OBVIOUS
<1> HIDE DEF T, R
<1>4. PICK x \in T : \A y \in T : <<y, x>> \notin R
  BY <1>1, <1>2, <1>3, WFMin
<1>5. \A y \in T : ~ (y < x)
  BY <1>2, <1>4 DEF R
<1>6. x - 1 \in Nat
  BY <1>2 DEF T
<1> QED
  BY <1>5, <1>6 DEF T

\* A set of natural numbers that is not empty has a least element, and Min is it.
LEMMA MinOfNaturals ==
    ASSUME NEW S \in SUBSET Nat, S # {}
    PROVE  Min(S) \in S /\ \A y \in S : Min(S) <= y
<1> DEFINE R == {ss \in Nat \X Nat : ss[1] < ss[2]}
<1>1. IsWellFoundedOn(R, Nat)
  BY NatLessThanWellFounded DEF OpToRel
<1> HIDE DEF R
<1>2. PICK x \in S : \A y \in S : <<y, x>> \notin R
  BY <1>1, WFMin
<1>3. ASSUME NEW y \in S PROVE x <= y
  <2>1. x \in Nat /\ y \in Nat /\ <<y, x>> \notin R
    BY <1>2
  <2>2. ~ (y < x)
    BY <2>1 DEF R
  <2> QED
    BY <2>1, <2>2
<1>4. \E z \in S : \A y \in S : z <= y
  BY <1>3
<1> QED
  BY <1>4, Zenon DEF Min

-----------------------------------------------------------------------------
(* The elements of a sequence that are kept. *)
\* One element more.
KeepNext(s, S, f, i) ==
    IF i = 0 THEN <<>> ELSE IF s[i] \in S THEN Append(f[i - 1], s[i]) ELSE f[i - 1]

\* What Keeping's recursive function computes for the first n elements.
Kept(s, S, n, f) == f = [i \in 0..n |-> KeepNext(s, S, f, i)]

\* It exists.
LEMMA KeptExists ==
    ASSUME NEW s, NEW S
    PROVE  \A n \in Nat : \E f : Kept(s, S, n, f)
<1> DEFINE N == {n \in Nat : \E f : Kept(s, S, n, f)}
<1>1. 0 \in N
  <2> DEFINE f == [i \in 0..0 |-> <<>>]
  <2>1. f = [i \in 0..0 |-> KeepNext(s, S, f, i)]
    BY DEF KeepNext
  <2> HIDE DEF f
  <2> QED
    BY <2>1, Zenon DEF Kept
<1>2. ASSUME NEW n \in Nat, n \in N PROVE n + 1 \in N
  <2>1. PICK f : Kept(s, S, n, f)
    BY <1>2
  <2> DEFINE g == [i \in 0..n + 1 |-> KeepNext(s, S, f, i)]
  <2>2. ASSUME NEW i \in 0..n + 1 PROVE g[i] = KeepNext(s, S, g, i)
    <3>1. g[i] = KeepNext(s, S, f, i)
      OBVIOUS
    <3>2. i # 0 => g[i - 1] = f[i - 1]
      BY <2>1 DEF Kept
    <3> HIDE DEF g
    <3> QED
      BY <3>1, <3>2, Zenon DEF KeepNext
  <2>3. g = [i \in 0..n + 1 |-> g[i]]
    OBVIOUS
  <2> HIDE DEF g
  <2>4. Kept(s, S, n + 1, g)
    BY <2>2, <2>3, Zenon DEF Kept
  <2> QED
    BY <2>4
<1> HIDE DEF N
<1>3. \A n \in Nat : n \in N
  BY <1>1, <1>2, NatSetInduction
<1> QED
  BY <1>3 DEF N

\* k has the elements among the first i of s that are in S; f says where each was.
Picks(s, S, i, k, f) ==
    /\ f \in [1..Len(k) -> 1..i] /\ IsInjective(f)
    /\ \A j \in 1..Len(k) : k[j] = s[f[j]] /\ s[f[j]] \in S
    /\ \A j \in 1..i : s[j] \in S => \E h \in 1..Len(k) : f[h] = j

\* One more element that is kept.
LEMMA PicksOneMore ==
    ASSUME NEW X, NEW s \in Seq(X), NEW S, NEW i \in Nat, i + 1 <= Len(s),
           NEW k \in Seq(X), NEW f, Picks(s, S, i, k, f), s[i + 1] \in S
    PROVE  /\ Append(k, s[i + 1]) \in Seq(X)
           /\ \E g : Picks(s, S, i + 1, Append(k, s[i + 1]), g)
<1> DEFINE n == Len(k)
           g == [j \in 1..n + 1 |-> IF j <= n THEN f[j] ELSE i + 1]
<1>1. n \in Nat /\ s[i + 1] \in X
  OBVIOUS
<1>2. PICK e \in X : e = s[i + 1]
  BY <1>1
<1>10. PICK m \in Seq(X) : m = Append(k, e)
  BY AppendProperties
<1>3. Len(m) = n + 1 /\ m[n + 1] = s[i + 1] /\ \A j \in 1..n : m[j] = k[j]
  BY <1>2, <1>10, AppendProperties
<1>4. f \in [1..n -> 1..i]
  BY DEF Picks
<1>5. g \in [1..n + 1 -> 1..i + 1] /\ g[n + 1] = i + 1 /\ \A j \in 1..n : g[j] = f[j]
  BY <1>1, <1>4
<1> HIDE DEF n, g
<1>6. IsInjective(g)
  <2> SUFFICES ASSUME NEW a \in 1..n + 1, NEW b \in 1..n + 1, g[a] = g[b] PROVE a = b
    BY <1>5 DEF IsInjective
  <2>1. \A c \in 1..n : g[c] = f[c] /\ f[c] \in 1..i /\ c \in DOMAIN f
    BY <1>1, <1>4, <1>5
  <2>2. \A c, d \in 1..n : f[c] = f[d] => c = d
    BY <1>4 DEF Picks, IsInjective
  <2> QED
    BY <1>1, <1>5, <2>1, <2>2
<1>7. ASSUME NEW j \in 1..n + 1 PROVE m[j] = s[g[j]] /\ s[g[j]] \in S
  <2>1. CASE j = n + 1
    BY <1>3, <1>5, <2>1
  <2>2. CASE j \in 1..n
    BY <1>3, <1>5, <2>2 DEF Picks, n
  <2> QED
    BY <1>1, <2>1, <2>2
<1>8. ASSUME NEW j \in 1..i + 1, s[j] \in S PROVE \E h \in 1..n + 1 : g[h] = j
  <2>1. CASE j = i + 1
    BY <1>1, <1>5, <2>1
  <2>2. CASE j \in 1..i
    <3>1. PICK h \in 1..n : f[h] = j
      BY <1>8, <2>2 DEF Picks, n
    <3> QED
      BY <1>1, <1>5, <3>1
  <2> QED
    BY <2>1, <2>2
<1>9. Picks(s, S, i + 1, m, g)
  BY <1>3, <1>5, <1>6, <1>7, <1>8 DEF Picks
<1> QED
  BY <1>2, <1>10, <1>9

\* Keeping picks the elements that are in S.
LEMMA KeepingPicks ==
    ASSUME NEW X, NEW s \in Seq(X), NEW S
    PROVE  /\ Keeping(s, S) \in Seq(X)
           /\ \E f : Picks(s, S, Len(s), Keeping(s, S), f)
<1> DEFINE kept == CHOOSE kept : kept = [i \in 0..Len(s) |->
                IF i = 0 THEN <<>>
                ELSE IF s[i] \in S THEN Append(kept[i - 1], s[i]) ELSE kept[i - 1]]
<1>0. Len(s) \in Nat
  OBVIOUS
<1>1. Kept(s, S, Len(s), kept)
  <2>1. \E f : Kept(s, S, Len(s), f)
    BY <1>0, KeptExists
  <2> QED
    BY <2>1, Zenon DEF Kept, KeepNext
<1>2. Keeping(s, S) = kept[Len(s)]
  BY DEF Keeping
<1> HIDE DEF kept
<1>3. \A i \in 0..Len(s) : kept[i] = KeepNext(s, S, kept, i)
  BY <1>1 DEF Kept
<1> DEFINE Good(i) == kept[i] \in Seq(X) /\ \E f : Picks(s, S, i, kept[i], f)
           N == {i \in Nat : i <= Len(s) => Good(i)}
<1>4. 0 \in N
  <2>1. kept[0] = <<>>
    BY <1>0, <1>3 DEF KeepNext
  <2> DEFINE f == [j \in 1..0 |-> 0]
  <2>2. 1..0 = {} /\ Len(<<>>) = 0
    OBVIOUS
  <2>3. Picks(s, S, 0, <<>>, f)
    BY <2>2 DEF Picks, IsInjective
  <2>4. <<>> \in Seq(X)
    OBVIOUS
  <2> QED
    BY <2>1, <2>3, <2>4
<1>5. ASSUME NEW i \in Nat, i \in N PROVE i + 1 \in N
  <2> SUFFICES ASSUME i + 1 <= Len(s) PROVE Good(i + 1)
    OBVIOUS
  <2>1. Good(i)
    BY <1>0, <1>5
  <2>2. PICK f : Picks(s, S, i, kept[i], f)
    BY <2>1
  <2>3. i + 1 \in 0..Len(s) /\ i + 1 # 0 /\ (i + 1) - 1 = i
    BY <1>0
  <2>4. kept[i + 1] = IF s[i + 1] \in S THEN Append(kept[i], s[i + 1]) ELSE kept[i]
    BY <1>3, <2>3 DEF KeepNext
  <2>5. CASE s[i + 1] \in S
    BY <2>1, <2>2, <2>4, <2>5, PicksOneMore
  <2>6. CASE s[i + 1] \notin S
    <3>1. Picks(s, S, i + 1, kept[i], f)
      BY <2>2, <2>6 DEF Picks
    <3> QED
      BY <2>1, <2>4, <2>6, <3>1
  <2> QED
    BY <2>5, <2>6
<1> HIDE DEF N
<1>6. Len(s) \in N
  BY <1>0, <1>4, <1>5, NatSetInduction
<1> QED
  BY <1>0, <1>2, <1>6 DEF N

\* What is kept of a sequence of things that differ.
LEMMA KeepingSet ==
    ASSUME NEW X, NEW s \in Seq(X), NEW S
    PROVE  /\ Keeping(s, S) \in Seq(X)
           /\ Range(Keeping(s, S)) = Range(s) \cap S
           /\ IsInjective(s) => IsInjective(Keeping(s, S))
<1>1. PICK k \in Seq(X) : k = Keeping(s, S)
  BY KeepingPicks
<1>2. PICK f : Picks(s, S, Len(s), k, f)
  BY <1>1, KeepingPicks
<1>3. DOMAIN k = 1..Len(k) /\ DOMAIN s = 1..Len(s)
  OBVIOUS
<1>4. f \in [DOMAIN k -> DOMAIN s] /\ IsInjective(f)
  BY <1>2, <1>3 DEF Picks
<1>5. \A j \in DOMAIN k : k[j] = s[f[j]] /\ s[f[j]] \in S
  BY <1>2, <1>3 DEF Picks
<1>6. \A j \in DOMAIN s : s[j] \in S => \E h \in DOMAIN k : f[h] = j
  BY <1>2, <1>3 DEF Picks
<1> HIDE <1>2
<1>7. Range(k) = Range(s) \cap S
  BY <1>4, <1>5, <1>6 DEF Range
<1>8. IsInjective(s) => IsInjective(k)
  BY <1>4, <1>5 DEF IsInjective
<1> QED
  BY <1>1, <1>7, <1>8

-----------------------------------------------------------------------------
(* Folds: what holds of the first value and survives each step holds of the last one.  *)
(* Good[n] are the values that are good after n steps, Good[t] those that are after    *)
(* the elements of t.                                                                  *)
\* The greatest index.
LEMMA MaxIsIn ==
    ASSUME NEW n \in Nat, NEW t \in SUBSET (1..n), t # {}
    PROVE  Max(t) \in t /\ \A i \in t : i <= Max(t)
<1> DEFINE S == {n - i : i \in t}
<1>1. S \in SUBSET Nat /\ S # {}
  <2>1. \A i \in t : n - i \in Nat
    OBVIOUS
  <2> QED
    BY <2>1
<1>2. Min(S) \in S /\ \A y \in S : Min(S) <= y
  BY <1>1, MinOfNaturals
<1>3. PICK m \in t : Min(S) = n - m
  BY <1>2, Zenon
<1>4. \A i \in t : n - m <= n - i
  BY <1>2, <1>3
<1>5. \E x \in t : \A i \in t : x >= i
  <2>1. \A i \in t : i \in Int /\ m \in Int
    OBVIOUS
  <2>2. \A i \in t : m >= i
    BY <1>4, <2>1
  <2> QED
    BY <2>2
<1>6. Max(t) \in t /\ \A i \in t : Max(t) >= i
  BY <1>5, Zenon DEF Max
<1>7. \A x \in t : x \in Int
  OBVIOUS
<1> HIDE DEF Max, S
<1> QED
  BY <1>6, <1>7

\* The first i indices are the first i - 1 and i.
LEMMA MaxOfInterval ==
    ASSUME NEW i \in Nat, i # 0
    PROVE  Max(1..i) = i /\ (1..i) \ {i} = 1..(i - 1) /\ 1..i # {}
<1>1. i \in 1..i /\ (1..i) \ {i} = 1..(i - 1)
  OBVIOUS
<1>2. Max(1..i) \in 1..i /\ \A j \in 1..i : j <= Max(1..i)
  BY <1>1, MaxIsIn
<1>3. i <= Max(1..i) /\ Max(1..i) <= i /\ Max(1..i) \in Int
  BY <1>1, <1>2
<1> HIDE DEF Max
<1> QED
  BY <1>1, <1>3

\* A set of no elements is empty.
LEMMA AtMostNone ==
    ASSUME NEW D, IsFiniteSet(D), NEW t \in SUBSET D, Cardinality(t) <= 0
    PROVE  t = {}
<1>1. IsFiniteSet(t)
  BY FS_Subset
<1>2. Cardinality(t) \in Nat
  BY <1>1, FS_CardinalityType
<1>3. Cardinality(t) = 0
  BY <1>2
<1> QED
  BY <1>1, <1>3, FS_EmptySet

\* One element fewer.
LEMMA OneFewer ==
    ASSUME NEW D, IsFiniteSet(D), NEW t \in SUBSET D, NEW x \in t, NEW k \in Nat,
           Cardinality(t) <= k + 1
    PROVE  t \ {x} \in SUBSET D /\ Cardinality(t \ {x}) <= k
<1>1. IsFiniteSet(t)
  BY FS_Subset
<1>2. Cardinality(t) \in Nat /\ Cardinality(t \ {x}) = Cardinality(t) - 1
  BY <1>1, FS_CardinalityType, FS_RemoveElement
<1> QED
  BY <1>2

\* Fill: the groups of a list, until the pool wants no more.
LEMMA FillFold ==
    ASSUME NEW base, NEW s, NEW desired, NEW n \in Nat, DOMAIN s = 1..n, NEW Good,
           base \in Good[0],
           \A i \in 1..n : \A w \in Good[i - 1] :
               (IF w.more THEN AddGroup(w, s[i], desired) ELSE w) \in Good[i]
    PROVE  Fill(base, s, desired) \in Good[n]
<1> DEFINE D == DOMAIN s
           Step(w, i) == (IF w.more THEN AddGroup(w, s[i], desired) ELSE w)
           Value(f, t) == IF t = {} THEN base ELSE Step(f[t \ {Max(t)}], Max(t))
           Iter(f) == f = [t \in SUBSET D |-> Value(f, t)]
           iter == CHOOSE f : Iter(f)
<1>1. Fill(base, s, desired) = iter[D]
  BY Zenon DEF Fill, FoldLeft, MapThenFoldSet, Max
<1> HIDE DEF Step
<1>0. IsFiniteSet(D) /\ \A t \in SUBSET D : t # {} => Max(t) \in t
  <2>1. 1 \in Int /\ n \in Int /\ D = 1..n
    OBVIOUS
  <2>2. IsFiniteSet(1..n)
    BY <2>1, FS_Interval
  <2> QED
    BY <2>1, <2>2, MaxIsIn
<1> HIDE DEF D
<1>2. \E f : Iter(f)
  <2> DEFINE Upto(k, f) == /\ f = [t \in SUBSET D |-> f[t]]
                           /\ \A t \in SUBSET D : Cardinality(t) <= k => f[t] = Value(f, t)
             N == {k \in Nat : \E f : Upto(k, f)}
  <2>1. 0 \in N
    <3> DEFINE f == [t \in SUBSET D |-> base]
    <3>1. \A t \in SUBSET D : Cardinality(t) <= 0 => f[t] = Value(f, t)
      BY <1>0, AtMostNone
    <3>2. f = [t \in SUBSET D |-> f[t]]
      OBVIOUS
    <3> HIDE DEF f, Value
    <3> QED
      BY <3>1, <3>2
  <2> HIDE DEF Value
  <2>2. ASSUME NEW k \in Nat, k \in N PROVE k + 1 \in N
    <3>1. PICK f : Upto(k, f)
      BY <2>2
    <3> DEFINE g == [t \in SUBSET D |-> Value(f, t)]
    <3>2. g = [t \in SUBSET D |-> g[t]] /\ \A t \in SUBSET D : g[t] = Value(f, t)
      OBVIOUS
    <3> HIDE DEF g
    <3>3. ASSUME NEW t \in SUBSET D, Cardinality(t) <= k + 1 PROVE g[t] = Value(g, t)
      <4>1. CASE t = {}
        BY <3>2, <4>1 DEF Value
      <4>2. CASE t # {}
        <5> DEFINE u == t \ {Max(t)}
        <5>1. u \in SUBSET D /\ Cardinality(u) <= k
          BY <1>0, <3>3, <4>2, OneFewer
        <5>2. f[u] = Value(f, u) /\ g[u] = Value(f, u) /\ g[t] = Value(f, t)
          BY <3>1, <3>2, <5>1
        <5>3. f[u] = g[u]
          BY <5>2, Zenon
        <5> QED
          BY <4>2, <5>2, <5>3, Zenon DEF Value
      <4> QED
        BY <4>1, <4>2
    <3>4. Upto(k + 1, g)
      BY <3>2, <3>3, Zenon
    <3> HIDE DEF Upto
    <3> QED
      BY <3>4
  <2> HIDE DEF N
  <2>3. Cardinality(D) \in N
    BY <1>0, <2>1, <2>2, NatSetInduction, FS_CardinalityType
  <2>4. PICK f : Upto(Cardinality(D), f)
    BY <2>3 DEF N
  <2>5. \A t \in SUBSET D : f[t] = Value(f, t)
    BY <1>0, <2>4, FS_Subset
  <2>6. Iter(f)
    BY <2>4, <2>5, Zenon
  <2> QED
    BY <2>6, Zenon
<1>3. Iter(iter)
  BY <1>2, Zenon
<1> HIDE DEF iter, Value
<1>4. \A t \in SUBSET D : iter[t] = Value(iter, t)
  BY <1>3, Zenon
<1>5. iter[{}] = base /\ \A t \in SUBSET D : t # {} => iter[t] = Step(iter[t \ {Max(t)}], Max(t))
  BY <1>4, Zenon DEF Value
<1> DEFINE N == {i \in Nat : i <= n => iter[1..i] \in Good[i]}
<1>6. 0 \in N
  <2>1. 1..0 = {}
    OBVIOUS
  <2> QED
    BY <1>5, <2>1
<1>7. ASSUME NEW i \in Nat, i \in N PROVE i + 1 \in N
  <2> SUFFICES ASSUME i + 1 <= n PROVE iter[1..(i + 1)] \in Good[i + 1]
    OBVIOUS
  <2>1. i + 1 \in 1..n /\ (i + 1) - 1 = i /\ 1..(i + 1) \in SUBSET (1..n)
    OBVIOUS
  <2>2. Max(1..(i + 1)) = i + 1 /\ (1..(i + 1)) \ {i + 1} = 1..i /\ 1..(i + 1) # {}
    <3>1. i + 1 \in Nat /\ i + 1 # 0
      OBVIOUS
    <3> QED
      BY <2>1, <3>1, MaxOfInterval
  <2>3. iter[1..(i + 1)] = Step(iter[1..i], i + 1)
    BY <1>5, <2>1, <2>2 DEF D
  <2>4. iter[1..i] \in Good[i]
    BY <1>7
  <2>5. Step(iter[1..i], i + 1) \in Good[i + 1]
    BY <2>1, <2>4, Zenon DEF Step
  <2> QED
    BY <2>3, <2>5
<1> HIDE DEF N
<1>8. n \in N
  BY <1>6, <1>7, NatSetInduction
<1>9. iter[1..n] \in Good[n] /\ D = 1..n
  BY <1>8 DEF N, D
<1> QED
  BY <1>1, <1>9, Zenon

\* NormalPool: until there are enough players.
LEMMA NormalFold ==
    ASSUME NEW s, NEW n \in Nat, DOMAIN s = 1..n, NEW Good,
           EmptyPool \in Good[0],
           \A i \in 1..n : \A w \in Good[i - 1] :
               (IF w.count >= MinPlayers THEN w ELSE AddGroup(w, s[i], MaxPlayers)) \in Good[i]
    PROVE  NormalPool(s) \in Good[n]
<1> DEFINE D == DOMAIN s
           Step(w, i) == (IF w.count >= MinPlayers THEN w ELSE AddGroup(w, s[i], MaxPlayers))
           Value(f, t) == IF t = {} THEN EmptyPool ELSE Step(f[t \ {Max(t)}], Max(t))
           Iter(f) == f = [t \in SUBSET D |-> Value(f, t)]
           iter == CHOOSE f : Iter(f)
<1>1. NormalPool(s) = iter[D]
  BY Zenon DEF NormalPool, FoldLeft, MapThenFoldSet, Max
<1> HIDE DEF Step
<1>0. IsFiniteSet(D) /\ \A t \in SUBSET D : t # {} => Max(t) \in t
  <2>1. 1 \in Int /\ n \in Int /\ D = 1..n
    OBVIOUS
  <2>2. IsFiniteSet(1..n)
    BY <2>1, FS_Interval
  <2> QED
    BY <2>1, <2>2, MaxIsIn
<1> HIDE DEF D
<1>2. \E f : Iter(f)
  <2> DEFINE Upto(k, f) == /\ f = [t \in SUBSET D |-> f[t]]
                           /\ \A t \in SUBSET D : Cardinality(t) <= k => f[t] = Value(f, t)
             N == {k \in Nat : \E f : Upto(k, f)}
  <2>1. 0 \in N
    <3> DEFINE f == [t \in SUBSET D |-> EmptyPool]
    <3>1. \A t \in SUBSET D : Cardinality(t) <= 0 => f[t] = Value(f, t)
      BY <1>0, AtMostNone
    <3>2. f = [t \in SUBSET D |-> f[t]]
      OBVIOUS
    <3> HIDE DEF f, Value
    <3> QED
      BY <3>1, <3>2
  <2> HIDE DEF Value
  <2>2. ASSUME NEW k \in Nat, k \in N PROVE k + 1 \in N
    <3>1. PICK f : Upto(k, f)
      BY <2>2
    <3> DEFINE g == [t \in SUBSET D |-> Value(f, t)]
    <3>2. g = [t \in SUBSET D |-> g[t]] /\ \A t \in SUBSET D : g[t] = Value(f, t)
      OBVIOUS
    <3> HIDE DEF g
    <3>3. ASSUME NEW t \in SUBSET D, Cardinality(t) <= k + 1 PROVE g[t] = Value(g, t)
      <4>1. CASE t = {}
        BY <3>2, <4>1 DEF Value
      <4>2. CASE t # {}
        <5> DEFINE u == t \ {Max(t)}
        <5>1. u \in SUBSET D /\ Cardinality(u) <= k
          BY <1>0, <3>3, <4>2, OneFewer
        <5>2. f[u] = Value(f, u) /\ g[u] = Value(f, u) /\ g[t] = Value(f, t)
          BY <3>1, <3>2, <5>1
        <5>3. f[u] = g[u]
          BY <5>2, Zenon
        <5> QED
          BY <4>2, <5>2, <5>3, Zenon DEF Value
      <4> QED
        BY <4>1, <4>2
    <3>4. Upto(k + 1, g)
      BY <3>2, <3>3, Zenon
    <3> HIDE DEF Upto
    <3> QED
      BY <3>4
  <2> HIDE DEF N
  <2>3. Cardinality(D) \in N
    BY <1>0, <2>1, <2>2, NatSetInduction, FS_CardinalityType
  <2>4. PICK f : Upto(Cardinality(D), f)
    BY <2>3 DEF N
  <2>5. \A t \in SUBSET D : f[t] = Value(f, t)
    BY <1>0, <2>4, FS_Subset
  <2>6. Iter(f)
    BY <2>4, <2>5, Zenon
  <2> QED
    BY <2>6, Zenon
<1>3. Iter(iter)
  BY <1>2, Zenon
<1> HIDE DEF iter, Value
<1>4. \A t \in SUBSET D : iter[t] = Value(iter, t)
  BY <1>3, Zenon
<1>5. iter[{}] = EmptyPool /\ \A t \in SUBSET D : t # {} => iter[t] = Step(iter[t \ {Max(t)}], Max(t))
  BY <1>4, Zenon DEF Value
<1> DEFINE N == {i \in Nat : i <= n => iter[1..i] \in Good[i]}
<1>6. 0 \in N
  <2>1. 1..0 = {}
    OBVIOUS
  <2> QED
    BY <1>5, <2>1
<1>7. ASSUME NEW i \in Nat, i \in N PROVE i + 1 \in N
  <2> SUFFICES ASSUME i + 1 <= n PROVE iter[1..(i + 1)] \in Good[i + 1]
    OBVIOUS
  <2>1. i + 1 \in 1..n /\ (i + 1) - 1 = i /\ 1..(i + 1) \in SUBSET (1..n)
    OBVIOUS
  <2>2. Max(1..(i + 1)) = i + 1 /\ (1..(i + 1)) \ {i + 1} = 1..i /\ 1..(i + 1) # {}
    <3>1. i + 1 \in Nat /\ i + 1 # 0
      OBVIOUS
    <3> QED
      BY <2>1, <3>1, MaxOfInterval
  <2>3. iter[1..(i + 1)] = Step(iter[1..i], i + 1)
    BY <1>5, <2>1, <2>2 DEF D
  <2>4. iter[1..i] \in Good[i]
    BY <1>7
  <2>5. Step(iter[1..i], i + 1) \in Good[i + 1]
    BY <2>1, <2>4, Zenon DEF Step
  <2> QED
    BY <2>3, <2>5
<1> HIDE DEF N
<1>8. n \in N
  BY <1>6, <1>7, NatSetInduction
<1>9. iter[1..n] \in Good[n] /\ D = 1..n
  BY <1>8 DEF N, D
<1> QED
  BY <1>1, <1>9, Zenon

\* FillRunning: the battlegrounds with free slots.
LEMMA RunningFold ==
    ASSUME NEW w0, NEW q, NEW n \in Nat, DOMAIN w0.freeSlots[q] = 1..n, NEW Good,
           w0 \in Good[0],
           \A i \in 1..n : \A w \in Good[i - 1] :
               FillBattleground(w, q, w0.freeSlots[q][i]) \in Good[i]
    PROVE  FillRunning(w0, q) \in Good[n]
<1> DEFINE D == DOMAIN w0.freeSlots[q]
           Step(w, i) == FillBattleground(w, q, w0.freeSlots[q][i])
           Value(f, t) == IF t = {} THEN w0 ELSE Step(f[t \ {Max(t)}], Max(t))
           Iter(f) == f = [t \in SUBSET D |-> Value(f, t)]
           iter == CHOOSE f : Iter(f)
<1>1. FillRunning(w0, q) = iter[D]
  BY Zenon DEF FillRunning, FoldLeft, MapThenFoldSet, Max
<1> HIDE DEF Step
<1>0. IsFiniteSet(D) /\ \A t \in SUBSET D : t # {} => Max(t) \in t
  <2>1. 1 \in Int /\ n \in Int /\ D = 1..n
    OBVIOUS
  <2>2. IsFiniteSet(1..n)
    BY <2>1, FS_Interval
  <2> QED
    BY <2>1, <2>2, MaxIsIn
<1> HIDE DEF D
<1>2. \E f : Iter(f)
  <2> DEFINE Upto(k, f) == /\ f = [t \in SUBSET D |-> f[t]]
                           /\ \A t \in SUBSET D : Cardinality(t) <= k => f[t] = Value(f, t)
             N == {k \in Nat : \E f : Upto(k, f)}
  <2>1. 0 \in N
    <3> DEFINE f == [t \in SUBSET D |-> w0]
    <3>1. \A t \in SUBSET D : Cardinality(t) <= 0 => f[t] = Value(f, t)
      BY <1>0, AtMostNone
    <3>2. f = [t \in SUBSET D |-> f[t]]
      OBVIOUS
    <3> HIDE DEF f, Value
    <3> QED
      BY <3>1, <3>2
  <2> HIDE DEF Value
  <2>2. ASSUME NEW k \in Nat, k \in N PROVE k + 1 \in N
    <3>1. PICK f : Upto(k, f)
      BY <2>2
    <3> DEFINE g == [t \in SUBSET D |-> Value(f, t)]
    <3>2. g = [t \in SUBSET D |-> g[t]] /\ \A t \in SUBSET D : g[t] = Value(f, t)
      OBVIOUS
    <3> HIDE DEF g
    <3>3. ASSUME NEW t \in SUBSET D, Cardinality(t) <= k + 1 PROVE g[t] = Value(g, t)
      <4>1. CASE t = {}
        BY <3>2, <4>1 DEF Value
      <4>2. CASE t # {}
        <5> DEFINE u == t \ {Max(t)}
        <5>1. u \in SUBSET D /\ Cardinality(u) <= k
          BY <1>0, <3>3, <4>2, OneFewer
        <5>2. f[u] = Value(f, u) /\ g[u] = Value(f, u) /\ g[t] = Value(f, t)
          BY <3>1, <3>2, <5>1
        <5>3. f[u] = g[u]
          BY <5>2, Zenon
        <5> QED
          BY <4>2, <5>2, <5>3, Zenon DEF Value
      <4> QED
        BY <4>1, <4>2
    <3>4. Upto(k + 1, g)
      BY <3>2, <3>3, Zenon
    <3> HIDE DEF Upto
    <3> QED
      BY <3>4
  <2> HIDE DEF N
  <2>3. Cardinality(D) \in N
    BY <1>0, <2>1, <2>2, NatSetInduction, FS_CardinalityType
  <2>4. PICK f : Upto(Cardinality(D), f)
    BY <2>3 DEF N
  <2>5. \A t \in SUBSET D : f[t] = Value(f, t)
    BY <1>0, <2>4, FS_Subset
  <2>6. Iter(f)
    BY <2>4, <2>5, Zenon
  <2> QED
    BY <2>6, Zenon
<1>3. Iter(iter)
  BY <1>2, Zenon
<1> HIDE DEF iter, Value
<1>4. \A t \in SUBSET D : iter[t] = Value(iter, t)
  BY <1>3, Zenon
<1>5. iter[{}] = w0 /\ \A t \in SUBSET D : t # {} => iter[t] = Step(iter[t \ {Max(t)}], Max(t))
  BY <1>4, Zenon DEF Value
<1> DEFINE N == {i \in Nat : i <= n => iter[1..i] \in Good[i]}
<1>6. 0 \in N
  <2>1. 1..0 = {}
    OBVIOUS
  <2> QED
    BY <1>5, <2>1
<1>7. ASSUME NEW i \in Nat, i \in N PROVE i + 1 \in N
  <2> SUFFICES ASSUME i + 1 <= n PROVE iter[1..(i + 1)] \in Good[i + 1]
    OBVIOUS
  <2>1. i + 1 \in 1..n /\ (i + 1) - 1 = i /\ 1..(i + 1) \in SUBSET (1..n)
    OBVIOUS
  <2>2. Max(1..(i + 1)) = i + 1 /\ (1..(i + 1)) \ {i + 1} = 1..i /\ 1..(i + 1) # {}
    <3>1. i + 1 \in Nat /\ i + 1 # 0
      OBVIOUS
    <3> QED
      BY <2>1, <3>1, MaxOfInterval
  <2>3. iter[1..(i + 1)] = Step(iter[1..i], i + 1)
    BY <1>5, <2>1, <2>2 DEF D
  <2>4. iter[1..i] \in Good[i]
    BY <1>7
  <2>5. Step(iter[1..i], i + 1) \in Good[i + 1]
    BY <2>1, <2>4, Zenon DEF Step
  <2> QED
    BY <2>3, <2>5
<1> HIDE DEF N
<1>8. n \in N
  BY <1>6, <1>7, NatSetInduction
<1>9. iter[1..n] \in Good[n] /\ D = 1..n
  BY <1>8 DEF N, D
<1> QED
  BY <1>1, <1>9, Zenon

\* UpdateScheduled: the scheduled queues.
LEMMA UpdateFold ==
    ASSUME NEW w0, NEW late, NEW n \in Nat, DOMAIN w0.scheduled = 1..n, NEW Good,
           w0 \in Good[0],
           \A i \in 1..n : \A w \in Good[i - 1] :
               UpdateQueue(w, w0.scheduled[i], late) \in Good[i]
    PROVE  UpdateScheduled(w0, late) \in Good[n]
<1> DEFINE D == DOMAIN w0.scheduled
           Step(w, i) == UpdateQueue(w, w0.scheduled[i], late)
           Value(f, t) == IF t = {} THEN w0 ELSE Step(f[t \ {Max(t)}], Max(t))
           Iter(f) == f = [t \in SUBSET D |-> Value(f, t)]
           iter == CHOOSE f : Iter(f)
<1>1. UpdateScheduled(w0, late) = iter[D]
  BY Zenon DEF UpdateScheduled, FoldLeft, MapThenFoldSet, Max
<1> HIDE DEF Step
<1>0. IsFiniteSet(D) /\ \A t \in SUBSET D : t # {} => Max(t) \in t
  <2>1. 1 \in Int /\ n \in Int /\ D = 1..n
    OBVIOUS
  <2>2. IsFiniteSet(1..n)
    BY <2>1, FS_Interval
  <2> QED
    BY <2>1, <2>2, MaxIsIn
<1> HIDE DEF D
<1>2. \E f : Iter(f)
  <2> DEFINE Upto(k, f) == /\ f = [t \in SUBSET D |-> f[t]]
                           /\ \A t \in SUBSET D : Cardinality(t) <= k => f[t] = Value(f, t)
             N == {k \in Nat : \E f : Upto(k, f)}
  <2>1. 0 \in N
    <3> DEFINE f == [t \in SUBSET D |-> w0]
    <3>1. \A t \in SUBSET D : Cardinality(t) <= 0 => f[t] = Value(f, t)
      BY <1>0, AtMostNone
    <3>2. f = [t \in SUBSET D |-> f[t]]
      OBVIOUS
    <3> HIDE DEF f, Value
    <3> QED
      BY <3>1, <3>2
  <2> HIDE DEF Value
  <2>2. ASSUME NEW k \in Nat, k \in N PROVE k + 1 \in N
    <3>1. PICK f : Upto(k, f)
      BY <2>2
    <3> DEFINE g == [t \in SUBSET D |-> Value(f, t)]
    <3>2. g = [t \in SUBSET D |-> g[t]] /\ \A t \in SUBSET D : g[t] = Value(f, t)
      OBVIOUS
    <3> HIDE DEF g
    <3>3. ASSUME NEW t \in SUBSET D, Cardinality(t) <= k + 1 PROVE g[t] = Value(g, t)
      <4>1. CASE t = {}
        BY <3>2, <4>1 DEF Value
      <4>2. CASE t # {}
        <5> DEFINE u == t \ {Max(t)}
        <5>1. u \in SUBSET D /\ Cardinality(u) <= k
          BY <1>0, <3>3, <4>2, OneFewer
        <5>2. f[u] = Value(f, u) /\ g[u] = Value(f, u) /\ g[t] = Value(f, t)
          BY <3>1, <3>2, <5>1
        <5>3. f[u] = g[u]
          BY <5>2, Zenon
        <5> QED
          BY <4>2, <5>2, <5>3, Zenon DEF Value
      <4> QED
        BY <4>1, <4>2
    <3>4. Upto(k + 1, g)
      BY <3>2, <3>3, Zenon
    <3> HIDE DEF Upto
    <3> QED
      BY <3>4
  <2> HIDE DEF N
  <2>3. Cardinality(D) \in N
    BY <1>0, <2>1, <2>2, NatSetInduction, FS_CardinalityType
  <2>4. PICK f : Upto(Cardinality(D), f)
    BY <2>3 DEF N
  <2>5. \A t \in SUBSET D : f[t] = Value(f, t)
    BY <1>0, <2>4, FS_Subset
  <2>6. Iter(f)
    BY <2>4, <2>5, Zenon
  <2> QED
    BY <2>6, Zenon
<1>3. Iter(iter)
  BY <1>2, Zenon
<1> HIDE DEF iter, Value
<1>4. \A t \in SUBSET D : iter[t] = Value(iter, t)
  BY <1>3, Zenon
<1>5. iter[{}] = w0 /\ \A t \in SUBSET D : t # {} => iter[t] = Step(iter[t \ {Max(t)}], Max(t))
  BY <1>4, Zenon DEF Value
<1> DEFINE N == {i \in Nat : i <= n => iter[1..i] \in Good[i]}
<1>6. 0 \in N
  <2>1. 1..0 = {}
    OBVIOUS
  <2> QED
    BY <1>5, <2>1
<1>7. ASSUME NEW i \in Nat, i \in N PROVE i + 1 \in N
  <2> SUFFICES ASSUME i + 1 <= n PROVE iter[1..(i + 1)] \in Good[i + 1]
    OBVIOUS
  <2>1. i + 1 \in 1..n /\ (i + 1) - 1 = i /\ 1..(i + 1) \in SUBSET (1..n)
    OBVIOUS
  <2>2. Max(1..(i + 1)) = i + 1 /\ (1..(i + 1)) \ {i + 1} = 1..i /\ 1..(i + 1) # {}
    <3>1. i + 1 \in Nat /\ i + 1 # 0
      OBVIOUS
    <3> QED
      BY <2>1, <3>1, MaxOfInterval
  <2>3. iter[1..(i + 1)] = Step(iter[1..i], i + 1)
    BY <1>5, <2>1, <2>2 DEF D
  <2>4. iter[1..i] \in Good[i]
    BY <1>7
  <2>5. Step(iter[1..i], i + 1) \in Good[i + 1]
    BY <2>1, <2>4, Zenon DEF Step
  <2> QED
    BY <2>3, <2>5
<1> HIDE DEF N
<1>8. n \in N
  BY <1>6, <1>7, NatSetInduction
<1>9. iter[1..n] \in Good[n] /\ D = 1..n
  BY <1>8 DEF N, D
<1> QED
  BY <1>1, <1>9, Zenon

\* AllLeave: the players of a battleground.
LEMMA KickFold ==
    ASSUME NEW b, IsFiniteSet(bgs[b].players), NEW Good,
           Now \in Good[{}],
           \A t \in SUBSET bgs[b].players : \A x \in t : \A w \in Good[t \ {x}] :
               RemovePlayerAtLeave(w, x, b) \in Good[t]
    PROVE  AllLeave(b) \in Good[bgs[b].players]
<1> DEFINE D == bgs[b].players
           Pick(t) == CHOOSE x \in t : TRUE
           Step(w, x) == RemovePlayerAtLeave(w, x, b)
           Value(f, t) == IF t = {} THEN Now ELSE Step(f[t \ {Pick(t)}], Pick(t))
           Iter(f) == f = [t \in SUBSET D |-> Value(f, t)]
           iter == CHOOSE f : Iter(f)
<1>1. AllLeave(b) = iter[D]
  BY Zenon DEF AllLeave, FoldSet, MapThenFoldSet
<1> HIDE DEF Step
<1>0. IsFiniteSet(D) /\ \A t \in SUBSET D : t # {} => Pick(t) \in t
  OBVIOUS
<1> HIDE DEF Pick, D
<1>2. \E f : Iter(f)
  <2> DEFINE Upto(k, f) == /\ f = [t \in SUBSET D |-> f[t]]
                           /\ \A t \in SUBSET D : Cardinality(t) <= k => f[t] = Value(f, t)
             N == {k \in Nat : \E f : Upto(k, f)}
  <2>1. 0 \in N
    <3> DEFINE f == [t \in SUBSET D |-> Now]
    <3>1. \A t \in SUBSET D : Cardinality(t) <= 0 => f[t] = Value(f, t)
      BY <1>0, AtMostNone
    <3>2. f = [t \in SUBSET D |-> f[t]]
      OBVIOUS
    <3> HIDE DEF f, Value
    <3> QED
      BY <3>1, <3>2
  <2> HIDE DEF Value
  <2>2. ASSUME NEW k \in Nat, k \in N PROVE k + 1 \in N
    <3>1. PICK f : Upto(k, f)
      BY <2>2
    <3> DEFINE g == [t \in SUBSET D |-> Value(f, t)]
    <3>2. g = [t \in SUBSET D |-> g[t]] /\ \A t \in SUBSET D : g[t] = Value(f, t)
      OBVIOUS
    <3> HIDE DEF g
    <3>3. ASSUME NEW t \in SUBSET D, Cardinality(t) <= k + 1 PROVE g[t] = Value(g, t)
      <4>1. CASE t = {}
        BY <3>2, <4>1 DEF Value
      <4>2. CASE t # {}
        <5> DEFINE u == t \ {Pick(t)}
        <5>1. u \in SUBSET D /\ Cardinality(u) <= k
          BY <1>0, <3>3, <4>2, OneFewer
        <5>2. f[u] = Value(f, u) /\ g[u] = Value(f, u) /\ g[t] = Value(f, t)
          BY <3>1, <3>2, <5>1
        <5>3. f[u] = g[u]
          BY <5>2, Zenon
        <5> QED
          BY <4>2, <5>2, <5>3, Zenon DEF Value
      <4> QED
        BY <4>1, <4>2
    <3>4. Upto(k + 1, g)
      BY <3>2, <3>3, Zenon
    <3> HIDE DEF Upto
    <3> QED
      BY <3>4
  <2> HIDE DEF N
  <2>3. Cardinality(D) \in N
    BY <1>0, <2>1, <2>2, NatSetInduction, FS_CardinalityType
  <2>4. PICK f : Upto(Cardinality(D), f)
    BY <2>3 DEF N
  <2>5. \A t \in SUBSET D : f[t] = Value(f, t)
    BY <1>0, <2>4, FS_Subset
  <2>6. Iter(f)
    BY <2>4, <2>5, Zenon
  <2> QED
    BY <2>6, Zenon
<1>3. Iter(iter)
  BY <1>2, Zenon
<1> HIDE DEF iter, Value
<1>4. \A t \in SUBSET D : iter[t] = Value(iter, t)
  BY <1>3, Zenon
<1>5. iter[{}] = Now /\ \A t \in SUBSET D : t # {} => iter[t] = Step(iter[t \ {Pick(t)}], Pick(t))
  BY <1>4, Zenon DEF Value
<1> DEFINE N == {k \in Nat : \A t \in SUBSET D : Cardinality(t) <= k => iter[t] \in Good[t]}
<1>6. 0 \in N
  <2>1. \A t \in SUBSET D : Cardinality(t) <= 0 => t = {}
    BY <1>0, AtMostNone
  <2> QED
    BY <1>5, <2>1
<1>7. ASSUME NEW k \in Nat, k \in N PROVE k + 1 \in N
  <2> SUFFICES ASSUME NEW t \in SUBSET D, Cardinality(t) <= k + 1 PROVE iter[t] \in Good[t]
    OBVIOUS
  <2>1. CASE t = {}
    BY <1>5, <2>1
  <2>2. CASE t # {}
    <3>1. Pick(t) \in t
      BY <1>0, <2>2
    <3>2. t \ {Pick(t)} \in SUBSET D /\ Cardinality(t \ {Pick(t)}) <= k
      BY <1>0, <3>1, OneFewer
    <3>3. iter[t \ {Pick(t)}] \in Good[t \ {Pick(t)}]
      BY <1>7, <3>2
    <3>4. Step(iter[t \ {Pick(t)}], Pick(t)) \in Good[t]
      BY <3>1, <3>3, Zenon DEF Step, D
    <3> QED
      BY <1>5, <2>2, <3>4
  <2> QED
    BY <2>1, <2>2
<1> HIDE DEF N
<1>8. Cardinality(D) \in N /\ Cardinality(D) \in Nat
  BY <1>0, <1>6, <1>7, NatSetInduction, FS_CardinalityType
<1>9. iter[D] \in Good[D]
  BY <1>8 DEF N
<1> QED
  BY <1>1, <1>9, Zenon DEF D

\* UpdateEvents: the events whose time is over.
LEMMA EventFold ==
    ASSUME NEW base, NEW over, IsFiniteSet(over), NEW Good,
           base \in Good[{}],
           \A t \in SUBSET over : \A x \in t : \A w \in Good[t \ {x}] :
               ExecuteRemove(x, w) \in Good[t]
    PROVE  FoldSet(ExecuteRemove, base, over) \in Good[over]
<1> DEFINE D == over
           Pick(t) == CHOOSE x \in t : TRUE
           Step(w, x) == ExecuteRemove(x, w)
           Value(f, t) == IF t = {} THEN base ELSE Step(f[t \ {Pick(t)}], Pick(t))
           Iter(f) == f = [t \in SUBSET D |-> Value(f, t)]
           iter == CHOOSE f : Iter(f)
<1>1. FoldSet(ExecuteRemove, base, over) = iter[D]
  BY Zenon DEF FoldSet, MapThenFoldSet
<1> HIDE DEF Step
<1>0. IsFiniteSet(D) /\ \A t \in SUBSET D : t # {} => Pick(t) \in t
  OBVIOUS
<1> HIDE DEF Pick, D
<1>2. \E f : Iter(f)
  <2> DEFINE Upto(k, f) == /\ f = [t \in SUBSET D |-> f[t]]
                           /\ \A t \in SUBSET D : Cardinality(t) <= k => f[t] = Value(f, t)
             N == {k \in Nat : \E f : Upto(k, f)}
  <2>1. 0 \in N
    <3> DEFINE f == [t \in SUBSET D |-> base]
    <3>1. \A t \in SUBSET D : Cardinality(t) <= 0 => f[t] = Value(f, t)
      BY <1>0, AtMostNone
    <3>2. f = [t \in SUBSET D |-> f[t]]
      OBVIOUS
    <3> HIDE DEF f, Value
    <3> QED
      BY <3>1, <3>2
  <2> HIDE DEF Value
  <2>2. ASSUME NEW k \in Nat, k \in N PROVE k + 1 \in N
    <3>1. PICK f : Upto(k, f)
      BY <2>2
    <3> DEFINE g == [t \in SUBSET D |-> Value(f, t)]
    <3>2. g = [t \in SUBSET D |-> g[t]] /\ \A t \in SUBSET D : g[t] = Value(f, t)
      OBVIOUS
    <3> HIDE DEF g
    <3>3. ASSUME NEW t \in SUBSET D, Cardinality(t) <= k + 1 PROVE g[t] = Value(g, t)
      <4>1. CASE t = {}
        BY <3>2, <4>1 DEF Value
      <4>2. CASE t # {}
        <5> DEFINE u == t \ {Pick(t)}
        <5>1. u \in SUBSET D /\ Cardinality(u) <= k
          BY <1>0, <3>3, <4>2, OneFewer
        <5>2. f[u] = Value(f, u) /\ g[u] = Value(f, u) /\ g[t] = Value(f, t)
          BY <3>1, <3>2, <5>1
        <5>3. f[u] = g[u]
          BY <5>2, Zenon
        <5> QED
          BY <4>2, <5>2, <5>3, Zenon DEF Value
      <4> QED
        BY <4>1, <4>2
    <3>4. Upto(k + 1, g)
      BY <3>2, <3>3, Zenon
    <3> HIDE DEF Upto
    <3> QED
      BY <3>4
  <2> HIDE DEF N
  <2>3. Cardinality(D) \in N
    BY <1>0, <2>1, <2>2, NatSetInduction, FS_CardinalityType
  <2>4. PICK f : Upto(Cardinality(D), f)
    BY <2>3 DEF N
  <2>5. \A t \in SUBSET D : f[t] = Value(f, t)
    BY <1>0, <2>4, FS_Subset
  <2>6. Iter(f)
    BY <2>4, <2>5, Zenon
  <2> QED
    BY <2>6, Zenon
<1>3. Iter(iter)
  BY <1>2, Zenon
<1> HIDE DEF iter, Value
<1>4. \A t \in SUBSET D : iter[t] = Value(iter, t)
  BY <1>3, Zenon
<1>5. iter[{}] = base /\ \A t \in SUBSET D : t # {} => iter[t] = Step(iter[t \ {Pick(t)}], Pick(t))
  BY <1>4, Zenon DEF Value
<1> DEFINE N == {k \in Nat : \A t \in SUBSET D : Cardinality(t) <= k => iter[t] \in Good[t]}
<1>6. 0 \in N
  <2>1. \A t \in SUBSET D : Cardinality(t) <= 0 => t = {}
    BY <1>0, AtMostNone
  <2> QED
    BY <1>5, <2>1
<1>7. ASSUME NEW k \in Nat, k \in N PROVE k + 1 \in N
  <2> SUFFICES ASSUME NEW t \in SUBSET D, Cardinality(t) <= k + 1 PROVE iter[t] \in Good[t]
    OBVIOUS
  <2>1. CASE t = {}
    BY <1>5, <2>1
  <2>2. CASE t # {}
    <3>1. Pick(t) \in t
      BY <1>0, <2>2
    <3>2. t \ {Pick(t)} \in SUBSET D /\ Cardinality(t \ {Pick(t)}) <= k
      BY <1>0, <3>1, OneFewer
    <3>3. iter[t \ {Pick(t)}] \in Good[t \ {Pick(t)}]
      BY <1>7, <3>2
    <3>4. Step(iter[t \ {Pick(t)}], Pick(t)) \in Good[t]
      BY <3>1, <3>3, Zenon DEF Step, D
    <3> QED
      BY <1>5, <2>2, <3>4
  <2> QED
    BY <2>1, <2>2
<1> HIDE DEF N
<1>8. Cardinality(D) \in N /\ Cardinality(D) \in Nat
  BY <1>0, <1>6, <1>7, NatSetInduction, FS_CardinalityType
<1>9. iter[D] \in Good[D]
  BY <1>8 DEF N
<1> QED
  BY <1>1, <1>9, Zenon DEF D

\* UninvitedByAll: the queues.
LEMMA QueuesFold ==
    ASSUME NEW base, NEW p, IsFiniteSet(Queues), NEW Good,
           base \in Good[{}],
           \A t \in SUBSET Queues : \A x \in t : \A w \in Good[t \ {x}] :
               Uninvited(w, groups[x], p) \in Good[t]
    PROVE  UninvitedByAll(base, p) \in Good[Queues]
<1> DEFINE D == Queues
           Pick(t) == CHOOSE x \in t : TRUE
           Step(w, x) == Uninvited(w, groups[x], p)
           Value(f, t) == IF t = {} THEN base ELSE Step(f[t \ {Pick(t)}], Pick(t))
           Iter(f) == f = [t \in SUBSET D |-> Value(f, t)]
           iter == CHOOSE f : Iter(f)
<1>1. UninvitedByAll(base, p) = iter[D]
  BY Zenon DEF UninvitedByAll, FoldSet, MapThenFoldSet
<1> HIDE DEF Step
<1>0. IsFiniteSet(D) /\ \A t \in SUBSET D : t # {} => Pick(t) \in t
  OBVIOUS
<1> HIDE DEF Pick, D
<1>2. \E f : Iter(f)
  <2> DEFINE Upto(k, f) == /\ f = [t \in SUBSET D |-> f[t]]
                           /\ \A t \in SUBSET D : Cardinality(t) <= k => f[t] = Value(f, t)
             N == {k \in Nat : \E f : Upto(k, f)}
  <2>1. 0 \in N
    <3> DEFINE f == [t \in SUBSET D |-> base]
    <3>1. \A t \in SUBSET D : Cardinality(t) <= 0 => f[t] = Value(f, t)
      BY <1>0, AtMostNone
    <3>2. f = [t \in SUBSET D |-> f[t]]
      OBVIOUS
    <3> HIDE DEF f, Value
    <3> QED
      BY <3>1, <3>2
  <2> HIDE DEF Value
  <2>2. ASSUME NEW k \in Nat, k \in N PROVE k + 1 \in N
    <3>1. PICK f : Upto(k, f)
      BY <2>2
    <3> DEFINE g == [t \in SUBSET D |-> Value(f, t)]
    <3>2. g = [t \in SUBSET D |-> g[t]] /\ \A t \in SUBSET D : g[t] = Value(f, t)
      OBVIOUS
    <3> HIDE DEF g
    <3>3. ASSUME NEW t \in SUBSET D, Cardinality(t) <= k + 1 PROVE g[t] = Value(g, t)
      <4>1. CASE t = {}
        BY <3>2, <4>1 DEF Value
      <4>2. CASE t # {}
        <5> DEFINE u == t \ {Pick(t)}
        <5>1. u \in SUBSET D /\ Cardinality(u) <= k
          BY <1>0, <3>3, <4>2, OneFewer
        <5>2. f[u] = Value(f, u) /\ g[u] = Value(f, u) /\ g[t] = Value(f, t)
          BY <3>1, <3>2, <5>1
        <5>3. f[u] = g[u]
          BY <5>2, Zenon
        <5> QED
          BY <4>2, <5>2, <5>3, Zenon DEF Value
      <4> QED
        BY <4>1, <4>2
    <3>4. Upto(k + 1, g)
      BY <3>2, <3>3, Zenon
    <3> HIDE DEF Upto
    <3> QED
      BY <3>4
  <2> HIDE DEF N
  <2>3. Cardinality(D) \in N
    BY <1>0, <2>1, <2>2, NatSetInduction, FS_CardinalityType
  <2>4. PICK f : Upto(Cardinality(D), f)
    BY <2>3 DEF N
  <2>5. \A t \in SUBSET D : f[t] = Value(f, t)
    BY <1>0, <2>4, FS_Subset
  <2>6. Iter(f)
    BY <2>4, <2>5, Zenon
  <2> QED
    BY <2>6, Zenon
<1>3. Iter(iter)
  BY <1>2, Zenon
<1> HIDE DEF iter, Value
<1>4. \A t \in SUBSET D : iter[t] = Value(iter, t)
  BY <1>3, Zenon
<1>5. iter[{}] = base /\ \A t \in SUBSET D : t # {} => iter[t] = Step(iter[t \ {Pick(t)}], Pick(t))
  BY <1>4, Zenon DEF Value
<1> DEFINE N == {k \in Nat : \A t \in SUBSET D : Cardinality(t) <= k => iter[t] \in Good[t]}
<1>6. 0 \in N
  <2>1. \A t \in SUBSET D : Cardinality(t) <= 0 => t = {}
    BY <1>0, AtMostNone
  <2> QED
    BY <1>5, <2>1
<1>7. ASSUME NEW k \in Nat, k \in N PROVE k + 1 \in N
  <2> SUFFICES ASSUME NEW t \in SUBSET D, Cardinality(t) <= k + 1 PROVE iter[t] \in Good[t]
    OBVIOUS
  <2>1. CASE t = {}
    BY <1>5, <2>1
  <2>2. CASE t # {}
    <3>1. Pick(t) \in t
      BY <1>0, <2>2
    <3>2. t \ {Pick(t)} \in SUBSET D /\ Cardinality(t \ {Pick(t)}) <= k
      BY <1>0, <3>1, OneFewer
    <3>3. iter[t \ {Pick(t)}] \in Good[t \ {Pick(t)}]
      BY <1>7, <3>2
    <3>4. Step(iter[t \ {Pick(t)}], Pick(t)) \in Good[t]
      BY <3>1, <3>3, Zenon DEF Step, D
    <3> QED
      BY <1>5, <2>2, <3>4
  <2> QED
    BY <2>1, <2>2
<1> HIDE DEF N
<1>8. Cardinality(D) \in N /\ Cardinality(D) \in Nat
  BY <1>0, <1>6, <1>7, NatSetInduction, FS_CardinalityType
<1>9. iter[D] \in Good[D]
  BY <1>8 DEF N
<1> QED
  BY <1>1, <1>9, Zenon DEF D

-----------------------------------------------------------------------------
(* The groups of one queue.                                                  *)
GroupRec == [players : (SUBSET Players) \ {{}}, invited : Ids \cup {0}, left : 0..AcceptTime]

\* Who is in a list has its faction, and nobody is in two groups.
ListsInv(lists) ==
    /\ lists \in [Lists -> Seq(GroupRec)]
    /\ \A l \in Lists : \A i \in DOMAIN lists[l] : \A p \in lists[l][i].players : Team[p] = l[2]
    /\ \A l, m \in Lists : \A i \in DOMAIN lists[l], j \in DOMAIN lists[m] :
           \A p \in lists[l][i].players : p \in lists[m][j].players => l = m /\ i = j

\* A group of p is at some place of a list.
LEMMA GroupIsAt ==
    ASSUME NEW lists, NEW p
    PROVE  \A g : g \in GroupOf(lists, p) <=>
               \E l \in Lists : \E i \in DOMAIN lists[l] : g = lists[l][i] /\ p \in g.players
BY DEF GroupOf, GroupsOf, Range

\* The groups have their type, and p is in one of them at most.
LEMMA OneGroup ==
    ASSUME NEW lists, ListsInv(lists), NEW p
    PROVE  /\ \A g \in GroupOf(lists, p) : g \in GroupRec /\ p \in g.players /\ p \in Players
           /\ \A g, h \in GroupOf(lists, p) : g = h
<1>1. ASSUME NEW g \in GroupOf(lists, p) PROVE g \in GroupRec /\ p \in g.players /\ p \in Players
  <2>1. PICK l, i : l \in Lists /\ i \in DOMAIN lists[l] /\ g = lists[l][i] /\ p \in g.players
    BY GroupIsAt
  <2>2. lists[l] \in Seq(GroupRec)
    BY <2>1 DEF ListsInv
  <2>3. g \in GroupRec
    BY <2>1, <2>2
  <2> QED
    BY <2>1, <2>3 DEF GroupRec
<1>2. ASSUME NEW g \in GroupOf(lists, p), NEW h \in GroupOf(lists, p) PROVE g = h
  <2>1. PICK l, i : l \in Lists /\ i \in DOMAIN lists[l] /\ g = lists[l][i] /\ p \in g.players
    BY GroupIsAt
  <2>2. PICK m, j : m \in Lists /\ j \in DOMAIN lists[m] /\ h = lists[m][j] /\ p \in h.players
    BY GroupIsAt
  <2>3. l = m /\ i = j
    BY <2>1, <2>2 DEF ListsInv
  <2> QED
    BY <2>1, <2>2, <2>3
<1> QED
  BY <1>1, <1>2

\* Lists whose groups are, place by place, what is left of the groups of other lists.
LEMMA ListsKept ==
    ASSUME NEW lists, ListsInv(lists), NEW kept \in [Lists -> Seq(GroupRec)], NEW at,
           \A l \in Lists : /\ at[l] \in [DOMAIN kept[l] -> DOMAIN lists[l]]
                            /\ IsInjective(at[l])
                            /\ \A i \in DOMAIN kept[l] :
                                   kept[l][i].players \subseteq lists[l][at[l][i]].players
    PROVE  ListsInv(kept)
<1>1. ASSUME NEW l \in Lists, NEW i \in DOMAIN kept[l], NEW p \in kept[l][i].players
      PROVE  /\ at[l][i] \in DOMAIN lists[l] /\ p \in lists[l][at[l][i]].players
             /\ Team[p] = l[2]
  BY DEF ListsInv
<1>2. ASSUME NEW l \in Lists, NEW m \in Lists, NEW i \in DOMAIN kept[l], NEW j \in DOMAIN kept[m],
             NEW p \in kept[l][i].players, p \in kept[m][j].players
      PROVE  l = m /\ i = j
  <2>1. /\ at[l][i] \in DOMAIN lists[l] /\ p \in lists[l][at[l][i]].players
        /\ at[m][j] \in DOMAIN lists[m] /\ p \in lists[m][at[m][j]].players
    BY <1>2
  <2>2. l = m /\ at[l][i] = at[m][j]
    BY <2>1 DEF ListsInv
  <2> QED
    BY <2>2 DEF IsInjective
<1> QED
  BY <1>1, <1>2 DEF ListsInv

\* A function of 1..n is a sequence.
LEMMA FunctionIsSeq ==
    ASSUME NEW S, NEW n \in Nat, NEW f \in [1..n -> S]
    PROVE  f \in Seq(S) /\ Len(f) = n /\ DOMAIN f = 1..n
<1>1. f \in Seq(S)
  BY SeqDef
<1>2. DOMAIN f = 1..Len(f) /\ DOMAIN f = 1..n /\ Len(f) \in Nat
  BY <1>1, LenProperties
<1>3. Len(f) = n
  <2>1. Len(f) # 0 => Len(f) \in 1..n
    BY <1>2
  <2>2. n # 0 => n \in 1..Len(f)
    BY <1>2
  <2> QED
    BY <1>2, <2>1, <2>2
<1> QED
  BY <1>1, <1>2, <1>3

\* Every group is changed, but not its players.
Mapped(lists, M) == [l \in Lists |-> [i \in DOMAIN lists[l] |-> M[lists[l][i]]]]

\* The lists keep their properties, and p has the changed group.
LEMMA ListsMapped ==
    ASSUME NEW lists, ListsInv(lists), NEW M \in [GroupRec -> GroupRec],
           \A g \in GroupRec : M[g].players = g.players
    PROVE  /\ ListsInv(Mapped(lists, M))
           /\ \A p : GroupOf(Mapped(lists, M), p) = {M[g] : g \in GroupOf(lists, p)}
<1> DEFINE new == Mapped(lists, M)
<1>0. \A l \in Lists : new[l] = [i \in DOMAIN lists[l] |-> M[lists[l][i]]]
  BY DEF Mapped
<1>7. new = [l \in Lists |-> new[l]]
  BY DEF Mapped
<1> HIDE DEF new
<1>1. ASSUME NEW l \in Lists
      PROVE  /\ new[l] \in Seq(GroupRec) /\ DOMAIN new[l] = DOMAIN lists[l]
             /\ \A i \in DOMAIN lists[l] : /\ new[l][i] = M[lists[l][i]] /\ lists[l][i] \in GroupRec
                                           /\ new[l][i].players = lists[l][i].players
  <2>1. PICK s \in Seq(GroupRec) : s = lists[l]
    BY DEF ListsInv
  <2>2. new[l] = [i \in 1..Len(s) |-> M[s[i]]]
    <3>1. new[l] = [i \in DOMAIN s |-> M[s[i]]]
      BY <1>0, <2>1, Zenon
    <3> QED
      BY <3>1, LenProperties
  <2>3. \A i \in 1..Len(s) : s[i] \in GroupRec /\ M[s[i]] \in GroupRec
    BY <2>1
  <2>4. Len(s) \in Nat /\ DOMAIN s = 1..Len(s)
    OBVIOUS
  <2>5. new[l] \in Seq(GroupRec)
    <3>1. [i \in 1..Len(s) |-> M[s[i]]] \in [1..Len(s) -> GroupRec]
      BY <2>3
    <3> QED
      BY <2>2, <2>4, <3>1, FunctionIsSeq
  <2> QED
    BY <2>1, <2>2, <2>3, <2>4, <2>5
<1>2. new \in [Lists -> Seq(GroupRec)]
  BY <1>1, <1>7
<1> DEFINE at == [l \in Lists |-> [i \in DOMAIN lists[l] |-> i]]
<1>3. \A l \in Lists : /\ at[l] \in [DOMAIN new[l] -> DOMAIN lists[l]]
                       /\ IsInjective(at[l])
                       /\ \A i \in DOMAIN new[l] : at[l][i] = i
  BY <1>1 DEF IsInjective
<1> HIDE DEF at
<1>4. ASSUME NEW l \in Lists
      PROVE  /\ at[l] \in [DOMAIN new[l] -> DOMAIN lists[l]]
             /\ IsInjective(at[l])
             /\ \A i \in DOMAIN new[l] :
                    new[l][i].players \subseteq lists[l][at[l][i]].players
  <2>1. ASSUME NEW i \in DOMAIN new[l]
        PROVE  new[l][i].players = lists[l][at[l][i]].players
    BY <1>1, <1>3
  <2> QED
    BY <1>3, <2>1
<1>5. ListsInv(new)
  BY <1>2, <1>4, ListsKept
<1>6. ASSUME NEW p PROVE GroupOf(new, p) = {M[g] : g \in GroupOf(lists, p)}
  <2>1. ASSUME NEW g \in GroupOf(new, p) PROVE \E h \in GroupOf(lists, p) : g = M[h]
    <3>1. PICK l, i : l \in Lists /\ i \in DOMAIN new[l] /\ g = new[l][i] /\ p \in g.players
      BY GroupIsAt
    <3>2. i \in DOMAIN lists[l] /\ g = M[lists[l][i]] /\ p \in lists[l][i].players
      BY <1>1, <3>1
    <3>3. lists[l][i] \in GroupOf(lists, p)
      BY <3>1, <3>2, GroupIsAt
    <3> QED
      BY <3>2, <3>3
  <2>2. ASSUME NEW h \in GroupOf(lists, p) PROVE M[h] \in GroupOf(new, p)
    <3>1. PICK l, i : l \in Lists /\ i \in DOMAIN lists[l] /\ h = lists[l][i] /\ p \in h.players
      BY GroupIsAt
    <3>2. i \in DOMAIN new[l] /\ M[h] = new[l][i] /\ p \in new[l][i].players
      BY <1>1, <3>1
    <3> QED
      BY <3>1, <3>2, GroupIsAt
  <2> QED
    BY <2>1, <2>2
<1> QED
  BY <1>5, <1>6 DEF new

\* A player leaves the queue: the others' groups lose him.
LEMMA WithoutView ==
    ASSUME NEW lists, ListsInv(lists), NEW p
    PROVE  /\ ListsInv(Without(lists, p))
           /\ GroupOf(Without(lists, p), p) = {}
           /\ \A r : r # p => GroupOf(Without(lists, p), r)
                                = {[g EXCEPT !.players = @ \ {p}] : g \in GroupOf(lists, r)}
<1> DEFINE Loose == [players : SUBSET Players, invited : Ids \cup {0}, left : 0..AcceptTime]
           Less(g) == [g EXCEPT !.players = @ \ {p}]
           left(l) == [i \in DOMAIN lists[l] |-> Less(lists[l][i])]
           S(l) == {g \in Range(left(l)) : g.players # {}}
           new == Without(lists, p)
<1>1. ASSUME NEW g \in GroupRec
      PROVE  /\ Less(g) \in Loose /\ Less(g).players = g.players \ {p}
             /\ Less(g).players # {} => Less(g) \in GroupRec
  BY DEF GroupRec
<1>2. new = [l \in Lists |-> Keeping(left(l), S(l))]
  BY DEF Without
<1> HIDE DEF new, Less, Loose
<1> DEFINE Places(k, s, f) ==
               /\ f \in [DOMAIN k -> DOMAIN s] /\ IsInjective(f)
               /\ \A i \in DOMAIN k : k[i] = Less(s[f[i]])
               /\ \A j \in DOMAIN s : Less(s[j]).players # {} => \E i \in DOMAIN k : f[i] = j
           IsAt(l, f) == Places(new[l], lists[l], f)
<1>3. ASSUME NEW l \in Lists
      PROVE  new[l] \in Seq(GroupRec) /\ \E f : IsAt(l, f)
  <2>1. PICK s \in Seq(GroupRec) : s = lists[l]
    BY DEF ListsInv
  <2>2. Len(s) \in Nat /\ DOMAIN s = 1..Len(s) /\ \A i \in 1..Len(s) : s[i] \in GroupRec
    OBVIOUS
  <2>3. \A i \in 1..Len(s) : Less(s[i]) \in Loose
    BY <1>1, <2>2
  <2>4. PICK t \in [1..Len(s) -> Loose] : t = [i \in 1..Len(s) |-> Less(s[i])]
    BY <2>3
  <2>5. /\ t \in Seq(Loose) /\ Len(t) = Len(s) /\ DOMAIN t = 1..Len(s)
        /\ \A i \in 1..Len(s) : t[i] = Less(s[i])
    BY <2>2, <2>4, FunctionIsSeq
  <2>6. t = left(l)
    BY <2>1, <2>2, <2>4
  <2> DEFINE T == {g \in Range(t) : g.players # {}}
  <2>7. new[l] = Keeping(t, T)
    BY <1>2, <2>6
  <2> HIDE DEF T
  <2>8. PICK k \in Seq(Loose) : k = Keeping(t, T)
    BY <2>5, KeepingPicks
  <2>9. PICK f : Picks(t, T, Len(t), k, f)
    BY <2>5, <2>8, KeepingPicks
  <2>10. Len(k) \in Nat /\ DOMAIN k = 1..Len(k)
    OBVIOUS
  <2>11. f \in [DOMAIN k -> DOMAIN s] /\ IsInjective(f)
    BY <2>2, <2>5, <2>9, <2>10 DEF Picks
  <2>12. \A i \in DOMAIN k : k[i] = Less(s[f[i]]) /\ k[i] \in T
    BY <2>2, <2>5, <2>9, <2>10, <2>11 DEF Picks
  <2>13. \A j \in DOMAIN s : Less(s[j]).players # {} => \E i \in DOMAIN k : f[i] = j
    <3>1. \A j \in DOMAIN s : Less(s[j]).players # {} => t[j] \in T
      BY <2>2, <2>5 DEF T, Range
    <3> QED
      BY <2>2, <2>5, <2>9, <2>10, <3>1 DEF Picks
  <2>14. \A i \in 1..Len(k) : k[i] \in GroupRec
    BY <1>1, <2>2, <2>10, <2>11, <2>12 DEF T
  <2>15. k \in Seq(GroupRec)
    BY <2>10, <2>14
  <2>16. s = lists[l] /\ k = new[l]
    BY <2>1, <2>7, <2>8
  <2>17. Places(k, s, f)
    BY <2>11, <2>12, <2>13
  <2> HIDE DEF Places
  <2> QED
    BY <2>15, <2>16, <2>17, Zenon
<1> DEFINE at == [l \in Lists |-> CHOOSE f : IsAt(l, f)]
<1>4. \A l \in Lists : IsAt(l, at[l])
  <2>1. ASSUME NEW l \in Lists PROVE IsAt(l, CHOOSE f : IsAt(l, f))
    <3>1. \E f : IsAt(l, f)
      BY <1>3
    <3> QED
      BY <3>1, Zenon
  <2> HIDE DEF IsAt
  <2> QED
    BY <2>1
<1> HIDE DEF at
<1>5. ASSUME NEW l \in Lists, NEW i \in DOMAIN lists[l]
      PROVE  lists[l][i] \in GroupRec
  BY DEF ListsInv
<1>6. new \in [Lists -> Seq(GroupRec)]
  BY <1>2, <1>3
<1>7. ASSUME NEW l \in Lists, NEW i \in DOMAIN new[l]
      PROVE  /\ at[l][i] \in DOMAIN lists[l]
             /\ new[l][i] = Less(lists[l][at[l][i]])
             /\ new[l][i].players = lists[l][at[l][i]].players \ {p}
  BY <1>1, <1>4, <1>5
<1>8. ListsInv(new)
  <2>1. ASSUME NEW l \in Lists
        PROVE  /\ at[l] \in [DOMAIN new[l] -> DOMAIN lists[l]]
               /\ IsInjective(at[l])
               /\ \A i \in DOMAIN new[l] :
                      new[l][i].players \subseteq lists[l][at[l][i]].players
    BY <1>4, <1>7
  <2> QED
    BY <1>6, <2>1, ListsKept
<1>9. GroupOf(new, p) = {}
  <2> SUFFICES ASSUME NEW g \in GroupOf(new, p) PROVE FALSE
    OBVIOUS
  <2>1. PICK l, i : l \in Lists /\ i \in DOMAIN new[l] /\ g = new[l][i] /\ p \in g.players
    BY GroupIsAt
  <2> QED
    BY <1>7, <2>1
<1>10. ASSUME NEW r, r # p PROVE GroupOf(new, r) = {Less(g) : g \in GroupOf(lists, r)}
  <2>1. ASSUME NEW g \in GroupOf(new, r) PROVE \E h \in GroupOf(lists, r) : g = Less(h)
    <3>1. PICK l, i : l \in Lists /\ i \in DOMAIN new[l] /\ g = new[l][i] /\ r \in g.players
      BY GroupIsAt
    <3>2. PICK j \in DOMAIN lists[l] : g = Less(lists[l][j]) /\ r \in lists[l][j].players
      BY <1>7, <3>1
    <3>3. lists[l][j] \in GroupOf(lists, r)
      BY <3>1, <3>2, GroupIsAt
    <3> QED
      BY <3>2, <3>3
  <2>2. ASSUME NEW h \in GroupOf(lists, r) PROVE Less(h) \in GroupOf(new, r)
    <3>1. PICK l, j : l \in Lists /\ j \in DOMAIN lists[l] /\ h = lists[l][j] /\ r \in h.players
      BY GroupIsAt
    <3>2. r \in Less(h).players
      BY <1>1, <1>5, <1>10, <3>1
    <3>3. PICK i \in DOMAIN new[l] : at[l][i] = j
      BY <1>4, <3>1, <3>2
    <3>4. Less(h) = new[l][i]
      BY <1>7, <3>1, <3>3
    <3> QED
      BY <3>1, <3>2, <3>4, GroupIsAt
  <2> QED
    BY <2>1, <2>2
<1> QED
  BY <1>8, <1>9, <1>10 DEF new, Less

\* One element in front.
LEMMA Prepend ==
    ASSUME NEW S, NEW x \in S, NEW s \in Seq(S)
    PROVE  /\ <<x>> \o s \in Seq(S) /\ Len(<<x>> \o s) = Len(s) + 1
           /\ DOMAIN (<<x>> \o s) = 1..(Len(s) + 1)
           /\ (<<x>> \o s)[1] = x
           /\ \A i \in 1..Len(s) : (<<x>> \o s)[i + 1] = s[i]
<1>1. <<x>> \in Seq(S) /\ Len(<<x>>) = 1 /\ <<x>>[1] = x
  OBVIOUS
<1>2. PICK o \in Seq(S) : o = <<x>>
  BY <1>1
<1>3. PICK t \in Seq(S) : t = o \o s
  BY ConcatProperties
<1>4. Len(o) = 1 /\ o[1] = x
  BY <1>1, <1>2
<1>5. PICK n \in Nat : n = Len(s)
  BY LenProperties
<1>6. Len(t) = n + 1 /\ \A i \in 1..(n + 1) : t[i] = IF i <= 1 THEN o[i] ELSE s[i - 1]
  <2>1. Len(t) = Len(o) + Len(s)
    BY <1>3, ConcatProperties
  <2>2. \A i \in 1..(Len(o) + Len(s)) : t[i] = IF i <= Len(o) THEN o[i] ELSE s[i - Len(o)]
    BY <1>3, ConcatProperties
  <2>3. Len(o) + Len(s) = n + 1
    BY <1>4, <1>5
  <2> QED
    BY <1>4, <2>1, <2>2, <2>3
<1>7. DOMAIN t = 1..(n + 1)
  BY <1>6, LenProperties
<1>8. 1 \in 1..(n + 1) /\ \A i \in 1..n : i + 1 \in 1..(n + 1) /\ ~ (i + 1 <= 1) /\ (i + 1) - 1 = i
  OBVIOUS
<1>9. t[1] = x /\ \A i \in 1..n : t[i + 1] = s[i]
  BY <1>4, <1>6, <1>8
<1>10. t = <<x>> \o s
  BY <1>2, <1>3, Zenon
<1> QED
  BY <1>5, <1>6, <1>7, <1>9, <1>10, Zenon

\* A group is appended, of players who were in none.
LEMMA AppendView ==
    ASSUME NEW lists, ListsInv(lists), NEW k \in Lists, NEW h \in GroupRec,
           \A p \in h.players : Team[p] = k[2] /\ GroupOf(lists, p) = {}
    PROVE  LET new == [lists EXCEPT ![k] = Append(@, h)]
           IN /\ ListsInv(new)
              /\ \A p : GroupOf(new, p) = IF p \in h.players THEN {h} ELSE GroupOf(lists, p)
<1> DEFINE new == [lists EXCEPT ![k] = Append(@, h)]
<1>1. lists \in [Lists -> Seq(GroupRec)]
  BY DEF ListsInv
<1>2. PICK s \in Seq(GroupRec) : s = lists[k]
  BY <1>1
<1>3. PICK n \in Nat : n = Len(s)
  BY LenProperties
<1>4. PICK t \in Seq(GroupRec) : t = Append(s, h)
  BY AppendProperties
<1>5. /\ DOMAIN s = 1..n /\ DOMAIN t = 1..(n + 1) /\ t[n + 1] = h
      /\ \A i \in 1..n : t[i] = s[i]
  BY <1>3, <1>4, LenProperties, AppendProperties
<1>6. new = [lists EXCEPT ![k] = t]
  BY <1>1, <1>2, <1>4
<1> HIDE DEF new
<1>7. new \in [Lists -> Seq(GroupRec)] /\ new[k] = t /\ \A l \in Lists : l # k => new[l] = lists[l]
  BY <1>1, <1>6
\* Where a group of the new lists is.
<1>8. ASSUME NEW l \in Lists, NEW i \in DOMAIN new[l]
      PROVE  \/ l = k /\ i = n + 1 /\ new[l][i] = h
             \/ i \in DOMAIN lists[l] /\ new[l][i] = lists[l][i]
  <2>1. CASE l = k
    <3>1. i \in 1..(n + 1) /\ new[l] = t /\ lists[l] = s
      BY <1>2, <1>5, <1>7, <2>1
    <3>2. i = n + 1 \/ i \in 1..n
      BY <3>1
    <3> QED
      BY <1>5, <2>1, <3>1, <3>2
  <2>2. CASE l # k
    BY <1>7, <2>2
  <2> QED
    BY <2>1, <2>2
<1>9. ASSUME NEW l \in Lists, NEW i \in DOMAIN lists[l]
      PROVE  i \in DOMAIN new[l] /\ new[l][i] = lists[l][i]
  <2>1. CASE l = k
    <3>1. i \in 1..n /\ new[l] = t /\ lists[l] = s
      BY <1>2, <1>5, <1>7, <2>1
    <3>2. i \in 1..(n + 1)
      BY <3>1
    <3> QED
      BY <1>5, <3>1, <3>2
  <2>2. CASE l # k
    BY <1>7, <2>2
  <2> QED
    BY <2>1, <2>2
<1>10. n + 1 \in DOMAIN new[k] /\ new[k][n + 1] = h
  BY <1>5, <1>7
<1>11. ASSUME NEW l \in Lists, NEW i \in DOMAIN lists[l], NEW p \in h.players
       PROVE  p \notin lists[l][i].players
  <2>1. GroupOf(lists, p) = {}
    OBVIOUS
  <2> QED
    BY <2>1, GroupIsAt
<1>12. ListsInv(new)
  <2>1. ASSUME NEW l \in Lists, NEW i \in DOMAIN new[l], NEW p \in new[l][i].players
        PROVE  Team[p] = l[2]
    <3>1. CASE i \in DOMAIN lists[l] /\ new[l][i] = lists[l][i]
      BY <3>1 DEF ListsInv
    <3>2. CASE l = k /\ i = n + 1 /\ new[l][i] = h
      BY <3>2
    <3> QED
      BY <1>8, <3>1, <3>2
  <2>2. ASSUME NEW l \in Lists, NEW m \in Lists, NEW i \in DOMAIN new[l], NEW j \in DOMAIN new[m],
               NEW p \in new[l][i].players, p \in new[m][j].players
        PROVE  l = m /\ i = j
    <3>1. CASE i \in DOMAIN lists[l] /\ new[l][i] = lists[l][i]
      <4>1. j \in DOMAIN lists[m] /\ new[m][j] = lists[m][j]
        BY <1>8, <1>11, <2>2, <3>1
      <4> QED
        BY <2>2, <3>1, <4>1 DEF ListsInv
    <3>2. CASE l = k /\ i = n + 1 /\ new[l][i] = h
      <4>1. m = k /\ j = n + 1
        BY <1>8, <1>11, <2>2, <3>2
      <4> QED
        BY <3>2, <4>1
    <3> QED
      BY <1>8, <3>1, <3>2
  <2> QED
    BY <1>7, <2>1, <2>2 DEF ListsInv
<1>13. ASSUME NEW p PROVE GroupOf(new, p) = IF p \in h.players THEN {h} ELSE GroupOf(lists, p)
  <2>1. ASSUME NEW g \in GroupOf(new, p) PROVE (p \in h.players /\ g = h) \/ g \in GroupOf(lists, p)
    <3>1. PICK l, i : l \in Lists /\ i \in DOMAIN new[l] /\ g = new[l][i] /\ p \in g.players
      BY GroupIsAt
    <3>2. CASE l = k /\ i = n + 1 /\ new[l][i] = h
      BY <3>1, <3>2
    <3>3. CASE i \in DOMAIN lists[l] /\ new[l][i] = lists[l][i]
      BY <3>1, <3>3, GroupIsAt
    <3> QED
      BY <1>8, <3>1, <3>2, <3>3
  <2>2. ASSUME NEW g \in GroupOf(lists, p) PROVE g \in GroupOf(new, p)
    <3>1. PICK l, i : l \in Lists /\ i \in DOMAIN lists[l] /\ g = lists[l][i] /\ p \in g.players
      BY GroupIsAt
    <3> QED
      BY <1>9, <3>1, GroupIsAt
  <2>3. p \in h.players => h \in GroupOf(new, p)
    BY <1>10, GroupIsAt
  <2>4. p \in h.players => GroupOf(lists, p) = {}
    OBVIOUS
  <2> QED
    BY <2>1, <2>2, <2>3, <2>4
<1> QED
  BY <1>12, <1>13 DEF new

\* The same groups at other places: toList and toPlace say where each was.
Rearranges(lists, new, toList, toPlace) ==
    /\ \A l \in Lists : \A i \in DOMAIN new[l] :
           /\ toList[l][i] \in Lists /\ toPlace[l][i] \in DOMAIN lists[toList[l][i]]
           /\ toList[l][i][2] = l[2]
           /\ new[l][i] = lists[toList[l][i]][toPlace[l][i]]
    /\ \A l, m \in Lists : \A i \in DOMAIN new[l], j \in DOMAIN new[m] :
           toList[l][i] = toList[m][j] /\ toPlace[l][i] = toPlace[m][j] => l = m /\ i = j
    /\ \A m \in Lists : \A j \in DOMAIN lists[m] :
           \E l \in Lists : \E i \in DOMAIN new[l] : toList[l][i] = m /\ toPlace[l][i] = j

\* The groups of each player are the same then.
LEMMA Rearranged ==
    ASSUME NEW lists, ListsInv(lists), NEW new \in [Lists -> Seq(GroupRec)],
           NEW toList, NEW toPlace, Rearranges(lists, new, toList, toPlace)
    PROVE  ListsInv(new) /\ \A p : GroupOf(new, p) = GroupOf(lists, p)
<1>0. ASSUME NEW l \in Lists, NEW i \in DOMAIN new[l]
      PROVE  \E m \in Lists : \E j \in DOMAIN lists[m] :
                 /\ m = toList[l][i] /\ j = toPlace[l][i] /\ m[2] = l[2]
                 /\ new[l][i] = lists[m][j]
  BY DEF Rearranges
<1>1. ASSUME NEW l \in Lists, NEW i \in DOMAIN new[l], NEW p \in new[l][i].players
      PROVE  Team[p] = l[2]
  <2>1. PICK m, j : /\ m \in Lists /\ j \in DOMAIN lists[m] /\ m[2] = l[2]
                    /\ new[l][i] = lists[m][j]
    BY <1>0
  <2> QED
    BY <2>1 DEF ListsInv
<1>2. ASSUME NEW l \in Lists, NEW m \in Lists, NEW i \in DOMAIN new[l], NEW j \in DOMAIN new[m],
             NEW p \in new[l][i].players, p \in new[m][j].players
      PROVE  l = m /\ i = j
  <2>1. toList[l][i] = toList[m][j] /\ toPlace[l][i] = toPlace[m][j]
    <3>1. PICK a, b : /\ a \in Lists /\ b \in DOMAIN lists[a]
                      /\ a = toList[l][i] /\ b = toPlace[l][i] /\ new[l][i] = lists[a][b]
      BY <1>0
    <3>2. PICK c, d : /\ c \in Lists /\ d \in DOMAIN lists[c]
                      /\ c = toList[m][j] /\ d = toPlace[m][j] /\ new[m][j] = lists[c][d]
      BY <1>0
    <3>3. a = c /\ b = d
      <4>1. p \in lists[a][b].players /\ p \in lists[c][d].players
        BY <1>2, <3>1, <3>2
      <4>2. a \in Lists /\ b \in DOMAIN lists[a] /\ c \in Lists /\ d \in DOMAIN lists[c]
        BY <3>1, <3>2
      <4> HIDE <3>1, <3>2
      <4> QED
        BY <4>1, <4>2 DEF ListsInv
    <3> QED
      BY <3>1, <3>2, <3>3
  <2> QED
    BY <2>1 DEF Rearranges
<1>3. ListsInv(new)
  BY <1>1, <1>2 DEF ListsInv
<1>4. ASSUME NEW p PROVE GroupOf(new, p) = GroupOf(lists, p)
  <2>1. ASSUME NEW g \in GroupOf(new, p) PROVE g \in GroupOf(lists, p)
    <3>1. PICK l, i : l \in Lists /\ i \in DOMAIN new[l] /\ g = new[l][i] /\ p \in g.players
      BY GroupIsAt
    <3>2. PICK m, j : m \in Lists /\ j \in DOMAIN lists[m] /\ new[l][i] = lists[m][j]
      BY <1>0, <3>1
    <3> QED
      BY <3>1, <3>2, GroupIsAt
  <2>2. ASSUME NEW g \in GroupOf(lists, p) PROVE g \in GroupOf(new, p)
    <3>1. PICK m, j : m \in Lists /\ j \in DOMAIN lists[m] /\ g = lists[m][j] /\ p \in g.players
      BY GroupIsAt
    <3>2. PICK l, i : l \in Lists /\ i \in DOMAIN new[l] /\ toList[l][i] = m /\ toPlace[l][i] = j
      BY <3>1 DEF Rearranges
    <3>3. new[l][i] = g
      BY <3>1, <3>2 DEF Rearranges
    <3> QED
      BY <3>1, <3>2, <3>3, GroupIsAt
  <2> QED
    BY <2>1, <2>2
<1> QED
  BY <1>3, <1>4

\* The first premade groups move to the normal lists.
LEMMA MovedView ==
    ASSUME NEW lists, ListsInv(lists), NEW late
    PROVE  /\ ListsInv(Moved(lists, late))
           /\ \A p : GroupOf(Moved(lists, late), p) = GroupOf(lists, p)
<1> DEFINE first(t) == lists[<<"premade", t>>][1]
           moves == {t \in Teams :
               /\ lists[<<"premade", t>>] # <<>> /\ first(t).invited = 0
               /\ t \in late \/ Cardinality(first(t).players) < MinPlayers}
           new == Moved(lists, late)
           Is(l, kind) == l[2] \in moves /\ l[1] = kind
           toList == [l \in Lists |-> [i \in DOMAIN new[l] |->
                         IF Is(l, "normal") /\ i = 1 THEN <<"premade", l[2]>> ELSE l]]
           toPlace == [l \in Lists |-> [i \in DOMAIN new[l] |->
                         IF Is(l, "premade") THEN i + 1
                         ELSE IF Is(l, "normal") THEN IF i = 1 THEN 1 ELSE i - 1
                         ELSE i]]
<1>1. \A l \in Lists : /\ l = <<l[1], l[2]>> /\ l[1] \in {"premade", "normal"} /\ l[2] \in Teams
                       /\ <<"premade", l[2]>> \in Lists /\ <<"normal", l[2]>> \in Lists
  BY DEF Lists
<1>2. ASSUME NEW l \in Lists
      PROVE  /\ lists[l] \in Seq(GroupRec) /\ Len(lists[l]) \in Nat
             /\ DOMAIN lists[l] = 1..Len(lists[l])
             /\ \A i \in 1..Len(lists[l]) : lists[l][i] \in GroupRec
  <2>1. lists[l] \in Seq(GroupRec)
    BY DEF ListsInv
  <2> QED
    BY <2>1, LenProperties
<1>3. \A t \in moves : /\ t \in Teams /\ lists[<<"premade", t>>] # <<>>
                       /\ <<"premade", t>> \in Lists /\ <<"normal", t>> \in Lists
  BY DEF Lists
<1>4. new = [l \in Lists |->
           IF l[2] \notin moves THEN lists[l]
           ELSE IF l[1] = "premade" THEN Tail(lists[l])
           ELSE <<first(l[2])>> \o lists[l]]
  BY DEF Moved
<1>5. ASSUME NEW l \in Lists
      PROVE  new[l] = IF l[2] \notin moves THEN lists[l]
                       ELSE IF l[1] = "premade" THEN Tail(lists[l])
                       ELSE <<first(l[2])>> \o lists[l]
  BY <1>4
<1> HIDE DEF new, moves
\* What each of the new lists is.
<1>6. ASSUME NEW l \in Lists, l[2] \notin moves PROVE new[l] = lists[l]
  BY <1>5, <1>6, Zenon
<1>7. ASSUME NEW l \in Lists, Is(l, "premade")
      PROVE  /\ new[l] \in Seq(GroupRec) /\ Len(lists[l]) # 0
             /\ DOMAIN new[l] = 1..(Len(lists[l]) - 1)
             /\ \A i \in DOMAIN new[l] : new[l][i] = lists[l][i + 1]
  <2>1. new[l] = Tail(lists[l])
    BY <1>5, <1>7
  <2>2. lists[l] # <<>>
    <3>1. l = <<"premade", l[2]>> /\ l[2] \in moves
      BY <1>1, <1>7
    <3> QED
      BY <1>3, <3>1
  <2>3. PICK s \in Seq(GroupRec) : s = lists[l]
    BY <1>2
  <2>4. PICK t \in Seq(GroupRec) : t = Tail(s)
    BY <2>2, <2>3, HeadTailProperties
  <2>5. /\ Len(t) = Len(s) - 1 /\ DOMAIN t = 1..Len(t) /\ Len(t) \in Nat /\ Len(s) \in Nat
        /\ \A i \in 1..Len(t) : t[i] = s[i + 1]
    BY <2>2, <2>3, <2>4, HeadTailProperties, LenProperties
  <2>6. new[l] = t /\ lists[l] = s
    BY <2>1, <2>3, <2>4
  <2> QED
    BY <2>5, <2>6
<1>8. ASSUME NEW l \in Lists, Is(l, "normal")
      PROVE  /\ new[l] \in Seq(GroupRec)
             /\ DOMAIN new[l] = 1..(Len(lists[l]) + 1)
             /\ new[l][1] = first(l[2]) /\ 1 \in DOMAIN lists[<<"premade", l[2]>>]
             /\ \A i \in 1..Len(lists[l]) : new[l][i + 1] = lists[l][i]
  <2>1. new[l] = <<first(l[2])>> \o lists[l]
    BY <1>5, <1>8
  <2>2. PICK r \in Seq(GroupRec) : r = lists[<<"premade", l[2]>>]
    BY <1>1, <1>2
  <2>3. r # <<>> /\ Len(r) \in Nat /\ DOMAIN r = 1..Len(r)
    BY <1>3, <1>8, <2>2, LenProperties
  <2>4. Len(r) # 0
    BY <2>3, EmptySeq
  <2>5. 1 \in DOMAIN r /\ r[1] \in GroupRec /\ r[1] = first(l[2])
    BY <2>2, <2>3, <2>4
  <2>6. PICK g \in GroupRec : g = first(l[2])
    BY <2>5
  <2>7. PICK s \in Seq(GroupRec) : s = lists[l]
    BY <1>2
  <2>8. PICK t \in Seq(GroupRec) : t = <<g>> \o s
    BY Prepend
  <2>9. /\ DOMAIN t = 1..(Len(s) + 1) /\ t[1] = g
        /\ \A i \in 1..Len(s) : t[i + 1] = s[i]
    BY <2>8, Prepend
  <2>10. new[l] = t /\ lists[l] = s /\ first(l[2]) = g
    BY <2>1, <2>6, <2>7, <2>8
  <2> QED
    BY <2>2, <2>5, <2>9, <2>10
<1>9. \A l \in Lists : l[2] \in moves => Is(l, "premade") \/ Is(l, "normal")
  BY <1>1
<1>10. new \in [Lists -> Seq(GroupRec)]
  <2>1. \A l \in Lists : new[l] \in Seq(GroupRec)
    BY <1>2, <1>6, <1>7, <1>8, <1>9
  <2> QED
    BY <1>4, <2>1
<1> HIDE DEF first
<1>11. ASSUME NEW l \in Lists, NEW i \in DOMAIN new[l]
       PROVE  /\ toList[l][i] \in Lists /\ toPlace[l][i] \in DOMAIN lists[toList[l][i]]
              /\ toList[l][i][2] = l[2]
              /\ new[l][i] = lists[toList[l][i]][toPlace[l][i]]
  <2>1. CASE l[2] \notin moves
    <3>1. toList[l][i] = l /\ toPlace[l][i] = i
      BY <2>1
    <3> QED
      BY <1>6, <2>1, <3>1
  <2>2. CASE Is(l, "premade")
    <3>1. toList[l][i] = l /\ toPlace[l][i] = i + 1
      BY <2>2
    <3>2. i \in 1..(Len(lists[l]) - 1) /\ new[l][i] = lists[l][i + 1] /\ Len(lists[l]) \in Nat
      BY <1>2, <1>7, <2>2
    <3>3. i + 1 \in 1..Len(lists[l])
      BY <3>2
    <3> QED
      BY <1>2, <3>1, <3>2, <3>3
  <2>3. CASE Is(l, "normal") /\ i = 1
    <3>1. toList[l][i] = <<"premade", l[2]>> /\ toPlace[l][i] = 1
      BY <2>3
    <3> QED
      BY <1>1, <1>8, <2>3, <3>1 DEF first
  <2>4. CASE Is(l, "normal") /\ i # 1
    <3>1. toList[l][i] = l /\ toPlace[l][i] = i - 1
      BY <2>4
    <3>2. i \in 1..(Len(lists[l]) + 1) /\ Len(lists[l]) \in Nat
      BY <1>2, <1>8, <2>4
    <3>3. i - 1 \in 1..Len(lists[l]) /\ (i - 1) + 1 = i
      BY <2>4, <3>2
    <3>4. new[l][i] = lists[l][i - 1]
      BY <1>8, <2>4, <3>3
    <3> QED
      BY <1>2, <3>1, <3>3, <3>4
  <2> QED
    BY <1>9, <2>1, <2>2, <2>3, <2>4
\* No place is taken twice: the only list that gets a group of another is short of it.
<1>12. ASSUME NEW l \in Lists, NEW m \in Lists, NEW i \in DOMAIN new[l], NEW j \in DOMAIN new[m],
              toList[l][i] = toList[m][j], toPlace[l][i] = toPlace[m][j]
       PROVE  l = m /\ i = j
  <2>1. l[2] = m[2]
    BY <1>11, <1>12
  <2>2. CASE l[2] \notin moves
    <3>1. ~ Is(l, "premade") /\ ~ Is(l, "normal") /\ ~ Is(m, "premade") /\ ~ Is(m, "normal")
      BY <2>1, <2>2
    <3>2. toList[l][i] = l /\ toPlace[l][i] = i /\ toList[m][j] = m /\ toPlace[m][j] = j
      BY <3>1
    <3> QED
      BY <1>12, <3>2
  <2>3. CASE l[2] \in moves
    <3>1. ASSUME NEW k \in Lists, NEW a \in DOMAIN new[k], k[2] \in moves
          PROVE  /\ a \in Nat
                 /\ k[1] = "premade" => toList[k][a] = k /\ toPlace[k][a] = a + 1 /\ a + 1 # 1
                 /\ k[1] = "normal" /\ a = 1 =>
                        toList[k][a] = <<"premade", k[2]>> /\ toPlace[k][a] = 1
                 /\ k[1] = "normal" /\ a # 1 => toList[k][a] = k /\ toPlace[k][a] = a - 1
      <4>1. a \in Nat /\ a # 0
        <5>1. Len(lists[k]) \in Nat
          BY <1>2
        <5>2. Is(k, "premade") => a \in 1..(Len(lists[k]) - 1)
          BY <1>7
        <5>3. Is(k, "normal") => a \in 1..(Len(lists[k]) + 1)
          BY <1>8
        <5> QED
          BY <1>9, <3>1, <5>1, <5>2, <5>3
      <4>2. k[1] = "premade" => toList[k][a] = k /\ toPlace[k][a] = a + 1
        BY <3>1
      <4>3. k[1] = "normal" /\ a = 1 => toList[k][a] = <<"premade", k[2]>> /\ toPlace[k][a] = 1
        BY <3>1
      <4>4. k[1] = "normal" /\ a # 1 => toList[k][a] = k /\ toPlace[k][a] = a - 1
        BY <3>1
      <4> QED
        BY <4>1, <4>2, <4>3, <4>4
    <3> HIDE DEF toList, toPlace
    <3>2. l = <<l[1], l[2]>> /\ m = <<m[1], m[2]>> /\ m[2] \in moves
      BY <1>1, <2>1, <2>3
    <3>3. l[1] \in {"premade", "normal"} /\ m[1] \in {"premade", "normal"}
      BY <1>1
    <3>4. CASE l[1] = m[1]
      <4>1. l = m
        BY <2>1, <3>2, <3>4
      <4>2. CASE l[1] = "premade"
        BY <1>12, <2>3, <3>1, <4>1, <4>2
      <4>3. CASE l[1] = "normal" /\ i = 1 /\ j # 1
        <5>1. toList[l][i] = <<"premade", l[2]>> /\ toList[m][j] = m
          BY <2>3, <3>1, <3>2, <3>4, <4>3
        <5>2. m = <<"premade", l[2]>>
          BY <1>12, <5>1, Zenon
        <5>3. m[1] = "premade"
          BY <5>2
        <5> QED
          BY <3>4, <4>3, <5>3
      <4>4. CASE l[1] = "normal" /\ i # 1 /\ j = 1
        <5>1. toList[l][i] = l /\ toList[m][j] = <<"premade", m[2]>>
          BY <2>3, <3>1, <3>2, <3>4, <4>4
        <5>2. l = <<"premade", m[2]>>
          BY <1>12, <5>1, Zenon
        <5>3. l[1] = "premade"
          BY <5>2
        <5> QED
          BY <4>4, <5>3
      <4>5. CASE l[1] = "normal" /\ i # 1 /\ j # 1
        BY <1>12, <2>3, <3>1, <4>1, <4>5
      <4> QED
        BY <3>3, <4>1, <4>2, <4>3, <4>4, <4>5
    <3>5. CASE l[1] = "premade" /\ m[1] = "normal"
      <4>1. toList[l][i] = l /\ toPlace[l][i] # 1
        BY <2>3, <3>1, <3>5
      <4>2. j = 1 => toPlace[m][j] = 1
        BY <3>1, <3>2, <3>5
      <4>3. j # 1 => toList[m][j] = m
        BY <3>1, <3>2, <3>5
      <4> QED
        BY <1>12, <3>5, <4>1, <4>2, <4>3
    <3>6. CASE l[1] = "normal" /\ m[1] = "premade"
      <4>1. toList[m][j] = m /\ toPlace[m][j] # 1
        BY <3>1, <3>2, <3>6
      <4>2. i = 1 => toPlace[l][i] = 1
        BY <2>3, <3>1, <3>6
      <4>3. i # 1 => toList[l][i] = l
        BY <2>3, <3>1, <3>6
      <4> QED
        BY <1>12, <3>6, <4>1, <4>2, <4>3
    <3> QED
      BY <3>3, <3>4, <3>5, <3>6
  <2> QED
    BY <2>2, <2>3
\* And none is forgotten.
<1>13. ASSUME NEW m \in Lists, NEW j \in DOMAIN lists[m]
       PROVE  \E l \in Lists : \E i \in DOMAIN new[l] : toList[l][i] = m /\ toPlace[l][i] = j
  <2>1. CASE m[2] \notin moves
    <3>1. j \in DOMAIN new[m]
      BY <1>6, <2>1
    <3>2. toList[m][j] = m /\ toPlace[m][j] = j
      BY <2>1, <3>1
    <3> QED
      BY <3>1, <3>2
  <2>2. CASE Is(m, "premade") /\ j = 1
    <3> DEFINE l == <<"normal", m[2]>>
    <3>1. l \in Lists /\ Is(l, "normal") /\ m = <<"premade", l[2]>>
      BY <1>1, <2>2
    <3>2. 1 \in DOMAIN new[l]
      BY <1>2, <1>8, <3>1
    <3> HIDE DEF l
    <3>3. toList[l][1] = m /\ toPlace[l][1] = 1
      BY <3>1, <3>2
    <3> QED
      BY <2>2, <3>1, <3>2, <3>3
  <2>3. CASE Is(m, "premade") /\ j # 1
    <3>1. j \in 1..Len(lists[m]) /\ Len(lists[m]) \in Nat
      BY <1>2
    <3>2. j - 1 \in 1..(Len(lists[m]) - 1) /\ (j - 1) + 1 = j
      BY <2>3, <3>1
    <3>3. j - 1 \in DOMAIN new[m]
      BY <1>7, <2>3, <3>2
    <3>4. toList[m][j - 1] = m /\ toPlace[m][j - 1] = j
      BY <2>3, <3>2, <3>3
    <3> QED
      BY <3>3, <3>4
  <2>4. CASE Is(m, "normal")
    <3>1. j \in 1..Len(lists[m]) /\ Len(lists[m]) \in Nat
      BY <1>2
    <3>2. j + 1 \in 1..(Len(lists[m]) + 1) /\ (j + 1) - 1 = j /\ j + 1 # 1
      BY <3>1
    <3>3. j + 1 \in DOMAIN new[m]
      BY <1>8, <2>4, <3>2
    <3>4. toList[m][j + 1] = m /\ toPlace[m][j + 1] = j
      BY <2>4, <3>2, <3>3
    <3> QED
      BY <3>3, <3>4
  <2> QED
    BY <1>9, <2>1, <2>2, <2>3, <2>4
<1> HIDE DEF toList, toPlace
<1>14. Rearranges(lists, new, toList, toPlace)
  BY <1>11, <1>12, <1>13 DEF Rearranges
<1>15. ListsInv(new) /\ \A p : GroupOf(new, p) = GroupOf(lists, p)
  BY <1>10, <1>14, Rearranged
<1> QED
  BY <1>15 DEF new

-----------------------------------------------------------------------------
(* The selection pools.                                                      *)
Pools == [chosen : SUBSET GroupRec, count : Nat, more : BOOLEAN]

\* A pool counts the players of its groups, of which none is invited.
PoolOk(pool) ==
    /\ pool \in Pools
    /\ \A g \in pool.chosen : g.invited = 0
    /\ pool.count = Cardinality(UNION {g.players : g \in pool.chosen})

\* One more group whose players are in none of the others.
LEMMA AddGroupView ==
    ASSUME BattlegroundAssumption, NEW pool, PoolOk(pool), NEW g \in GroupRec,
           NEW desired \in Int,
           \A h \in pool.chosen : \A p \in h.players : p \notin g.players
    PROVE  /\ PoolOk(AddGroup(pool, g, desired))
           /\ AddGroup(pool, g, desired).chosen \subseteq pool.chosen \cup {g}
           /\ \/ AddGroup(pool, g, desired).count <= desired
              \/ AddGroup(pool, g, desired).count = pool.count
<1> DEFINE all == UNION {h.players : h \in pool.chosen}
           size == Cardinality(g.players)
           new == AddGroup(pool, g, desired)
<1>1. /\ pool \in Pools /\ pool.chosen \in SUBSET GroupRec /\ pool.count \in Nat
      /\ pool.more \in BOOLEAN
  BY DEF PoolOk, Pools
<1>2. all \in SUBSET Players /\ g.players \in SUBSET Players
  BY <1>1 DEF GroupRec
<1>3. IsFiniteSet(all) /\ IsFiniteSet(g.players)
  BY <1>2, FS_Subset DEF BattlegroundAssumption
<1>4. size \in Nat /\ Cardinality(all) \in Nat
  BY <1>3, FS_CardinalityType
<1>5. all \cap g.players = {}
  OBVIOUS
<1>6. Cardinality(all \cup g.players) = Cardinality(all) + size
  <2>1. Cardinality(all \cap g.players) = 0
    BY <1>5, FS_EmptySet
  <2> DEFINE its == g.players
  <2>2. Cardinality(all \cup its) = Cardinality(all) + Cardinality(its) - Cardinality(all \cap its)
    <3>1. IsFiniteSet(all) /\ IsFiniteSet(its)
      BY <1>3
    <3> HIDE DEF all, its
    <3> QED
      BY <3>1, FS_Union
  <2> HIDE DEF all
  <2> QED
    BY <1>4, <2>1, <2>2
<1>7. pool.count = Cardinality(all)
  BY DEF PoolOk
<1>8. CASE g.invited = 0 /\ pool.count + size <= desired
  <2>1. new = [chosen |-> pool.chosen \cup {g}, count |-> pool.count + size, more |-> TRUE]
    BY <1>8 DEF AddGroup
  <2>2. new.chosen = pool.chosen \cup {g} /\ new.count = pool.count + size
    BY <2>1
  <2>3. new \in Pools
    <3>1. pool.chosen \cup {g} \in SUBSET GroupRec /\ pool.count + size \in Nat
      BY <1>1, <1>4
    <3> QED
      BY <2>1, <3>1 DEF Pools
  <2>4. UNION {h.players : h \in new.chosen} = all \cup g.players
    BY <2>2
  <2>5. \A h \in new.chosen : h.invited = 0
    BY <1>8, <2>2 DEF PoolOk
  <2>6. new.count = Cardinality(all \cup g.players)
    BY <1>6, <1>7, <2>2
  <2> HIDE DEF new, all, size
  <2>7. PoolOk(new)
    BY <2>3, <2>4, <2>5, <2>6 DEF PoolOk
  <2> QED
    BY <1>8, <2>2, <2>7 DEF new
<1>9. CASE ~ (g.invited = 0 /\ pool.count + size <= desired)
  <2>1. new = [pool EXCEPT !.more = pool.count < desired]
    BY <1>9 DEF AddGroup
  <2> DEFINE more == pool.count < desired
  <2>4. more \in BOOLEAN
    OBVIOUS
  <2> HIDE DEF more
  <2>5. new = [chosen |-> pool.chosen, count |-> pool.count, more |-> more]
    BY <1>1, <2>1 DEF Pools, more
  <2>2. /\ new.chosen = pool.chosen /\ new.count = pool.count /\ new \in Pools
    BY <1>1, <2>4, <2>5 DEF Pools
  <2> HIDE DEF new
  <2>3. PoolOk(new)
    BY <2>2 DEF PoolOk
  <2> QED
    BY <2>2, <2>3 DEF new
<1> QED
  BY <1>8, <1>9

\* The groups of a sequence have no player in common.
Apart(s) ==
    /\ s \in Seq(GroupRec)
    /\ \A i, j \in DOMAIN s : \A p \in s[i].players : p \in s[j].players => i = j

\* The groups of the pool and those of the sequence have none either.
Clear(pool, s) == \A h \in pool.chosen : \A p \in h.players : \A i \in DOMAIN s : p \notin s[i].players

\* What a pool may be after the first i groups.
PoolsUpto(base, s, i, desired) ==
    {r \in Pools :
        /\ PoolOk(r) /\ r.chosen \subseteq base.chosen \cup {s[j] : j \in 1..i}
        /\ r.count <= desired \/ r.count = base.count}

\* The next group is added to it.
LEMMA AddNext ==
    ASSUME BattlegroundAssumption, NEW base, PoolOk(base), NEW s, Apart(s), Clear(base, s),
           NEW desired \in Int, NEW i \in 1..Len(s), NEW r \in PoolsUpto(base, s, i - 1, desired)
    PROVE  /\ r \in PoolsUpto(base, s, i, desired)
           /\ AddGroup(r, s[i], desired) \in PoolsUpto(base, s, i, desired)
<1>1. s \in Seq(GroupRec) /\ Len(s) \in Nat /\ DOMAIN s = 1..Len(s)
  BY DEF Apart
<1>2. \A j \in 1..(i - 1) : j \in 1..i /\ j \in DOMAIN s /\ j # i
  BY <1>1
<1>3. /\ PoolOk(r) /\ r.chosen \subseteq base.chosen \cup {s[j] : j \in 1..(i - 1)}
      /\ r.count <= desired \/ r.count = base.count
  BY DEF PoolsUpto
<1>4. r.chosen \subseteq base.chosen \cup {s[j] : j \in 1..i}
  BY <1>2, <1>3
<1>5. r \in PoolsUpto(base, s, i, desired)
  BY <1>3, <1>4 DEF PoolsUpto
<1>6. i \in DOMAIN s /\ s[i] \in GroupRec
  BY <1>1
<1>7. ASSUME NEW h \in r.chosen, NEW p \in h.players PROVE p \notin s[i].players
  <2>1. CASE h \in base.chosen
    BY <1>6, <1>7, <2>1 DEF Clear
  <2>2. CASE h \notin base.chosen
    <3>1. PICK j \in 1..(i - 1) : h = s[j]
      BY <1>3, <2>2
    <3> QED
      BY <1>2, <1>6, <1>7, <3>1 DEF Apart
  <2> QED
    BY <2>1, <2>2
<1> DEFINE new == AddGroup(r, s[i], desired)
<1>8. /\ PoolOk(new) /\ new.chosen \subseteq r.chosen \cup {s[i]}
      /\ new.count <= desired \/ new.count = r.count
  BY <1>3, <1>6, <1>7, AddGroupView
<1> HIDE DEF new
<1>9. new \in Pools
  BY <1>8 DEF PoolOk
<1>10. s[i] \in {s[j] : j \in 1..i}
  BY <1>1
<1>11. new.chosen \subseteq base.chosen \cup {s[j] : j \in 1..i}
  BY <1>4, <1>8, <1>10
<1>12. new.count <= desired \/ new.count = base.count
  BY <1>3, <1>8
<1>13. new \in PoolsUpto(base, s, i, desired)
  BY <1>8, <1>9, <1>11, <1>12 DEF PoolsUpto
<1> QED
  BY <1>5, <1>13 DEF new

\* FillPlayersToBG and the filling of premades: the pool has groups of the list, and no
\* more players than desired unless it had them before.
LEMMA FillView ==
    ASSUME BattlegroundAssumption, NEW base, PoolOk(base), NEW s, Apart(s), Clear(base, s),
           NEW desired \in Int
    PROVE  /\ PoolOk(Fill(base, s, desired))
           /\ Fill(base, s, desired).chosen \subseteq base.chosen \cup Range(s)
           /\ \/ Fill(base, s, desired).count <= desired
              \/ Fill(base, s, desired).count = base.count
<1>1. s \in Seq(GroupRec) /\ Len(s) \in Nat /\ DOMAIN s = 1..Len(s)
  BY DEF Apart
<1> DEFINE Good == [i \in 0..Len(s) |-> PoolsUpto(base, s, i, desired)]
<1>2. base \in Good[0]
  <2>1. base \in PoolsUpto(base, s, 0, desired)
    BY DEF PoolsUpto, PoolOk
  <2> QED
    BY <1>1, <2>1
<1>3. ASSUME NEW i \in 1..Len(s), NEW w \in Good[i - 1]
      PROVE  (IF w.more THEN AddGroup(w, s[i], desired) ELSE w) \in Good[i]
  <2>1. i \in 0..Len(s) /\ i - 1 \in 0..Len(s)
    BY <1>1
  <2>2. w \in PoolsUpto(base, s, i - 1, desired)
    BY <2>1
  <2>3. /\ w \in PoolsUpto(base, s, i, desired)
        /\ AddGroup(w, s[i], desired) \in PoolsUpto(base, s, i, desired)
    BY <2>2, AddNext
  <2> QED
    BY <2>1, <2>3
<1>4. Good[Len(s)] = PoolsUpto(base, s, Len(s), desired)
  BY <1>1
<1> HIDE DEF Good
<1>7. \A i \in 1..Len(s) : \A w \in Good[i - 1] :
           (IF w.more THEN AddGroup(w, s[i], desired) ELSE w) \in Good[i]
  BY <1>3
<1>5. Fill(base, s, desired) \in Good[Len(s)]
  BY <1>1, <1>2, <1>7, FillFold
<1>6. {s[j] : j \in 1..Len(s)} = Range(s)
  BY <1>1 DEF Range
<1> QED
  BY <1>4, <1>5, <1>6 DEF PoolsUpto

\* CheckNormalMatch's pools, for one faction.
LEMMA NormalView ==
    ASSUME BattlegroundAssumption, NEW s, Apart(s)
    PROVE  /\ PoolOk(NormalPool(s)) /\ NormalPool(s).chosen \subseteq Range(s)
           /\ NormalPool(s).count <= MaxPlayers
<1>1. s \in Seq(GroupRec) /\ Len(s) \in Nat /\ DOMAIN s = 1..Len(s)
  BY DEF Apart
<1>2. MaxPlayers \in Int /\ MaxPlayers \in Nat
  BY DEF BattlegroundAssumption
<1>3. PoolOk(EmptyPool) /\ EmptyPool.chosen = {} /\ EmptyPool.count = 0
  <2>1. UNION {g.players : g \in {}} = {}
    OBVIOUS
  <2>2. EmptyPool \in Pools /\ EmptyPool.chosen = {} /\ EmptyPool.count = 0
    BY DEF EmptyPool, Pools
  <2> QED
    BY <2>1, <2>2, FS_EmptySet DEF PoolOk
<1>4. Clear(EmptyPool, s)
  BY <1>3 DEF Clear
<1> DEFINE Good == [i \in 0..Len(s) |-> PoolsUpto(EmptyPool, s, i, MaxPlayers)]
<1>5. EmptyPool \in Good[0]
  <2>1. EmptyPool \in PoolsUpto(EmptyPool, s, 0, MaxPlayers)
    BY <1>3 DEF PoolsUpto, PoolOk
  <2> QED
    BY <1>1, <2>1
<1>6. ASSUME NEW i \in 1..Len(s), NEW w \in Good[i - 1]
      PROVE  (IF w.count >= MinPlayers THEN w ELSE AddGroup(w, s[i], MaxPlayers)) \in Good[i]
  <2>1. i \in 0..Len(s) /\ i - 1 \in 0..Len(s)
    BY <1>1
  <2>2. w \in PoolsUpto(EmptyPool, s, i - 1, MaxPlayers)
    BY <2>1
  <2>3. /\ w \in PoolsUpto(EmptyPool, s, i, MaxPlayers)
        /\ AddGroup(w, s[i], MaxPlayers) \in PoolsUpto(EmptyPool, s, i, MaxPlayers)
    BY <1>2, <1>3, <1>4, <2>2, AddNext DEF Clear
  <2> QED
    BY <2>1, <2>3
<1>7. Good[Len(s)] = PoolsUpto(EmptyPool, s, Len(s), MaxPlayers)
  BY <1>1
<1> HIDE DEF Good
<1> DEFINE r == NormalPool(s)
<1>8. r \in Good[Len(s)]
  BY <1>1, <1>5, <1>6, NormalFold
<1> HIDE DEF r
<1>9. {s[j] : j \in 1..Len(s)} = Range(s)
  BY <1>1 DEF Range
<1>10. /\ PoolOk(r) /\ r.chosen \subseteq EmptyPool.chosen \cup Range(s)
       /\ r.count <= MaxPlayers \/ r.count = EmptyPool.count
  BY <1>7, <1>8, <1>9 DEF PoolsUpto
<1>11. PoolOk(r) /\ r.chosen \subseteq Range(s) /\ r.count <= MaxPlayers
  BY <1>2, <1>3, <1>10
<1> QED
  BY <1>11 DEF r

\* The groups of a faction.
Of(lists, t) ==
    {g \in GroupRec : \E l \in Lists : l[2] = t /\ \E i \in DOMAIN lists[l] : g = lists[l][i]}

\* Pools of groups of the two factions, with at most caps[t] players.
PoolsFit(pools, lists, caps) ==
    \A t \in Teams : /\ PoolOk(pools[t]) /\ pools[t].chosen \subseteq Of(lists, t)
                     /\ pools[t].count <= caps[t]

\* The groups that are not invited.
LEMMA NotInvitedView ==
    ASSUME NEW s, Apart(s)
    PROVE  Apart(NotInvited(s)) /\ Range(NotInvited(s)) \subseteq Range(s)
<1> DEFINE S == {g \in Range(s) : g.invited = 0}
<1>1. s \in Seq(GroupRec)
  BY DEF Apart
<1>2. PICK k \in Seq(GroupRec) : k = Keeping(s, S)
  BY <1>1, KeepingPicks
<1>3. PICK f : Picks(s, S, Len(s), k, f)
  BY <1>1, <1>2, KeepingPicks
<1>4. DOMAIN k = 1..Len(k) /\ DOMAIN s = 1..Len(s)
  BY <1>1
<1>5. f \in [DOMAIN k -> DOMAIN s] /\ IsInjective(f)
  BY <1>3, <1>4 DEF Picks
<1>6. \A j \in DOMAIN k : k[j] = s[f[j]]
  BY <1>3, <1>4 DEF Picks
<1> HIDE <1>3
<1>7. \A i, j \in DOMAIN k : \A p \in k[i].players : p \in k[j].players => i = j
  BY <1>5, <1>6 DEF Apart, IsInjective
<1>8. Apart(k)
  BY <1>7 DEF Apart
<1>9. Range(k) \subseteq Range(s)
  BY <1>5, <1>6 DEF Range
<1>10. k = NotInvited(s)
  BY <1>2 DEF NotInvited
<1> QED
  BY <1>8, <1>9, <1>10

\* The groups of a list have no player in common, and belong to its faction.
LEMMA ListIsApart ==
    ASSUME NEW lists, ListsInv(lists), NEW l \in Lists
    PROVE  Apart(lists[l]) /\ Range(lists[l]) \subseteq Of(lists, l[2])
<1>1. lists[l] \in Seq(GroupRec)
  BY DEF ListsInv
<1>2. \A i, j \in DOMAIN lists[l] : \A p \in lists[l][i].players : p \in lists[l][j].players => i = j
  BY DEF ListsInv
<1>3. \A i \in DOMAIN lists[l] : lists[l][i] \in GroupRec
  BY <1>1
<1> QED
  BY <1>1, <1>2, <1>3 DEF Apart, Of, Range

\* The empty pool.
LEMMA EmptyPoolOk == PoolOk(EmptyPool) /\ EmptyPool.chosen = {} /\ EmptyPool.count = 0
<1>1. UNION {g.players : g \in {}} = {}
  OBVIOUS
<1>2. EmptyPool \in Pools /\ EmptyPool.chosen = {} /\ EmptyPool.count = 0
  BY DEF EmptyPool, Pools
<1> QED
  BY <1>1, <1>2, FS_EmptySet DEF PoolOk

\* The lists have these names.
LEMMA ListNames ==
    ASSUME NEW t \in Teams
    PROVE  /\ <<"normal", t>> \in Lists /\ <<"normal", t>>[2] = t
           /\ <<"premade", t>> \in Lists /\ <<"premade", t>>[2] = t
           /\ <<"normal", t>> # <<"premade", t>>
BY DEF Lists

\* The pools of a match of normal groups.
LEMMA NormalPoolsFit ==
    ASSUME BattlegroundAssumption, NEW lists, ListsInv(lists)
    PROVE  PoolsFit(NormalPools(lists), lists, [t \in Teams |-> MaxPlayers])
<1> SUFFICES ASSUME NEW t \in Teams
             PROVE  /\ PoolOk(NormalPools(lists)[t])
                    /\ NormalPools(lists)[t].chosen \subseteq Of(lists, t)
                    /\ NormalPools(lists)[t].count <= MaxPlayers
  BY DEF PoolsFit
<1> DEFINE l == <<"normal", t>>
           s == NotInvited(lists[l])
<1>1. l \in Lists /\ l[2] = t
  BY ListNames
<1>2. NormalPools(lists)[t] = NormalPool(s)
  BY DEF NormalPools
<1> HIDE DEF l
<1>3. Apart(lists[l]) /\ Range(lists[l]) \subseteq Of(lists, t)
  BY <1>1, ListIsApart
<1>4. Apart(s) /\ Range(s) \subseteq Range(lists[l])
  BY <1>3, NotInvitedView
<1> HIDE DEF s
<1>5. /\ PoolOk(NormalPool(s)) /\ NormalPool(s).chosen \subseteq Range(s)
      /\ NormalPool(s).count <= MaxPlayers
  BY <1>4, NormalView
<1> QED
  BY <1>2, <1>3, <1>4, <1>5

\* The pools of a match of premades.
LEMMA PremadePoolsFit ==
    ASSUME BattlegroundAssumption, NEW lists, ListsInv(lists), PremadeMatch(lists)
    PROVE  PoolsFit(PremadePools(lists), lists, [t \in Teams |-> MaxPlayers])
<1> DEFINE First(t) == Head(NotInvited(lists[<<"premade", t>>]))
           own == [t \in Teams |-> AddGroup(EmptyPool, First(t), MaxPlayers)]
           size == Lesser(own["alliance"].count, own["horde"].count)
           start(t) == [own[t] EXCEPT !.more = TRUE]
<1>1. MaxPlayers \in Nat /\ MaxPlayers \in Int
  BY DEF BattlegroundAssumption
<1>2. ASSUME NEW t \in Teams
      PROVE  First(t) \in GroupRec /\ First(t) \in Range(lists[<<"premade", t>>])
  <2>1. Apart(lists[<<"premade", t>>])
    BY ListNames, ListIsApart
  <2>2. PICK s : s = NotInvited(lists[<<"premade", t>>])
    OBVIOUS
  <2>3. s \in Seq(GroupRec) /\ Range(s) \subseteq Range(lists[<<"premade", t>>])
    BY <2>1, <2>2, NotInvitedView DEF Apart
  <2>4. s # <<>>
    BY <2>2 DEF PremadeMatch
  <2>5. Head(s) \in GroupRec /\ Head(s) \in Range(s)
    <3>1. Head(s) = s[1] /\ 1 \in DOMAIN s
      BY <2>3, <2>4
    <3> QED
      BY <2>3, <3>1 DEF Range
  <2> QED
    BY <2>2, <2>3, <2>5
<1>3. \A t \in Teams : own[t] = AddGroup(EmptyPool, First(t), MaxPlayers)
  OBVIOUS
<1> HIDE DEF First, own
<1>4. ASSUME NEW t \in Teams
      PROVE  PoolOk(own[t]) /\ own[t].chosen \subseteq {First(t)} /\ own[t].count <= MaxPlayers
  <2>1. \A h \in EmptyPool.chosen : \A p \in h.players : p \notin First(t).players
    BY EmptyPoolOk
  <2>2. /\ PoolOk(own[t]) /\ own[t].chosen \subseteq EmptyPool.chosen \cup {First(t)}
        /\ own[t].count <= MaxPlayers \/ own[t].count = EmptyPool.count
    <3> DEFINE g == First(t)
    <3>1. g \in GroupRec /\ \A h \in EmptyPool.chosen : \A p \in h.players : p \notin g.players
      BY <1>2, <2>1
    <3>2. own[t] = AddGroup(EmptyPool, g, MaxPlayers)
      BY <1>3
    <3> HIDE DEF g
    <3>3. /\ PoolOk(AddGroup(EmptyPool, g, MaxPlayers))
          /\ AddGroup(EmptyPool, g, MaxPlayers).chosen \subseteq EmptyPool.chosen \cup {g}
          /\ \/ AddGroup(EmptyPool, g, MaxPlayers).count <= MaxPlayers
             \/ AddGroup(EmptyPool, g, MaxPlayers).count = EmptyPool.count
      BY <1>1, <3>1, AddGroupView, EmptyPoolOk
    <3> QED
      BY <3>2, <3>3 DEF g
  <2> QED
    BY <1>1, <2>2, EmptyPoolOk
<1>5. size \in Int /\ size <= MaxPlayers
  <2>1. "alliance" \in Teams /\ "horde" \in Teams
    BY DEF Teams
  <2>2. \A t \in Teams : own[t].count \in Nat /\ own[t].count <= MaxPlayers
    BY <1>4 DEF PoolOk, Pools
  <2> QED
    BY <1>1, <2>1, <2>2 DEF Lesser
<1>6. PremadePools(lists) = [t \in Teams |-> Fill(start(t), NotInvited(lists[<<"normal", t>>]), size)]
  BY DEF PremadePools, own, First
<1> HIDE DEF size
<1>7. ASSUME NEW t \in Teams
      PROVE  /\ PoolOk(PremadePools(lists)[t])
             /\ PremadePools(lists)[t].chosen \subseteq Of(lists, t)
             /\ PremadePools(lists)[t].count <= MaxPlayers
  <2> DEFINE l == <<"normal", t>>
             k == <<"premade", t>>
             s == NotInvited(lists[l])
             base == start(t)
  <2>1. l \in Lists /\ l[2] = t /\ k \in Lists /\ k[2] = t /\ l # k
    BY ListNames
  <2>2. PremadePools(lists)[t] = Fill(base, s, size)
    BY <1>6
  <2>3. /\ base \in Pools /\ base.chosen = own[t].chosen /\ base.count = own[t].count
    BY <1>4 DEF PoolOk, Pools
  <2>4. First(t) \in GroupRec /\ First(t) \in Range(lists[k])
    BY <1>2
  <2> HIDE DEF l, k, base
  <2>5. PoolOk(base)
    BY <1>4, <2>3 DEF PoolOk
  <2>6. /\ Apart(lists[l]) /\ Range(lists[l]) \subseteq Of(lists, t)
        /\ Range(lists[k]) \subseteq Of(lists, t)
    BY <2>1, ListIsApart
  <2>7. Apart(s) /\ Range(s) \subseteq Range(lists[l])
    BY <2>6, NotInvitedView
  <2> HIDE DEF s
  <2>8. Clear(base, s)
    <3> SUFFICES ASSUME NEW h \in base.chosen, NEW p \in h.players, NEW i \in DOMAIN s,
                        p \in s[i].players
                 PROVE  FALSE
      BY DEF Clear
    <3>1. h \in Range(lists[k])
      BY <1>4, <2>3, <2>4
    <3>2. s[i] \in Range(lists[l])
      BY <2>7 DEF Range
    <3>3. PICK a \in DOMAIN lists[k] : h = lists[k][a]
      BY <3>1 DEF Range
    <3>4. PICK b \in DOMAIN lists[l] : s[i] = lists[l][b]
      BY <3>2 DEF Range
    <3>5. p \in lists[k][a].players /\ p \in lists[l][b].players
      BY <3>3, <3>4
    <3> QED
      BY <2>1, <3>5 DEF ListsInv
  <2>9. /\ PoolOk(Fill(base, s, size))
        /\ Fill(base, s, size).chosen \subseteq base.chosen \cup Range(s)
        /\ Fill(base, s, size).count <= size \/ Fill(base, s, size).count = base.count
    BY <1>5, <2>5, <2>7, <2>8, FillView
  <2>10. Fill(base, s, size).count <= MaxPlayers
    <3>1. Fill(base, s, size).count \in Nat
      BY <2>9 DEF PoolOk, Pools
    <3> QED
      BY <1>1, <1>4, <1>5, <2>3, <2>9, <3>1
  <2>11. Fill(base, s, size).chosen \subseteq Of(lists, t)
    <3>1. base.chosen \subseteq Range(lists[k])
      BY <1>4, <2>3, <2>4
    <3> QED
      BY <2>6, <2>7, <2>9, <3>1
  <2> QED
    BY <2>2, <2>9, <2>10, <2>11
<1> QED
  BY <1>7 DEF PoolsFit

BgRec == [queue : Queues, status : {"join", "progress", "leave"}, invited : [Teams -> Int],
          players : SUBSET Players, offline : Seq(Players)]

Room(bg, t) == IF bg.invited[t] < MaxPlayers THEN MaxPlayers - bg.invited[t] ELSE 0

\* No more players are wanted than there is room for.
LEMMA FreeSlotsView ==
    ASSUME BattlegroundAssumption, NEW bg \in BgRec, NEW t \in Teams
    PROVE  FreeSlots(bg, t) \in Int /\ FreeSlots(bg, t) <= Room(bg, t) /\ Room(bg, t) \in Nat
<1>1. MaxPlayers \in Int /\ MinPlayers \in Int
  BY DEF BattlegroundAssumption
<1>2. \A u \in Teams : bg.invited[u] \in Int
  BY DEF BgRec
<1> DEFINE other == CHOOSE o \in Teams : o # t
           In(u) == Cardinality({p \in bg.players : Team[p] = u})
           toFill == IF bg.invited[t] <= MinPlayers THEN MinPlayers - bg.invited[t] + 1 ELSE 0
           Gap(theirs, ours, less) ==
               IF theirs = ours THEN 1 ELSE IF theirs > ours THEN theirs - ours ELSE less
           one == Gap(bg.invited[other], bg.invited[t], 0)
           two == Gap(In(other), In(t), toFill)
<1>3. other \in Teams
  <2>1. \E o \in Teams : o # t
    BY DEF Teams
  <2> QED
    BY <2>1
<1>4. \A u \in Teams : In(u) \in Nat
  <2> TAKE u \in Teams
  <2>1. {p \in bg.players : Team[p] = u} \in SUBSET Players
    BY DEF BgRec
  <2>2. IsFiniteSet({p \in bg.players : Team[p] = u})
    BY <2>1, FS_Subset DEF BattlegroundAssumption
  <2> QED
    BY <2>2, FS_CardinalityType
<1>5. toFill \in Int
  BY <1>1, <1>2
<1>6. one \in Int /\ two \in Int
  <2> HIDE DEF In, other, toFill
  <2>1. \A a, b, c \in Int : Gap(a, b, c) \in Int
    OBVIOUS
  <2>2. In(other) \in Int /\ In(t) \in Int /\ bg.invited[other] \in Int /\ bg.invited[t] \in Int
    BY <1>2, <1>3, <1>4
  <2> DEFINE a == bg.invited[other]
             b == bg.invited[t]
             c == In(other)
             d == In(t)
  <2>3. a \in Int /\ b \in Int /\ c \in Int /\ d \in Int /\ 0 \in Int
    BY <2>2
  <2> HIDE DEF a, b, c, d, Gap
  <2>4. Gap(a, b, 0) \in Int /\ Gap(c, d, toFill) \in Int
    BY <1>5, <2>1, <2>3
  <2> QED
    BY <2>4 DEF a, b, c, d
<1>7. Room(bg, t) \in Nat
  BY <1>1, <1>2 DEF Room
<1>8. FreeSlots(bg, t) = IF bg.status = "join" THEN Room(bg, t)
                         ELSE Lesser(Room(bg, t), Lesser(one, two))
  BY DEF FreeSlots, Room
<1> HIDE DEF one, two
<1> QED
  BY <1>6, <1>7, <1>8 DEF Lesser

\* The pools for a battleground with free slots.
LEMMA RunningPoolsFit ==
    ASSUME BattlegroundAssumption, NEW lists, ListsInv(lists), NEW bg \in BgRec
    PROVE  PoolsFit([t \in Teams |-> Fill(EmptyPool, lists[<<"normal", t>>], FreeSlots(bg, t))],
                    lists, [t \in Teams |-> Room(bg, t)])
<1> SUFFICES ASSUME NEW t \in Teams
             PROVE  LET pool == Fill(EmptyPool, lists[<<"normal", t>>], FreeSlots(bg, t))
                    IN /\ PoolOk(pool) /\ pool.chosen \subseteq Of(lists, t)
                       /\ pool.count <= Room(bg, t)
  BY DEF PoolsFit
<1> DEFINE s == lists[<<"normal", t>>]
           n == FreeSlots(bg, t)
           pool == Fill(EmptyPool, s, n)
<1>1. Apart(s) /\ Range(s) \subseteq Of(lists, t)
  BY ListNames, ListIsApart
<1>2. n \in Int /\ n <= Room(bg, t) /\ Room(bg, t) \in Nat
  BY FreeSlotsView
<1> HIDE DEF s, n
<1>3. Clear(EmptyPool, s)
  BY EmptyPoolOk DEF Clear
<1>4. /\ PoolOk(pool) /\ pool.chosen \subseteq EmptyPool.chosen \cup Range(s)
      /\ pool.count <= n \/ pool.count = EmptyPool.count
  BY <1>1, <1>2, <1>3, EmptyPoolOk, FillView
<1>5. pool.count \in Nat
  BY <1>4 DEF PoolOk, Pools
<1> HIDE DEF pool
<1>6. PoolOk(pool) /\ pool.chosen \subseteq Of(lists, t) /\ pool.count <= Room(bg, t)
  BY <1>1, <1>2, <1>4, <1>5, EmptyPoolOk
<1> QED
  BY <1>6 DEF pool, s, n

-----------------------------------------------------------------------------
(* The state, its groups seen through the invitations of each player.        *)

InvitationRec == [bg : Ids \cup {0}, left : 0..AcceptTime]

\* The invitations of p's groups (one group at most; bg is 0 if it is not invited).
Invitations(lists, p) == {[bg |-> g.invited, left |-> g.left] : g \in GroupOf(lists, p)}

InvitationsOf(gs) == [q \in Queues |-> [p \in Players |-> Invitations(gs[q], p)]]

GroupsOk(gs) ==
    gs \in [Queues -> [Lists -> Seq(GroupRec)]] /\ \A q \in Queues : ListsInv(gs[q])

\* A player has one invitation of a queue at most.
InvitedOk(iv) ==
    /\ iv \in [Queues -> [Players -> SUBSET InvitationRec]]
    /\ \A q \in Queues, p \in Players : \A i, j \in iv[q][p] : i = j

BgsOk(bs) == DOMAIN bs \subseteq Ids /\ bs \in [DOMAIN bs -> BgRec]

SlotOk(sl) == sl \in [Players -> [Queues -> Ids \cup {0, NotQueued}]]

PlaceNames == {"world", "transit", "bg", "offline"}

\* Who is in a group is online and knows his invitation, to a battleground of the queue.
Known(iv, bs, sl, pl) ==
    \A q \in Queues, p \in Players : \A i \in iv[q][p] :
        /\ pl[p] # "offline" /\ sl[p][q] = i.bg
        /\ i.bg # 0 => i.bg \in DOMAIN bs /\ bs[i.bg].queue = q

\* Who is counted by b: the invited, those on their way, and those inside.
Counted(iv, bs, pl, bi, b) ==
    {p \in Players : \/ \E i \in iv[bs[b].queue][p] : i.bg = b
                     \/ pl[p] = "transit" /\ bi[p] = b
                     \/ p \in bs[b].players}

Faction(S, t) == {p \in S : Team[p] = t}

CountsOk(iv, bs, pl, bi) ==
    \A b \in DOMAIN bs, t \in Teams :
        /\ bs[b].invited[t] = Cardinality(Faction(Counted(iv, bs, pl, bi, b), t))
        /\ bs[b].invited[t] <= MaxPlayers

\* Who is on his way to a battleground or in it has its slot and is in no group of its
\* queue; who is in it, there or offline, is one of its players.
PlacesOk(iv, bs, sl, pl, bi) ==
    /\ pl \in [Players -> PlaceNames] /\ bi \in [Players -> Ids \cup {0}]
    /\ \A p \in Players :
           /\ pl[p] = "world" => bi[p] = 0
           /\ pl[p] \in {"transit", "bg"} =>
                  /\ bi[p] \in DOMAIN bs /\ sl[p][bs[bi[p]].queue] = bi[p]
                  /\ iv[bs[bi[p]].queue][p] = {}
           /\ pl[p] = "bg" => p \in bs[bi[p]].players
    /\ \A b \in DOMAIN bs : \A p \in bs[b].players : bi[p] = b /\ pl[p] \in {"bg", "offline"}

\* What the players know, where they are and what the battlegrounds count agree.
Agree(iv, bs, sl, pl, bi) ==
    /\ InvitedOk(iv) /\ BgsOk(bs) /\ SlotOk(sl)
    /\ Known(iv, bs, sl, pl) /\ CountsOk(iv, bs, pl, bi) /\ PlacesOk(iv, bs, sl, pl, bi)

\* A battleground's players have its type.
LEMMA BgFields ==
    ASSUME NEW bs, BgsOk(bs), NEW b \in DOMAIN bs
    PROVE  /\ b \in Ids /\ b # 0 /\ bs[b] \in BgRec /\ bs[b].queue \in Queues
           /\ bs[b].players \in SUBSET Players /\ bs[b].offline \in Seq(Players)
           /\ bs[b].invited \in [Teams -> Int] /\ bs[b].status \in {"join", "progress", "leave"}
<1>1. b \in Ids /\ bs[b] \in BgRec
  BY DEF BgsOk
<1>2. b # 0
  BY <1>1 DEF Ids, BattlegroundAssumption
<1> QED
  BY <1>1, <1>2 DEF BgRec

\* One player fewer.
LEMMA CountLess ==
    ASSUME BattlegroundAssumption, NEW S \in SUBSET Players, NEW p \in S, NEW t \in Teams
    PROVE  Cardinality(Faction(S \ {p}, t)) =
               IF Team[p] = t THEN Cardinality(Faction(S, t)) - 1
                              ELSE Cardinality(Faction(S, t))
<1>1. Faction(S, t) \in SUBSET Players
  BY DEF Faction
<1>2. IsFiniteSet(Faction(S, t))
  BY <1>1, FS_Subset DEF BattlegroundAssumption
<1>3. Faction(S \ {p}, t) = Faction(S, t) \ {p}
  BY DEF Faction
<1>4. p \in Faction(S, t) <=> Team[p] = t
  BY DEF Faction
<1> DEFINE F == Faction(S, t)
<1>5. IsFiniteSet(F)
  BY <1>2
<1> HIDE DEF F
<1>6. Cardinality(F \ {p}) = IF p \in F THEN Cardinality(F) - 1 ELSE Cardinality(F)
  BY <1>5, FS_RemoveElement
<1> QED
  BY <1>3, <1>4, <1>6 DEF F

\* More players.
LEMMA CountMore ==
    ASSUME BattlegroundAssumption, NEW S \in SUBSET Players, NEW T \in SUBSET Players,
           S \cap T = {}, NEW t \in Teams
    PROVE  /\ Cardinality(Faction(S \cup T, t)) = Cardinality(Faction(S, t)) + Cardinality(Faction(T, t))
           /\ Cardinality(Faction(S, t)) \in Nat /\ Cardinality(Faction(T, t)) \in Nat
<1>1. Faction(S, t) \in SUBSET Players /\ Faction(T, t) \in SUBSET Players
  BY DEF Faction
<1>2. IsFiniteSet(Faction(S, t)) /\ IsFiniteSet(Faction(T, t))
  BY <1>1, FS_Subset DEF BattlegroundAssumption
<1>3. Faction(S \cup T, t) = Faction(S, t) \cup Faction(T, t) /\ Faction(S, t) \cap Faction(T, t) = {}
  BY DEF Faction
<1>4. Cardinality(Faction(S, t)) \in Nat /\ Cardinality(Faction(T, t)) \in Nat
  BY <1>2, FS_CardinalityType
<1> DEFINE A == Faction(S, t)
           B == Faction(T, t)
<1>5. IsFiniteSet(A) /\ IsFiniteSet(B) /\ A \cap B = {}
  BY <1>2, <1>3
<1>6. Cardinality(A) \in Nat /\ Cardinality(B) \in Nat /\ Faction(S \cup T, t) = A \cup B
  BY <1>3, <1>4
<1> HIDE DEF A, B
<1>7. Cardinality(A \cup B) = Cardinality(A) + Cardinality(B)
  <2>1. Cardinality(A \cap B) = 0
    BY <1>5, FS_EmptySet
  <2>2. Cardinality(A \cup B) = Cardinality(A) + Cardinality(B) - Cardinality(A \cap B)
    BY <1>5, FS_Union
  <2> QED
    BY <1>6, <2>1, <2>2
<1>8. Cardinality(Faction(S \cup T, t)) = Cardinality(A) + Cardinality(B)
  BY <1>6, <1>7
<1> QED
  BY <1>4, <1>8 DEF A, B

\* Nobody.
LEMMA CountNone ==
    ASSUME BattlegroundAssumption, NEW S \in SUBSET Players,
           \A t \in Teams : Cardinality(Faction(S, t)) = 0
    PROVE  S = {}
<1> SUFFICES ASSUME NEW p \in S PROVE FALSE
  OBVIOUS
<1>1. Team[p] \in Teams
  BY DEF BattlegroundAssumption
<1> DEFINE F == Faction(S, Team[p])
<1>2. F \in SUBSET Players /\ p \in F
  BY DEF Faction
<1>3. Cardinality(F) = 0
  BY <1>1
<1> HIDE DEF F
<1>4. IsFiniteSet(F)
  BY <1>2, FS_Subset DEF BattlegroundAssumption
<1> QED
  BY <1>2, <1>3, <1>4, FS_EmptySet

\* Counted are players.
LEMMA CountedIsSet ==
    ASSUME NEW iv, NEW bs, NEW pl, NEW bi, NEW b
    PROVE  Counted(iv, bs, pl, bi, b) \in SUBSET Players
BY DEF Counted

-----------------------------------------------------------------------------
(* The invitations of the lists.                                             *)
\* One each, of its type.
LEMMA InvitationsTyped ==
    ASSUME NEW lists, ListsInv(lists), NEW p
    PROVE  /\ Invitations(lists, p) \in SUBSET InvitationRec
           /\ \A i, j \in Invitations(lists, p) : i = j
<1>1. ASSUME NEW g \in GroupOf(lists, p) PROVE [bg |-> g.invited, left |-> g.left] \in InvitationRec
  <2>1. g \in GroupRec
    BY OneGroup
  <2> QED
    BY <2>1 DEF GroupRec, InvitationRec
<1>2. \A g, h \in GroupOf(lists, p) : g = h
  BY OneGroup
<1> QED
  BY <1>1, <1>2 DEF Invitations

\* Of every queue.
LEMMA InvitedTyped ==
    ASSUME NEW gs, GroupsOk(gs)
    PROVE  InvitedOk(InvitationsOf(gs))
<1>1. ASSUME NEW q \in Queues, NEW p \in Players
      PROVE  /\ Invitations(gs[q], p) \in SUBSET InvitationRec
             /\ \A i, j \in Invitations(gs[q], p) : i = j
  BY InvitationsTyped DEF GroupsOk
<1> HIDE DEF InvitationRec
<1>2. InvitationsOf(gs) \in [Queues -> [Players -> SUBSET InvitationRec]]
  BY <1>1 DEF InvitationsOf
<1>3. \A q \in Queues, p \in Players : InvitationsOf(gs)[q][p] = Invitations(gs[q], p)
  BY DEF InvitationsOf
<1> QED
  BY <1>1, <1>2, <1>3, ZenonT(60) DEF InvitedOk

\* A player leaves a queue.
LEMMA WithoutInvitations ==
    ASSUME NEW lists, ListsInv(lists), NEW p
    PROVE  \A r : Invitations(Without(lists, p), r) = IF r = p THEN {} ELSE Invitations(lists, r)
<1> TAKE r
<1>1. CASE r = p
  BY <1>1, WithoutView DEF Invitations
<1>2. CASE r # p
  <2> DEFINE Less(g) == [g EXCEPT !.players = @ \ {p}]
  <2>1. GroupOf(Without(lists, p), r) = {Less(g) : g \in GroupOf(lists, r)}
    BY <1>2, WithoutView
  <2>2. ASSUME NEW g \in GroupOf(lists, r) PROVE Less(g).invited = g.invited /\ Less(g).left = g.left
    <3>1. g \in GroupRec
      BY OneGroup
    <3> QED
      BY <3>1 DEF GroupRec
  <2> HIDE DEF Less
  <2>3. Invitations(Without(lists, p), r) = {[bg |-> Less(g).invited, left |-> Less(g).left] : g \in GroupOf(lists, r)}
    BY <2>1 DEF Invitations
  <2> QED
    BY <1>2, <2>2, <2>3 DEF Invitations
<1> QED
  BY <1>1, <1>2

\* A queue whose lists are others.
LEMMA PutGroups ==
    ASSUME NEW gs, GroupsOk(gs), NEW q \in Queues, NEW lists, ListsInv(lists)
    PROVE  /\ GroupsOk([gs EXCEPT ![q] = lists]) /\ [gs EXCEPT ![q] = lists][q] = lists
           /\ Put(gs, q, lists) = [gs EXCEPT ![q] = lists]
           /\ InvitationsOf([gs EXCEPT ![q] = lists]) =
                  [InvitationsOf(gs) EXCEPT ![q] = [p \in Players |-> Invitations(lists, p)]]
<1> DEFINE new == [gs EXCEPT ![q] = lists]
<1>1. lists \in [Lists -> Seq(GroupRec)] /\ gs \in [Queues -> [Lists -> Seq(GroupRec)]]
  BY DEF ListsInv, GroupsOk
<1>2. /\ new \in [Queues -> [Lists -> Seq(GroupRec)]] /\ new[q] = lists
      /\ \A r \in Queues : new[r] = IF r = q THEN lists ELSE gs[r]
  <2> HIDE DEF Lists, GroupRec
  <2> QED
    BY <1>1
<1>3. GroupsOk(new)
  BY <1>2 DEF GroupsOk
<1>4. Put(gs, q, lists) = new
  <2>1. DOMAIN gs \cup {q} = Queues
    BY <1>1
  <2>2. new = [r \in Queues |-> IF r = q THEN lists ELSE gs[r]]
    BY <1>1
  <2> QED
    BY <2>1, <2>2 DEF Put
<1>5. InvitationsOf(new) = [InvitationsOf(gs) EXCEPT ![q] = [p \in Players |-> Invitations(lists, p)]]
  <2>1. InvitationsOf(new) = [r \in Queues |-> IF r = q THEN [p \in Players |-> Invitations(lists, p)]
                                               ELSE InvitationsOf(gs)[r]]
    BY <1>2 DEF InvitationsOf
  <2>2. DOMAIN InvitationsOf(gs) = Queues
    BY DEF InvitationsOf
  <2> QED
    BY <2>1, <2>2
<1> QED
  BY <1>2, <1>3, <1>4, <1>5

\* All groups are changed in the same way, but not their players.
LEMMA MappedInvitations ==
    ASSUME NEW lists, ListsInv(lists), NEW M \in [GroupRec -> GroupRec],
           \A g \in GroupRec : M[g].players = g.players, NEW p
    PROVE  Invitations(Mapped(lists, M), p) =
               {[bg |-> M[g].invited, left |-> M[g].left] : g \in GroupOf(lists, p)}
<1>1. GroupOf(Mapped(lists, M), p) = {M[g] : g \in GroupOf(lists, p)}
  BY ListsMapped
<1> QED
  BY <1>1 DEF Invitations

-----------------------------------------------------------------------------
(* What one step does to this agreement.                                     *)

\* Uninvited, by the battlegrounds the player is invited to.
Fewer(bs, p, S) ==
    [b \in DOMAIN bs |-> IF b \in S THEN [bs[b] EXCEPT !.invited[Team[p]] = @ - 1] ELSE bs[b]]

\* Those battlegrounds count one less of his faction, and are as before otherwise.
LEMMA FewerView ==
    ASSUME BattlegroundAssumption, NEW bs, BgsOk(bs), NEW p \in Players, NEW S
    PROVE  /\ BgsOk(Fewer(bs, p, S)) /\ DOMAIN Fewer(bs, p, S) = DOMAIN bs
           /\ \A b \in DOMAIN bs :
                  /\ Fewer(bs, p, S)[b].queue = bs[b].queue
                  /\ Fewer(bs, p, S)[b].status = bs[b].status
                  /\ Fewer(bs, p, S)[b].players = bs[b].players
                  /\ Fewer(bs, p, S)[b].offline = bs[b].offline
                  /\ \A t \in Teams : Fewer(bs, p, S)[b].invited[t] =
                         IF b \in S /\ t = Team[p] THEN bs[b].invited[t] - 1 ELSE bs[b].invited[t]
<1> DEFINE new == Fewer(bs, p, S)
<1>1. Team[p] \in Teams
  BY DEF BattlegroundAssumption
<1>2. DOMAIN new = DOMAIN bs /\ DOMAIN bs \subseteq Ids
  BY DEF Fewer, BgsOk
<1>3. ASSUME NEW b \in DOMAIN bs
      PROVE  /\ new[b] \in BgRec
             /\ new[b].queue = bs[b].queue /\ new[b].status = bs[b].status
             /\ new[b].players = bs[b].players /\ new[b].offline = bs[b].offline
             /\ \A t \in Teams : new[b].invited[t] =
                    IF b \in S /\ t = Team[p] THEN bs[b].invited[t] - 1 ELSE bs[b].invited[t]
  <2>1. bs[b] \in BgRec
    BY BgFields
  <2>2. new[b] = IF b \in S THEN [bs[b] EXCEPT !.invited[Team[p]] = @ - 1] ELSE bs[b]
    BY DEF Fewer
  <2> HIDE DEF new
  <2>3. CASE b \notin S
    BY <2>1, <2>2, <2>3
  <2>4. CASE b \in S
    <3> DEFINE inv == [bs[b].invited EXCEPT ![Team[p]] = @ - 1]
    <3>1. inv \in [Teams -> Int] /\ \A t \in Teams : inv[t] = IF t = Team[p] THEN bs[b].invited[t] - 1 ELSE bs[b].invited[t]
      BY <1>1, <2>1 DEF BgRec
    <3>2. new[b] = [bs[b] EXCEPT !.invited = inv]
      BY <2>2, <2>4
    <3> HIDE DEF inv
    <3> QED
      BY <2>1, <2>4, <3>1, <3>2 DEF BgRec
  <2> QED
    BY <2>3, <2>4
<1>4. new \in [DOMAIN new -> BgRec]
  <2>1. new = [b \in DOMAIN new |-> new[b]]
    BY DEF Fewer
  <2> HIDE DEF new
  <2> QED
    BY <1>2, <1>3, <2>1
<1> QED
  BY <1>2, <1>3, <1>4 DEF BgsOk

\* RemovePlayer: who leaves a queue is counted no more.
LEMMA LeavesAgree ==
    ASSUME BattlegroundAssumption, NEW iv, NEW bs, NEW sl, NEW pl, NEW bi,
           Agree(iv, bs, sl, pl, bi), NEW q \in Queues, NEW p \in Players,
           NEW iv2, InvitedOk(iv2),
           \A r \in Queues, u \in Players : iv2[r][u] = IF r = q /\ u = p THEN {} ELSE iv[r][u]
    PROVE  Agree(iv2, Fewer(bs, p, {i.bg : i \in iv[q][p]}), sl, pl, bi)
<1> DEFINE S == {i.bg : i \in iv[q][p]}
           bs2 == Fewer(bs, p, S)
           C(b) == Counted(iv, bs, pl, bi, b)
           C2(b) == Counted(iv2, bs2, pl, bi, b)
<1>1. /\ BgsOk(bs) /\ Known(iv, bs, sl, pl) /\ CountsOk(iv, bs, pl, bi)
      /\ PlacesOk(iv, bs, sl, pl, bi) /\ SlotOk(sl) /\ InvitedOk(iv)
  BY DEF Agree
<1>2. /\ BgsOk(bs2) /\ DOMAIN bs2 = DOMAIN bs
      /\ \A b \in DOMAIN bs :
             /\ bs2[b].queue = bs[b].queue /\ bs2[b].players = bs[b].players
             /\ \A t \in Teams : bs2[b].invited[t] =
                    IF b \in S /\ t = Team[p] THEN bs[b].invited[t] - 1 ELSE bs[b].invited[t]
  BY <1>1, FewerView
<1>3. \A b \in DOMAIN bs : b # 0 /\ bs[b].queue \in Queues
  BY <1>1, BgFields
<1> HIDE DEF bs2
<1>4. Known(iv2, bs2, sl, pl)
  BY <1>1, <1>2 DEF Known
<1>5. PlacesOk(iv2, bs2, sl, pl, bi)
  BY <1>1, <1>2, <1>3 DEF PlacesOk
<1>6. ASSUME NEW b \in DOMAIN bs, b \in S PROVE p \in C(b) /\ C2(b) = C(b) \ {p}
  <2>1. PICK i \in iv[q][p] : i.bg = b
    BY <1>6
  <2>2. bs[b].queue = q
    BY <1>1, <1>3, <2>1 DEF Known
  <2>3. ~ (pl[p] = "transit" /\ bi[p] = b) /\ p \notin bs[b].players
    <3>1. pl[p] # "offline"
      BY <1>1, <2>1 DEF Known
    <3>2. pl[p] \in {"transit", "bg"} /\ bi[p] = b => iv[q][p] = {}
      BY <1>1, <2>2 DEF PlacesOk
    <3>3. p \in bs[b].players => bi[p] = b /\ pl[p] = "bg"
      BY <1>1, <3>1 DEF PlacesOk
    <3> QED
      BY <2>1, <3>2, <3>3
  <2>4. p \in C(b)
    BY <2>1, <2>2 DEF Counted
  <2>5. p \notin C2(b)
    BY <1>2, <2>2, <2>3 DEF Counted
  <2>6. \A u \in Players : u # p => (u \in C2(b) <=> u \in C(b))
    BY <1>2, <2>2 DEF Counted
  <2>7. C(b) \in SUBSET Players /\ C2(b) \in SUBSET Players
    BY CountedIsSet
  <2> HIDE DEF C, C2
  <2> QED
    BY <2>4, <2>5, <2>6, <2>7
<1>7. ASSUME NEW b \in DOMAIN bs, b \notin S PROVE C2(b) = C(b)
  <2>1. \A u \in Players : (\E i \in iv2[bs[b].queue][u] : i.bg = b) <=> (\E i \in iv[bs[b].queue][u] : i.bg = b)
    BY <1>3, <1>7
  <2> QED
    BY <1>2, <2>1 DEF Counted
<1>8. ASSUME NEW b \in DOMAIN bs, NEW t \in Teams
      PROVE  /\ bs2[b].invited[t] = Cardinality(Faction(C2(b), t))
             /\ bs2[b].invited[t] <= MaxPlayers
  <2>1. bs[b].invited[t] = Cardinality(Faction(C(b), t)) /\ bs[b].invited[t] <= MaxPlayers
    BY <1>1 DEF CountsOk
  <2>2. bs[b].invited[t] \in Int /\ MaxPlayers \in Int
    BY <1>1, BgFields DEF BattlegroundAssumption
  <2>3. C(b) \in SUBSET Players
    BY CountedIsSet
  <2> HIDE DEF C, C2, S
  <2>4. CASE b \in S
    <3>1. Cardinality(Faction(C2(b), t)) = IF Team[p] = t THEN Cardinality(Faction(C(b), t)) - 1
                                                          ELSE Cardinality(Faction(C(b), t))
      BY <1>6, <2>3, <2>4, CountLess
    <3> QED
      BY <1>2, <2>1, <2>2, <2>4, <3>1
  <2>5. CASE b \notin S
    BY <1>2, <1>7, <2>1, <2>5
  <2> QED
    BY <2>4, <2>5
<1>9. CountsOk(iv2, bs2, pl, bi)
  BY <1>2, <1>8 DEF CountsOk
<1> QED
  BY <1>1, <1>2, <1>4, <1>5, <1>9 DEF Agree, bs2

\* The slots of who is in no group of a queue and not in one of its battlegrounds may change.
LEMMA SlotAgrees ==
    ASSUME NEW iv, NEW bs, NEW sl, NEW pl, NEW bi, Agree(iv, bs, sl, pl, bi),
           NEW sl2, SlotOk(sl2),
           \A p \in Players, q \in Queues : sl2[p][q] # sl[p][q] =>
               /\ iv[q][p] = {}
               /\ ~ (pl[p] \in {"transit", "bg"} /\ bs[bi[p]].queue = q)
    PROVE  Agree(iv, bs, sl2, pl, bi)
<1>1. /\ BgsOk(bs) /\ Known(iv, bs, sl, pl) /\ PlacesOk(iv, bs, sl, pl, bi)
  BY DEF Agree
<1>2. Known(iv, bs, sl2, pl)
  BY <1>1 DEF Known
<1>3. \A b \in DOMAIN bs : bs[b].queue \in Queues
  BY <1>1, BgFields
<1>4. PlacesOk(iv, bs, sl2, pl, bi)
  BY <1>1, <1>3, ZenonT(60) DEF PlacesOk
<1> QED
  BY <1>2, <1>4 DEF Agree

\* A battleground's status, and its list of players that are offline, may change.
SameCounts(bs, bs2) ==
    /\ DOMAIN bs2 = DOMAIN bs
    /\ \A b \in DOMAIN bs : /\ bs2[b].queue = bs[b].queue /\ bs2[b].players = bs[b].players
                            /\ bs2[b].invited = bs[b].invited

\* Nothing changes for battlegrounds with the same players and counts.
LEMMA SameAgrees ==
    ASSUME NEW iv, NEW bs, NEW sl, NEW pl, NEW bi, Agree(iv, bs, sl, pl, bi),
           NEW bs2, BgsOk(bs2), SameCounts(bs, bs2)
    PROVE  Agree(iv, bs2, sl, pl, bi)
<1>1. /\ BgsOk(bs) /\ Known(iv, bs, sl, pl) /\ PlacesOk(iv, bs, sl, pl, bi)
      /\ CountsOk(iv, bs, pl, bi)
  BY DEF Agree
<1>2. Known(iv, bs2, sl, pl)
  BY <1>1 DEF Known, SameCounts
<1>3. PlacesOk(iv, bs2, sl, pl, bi)
  BY <1>1 DEF PlacesOk, SameCounts
<1>4. \A b \in DOMAIN bs : Counted(iv, bs2, pl, bi, b) = Counted(iv, bs, pl, bi, b)
  BY DEF Counted, SameCounts
<1>5. CountsOk(iv, bs2, pl, bi)
  BY <1>1, <1>4 DEF CountsOk, SameCounts
<1> QED
  BY <1>2, <1>3, <1>5 DEF Agree

\* A player who is offline, and in no battleground, is in the world again.
LEMMA ReturnAgrees ==
    ASSUME NEW iv, NEW bs, NEW sl, NEW pl, NEW bi, Agree(iv, bs, sl, pl, bi),
           NEW p \in Players, pl[p] = "offline", \A b \in DOMAIN bs : p \notin bs[b].players
    PROVE  Agree(iv, bs, sl, [pl EXCEPT ![p] = "world"], [bi EXCEPT ![p] = 0])
<1> DEFINE pl2 == [pl EXCEPT ![p] = "world"]
           bi2 == [bi EXCEPT ![p] = 0]
<1>1. /\ BgsOk(bs) /\ Known(iv, bs, sl, pl) /\ PlacesOk(iv, bs, sl, pl, bi)
      /\ CountsOk(iv, bs, pl, bi)
  BY DEF Agree
<1>2. /\ pl2 \in [Players -> PlaceNames] /\ bi2 \in [Players -> Ids \cup {0}]
      /\ pl2[p] = "world" /\ bi2[p] = 0
      /\ \A u \in Players : u # p => pl2[u] = pl[u] /\ bi2[u] = bi[u]
  BY <1>1 DEF PlacesOk, PlaceNames
<1>3. \A q \in Queues : iv[q][p] = {}
  BY <1>1 DEF Known
<1> HIDE DEF pl2, bi2
<1>4. Known(iv, bs, sl, pl2)
  BY <1>1, <1>2, <1>3 DEF Known
<1>5. PlacesOk(iv, bs, sl, pl2, bi2)
  <2>1. ASSUME NEW u \in Players
        PROVE  /\ pl2[u] = "world" => bi2[u] = 0
               /\ pl2[u] \in {"transit", "bg"} =>
                      /\ bi2[u] \in DOMAIN bs /\ sl[u][bs[bi2[u]].queue] = bi2[u]
                      /\ iv[bs[bi2[u]].queue][u] = {}
               /\ pl2[u] = "bg" => u \in bs[bi2[u]].players
    <3>1. CASE u = p
      BY <1>2, <3>1
    <3>2. CASE u # p
      BY <1>1, <1>2, <3>2 DEF PlacesOk
    <3> QED
      BY <3>1, <3>2
  <2>2. ASSUME NEW b \in DOMAIN bs, NEW u \in bs[b].players
        PROVE  bi2[u] = b /\ pl2[u] \in {"bg", "offline"}
    <3>1. u \in Players
      BY <1>1, BgFields
    <3>2. bi[u] = b /\ pl[u] \in {"bg", "offline"}
      BY <1>1 DEF PlacesOk
    <3> QED
      BY <1>2, <3>1, <3>2
  <2>3. bi \in [Players -> Ids \cup {0}]
    BY <1>1 DEF PlacesOk
  <2> QED
    BY <1>2, <2>1, <2>2, <2>3 DEF PlacesOk
<1>6. \A b \in DOMAIN bs : Counted(iv, bs, pl2, bi2, b) = Counted(iv, bs, pl, bi, b)
  BY <1>2 DEF Counted
<1>7. CountsOk(iv, bs, pl2, bi2)
  BY <1>1, <1>6 DEF CountsOk
<1> QED
  BY <1>4, <1>5, <1>7 DEF Agree, pl2, bi2

\* A player who is in no queue goes offline, from the world or from a battleground.
LEMMA OfflineAgrees ==
    ASSUME NEW iv, NEW bs, NEW sl, NEW pl, NEW bi, Agree(iv, bs, sl, pl, bi),
           NEW p \in Players, pl[p] \in {"world", "bg"}, \A q \in Queues : iv[q][p] = {}
    PROVE  Agree(iv, bs, sl, [pl EXCEPT ![p] = "offline"], bi)
<1> DEFINE pl2 == [pl EXCEPT ![p] = "offline"]
<1>1. /\ BgsOk(bs) /\ Known(iv, bs, sl, pl) /\ PlacesOk(iv, bs, sl, pl, bi)
      /\ CountsOk(iv, bs, pl, bi)
  BY DEF Agree
<1>2. /\ pl2 \in [Players -> PlaceNames] /\ pl2[p] = "offline"
      /\ \A u \in Players : u # p => pl2[u] = pl[u]
  BY <1>1 DEF PlacesOk, PlaceNames
<1> HIDE DEF pl2
<1>4. Known(iv, bs, sl, pl2)
  BY <1>1, <1>2 DEF Known
<1>5. PlacesOk(iv, bs, sl, pl2, bi)
  <2>1. ASSUME NEW u \in Players
        PROVE  /\ pl2[u] = "world" => bi[u] = 0
               /\ pl2[u] \in {"transit", "bg"} =>
                      /\ bi[u] \in DOMAIN bs /\ sl[u][bs[bi[u]].queue] = bi[u]
                      /\ iv[bs[bi[u]].queue][u] = {}
               /\ pl2[u] = "bg" => u \in bs[bi[u]].players
    <3>1. CASE u = p
      BY <1>2, <3>1
    <3>2. CASE u # p
      BY <1>1, <1>2, <3>2 DEF PlacesOk
    <3> QED
      BY <3>1, <3>2
  <2>2. ASSUME NEW b \in DOMAIN bs, NEW u \in bs[b].players
        PROVE  bi[u] = b /\ pl2[u] \in {"bg", "offline"}
    <3>1. u \in Players
      BY <1>1, BgFields
    <3>2. bi[u] = b /\ pl[u] \in {"bg", "offline"}
      BY <1>1 DEF PlacesOk
    <3> QED
      BY <1>2, <3>1, <3>2
  <2>3. bi \in [Players -> Ids \cup {0}]
    BY <1>1 DEF PlacesOk
  <2> QED
    BY <1>2, <2>1, <2>2, <2>3 DEF PlacesOk
<1>6. \A b \in DOMAIN bs : Counted(iv, bs, pl2, bi, b) = Counted(iv, bs, pl, bi, b)
  BY <1>2 DEF Counted
<1>7. CountsOk(iv, bs, pl2, bi)
  BY <1>1, <1>6 DEF CountsOk
<1> QED
  BY <1>4, <1>5, <1>7 DEF Agree, pl2

\* bs2 is bs without p among the players of b, which counts one less.
Departed(bs, bs2, b, p) ==
    /\ BgsOk(bs2) /\ DOMAIN bs2 = DOMAIN bs
    /\ \A c \in DOMAIN bs : c # b => bs2[c] = bs[c]
    /\ bs2[b].queue = bs[b].queue /\ bs2[b].players = bs[b].players \ {p}
    /\ \A t \in Teams : bs2[b].invited[t] =
           IF t = Team[p] THEN bs[b].invited[t] - 1 ELSE bs[b].invited[t]

\* RemovePlayerAtLeave: a player in the battleground is in the world again, one who is
\* offline is not found there and keeps his fields.
LEMMA DepartsAgree ==
    ASSUME BattlegroundAssumption, NEW iv, NEW bs, NEW sl, NEW pl, NEW bi,
           Agree(iv, bs, sl, pl, bi), NEW b \in DOMAIN bs, NEW p \in bs[b].players,
           NEW bs2, Departed(bs, bs2, b, p), NEW sl2, SlotOk(sl2),
           NEW pl2 \in [Players -> PlaceNames], NEW bi2 \in [Players -> Ids \cup {0}],
           \A u \in Players : u # p => sl2[u] = sl[u] /\ pl2[u] = pl[u] /\ bi2[u] = bi[u],
           \A r \in Queues : r # bs[b].queue => sl2[p][r] = sl[p][r],
           pl[p] = "bg" => pl2[p] = "world" /\ bi2[p] = 0,
           pl[p] # "bg" => pl2[p] = pl[p] /\ bi2[p] = bi[p] /\ sl2[p] = sl[p]
    PROVE  Agree(iv, bs2, sl2, pl2, bi2)
<1> DEFINE C(c) == Counted(iv, bs, pl, bi, c)
           C2(c) == Counted(iv, bs2, pl2, bi2, c)
<1>1. /\ BgsOk(bs) /\ Known(iv, bs, sl, pl) /\ CountsOk(iv, bs, pl, bi)
      /\ PlacesOk(iv, bs, sl, pl, bi) /\ InvitedOk(iv)
  BY DEF Agree
<1>2. /\ BgsOk(bs2) /\ DOMAIN bs2 = DOMAIN bs
      /\ \A c \in DOMAIN bs : /\ c # b => bs2[c] = bs[c]
                              /\ bs2[c].queue = bs[c].queue /\ bs[c].queue \in Queues
      /\ bs2[b].players = bs[b].players \ {p}
  BY <1>1, BgFields DEF Departed
<1>3. p \in Players /\ bi[p] = b /\ pl[p] \in {"bg", "offline"}
  <2>1. p \in Players
    BY <1>1, BgFields
  <2> QED
    BY <1>1, <2>1 DEF PlacesOk
<1>4. iv[bs[b].queue][p] = {}
  <2>1. CASE pl[p] = "bg"
    BY <1>1, <1>3, <2>1 DEF PlacesOk
  <2>2. CASE pl[p] = "offline"
    BY <1>1, <1>2, <1>3, <2>2 DEF Known
  <2> QED
    BY <1>3, <2>1, <2>2
<1>5. \A c \in DOMAIN bs : c # b => p \notin bs[c].players
  BY <1>1, <1>3 DEF PlacesOk
<1>6. Known(iv, bs2, sl2, pl2)
  <2> SUFFICES ASSUME NEW r \in Queues, NEW u \in Players, NEW i \in iv[r][u]
               PROVE  /\ pl2[u] # "offline" /\ sl2[u][r] = i.bg
                      /\ i.bg # 0 => i.bg \in DOMAIN bs2 /\ bs2[i.bg].queue = r
    BY DEF Known
  <2>1. /\ pl[u] # "offline" /\ sl[u][r] = i.bg
        /\ i.bg # 0 => i.bg \in DOMAIN bs /\ bs[i.bg].queue = r
    BY <1>1 DEF Known
  <2>2. CASE u # p
    BY <1>2, <2>1, <2>2
  <2>3. CASE u = p
    BY <1>2, <1>3, <1>4, <2>1, <2>3
  <2> QED
    BY <2>2, <2>3
<1>7. PlacesOk(iv, bs2, sl2, pl2, bi2)
  <2>1. ASSUME NEW u \in Players
        PROVE  /\ pl2[u] = "world" => bi2[u] = 0
               /\ pl2[u] \in {"transit", "bg"} =>
                      /\ bi2[u] \in DOMAIN bs2 /\ sl2[u][bs2[bi2[u]].queue] = bi2[u]
                      /\ iv[bs2[bi2[u]].queue][u] = {}
               /\ pl2[u] = "bg" => u \in bs2[bi2[u]].players
    <3>1. CASE u = p
      BY <1>3, <3>1
    <3>2. CASE u # p
      <4>1. pl2[u] = pl[u] /\ bi2[u] = bi[u] /\ sl2[u] = sl[u]
        BY <3>2
      <4>2. /\ pl[u] = "world" => bi[u] = 0
            /\ pl[u] \in {"transit", "bg"} =>
                      /\ bi[u] \in DOMAIN bs /\ sl[u][bs[bi[u]].queue] = bi[u]
                      /\ iv[bs[bi[u]].queue][u] = {}
            /\ pl[u] = "bg" => u \in bs[bi[u]].players
        BY <1>1 DEF PlacesOk
      <4>3. \A c \in DOMAIN bs : /\ bs2[c].queue = bs[c].queue
                                 /\ u \in bs[c].players => u \in bs2[c].players
        BY <1>2, <3>2
      <4>4. /\ pl2[u] = "world" => bi[u] = 0
            /\ pl2[u] \in {"transit", "bg"} =>
                      /\ bi[u] \in DOMAIN bs2 /\ sl2[u][bs2[bi[u]].queue] = bi[u]
                      /\ iv[bs2[bi[u]].queue][u] = {}
            /\ pl2[u] = "bg" => u \in bs2[bi[u]].players
        BY <1>2, <4>1, <4>2, <4>3
      <4> QED
        BY <4>1, <4>4
    <3> QED
      BY <3>1, <3>2
  <2>2. ASSUME NEW c \in DOMAIN bs2, NEW u \in bs2[c].players
        PROVE  bi2[u] = c /\ pl2[u] \in {"bg", "offline"}
    <3>1. u \in bs[c].players /\ u # p
      BY <1>2, <1>5
    <3>2. u \in Players
      BY <1>2, BgFields
    <3>3. bi[u] = c /\ pl[u] \in {"bg", "offline"}
      BY <1>1, <1>2, <3>1 DEF PlacesOk
    <3> QED
      BY <3>1, <3>2, <3>3
  <2> QED
    BY <2>1, <2>2 DEF PlacesOk
<1>8. p \in C(b) /\ C2(b) = C(b) \ {p}
  <2>1. p \in C(b)
    BY <1>3 DEF Counted
  <2>2. p \notin C2(b)
    BY <1>2, <1>3, <1>4 DEF Counted
  <2>3. \A u \in Players : u # p => (u \in C2(b) <=> u \in C(b))
    BY <1>2 DEF Counted
  <2>4. C(b) \in SUBSET Players /\ C2(b) \in SUBSET Players
    BY CountedIsSet
  <2> HIDE DEF C, C2
  <2> QED
    BY <2>1, <2>2, <2>3, <2>4
<1>9. ASSUME NEW c \in DOMAIN bs, c # b PROVE C2(c) = C(c)
  <2>1. bs2[c] = bs[c] /\ p \notin bs[c].players /\ c # 0
    BY <1>1, <1>2, <1>5, <1>9, BgFields
  <2>2. p \in C2(c) <=> p \in C(c)
    BY <1>3, <1>9, <2>1 DEF Counted
  <2>3. \A u \in Players : u # p => (u \in C2(c) <=> u \in C(c))
    BY <2>1 DEF Counted
  <2>4. C(c) \in SUBSET Players /\ C2(c) \in SUBSET Players
    BY CountedIsSet
  <2> HIDE DEF C, C2
  <2>5. \A u \in Players : u \in C2(c) <=> u \in C(c)
    BY <2>2, <2>3
  <2> QED
    BY <2>4, <2>5
<1>10. ASSUME NEW c \in DOMAIN bs, NEW t \in Teams
       PROVE  /\ bs2[c].invited[t] = Cardinality(Faction(C2(c), t))
              /\ bs2[c].invited[t] <= MaxPlayers
  <2>1. bs[c].invited[t] = Cardinality(Faction(C(c), t)) /\ bs[c].invited[t] <= MaxPlayers
    BY <1>1 DEF CountsOk
  <2>2. bs[c].invited[t] \in Int /\ MaxPlayers \in Int
    BY <1>1, BgFields DEF BattlegroundAssumption
  <2>3. C(c) \in SUBSET Players
    BY CountedIsSet
  <2> HIDE DEF C, C2
  <2>4. CASE c = b
    <3>1. Cardinality(Faction(C2(c), t)) = IF Team[p] = t THEN Cardinality(Faction(C(c), t)) - 1
                                                          ELSE Cardinality(Faction(C(c), t))
      BY <1>8, <2>3, <2>4, CountLess
    <3>2. bs2[c].invited[t] = IF t = Team[p] THEN bs[c].invited[t] - 1 ELSE bs[c].invited[t]
      BY <2>4 DEF Departed
    <3> QED
      BY <2>1, <2>2, <3>1, <3>2
  <2>5. CASE c # b
    BY <1>2, <1>9, <2>1, <2>5
  <2> QED
    BY <2>4, <2>5
<1>11. CountsOk(iv, bs2, pl2, bi2)
  BY <1>2, <1>10 DEF CountsOk
<1> QED
  BY <1>1, <1>2, <1>6, <1>7, <1>11 DEF Agree

\* HandleBattleFieldPortOpcode: from the queue to the way to the battleground.
LEMMA EnterAgrees ==
    ASSUME BattlegroundAssumption, NEW iv, NEW bs, NEW sl, NEW pl, NEW bi,
           Agree(iv, bs, sl, pl, bi), NEW q \in Queues, NEW p \in Players, pl[p] = "world",
           NEW i \in iv[q][p], i.bg # 0, NEW iv2, InvitedOk(iv2),
           \A r \in Queues, u \in Players : iv2[r][u] = IF r = q /\ u = p THEN {} ELSE iv[r][u]
    PROVE  Agree(iv2, bs, sl, [pl EXCEPT ![p] = "transit"], [bi EXCEPT ![p] = i.bg])
<1> DEFINE b == i.bg
           pl2 == [pl EXCEPT ![p] = "transit"]
           bi2 == [bi EXCEPT ![p] = b]
           C(c) == Counted(iv, bs, pl, bi, c)
           C2(c) == Counted(iv2, bs, pl2, bi2, c)
<1>1. /\ BgsOk(bs) /\ Known(iv, bs, sl, pl) /\ CountsOk(iv, bs, pl, bi)
      /\ PlacesOk(iv, bs, sl, pl, bi) /\ InvitedOk(iv)
  BY DEF Agree
<1>2. b \in DOMAIN bs /\ bs[b].queue = q /\ sl[p][q] = b /\ b \in Ids
  <2>1. b \in DOMAIN bs /\ bs[b].queue = q /\ sl[p][q] = b
    BY <1>1 DEF Known
  <2> QED
    BY <1>1, <2>1, BgFields
<1>3. /\ pl2 \in [Players -> PlaceNames] /\ bi2 \in [Players -> Ids \cup {0}]
      /\ pl2[p] = "transit" /\ bi2[p] = b
      /\ \A u \in Players : u # p => pl2[u] = pl[u] /\ bi2[u] = bi[u]
  BY <1>1, <1>2 DEF PlacesOk, PlaceNames
<1>4. \A c \in DOMAIN bs : bs[c].queue \in Queues /\ bs[c].players \in SUBSET Players
  BY <1>1, BgFields
<1>5. \A j \in iv[q][p] : j.bg = b
  BY <1>1 DEF InvitedOk
<1> HIDE DEF pl2, bi2, b
<1>6. Known(iv2, bs, sl, pl2)
  BY <1>1, <1>3 DEF Known
<1>7. PlacesOk(iv2, bs, sl, pl2, bi2)
  <2>1. ASSUME NEW u \in Players
        PROVE  /\ pl2[u] = "world" => bi2[u] = 0
               /\ pl2[u] \in {"transit", "bg"} =>
                      /\ bi2[u] \in DOMAIN bs /\ sl[u][bs[bi2[u]].queue] = bi2[u]
                      /\ iv2[bs[bi2[u]].queue][u] = {}
               /\ pl2[u] = "bg" => u \in bs[bi2[u]].players
    <3>1. CASE u = p
      BY <1>2, <1>3, <3>1
    <3>2. CASE u # p
      <4>1. /\ pl[u] = "world" => bi[u] = 0
            /\ pl[u] \in {"transit", "bg"} =>
                      /\ bi[u] \in DOMAIN bs /\ sl[u][bs[bi[u]].queue] = bi[u]
                      /\ iv[bs[bi[u]].queue][u] = {}
            /\ pl[u] = "bg" => u \in bs[bi[u]].players
        BY <1>1 DEF PlacesOk
      <4>2. pl2[u] = pl[u] /\ bi2[u] = bi[u]
        BY <1>3, <3>2
      <4>3. \A c \in DOMAIN bs : iv2[bs[c].queue][u] = iv[bs[c].queue][u]
        BY <1>4, <3>2
      <4>4. /\ pl2[u] = "world" => bi[u] = 0
            /\ pl2[u] \in {"transit", "bg"} =>
                      /\ bi[u] \in DOMAIN bs /\ sl[u][bs[bi[u]].queue] = bi[u]
                      /\ iv2[bs[bi[u]].queue][u] = {}
            /\ pl2[u] = "bg" => u \in bs[bi[u]].players
        BY <4>1, <4>2, <4>3
      <4> QED
        BY <4>2, <4>4
    <3> QED
      BY <3>1, <3>2
  <2>2. ASSUME NEW c \in DOMAIN bs, NEW u \in bs[c].players
        PROVE  bi2[u] = c /\ pl2[u] \in {"bg", "offline"}
    <3>1. u \in Players
      BY <1>4
    <3>2. bi[u] = c /\ pl[u] \in {"bg", "offline"}
      BY <1>1 DEF PlacesOk
    <3> QED
      BY <1>3, <3>1, <3>2
  <2> QED
    BY <1>3, <2>1, <2>2 DEF PlacesOk
<1>8. ASSUME NEW c \in DOMAIN bs PROVE C2(c) = C(c)
  <2>1. p \in C2(c) <=> p \in C(c)
    <3>1. CASE c = b
      BY <1>2, <1>3, <3>1 DEF Counted, b
    <3>2. CASE c # b
      <4>1. ~ (\E j \in iv[bs[c].queue][p] : j.bg = c) \/ bs[c].queue # q
        BY <1>5, <3>2
      <4>2. (\E j \in iv2[bs[c].queue][p] : j.bg = c) <=> (\E j \in iv[bs[c].queue][p] : j.bg = c)
        BY <1>4, <4>1
      <4> QED
        BY <1>3, <3>2, <4>2 DEF Counted
    <3> QED
      BY <3>1, <3>2
  <2>2. \A u \in Players : u # p => (u \in C2(c) <=> u \in C(c))
    BY <1>3, <1>4 DEF Counted
  <2>3. C(c) \in SUBSET Players /\ C2(c) \in SUBSET Players
    BY CountedIsSet
  <2> HIDE DEF C, C2
  <2>5. \A u \in Players : u \in C2(c) <=> u \in C(c)
    BY <2>1, <2>2
  <2> QED
    BY <2>3, <2>5
<1>9. CountsOk(iv2, bs, pl2, bi2)
  BY <1>1, <1>8 DEF CountsOk
<1> QED
  BY <1>1, <1>6, <1>7, <1>9 DEF Agree, pl2, bi2, b

\* HandleMoveWorldportAck: from the way into the battleground.
LEMMA ArriveAgrees ==
    ASSUME BattlegroundAssumption, NEW iv, NEW bs, NEW sl, NEW pl, NEW bi,
           Agree(iv, bs, sl, pl, bi), NEW p \in Players, pl[p] = "transit",
           NEW bs2, BgsOk(bs2), DOMAIN bs2 = DOMAIN bs,
           \A c \in DOMAIN bs :
               /\ bs2[c].queue = bs[c].queue /\ bs2[c].invited = bs[c].invited
               /\ bs2[c].players = IF c = bi[p] THEN bs[c].players \cup {p} ELSE bs[c].players
    PROVE  Agree(iv, bs2, sl, [pl EXCEPT ![p] = "bg"], bi)
<1> DEFINE pl2 == [pl EXCEPT ![p] = "bg"]
           C(c) == Counted(iv, bs, pl, bi, c)
           C2(c) == Counted(iv, bs2, pl2, bi, c)
<1>1. /\ BgsOk(bs) /\ Known(iv, bs, sl, pl) /\ CountsOk(iv, bs, pl, bi)
      /\ PlacesOk(iv, bs, sl, pl, bi) /\ InvitedOk(iv)
  BY DEF Agree
<1>2. /\ pl2 \in [Players -> PlaceNames] /\ pl2[p] = "bg"
      /\ \A u \in Players : u # p => pl2[u] = pl[u]
  BY <1>1 DEF PlacesOk, PlaceNames
<1>3. bi[p] \in DOMAIN bs /\ sl[p][bs[bi[p]].queue] = bi[p] /\ iv[bs[bi[p]].queue][p] = {}
  BY <1>1 DEF PlacesOk
<1> HIDE DEF pl2
<1>8. \A c \in DOMAIN bs :
          /\ bs2[c].queue = bs[c].queue /\ bs2[c].invited = bs[c].invited
          /\ p \in bs2[c].players <=> c = bi[p] \/ p \in bs[c].players
          /\ \A u : u # p => (u \in bs2[c].players <=> u \in bs[c].players)
  <2> TAKE c \in DOMAIN bs
  <2>1. bs2[c].queue = bs[c].queue /\ bs2[c].invited = bs[c].invited
    OBVIOUS
  <2>2. CASE c = bi[p]
    <3>1. bs2[c].players = bs[c].players \cup {p}
      BY <2>2
    <3> QED
      BY <2>1, <2>2, <3>1
  <2>3. CASE c # bi[p]
    <3>1. bs2[c].players = bs[c].players
      BY <2>3
    <3> QED
      BY <2>1, <2>3, <3>1
  <2> QED
    BY <2>2, <2>3
<1>4. Known(iv, bs2, sl, pl2)
  <2> SUFFICES ASSUME NEW r \in Queues, NEW u \in Players, NEW i \in iv[r][u]
               PROVE  /\ pl2[u] # "offline" /\ sl[u][r] = i.bg
                      /\ i.bg # 0 => i.bg \in DOMAIN bs2 /\ bs2[i.bg].queue = r
    BY DEF Known
  <2>1. /\ pl[u] # "offline" /\ sl[u][r] = i.bg
        /\ i.bg # 0 => i.bg \in DOMAIN bs /\ bs[i.bg].queue = r
    BY <1>1 DEF Known
  <2>2. pl2[u] # "offline"
    BY <1>2, <2>1
  <2> QED
    BY <1>8, <2>1, <2>2
<1>5. PlacesOk(iv, bs2, sl, pl2, bi)
  <2>1. ASSUME NEW u \in Players
        PROVE  /\ pl2[u] = "world" => bi[u] = 0
               /\ pl2[u] \in {"transit", "bg"} =>
                      /\ bi[u] \in DOMAIN bs2 /\ sl[u][bs2[bi[u]].queue] = bi[u]
                      /\ iv[bs2[bi[u]].queue][u] = {}
               /\ pl2[u] = "bg" => u \in bs2[bi[u]].players
    <3>1. CASE u = p
      BY <1>2, <1>3, <3>1
    <3>2. CASE u # p
      <4>1. /\ pl[u] = "world" => bi[u] = 0
            /\ pl[u] \in {"transit", "bg"} =>
                      /\ bi[u] \in DOMAIN bs /\ sl[u][bs[bi[u]].queue] = bi[u]
                      /\ iv[bs[bi[u]].queue][u] = {}
            /\ pl[u] = "bg" => u \in bs[bi[u]].players
        BY <1>1 DEF PlacesOk
      <4>2. pl2[u] = pl[u]
        BY <1>2, <3>2
      <4> QED
        BY <4>1, <4>2
    <3> QED
      BY <3>1, <3>2
  <2>2. ASSUME NEW c \in DOMAIN bs2, NEW u \in bs2[c].players
        PROVE  bi[u] = c /\ pl2[u] \in {"bg", "offline"}
    <3>1. u \in Players
      BY BgFields
    <3>2. CASE u = p /\ c = bi[p]
      BY <1>2, <3>2
    <3>3. CASE u \in bs[c].players
      <4>1. bi[u] = c /\ pl[u] \in {"bg", "offline"}
        BY <1>1, <3>3 DEF PlacesOk
      <4> QED
        BY <1>2, <3>1, <4>1
    <3>4. c \in DOMAIN bs
      OBVIOUS
    <3> QED
      BY <1>8, <3>2, <3>3, <3>4
  <2>3. bi \in [Players -> Ids \cup {0}]
    BY <1>1 DEF PlacesOk
  <2> QED
    BY <1>2, <2>1, <2>2, <2>3 DEF PlacesOk
<1>6. ASSUME NEW c \in DOMAIN bs PROVE C2(c) = C(c)
  <2>1. p \in C2(c) <=> p \in C(c)
    <3>1. CASE c = bi[p]
      BY <1>2, <1>8, <3>1 DEF Counted
    <3>2. CASE c # bi[p]
      BY <1>2, <1>8, <3>2 DEF Counted
    <3> QED
      BY <3>1, <3>2
  <2>2. \A u \in Players : u # p => (u \in C2(c) <=> u \in C(c))
    BY <1>2, <1>8 DEF Counted
  <2>3. C(c) \in SUBSET Players /\ C2(c) \in SUBSET Players
    BY CountedIsSet
  <2> HIDE DEF C, C2
  <2>4. \A u \in Players : u \in C2(c) <=> u \in C(c)
    BY <2>1, <2>2
  <2> QED
    BY <2>3, <2>4
<1>7. CountsOk(iv, bs2, pl2, bi)
  BY <1>1, <1>6, <1>8 DEF CountsOk
<1> QED
  BY <1>1, <1>4, <1>5, <1>7 DEF Agree, pl2

\* LoadFromDB: back in a battleground that runs.
LEMMA LoginAgrees ==
    ASSUME BattlegroundAssumption, NEW iv, NEW bs, NEW sl, NEW pl, NEW bi,
           Agree(iv, bs, sl, pl, bi), NEW p \in Players, pl[p] = "offline",
           bi[p] \in DOMAIN bs, p \in bs[bi[p]].players, NEW sl2, SlotOk(sl2),
           sl2[p][bs[bi[p]].queue] = bi[p], \A u \in Players : u # p => sl2[u] = sl[u]
    PROVE  Agree(iv, bs, sl2, [pl EXCEPT ![p] = "bg"], bi)
<1> DEFINE pl2 == [pl EXCEPT ![p] = "bg"]
           C(c) == Counted(iv, bs, pl, bi, c)
           C2(c) == Counted(iv, bs, pl2, bi, c)
<1>1. /\ BgsOk(bs) /\ Known(iv, bs, sl, pl) /\ CountsOk(iv, bs, pl, bi)
      /\ PlacesOk(iv, bs, sl, pl, bi) /\ InvitedOk(iv)
  BY DEF Agree
<1>2. /\ pl2 \in [Players -> PlaceNames] /\ pl2[p] = "bg"
      /\ \A u \in Players : u # p => pl2[u] = pl[u]
  BY <1>1 DEF PlacesOk, PlaceNames
<1> HIDE DEF pl2
<1>3. \A r \in Queues : iv[r][p] = {}
  BY <1>1 DEF Known
<1>4. Known(iv, bs, sl2, pl2)
  BY <1>1, <1>2, <1>3 DEF Known
<1>5. PlacesOk(iv, bs, sl2, pl2, bi)
  <2>1. ASSUME NEW u \in Players
        PROVE  /\ pl2[u] = "world" => bi[u] = 0
               /\ pl2[u] \in {"transit", "bg"} =>
                      /\ bi[u] \in DOMAIN bs /\ sl2[u][bs[bi[u]].queue] = bi[u]
                      /\ iv[bs[bi[u]].queue][u] = {}
               /\ pl2[u] = "bg" => u \in bs[bi[u]].players
    <3>1. CASE u = p
      <4>1. bs[bi[u]].queue \in Queues
        BY <1>1, <3>1, BgFields
      <4> QED
        BY <1>2, <1>3, <3>1, <4>1
    <3>2. CASE u # p
      <4>1. /\ pl[u] = "world" => bi[u] = 0
            /\ pl[u] \in {"transit", "bg"} =>
                      /\ bi[u] \in DOMAIN bs /\ sl[u][bs[bi[u]].queue] = bi[u]
                      /\ iv[bs[bi[u]].queue][u] = {}
            /\ pl[u] = "bg" => u \in bs[bi[u]].players
        BY <1>1 DEF PlacesOk
      <4>2. pl2[u] = pl[u] /\ sl2[u] = sl[u]
        BY <1>2, <3>2
      <4> QED
        BY <4>1, <4>2
    <3> QED
      BY <3>1, <3>2
  <2>2. ASSUME NEW c \in DOMAIN bs, NEW u \in bs[c].players
        PROVE  bi[u] = c /\ pl2[u] \in {"bg", "offline"}
    <3>1. u \in Players
      BY <1>1, BgFields
    <3>2. bi[u] = c /\ pl[u] \in {"bg", "offline"}
      BY <1>1 DEF PlacesOk
    <3> QED
      BY <1>2, <3>1, <3>2
  <2>3. bi \in [Players -> Ids \cup {0}]
    BY <1>1 DEF PlacesOk
  <2> QED
    BY <1>2, <2>1, <2>2, <2>3 DEF PlacesOk
<1>6. \A c \in DOMAIN bs : C2(c) = C(c)
  BY <1>2 DEF Counted
<1>7. CountsOk(iv, bs, pl2, bi)
  BY <1>1, <1>6 DEF CountsOk
<1> QED
  BY <1>1, <1>4, <1>5, <1>7 DEF Agree, pl2

\* The players of S are queued in q, not invited.
Queued(iv, sl, iv2, sl2, q, S) ==
    \A r \in Queues, u \in Players :
        IF r = q /\ u \in S THEN (\A i \in iv2[r][u] : i.bg = 0) /\ sl2[u][r] = 0
                            ELSE iv2[r][u] = iv[r][u] /\ sl2[u][r] = sl[u][r]

\* HandleBattlemasterJoinOpcode: the players of S are in a group that is not invited.
LEMMA JoinAgrees ==
    ASSUME BattlegroundAssumption, NEW iv, NEW bs, NEW sl, NEW pl, NEW bi,
           Agree(iv, bs, sl, pl, bi), NEW q \in Queues, NEW S \in SUBSET Players,
           \A p \in S : pl[p] # "offline" /\ sl[p][q] = NotQueued,
           NEW iv2, InvitedOk(iv2), NEW sl2, SlotOk(sl2), Queued(iv, sl, iv2, sl2, q, S)
    PROVE  Agree(iv2, bs, sl2, pl, bi)
<1> USE DEF Queued
<1>1. /\ BgsOk(bs) /\ Known(iv, bs, sl, pl) /\ CountsOk(iv, bs, pl, bi)
      /\ PlacesOk(iv, bs, sl, pl, bi) /\ InvitedOk(iv)
  BY DEF Agree
<1>2. \A c \in DOMAIN bs : bs[c].queue \in Queues /\ c \in Ids /\ c # 0 /\ c # NotQueued
  BY <1>1, BgFields DEF Ids, NotQueued, BattlegroundAssumption
<1>3. Known(iv2, bs, sl2, pl)
  BY <1>1 DEF Known
<1>4. \A u \in S : iv[q][u] = {}
  <2> SUFFICES ASSUME NEW u \in S, NEW i \in iv[q][u] PROVE FALSE
    OBVIOUS
  <2>1. sl[u][q] = i.bg /\ (i.bg # 0 => i.bg \in DOMAIN bs)
    BY <1>1 DEF Known
  <2> QED
    BY <1>2, <2>1 DEF NotQueued
<1>5. PlacesOk(iv2, bs, sl2, pl, bi)
  <2>1. ASSUME NEW u \in Players, pl[u] \in {"transit", "bg"}
        PROVE  sl2[u][bs[bi[u]].queue] = bi[u] /\ iv2[bs[bi[u]].queue][u] = {}
    <3>1. /\ bi[u] \in DOMAIN bs /\ sl[u][bs[bi[u]].queue] = bi[u]
          /\ iv[bs[bi[u]].queue][u] = {}
      BY <1>1, <2>1 DEF PlacesOk
    <3>2. ~ (bs[bi[u]].queue = q /\ u \in S)
      BY <1>2, <3>1
    <3> QED
      BY <1>2, <3>1, <3>2
  <2> QED
    BY <1>1, <2>1 DEF PlacesOk
<1>6. \A c \in DOMAIN bs : Counted(iv2, bs, pl, bi, c) = Counted(iv, bs, pl, bi, c)
  <2> SUFFICES ASSUME NEW c \in DOMAIN bs
               PROVE  \A u \in Players : (\E i \in iv2[bs[c].queue][u] : i.bg = c)
                                             <=> (\E i \in iv[bs[c].queue][u] : i.bg = c)
    BY DEF Counted
  <2> QED
    BY <1>2, <1>4
<1>7. CountsOk(iv2, bs, pl, bi)
  BY <1>1, <1>6 DEF CountsOk
<1> QED
  BY <1>1, <1>3, <1>5, <1>7 DEF Agree

\* The players of S get invitations to b ...
InvitesPlayers(iv, sl, iv2, sl2, q, b, S) ==
    /\ \A p \in S : \E i \in iv[q][p] : i.bg = 0
    /\ \A r \in Queues, u \in Players :
           IF r = q /\ u \in S
           THEN iv2[r][u] # {} /\ (\A i \in iv2[r][u] : i.bg = b) /\ sl2[u][r] = b
           ELSE iv2[r][u] = iv[r][u] /\ sl2[u][r] = sl[u][r]

\* ... which counts them.
InvitesTo(bs, bs2, b, S) ==
    /\ DOMAIN bs2 = DOMAIN bs
    /\ \A c \in DOMAIN bs :
           /\ bs2[c].queue = bs[c].queue /\ bs2[c].players = bs[c].players
           /\ c # b => bs2[c].invited = bs[c].invited
    /\ \A t \in Teams : /\ bs2[b].invited[t] = bs[b].invited[t] + Cardinality(Faction(S, t))
                         /\ bs2[b].invited[t] <= MaxPlayers

\* InviteGroupToBG: the players of S are invited to b, which counts them.
LEMMA InviteAgrees ==
    ASSUME BattlegroundAssumption, NEW iv, NEW bs, NEW sl, NEW pl, NEW bi,
           Agree(iv, bs, sl, pl, bi), NEW b \in DOMAIN bs, NEW S \in SUBSET Players,
           NEW iv2, InvitedOk(iv2), NEW sl2, SlotOk(sl2), NEW bs2, BgsOk(bs2),
           InvitesPlayers(iv, sl, iv2, sl2, bs[b].queue, b, S), InvitesTo(bs, bs2, b, S)
    PROVE  Agree(iv2, bs2, sl2, pl, bi)
<1> USE DEF InvitesPlayers, InvitesTo
<1> DEFINE q == bs[b].queue
           C(c) == Counted(iv, bs, pl, bi, c)
           C2(c) == Counted(iv2, bs2, pl, bi, c)
<1>1. /\ BgsOk(bs) /\ Known(iv, bs, sl, pl) /\ CountsOk(iv, bs, pl, bi)
      /\ PlacesOk(iv, bs, sl, pl, bi) /\ InvitedOk(iv)
  BY DEF Agree
<1>2. \A c \in DOMAIN bs : bs[c].queue \in Queues /\ c \in Ids /\ c # 0
  BY <1>1, BgFields
<1>3. ASSUME NEW u \in S
      PROVE  /\ u \in Players /\ pl[u] # "offline" /\ \A i \in iv[q][u] : i.bg = 0
             /\ ~ (pl[u] \in {"transit", "bg"} /\ bs[bi[u]].queue = q)
             /\ u \notin C(b)
  <2>1. PICK i \in iv[q][u] : i.bg = 0
    OBVIOUS
  <2>2. u \in Players /\ pl[u] # "offline" /\ \A j \in iv[q][u] : j.bg = 0
    BY <1>1, <1>2, <2>1 DEF Known, InvitedOk
  <2>3. ~ (pl[u] \in {"transit", "bg"} /\ bs[bi[u]].queue = q)
    BY <1>1, <2>1, <2>2 DEF PlacesOk
  <2>4. u \notin bs[b].players
    BY <1>1, <2>2, <2>3 DEF PlacesOk
  <2>5. u \notin C(b)
    BY <1>2, <2>2, <2>3, <2>4 DEF Counted
  <2> QED
    BY <2>2, <2>3, <2>5
<1>4. Known(iv2, bs2, sl2, pl)
  <2> SUFFICES ASSUME NEW r \in Queues, NEW u \in Players, NEW i \in iv2[r][u]
               PROVE  /\ pl[u] # "offline" /\ sl2[u][r] = i.bg
                      /\ i.bg # 0 => i.bg \in DOMAIN bs2 /\ bs2[i.bg].queue = r
    BY DEF Known
  <2>1. CASE r = q /\ u \in S
    BY <1>2, <1>3, <2>1
  <2>2. CASE ~ (r = q /\ u \in S)
    BY <1>1, <2>2 DEF Known
  <2> QED
    BY <2>1, <2>2
<1>5. PlacesOk(iv2, bs2, sl2, pl, bi)
  <2>1. ASSUME NEW u \in Players, pl[u] \in {"transit", "bg"}
        PROVE  /\ bi[u] \in DOMAIN bs2 /\ sl2[u][bs2[bi[u]].queue] = bi[u]
               /\ iv2[bs2[bi[u]].queue][u] = {}
    <3>1. /\ bi[u] \in DOMAIN bs /\ sl[u][bs[bi[u]].queue] = bi[u]
          /\ iv[bs[bi[u]].queue][u] = {}
      BY <1>1, <2>1 DEF PlacesOk
    <3>2. ~ (bs[bi[u]].queue = q /\ u \in S)
      BY <1>3, <2>1
    <3> QED
      BY <1>2, <3>1, <3>2
  <2>2. ASSUME NEW u \in Players
        PROVE  /\ pl[u] = "world" => bi[u] = 0
               /\ pl[u] = "bg" => u \in bs2[bi[u]].players
    <3>1. /\ pl[u] = "world" => bi[u] = 0
          /\ pl[u] = "bg" => bi[u] \in DOMAIN bs /\ u \in bs[bi[u]].players
      BY <1>1 DEF PlacesOk
    <3> QED
      BY <3>1
  <2>3. ASSUME NEW c \in DOMAIN bs2, NEW u \in bs2[c].players
        PROVE  bi[u] = c /\ pl[u] \in {"bg", "offline"}
    BY <1>1 DEF PlacesOk
  <2>4. pl \in [Players -> PlaceNames] /\ bi \in [Players -> Ids \cup {0}]
    BY <1>1 DEF PlacesOk
  <2> QED
    BY <2>1, <2>2, <2>3, <2>4 DEF PlacesOk
<1>6. C(b) \in SUBSET Players /\ C2(b) \in SUBSET Players
  BY CountedIsSet
<1>7. C2(b) = C(b) \cup S /\ C(b) \cap S = {}
  <2>1. ASSUME NEW u \in Players PROVE u \in C2(b) <=> u \in C(b) \/ u \in S
    <3>1. CASE u \in S
      BY <1>2, <3>1 DEF Counted
    <3>2. CASE u \notin S
      BY <1>2, <3>2 DEF Counted
    <3> QED
      BY <3>1, <3>2
  <2> HIDE DEF C, C2
  <2>2. C2(b) = C(b) \cup S
    BY <1>6, <2>1
  <2> QED
    BY <1>3, <2>2
<1>8. ASSUME NEW c \in DOMAIN bs, c # b PROVE C2(c) = C(c)
  <2>1. \A u \in Players : (\E i \in iv2[bs[c].queue][u] : i.bg = c)
                               <=> (\E i \in iv[bs[c].queue][u] : i.bg = c)
    BY <1>2, <1>3, <1>8
  <2> QED
    BY <2>1 DEF Counted
<1>9. ASSUME NEW c \in DOMAIN bs, NEW t \in Teams
      PROVE  /\ bs2[c].invited[t] = Cardinality(Faction(C2(c), t))
             /\ bs2[c].invited[t] <= MaxPlayers
  <2>1. bs[c].invited[t] = Cardinality(Faction(C(c), t)) /\ bs[c].invited[t] <= MaxPlayers
    BY <1>1 DEF CountsOk
  <2> HIDE DEF C, C2
  <2>2. CASE c = b
    <3>1. Cardinality(Faction(C(b) \cup S, t)) = Cardinality(Faction(C(b), t)) + Cardinality(Faction(S, t))
      BY <1>6, <1>7, CountMore
    <3> QED
      BY <1>7, <2>1, <2>2, <3>1
  <2>3. CASE c # b
    BY <1>8, <2>1, <2>3
  <2> QED
    BY <2>2, <2>3
<1>10. CountsOk(iv2, bs2, pl, bi)
  BY <1>9 DEF CountsOk
<1> QED
  BY <1>1, <1>4, <1>5, <1>10 DEF Agree

\* A battleground nobody is counted by is deleted.
LEMMA DeleteAgrees ==
    ASSUME BattlegroundAssumption, NEW iv, NEW bs, NEW sl, NEW pl, NEW bi,
           Agree(iv, bs, sl, pl, bi), NEW b \in DOMAIN bs,
           \A t \in Teams : bs[b].invited[t] = 0,
           NEW bs2, bs2 = [c \in DOMAIN bs \ {b} |-> bs[c]]
    PROVE  /\ Agree(iv, bs2, sl, pl, bi) /\ BgsOk(bs2) /\ DOMAIN bs2 = DOMAIN bs \ {b}
           /\ \A c \in DOMAIN bs2 : bs2[c] = bs[c]
<1>1. /\ BgsOk(bs) /\ Known(iv, bs, sl, pl) /\ CountsOk(iv, bs, pl, bi)
      /\ PlacesOk(iv, bs, sl, pl, bi) /\ InvitedOk(iv)
  BY DEF Agree
<1>2. DOMAIN bs2 = DOMAIN bs \ {b} /\ \A c \in DOMAIN bs2 : bs2[c] = bs[c]
  OBVIOUS
<1>3. BgsOk(bs2)
  BY <1>1 DEF BgsOk
<1>4. Counted(iv, bs, pl, bi, b) = {}
  <2>1. \A t \in Teams : Cardinality(Faction(Counted(iv, bs, pl, bi, b), t)) = 0
    BY <1>1 DEF CountsOk
  <2> QED
    BY <2>1, CountedIsSet, CountNone
<1>5. \A u \in Players : /\ ~ \E i \in iv[bs[b].queue][u] : i.bg = b
                         /\ ~ (pl[u] = "transit" /\ bi[u] = b)
                         /\ u \notin bs[b].players
  BY <1>4 DEF Counted
<1> HIDE <1>4
<1>6. Known(iv, bs2, sl, pl)
  <2> SUFFICES ASSUME NEW r \in Queues, NEW u \in Players, NEW i \in iv[r][u]
               PROVE  /\ pl[u] # "offline" /\ sl[u][r] = i.bg
                      /\ i.bg # 0 => i.bg \in DOMAIN bs2 /\ bs2[i.bg].queue = r
    BY DEF Known
  <2>1. /\ pl[u] # "offline" /\ sl[u][r] = i.bg
        /\ i.bg # 0 => i.bg \in DOMAIN bs /\ bs[i.bg].queue = r
    BY <1>1 DEF Known
  <2>2. i.bg # 0 => i.bg # b
    BY <1>5, <2>1
  <2> QED
    BY <1>2, <2>1, <2>2
<1>7. PlacesOk(iv, bs2, sl, pl, bi)
  <2>1. ASSUME NEW u \in Players
        PROVE  /\ pl[u] = "world" => bi[u] = 0
               /\ pl[u] \in {"transit", "bg"} =>
                      /\ bi[u] \in DOMAIN bs2 /\ sl[u][bs2[bi[u]].queue] = bi[u]
                      /\ iv[bs2[bi[u]].queue][u] = {}
               /\ pl[u] = "bg" => u \in bs2[bi[u]].players
    <3>1. /\ pl[u] = "world" => bi[u] = 0
          /\ pl[u] \in {"transit", "bg"} =>
                      /\ bi[u] \in DOMAIN bs /\ sl[u][bs[bi[u]].queue] = bi[u]
                      /\ iv[bs[bi[u]].queue][u] = {}
          /\ pl[u] = "bg" => u \in bs[bi[u]].players
      BY <1>1 DEF PlacesOk
    <3>2. pl[u] \in {"transit", "bg"} => bi[u] # b
      BY <1>5, <3>1
    <3> QED
      BY <1>2, <3>1, <3>2
  <2>2. \A c \in DOMAIN bs2 : \A u \in bs2[c].players : bi[u] = c /\ pl[u] \in {"bg", "offline"}
    BY <1>1, <1>2 DEF PlacesOk
  <2>3. pl \in [Players -> PlaceNames] /\ bi \in [Players -> Ids \cup {0}]
    BY <1>1 DEF PlacesOk
  <2> QED
    BY <2>1, <2>2, <2>3 DEF PlacesOk
<1>8. \A c \in DOMAIN bs2 : Counted(iv, bs2, pl, bi, c) = Counted(iv, bs, pl, bi, c)
  BY <1>2 DEF Counted
<1>9. CountsOk(iv, bs2, pl, bi)
  <2> SUFFICES ASSUME NEW c \in DOMAIN bs2, NEW t \in Teams
               PROVE  /\ bs2[c].invited[t] = Cardinality(Faction(Counted(iv, bs2, pl, bi, c), t))
                      /\ bs2[c].invited[t] <= MaxPlayers
    BY DEF CountsOk
  <2>1. /\ bs[c].invited[t] = Cardinality(Faction(Counted(iv, bs, pl, bi, c), t))
        /\ bs[c].invited[t] <= MaxPlayers
    BY <1>1, <1>2 DEF CountsOk
  <2>2. bs2[c] = bs[c] /\ Counted(iv, bs2, pl, bi, c) = Counted(iv, bs, pl, bi, c)
    BY <1>2, <1>8
  <2> QED
    BY <2>1, <2>2
<1>10. SlotOk(sl)
  BY DEF Agree
<1> QED
  BY <1>1, <1>2, <1>3, <1>6, <1>7, <1>9, <1>10 DEF Agree

\* CreateNewBattleground: nobody is counted by the new one.
LEMMA MadeAgrees ==
    ASSUME BattlegroundAssumption, NEW iv, NEW bs, NEW sl, NEW pl, NEW bi,
           Agree(iv, bs, sl, pl, bi), NEW b, b \notin DOMAIN bs,
           NEW bs2, BgsOk(bs2), DOMAIN bs2 = DOMAIN bs \cup {b},
           \A c \in DOMAIN bs : bs2[c] = bs[c], bs2[b].players = {},
           \A t \in Teams : bs2[b].invited[t] = 0
    PROVE  Agree(iv, bs2, sl, pl, bi)
<1>1. /\ BgsOk(bs) /\ Known(iv, bs, sl, pl) /\ CountsOk(iv, bs, pl, bi)
      /\ PlacesOk(iv, bs, sl, pl, bi) /\ InvitedOk(iv) /\ SlotOk(sl)
  BY DEF Agree
<1>2. b # 0 /\ bs2[b].queue \in Queues
  BY BgFields
<1>3. Known(iv, bs2, sl, pl)
  BY <1>1 DEF Known
<1>4. PlacesOk(iv, bs2, sl, pl, bi)
  <2>1. \A u \in Players :
            /\ pl[u] = "world" => bi[u] = 0
            /\ pl[u] \in {"transit", "bg"} =>
                      /\ bi[u] \in DOMAIN bs /\ sl[u][bs[bi[u]].queue] = bi[u]
                      /\ iv[bs[bi[u]].queue][u] = {}
            /\ pl[u] = "bg" => u \in bs[bi[u]].players
    BY <1>1 DEF PlacesOk
  <2>2. \A u \in Players :
            /\ pl[u] = "world" => bi[u] = 0
            /\ pl[u] \in {"transit", "bg"} =>
                      /\ bi[u] \in DOMAIN bs2 /\ sl[u][bs2[bi[u]].queue] = bi[u]
                      /\ iv[bs2[bi[u]].queue][u] = {}
            /\ pl[u] = "bg" => u \in bs2[bi[u]].players
    BY <2>1
  <2>3. \A c \in DOMAIN bs2 : \A u \in bs2[c].players : bi[u] = c /\ pl[u] \in {"bg", "offline"}
    BY <1>1 DEF PlacesOk
  <2>4. pl \in [Players -> PlaceNames] /\ bi \in [Players -> Ids \cup {0}]
    BY <1>1 DEF PlacesOk
  <2> QED
    BY <2>2, <2>3, <2>4 DEF PlacesOk
<1>5. \A c \in DOMAIN bs : Counted(iv, bs2, pl, bi, c) = Counted(iv, bs, pl, bi, c)
  BY DEF Counted
<1>6. Counted(iv, bs2, pl, bi, b) = {}
  <2>1. \A u \in Players : ~ (pl[u] = "transit" /\ bi[u] = b)
    BY <1>1 DEF PlacesOk
  <2>2. \A u \in Players : ~ \E i \in iv[bs2[b].queue][u] : i.bg = b
    BY <1>1, <1>2 DEF Known
  <2> QED
    BY <2>1, <2>2 DEF Counted
<1>7. \A t \in Teams : Cardinality(Faction({}, t)) = 0
  <2>1. \A t \in Teams : Faction({}, t) = {}
    BY DEF Faction
  <2> QED
    BY <2>1, FS_EmptySet
<1>8. ASSUME NEW c \in DOMAIN bs2, NEW t \in Teams
      PROVE  /\ bs2[c].invited[t] = Cardinality(Faction(Counted(iv, bs2, pl, bi, c), t))
             /\ bs2[c].invited[t] <= MaxPlayers
  <2>1. CASE c = b
    <3>1. 0 <= MaxPlayers
      BY DEF BattlegroundAssumption
    <3>2. Cardinality(Faction(Counted(iv, bs2, pl, bi, c), t)) = 0 /\ bs2[c].invited[t] = 0
      BY <1>6, <1>7, <2>1
    <3> QED
      BY <3>1, <3>2
  <2>2. CASE c \in DOMAIN bs
    <3>1. /\ bs[c].invited[t] = Cardinality(Faction(Counted(iv, bs, pl, bi, c), t))
          /\ bs[c].invited[t] <= MaxPlayers
      BY <1>1, <2>2 DEF CountsOk
    <3>2. bs2[c] = bs[c] /\ Counted(iv, bs2, pl, bi, c) = Counted(iv, bs, pl, bi, c)
      BY <1>5, <2>2
    <3> QED
      BY <3>1, <3>2
  <2> QED
    BY <2>1, <2>2
<1>9. CountsOk(iv, bs2, pl, bi)
  BY <1>8 DEF CountsOk
<1> QED
  BY <1>1, <1>3, <1>4, <1>9 DEF Agree

\* Time goes on: the invitations are to the same battlegrounds.
LEMMA TimeAgrees ==
    ASSUME NEW iv, NEW bs, NEW sl, NEW pl, NEW bi, Agree(iv, bs, sl, pl, bi),
           NEW iv2, InvitedOk(iv2),
           \A q \in Queues, p \in Players :
               /\ \A j \in iv2[q][p] : \E i \in iv[q][p] : i.bg = j.bg
               /\ \A i \in iv[q][p] : \E j \in iv2[q][p] : i.bg = j.bg
    PROVE  Agree(iv2, bs, sl, pl, bi)
<1>1. /\ BgsOk(bs) /\ Known(iv, bs, sl, pl) /\ CountsOk(iv, bs, pl, bi)
      /\ PlacesOk(iv, bs, sl, pl, bi) /\ SlotOk(sl)
  BY DEF Agree
<1>2. \A c \in DOMAIN bs : bs[c].queue \in Queues
  BY <1>1, BgFields
<1>3. Known(iv2, bs, sl, pl)
  <2> SUFFICES ASSUME NEW r \in Queues, NEW u \in Players, NEW j \in iv2[r][u]
               PROVE  /\ pl[u] # "offline" /\ sl[u][r] = j.bg
                      /\ j.bg # 0 => j.bg \in DOMAIN bs /\ bs[j.bg].queue = r
    BY DEF Known
  <2>1. PICK i \in iv[r][u] : i.bg = j.bg
    OBVIOUS
  <2> QED
    BY <1>1, <2>1 DEF Known
<1>4. \A q \in Queues, p \in Players : iv[q][p] = {} => iv2[q][p] = {}
  OBVIOUS
<1>5. PlacesOk(iv2, bs, sl, pl, bi)
  <2>1. \A u \in Players :
            /\ pl[u] = "world" => bi[u] = 0
            /\ pl[u] \in {"transit", "bg"} =>
                      /\ bi[u] \in DOMAIN bs /\ sl[u][bs[bi[u]].queue] = bi[u]
                      /\ iv[bs[bi[u]].queue][u] = {}
            /\ pl[u] = "bg" => u \in bs[bi[u]].players
    BY <1>1 DEF PlacesOk
  <2>2. \A u \in Players :
            /\ pl[u] = "world" => bi[u] = 0
            /\ pl[u] \in {"transit", "bg"} =>
                      /\ bi[u] \in DOMAIN bs /\ sl[u][bs[bi[u]].queue] = bi[u]
                      /\ iv2[bs[bi[u]].queue][u] = {}
            /\ pl[u] = "bg" => u \in bs[bi[u]].players
    <3> TAKE u \in Players
    <3>1. /\ pl[u] = "world" => bi[u] = 0
          /\ pl[u] \in {"transit", "bg"} =>
                 /\ bi[u] \in DOMAIN bs /\ sl[u][bs[bi[u]].queue] = bi[u]
                 /\ iv[bs[bi[u]].queue][u] = {}
          /\ pl[u] = "bg" => u \in bs[bi[u]].players
      BY <2>1
    <3>2. pl[u] \in {"transit", "bg"} => bs[bi[u]].queue \in Queues
      BY <1>2, <3>1
    <3>3. pl[u] \in {"transit", "bg"} => iv2[bs[bi[u]].queue][u] = {}
      BY <1>4, <3>1, <3>2
    <3> QED
      BY <3>1, <3>3
  <2>3. \A c \in DOMAIN bs : \A u \in bs[c].players : bi[u] = c /\ pl[u] \in {"bg", "offline"}
    BY <1>1 DEF PlacesOk
  <2>4. pl \in [Players -> PlaceNames] /\ bi \in [Players -> Ids \cup {0}]
    BY <1>1 DEF PlacesOk
  <2> QED
    BY <2>2, <2>3, <2>4 DEF PlacesOk
<1>6. \A c \in DOMAIN bs : Counted(iv2, bs, pl, bi, c) = Counted(iv, bs, pl, bi, c)
  <2> TAKE c \in DOMAIN bs
  <2>1. \A u \in Players : (\E i \in iv2[bs[c].queue][u] : i.bg = c)
                               <=> (\E i \in iv[bs[c].queue][u] : i.bg = c)
    BY <1>2
  <2> QED
    BY <2>1 DEF Counted
<1>7. CountsOk(iv2, bs, pl, bi)
  BY <1>1, <1>6 DEF CountsOk
<1> QED
  BY <1>1, <1>3, <1>5, <1>7 DEF Agree

-----------------------------------------------------------------------------
(* The rest of the state.                                                    *)
EventRec == [player : Players, queue : Queues, bg : Ids, left : 1..AcceptTime]

\* For every member of an invited group there is an event when its time is over.
Timed(iv, ev) ==
    \A q \in Queues, p \in Players : \A i \in iv[q][p] :
        i.bg # 0 => [player |-> p, queue |-> q, bg |-> i.bg, left |-> i.left] \in ev

ScheduledOk(s) == s \in Seq(Queues) /\ IsInjective(s)

\* The battlegrounds with free slots exist, and are their queue's.
FreeOk(fs, bs) ==
    /\ fs \in [Queues -> Seq(Ids)]
    /\ \A q \in Queues : /\ IsInjective(fs[q])
                         /\ \A b \in Range(fs[q]) : b \in DOMAIN bs /\ bs[b].queue = q

\* Who is to be removed from a battleground is an offline player of it, once.
OfflineOk(bs, pl) ==
    \A b \in DOMAIN bs : bs[b].status # "leave" =>
        /\ IsInjective(bs[b].offline)
        /\ \A p \in Range(bs[b].offline) : p \in bs[b].players /\ pl[p] = "offline"

\* The ids that are given out next are not used.
IdsOk(i, used) ==
    /\ i \in [next : Nat, free : SUBSET Nat, size : Nat]
    /\ i.next \in 1..(i.size - 1) /\ i.free \subseteq 1..(i.size - 1)
    /\ used \subseteq 1..(i.size - 1)
    /\ i.next \notin used /\ i.free \cap used = {}

\* GenerateInstanceId.
LEMMA GenerateView ==
    ASSUME NEW i, NEW used, IdsOk(i, used)
    PROVE  IdsOk(GenerateInstanceId(i), used \cup {i.next})
<1> DEFINE free == i.free \ {i.next}
           above == {n \in free : n > i.next}
           new == GenerateInstanceId(i)
<1>1. /\ i.next \in Nat /\ i.free \in SUBSET Nat /\ i.size \in Nat
      /\ i = [next |-> i.next, free |-> i.free, size |-> i.size]
  BY DEF IdsOk
<1>2. /\ i.next \in 1..(i.size - 1) /\ i.free \subseteq 1..(i.size - 1)
      /\ used \subseteq 1..(i.size - 1) /\ i.next \notin used /\ i.free \cap used = {}
  BY DEF IdsOk
<1>3. CASE above # {}
  <2>1. new = [next |-> Min(above), free |-> free, size |-> i.size]
    BY <1>1, <1>3 DEF GenerateInstanceId
  <2>2. above \in SUBSET Nat
    BY <1>1
  <2>3. Min(above) \in above
    BY <1>3, <2>2, MinOfNaturals
  <2>4. Min(above) \in i.free /\ Min(above) # i.next /\ Min(above) \in Nat
    BY <1>1, <2>3
  <2> HIDE DEF new, above
  <2>5. new.next = Min(above) /\ new.free = free /\ new.size = i.size
    BY <2>1
  <2>6. new \in [next : Nat, free : SUBSET Nat, size : Nat]
    BY <1>1, <2>1, <2>4
  <2>7. new.next \in 1..(new.size - 1) /\ new.free \subseteq 1..(new.size - 1)
    BY <1>2, <2>4, <2>5
  <2>8. used \cup {i.next} \subseteq 1..(new.size - 1)
    BY <1>2, <2>5
  <2>9. new.next \notin used \cup {i.next} /\ new.free \cap (used \cup {i.next}) = {}
    BY <1>2, <2>4, <2>5
  <2> DEFINE used2 == used \cup {i.next}
  <2>10. used2 \subseteq 1..(new.size - 1) /\ new.next \notin used2 /\ new.free \cap used2 = {}
    BY <2>8, <2>9
  <2> HIDE DEF used2, free
  <2>11. IdsOk(new, used2)
    BY <2>6, <2>7, <2>10 DEF IdsOk
  <2> QED
    BY <2>11 DEF used2, new
<1>4. CASE above = {}
  <2>1. new = [next |-> i.size, free |-> free \cup {i.size}, size |-> i.size + 1]
    BY <1>4 DEF GenerateInstanceId
  <2> HIDE DEF new, above
  <2>2. \A n \in 1..(i.size - 1) : n \in 1..((i.size + 1) - 1) /\ n # i.size
    BY <1>1
  <2>3. i.size \in 1..((i.size + 1) - 1) /\ i.size + 1 \in Nat
    BY <1>1, <1>2
  <2>4. new.next = i.size /\ new.free = free \cup {i.size} /\ new.size = i.size + 1
    BY <2>1
  <2>5. new \in [next : Nat, free : SUBSET Nat, size : Nat]
    BY <1>1, <2>1, <2>3
  <2>6. new.next \in 1..(new.size - 1) /\ new.free \subseteq 1..(new.size - 1)
    BY <1>2, <2>2, <2>3, <2>4
  <2>7. used \cup {i.next} \subseteq 1..(new.size - 1)
    BY <1>2, <2>2, <2>4
  <2>8. new.next \notin used \cup {i.next} /\ new.free \cap (used \cup {i.next}) = {}
    BY <1>2, <2>2, <2>4
  <2> DEFINE used2 == used \cup {i.next}
  <2>9. used2 \subseteq 1..(new.size - 1) /\ new.next \notin used2 /\ new.free \cap used2 = {}
    BY <2>7, <2>8
  <2> HIDE DEF used2, free
  <2>10. IdsOk(new, used2)
    BY <2>5, <2>6, <2>9 DEF IdsOk
  <2> QED
    BY <2>10 DEF used2, new
<1> QED
  BY <1>3, <1>4

\* There are finitely many events.
LEMMA EventsFinite ==
    ASSUME BattlegroundAssumption, NEW ev \in SUBSET [player : Players, queue : Queues, bg : Ids, left : 0..AcceptTime]
    PROVE  IsFiniteSet(ev)
<1> DEFINE P == Queues \X (Ids \X (0..AcceptTime))
           All == [player : Players, queue : Queues, bg : Ids, left : 0..AcceptTime]
           f == [x \in Players \X P |-> [player |-> x[1], queue |-> x[2][1], bg |-> x[2][2][1], left |-> x[2][2][2]]]
<1>1. IsFiniteSet(Ids) /\ IsFiniteSet(0..AcceptTime)
  <2>1. 1 \in Int /\ 0 \in Int /\ MaxId \in Int /\ AcceptTime \in Int
    BY DEF BattlegroundAssumption
  <2> QED
    BY <2>1, FS_Interval DEF Ids
<1>2. IsFiniteSet(Ids \X (0..AcceptTime))
  BY <1>1, FS_Product
<1>3. IsFiniteSet(P)
  BY <1>2, FS_Product DEF BattlegroundAssumption
<1>4. IsFiniteSet(Players \X P)
  BY <1>3, FS_Product DEF BattlegroundAssumption
<1>5. f \in [Players \X P -> All]
  OBVIOUS
<1>6. ASSUME NEW e \in All PROVE \E x \in Players \X P : f[x] = e
  <2> DEFINE x == <<e.player, <<e.queue, <<e.bg, e.left>>>>>>
  <2>1. x \in Players \X P
    OBVIOUS
  <2>2. f[x] = e
    BY <2>1
  <2> QED
    BY <2>1, <2>2
<1> DEFINE X == Players \X P
<1>7. f \in Surjection(X, All)
  BY <1>5, <1>6 DEF Surjection
<1>8. IsFiniteSet(X)
  BY <1>4
<1> HIDE DEF f, X, All
<1>9. IsFiniteSet(All)
  BY <1>7, <1>8, FS_Surjection
<1> QED
  BY <1>9, FS_Subset DEF All

-----------------------------------------------------------------------------
(* The values that the updates of the queues change.                         *)
BgMaps == UNION {[D -> BgRec] : D \in SUBSET Ids}

Worlds == [groups : [Queues -> [Lists -> Seq(GroupRec)]], events : SUBSET EventRec,
           scheduled : Seq(Queues), bgs : BgMaps, freeSlots : [Queues -> Seq(Ids)],
           slot : [Players -> [Queues -> Ids \cup {0, NotQueued}]],
           ids : [next : Nat, free : SUBSET Nat, size : Nat]]

\* The ids of the maps that are still to be destroyed.
Gone == {u[1] : u \in unloading}

\* Everything but the events.
WorldAgrees(w) ==
    /\ w \in Worlds /\ GroupsOk(w.groups)
    /\ FreeOk(w.freeSlots, w.bgs) /\ OfflineOk(w.bgs, place)
    /\ IdsOk(w.ids, DOMAIN w.bgs \cup Gone) /\ DOMAIN w.bgs \cap Gone = {}
    /\ Agree(InvitationsOf(w.groups), w.bgs, w.slot, place, bgId)

WorldOk(w) == WorldAgrees(w) /\ Timed(InvitationsOf(w.groups), w.events)

\* Nobody who was in a queue is out of it, and no battleground is gone.
NothingLost(w, v) ==
    /\ DOMAIN w.bgs \subseteq DOMAIN v.bgs
    /\ \A p \in Players, q \in Queues : v.slot[p][q] = NotQueued => w.slot[p][q] = NotQueued

\* The battlegrounds have the queue, the status and the players that they had.
SameShape(bs, bs2) ==
    /\ DOMAIN bs2 = DOMAIN bs
    /\ \A b \in DOMAIN bs : /\ bs2[b].queue = bs[b].queue /\ bs2[b].status = bs[b].status
                            /\ bs2[b].players = bs[b].players /\ bs2[b].offline = bs[b].offline

\* The lists of battlegrounds and of offline players are as good as before.
LEMMA ShapeKept ==
    ASSUME NEW bs, NEW bs2, SameShape(bs, bs2), NEW fs, FreeOk(fs, bs), NEW pl, OfflineOk(bs, pl)
    PROVE  FreeOk(fs, bs2) /\ OfflineOk(bs2, pl)
<1>1. FreeOk(fs, bs2)
  BY DEF FreeOk, SameShape
<1>2. ASSUME NEW b \in DOMAIN bs2, bs2[b].status # "leave"
      PROVE  /\ IsInjective(bs2[b].offline)
             /\ \A p \in Range(bs2[b].offline) : p \in bs2[b].players /\ pl[p] = "offline"
  <2>1. /\ b \in DOMAIN bs /\ bs2[b].offline = bs[b].offline /\ bs2[b].players = bs[b].players
        /\ bs[b].status # "leave"
    BY <1>2 DEF SameShape
  <2>2. /\ IsInjective(bs[b].offline)
        /\ \A p \in Range(bs[b].offline) : p \in bs[b].players /\ pl[p] = "offline"
    BY <2>1 DEF OfflineOk
  <2> QED
    BY <2>1, <2>2
<1> QED
  BY <1>1, <1>2 DEF OfflineOk

-----------------------------------------------------------------------------
(* InviteGroupToBG.                                                          *)
Chosen(pools) == pools["alliance"].chosen \cup pools["horde"].chosen
Who(pools) == UNION {g.players : g \in Chosen(pools)}
Marked(pools, b) ==
    [g \in GroupRec |-> IF g \in Chosen(pools) THEN [g EXCEPT !.invited = b, !.left = AcceptTime]
                                               ELSE g]

\* The groups chosen are those of the players who are invited.
LEMMA ChosenView ==
    ASSUME NEW lists, ListsInv(lists), NEW pools, NEW caps, PoolsFit(pools, lists, caps)
    PROVE  /\ \A g \in Chosen(pools) : g \in GroupRec /\ g.invited = 0
           /\ \A g \in Chosen(pools) : \A p \in g.players : g \in GroupOf(lists, p)
           /\ \A t \in Teams, g \in Chosen(pools) : \A p \in g.players :
                  Team[p] = t => g \in pools[t].chosen
           /\ \A t \in Teams : \A g \in pools[t].chosen : \A p \in g.players : Team[p] = t
<1>1. \A g : g \in Chosen(pools) <=> \E t \in Teams : g \in pools[t].chosen
  BY DEF Chosen, Teams
<1>2. ASSUME NEW t \in Teams, NEW g \in pools[t].chosen
      PROVE  /\ g \in GroupRec /\ g.invited = 0
             /\ \A p \in g.players : Team[p] = t /\ g \in GroupOf(lists, p)
  <2>1. g \in Of(lists, t) /\ g.invited = 0
    BY DEF PoolsFit, PoolOk
  <2>2. PICK l \in Lists : l[2] = t /\ \E i \in DOMAIN lists[l] : g = lists[l][i]
    BY <2>1 DEF Of
  <2>3. PICK i \in DOMAIN lists[l] : g = lists[l][i]
    BY <2>2
  <2>4. \A p \in g.players : Team[p] = t
    BY <2>2, <2>3 DEF ListsInv
  <2>5. \A p \in g.players : g \in GroupOf(lists, p)
    BY <2>3, GroupIsAt
  <2>6. g \in GroupRec
    BY <2>1 DEF Of
  <2> QED
    BY <2>1, <2>4, <2>5, <2>6
<1> QED
  BY <1>1, <1>2

\* Those of a faction are the players of its pool.
LEMMA WhoView ==
    ASSUME NEW lists, ListsInv(lists), NEW pools, NEW caps, PoolsFit(pools, lists, caps)
    PROVE  /\ Who(pools) \in SUBSET Players
           /\ \A t \in Teams : Cardinality(Faction(Who(pools), t)) = pools[t].count
<1>1. Who(pools) \in SUBSET Players
  <2> SUFFICES ASSUME NEW g \in Chosen(pools), NEW p \in g.players PROVE p \in Players
    BY DEF Who
  <2>1. g \in GroupRec
    BY ChosenView
  <2> QED
    BY <2>1 DEF GroupRec
<1>2. ASSUME NEW t \in Teams PROVE Cardinality(Faction(Who(pools), t)) = pools[t].count
  <2> DEFINE all == UNION {g.players : g \in pools[t].chosen}
             mine == Faction(Who(pools), t)
  <2>1. ASSUME NEW p PROVE p \in mine <=> p \in all
    <3>1. CASE p \in mine
      <4>1. PICK g \in Chosen(pools) : p \in g.players
        BY <3>1 DEF Faction, Who
      <4>2. Team[p] = t
        BY <3>1 DEF Faction
      <4>3. g \in pools[t].chosen
        BY <4>1, <4>2, ChosenView
      <4> QED
        BY <3>1, <4>1, <4>3
    <3>2. CASE p \in all
      <4>1. PICK g \in pools[t].chosen : p \in g.players
        BY <3>2
      <4>2. g \in Chosen(pools)
        BY <4>1 DEF Chosen, Teams
      <4>3. p \in Who(pools)
        BY <4>1, <4>2 DEF Who
      <4>4. Team[p] = t
        BY <4>1, ChosenView
      <4> QED
        BY <3>2, <4>3, <4>4 DEF Faction
    <3> QED
      BY <3>1, <3>2
  <2>2. mine = all
    BY <2>1
  <2>3. pools[t].count = Cardinality(all)
    BY DEF PoolsFit, PoolOk
  <2> HIDE DEF mine, all
  <2>4. pools[t].count = Cardinality(mine)
    BY <2>2, <2>3
  <2> QED
    BY <2>4 DEF mine
<1> QED
  BY <1>1, <1>2

\* Their groups are invited, the others are as before.
LEMMA MarkedView ==
    ASSUME BattlegroundAssumption, NEW lists, ListsInv(lists), NEW pools, NEW caps,
           PoolsFit(pools, lists, caps), NEW b \in Ids
    PROVE  /\ Marked(pools, b) \in [GroupRec -> GroupRec]
           /\ \A g \in GroupRec : Marked(pools, b)[g].players = g.players
           /\ \A p : Invitations(Mapped(lists, Marked(pools, b)), p) =
                  IF p \in Who(pools) THEN {[bg |-> b, left |-> AcceptTime]} ELSE Invitations(lists, p)
           /\ \A p \in Who(pools) : \E i \in Invitations(lists, p) : i.bg = 0
<1> DEFINE M == Marked(pools, b)
<1>1. ASSUME NEW g \in GroupRec
      PROVE  M[g] \in GroupRec /\ M[g].players = g.players
             /\ (g \in Chosen(pools) => M[g].invited = b /\ M[g].left = AcceptTime)
             /\ (g \notin Chosen(pools) => M[g] = g)
  <2>1. AcceptTime \in 0..AcceptTime
    BY DEF BattlegroundAssumption
  <2> QED
    BY <2>1 DEF Marked, GroupRec
<1>2. M \in [GroupRec -> GroupRec]
  BY <1>1 DEF Marked
<1>3. ASSUME NEW p \in Who(pools) PROVE \E g \in GroupOf(lists, p) : g \in Chosen(pools)
  <2>1. PICK g \in Chosen(pools) : p \in g.players
    BY DEF Who
  <2> QED
    BY <2>1, ChosenView
<1> HIDE DEF M
<1>4. ASSUME NEW p
      PROVE  Invitations(Mapped(lists, M), p) =
                 IF p \in Who(pools) THEN {[bg |-> b, left |-> AcceptTime]} ELSE Invitations(lists, p)
  <2>1. Invitations(Mapped(lists, M), p) = {[bg |-> M[g].invited, left |-> M[g].left] : g \in GroupOf(lists, p)}
    BY <1>1, <1>2, MappedInvitations
  <2>2. \A g \in GroupOf(lists, p) : g \in GroupRec /\ p \in g.players /\ \A h \in GroupOf(lists, p) : g = h
    BY OneGroup
  <2>3. CASE p \in Who(pools)
    <3>1. PICK g \in GroupOf(lists, p) : g \in Chosen(pools)
      BY <1>3, <2>3
    <3>2. M[g].invited = b /\ M[g].left = AcceptTime
      BY <1>1, <2>2, <3>1
    <3>3. \A h : h \in GroupOf(lists, p) <=> h = g
      BY <2>2, <3>1
    <3>4. {[bg |-> M[h].invited, left |-> M[h].left] : h \in GroupOf(lists, p)} = {[bg |-> b, left |-> AcceptTime]}
      BY <3>2, <3>3
    <3> QED
      BY <2>1, <2>3, <3>4
  <2>4. CASE p \notin Who(pools)
    <3>1. \A g \in GroupOf(lists, p) : g \notin Chosen(pools)
      BY <2>2, <2>4 DEF Who
    <3>2. \A g \in GroupOf(lists, p) : M[g] = g
      BY <1>1, <2>2, <3>1
    <3>3. {[bg |-> M[g].invited, left |-> M[g].left] : g \in GroupOf(lists, p)} = Invitations(lists, p)
      BY <3>2 DEF Invitations
    <3> QED
      BY <2>1, <2>4, <3>3
  <2> QED
    BY <2>3, <2>4
<1>5. ASSUME NEW p \in Who(pools) PROVE \E i \in Invitations(lists, p) : i.bg = 0
  <2>1. PICK g \in GroupOf(lists, p) : g \in Chosen(pools)
    BY <1>3
  <2>2. g.invited = 0
    BY <2>1, ChosenView
  <2>3. [bg |-> g.invited, left |-> g.left] \in Invitations(lists, p)
    BY <2>1 DEF Invitations
  <2> QED
    BY <2>2, <2>3
<1> QED
  BY <1>1, <1>2, <1>4, <1>5 DEF M

\* What an invitation changes.
Invites(w, q, b, pools, new) ==
    /\ new.groups = Put(w.groups, q, Mapped(w.groups[q], Marked(pools, b)))
    /\ new.events = w.events \cup [player : Who(pools), queue : {q}, bg : {b}, left : {AcceptTime}]
    /\ new.bgs = Put(w.bgs, b, [w.bgs[b] EXCEPT !.invited =
                     [t \in Teams |-> w.bgs[b].invited[t] + pools[t].count]])
    /\ new.slot = [p \in Players |-> IF p \in Who(pools) THEN [w.slot[p] EXCEPT ![q] = b] ELSE w.slot[p]]
    /\ new.scheduled = w.scheduled /\ new.freeSlots = w.freeSlots /\ new.ids = w.ids
    /\ new = [groups |-> new.groups, events |-> new.events, scheduled |-> new.scheduled,
              bgs |-> new.bgs, freeSlots |-> new.freeSlots, slot |-> new.slot, ids |-> new.ids]

\* That is what Invite computes.
LEMMA InviteFields ==
    ASSUME NEW w \in Worlds, NEW q \in Queues, NEW b \in DOMAIN w.bgs, NEW pools
    PROVE  Invites(w, q, b, pools, Invite(w, q, b, pools))
<1> DEFINE chosen == Chosen(pools)
           Mark(g) == IF g \in chosen THEN [g EXCEPT !.invited = b, !.left = AcceptTime] ELSE g
           marked == [l \in Lists |-> [i \in DOMAIN w.groups[q][l] |-> Mark(w.groups[q][l][i])]]
           counts == [t \in Teams |-> w.bgs[b].invited[t] + pools[t].count]
           slots == [p \in Players |-> IF p \in Who(pools) THEN [w.slot[p] EXCEPT ![q] = b] ELSE w.slot[p]]
           all == [player : Who(pools), queue : {q}, bg : {b}, left : {AcceptTime}]
<1>1. Invite(w, q, b, pools) =
          [w EXCEPT !.groups = Put(@, q, marked), !.slot = slots,
                    !.bgs = Put(@, b, [@[b] EXCEPT !.invited = counts]), !.events = @ \cup all]
  BY SMTT(60) DEF Invite, Chosen, Who
<1>2. marked = Mapped(w.groups[q], Marked(pools, b))
  <2>1. \A l \in Lists : w.groups[q][l] \in Seq(GroupRec)
    BY DEF Worlds
  <2>2. \A l \in Lists : \A i \in DOMAIN w.groups[q][l] : w.groups[q][l][i] \in GroupRec
    BY <2>1
  <2> QED
    BY <2>2, ZenonT(60) DEF Mapped, Marked
<1>3. w = [groups |-> w.groups, events |-> w.events, scheduled |-> w.scheduled, bgs |-> w.bgs,
           freeSlots |-> w.freeSlots, slot |-> w.slot, ids |-> w.ids]
  BY DEF Worlds
<1> HIDE DEF marked, counts, slots, all
<1>4. Invite(w, q, b, pools) =
          [groups |-> Put(w.groups, q, marked), events |-> w.events \cup all, scheduled |-> w.scheduled,
           bgs |-> Put(w.bgs, b, [w.bgs[b] EXCEPT !.invited = counts]),
           freeSlots |-> w.freeSlots, slot |-> slots, ids |-> w.ids]
  BY <1>1, <1>3
<1> QED
  BY <1>2, <1>4, SMTT(60) DEF Invites, counts, slots, all

\* The fields of a value.
LEMMA WorldFields ==
    ASSUME NEW w, WorldAgrees(w)
    PROVE  /\ w.events \in SUBSET EventRec /\ w.scheduled \in Seq(Queues) /\ BgsOk(w.bgs)
           /\ \A q \in Queues : ListsInv(w.groups[q])
           /\ SlotOk(w.slot) /\ w.freeSlots \in [Queues -> Seq(Ids)]
           /\ w.groups \in [Queues -> [Lists -> Seq(GroupRec)]]
           /\ w = [groups |-> w.groups, events |-> w.events, scheduled |-> w.scheduled, bgs |-> w.bgs,
                   freeSlots |-> w.freeSlots, slot |-> w.slot, ids |-> w.ids]
           /\ \A q \in Queues, p \in Players :
                  InvitationsOf(w.groups)[q][p] = Invitations(w.groups[q], p)
<1>1. w \in Worlds
  BY DEF WorldAgrees
<1>2. /\ w.events \in SUBSET EventRec /\ w.scheduled \in Seq(Queues) /\ w.freeSlots \in [Queues -> Seq(Ids)]
      /\ w = [groups |-> w.groups, events |-> w.events, scheduled |-> w.scheduled, bgs |-> w.bgs,
              freeSlots |-> w.freeSlots, slot |-> w.slot, ids |-> w.ids]
      /\ w.groups \in [Queues -> [Lists -> Seq(GroupRec)]]
  BY <1>1 DEF Worlds
<1>3. BgsOk(w.bgs) /\ SlotOk(w.slot)
  BY DEF WorldAgrees, Agree
<1>4. \A q \in Queues : ListsInv(w.groups[q])
  BY DEF WorldAgrees, GroupsOk
<1>5. \A q \in Queues, p \in Players : InvitationsOf(w.groups)[q][p] = Invitations(w.groups[q], p)
  BY DEF InvitationsOf
<1> QED
  BY <1>2, <1>3, <1>4, <1>5

\* A record of good fields.
LEMMA IsWorld ==
    ASSUME NEW gs, GroupsOk(gs), NEW ev \in SUBSET EventRec, NEW sc \in Seq(Queues), NEW bs, BgsOk(bs),
           NEW fs \in [Queues -> Seq(Ids)], NEW sl, SlotOk(sl), NEW i, NEW used, IdsOk(i, used)
    PROVE  [groups |-> gs, events |-> ev, scheduled |-> sc, bgs |-> bs, freeSlots |-> fs,
            slot |-> sl, ids |-> i] \in Worlds
<1>1. gs \in [Queues -> [Lists -> Seq(GroupRec)]]
  BY DEF GroupsOk
<1>2. bs \in BgMaps
  BY DEF BgsOk, BgMaps
<1>3. sl \in [Players -> [Queues -> Ids \cup {0, NotQueued}]]
  BY DEF SlotOk
<1>4. i \in [next : Nat, free : SUBSET Nat, size : Nat]
  BY DEF IdsOk
<1> QED
  BY <1>1, <1>2, <1>3, <1>4 DEF Worlds

\* The players of the pools are invited.
LEMMA InviteView ==
    ASSUME BattlegroundAssumption, NEW w, WorldOk(w), NEW q \in Queues, NEW b \in DOMAIN w.bgs,
           w.bgs[b].queue = q, NEW pools,
           PoolsFit(pools, w.groups[q], [t \in Teams |-> Room(w.bgs[b], t)])
    PROVE  LET new == Invite(w, q, b, pools)
           IN /\ WorldOk(new) /\ NothingLost(w, new)
              /\ SameShape(w.bgs, new.bgs) /\ new.freeSlots = w.freeSlots /\ new.scheduled = w.scheduled
<1> DEFINE new == Invite(w, q, b, pools)
           M == Marked(pools, b)
           lists == w.groups[q]
           caps == [t \in Teams |-> Room(w.bgs[b], t)]
           S == Who(pools)
           counts == [t \in Teams |-> w.bgs[b].invited[t] + pools[t].count]
           all == [player : S, queue : {q}, bg : {b}, left : {AcceptTime}]
           iv == InvitationsOf(w.groups)
           iv2 == InvitationsOf(new.groups)
<1>1. WorldAgrees(w) /\ Timed(iv, w.events) /\ Agree(iv, w.bgs, w.slot, place, bgId) /\ GroupsOk(w.groups)
  BY DEF WorldOk, WorldAgrees
<1>2. /\ w \in Worlds /\ ListsInv(lists) /\ BgsOk(w.bgs) /\ SlotOk(w.slot)
      /\ w.freeSlots \in [Queues -> Seq(Ids)] /\ w.scheduled \in Seq(Queues) /\ w.events \in SUBSET EventRec
      /\ \A r \in Queues, p \in Players : iv[r][p] = Invitations(w.groups[r], p)
  BY <1>1, WorldFields DEF WorldAgrees
<1>3. /\ b \in Ids /\ w.bgs[b] \in BgRec /\ w.bgs[b].invited \in [Teams -> Int] /\ b # 0
  BY <1>2, BgFields
<1>4. /\ new.groups = Put(w.groups, q, Mapped(lists, M)) /\ new.events = w.events \cup all
      /\ new.bgs = Put(w.bgs, b, [w.bgs[b] EXCEPT !.invited = counts])
      /\ new.slot = [p \in Players |-> IF p \in S THEN [w.slot[p] EXCEPT ![q] = b] ELSE w.slot[p]]
      /\ new.scheduled = w.scheduled /\ new.freeSlots = w.freeSlots /\ new.ids = w.ids
      /\ new = [groups |-> new.groups, events |-> new.events, scheduled |-> new.scheduled,
                bgs |-> new.bgs, freeSlots |-> new.freeSlots, slot |-> new.slot, ids |-> new.ids]
  <2>1. Invites(w, q, b, pools, new)
    BY <1>2, InviteFields
  <2> HIDE DEF new
  <2> QED
    BY <2>1 DEF Invites
<1> HIDE DEF caps
<1>30. PoolsFit(pools, lists, caps)
  BY DEF caps
<1> HIDE DEF lists
<1>5. /\ M \in [GroupRec -> GroupRec] /\ \A g \in GroupRec : M[g].players = g.players
      /\ \A p : Invitations(Mapped(lists, M), p) =
                    IF p \in S THEN {[bg |-> b, left |-> AcceptTime]} ELSE Invitations(lists, p)
      /\ \A p \in S : \E i \in Invitations(lists, p) : i.bg = 0
  BY <1>2, <1>3, <1>30, MarkedView
<1>6. S \in SUBSET Players /\ \A t \in Teams : Cardinality(Faction(S, t)) = pools[t].count
  BY <1>2, <1>30, WhoView
<1>7. \A t \in Teams : pools[t].count \in Nat /\ pools[t].count <= Room(w.bgs[b], t)
  BY DEF PoolsFit, PoolOk, Pools, lists
<1> HIDE DEF new, M, S, iv, iv2, all
<1>8. ListsInv(Mapped(lists, M))
  BY <1>2, <1>5, ListsMapped
<1>9. /\ GroupsOk(new.groups)
      /\ iv2 = [iv EXCEPT ![q] = [p \in Players |-> Invitations(Mapped(lists, M), p)]]
  <2> DEFINE ml == Mapped(lists, M)
  <2>1. ListsInv(ml) /\ GroupsOk(w.groups) /\ new.groups = Put(w.groups, q, ml)
    BY <1>1, <1>4, <1>8
  <2> HIDE DEF ml
  <2>2. /\ GroupsOk([w.groups EXCEPT ![q] = ml]) /\ Put(w.groups, q, ml) = [w.groups EXCEPT ![q] = ml]
        /\ InvitationsOf([w.groups EXCEPT ![q] = ml]) =
               [InvitationsOf(w.groups) EXCEPT ![q] = [p \in Players |-> Invitations(ml, p)]]
    BY <2>1, PutGroups
  <2>3. /\ GroupsOk(new.groups)
        /\ iv2 = [iv EXCEPT ![q] = [p \in Players |-> Invitations(ml, p)]]
    BY <2>1, <2>2 DEF iv, iv2
  <2> QED
    BY <2>3 DEF ml
<1>10. ASSUME NEW r \in Queues, NEW u \in Players
       PROVE  iv2[r][u] = IF r = q /\ u \in S THEN {[bg |-> b, left |-> AcceptTime]} ELSE iv[r][u]
  <2>1. iv \in [Queues -> [Players -> SUBSET InvitationRec]]
    BY <1>1 DEF Agree, InvitedOk
  <2>2. iv2[r][u] = IF r = q THEN Invitations(Mapped(lists, M), u) ELSE iv[r][u]
    BY <1>9, <2>1
  <2>3. iv[q][u] = Invitations(lists, u)
    BY <1>2 DEF lists
  <2> QED
    BY <1>5, <2>2, <2>3
<1>11. \A t \in Teams : counts[t] \in Int /\ counts[t] <= MaxPlayers
  <2> TAKE t \in Teams
  <2>1. w.bgs[b].invited[t] <= MaxPlayers
    BY <1>1 DEF Agree, CountsOk
  <2>2. MaxPlayers \in Int /\ w.bgs[b].invited[t] \in Int
    BY <1>3 DEF BattlegroundAssumption
  <2> QED
    BY <1>7, <2>1, <2>2 DEF Room
<1>12. /\ DOMAIN new.bgs = DOMAIN w.bgs /\ \A c \in DOMAIN w.bgs : c # b => new.bgs[c] = w.bgs[c]
       /\ new.bgs[b] = [w.bgs[b] EXCEPT !.invited = counts]
  BY <1>4 DEF Put
<1>13. /\ new.bgs[b] \in BgRec /\ new.bgs[b].queue = q /\ new.bgs[b].status = w.bgs[b].status
       /\ new.bgs[b].players = w.bgs[b].players /\ new.bgs[b].offline = w.bgs[b].offline
       /\ new.bgs[b].invited = counts
  <2>1. counts \in [Teams -> Int]
    BY <1>11
  <2> HIDE DEF counts
  <2> QED
    BY <1>3, <1>12, <2>1 DEF BgRec
<1>14. SameShape(w.bgs, new.bgs)
  BY <1>12, <1>13 DEF SameShape
<1>15. BgsOk(new.bgs)
  <2>1. \A c \in DOMAIN new.bgs : new.bgs[c] \in BgRec
    BY <1>2, <1>12, <1>13 DEF BgsOk
  <2>2. new.bgs = [c \in DOMAIN new.bgs |-> new.bgs[c]]
    BY <1>4 DEF Put
  <2> QED
    BY <1>2, <1>12, <2>1, <2>2 DEF BgsOk
<1>16. /\ SlotOk(new.slot)
       /\ \A r \in Queues, u \in Players :
              new.slot[u][r] = IF r = q /\ u \in S THEN b ELSE w.slot[u][r]
  BY <1>2, <1>3, <1>4 DEF SlotOk
<1>17. Agree(iv2, new.bgs, new.slot, place, bgId)
  <2>1. InvitedOk(iv2)
    BY <1>9, InvitedTyped DEF iv2
  <2>2. \A p \in S : \E i \in iv[w.bgs[b].queue][p] : i.bg = 0
    <3> TAKE p \in S
    <3>1. iv[q][p] = Invitations(lists, p)
      BY <1>2, <1>6 DEF lists
    <3> QED
      BY <1>5, <3>1
  <2>3. \A r \in Queues, u \in Players :
               IF r = w.bgs[b].queue /\ u \in S
               THEN iv2[r][u] # {} /\ (\A i \in iv2[r][u] : i.bg = b) /\ new.slot[u][r] = b
               ELSE iv2[r][u] = iv[r][u] /\ new.slot[u][r] = w.slot[u][r]
    <3> TAKE r \in Queues, u \in Players
    <3>1. [bg |-> b, left |-> AcceptTime].bg = b
      OBVIOUS
    <3>2. CASE r = q /\ u \in S
      <4>1. iv2[r][u] = {[bg |-> b, left |-> AcceptTime]} /\ new.slot[u][r] = b
        BY <1>10, <1>16, <3>2
      <4> QED
        BY <3>1, <3>2, <4>1
    <3>3. CASE ~(r = q /\ u \in S)
      BY <1>10, <1>16, <3>3
    <3> QED
      BY <3>2, <3>3
  <2>4. \A c \in DOMAIN w.bgs :
               /\ new.bgs[c].queue = w.bgs[c].queue /\ new.bgs[c].players = w.bgs[c].players
               /\ c # b => new.bgs[c].invited = w.bgs[c].invited
    BY <1>12, <1>13
  <2>5. \A t \in Teams : /\ new.bgs[b].invited[t] = w.bgs[b].invited[t] + Cardinality(Faction(S, t))
                         /\ new.bgs[b].invited[t] <= MaxPlayers
    BY <1>6, <1>11, <1>13
  <2> DEFINE bs == w.bgs
             bs2 == new.bgs
             sl == w.slot
             sl2 == new.slot
  <2>6. /\ Agree(iv, bs, sl, place, bgId) /\ S \in SUBSET Players /\ b \in DOMAIN bs
        /\ BgsOk(bs2) /\ SlotOk(sl2) /\ DOMAIN bs2 = DOMAIN bs
    BY <1>1, <1>6, <1>12, <1>15, <1>16
  <2>7. InvitesTo(bs, bs2, b, S)
    BY <1>12, <2>4, <2>5 DEF InvitesTo
  <2>8. InvitesPlayers(iv, sl, iv2, sl2, bs[b].queue, b, S)
    BY <2>2, <2>3 DEF InvitesPlayers
  <2> HIDE DEF bs, bs2, sl, sl2
  <2>9. Agree(iv2, bs2, sl2, place, bgId)
    BY <2>1, <2>6, <2>7, <2>8, InviteAgrees
  <2> QED
    BY <2>9 DEF bs2, sl2
<1>18. FreeOk(new.freeSlots, new.bgs) /\ OfflineOk(new.bgs, place)
  BY <1>1, <1>4, <1>14, ShapeKept DEF WorldAgrees
<1>19. IdsOk(new.ids, DOMAIN new.bgs \cup Gone) /\ DOMAIN new.bgs \cap Gone = {}
  BY <1>1, <1>4, <1>12 DEF WorldAgrees
<1>20. new.events \in SUBSET EventRec
  <2>1. AcceptTime \in 1..AcceptTime
    BY DEF BattlegroundAssumption
  <2>2. all \subseteq EventRec
    BY <1>3, <1>6, <2>1 DEF all, EventRec
  <2> QED
    BY <1>2, <1>4, <2>2
<1>21. Timed(iv2, new.events)
  <2> SUFFICES ASSUME NEW r \in Queues, NEW u \in Players, NEW i \in iv2[r][u], i.bg # 0
               PROVE  [player |-> u, queue |-> r, bg |-> i.bg, left |-> i.left] \in new.events
    BY DEF Timed
  <2>1. CASE r = q /\ u \in S
    <3>1. i = [bg |-> b, left |-> AcceptTime]
      BY <1>10, <2>1
    <3>2. [player |-> u, queue |-> r, bg |-> i.bg, left |-> i.left] \in all
      BY <2>1, <3>1 DEF all
    <3> QED
      BY <1>4, <3>2
  <2>2. CASE ~(r = q /\ u \in S)
    <3>1. i \in iv[r][u]
      BY <1>10, <2>2
    <3>2. [player |-> u, queue |-> r, bg |-> i.bg, left |-> i.left] \in w.events
      BY <1>1, <3>1 DEF Timed
    <3> QED
      BY <1>4, <3>2
  <2> QED
    BY <2>1, <2>2
<1>22. new \in Worlds
  <2>1. new.freeSlots \in [Queues -> Seq(Ids)] /\ new.scheduled \in Seq(Queues)
    BY <1>2, <1>4
  <2>2. [groups |-> new.groups, events |-> new.events, scheduled |-> new.scheduled,
         bgs |-> new.bgs, freeSlots |-> new.freeSlots, slot |-> new.slot, ids |-> new.ids] \in Worlds
    BY <1>9, <1>15, <1>16, <1>19, <1>20, <2>1, IsWorld
  <2> QED
    BY <1>4, <2>2
<1>23. WorldOk(new)
  BY <1>9, <1>17, <1>18, <1>19, <1>21, <1>22 DEF WorldOk, WorldAgrees, iv2
<1>24. NothingLost(w, new)
  <2>1. b # NotQueued
    BY <1>3 DEF Ids, NotQueued, BattlegroundAssumption
  <2> QED
    BY <1>12, <1>16, <2>1 DEF NothingLost
<1> QED
  BY <1>4, <1>14, <1>23, <1>24 DEF new

-----------------------------------------------------------------------------
(* The lists of battlegrounds with free slots.                               *)
\* The list of one queue is another.
LEMMA FreeChanged ==
    ASSUME NEW fs, NEW bs, FreeOk(fs, bs), NEW q \in Queues, NEW s \in Seq(Ids), IsInjective(s),
           \A b \in Range(s) : b \in DOMAIN bs /\ bs[b].queue = q
    PROVE  /\ FreeOk(Put(fs, q, s), bs) /\ Put(fs, q, s) = [fs EXCEPT ![q] = s]
           /\ Put(fs, q, s)[q] = s /\ \A r \in Queues : r # q => Put(fs, q, s)[r] = fs[r]
<1>1. fs \in [Queues -> Seq(Ids)]
  BY DEF FreeOk
<1> DEFINE T == Seq(Ids)
           new == Put(fs, q, s)
<1>2. fs \in [Queues -> T] /\ s \in T
  BY <1>1
<1> HIDE DEF T
<1>3. new = [r \in Queues |-> IF r = q THEN s ELSE fs[r]]
  BY <1>2 DEF Put
<1>4. new \in [Queues -> T]
  BY <1>2, <1>3
<1>5. new = [fs EXCEPT ![q] = s]
  BY <1>2, <1>3
<1>6. \A r \in Queues : new[r] = IF r = q THEN s ELSE fs[r]
  BY <1>3
<1> HIDE DEF new
<1>7. \A r \in Queues : /\ IsInjective(new[r])
                        /\ \A b \in Range(new[r]) : b \in DOMAIN bs /\ bs[b].queue = r
  <2> TAKE r \in Queues
  <2>1. CASE r = q
    BY <1>6, <2>1
  <2>2. CASE r # q
    BY <1>6, <2>2 DEF FreeOk
  <2> QED
    BY <2>1, <2>2
<1>8. FreeOk(new, bs)
  BY <1>4, <1>7 DEF FreeOk, T
<1> QED
  BY <1>5, <1>6, <1>8 DEF new

\* A battleground leaves the list ...
LEMMA FreeLess ==
    ASSUME NEW fs, NEW bs, FreeOk(fs, bs), NEW q \in Queues, NEW b
    PROVE  LET s == Keeping(fs[q], Ids \ {b})
           IN /\ FreeOk(Put(fs, q, s), bs) /\ Put(fs, q, s) = [fs EXCEPT ![q] = s]
              /\ b \notin Range(Put(fs, q, s)[q])
              /\ \A r \in Queues : r # q => Put(fs, q, s)[r] = fs[r]
<1> DEFINE old == fs[q]
           s == Keeping(old, Ids \ {b})
<1>1. /\ old \in Seq(Ids) /\ IsInjective(old)
      /\ \A c \in Range(old) : c \in DOMAIN bs /\ bs[c].queue = q
  BY DEF FreeOk
<1> HIDE DEF old
<1>2. /\ s \in Seq(Ids) /\ IsInjective(s) /\ Range(s) = Range(old) \cap (Ids \ {b})
  BY <1>1, KeepingSet
<1> HIDE DEF s
<1>3. /\ \A c \in Range(s) : c \in DOMAIN bs /\ bs[c].queue = q
      /\ b \notin Range(s)
  BY <1>1, <1>2
<1>4. /\ FreeOk(Put(fs, q, s), bs) /\ Put(fs, q, s) = [fs EXCEPT ![q] = s]
      /\ Put(fs, q, s)[q] = s /\ \A r \in Queues : r # q => Put(fs, q, s)[r] = fs[r]
  BY <1>2, <1>3, FreeChanged
<1>5. b \notin Range(Put(fs, q, s)[q])
  BY <1>3, <1>4
<1> QED
  BY <1>4, <1>5 DEF s, old

\* ... or is put in front of it.
LEMMA FreeMore ==
    ASSUME NEW fs, NEW bs, FreeOk(fs, bs), NEW b \in DOMAIN bs, b \in Ids, bs[b].queue \in Queues,
           b \notin Range(fs[bs[b].queue])
    PROVE  FreeOk(Put(fs, bs[b].queue, <<b>> \o fs[bs[b].queue]), bs)
<1> DEFINE q == bs[b].queue
           old == fs[q]
           s == <<b>> \o old
<1>1. /\ old \in Seq(Ids) /\ IsInjective(old) /\ b \notin Range(old)
      /\ \A c \in Range(old) : c \in DOMAIN bs /\ bs[c].queue = q
  BY DEF FreeOk
<1> HIDE DEF old, q
<1>2. /\ s \in Seq(Ids) /\ DOMAIN s = 1..(Len(old) + 1) /\ s[1] = b
      /\ \A i \in 1..Len(old) : s[i + 1] = old[i]
  BY <1>1, Prepend
<1>3. Len(old) \in Nat /\ DOMAIN old = 1..Len(old)
  BY <1>1
<1> HIDE DEF s
<1>4. \A k \in DOMAIN s : k = 1 \/ (k - 1 \in DOMAIN old /\ s[k] = old[k - 1])
  <2> TAKE k \in DOMAIN s
  <2>1. k = 1 \/ (k - 1 \in 1..Len(old) /\ k = (k - 1) + 1)
    BY <1>2, <1>3
  <2> QED
    BY <1>2, <1>3, <2>1
<1>5. IsInjective(s)
  <2> SUFFICES ASSUME NEW j \in DOMAIN s, NEW k \in DOMAIN s, s[j] = s[k] PROVE j = k
    BY DEF IsInjective
  <2>1. \A i \in DOMAIN old : old[i] # b
    BY <1>1 DEF Range
  <2>2. \A i, m \in DOMAIN old : old[i] = old[m] => i = m
    BY <1>1 DEF IsInjective
  <2>3. j \in Int /\ k \in Int
    BY <1>2
  <2>4. \A m \in DOMAIN s : m # 1 => m - 1 \in DOMAIN old /\ s[m] = old[m - 1]
    BY <1>4
  <2>5. \A m \in DOMAIN s : m # 1 => s[m] # b
    BY <2>1, <2>4
  <2>6. j # 1 /\ k # 1 => j - 1 = k - 1
    BY <2>2, <2>4
  <2> QED
    BY <1>2, <2>3, <2>5, <2>6
<1>6. \A c \in Range(s) : c = b \/ c \in Range(old)
  BY <1>2, <1>4 DEF Range
<1>7. \A c \in Range(s) : c \in DOMAIN bs /\ bs[c].queue = q
  BY <1>1, <1>6 DEF q
<1>8. q \in Queues
  BY DEF q
<1>9. FreeOk(Put(fs, q, s), bs)
  BY <1>2, <1>5, <1>7, <1>8, FreeChanged
<1> QED
  BY <1>9 DEF s, old, q

-----------------------------------------------------------------------------
(* The update of one queue.                                                  *)
\* It has changed w into v.
Updated(w, v) == WorldOk(v) /\ NothingLost(w, v) /\ v.scheduled = w.scheduled

\* One update after another.
LEMMA UpdatedTwice ==
    ASSUME NEW u, NEW v, NEW w, Updated(u, v), Updated(v, w)
    PROVE  Updated(u, w)
BY DEF Updated, NothingLost

\* Another list of battlegrounds with free slots.
LEMMA FreeWorld ==
    ASSUME NEW w, WorldOk(w), NEW fs, FreeOk(fs, w.bgs)
    PROVE  Updated(w, [w EXCEPT !.freeSlots = fs]) /\ [w EXCEPT !.freeSlots = fs].bgs = w.bgs
<1> DEFINE new == [w EXCEPT !.freeSlots = fs]
<1>1. WorldAgrees(w) /\ Timed(InvitationsOf(w.groups), w.events)
  BY DEF WorldOk
<1>2. /\ w.events \in SUBSET EventRec /\ w.scheduled \in Seq(Queues) /\ BgsOk(w.bgs) /\ SlotOk(w.slot)
      /\ w = [groups |-> w.groups, events |-> w.events, scheduled |-> w.scheduled, bgs |-> w.bgs,
              freeSlots |-> w.freeSlots, slot |-> w.slot, ids |-> w.ids]
  BY <1>1, WorldFields
<1>3. /\ GroupsOk(w.groups) /\ OfflineOk(w.bgs, place)
      /\ IdsOk(w.ids, DOMAIN w.bgs \cup Gone) /\ DOMAIN w.bgs \cap Gone = {}
      /\ Agree(InvitationsOf(w.groups), w.bgs, w.slot, place, bgId)
  BY <1>1 DEF WorldAgrees
<1>4. fs \in [Queues -> Seq(Ids)]
  BY DEF FreeOk
<1> HIDE DEF new
<1>5. new = [groups |-> w.groups, events |-> w.events, scheduled |-> w.scheduled, bgs |-> w.bgs,
             freeSlots |-> fs, slot |-> w.slot, ids |-> w.ids]
  BY <1>2 DEF new
<1>6. new \in Worlds
  BY <1>2, <1>3, <1>4, <1>5, IsWorld
<1>7. /\ new.groups = w.groups /\ new.events = w.events /\ new.scheduled = w.scheduled
      /\ new.bgs = w.bgs /\ new.freeSlots = fs /\ new.slot = w.slot /\ new.ids = w.ids
  BY <1>5
<1>8. WorldOk(new)
  BY <1>1, <1>3, <1>6, <1>7 DEF WorldOk, WorldAgrees
<1> QED
  BY <1>7, <1>8 DEF Updated, NothingLost, new

\* FillPlayersToBG and the invitations, for one battleground.
LEMMA FillBattlegroundView ==
    ASSUME BattlegroundAssumption, NEW w, WorldOk(w), NEW q \in Queues, NEW b \in DOMAIN w.bgs,
           w.bgs[b].queue = q
    PROVE  LET new == FillBattleground(w, q, b)
           IN Updated(w, new) /\ SameShape(w.bgs, new.bgs)
<1> DEFINE pools == [t \in Teams |-> Fill(EmptyPool, w.groups[q][<<"normal", t>>], FreeSlots(w.bgs[b], t))]
           v == Invite(w, q, b, pools)
           fs == Put(v.freeSlots, q, Keeping(v.freeSlots[q], Ids \ {b}))
<1>1. WorldAgrees(w)
  BY DEF WorldOk
<1>2. ListsInv(w.groups[q]) /\ BgsOk(w.bgs)
  BY <1>1, WorldFields
<1>3. w.bgs[b] \in BgRec
  BY <1>2, BgFields
<1>4. PoolsFit(pools, w.groups[q], [t \in Teams |-> Room(w.bgs[b], t)])
  BY <1>2, <1>3, RunningPoolsFit
<1>5. \/ FillBattleground(w, q, b) = w
      \/ FillBattleground(w, q, b) = v
      \/ FillBattleground(w, q, b) = [v EXCEPT !.freeSlots = fs]
  BY DEF FillBattleground
<1> HIDE DEF pools
<1>6. WorldOk(v) /\ NothingLost(w, v) /\ SameShape(w.bgs, v.bgs) /\ v.scheduled = w.scheduled
  BY <1>4, InviteView
<1> HIDE DEF v, fs
<1>7. Updated(w, v)
  BY <1>6 DEF Updated
<1>8. Updated(w, w) /\ SameShape(w.bgs, w.bgs)
  BY DEF Updated, NothingLost, SameShape
<1>9. Updated(w, [v EXCEPT !.freeSlots = fs]) /\ [v EXCEPT !.freeSlots = fs].bgs = v.bgs
  <2>1. FreeOk(v.freeSlots, v.bgs)
    BY <1>6 DEF WorldOk, WorldAgrees
  <2>2. FreeOk(fs, v.bgs)
    BY <2>1, FreeLess DEF fs
  <2> QED
    BY <1>6, <1>7, <2>2, FreeWorld, UpdatedTwice
<1> QED
  BY <1>5, <1>6, <1>7, <1>8, <1>9

\* All that had free slots.
LEMMA FillRunningView ==
    ASSUME BattlegroundAssumption, NEW w0, WorldOk(w0), NEW q \in Queues
    PROVE  Updated(w0, FillRunning(w0, q))
<1> DEFINE s == w0.freeSlots[q]
           n == Len(s)
           Good == [i \in 0..n |-> {w \in Worlds : Updated(w0, w) /\ SameShape(w0.bgs, w.bgs)}]
<1>1. WorldAgrees(w0) /\ w0 \in Worlds /\ FreeOk(w0.freeSlots, w0.bgs)
  BY DEF WorldOk, WorldAgrees
<1>2. s \in Seq(Ids) /\ \A i \in DOMAIN s : s[i] \in DOMAIN w0.bgs /\ w0.bgs[s[i]].queue = q
  BY <1>1 DEF FreeOk, Range
<1>3. n \in Nat /\ DOMAIN s = 1..n
  BY <1>2
<1>4. w0 \in Good[0]
  <2>1. Updated(w0, w0) /\ SameShape(w0.bgs, w0.bgs)
    BY DEF Updated, NothingLost, SameShape
  <2>2. 0 \in 0..n
    BY <1>3
  <2> QED
    BY <1>1, <2>1, <2>2
<1>5. ASSUME NEW i \in 1..n, NEW w \in Good[i - 1]
      PROVE  FillBattleground(w, q, s[i]) \in Good[i]
  <2>1. i - 1 \in 0..n /\ i \in 0..n /\ i \in DOMAIN s
    BY <1>3
  <2>2. Updated(w0, w) /\ SameShape(w0.bgs, w.bgs)
    BY <2>1
  <2> DEFINE b == s[i]
             new == FillBattleground(w, q, b)
  <2>3. b \in DOMAIN w.bgs /\ w.bgs[b].queue = q
    BY <1>2, <2>1, <2>2 DEF SameShape
  <2> HIDE DEF b, s, n
  <2>4. Updated(w, new) /\ SameShape(w.bgs, new.bgs)
    BY <2>2, <2>3, FillBattlegroundView DEF Updated
  <2> HIDE DEF new
  <2>5. Updated(w0, new)
    BY <2>2, <2>4, UpdatedTwice
  <2>6. SameShape(w0.bgs, new.bgs)
    BY <2>2, <2>4 DEF SameShape
  <2>7. new \in Worlds
    BY <2>5 DEF Updated, WorldOk, WorldAgrees
  <2>8. new \in Good[i]
    BY <2>1, <2>5, <2>6, <2>7
  <2> QED
    BY <2>8 DEF new, b
<1> HIDE DEF Good
<1>6. FillRunning(w0, q) \in Good[n]
  <2> HIDE DEF n
  <2>1. DOMAIN w0.freeSlots[q] = 1..n
    BY <1>3
  <2>2. \A i \in 1..n : \A w \in Good[i - 1] : FillBattleground(w, q, w0.freeSlots[q][i]) \in Good[i]
    BY <1>5
  <2> QED
    BY <1>3, <1>4, <2>1, <2>2, RunningFold
<1> QED
  BY <1>3, <1>6 DEF Good

\* A queue whose lists are others.
LEMMA PutView ==
    ASSUME NEW gs, GroupsOk(gs), NEW q \in Queues, NEW lists, ListsInv(lists)
    PROVE  /\ GroupsOk(Put(gs, q, lists)) /\ Put(gs, q, lists)[q] = lists
           /\ \A r \in Queues : r # q => Put(gs, q, lists)[r] = gs[r]
           /\ \A r \in Queues, p \in Players :
                  InvitationsOf(Put(gs, q, lists))[r][p] =
                      IF r = q THEN Invitations(lists, p) ELSE InvitationsOf(gs)[r][p]
<1> DEFINE T == [Lists -> Seq(GroupRec)]
           new == Put(gs, q, lists)
<1>1. lists \in T /\ gs \in [Queues -> T]
  BY DEF ListsInv, GroupsOk
<1> HIDE DEF T
<1>2. new = [r \in Queues |-> IF r = q THEN lists ELSE gs[r]]
  BY <1>1 DEF Put
<1>3. new \in [Queues -> T] /\ \A r \in Queues : new[r] = IF r = q THEN lists ELSE gs[r]
  BY <1>1, <1>2
<1> HIDE DEF new
<1>4. GroupsOk(new)
  BY <1>3 DEF GroupsOk, T
<1>5. \A r \in Queues, p \in Players :
          InvitationsOf(new)[r][p] = IF r = q THEN Invitations(lists, p) ELSE InvitationsOf(gs)[r][p]
  BY <1>3 DEF InvitationsOf
<1> QED
  BY <1>3, <1>4, <1>5 DEF new

\* Of which the groups are invited as before.
LEMMA SameInvitations ==
    ASSUME NEW gs, NEW hs, \A q \in Queues, p \in Players : InvitationsOf(gs)[q][p] = InvitationsOf(hs)[q][p]
    PROVE  InvitationsOf(gs) = InvitationsOf(hs)
BY DEF InvitationsOf

\* A queue whose lists are others, of which the groups are invited as before.
LEMMA ListsWorld ==
    ASSUME NEW w, WorldOk(w), NEW q \in Queues, NEW lists, ListsInv(lists),
           \A p : GroupOf(lists, p) = GroupOf(w.groups[q], p)
    PROVE  Updated(w, [w EXCEPT !.groups = Put(@, q, lists)])
<1> DEFINE gs2 == Put(w.groups, q, lists)
           new == [w EXCEPT !.groups = gs2]
<1> HIDE DEF gs2
<1>1. WorldAgrees(w) /\ Timed(InvitationsOf(w.groups), w.events)
  BY DEF WorldOk
<1>2. /\ w.events \in SUBSET EventRec /\ w.scheduled \in Seq(Queues) /\ BgsOk(w.bgs) /\ SlotOk(w.slot)
      /\ w.freeSlots \in [Queues -> Seq(Ids)]
      /\ w = [groups |-> w.groups, events |-> w.events, scheduled |-> w.scheduled, bgs |-> w.bgs,
              freeSlots |-> w.freeSlots, slot |-> w.slot, ids |-> w.ids]
  BY <1>1, WorldFields
<1>3. /\ GroupsOk(w.groups) /\ OfflineOk(w.bgs, place) /\ FreeOk(w.freeSlots, w.bgs)
      /\ IdsOk(w.ids, DOMAIN w.bgs \cup Gone) /\ DOMAIN w.bgs \cap Gone = {}
      /\ Agree(InvitationsOf(w.groups), w.bgs, w.slot, place, bgId)
  BY <1>1 DEF WorldAgrees
<1>4. /\ GroupsOk(gs2)
      /\ \A r \in Queues, p \in Players :
             InvitationsOf(gs2)[r][p] =
                 IF r = q THEN Invitations(lists, p) ELSE InvitationsOf(w.groups)[r][p]
  BY <1>3, PutView DEF gs2
<1>5. InvitationsOf(gs2) = InvitationsOf(w.groups)
  <2>1. \A p \in Players : Invitations(lists, p) = Invitations(w.groups[q], p)
    BY DEF Invitations
  <2>2. \A r \in Queues, p \in Players : InvitationsOf(gs2)[r][p] = InvitationsOf(w.groups)[r][p]
    BY <1>4, <2>1 DEF InvitationsOf
  <2> QED
    BY <2>2, SameInvitations
<1> HIDE DEF new
<1>6. new = [groups |-> gs2, events |-> w.events, scheduled |-> w.scheduled, bgs |-> w.bgs,
             freeSlots |-> w.freeSlots, slot |-> w.slot, ids |-> w.ids]
  BY <1>2 DEF new
<1>7. new \in Worlds
  BY <1>2, <1>3, <1>4, <1>6, IsWorld
<1>8. /\ new.groups = gs2 /\ new.events = w.events /\ new.scheduled = w.scheduled
      /\ new.bgs = w.bgs /\ new.freeSlots = w.freeSlots /\ new.slot = w.slot /\ new.ids = w.ids
  BY <1>6
<1>9. WorldOk(new)
  BY <1>1, <1>3, <1>4, <1>5, <1>7, <1>8 DEF WorldOk, WorldAgrees
<1> QED
  BY <1>8, <1>9 DEF Updated, NothingLost, new, gs2

\* CreateNewBattleground, before anybody is invited to it.
NewBg(q) == [queue |-> q, status |-> "join", invited |-> [t \in Teams |-> 0],
             players |-> {}, offline |-> <<>>]

Made(w, q) == [w EXCEPT !.ids = GenerateInstanceId(@), !.bgs = Put(@, w.ids.next, NewBg(q)),
                        !.freeSlots = Put(@, q, <<w.ids.next>> \o @[q])]

\* It is a battleground.
LEMMA NewBgView ==
    ASSUME NEW q \in Queues
    PROVE  NewBg(q) \in BgRec /\ IsInjective(NewBg(q).offline) /\ Range(NewBg(q).offline) = {}
<1>1. <<>> \in Seq(Players) /\ DOMAIN <<>> = {}
  OBVIOUS
<1>2. [t \in Teams |-> 0] \in [Teams -> Int]
  OBVIOUS
<1>3. NewBg(q) \in BgRec
  BY <1>1, <1>2 DEF NewBg, BgRec
<1>4. NewBg(q).offline = <<>>
  BY DEF NewBg
<1>5. \A s : s = <<>> => IsInjective(s) /\ Range(s) = {}
  BY <1>1 DEF IsInjective, Range
<1> QED
  BY <1>3, <1>4, <1>5

\* Another battleground, with an id that was not used.
OneMore(bs, b, q) == Put(bs, b, NewBg(q))

\* The battlegrounds keep their types, and the others are as before.
LEMMA MadeBgs ==
    ASSUME NEW bs, BgsOk(bs), NEW b \in Ids, b \notin DOMAIN bs, NEW q \in Queues
    PROVE  /\ BgsOk(OneMore(bs, b, q)) /\ DOMAIN OneMore(bs, b, q) = DOMAIN bs \cup {b}
           /\ OneMore(bs, b, q)[b] = NewBg(q)
           /\ \A c \in DOMAIN bs : OneMore(bs, b, q)[c] = bs[c]
<1> DEFINE bs2 == OneMore(bs, b, q)
<1>1. /\ DOMAIN bs2 = DOMAIN bs \cup {b} /\ bs2[b] = NewBg(q)
      /\ \A c \in DOMAIN bs : bs2[c] = bs[c]
      /\ bs2 = [c \in DOMAIN bs2 |-> bs2[c]]
  BY DEF Put, OneMore
<1> HIDE DEF bs2
<1>2. \A c \in DOMAIN bs2 : bs2[c] \in BgRec
  BY <1>1, NewBgView DEF BgsOk
<1>3. DOMAIN bs2 \subseteq Ids
  BY <1>1 DEF BgsOk
<1>4. BgsOk(bs2)
  BY <1>1, <1>2, <1>3 DEF BgsOk
<1> QED
  BY <1>1, <1>4 DEF bs2

\* CreateNewBattleground.
LEMMA MadeView ==
    ASSUME BattlegroundAssumption, NEW w, WorldOk(w), NEW q \in Queues, w.ids.next <= MaxId
    PROVE  LET new == Made(w, q)
           IN /\ Updated(w, new) /\ w.ids.next \in DOMAIN new.bgs /\ new.groups = w.groups
              /\ new.bgs[w.ids.next] = NewBg(q)
<1> DEFINE b == w.ids.next
           bs2 == OneMore(w.bgs, b, q)
           fs2 == Put(w.freeSlots, q, <<b>> \o w.freeSlots[q])
           i2 == GenerateInstanceId(w.ids)
           new == Made(w, q)
           used == DOMAIN w.bgs \cup Gone
           iv == InvitationsOf(w.groups)
<1>1. WorldAgrees(w) /\ Timed(iv, w.events)
  BY DEF WorldOk
<1>2. /\ w.events \in SUBSET EventRec /\ w.scheduled \in Seq(Queues) /\ BgsOk(w.bgs) /\ SlotOk(w.slot)
      /\ w = [groups |-> w.groups, events |-> w.events, scheduled |-> w.scheduled, bgs |-> w.bgs,
              freeSlots |-> w.freeSlots, slot |-> w.slot, ids |-> w.ids]
  BY <1>1, WorldFields
<1>3. /\ GroupsOk(w.groups) /\ OfflineOk(w.bgs, place) /\ FreeOk(w.freeSlots, w.bgs)
      /\ IdsOk(w.ids, used) /\ DOMAIN w.bgs \cap Gone = {}
      /\ Agree(iv, w.bgs, w.slot, place, bgId)
  BY <1>1 DEF WorldAgrees
<1>4. b \notin used /\ b \in Ids
  <2>1. b \in Nat /\ b >= 1 /\ b \notin used
    BY <1>3 DEF IdsOk
  <2>2. MaxId \in Nat
    BY DEF BattlegroundAssumption
  <2> QED
    BY <2>1, <2>2 DEF Ids
<1>5. new = [groups |-> w.groups, events |-> w.events, scheduled |-> w.scheduled, bgs |-> bs2,
             freeSlots |-> fs2, slot |-> w.slot, ids |-> i2]
  <2>1. new = [w EXCEPT !.ids = i2, !.bgs = bs2, !.freeSlots = fs2]
    BY DEF Made, OneMore
  <2> HIDE DEF new, i2, bs2, fs2
  <2> QED
    BY <1>2, <2>1
<1> HIDE DEF b, iv, bs2, fs2, i2, new
<1>6. /\ BgsOk(bs2) /\ DOMAIN bs2 = DOMAIN w.bgs \cup {b} /\ bs2[b] = NewBg(q)
      /\ \A c \in DOMAIN w.bgs : bs2[c] = w.bgs[c]
  <2>1. BgsOk(w.bgs) /\ b \in Ids /\ b \notin DOMAIN w.bgs /\ q \in Queues
    BY <1>2, <1>4
  <2>2. /\ BgsOk(OneMore(w.bgs, b, q)) /\ DOMAIN OneMore(w.bgs, b, q) = DOMAIN w.bgs \cup {b}
        /\ OneMore(w.bgs, b, q)[b] = NewBg(q)
        /\ \A c \in DOMAIN w.bgs : OneMore(w.bgs, b, q)[c] = w.bgs[c]
    BY ONLY <2>1, MadeBgs
  <2> QED
    BY <2>2 DEF bs2
<1>7. IdsOk(i2, used \cup {b})
  BY <1>3, GenerateView DEF i2, b
<1>8. IdsOk(i2, DOMAIN bs2 \cup Gone) /\ DOMAIN bs2 \cap Gone = {}
  <2>1. used \cup {b} = DOMAIN bs2 \cup Gone
    BY <1>6
  <2> QED
    BY <1>3, <1>4, <1>6, <1>7, <2>1, ZenonT(60)
<1>9. FreeOk(w.freeSlots, bs2) /\ b \notin Range(w.freeSlots[q])
  <2>1. /\ w.freeSlots \in [Queues -> Seq(Ids)]
        /\ \A r \in Queues : /\ IsInjective(w.freeSlots[r])
                             /\ \A c \in Range(w.freeSlots[r]) : c \in DOMAIN w.bgs /\ w.bgs[c].queue = r
    BY <1>3 DEF FreeOk
  <2>2. \A r \in Queues : \A c \in Range(w.freeSlots[r]) : c \in DOMAIN bs2 /\ bs2[c].queue = r
    BY <1>6, <2>1
  <2>3. b \notin Range(w.freeSlots[q])
    BY <1>4, <2>1
  <2> QED
    BY <2>1, <2>2, <2>3 DEF FreeOk
<1>10. FreeOk(fs2, bs2)
  <2>1. bs2[b].queue = q /\ b \in DOMAIN bs2
    BY <1>6 DEF NewBg
  <2>2. FreeOk(Put(w.freeSlots, bs2[b].queue, <<b>> \o w.freeSlots[bs2[b].queue]), bs2)
    BY <1>4, <1>9, <2>1, FreeMore
  <2> QED
    BY <2>1, <2>2 DEF fs2
<1>11. OfflineOk(bs2, place)
  <2> SUFFICES ASSUME NEW c \in DOMAIN bs2, bs2[c].status # "leave"
               PROVE  /\ IsInjective(bs2[c].offline)
                      /\ \A p \in Range(bs2[c].offline) : p \in bs2[c].players /\ place[p] = "offline"
    BY DEF OfflineOk
  <2>1. CASE c = b
    BY <1>6, <2>1, NewBgView
  <2>2. CASE c \in DOMAIN w.bgs
    <3>1. bs2[c] = w.bgs[c]
      BY <1>6, <2>2
    <3>2. w.bgs[c].status # "leave"
      BY <3>1
    <3> QED
      BY <1>3, <2>2, <3>1, <3>2 DEF OfflineOk
  <2> QED
    BY <1>6, <2>1, <2>2
<1>12. Agree(iv, bs2, w.slot, place, bgId)
  <2>1. bs2[b].players = {} /\ \A t \in Teams : bs2[b].invited[t] = 0
    BY <1>6 DEF NewBg
  <2>2. b \notin DOMAIN w.bgs
    BY <1>4
  <2> QED
    BY <1>3, <1>6, <2>1, <2>2, MadeAgrees, SMTT(60)
<1>13. fs2 \in [Queues -> Seq(Ids)]
  BY <1>10 DEF FreeOk
<1>14. new \in Worlds
  BY <1>2, <1>3, <1>5, <1>6, <1>8, <1>13, IsWorld
<1>15. /\ new.groups = w.groups /\ new.events = w.events /\ new.scheduled = w.scheduled
       /\ new.bgs = bs2 /\ new.freeSlots = fs2 /\ new.slot = w.slot /\ new.ids = i2
  BY <1>5
<1>16. WorldOk(new)
  BY <1>1, <1>3, <1>8, <1>10, <1>11, <1>12, <1>14, <1>15 DEF WorldOk, WorldAgrees, iv
<1>17. Updated(w, new)
  BY <1>6, <1>15, <1>16 DEF Updated, NothingLost
<1> QED
  BY <1>6, <1>15, <1>17 DEF new, b

\* ... with the invitations: a battleground is created for the players of the pools.
LEMMA CreateView ==
    ASSUME BattlegroundAssumption, NEW w, WorldOk(w), NEW q \in Queues, w.ids.next <= MaxId, NEW pools,
           PoolsFit(pools, w.groups[q], [t \in Teams |-> MaxPlayers])
    PROVE  Updated(w, Create(w, q, pools))
<1> DEFINE b == w.ids.next
           made == Made(w, q)
<1>1. /\ Updated(w, made) /\ b \in DOMAIN made.bgs /\ made.groups = w.groups
      /\ made.bgs[b] = NewBg(q)
  BY MadeView
<1>2. Create(w, q, pools) = Invite(made, q, b, pools)
  BY DEF Create, Made, NewBg
<1> HIDE DEF made, b
<1>3. WorldOk(made) /\ made.bgs[b].queue = q
  BY <1>1 DEF Updated, NewBg
<1>4. \A t \in Teams : Room(made.bgs[b], t) = MaxPlayers
  <2>1. MaxPlayers \in Int /\ 0 < MaxPlayers
    BY DEF BattlegroundAssumption
  <2>2. \A t \in Teams : NewBg(q).invited[t] = 0
    BY DEF NewBg
  <2> QED
    BY <1>1, <2>1, <2>2 DEF Room
<1>5. PoolsFit(pools, made.groups[q], [t \in Teams |-> Room(made.bgs[b], t)])
  BY <1>1, <1>4 DEF PoolsFit
<1> DEFINE v == Invite(made, q, b, pools)
<1>6. WorldOk(v) /\ NothingLost(made, v) /\ v.scheduled = made.scheduled
  BY <1>1, <1>3, <1>5, InviteView
<1> HIDE DEF v
<1>7. Updated(made, v)
  BY <1>6 DEF Updated
<1>8. Updated(w, v)
  BY <1>1, <1>7, UpdatedTwice
<1> QED
  BY <1>2, <1>8 DEF v

\* BattlegroundQueueUpdate.
LEMMA UpdateQueueView ==
    ASSUME BattlegroundAssumption, NEW w0, WorldOk(w0), NEW q \in Queues, NEW late
    PROVE  Updated(w0, UpdateQueue(w0, q, late))
<1> DEFINE w1 == FillRunning(w0, q)
           premade == PremadeMatch(w1.groups[q])
           w2 == IF ~premade THEN [w1 EXCEPT !.groups = Put(@, q, Moved(@[q], late))]
                 ELSE IF w1.ids.next <= MaxId THEN Create(w1, q, PremadePools(w1.groups[q]))
                 ELSE w1
           w3 == Create(w2, q, NormalPools(w2.groups[q]))
<1>1. \/ UpdateQueue(w0, q, late) = w0
      \/ UpdateQueue(w0, q, late) = w2
      \/ w2.ids.next <= MaxId /\ UpdateQueue(w0, q, late) = w3
  BY DEF UpdateQueue
<1>2. Updated(w0, w0)
  BY DEF Updated, NothingLost
<1>3. Updated(w0, w1)
  BY FillRunningView
<1>4. \/ ~premade /\ w2 = [w1 EXCEPT !.groups = Put(@, q, Moved(@[q], late))]
      \/ premade /\ w1.ids.next <= MaxId /\ w2 = Create(w1, q, PremadePools(w1.groups[q]))
      \/ w2 = w1
  OBVIOUS
<1> HIDE DEF w1, w2
<1>5. WorldOk(w1) /\ ListsInv(w1.groups[q])
  BY <1>3, WorldFields DEF Updated, WorldOk
<1>6. Updated(w0, w2)
  <2>1. CASE w2 = [w1 EXCEPT !.groups = Put(@, q, Moved(@[q], late))]
    <3> DEFINE lists == Moved(w1.groups[q], late)
    <3>1. ListsInv(lists) /\ \A p : GroupOf(lists, p) = GroupOf(w1.groups[q], p)
      BY <1>5, MovedView
    <3>2. w2 = [w1 EXCEPT !.groups = Put(@, q, lists)]
      BY <2>1
    <3> HIDE DEF lists
    <3>3. Updated(w1, w2)
      BY <1>5, <3>1, <3>2, ListsWorld
    <3> QED
      BY <1>3, <3>3, UpdatedTwice
  <2>2. CASE premade /\ w1.ids.next <= MaxId /\ w2 = Create(w1, q, PremadePools(w1.groups[q]))
    <3>1. PoolsFit(PremadePools(w1.groups[q]), w1.groups[q], [t \in Teams |-> MaxPlayers])
      BY <1>5, <2>2, PremadePoolsFit
    <3>2. Updated(w1, w2)
      BY <1>5, <2>2, <3>1, CreateView
    <3> QED
      BY <1>3, <3>2, UpdatedTwice
  <2>3. CASE w2 = w1
    BY <1>3, <2>3
  <2> QED
    BY <1>4, <2>1, <2>2, <2>3
<1>7. ASSUME w2.ids.next <= MaxId PROVE Updated(w0, w3)
  <2>1. WorldOk(w2) /\ ListsInv(w2.groups[q])
    BY <1>6, WorldFields DEF Updated, WorldOk
  <2>2. PoolsFit(NormalPools(w2.groups[q]), w2.groups[q], [t \in Teams |-> MaxPlayers])
    BY <2>1, NormalPoolsFit
  <2>3. Updated(w2, w3)
    BY <1>7, <2>1, <2>2, CreateView
  <2> QED
    BY <1>6, <2>3, UpdatedTwice
<1> QED
  BY <1>1, <1>2, <1>6, <1>7

\* The updates that were scheduled.
LEMMA UpdateScheduledView ==
    ASSUME BattlegroundAssumption, NEW w0, WorldOk(w0), NEW late
    PROVE  Updated(w0, UpdateScheduled(w0, late))
<1> DEFINE s == w0.scheduled
           n == Len(s)
           Good == [i \in 0..n |-> {w \in Worlds : Updated(w0, w)}]
<1>1. WorldAgrees(w0) /\ w0 \in Worlds
  BY DEF WorldOk, WorldAgrees
<1>2. s \in Seq(Queues)
  BY <1>1, WorldFields
<1>3. n \in Nat /\ DOMAIN s = 1..n
  BY <1>2
<1>4. w0 \in Good[0]
  <2>1. Updated(w0, w0)
    BY DEF Updated, NothingLost
  <2>2. 0 \in 0..n
    BY <1>3
  <2> QED
    BY <1>1, <2>1, <2>2
<1>5. ASSUME NEW i \in 1..n, NEW w \in Good[i - 1]
      PROVE  UpdateQueue(w, s[i], late) \in Good[i]
  <2>1. i - 1 \in 0..n /\ i \in 0..n /\ i \in DOMAIN s
    BY <1>3
  <2>2. Updated(w0, w) /\ s[i] \in Queues
    BY <1>2, <2>1
  <2> DEFINE new == UpdateQueue(w, s[i], late)
  <2>3. Updated(w, new)
    BY <2>2, UpdateQueueView DEF Updated
  <2> HIDE DEF new
  <2>4. Updated(w0, new)
    BY <2>2, <2>3, UpdatedTwice
  <2>5. new \in Worlds
    BY <2>4 DEF Updated, WorldOk, WorldAgrees
  <2>6. new \in Good[i]
    BY <2>1, <2>4, <2>5
  <2> QED
    BY <2>6 DEF new
<1> HIDE DEF Good
<1>6. UpdateScheduled(w0, late) \in Good[n]
  <2> HIDE DEF n
  <2>1. DOMAIN w0.scheduled = 1..n
    BY <1>3
  <2>2. \A i \in 1..n : \A w \in Good[i - 1] : UpdateQueue(w, w0.scheduled[i], late) \in Good[i]
    BY <1>5
  <2> QED
    BY <1>3, <1>4, <2>1, <2>2, UpdateFold
<1> QED
  BY <1>3, <1>6 DEF Good

-----------------------------------------------------------------------------
(* Leaving a queue.                                                          *)
\* The battlegrounds that count one less are those of p's invitations.
LEMMA UninvitedView ==
    ASSUME BattlegroundAssumption, NEW bs, BgsOk(bs), NEW lists, ListsInv(lists), NEW p \in Players
    PROVE  /\ Uninvited(bs, lists, p) = Fewer(bs, p, {i.bg : i \in Invitations(lists, p)})
           /\ SameShape(bs, Uninvited(bs, lists, p)) /\ BgsOk(Uninvited(bs, lists, p))
<1> DEFINE S == {i.bg : i \in Invitations(lists, p)}
           T == {g.invited : g \in GroupOf(lists, p)}
<1>1. S = T
  <2>1. ASSUME NEW g \in GroupOf(lists, p) PROVE g.invited \in S
    <3>1. [bg |-> g.invited, left |-> g.left] \in Invitations(lists, p)
      BY DEF Invitations
    <3>2. [bg |-> g.invited, left |-> g.left].bg = g.invited
      OBVIOUS
    <3> QED
      BY <3>1, <3>2
  <2>2. ASSUME NEW i \in Invitations(lists, p) PROVE i.bg \in T
    <3>1. PICK g \in GroupOf(lists, p) : i = [bg |-> g.invited, left |-> g.left]
      BY DEF Invitations
    <3> QED
      BY <3>1
  <2> QED
    BY <2>1, <2>2
<1>2. Uninvited(bs, lists, p) = Fewer(bs, p, S)
  BY <1>1 DEF Uninvited, Fewer
<1> HIDE DEF S
<1>3. /\ BgsOk(Fewer(bs, p, S)) /\ DOMAIN Fewer(bs, p, S) = DOMAIN bs
      /\ \A b \in DOMAIN bs :
             /\ Fewer(bs, p, S)[b].queue = bs[b].queue
             /\ Fewer(bs, p, S)[b].status = bs[b].status
             /\ Fewer(bs, p, S)[b].players = bs[b].players
             /\ Fewer(bs, p, S)[b].offline = bs[b].offline
  BY FewerView
<1> QED
  BY <1>2, <1>3 DEF SameShape, S

\* One slot of one player is another.
SlotWith(sl, p, q, v) == Put(sl, p, [sl[p] EXCEPT ![q] = v])

\* It is that slot alone.
LEMMA SlotWithView ==
    ASSUME NEW sl, SlotOk(sl), NEW p \in Players, NEW q \in Queues, NEW v \in Ids \cup {0, NotQueued}
    PROVE  /\ SlotOk(SlotWith(sl, p, q, v))
           /\ \A u \in Players : u # p => SlotWith(sl, p, q, v)[u] = sl[u]
           /\ \A u \in Players, r \in Queues :
                  SlotWith(sl, p, q, v)[u][r] = IF u = p /\ r = q THEN v ELSE sl[u][r]
           /\ SlotWith(sl, p, q, v) = [sl EXCEPT ![p][q] = v]
<1> DEFINE T == Ids \cup {0, NotQueued}
           new == SlotWith(sl, p, q, v)
           row == [sl[p] EXCEPT ![q] = v]
<1>1. sl \in [Players -> [Queues -> T]] /\ v \in T
  BY DEF SlotOk
<1> HIDE DEF T
<1>2. row \in [Queues -> T] /\ \A r \in Queues : row[r] = IF r = q THEN v ELSE sl[p][r]
  BY <1>1
<1>3. [sl EXCEPT ![p][q] = v] = [sl EXCEPT ![p] = row]
  BY <1>1
<1> HIDE DEF row
<1>4. new = [u \in Players |-> IF u = p THEN row ELSE sl[u]]
  BY <1>1 DEF SlotWith, Put, row
<1>5. new \in [Players -> [Queues -> T]] /\ \A u \in Players : new[u] = IF u = p THEN row ELSE sl[u]
  BY <1>1, <1>2, <1>4
<1>6. [sl EXCEPT ![p] = row] = new
  BY <1>1, <1>4
<1> HIDE DEF new
<1>7. SlotOk(new)
  BY <1>5 DEF SlotOk, T
<1>8. \A u \in Players, r \in Queues : new[u][r] = IF u = p /\ r = q THEN v ELSE sl[u][r]
  BY <1>2, <1>5
<1> QED
  BY <1>3, <1>5, <1>6, <1>7, <1>8 DEF new

\* p has no invitation of q any more.
LeftQueue(iv, iv2, q, p) ==
    \A r \in Queues, u \in Players : iv2[r][u] = IF r = q /\ u = p THEN {} ELSE iv[r][u]

\* p leaves the queue q, and keeps his slot for now.
OutOf(gs, q, p) == Put(gs, q, Without(gs[q], p))

\* The battleground he was invited to, if there is one, counts one less.
LEMMA OutOfQueueAgrees ==
    ASSUME BattlegroundAssumption, NEW gs, GroupsOk(gs), NEW bs, NEW sl, NEW pl, NEW bi,
           Agree(InvitationsOf(gs), bs, sl, pl, bi), NEW q \in Queues, NEW p \in Players
    PROVE  /\ GroupsOk(OutOf(gs, q, p))
           /\ Agree(InvitationsOf(OutOf(gs, q, p)), Uninvited(bs, gs[q], p), sl, pl, bi)
           /\ LeftQueue(InvitationsOf(gs), InvitationsOf(OutOf(gs, q, p)), q, p)
<1> DEFINE lists == Without(gs[q], p)
           gs2 == OutOf(gs, q, p)
           bs2 == Uninvited(bs, gs[q], p)
           iv == InvitationsOf(gs)
           iv2 == InvitationsOf(gs2)
<1>1. BgsOk(bs) /\ ListsInv(gs[q])
  BY DEF Agree, GroupsOk
<1>2. ListsInv(lists) /\ \A u : Invitations(lists, u) = IF u = p THEN {} ELSE Invitations(gs[q], u)
  BY <1>1, WithoutView, WithoutInvitations
<1>11. gs2 = Put(gs, q, lists)
  BY DEF OutOf
<1> HIDE DEF lists, gs2
<1>3. /\ GroupsOk(gs2)
      /\ \A r \in Queues, u \in Players : iv2[r][u] = IF r = q THEN Invitations(lists, u) ELSE iv[r][u]
  BY <1>2, <1>11, PutView
<1>4. \A u \in Players : iv[q][u] = Invitations(gs[q], u)
  BY DEF InvitationsOf
<1>5. \A r \in Queues, u \in Players : iv2[r][u] = IF r = q /\ u = p THEN {} ELSE iv[r][u]
  BY <1>2, <1>3, <1>4, ZenonT(60)
<1>6. InvitedOk(iv2)
  BY <1>3, InvitedTyped
<1>7. bs2 = Fewer(bs, p, {i.bg : i \in iv[q][p]})
  BY <1>1, <1>4, UninvitedView
<1> HIDE DEF iv, iv2, bs2
<1>8. Agree(iv, bs, sl, pl, bi)
  BY DEF iv
<1>9. Agree(iv2, Fewer(bs, p, {i.bg : i \in iv[q][p]}), sl, pl, bi)
  BY <1>5, <1>6, <1>8, LeavesAgree
<1>10. Agree(iv2, bs2, sl, pl, bi)
  BY <1>7, <1>9
<1> QED
  BY <1>3, <1>5, <1>10 DEF gs2, iv, iv2, bs2, lists, LeftQueue

\* He has been in it, and is not any more.
LEMMA LeaveQueueAgrees ==
    ASSUME BattlegroundAssumption, NEW gs, GroupsOk(gs), NEW bs, NEW sl, NEW pl, NEW bi,
           Agree(InvitationsOf(gs), bs, sl, pl, bi), NEW q \in Queues, NEW p \in Players,
           GroupOf(gs[q], p) # {}
    PROVE  /\ GroupsOk(OutOf(gs, q, p))
           /\ Agree(InvitationsOf(OutOf(gs, q, p)), Uninvited(bs, gs[q], p),
                    SlotWith(sl, p, q, NotQueued), pl, bi)
           /\ LeftQueue(InvitationsOf(gs), InvitationsOf(OutOf(gs, q, p)), q, p)
<1> DEFINE gs2 == OutOf(gs, q, p)
           bs2 == Uninvited(bs, gs[q], p)
           iv == InvitationsOf(gs)
           iv2 == InvitationsOf(gs2)
           sl2 == SlotWith(sl, p, q, NotQueued)
<1>1. /\ GroupsOk(gs2) /\ Agree(iv2, bs2, sl, pl, bi)
      /\ \A r \in Queues, u \in Players : iv2[r][u] = IF r = q /\ u = p THEN {} ELSE iv[r][u]
  BY OutOfQueueAgrees DEF LeftQueue
<1>2. BgsOk(bs) /\ ListsInv(gs[q]) /\ SlotOk(sl) /\ PlacesOk(iv, bs, sl, pl, bi)
  BY DEF Agree, GroupsOk
<1>3. SameShape(bs, bs2)
  BY <1>2, UninvitedView
<1>4. iv[q][p] # {}
  <2>1. PICK g : g \in GroupOf(gs[q], p)
    OBVIOUS
  <2>2. [bg |-> g.invited, left |-> g.left] \in Invitations(gs[q], p)
    BY <2>1 DEF Invitations
  <2>3. iv[q][p] = Invitations(gs[q], p)
    BY DEF InvitationsOf
  <2> QED
    BY <2>2, <2>3
<1>5. ~ (pl[p] \in {"transit", "bg"} /\ bs[bi[p]].queue = q)
  BY <1>2, <1>4 DEF PlacesOk
<1>6. PlacesOk(iv2, bs2, sl, pl, bi)
  BY <1>1 DEF Agree
<1>7. ~ (pl[p] \in {"transit", "bg"} /\ bs2[bi[p]].queue = q)
  <2>1. pl[p] \in {"transit", "bg"} => bi[p] \in DOMAIN bs2
    BY <1>6 DEF PlacesOk
  <2>2. DOMAIN bs2 = DOMAIN bs /\ \A b \in DOMAIN bs : bs2[b].queue = bs[b].queue
    BY <1>3 DEF SameShape
  <2> QED
    BY <1>5, <2>1, <2>2
<1>8. /\ SlotOk(sl2)
      /\ \A u \in Players, r \in Queues : sl2[u][r] = IF u = p /\ r = q THEN NotQueued ELSE sl[u][r]
  BY <1>2, SlotWithView
<1> HIDE DEF gs2, bs2, iv, iv2, sl2
<1>9. \A u \in Players, r \in Queues : sl2[u][r] # sl[u][r] =>
          /\ iv2[r][u] = {}
          /\ ~ (pl[u] \in {"transit", "bg"} /\ bs2[bi[u]].queue = r)
  BY <1>1, <1>7, <1>8
<1>10. Agree(iv2, bs2, sl2, pl, bi)
  BY <1>1, <1>8, <1>9, SlotAgrees
<1> QED
  BY <1>1, <1>10 DEF gs2, bs2, iv, iv2, sl2, LeftQueue

\* ScheduleQueueUpdate.
LEMMA ScheduleView ==
    ASSUME NEW s, ScheduledOk(s), NEW q \in Queues
    PROVE  ScheduledOk(Schedule(s, q))
<1>1. CASE Contains(s, q)
  BY <1>1 DEF Schedule
<1>2. CASE ~ Contains(s, q)
  <2> DEFINE t == Append(s, q)
  <2>1. s \in Seq(Queues) /\ Len(s) \in Nat /\ DOMAIN s = 1..Len(s)
    BY DEF ScheduledOk
  <2>2. /\ t \in Seq(Queues) /\ Len(t) = Len(s) + 1 /\ t[Len(s) + 1] = q
        /\ \A i \in 1..Len(s) : t[i] = s[i]
    BY <2>1, AppendProperties
  <2>3. \A i \in DOMAIN s : s[i] # q
    BY <1>2, <2>1 DEF Contains
  <2>4. \A i, j \in DOMAIN s : s[i] = s[j] => i = j
    BY DEF ScheduledOk, IsInjective
  <2>5. Schedule(s, q) = t
    BY <1>2 DEF Schedule
  <2> HIDE DEF t
  <2>6. DOMAIN t = 1..(Len(s) + 1)
    BY <2>1, <2>2
  <2>7. IsInjective(t)
    <3> SUFFICES ASSUME NEW i \in DOMAIN t, NEW j \in DOMAIN t, t[i] = t[j] PROVE i = j
      BY DEF IsInjective
    <3>1. (i = Len(s) + 1 \/ i \in DOMAIN s) /\ (j = Len(s) + 1 \/ j \in DOMAIN s)
      BY <2>1, <2>6
    <3> QED
      BY <2>1, <2>2, <2>3, <2>4, <3>1
  <2> QED
    BY <2>2, <2>5, <2>7 DEF ScheduledOk
<1> QED
  BY <1>1, <1>2

-----------------------------------------------------------------------------
(* UpdateEvents.                                                             *)
AnyEvent == [player : Players, queue : Queues, bg : Ids, left : 0..AcceptTime]

Later(r) == [r EXCEPT !.left = IF @ > 0 THEN @ - 1 ELSE 0]

\* One update of the world later.
LaterGroups(gs) == [q \in Queues |-> [l \in Lists |-> [i \in DOMAIN gs[q][l] |-> Later(gs[q][l][i])]]]
LaterEvents(ev) == {Later(e) : e \in ev}
OverEvents(ev) == {e \in LaterEvents(ev) : e.left = 0}

LaterWorld(w) == [w EXCEPT !.events = LaterEvents(w.events) \ OverEvents(w.events),
                           !.groups = LaterGroups(w.groups)]

\* UpdateEvents executes the events that are over, at that time.
LEMMA UpdateEventsIs ==
    ASSUME NEW w \in Worlds
    PROVE  UpdateEvents(w) = FoldSet(ExecuteRemove, LaterWorld(w), OverEvents(w.events))
<1> DEFINE later == [w EXCEPT !.events = {Later(e) : e \in @}, !.groups = LaterGroups(w.groups)]
           over == {e \in later.events : e.left = 0}
<1>1. UpdateEvents(w) = FoldSet(ExecuteRemove, [later EXCEPT !.events = @ \ over], over)
  BY DEF UpdateEvents, LaterGroups, Later
<1>2. w = [groups |-> w.groups, events |-> w.events, scheduled |-> w.scheduled, bgs |-> w.bgs,
           freeSlots |-> w.freeSlots, slot |-> w.slot, ids |-> w.ids]
  BY DEF Worlds
<1>3. later.events = LaterEvents(w.events)
  BY <1>2 DEF LaterEvents
<1>4. over = OverEvents(w.events)
  BY <1>3 DEF OverEvents
<1>5. [later EXCEPT !.events = @ \ over] = LaterWorld(w)
  BY <1>2, <1>3, <1>4 DEF LaterWorld, LaterEvents
<1> QED
  BY <1>1, <1>4, <1>5

\* The events that are over, and the others.
LEMMA LaterEventsView ==
    ASSUME BattlegroundAssumption, NEW ev \in SUBSET EventRec
    PROVE  /\ OverEvents(ev) \in SUBSET AnyEvent /\ IsFiniteSet(OverEvents(ev))
           /\ \A e \in OverEvents(ev) : e.left = 0
           /\ LaterEvents(ev) \ OverEvents(ev) \in SUBSET EventRec
           /\ \A e \in ev : Later(e) \in LaterEvents(ev)
<1>1. ASSUME NEW e \in ev PROVE Later(e) \in AnyEvent /\ (Later(e).left # 0 => Later(e) \in EventRec)
  <2>1. e \in EventRec
    OBVIOUS
  <2>2. e.left \in 1..AcceptTime /\ AcceptTime \in Int
    BY <2>1 DEF EventRec, BattlegroundAssumption
  <2>3. e.left - 1 \in 0..AcceptTime /\ (e.left - 1 # 0 => e.left - 1 \in 1..AcceptTime) /\ e.left > 0
    BY <2>2
  <2>4. e = [player |-> e.player, queue |-> e.queue, bg |-> e.bg, left |-> e.left]
        /\ e.player \in Players /\ e.queue \in Queues /\ e.bg \in Ids
    BY <2>1 DEF EventRec
  <2>5. Later(e) = [player |-> e.player, queue |-> e.queue, bg |-> e.bg, left |-> e.left - 1]
    BY <2>3, <2>4 DEF Later
  <2>6. Later(e).left = e.left - 1
    BY <2>5
  <2>7. Later(e) \in AnyEvent
    BY <2>3, <2>4, <2>5 DEF AnyEvent
  <2>8. e.left - 1 # 0 => Later(e) \in EventRec
    BY <2>3, <2>4, <2>5 DEF EventRec
  <2> QED
    BY <2>6, <2>7, <2>8
<1>2. LaterEvents(ev) \in SUBSET AnyEvent
  BY <1>1 DEF LaterEvents
<1>3. OverEvents(ev) \in SUBSET AnyEvent /\ \A e \in OverEvents(ev) : e.left = 0
  BY <1>2 DEF OverEvents
<1>4. IsFiniteSet(OverEvents(ev))
  BY <1>3, EventsFinite DEF AnyEvent
<1>5. LaterEvents(ev) \ OverEvents(ev) \in SUBSET EventRec
  BY <1>1 DEF LaterEvents, OverEvents
<1> QED
  BY <1>3, <1>4, <1>5 DEF LaterEvents

\* The groups have the players that they had, and their invitations are later.
LEMMA LaterGroupsView ==
    ASSUME BattlegroundAssumption, NEW gs, GroupsOk(gs)
    PROVE  /\ GroupsOk(LaterGroups(gs))
           /\ \A q \in Queues, p \in Players :
                  InvitationsOf(LaterGroups(gs))[q][p] = {Later(i) : i \in InvitationsOf(gs)[q][p]}
<1> DEFINE L == [g \in GroupRec |-> Later(g)]
           gs2 == LaterGroups(gs)
<1>1. ASSUME NEW g \in GroupRec
      PROVE  /\ Later(g) \in GroupRec /\ Later(g).players = g.players /\ Later(g).invited = g.invited
             /\ Later(g).left = IF g.left > 0 THEN g.left - 1 ELSE 0
  <2>1. g.left \in 0..AcceptTime /\ AcceptTime \in Nat
    BY DEF GroupRec, BattlegroundAssumption
  <2>2. (IF g.left > 0 THEN g.left - 1 ELSE 0) \in 0..AcceptTime
    BY <2>1
  <2> QED
    BY <2>2 DEF Later, GroupRec
<1>2. L \in [GroupRec -> GroupRec] /\ \A g \in GroupRec : L[g].players = g.players /\ L[g] = Later(g)
  BY <1>1
<1>3. \A q \in Queues : ListsInv(gs[q]) /\ gs[q] \in [Lists -> Seq(GroupRec)]
  BY DEF GroupsOk
<1>4. \A q \in Queues : gs2[q] = Mapped(gs[q], L)
  <2> TAKE q \in Queues
  <2>1. \A l \in Lists : \A i \in DOMAIN gs[q][l] : gs[q][l][i] \in GroupRec
    BY <1>3
  <2>2. gs2[q] = [l \in Lists |-> [i \in DOMAIN gs[q][l] |-> Later(gs[q][l][i])]]
    BY DEF LaterGroups
  <2>3. Mapped(gs[q], L) = [l \in Lists |-> [i \in DOMAIN gs[q][l] |-> L[gs[q][l][i]]]]
    BY DEF Mapped
  <2> HIDE DEF L
  <2>4. \A l \in Lists : [i \in DOMAIN gs[q][l] |-> Later(gs[q][l][i])] = [i \in DOMAIN gs[q][l] |-> L[gs[q][l][i]]]
    BY <1>2, <2>1
  <2> QED
    BY <2>2, <2>3, <2>4
<1> HIDE DEF L
<1>5. \A q \in Queues : ListsInv(gs2[q])
  BY <1>2, <1>3, <1>4, ListsMapped
<1>6. GroupsOk(gs2)
  <2>1. \A q \in Queues : gs2[q] \in [Lists -> Seq(GroupRec)]
    BY <1>5 DEF ListsInv
  <2>2. gs2 = [q \in Queues |-> gs2[q]]
    BY DEF LaterGroups
  <2> HIDE DEF gs2
  <2>3. gs2 \in [Queues -> [Lists -> Seq(GroupRec)]]
    BY <2>1, <2>2
  <2> QED
    BY <1>5, <2>3 DEF GroupsOk
<1>7. ASSUME NEW q \in Queues, NEW p \in Players
      PROVE  InvitationsOf(gs2)[q][p] = {Later(i) : i \in InvitationsOf(gs)[q][p]}
  <2>1. InvitationsOf(gs2)[q][p] = {[bg |-> L[g].invited, left |-> L[g].left] : g \in GroupOf(gs[q], p)}
    <3>1. InvitationsOf(gs2)[q][p] = Invitations(Mapped(gs[q], L), p)
      BY <1>4 DEF InvitationsOf
    <3> QED
      BY <1>2, <1>3, <3>1, MappedInvitations
  <2>2. InvitationsOf(gs)[q][p] = {[bg |-> g.invited, left |-> g.left] : g \in GroupOf(gs[q], p)}
    BY DEF InvitationsOf, Invitations
  <2>3. ASSUME NEW g \in GroupOf(gs[q], p)
        PROVE  [bg |-> L[g].invited, left |-> L[g].left] = Later([bg |-> g.invited, left |-> g.left])
    <3>1. g \in GroupRec
      BY <1>3, OneGroup
    <3>2. L[g].invited = g.invited /\ L[g].left = IF g.left > 0 THEN g.left - 1 ELSE 0
      BY <1>1, <1>2, <3>1
    <3>3. \A b, n : Later([bg |-> b, left |-> n]) = [bg |-> b, left |-> IF n > 0 THEN n - 1 ELSE 0]
      BY DEF Later
    <3> QED
      BY <3>2, <3>3
  <2> DEFINE G == GroupOf(gs[q], p)
             iv0 == InvitationsOf(gs)[q][p]
             iv2 == InvitationsOf(gs2)[q][p]
             I(g) == [bg |-> g.invited, left |-> g.left]
  <2>4. /\ iv2 = {[bg |-> L[g].invited, left |-> L[g].left] : g \in G}
        /\ iv0 = {I(g) : g \in G}
        /\ \A g \in G : [bg |-> L[g].invited, left |-> L[g].left] = Later(I(g))
    BY <2>1, <2>2, <2>3
  <2> HIDE DEF G, iv0, iv2, I
  <2>5. iv2 = {Later(I(g)) : g \in G}
    BY <2>4
  <2>6. iv2 = {Later(i) : i \in iv0}
    BY <2>4, <2>5
  <2> QED
    BY <2>6 DEF iv0, iv2
<1> QED
  BY <1>6, <1>7

\* Later everything agrees, but for the events that are over.
LEMMA LaterWorldView ==
    ASSUME BattlegroundAssumption, NEW w, WorldOk(w)
    PROVE  LET new == LaterWorld(w)
           IN /\ WorldAgrees(new) /\ new.groups = LaterGroups(w.groups)
              /\ new.events = LaterEvents(w.events) \ OverEvents(w.events)
              /\ new.slot = w.slot /\ new.bgs = w.bgs
              /\ Timed(InvitationsOf(new.groups), new.events \cup OverEvents(w.events))
<1> DEFINE gs2 == LaterGroups(w.groups)
           ev2 == LaterEvents(w.events) \ OverEvents(w.events)
           new == LaterWorld(w)
           iv == InvitationsOf(w.groups)
           iv2 == InvitationsOf(gs2)
<1>1. WorldAgrees(w) /\ Timed(iv, w.events)
  BY DEF WorldOk
<1>2. /\ w.events \in SUBSET EventRec /\ w.scheduled \in Seq(Queues) /\ BgsOk(w.bgs) /\ SlotOk(w.slot)
      /\ w.freeSlots \in [Queues -> Seq(Ids)]
      /\ w = [groups |-> w.groups, events |-> w.events, scheduled |-> w.scheduled, bgs |-> w.bgs,
              freeSlots |-> w.freeSlots, slot |-> w.slot, ids |-> w.ids]
  BY <1>1, WorldFields
<1>3. /\ GroupsOk(w.groups) /\ OfflineOk(w.bgs, place) /\ FreeOk(w.freeSlots, w.bgs)
      /\ IdsOk(w.ids, DOMAIN w.bgs \cup Gone) /\ DOMAIN w.bgs \cap Gone = {}
      /\ Agree(iv, w.bgs, w.slot, place, bgId)
  BY <1>1 DEF WorldAgrees
<1> HIDE DEF gs2, ev2, iv
<1>4. /\ GroupsOk(gs2)
      /\ \A q \in Queues, p \in Players : iv2[q][p] = {Later(i) : i \in iv[q][p]}
  BY <1>3, LaterGroupsView DEF gs2, iv
<1>5. ev2 \in SUBSET EventRec /\ \A e \in w.events : Later(e) \in ev2 \cup OverEvents(w.events)
  BY <1>2, LaterEventsView DEF ev2
<1>6. new = [groups |-> gs2, events |-> ev2, scheduled |-> w.scheduled, bgs |-> w.bgs,
             freeSlots |-> w.freeSlots, slot |-> w.slot, ids |-> w.ids]
  <2>1. new = [w EXCEPT !.events = ev2, !.groups = gs2]
    BY DEF LaterWorld, ev2, gs2
  <2> HIDE DEF new
  <2> QED
    BY <1>2, <2>1
<1> HIDE DEF new
<1>7. new \in Worlds
  BY <1>2, <1>3, <1>4, <1>5, <1>6, IsWorld
<1>8. /\ new.groups = gs2 /\ new.events = ev2 /\ new.scheduled = w.scheduled
      /\ new.bgs = w.bgs /\ new.freeSlots = w.freeSlots /\ new.slot = w.slot /\ new.ids = w.ids
  BY <1>6
<1>9. ASSUME NEW q \in Queues, NEW p \in Players, NEW i \in iv[q][p]
      PROVE  Later(i).bg = i.bg /\ Later(i).left = (IF i.left > 0 THEN i.left - 1 ELSE 0)
             /\ (i.bg # 0 => Later([player |-> p, queue |-> q, bg |-> i.bg, left |-> i.left])
                             = [player |-> p, queue |-> q, bg |-> i.bg, left |-> Later(i).left])
  <2>1. i \in InvitationRec
    BY <1>3 DEF Agree, InvitedOk
  <2>2. Later(i).bg = i.bg /\ Later(i).left = (IF i.left > 0 THEN i.left - 1 ELSE 0)
    BY <2>1 DEF InvitationRec, Later
  <2>3. \A n, m, b : m = (IF n > 0 THEN n - 1 ELSE 0) =>
            Later([player |-> p, queue |-> q, bg |-> b, left |-> n])
                = [player |-> p, queue |-> q, bg |-> b, left |-> m]
    BY DEF Later
  <2> QED
    BY <2>2, <2>3
<1>10. InvitedOk(iv2)
  BY <1>4, InvitedTyped
<1> HIDE DEF iv2
<1>11. Agree(iv2, w.bgs, w.slot, place, bgId)
  <2>1. \A q \in Queues, p \in Players :
               /\ \A j \in iv2[q][p] : \E i \in iv[q][p] : i.bg = j.bg
               /\ \A i \in iv[q][p] : \E j \in iv2[q][p] : i.bg = j.bg
    <3> TAKE q \in Queues, p \in Players
    <3>1. iv2[q][p] = {Later(i) : i \in iv[q][p]}
      BY <1>4 DEF iv2
    <3>2. \A i \in iv[q][p] : Later(i).bg = i.bg
      BY <1>9
    <3> QED
      BY <3>1, <3>2
  <2> QED
    BY <1>3, <1>10, <2>1, TimeAgrees
<1>12. WorldAgrees(new)
  BY <1>3, <1>4, <1>7, <1>8, <1>11 DEF WorldAgrees, iv2
<1>13. Timed(iv2, ev2 \cup OverEvents(w.events))
  <2> SUFFICES ASSUME NEW q \in Queues, NEW p \in Players, NEW j \in iv2[q][p], j.bg # 0
               PROVE  [player |-> p, queue |-> q, bg |-> j.bg, left |-> j.left]
                          \in ev2 \cup OverEvents(w.events)
    BY DEF Timed
  <2>1. PICK i \in iv[q][p] : j = Later(i)
    BY <1>4
  <2>2. j.bg = i.bg
    BY <1>9, <2>1
  <2> DEFINE e == [player |-> p, queue |-> q, bg |-> i.bg, left |-> i.left]
  <2>3. e \in w.events
    BY <1>1, <2>2 DEF Timed
  <2>4. Later(e) = [player |-> p, queue |-> q, bg |-> j.bg, left |-> j.left]
    BY <1>9, <2>1, <2>2
  <2> HIDE DEF e
  <2> QED
    BY <1>5, <2>3, <2>4
<1> QED
  BY <1>8, <1>12, <1>13 DEF new, gs2, ev2, iv2

\* What holds when the events in t, of those that are over, have been executed.
EventsDone(w0, t, w) ==
    /\ WorldAgrees(w) /\ w.events = LaterEvents(w0.events) \ OverEvents(w0.events)
    /\ DOMAIN w.bgs = DOMAIN w0.bgs
    /\ Timed(InvitationsOf(w.groups), w.events \cup (OverEvents(w0.events) \ t))
    /\ \A q \in Queues, p \in Players :
           InvitationsOf(w.groups)[q][p] \subseteq InvitationsOf(LaterGroups(w0.groups))[q][p]
    /\ \A p \in Players, q \in Queues : w.slot[p][q] = NotQueued =>
           \/ w0.slot[p][q] = NotQueued
           \/ \E i \in InvitationsOf(LaterGroups(w0.groups))[q][p] : i.bg # 0 /\ i.left = 0

\* A player is removed from a queue.
RemovedFrom(w, p, q) ==
    [w EXCEPT !.slot = Put(@, p, [@[p] EXCEPT ![q] = NotQueued]),
              !.bgs = Uninvited(@, w.groups[q], p),
              !.groups = Put(@, q, Without(@[q], p))]

\* Its fields, each by itself.
LEMMA RemovedFields ==
    ASSUME NEW w \in Worlds, NEW p, NEW q
    PROVE  RemovedFrom(w, p, q) =
               [groups |-> OutOf(w.groups, q, p), events |-> w.events,
                scheduled |-> w.scheduled, bgs |-> Uninvited(w.bgs, w.groups[q], p),
                freeSlots |-> w.freeSlots, slot |-> SlotWith(w.slot, p, q, NotQueued), ids |-> w.ids]
<1>1. w = [groups |-> w.groups, events |-> w.events, scheduled |-> w.scheduled, bgs |-> w.bgs,
           freeSlots |-> w.freeSlots, slot |-> w.slot, ids |-> w.ids]
  BY DEF Worlds
<1> DEFINE sl == SlotWith(w.slot, p, q, NotQueued)
           bs == Uninvited(w.bgs, w.groups[q], p)
           gs == OutOf(w.groups, q, p)
<1>2. RemovedFrom(w, p, q) = [w EXCEPT !.slot = sl, !.bgs = bs, !.groups = gs]
  BY DEF RemovedFrom, SlotWith, OutOf
<1> HIDE DEF sl, bs, gs
<1>3. RemovedFrom(w, p, q) = [groups |-> gs, events |-> w.events, scheduled |-> w.scheduled, bgs |-> bs,
                              freeSlots |-> w.freeSlots, slot |-> sl, ids |-> w.ids]
  BY <1>1, <1>2
<1> QED
  BY <1>3 DEF sl, bs, gs

\* It is as it was or, if the player is in a group with that invitation, without him there.
LEMMA ExecuteIs ==
    ASSUME NEW w \in Worlds, NEW e
    PROVE  LET guard == /\ place[e.player] # "offline" /\ w.slot[e.player][e.queue] # NotQueued
                        /\ IsPlayerInvited(w.groups[e.queue], e)
               new == ExecuteRemove(e, w)
               removed == RemovedFrom(w, e.player, e.queue)
           IN /\ ~guard => new = w
              /\ guard => \/ new = removed
                          \/ new = [removed EXCEPT !.scheduled = Schedule(@, e.queue)]
<1> DEFINE guard == /\ place[e.player] # "offline" /\ w.slot[e.player][e.queue] # NotQueued
                    /\ IsPlayerInvited(w.groups[e.queue], e)
           removed == RemovedFrom(w, e.player, e.queue)
<1>1. ExecuteRemove(e, w) =
          IF ~guard THEN w
          ELSE IF e.bg \in DOMAIN w.bgs /\ w.bgs[e.bg].status # "leave"
               THEN [removed EXCEPT !.scheduled = Schedule(@, e.queue)] ELSE removed
  BY DEF ExecuteRemove, RemovedFrom
<1> HIDE DEF guard, removed
<1>2. /\ ~guard => ExecuteRemove(e, w) = w
      /\ guard => \/ ExecuteRemove(e, w) = removed
                  \/ ExecuteRemove(e, w) = [removed EXCEPT !.scheduled = Schedule(@, e.queue)]
  BY <1>1
<1> QED
  BY <1>2 DEF guard, removed

\* The queue's list of updates.
LEMMA ScheduleType ==
    ASSUME NEW s \in Seq(Queues), NEW q \in Queues
    PROVE  Schedule(s, q) \in Seq(Queues)
<1>1. Append(s, q) \in Seq(Queues)
  BY AppendProperties
<1> QED
  BY <1>1 DEF Schedule

\* A player in a group is removed from its queue.
Removes(w, p, q, new) ==
    \/ new = RemovedFrom(w, p, q)
    \/ new = [RemovedFrom(w, p, q) EXCEPT !.scheduled = Schedule(@, q)]

\* w is as before otherwise.
OnlyOut(w, p, q, new) ==
    /\ new.events = w.events /\ DOMAIN new.bgs = DOMAIN w.bgs
    /\ \A r \in Queues, u \in Players :
           /\ InvitationsOf(new.groups)[r][u] =
                  IF r = q /\ u = p THEN {} ELSE InvitationsOf(w.groups)[r][u]
           /\ new.slot[u][r] = IF r = q /\ u = p THEN NotQueued ELSE w.slot[u][r]

\* Everything agrees without him; his invitation of q is gone, and so is his slot.
LEMMA RemovedView ==
    ASSUME BattlegroundAssumption, NEW w, WorldAgrees(w), NEW q \in Queues, NEW p \in Players,
           GroupOf(w.groups[q], p) # {}, NEW new, Removes(w, p, q, new)
    PROVE  WorldAgrees(new) /\ OnlyOut(w, p, q, new)
<1> DEFINE gs2 == OutOf(w.groups, q, p)
           bs2 == Uninvited(w.bgs, w.groups[q], p)
           sl2 == SlotWith(w.slot, p, q, NotQueued)
           iv == InvitationsOf(w.groups)
           iv2 == InvitationsOf(gs2)
<1>1. /\ w \in Worlds /\ GroupsOk(w.groups) /\ OfflineOk(w.bgs, place) /\ FreeOk(w.freeSlots, w.bgs)
      /\ IdsOk(w.ids, DOMAIN w.bgs \cup Gone) /\ DOMAIN w.bgs \cap Gone = {}
      /\ Agree(iv, w.bgs, w.slot, place, bgId)
  BY DEF WorldAgrees
<1>2. /\ w.events \in SUBSET EventRec /\ w.scheduled \in Seq(Queues) /\ BgsOk(w.bgs) /\ SlotOk(w.slot)
      /\ w.freeSlots \in [Queues -> Seq(Ids)] /\ ListsInv(w.groups[q])
  BY WorldFields
<1>3. PICK sc \in Seq(Queues) :
          new = [groups |-> gs2, events |-> w.events, scheduled |-> sc, bgs |-> bs2,
                 freeSlots |-> w.freeSlots, slot |-> sl2, ids |-> w.ids]
  <2>1. RemovedFrom(w, p, q) = [groups |-> gs2, events |-> w.events, scheduled |-> w.scheduled, bgs |-> bs2,
                                freeSlots |-> w.freeSlots, slot |-> sl2, ids |-> w.ids]
    BY <1>1, RemovedFields
  <2>2. Schedule(w.scheduled, q) \in Seq(Queues)
    BY <1>2, ScheduleType
  <2> HIDE DEF gs2, bs2, sl2
  <2>5. \/ new = RemovedFrom(w, p, q)
        \/ new = [RemovedFrom(w, p, q) EXCEPT !.scheduled = Schedule(@, q)]
    BY DEF Removes
  <2>3. CASE new = RemovedFrom(w, p, q)
    BY <1>2, <2>1, <2>3
  <2>4. CASE new = [RemovedFrom(w, p, q) EXCEPT !.scheduled = Schedule(@, q)]
    <3>1. new = [groups |-> gs2, events |-> w.events, scheduled |-> Schedule(w.scheduled, q), bgs |-> bs2,
                 freeSlots |-> w.freeSlots, slot |-> sl2, ids |-> w.ids]
      BY <2>1, <2>4
    <3> QED
      BY <2>2, <3>1
  <2> QED
    BY <2>3, <2>4, <2>5
<1>4. /\ GroupsOk(gs2) /\ Agree(iv2, bs2, sl2, place, bgId)
      /\ \A r \in Queues, u \in Players : iv2[r][u] = IF r = q /\ u = p THEN {} ELSE iv[r][u]
  <2>1. /\ GroupsOk(w.groups) /\ Agree(InvitationsOf(w.groups), w.bgs, w.slot, place, bgId)
        /\ q \in Queues /\ p \in Players /\ GroupOf(w.groups[q], p) # {}
    BY <1>1
  <2>2. GroupsOk(OutOf(w.groups, q, p))
    BY ONLY <2>1, BattlegroundAssumption, LeaveQueueAgrees
  <2>3. Agree(InvitationsOf(OutOf(w.groups, q, p)), Uninvited(w.bgs, w.groups[q], p),
              SlotWith(w.slot, p, q, NotQueued), place, bgId)
    BY ONLY <2>1, BattlegroundAssumption, LeaveQueueAgrees
  <2>4. LeftQueue(InvitationsOf(w.groups), InvitationsOf(OutOf(w.groups, q, p)), q, p)
    BY ONLY <2>1, BattlegroundAssumption, LeaveQueueAgrees
  <2> QED
    BY <2>2, <2>3, <2>4 DEF LeftQueue
<1>5. SameShape(w.bgs, bs2) /\ BgsOk(bs2)
  BY <1>2, UninvitedView
<1>6. /\ SlotOk(sl2)
      /\ \A u \in Players, r \in Queues : sl2[u][r] = IF u = p /\ r = q THEN NotQueued ELSE w.slot[u][r]
  BY <1>2, SlotWithView
<1> HIDE DEF gs2, bs2, sl2, iv
<1>7. FreeOk(w.freeSlots, bs2) /\ OfflineOk(bs2, place)
  BY <1>1, <1>5, ShapeKept
<1>8. IdsOk(w.ids, DOMAIN bs2 \cup Gone) /\ DOMAIN bs2 \cap Gone = {}
  BY <1>1, <1>5 DEF SameShape
<1>9. new \in Worlds
  BY <1>1, <1>2, <1>3, <1>4, <1>5, <1>6, IsWorld
<1>10. /\ new.groups = gs2 /\ new.events = w.events /\ new.bgs = bs2
       /\ new.freeSlots = w.freeSlots /\ new.slot = sl2 /\ new.ids = w.ids
  BY <1>3
<1>11. WorldAgrees(new)
  BY <1>4, <1>7, <1>8, <1>9, <1>10 DEF WorldAgrees
<1> QED
  BY <1>4, <1>5, <1>6, <1>10, <1>11 DEF iv, iv2, SameShape, OnlyOut

\* BGQueueRemoveEvent::Execute: nobody needs the event any more.
LEMMA ExecuteView ==
    ASSUME BattlegroundAssumption, NEW w0, NEW t, NEW x \in AnyEvent, x \in t, x.left = 0,
           x \in OverEvents(w0.events), NEW w, EventsDone(w0, t \ {x}, w)
    PROVE  EventsDone(w0, t, ExecuteRemove(x, w))
<1> DEFINE p == x.player
           q == x.queue
           guard == place[p] # "offline" /\ w.slot[p][q] # NotQueued /\ IsPlayerInvited(w.groups[q], x)
           iv == InvitationsOf(w.groups)
           iv0 == InvitationsOf(LaterGroups(w0.groups))
           over == OverEvents(w0.events)
           new == ExecuteRemove(x, w)
           removed == RemovedFrom(w, p, q)
<1>1. /\ p \in Players /\ q \in Queues /\ x.bg # 0 /\ x.left = 0
      /\ x = [player |-> p, queue |-> q, bg |-> x.bg, left |-> x.left]
  BY DEF AnyEvent, Ids
<1>2. /\ WorldAgrees(w) /\ w.events = LaterEvents(w0.events) \ over /\ DOMAIN w.bgs = DOMAIN w0.bgs
      /\ Timed(iv, w.events \cup (over \ (t \ {x})))
      /\ \A r \in Queues, u \in Players : iv[r][u] \subseteq iv0[r][u]
      /\ \A u \in Players, r \in Queues : w.slot[u][r] = NotQueued =>
             w0.slot[u][r] = NotQueued \/ \E i \in iv0[r][u] : i.bg # 0 /\ i.left = 0
  BY DEF EventsDone
<1>3. /\ w \in Worlds /\ Agree(iv, w.bgs, w.slot, place, bgId) /\ Known(iv, w.bgs, w.slot, place)
      /\ InvitedOk(iv) /\ ListsInv(w.groups[q])
  BY <1>1, <1>2, WorldFields DEF WorldAgrees, Agree
<1>4. /\ ~guard => new = w
      /\ guard => new = removed \/ new = [removed EXCEPT !.scheduled = Schedule(@, q)]
  BY <1>3, ExecuteIs
<1>5. iv[q][p] = Invitations(w.groups[q], p)
  BY <1>1 DEF InvitationsOf
<1>6. IsPlayerInvited(w.groups[q], x) <=> \E i \in iv[q][p] : i.bg = x.bg /\ i.left = x.left
  <2>1. ASSUME NEW g \in GroupOf(w.groups[q], p), g.invited = x.bg, g.left = x.left
        PROVE  \E i \in iv[q][p] : i.bg = x.bg /\ i.left = x.left
    <3>1. [bg |-> g.invited, left |-> g.left] \in iv[q][p]
      BY <1>5 DEF Invitations
    <3>2. [bg |-> g.invited, left |-> g.left].bg = x.bg /\ [bg |-> g.invited, left |-> g.left].left = x.left
      BY <2>1
    <3> QED
      BY <3>1, <3>2
  <2>2. ASSUME NEW i \in iv[q][p], i.bg = x.bg, i.left = x.left
        PROVE  \E g \in GroupOf(w.groups[q], p) : g.invited = x.bg /\ g.left = x.left
    <3>1. PICK g \in GroupOf(w.groups[q], p) : i = [bg |-> g.invited, left |-> g.left]
      BY <1>5 DEF Invitations
    <3> QED
      BY <2>2, <3>1
  <2> QED
    BY <2>1, <2>2 DEF IsPlayerInvited
<1> HIDE DEF new, removed
<1>7. CASE ~guard
  <2>1. Timed(iv, w.events \cup (over \ t))
    <3> SUFFICES ASSUME NEW r \in Queues, NEW u \in Players, NEW i \in iv[r][u], i.bg # 0
                 PROVE  [player |-> u, queue |-> r, bg |-> i.bg, left |-> i.left]
                            \in w.events \cup (over \ t)
      BY DEF Timed
    <3> DEFINE e == [player |-> u, queue |-> r, bg |-> i.bg, left |-> i.left]
    <3>1. e \in w.events \cup (over \ (t \ {x}))
      BY <1>2 DEF Timed
    <3>2. e # x
      <4> SUFFICES ASSUME e = x PROVE FALSE
        OBVIOUS
      <4>1. u = p /\ r = q /\ i.bg = x.bg /\ i.left = x.left
        BY <1>1
      <4>2. place[p] # "offline" /\ w.slot[p][q] = i.bg
        BY <1>1, <1>3, <4>1 DEF Known
      <4>3. i.bg # NotQueued
        BY <1>1, <4>1 DEF AnyEvent, Ids, NotQueued, BattlegroundAssumption
      <4>4. IsPlayerInvited(w.groups[q], x)
        BY <1>6, <4>1
      <4> QED
        BY <1>7, <4>2, <4>3, <4>4
    <3> QED
      BY <3>1, <3>2
  <2> HIDE DEF guard
  <2>2. new = w
    BY <1>4, <1>7
  <2> QED
    BY <1>2, <2>1, <2>2, ZenonT(60) DEF EventsDone, new
<1>8. CASE guard
  <2>1. PICK i \in iv[q][p] : i.bg = x.bg /\ i.left = x.left
    BY <1>6, <1>8
  <2>2. GroupOf(w.groups[q], p) # {}
    BY <1>5, <2>1 DEF Invitations
  <2>3. Removes(w, p, q, new)
    BY <1>4, <1>8 DEF Removes, removed
  <2>4. /\ WorldAgrees(new) /\ new.events = w.events /\ DOMAIN new.bgs = DOMAIN w.bgs
        /\ \A r \in Queues, u \in Players :
               /\ InvitationsOf(new.groups)[r][u] = IF r = q /\ u = p THEN {} ELSE iv[r][u]
               /\ new.slot[u][r] = IF r = q /\ u = p THEN NotQueued ELSE w.slot[u][r]
    <3>1. WorldAgrees(w) /\ p \in Players /\ q \in Queues /\ GroupOf(w.groups[q], p) # {}
      BY <1>1, <1>2, <2>2
    <3> HIDE DEF p, q, guard
    <3>2. WorldAgrees(new) /\ OnlyOut(w, p, q, new)
      BY ONLY <2>3, <3>1, BattlegroundAssumption, RemovedView
    <3> QED
      BY <3>2 DEF OnlyOut, iv
  <2> DEFINE iv2 == InvitationsOf(new.groups)
  <2>5. i \in iv0[q][p] /\ i.bg # 0 /\ i.left = 0
    BY <1>1, <1>2, <2>1
  <2> HIDE DEF p, q, iv, iv0, iv2, guard, over
  <2>6. \A r \in Queues, u \in Players : iv2[r][u] \subseteq iv0[r][u]
    BY <1>2, <2>4 DEF iv2
  <2>7. \A u \in Players, r \in Queues : new.slot[u][r] = NotQueued =>
             w0.slot[u][r] = NotQueued \/ \E j \in iv0[r][u] : j.bg # 0 /\ j.left = 0
    BY <1>2, <2>4, <2>5
  <2>8. Timed(iv2, new.events \cup (over \ t))
    <3> SUFFICES ASSUME NEW r \in Queues, NEW u \in Players, NEW j \in iv2[r][u], j.bg # 0
                 PROVE  [player |-> u, queue |-> r, bg |-> j.bg, left |-> j.left]
                            \in new.events \cup (over \ t)
      BY DEF Timed
    <3> DEFINE e == [player |-> u, queue |-> r, bg |-> j.bg, left |-> j.left]
    <3>1. j \in iv[r][u] /\ ~(r = q /\ u = p)
      BY <2>4 DEF iv2
    <3>2. e \in w.events \cup (over \ (t \ {x}))
      BY <1>2, <3>1 DEF Timed
    <3>3. e # x
      BY <1>1, <3>1
    <3> QED
      BY <2>4, <3>2, <3>3
  <2>9. new.events = LaterEvents(w0.events) \ over /\ DOMAIN new.bgs = DOMAIN w0.bgs
    BY <1>2, <2>4
  <2> QED
    BY <2>4, <2>6, <2>7, <2>8, <2>9 DEF EventsDone, new, iv2, iv0, over
<1> QED
  BY <1>7, <1>8

\* All of them have been executed.
LEMMA UpdateEventsView ==
    ASSUME BattlegroundAssumption, NEW w0, WorldOk(w0)
    PROVE  EventsDone(w0, OverEvents(w0.events), UpdateEvents(w0))
<1> DEFINE over == OverEvents(w0.events)
           base == LaterWorld(w0)
           Good == [t \in SUBSET over |-> {w \in Worlds : EventsDone(w0, t, w)}]
<1>1. w0 \in Worlds /\ w0.events \in SUBSET EventRec
  BY WorldFields DEF WorldOk, WorldAgrees
<1>2. over \in SUBSET AnyEvent /\ IsFiniteSet(over) /\ \A e \in over : e.left = 0
  BY <1>1, LaterEventsView
<1>3. /\ WorldAgrees(base) /\ base.groups = LaterGroups(w0.groups)
      /\ base.events = LaterEvents(w0.events) \ over /\ base.slot = w0.slot /\ base.bgs = w0.bgs
      /\ Timed(InvitationsOf(base.groups), base.events \cup over)
  BY LaterWorldView
<1> HIDE DEF base, over
<1>4. EventsDone(w0, {}, base)
  <2>1. over \ {} = over
    OBVIOUS
  <2> QED
    BY <1>3, <2>1 DEF EventsDone, over
<1>5. base \in Good[{}]
  <2>1. base \in Worlds
    BY <1>3 DEF WorldAgrees
  <2> QED
    BY <1>4, <2>1
<1>6. ASSUME NEW t \in SUBSET over, NEW x \in t, NEW w \in Good[t \ {x}]
      PROVE  ExecuteRemove(x, w) \in Good[t]
  <2>1. t \ {x} \in SUBSET over
    OBVIOUS
  <2>2. EventsDone(w0, t \ {x}, w)
    BY <2>1
  <2>3. x \in AnyEvent /\ x.left = 0 /\ x \in OverEvents(w0.events)
    BY <1>2 DEF over
  <2> DEFINE new == ExecuteRemove(x, w)
  <2>4. EventsDone(w0, t, new)
    BY <2>2, <2>3, ExecuteView
  <2> HIDE DEF new
  <2>5. new \in Worlds
    BY <2>4 DEF EventsDone, WorldAgrees
  <2>6. new \in Good[t]
    BY <2>4, <2>5
  <2> QED
    BY <2>6 DEF new
<1>7. UpdateEvents(w0) = FoldSet(ExecuteRemove, base, over)
  BY <1>1, UpdateEventsIs DEF base, over
<1> HIDE DEF Good
<1>8. UpdateEvents(w0) \in Good[over]
  <2>1. FoldSet(ExecuteRemove, base, over) \in Good[over]
    BY <1>2, <1>5, <1>6, EventFold
  <2> QED
    BY <1>7, <2>1
<1> QED
  BY <1>8 DEF Good, over

-----------------------------------------------------------------------------
(* RemovePlayerAtLeave.                                                      *)
\* A player in a battleground is in the world then.
LeftPlaces(pl, p) == IF pl[p] = "bg" THEN [pl EXCEPT ![p] = "world"] ELSE pl

\* A value that it changes.
LeaveOk(iv, w, pl) ==
    /\ Agree(iv, w.bgs, w.slot, pl, w.bgId)
    /\ FreeOk(w.freeSlots, w.bgs) /\ ScheduledOk(w.scheduled)
    /\ w = [bgs |-> w.bgs, freeSlots |-> w.freeSlots, scheduled |-> w.scheduled, slot |-> w.slot,
            bgId |-> w.bgId]

\* The battlegrounds are as before, without p in b.
LeftBgs(bs, bs2, b, p) ==
    /\ DOMAIN bs2 = DOMAIN bs
    /\ \A c \in DOMAIN bs :
           /\ bs2[c].queue = bs[c].queue /\ bs2[c].status = bs[c].status
           /\ bs2[c].offline = bs[c].offline
           /\ bs2[c].players = IF c = b THEN bs[c].players \ {p} ELSE bs[c].players

\* p is not counted by b any more.
WithoutPlayer(bs, b, p) ==
    Put(bs, b, [bs[b] EXCEPT !.players = @ \ {p}, !.invited[Team[p]] = @ - 1])

\* p has departed from b, and the others are as before.
LEMMA WithoutPlayerView ==
    ASSUME BattlegroundAssumption, NEW bs, BgsOk(bs), NEW b \in DOMAIN bs, NEW p \in Players
    PROVE  Departed(bs, WithoutPlayer(bs, b, p), b, p) /\ LeftBgs(bs, WithoutPlayer(bs, b, p), b, p)
<1> DEFINE bs2 == WithoutPlayer(bs, b, p)
           new == [bs[b] EXCEPT !.players = @ \ {p}, !.invited[Team[p]] = @ - 1]
<1>1. /\ b \in Ids /\ bs[b] \in BgRec /\ bs[b].players \in SUBSET Players
      /\ bs[b].invited \in [Teams -> Int] /\ Team[p] \in Teams
  BY BgFields DEF BattlegroundAssumption
<1>2. /\ new.queue = bs[b].queue /\ new.status = bs[b].status /\ new.offline = bs[b].offline
      /\ new.players = bs[b].players \ {p}
      /\ new.invited = [bs[b].invited EXCEPT ![Team[p]] = @ - 1]
      /\ new = [queue |-> bs[b].queue, status |-> bs[b].status,
                invited |-> [bs[b].invited EXCEPT ![Team[p]] = @ - 1],
                players |-> bs[b].players \ {p}, offline |-> bs[b].offline]
  <2> DEFINE old == bs[b]
             inv == [old.invited EXCEPT ![Team[p]] = @ - 1]
             ps == old.players \ {p}
  <2>1. old = [queue |-> old.queue, status |-> old.status, invited |-> old.invited,
               players |-> old.players, offline |-> old.offline]
    BY <1>1 DEF BgRec
  <2> HIDE DEF old
  <2>2. [old EXCEPT !.players = @ \ {p}, !.invited[Team[p]] = @ - 1]
            = [old EXCEPT !.players = ps, !.invited = inv]
    BY <2>1
  <2> HIDE DEF inv, ps
  <2>3. [old EXCEPT !.players = ps, !.invited = inv]
            = [queue |-> old.queue, status |-> old.status, invited |-> inv,
               players |-> ps, offline |-> old.offline]
    <3> DEFINE x == [old EXCEPT !.players = ps, !.invited = inv]
    <3>1. x = [old EXCEPT !.players = ps, !.invited = inv] /\ old \in BgRec
      BY <1>1 DEF old
    <3> HIDE DEF x
    <3>2. x = [queue |-> old.queue, status |-> old.status, invited |-> inv,
               players |-> ps, offline |-> old.offline]
      BY <3>1 DEF BgRec
    <3> QED
      BY <3>2 DEF x
  <2>4. new = [queue |-> old.queue, status |-> old.status, invited |-> inv,
               players |-> ps, offline |-> old.offline]
    BY <2>2, <2>3 DEF old
  <2> HIDE DEF new
  <2>5. /\ new.queue = old.queue /\ new.status = old.status /\ new.offline = old.offline
        /\ new.players = ps /\ new.invited = inv
    BY <2>4
  <2> QED
    BY <2>4, <2>5 DEF old, inv, ps
<1>3. \A t \in Teams : new.invited[t] = IF t = Team[p] THEN bs[b].invited[t] - 1 ELSE bs[b].invited[t]
  BY <1>1, <1>2
<1>4. new \in BgRec
  <2>1. [bs[b].invited EXCEPT ![Team[p]] = @ - 1] \in [Teams -> Int]
    BY <1>1
  <2>2. bs[b].players \ {p} \in SUBSET Players
    BY <1>1
  <2> DEFINE inv == [bs[b].invited EXCEPT ![Team[p]] = @ - 1]
             ps == bs[b].players \ {p}
  <2>3. inv \in [Teams -> Int] /\ ps \in SUBSET Players
    BY <2>1, <2>2
  <2>4. new = [queue |-> bs[b].queue, status |-> bs[b].status, invited |-> inv,
               players |-> ps, offline |-> bs[b].offline]
    BY <1>2
  <2> HIDE DEF inv, ps, new
  <2> QED
    BY <1>1, <2>3, <2>4 DEF BgRec
<1>5. bs2 = Put(bs, b, new)
  BY DEF WithoutPlayer
<1> HIDE DEF new, bs2
<1>6. /\ DOMAIN bs2 = DOMAIN bs /\ bs2[b] = new /\ \A c \in DOMAIN bs : c # b => bs2[c] = bs[c]
      /\ bs2 = [c \in DOMAIN bs2 |-> bs2[c]]
  BY <1>5 DEF Put
<1>7. BgsOk(bs2)
  <2>1. \A c \in DOMAIN bs2 : bs2[c] \in BgRec
    BY <1>4, <1>6 DEF BgsOk
  <2> QED
    BY <1>6, <2>1 DEF BgsOk
<1>8. Departed(bs, bs2, b, p)
  BY <1>2, <1>3, <1>6, <1>7 DEF Departed
<1>9. LeftBgs(bs, bs2, b, p)
  <2> SUFFICES ASSUME NEW c \in DOMAIN bs
               PROVE  /\ bs2[c].queue = bs[c].queue /\ bs2[c].status = bs[c].status
                      /\ bs2[c].offline = bs[c].offline
                      /\ bs2[c].players = IF c = b THEN bs[c].players \ {p} ELSE bs[c].players
    BY <1>6 DEF LeftBgs
  <2>1. CASE c = b
    BY <1>2, <1>6, <2>1
  <2>2. CASE c # b
    BY <1>6, <2>2
  <2> QED
    BY <2>1, <2>2
<1> QED
  BY <1>8, <1>9 DEF bs2

\* Its fields.
AtLeave(w, p, b, new) ==
    LET q == w.bgs[b].queue
        participant == p \in w.bgs[b].players
        running == participant /\ w.bgs[b].status # "leave"
        found == place[p] \in {"world", "bg"}
    IN /\ new.bgs = IF participant THEN WithoutPlayer(w.bgs, b, p) ELSE w.bgs
       /\ new.freeSlots = IF running /\ ~Contains(w.freeSlots[q], b)
                          THEN Put(w.freeSlots, q, <<b>> \o w.freeSlots[q]) ELSE w.freeSlots
       /\ new.scheduled = IF running THEN Schedule(w.scheduled, q) ELSE w.scheduled
       /\ new.slot = IF participant /\ found THEN SlotWith(w.slot, p, q, NotQueued) ELSE w.slot
       /\ new.bgId = IF found THEN Put(w.bgId, p, 0) ELSE w.bgId
       /\ new = [bgs |-> new.bgs, freeSlots |-> new.freeSlots, scheduled |-> new.scheduled,
                 slot |-> new.slot, bgId |-> new.bgId]

\* That is what RemovePlayerAtLeave computes.
LEMMA AtLeaveFields ==
    ASSUME NEW w, NEW p, NEW b
    PROVE  AtLeave(w, p, b, RemovePlayerAtLeave(w, p, b))
<1> DEFINE q == w.bgs[b].queue
           participant == p \in w.bgs[b].players
           running == participant /\ w.bgs[b].status # "leave"
           found == place[p] \in {"world", "bg"}
           bs == IF participant THEN WithoutPlayer(w.bgs, b, p) ELSE w.bgs
           fs == IF running /\ ~Contains(w.freeSlots[q], b)
                 THEN Put(w.freeSlots, q, <<b>> \o w.freeSlots[q]) ELSE w.freeSlots
           sc == IF running THEN Schedule(w.scheduled, q) ELSE w.scheduled
           sl == IF participant /\ found THEN SlotWith(w.slot, p, q, NotQueued) ELSE w.slot
           bi == IF found THEN Put(w.bgId, p, 0) ELSE w.bgId
           new == RemovePlayerAtLeave(w, p, b)
<1>1. new = [bgs |-> bs, freeSlots |-> fs, scheduled |-> sc, slot |-> sl, bgId |-> bi]
  BY DEF RemovePlayerAtLeave, WithoutPlayer, SlotWith
<1> HIDE DEF bs, fs, sc, sl, bi, new
<1>2. /\ new.bgs = bs /\ new.freeSlots = fs /\ new.scheduled = sc /\ new.slot = sl /\ new.bgId = bi
      /\ new = [bgs |-> new.bgs, freeSlots |-> new.freeSlots, scheduled |-> new.scheduled,
                slot |-> new.slot, bgId |-> new.bgId]
  BY <1>1
<1> QED
  BY <1>2 DEF AtLeave, bs, fs, sc, sl, bi, new

\* The battleground may have a free slot then.
LEMMA LeftFree ==
    ASSUME NEW fs, NEW bs, FreeOk(fs, bs), BgsOk(bs), NEW b \in DOMAIN bs,
           NEW bs2, NEW p, LeftBgs(bs, bs2, b, p)
    PROVE  /\ FreeOk(fs, bs2)
           /\ ~Contains(fs[bs[b].queue], b) =>
                  FreeOk(Put(fs, bs[b].queue, <<b>> \o fs[bs[b].queue]), bs2)
<1>1. FreeOk(fs, bs2)
  BY DEF FreeOk, LeftBgs
<1>2. /\ b \in DOMAIN bs2 /\ bs2[b].queue = bs[b].queue
  BY DEF LeftBgs
<1>3. b \in Ids /\ bs[b].queue \in Queues
  BY BgFields
<1> DEFINE q == bs[b].queue
<1>4. ASSUME ~Contains(fs[q], b) PROVE b \notin Range(fs[q])
  <2>1. fs[q] \in Seq(Ids)
    BY <1>3 DEF FreeOk
  <2>2. DOMAIN fs[q] = 1..Len(fs[q])
    BY <2>1
  <2> QED
    BY <1>4, <2>2 DEF Contains, Range
<1>5. ASSUME ~Contains(fs[q], b) PROVE FreeOk(Put(fs, q, <<b>> \o fs[q]), bs2)
  <2>1. b \notin Range(fs[bs2[b].queue])
    BY <1>2, <1>4, <1>5
  <2>2. FreeOk(Put(fs, bs2[b].queue, <<b>> \o fs[bs2[b].queue]), bs2)
    BY <1>1, <1>2, <1>3, <2>1, FreeMore
  <2> QED
    BY <1>2, <2>2
<1> QED
  BY <1>1, <1>5

\* A player leaves b, or is not in it.
LEMMA AtLeaveView ==
    ASSUME BattlegroundAssumption, NEW iv, NEW w, NEW pl, LeaveOk(iv, w, pl),
           NEW p \in Players, NEW b \in DOMAIN w.bgs, place[p] = pl[p],
           pl[p] = "bg" => w.bgId[p] = b
    PROVE  LET new == RemovePlayerAtLeave(w, p, b)
           IN LeaveOk(iv, new, LeftPlaces(pl, p)) /\ LeftBgs(w.bgs, new.bgs, b, p)
<1> DEFINE q == w.bgs[b].queue
           participant == p \in w.bgs[b].players
           running == participant /\ w.bgs[b].status # "leave"
           found == place[p] \in {"world", "bg"}
           new == RemovePlayerAtLeave(w, p, b)
           pl2 == LeftPlaces(pl, p)
<1>1. /\ Agree(iv, w.bgs, w.slot, pl, w.bgId) /\ FreeOk(w.freeSlots, w.bgs) /\ ScheduledOk(w.scheduled)
      /\ BgsOk(w.bgs) /\ SlotOk(w.slot) /\ PlacesOk(iv, w.bgs, w.slot, pl, w.bgId)
  BY DEF LeaveOk, Agree
<1>2. /\ new.bgs = IF participant THEN WithoutPlayer(w.bgs, b, p) ELSE w.bgs
      /\ new.freeSlots = IF running /\ ~Contains(w.freeSlots[q], b)
                          THEN Put(w.freeSlots, q, <<b>> \o w.freeSlots[q]) ELSE w.freeSlots
      /\ new.scheduled = IF running THEN Schedule(w.scheduled, q) ELSE w.scheduled
      /\ new.slot = IF participant /\ found THEN SlotWith(w.slot, p, q, NotQueued) ELSE w.slot
      /\ new.bgId = IF found THEN Put(w.bgId, p, 0) ELSE w.bgId
      /\ new = [bgs |-> new.bgs, freeSlots |-> new.freeSlots, scheduled |-> new.scheduled,
                slot |-> new.slot, bgId |-> new.bgId]
  BY AtLeaveFields DEF AtLeave
<1>3. q \in Queues /\ b \in Ids
  BY <1>1, BgFields
<1>4. Departed(w.bgs, WithoutPlayer(w.bgs, b, p), b, p) /\ LeftBgs(w.bgs, WithoutPlayer(w.bgs, b, p), b, p)
  BY <1>1, WithoutPlayerView
<1> HIDE DEF new
<1>5. LeftBgs(w.bgs, new.bgs, b, p)
  <2>1. CASE participant
    BY <1>2, <1>4, <2>1
  <2>2. CASE ~participant
    BY <1>2, <2>2 DEF LeftBgs
  <2> QED
    BY <2>1, <2>2
<1>6. FreeOk(new.freeSlots, new.bgs)
  <2>1. /\ FreeOk(w.freeSlots, new.bgs)
        /\ ~Contains(w.freeSlots[q], b) => FreeOk(Put(w.freeSlots, q, <<b>> \o w.freeSlots[q]), new.bgs)
    BY <1>1, <1>5, LeftFree
  <2> QED
    BY <1>2, <2>1
<1>7. ScheduledOk(new.scheduled)
  <2>1. ScheduledOk(Schedule(w.scheduled, q))
    BY <1>1, <1>3, ScheduleView, SMTT(60)
  <2> QED
    BY <1>1, <1>2, <2>1
<1>8. /\ pl \in [Players -> PlaceNames] /\ w.bgId \in [Players -> Ids \cup {0}]
      /\ (pl[p] = "world" => w.bgId[p] = 0)
      /\ (pl[p] = "bg" => participant) /\ (participant => pl[p] \in {"bg", "offline"})
  <2>1. pl[p] = "bg" => p \in w.bgs[w.bgId[p]].players
    BY <1>1 DEF PlacesOk
  <2> QED
    BY <1>1, <2>1 DEF PlacesOk
<1>9. Agree(iv, new.bgs, new.slot, pl2, new.bgId)
  <2>1. CASE pl[p] = "bg"
    <3> DEFINE bs2 == WithoutPlayer(w.bgs, b, p)
               sl2 == SlotWith(w.slot, p, q, NotQueued)
               bi2 == Put(w.bgId, p, 0)
    <3>1. new.bgs = bs2 /\ new.slot = sl2 /\ new.bgId = bi2
      BY <1>2, <1>8, <2>1
    <3>2. /\ SlotOk(sl2) /\ \A u \in Players : u # p => sl2[u] = w.slot[u]
          /\ \A r \in Queues : r # q => sl2[p][r] = w.slot[p][r]
      BY <1>1, <1>3, SlotWithView
    <3>3. /\ pl2 \in [Players -> PlaceNames] /\ pl2[p] = "world"
          /\ \A u \in Players : u # p => pl2[u] = pl[u]
      BY <1>8, <2>1 DEF LeftPlaces, PlaceNames
    <3>4. /\ bi2 \in [Players -> Ids \cup {0}] /\ bi2[p] = 0
          /\ \A u \in Players : u # p => bi2[u] = w.bgId[u]
      <4>1. bi2 = [u \in Players |-> IF u = p THEN 0 ELSE w.bgId[u]]
        BY <1>8 DEF Put
      <4> QED
        BY <1>8, <4>1
    <3>5. p \in w.bgs[b].players /\ Departed(w.bgs, bs2, b, p)
      BY <1>4, <1>8, <2>1
    <3> DEFINE bs == w.bgs
               sl == w.slot
               bi == w.bgId
    <3>6. /\ Agree(iv, bs, sl, pl, bi) /\ b \in DOMAIN bs /\ p \in bs[b].players
          /\ Departed(bs, bs2, b, p) /\ SlotOk(sl2) /\ pl2 \in [Players -> PlaceNames]
          /\ bi2 \in [Players -> Ids \cup {0}]
          /\ \A u \in Players : u # p => sl2[u] = sl[u] /\ pl2[u] = pl[u] /\ bi2[u] = bi[u]
          /\ \A r \in Queues : r # bs[b].queue => sl2[p][r] = sl[p][r]
          /\ pl[p] = "bg" => pl2[p] = "world" /\ bi2[p] = 0
          /\ pl[p] # "bg" => pl2[p] = pl[p] /\ bi2[p] = bi[p] /\ sl2[p] = sl[p]
      BY <1>1, <2>1, <3>2, <3>3, <3>4, <3>5
    <3> HIDE DEF bs, sl, bi, bs2, sl2, bi2, pl2
    <3>7. Agree(iv, bs2, sl2, pl2, bi2)
      BY ONLY BattlegroundAssumption, <3>6, DepartsAgree
    <3> QED
      BY <3>1, <3>7
  <2>2. CASE pl[p] # "bg" /\ participant
    <3> DEFINE bs2 == WithoutPlayer(w.bgs, b, p)
    <3>1. pl[p] = "offline" /\ ~found /\ pl2 = pl
      BY <1>8, <2>2 DEF LeftPlaces
    <3>2. new.bgs = bs2 /\ new.slot = w.slot /\ new.bgId = w.bgId
      BY <1>2, <2>2, <3>1
    <3> DEFINE bs == w.bgs
               sl == w.slot
               bi == w.bgId
    <3>3. /\ Agree(iv, bs, sl, pl, bi) /\ b \in DOMAIN bs /\ p \in bs[b].players
          /\ Departed(bs, bs2, b, p) /\ SlotOk(sl) /\ pl \in [Players -> PlaceNames]
          /\ bi \in [Players -> Ids \cup {0}]
          /\ \A u \in Players : u # p => sl[u] = sl[u] /\ pl[u] = pl[u] /\ bi[u] = bi[u]
          /\ \A r \in Queues : r # bs[b].queue => sl[p][r] = sl[p][r]
          /\ pl[p] = "bg" => pl[p] = "world" /\ bi[p] = 0
          /\ pl[p] # "bg" => pl[p] = pl[p] /\ bi[p] = bi[p] /\ sl[p] = sl[p]
      BY <1>1, <1>4, <1>8, <2>2
    <3> HIDE DEF bs, sl, bi, bs2, pl2
    <3>4. Agree(iv, bs2, sl, pl, bi)
      BY ONLY BattlegroundAssumption, <3>3, DepartsAgree
    <3> QED
      BY <3>1, <3>2, <3>4 DEF sl, bi
  <2>3. CASE ~participant
    <3>1. pl[p] # "bg" /\ pl2 = pl
      BY <1>8, <2>3 DEF LeftPlaces
    <3>2. new.bgId = w.bgId
      <4>1. CASE found
        <5>1. w.bgId[p] = 0
          BY <1>8, <3>1, <4>1
        <5>2. Put(w.bgId, p, 0) = w.bgId
          BY <1>8, <5>1 DEF Put
        <5> QED
          BY <1>2, <4>1, <5>2
      <4>2. CASE ~found
        BY <1>2, <4>2, SMTT(60)
      <4> QED
        BY <4>1, <4>2
    <3>3. new.bgs = w.bgs /\ new.slot = w.slot
      BY <1>2, <2>3
    <3> QED
      BY <1>1, <3>1, <3>2, <3>3
  <2> QED
    BY <2>1, <2>2, <2>3
<1>10. LeaveOk(iv, new, pl2)
  BY <1>2, <1>6, <1>7, <1>9 DEF LeaveOk
<1> QED
  BY <1>5, <1>10 DEF new

-----------------------------------------------------------------------------
(* The inductive invariant.                                                  *)

\* The groups have their types, and for every invitation its event is to come.
QueuesInv ==
    /\ GroupsOk(groups) /\ events \in SUBSET EventRec
    /\ Timed(InvitationsOf(groups), events) /\ ScheduledOk(scheduled)

PlayersInv == Agree(InvitationsOf(groups), bgs, slot, place, bgId)

SlotsInv == FreeOk(freeSlots, bgs) /\ OfflineOk(bgs, place)

IdsInv ==
    /\ IdsOk(ids, DOMAIN bgs \cup Gone) /\ DOMAIN bgs \cap Gone = {}
    /\ maps \subseteq DOMAIN bgs /\ unloading \subseteq Ids \X Queues

WorldInv ==
    /\ phase \in {"sessions", "battlegrounds"} /\ due \subseteq DOMAIN bgs
    /\ requests \subseteq UNION Scenarios

BattlegroundInv == QueuesInv /\ PlayersInv /\ SlotsInv /\ IdsInv /\ WorldInv

\* It holds at first: nobody is queued, and there is no battleground.
LEMMA InitHolds == Init => BattlegroundInv
<1> SUFFICES ASSUME Init PROVE BattlegroundInv
  OBVIOUS
<1>1. \A q \in Queues : groups[q] = [l \in Lists |-> <<>>]
  BY DEF Init
<1>2. <<>> \in Seq(GroupRec) /\ <<>> \in Seq(Ids) /\ <<>> \in Seq(Queues)
      /\ DOMAIN <<>> = {} /\ Len(<<>>) = 0
  OBVIOUS
<1>3. IsInjective(<<>>) /\ Range(<<>>) = {}
  BY <1>2 DEF IsInjective, Range
<1>4. GroupsOk(groups)
  <2>1. groups \in [Queues -> [Lists -> Seq(GroupRec)]]
    BY <1>2 DEF Init
  <2>2. \A q \in Queues, l \in Lists : DOMAIN groups[q][l] = {}
    BY <1>1, <1>2
  <2> QED
    BY <2>1, <2>2 DEF GroupsOk, ListsInv
<1>5. \A q \in Queues, p \in Players : InvitationsOf(groups)[q][p] = {}
  <2>1. ASSUME NEW q \in Queues, NEW p \in Players PROVE GroupOf(groups[q], p) = {}
    <3>1. \A l \in Lists : DOMAIN groups[q][l] = {}
      BY <1>1, <1>2
    <3> QED
      BY <3>1, GroupIsAt
  <2> QED
    BY <2>1 DEF InvitationsOf, Invitations
<1>6. QueuesInv
  BY <1>2, <1>3, <1>4, <1>5 DEF QueuesInv, Init, Timed, ScheduledOk
<1>7. DOMAIN bgs = {} /\ bgs \in [DOMAIN bgs -> BgRec]
  BY DEF Init
<1>8. BgsOk(bgs)
  BY <1>7 DEF BgsOk
<1>9. InvitedOk(InvitationsOf(groups))
  BY <1>4, InvitedTyped
<1>10. SlotOk(slot) /\ \A p \in Players, q \in Queues : slot[p][q] = NotQueued
  BY DEF SlotOk, Init
<1>11. Known(InvitationsOf(groups), bgs, slot, place) /\ CountsOk(InvitationsOf(groups), bgs, place, bgId)
  BY <1>5, <1>7 DEF Known, CountsOk
<1>12. PlacesOk(InvitationsOf(groups), bgs, slot, place, bgId)
  <2>1. place = [p \in Players |-> "world"] /\ bgId = [p \in Players |-> 0]
    BY DEF Init
  <2>2. place \in [Players -> PlaceNames] /\ bgId \in [Players -> Ids \cup {0}]
    BY <2>1 DEF PlaceNames
  <2> QED
    BY <1>7, <2>1, <2>2 DEF PlacesOk
<1>13. PlayersInv
  BY <1>8, <1>9, <1>10, <1>11, <1>12 DEF PlayersInv, Agree
<1>14. SlotsInv
  <2>1. freeSlots \in [Queues -> Seq(Ids)] /\ \A q \in Queues : freeSlots[q] = <<>>
    BY <1>2 DEF Init
  <2>2. FreeOk(freeSlots, bgs)
    BY <1>3, <2>1 DEF FreeOk
  <2>3. OfflineOk(bgs, place)
    BY <1>7 DEF OfflineOk
  <2> QED
    BY <2>2, <2>3 DEF SlotsInv
<1>15. IdsInv
  <2>1. ids = [next |-> 1, free |-> {1}, size |-> 2] /\ maps = {} /\ unloading = {}
    BY DEF Init
  <2>2. Gone = {}
    BY <2>1 DEF Gone
  <2>3. ids \in [next : Nat, free : SUBSET Nat, size : Nat] /\ ids.next = 1 /\ ids.free = {1} /\ ids.size = 2
    BY <2>1
  <2>4. IdsOk(ids, {})
    BY <2>3 DEF IdsOk
  <2>5. DOMAIN bgs \cup Gone = {}
    BY <1>7, <2>2
  <2> QED
    BY <1>7, <2>1, <2>4, <2>5 DEF IdsInv
<1>16. WorldInv
  BY DEF WorldInv, Init
<1> QED
  BY <1>6, <1>13, <1>14, <1>15, <1>16 DEF BattlegroundInv

-----------------------------------------------------------------------------
(* What a step leaves alone.                                                 *)

\* No battleground is made or deleted, and no id given out or freed.
LEMMA IdsKept ==
    ASSUME IdsInv, DOMAIN bgs' = DOMAIN bgs, ids' = ids, unloading' = unloading,
           maps' \subseteq DOMAIN bgs
    PROVE  IdsInv'
<1>1. Gone' = Gone
  BY DEF Gone
<1> QED
  BY <1>1 DEF IdsInv

\* The world goes on with its update.
LEMMA WorldKept ==
    ASSUME WorldInv, DOMAIN bgs' = DOMAIN bgs, UNCHANGED <<phase, due>>, requests' \subseteq requests
    PROVE  WorldInv'
BY DEF WorldInv

\* The events of fewer invitations.
LEMMA TimedLess ==
    ASSUME NEW iv, NEW ev, Timed(iv, ev), NEW iv2,
           \A q \in Queues, p \in Players : iv2[q][p] \subseteq iv[q][p]
    PROVE  Timed(iv2, ev)
BY DEF Timed

\* Only where the players are, and their slots, change.
LEMMA QueuesKept ==
    ASSUME QueuesInv, UNCHANGED <<groups, events>>, ScheduledOk(scheduled')
    PROVE  QueuesInv'
BY DEF QueuesInv

-----------------------------------------------------------------------------
(* The steps of the battlegrounds.                                           *)

\* The one visited is the first of those that are due.
LEMMA VisitedIs ==
    ASSUME BattlegroundInv, NEW b, Visited(b)
    PROVE  /\ b \in DOMAIN bgs /\ b \in due /\ due' = due \ {b} /\ bgs[b].queue \in Queues
           /\ UNCHANGED <<phase, requests>>
<1>1. DOMAIN bgs \subseteq Ids /\ due \subseteq DOMAIN bgs /\ BgsOk(bgs)
  BY DEF BattlegroundInv, PlayersInv, WorldInv, Agree, BgsOk
<1>2. Ids \in SUBSET Nat
  BY DEF Ids
<1>3. due \in SUBSET Nat /\ due # {}
  BY <1>1, <1>2 DEF Visited
<1>4. Min(due) \in due
  BY <1>3, MinOfNaturals
<1>5. b \in due /\ due' = due \ {b} /\ UNCHANGED <<phase, requests>>
  BY <1>4 DEF Visited
<1> QED
  BY <1>1, <1>5, BgFields

\* The rest of the state stays as it is, when no battleground comes or goes.
LEMMA VisitedKept ==
    ASSUME BattlegroundInv, NEW b, Visited(b), DOMAIN bgs' = DOMAIN bgs,
           UNCHANGED <<groups, events, mapVars>>, ScheduledOk(scheduled')
    PROVE  QueuesInv' /\ IdsInv' /\ WorldInv'
<1>1. QueuesInv'
  BY QueuesKept DEF BattlegroundInv
<1>2. IdsInv'
  <2>1. IdsInv /\ maps \subseteq DOMAIN bgs
    BY DEF BattlegroundInv, IdsInv
  <2>2. ids' = ids /\ unloading' = unloading /\ maps' \subseteq DOMAIN bgs
    BY <2>1 DEF mapVars
  <2> QED
    BY <2>1, <2>2, IdsKept
<1>3. WorldInv'
  BY VisitedIs DEF BattlegroundInv, WorldInv
<1> QED
  BY <1>1, <1>2, <1>3

\* A battleground for which nothing happens.
LEMMA WaitStep ==
    ASSUME BattlegroundInv, NEW b, Wait(b)
    PROVE  BattlegroundInv'
<1>1. Visited(b) /\ UNCHANGED <<groups, events, scheduled, bgs, freeSlots, mapVars, slot, bgId, place>>
  BY DEF Wait
<1>2. ScheduledOk(scheduled') /\ DOMAIN bgs' = DOMAIN bgs
  BY <1>1 DEF BattlegroundInv, QueuesInv
<1>3. QueuesInv' /\ IdsInv' /\ WorldInv'
  BY <1>1, <1>2, VisitedKept
<1>4. PlayersInv' /\ SlotsInv'
  BY <1>1 DEF BattlegroundInv, PlayersInv, SlotsInv
<1> QED
  BY <1>3, <1>4 DEF BattlegroundInv

\* bs with the status of b changed.
WithStatus(bs, b, status) == [bs EXCEPT ![b].status = status]

HasStatus(bs, new, b, status) ==
    /\ BgsOk(new) /\ DOMAIN new = DOMAIN bs /\ SameCounts(bs, new)
    /\ \A c \in DOMAIN bs : new[c].offline = bs[c].offline
    /\ \A c \in DOMAIN bs : new[c].status = IF c = b THEN status ELSE bs[c].status

\* Only its status changes.
LEMMA StatusView ==
    ASSUME NEW bs, BgsOk(bs), NEW b \in DOMAIN bs, NEW status \in {"join", "progress", "leave"}
    PROVE  HasStatus(bs, WithStatus(bs, b, status), b, status)
<1> DEFINE new == WithStatus(bs, b, status)
           rec == [bs[b] EXCEPT !.status = status]
<1>1. bs[b] \in BgRec /\ bs \in [DOMAIN bs -> BgRec] /\ DOMAIN bs \subseteq Ids
  BY DEF BgsOk
<1>2. /\ rec \in BgRec /\ rec.queue = bs[b].queue /\ rec.players = bs[b].players
      /\ rec.invited = bs[b].invited /\ rec.offline = bs[b].offline /\ rec.status = status
  BY <1>1 DEF BgRec
<1>3. new = [bs EXCEPT ![b] = rec]
  BY DEF WithStatus
<1> HIDE DEF new, rec
<1>4. /\ new \in [DOMAIN bs -> BgRec] /\ DOMAIN new = DOMAIN bs /\ new[b] = rec
      /\ \A c \in DOMAIN bs : c # b => new[c] = bs[c]
  BY <1>1, <1>2, <1>3
<1>5. BgsOk(new)
  BY <1>1, <1>4 DEF BgsOk
<1>6. ASSUME NEW c \in DOMAIN bs
      PROVE  /\ new[c].queue = bs[c].queue /\ new[c].players = bs[c].players
             /\ new[c].invited = bs[c].invited /\ new[c].offline = bs[c].offline
             /\ new[c].status = IF c = b THEN status ELSE bs[c].status
  BY <1>2, <1>4
<1>7. SameCounts(bs, new)
  BY <1>4, <1>6 DEF SameCounts
<1> QED
  BY <1>4, <1>5, <1>6, <1>7 DEF new, HasStatus

\* b leaves the list of the free ones of q.
NotFree(fs, q, b) == [fs EXCEPT ![q] = Keeping(@, Ids \ {b})]

\* It leaves the list of its queue.
LEMMA NotFreeView ==
    ASSUME NEW fs, NEW bs, FreeOk(fs, bs), NEW q \in Queues, NEW b
    PROVE  FreeOk(NotFree(fs, q, b), bs) /\ b \notin Range(NotFree(fs, q, b)[q])
<1> DEFINE old == fs[q]
           s == Keeping(old, Ids \ {b})
<1>1. /\ old \in Seq(Ids) /\ IsInjective(old)
      /\ \A c \in Range(old) : c \in DOMAIN bs /\ bs[c].queue = q
  BY DEF FreeOk
<1>2. NotFree(fs, q, b) = [fs EXCEPT ![q] = s]
  BY DEF NotFree
<1> HIDE DEF old
<1>3. /\ s \in Seq(Ids) /\ IsInjective(s) /\ Range(s) = Range(old) \cap (Ids \ {b})
  BY <1>1, KeepingSet
<1> HIDE DEF s
<1>4. /\ \A c \in Range(s) : c \in DOMAIN bs /\ bs[c].queue = q
      /\ b \notin Range(s)
  BY <1>1, <1>3
<1>5. /\ FreeOk(Put(fs, q, s), bs) /\ Put(fs, q, s) = [fs EXCEPT ![q] = s]
      /\ Put(fs, q, s)[q] = s
  BY <1>3, <1>4, FreeChanged
<1> QED
  BY <1>2, <1>4, <1>5

\* _ProcessJoin.
LEMMA StartMatchStep ==
    ASSUME BattlegroundInv, NEW b, StartMatch(b)
    PROVE  BattlegroundInv'
<1>1. /\ Visited(b) /\ bgs[b].status = "join" /\ bgs' = WithStatus(bgs, b, "progress")
      /\ UNCHANGED <<groups, events, scheduled, freeSlots, mapVars, slot, bgId, place>>
  BY DEF StartMatch, WithStatus
<1>2. b \in DOMAIN bgs /\ BgsOk(bgs)
  BY <1>1, VisitedIs DEF BattlegroundInv, PlayersInv, Agree
<1>3. "progress" \in {"join", "progress", "leave"}
  OBVIOUS
<1>4. /\ BgsOk(bgs') /\ DOMAIN bgs' = DOMAIN bgs /\ SameCounts(bgs, bgs')
      /\ \A c \in DOMAIN bgs : bgs'[c].offline = bgs[c].offline
      /\ \A c \in DOMAIN bgs : bgs'[c].status = IF c = b THEN "progress" ELSE bgs[c].status
  <2>1. HasStatus(bgs, WithStatus(bgs, b, "progress"), b, "progress")
    BY <1>2, <1>3, StatusView
  <2> QED
    BY <1>1, <2>1 DEF HasStatus
<1>5. ScheduledOk(scheduled')
  BY <1>1 DEF BattlegroundInv, QueuesInv
<1>6. QueuesInv' /\ IdsInv' /\ WorldInv'
  BY <1>1, <1>4, <1>5, VisitedKept
<1>7. PlayersInv'
  <2>1. Agree(InvitationsOf(groups), bgs, slot, place, bgId)
    BY DEF BattlegroundInv, PlayersInv
  <2>2. Agree(InvitationsOf(groups), bgs', slot, place, bgId)
    BY <1>4, <2>1, SameAgrees
  <2> QED
    BY <1>1, <2>2 DEF PlayersInv
<1>8. SlotsInv'
  <2>1. FreeOk(freeSlots, bgs) /\ OfflineOk(bgs, place)
    BY DEF BattlegroundInv, SlotsInv
  <2>2. FreeOk(freeSlots, bgs')
    BY <1>4, <2>1 DEF FreeOk, SameCounts
  <2>3. OfflineOk(bgs', place)
    <3> SUFFICES ASSUME NEW c \in DOMAIN bgs, bgs'[c].status # "leave"
                 PROVE  /\ IsInjective(bgs'[c].offline)
                        /\ \A p \in Range(bgs'[c].offline) : p \in bgs'[c].players /\ place[p] = "offline"
      BY <1>4 DEF OfflineOk
    <3>1. bgs[c].status # "leave" /\ bgs'[c].offline = bgs[c].offline /\ bgs'[c].players = bgs[c].players
      BY <1>1, <1>4 DEF SameCounts
    <3> QED
      BY <2>1, <3>1 DEF OfflineOk
  <2> QED
    BY <1>1, <2>2, <2>3 DEF SlotsInv
<1> QED
  BY <1>6, <1>7, <1>8 DEF BattlegroundInv

\* EndBattleground: it does not wait for players any more.
LEMMA EndMatchStep ==
    ASSUME BattlegroundInv, NEW b, EndMatch(b)
    PROVE  BattlegroundInv'
<1> DEFINE q == bgs[b].queue
<1>1. /\ Visited(b) /\ bgs' = WithStatus(bgs, b, "leave")
      /\ freeSlots' = NotFree(freeSlots, q, b)
      /\ UNCHANGED <<groups, events, scheduled, mapVars, slot, bgId, place>>
  BY DEF EndMatch, WithStatus, NotFree
<1>2. b \in DOMAIN bgs /\ BgsOk(bgs) /\ q \in Queues
  BY <1>1, VisitedIs DEF BattlegroundInv, PlayersInv, Agree
<1>3. "leave" \in {"join", "progress", "leave"}
  OBVIOUS
<1>4. /\ BgsOk(bgs') /\ DOMAIN bgs' = DOMAIN bgs /\ SameCounts(bgs, bgs')
      /\ \A c \in DOMAIN bgs : bgs'[c].offline = bgs[c].offline
      /\ \A c \in DOMAIN bgs : bgs'[c].status = IF c = b THEN "leave" ELSE bgs[c].status
  <2>1. HasStatus(bgs, WithStatus(bgs, b, "leave"), b, "leave")
    BY <1>2, <1>3, StatusView
  <2> QED
    BY <1>1, <2>1 DEF HasStatus
<1>5. ScheduledOk(scheduled')
  BY <1>1 DEF BattlegroundInv, QueuesInv
<1>6. QueuesInv' /\ IdsInv' /\ WorldInv'
  BY <1>1, <1>4, <1>5, VisitedKept
<1>7. PlayersInv'
  <2>1. Agree(InvitationsOf(groups), bgs, slot, place, bgId)
    BY DEF BattlegroundInv, PlayersInv
  <2>2. Agree(InvitationsOf(groups), bgs', slot, place, bgId)
    BY <1>4, <2>1, SameAgrees
  <2> QED
    BY <1>1, <2>2 DEF PlayersInv
<1>8. SlotsInv'
  <2>1. FreeOk(freeSlots, bgs) /\ OfflineOk(bgs, place)
    BY DEF BattlegroundInv, SlotsInv
  <2>2. FreeOk(freeSlots', bgs)
    BY <1>1, <1>2, <2>1, NotFreeView
  <2>3. FreeOk(freeSlots', bgs')
    BY <1>4, <2>2 DEF FreeOk, SameCounts
  <2>4. OfflineOk(bgs', place)
    <3> SUFFICES ASSUME NEW c \in DOMAIN bgs, bgs'[c].status # "leave"
                 PROVE  /\ IsInjective(bgs'[c].offline)
                        /\ \A p \in Range(bgs'[c].offline) : p \in bgs'[c].players /\ place[p] = "offline"
      BY <1>4 DEF OfflineOk
    <3>1. bgs[c].status # "leave" /\ bgs'[c].offline = bgs[c].offline /\ bgs'[c].players = bgs[c].players
      BY <1>4 DEF SameCounts
    <3> QED
      BY <2>1, <3>1 DEF OfflineOk
  <2> QED
    BY <1>1, <2>3, <2>4 DEF SlotsInv
<1> QED
  BY <1>6, <1>7, <1>8 DEF BattlegroundInv

\* A battleground is deleted: as nobody is counted by it, nobody is invited to it, on
\* the way to it or in it, and its id is that of a map to be destroyed, or free of use.
LEMMA DeleteBattlegroundStep ==
    ASSUME BattlegroundAssumption, BattlegroundInv, NEW b, DeleteBattleground(b)
    PROVE  BattlegroundInv'
<1> DEFINE q == bgs[b].queue
<1>1. /\ Visited(b) /\ \A t \in Teams : bgs[b].invited[t] = 0
      /\ bgs' = [c \in DOMAIN bgs \ {b} |-> bgs[c]]
      /\ freeSlots' = NotFree(freeSlots, q, b)
      /\ maps' = maps \ {b}
      /\ unloading' = IF b \in maps THEN unloading \cup {<<b, q>>} ELSE unloading
      /\ UNCHANGED <<groups, events, scheduled, ids, slot, bgId, place>>
  BY DEF DeleteBattleground, NotFree
<1>2. b \in DOMAIN bgs /\ BgsOk(bgs) /\ q \in Queues /\ due' = due \ {b}
      /\ UNCHANGED <<phase, requests>>
  BY <1>1, VisitedIs DEF BattlegroundInv, PlayersInv, Agree
<1>3. Agree(InvitationsOf(groups), bgs, slot, place, bgId)
  BY DEF BattlegroundInv, PlayersInv
<1>4. /\ Agree(InvitationsOf(groups), bgs', slot, place, bgId) /\ BgsOk(bgs')
      /\ DOMAIN bgs' = DOMAIN bgs \ {b} /\ \A c \in DOMAIN bgs' : bgs'[c] = bgs[c]
  BY <1>1, <1>2, <1>3, DeleteAgrees, SMTT(60)
<1>5. QueuesInv' /\ PlayersInv'
  BY <1>1, <1>4 DEF BattlegroundInv, QueuesInv, PlayersInv
<1>6. SlotsInv'
  <2>1. FreeOk(freeSlots, bgs) /\ OfflineOk(bgs, place)
    BY DEF BattlegroundInv, SlotsInv
  <2>2. /\ FreeOk(freeSlots', bgs) /\ b \notin Range(freeSlots'[q])
    BY <1>1, <1>2, <2>1, NotFreeView
  <2>3. \A r \in Queues : \A c \in Range(freeSlots'[r]) : c \in DOMAIN bgs' /\ bgs'[c].queue = r
    <3> TAKE r \in Queues
    <3> TAKE c \in Range(freeSlots'[r])
    <3>1. c \in DOMAIN bgs /\ bgs[c].queue = r
      BY <2>2 DEF FreeOk
    <3>2. c # b
      BY <2>2, <3>1
    <3> QED
      BY <1>4, <3>1, <3>2
  <2>4. FreeOk(freeSlots', bgs')
    BY <2>2, <2>3 DEF FreeOk
  <2>5. OfflineOk(bgs', place)
    BY <1>4, <2>1 DEF OfflineOk
  <2> QED
    BY <1>1, <2>4, <2>5 DEF SlotsInv
<1>7. IdsInv'
  <2>1. /\ IdsOk(ids, DOMAIN bgs \cup Gone) /\ DOMAIN bgs \cap Gone = {}
        /\ maps \subseteq DOMAIN bgs /\ unloading \subseteq Ids \X Queues
    BY DEF BattlegroundInv, IdsInv
  <2>2. Gone' \subseteq Gone \cup {b}
    BY <1>1 DEF Gone
  <2>3. DOMAIN bgs' \cup Gone' \subseteq DOMAIN bgs \cup Gone /\ DOMAIN bgs' \cap Gone' = {}
    BY <1>2, <1>4, <2>1, <2>2
  <2>4. IdsOk(ids, DOMAIN bgs' \cup Gone')
    <3> DEFINE U == DOMAIN bgs \cup Gone
               U2 == DOMAIN bgs' \cup Gone'
    <3>1. IdsOk(ids, U) /\ U2 \subseteq U
      BY <2>1, <2>3
    <3> HIDE DEF U, U2
    <3>2. IdsOk(ids, U2)
      BY <3>1 DEF IdsOk
    <3> QED
      BY <3>2 DEF U2
  <2>5. b \in Ids
    BY <1>2 DEF BgsOk
  <2>6. unloading' \subseteq Ids \X Queues /\ maps' \subseteq DOMAIN bgs'
    BY <1>1, <1>2, <1>4, <2>1, <2>5
  <2>7. ids' = ids
    BY <1>1
  <2> QED
    BY <2>3, <2>4, <2>6, <2>7 DEF IdsInv
<1>8. WorldInv'
  BY <1>2, <1>4 DEF BattlegroundInv, WorldInv
<1> QED
  BY <1>5, <1>6, <1>7, <1>8 DEF BattlegroundInv

-----------------------------------------------------------------------------
(* The maps, and the departures from a battleground.                         *)

\* The ids of the maps destroyed are free again, for all that is left of them.
LEMMA FreedIds ==
    ASSUME NEW i, NEW used, NEW gone, IdsOk(i, used \cup gone), used \cap gone = {},
           NEW seen \in SUBSET gone, NEW set \in SUBSET gone
    PROVE  IdsOk([i EXCEPT !.next = Min({@} \cup seen), !.free = @ \cup set], used)
<1> DEFINE U == used \cup gone
           all == {i.next} \cup seen
           next == Min(all)
           free == i.free \cup set
           new == [i EXCEPT !.next = next, !.free = free]
<1>1. IdsOk(i, U) /\ used \subseteq U /\ gone \subseteq U
  OBVIOUS
<1> HIDE DEF U
<1>2. /\ i \in [next : Nat, free : SUBSET Nat, size : Nat]
      /\ i.next \in 1..(i.size - 1) /\ i.free \subseteq 1..(i.size - 1) /\ U \subseteq 1..(i.size - 1)
      /\ i.next \notin U /\ i.free \cap U = {}
  BY <1>1 DEF IdsOk
<1>3. i.next \in Nat /\ i.free \in SUBSET Nat /\ i.size \in Nat
  BY <1>2
<1>4. all \subseteq 1..(i.size - 1) /\ all # {} /\ all \cap used = {}
  BY <1>1, <1>2
<1>5. all \in SUBSET Nat
  BY <1>4
<1>6. Min(all) \in all
  BY <1>4, <1>5, MinOfNaturals
<1>7. next \in 1..(i.size - 1) /\ next \notin used /\ next \in Nat
  BY <1>4, <1>5, <1>6
<1>8. free \subseteq 1..(i.size - 1) /\ free \cap used = {} /\ free \in SUBSET Nat
  <2> DEFINE J == 1..(i.size - 1)
  <2>1. J \subseteq Nat
    BY <1>3
  <2>2. i.free \subseteq J /\ U \subseteq J /\ i.free \cap U = {}
    BY <1>2
  <2> HIDE DEF J
  <2>3. set \subseteq J /\ set \cap used = {} /\ i.free \cap used = {}
    BY <1>1, <2>2
  <2> QED
    BY <2>1, <2>2, <2>3 DEF J
<1>9. used \subseteq 1..(i.size - 1)
  BY <1>1, <1>2
<1> HIDE DEF next, free, all
<1>10. new = [next |-> next, free |-> free, size |-> i.size]
  <2>1. i = [next |-> i.next, free |-> i.free, size |-> i.size]
    BY <1>2
  <2>2. new = [i EXCEPT !.next = next, !.free = free]
    OBVIOUS
  <2> HIDE DEF new
  <2> QED
    BY <2>1, <2>2
<1> HIDE DEF new
<1>11. new.next = next /\ new.free = free /\ new.size = i.size
       /\ new \in [next : Nat, free : SUBSET Nat, size : Nat]
  BY <1>3, <1>7, <1>8, <1>10
<1>12. IdsOk(new, used)
  BY <1>7, <1>8, <1>9, <1>11 DEF IdsOk
<1> QED
  BY <1>12 DEF new, all, next, free

\* MapManager::Update: the ids that are freed are those of maps that were destroyed.
LEMMA UpdateMapsStep ==
    ASSUME BattlegroundInv, UpdateMaps
    PROVE  BattlegroundInv'
<1>1. /\ phase' = "battlegrounds" /\ due' \in {{}, DOMAIN bgs}
      /\ UNCHANGED <<groups, events, scheduled, bgs, freeSlots, maps, slot, bgId, place, requests>>
  BY DEF UpdateMaps
<1>0. \/ unloading # {} /\ FreeInstanceId({u[1] : u \in unloading}) /\ unloading' = {}
      \/ ids' = ids /\ unloading' = unloading
  BY DEF UpdateMaps
<1>2. QueuesInv' /\ PlayersInv' /\ SlotsInv'
  BY <1>1 DEF BattlegroundInv, QueuesInv, PlayersInv, SlotsInv
<1>3. WorldInv'
  BY <1>1 DEF BattlegroundInv, WorldInv
<1>4. /\ IdsOk(ids, DOMAIN bgs \cup Gone) /\ DOMAIN bgs \cap Gone = {}
      /\ maps \subseteq DOMAIN bgs /\ unloading \subseteq Ids \X Queues
  BY DEF BattlegroundInv, IdsInv
<1>5. ASSUME FreeInstanceId({u[1] : u \in unloading}), unloading' = {} PROVE IdsInv'
  <2>1. FreeInstanceId(Gone)
    BY <1>5 DEF Gone
  <2>2. PICK seen \in SUBSET Gone, set \in SUBSET Gone :
            ids' = [ids EXCEPT !.next = Min({@} \cup seen), !.free = @ \cup set]
    BY <2>1 DEF FreeInstanceId
  <2> DEFINE B == DOMAIN bgs
             G == Gone
  <2>3. IdsOk(ids, B \cup G) /\ B \cap G = {} /\ seen \in SUBSET G /\ set \in SUBSET G
    BY <1>4, <2>2
  <2> HIDE DEF B, G
  <2>4. IdsOk(ids', B)
    BY <2>2, <2>3, FreedIds
  <2>5. Gone' = {}
    BY <1>5 DEF Gone
  <2>6. DOMAIN bgs' = B /\ DOMAIN bgs' \cup Gone' = B
    BY <1>1, <2>5 DEF B
  <2>7. IdsOk(ids', DOMAIN bgs' \cup Gone') /\ DOMAIN bgs' \cap Gone' = {}
    BY <2>4, <2>5, <2>6
  <2>8. maps' \subseteq DOMAIN bgs' /\ unloading' \subseteq Ids \X Queues
    BY <1>1, <1>4, <1>5
  <2> QED
    BY <2>7, <2>8 DEF IdsInv
<1>6. ASSUME ids' = ids, unloading' = unloading PROVE IdsInv'
  <2>1. Gone' = Gone
    BY <1>6 DEF Gone
  <2>2. bgs' = bgs /\ maps' = maps
    BY <1>1
  <2>3. DOMAIN bgs' \cup Gone' = DOMAIN bgs \cup Gone
    BY <2>1, <2>2
  <2>4. IdsOk(ids', DOMAIN bgs' \cup Gone') /\ DOMAIN bgs' \cap Gone' = {}
    BY <1>4, <1>6, <2>1, <2>2, <2>3
  <2>5. maps' \subseteq DOMAIN bgs' /\ unloading' \subseteq Ids \X Queues
    BY <1>4, <1>6, <2>2
  <2> QED
    BY <2>4, <2>5 DEF IdsInv
<1>7. IdsInv'
  BY <1>0, <1>5, <1>6
<1> QED
  BY <1>2, <1>3, <1>7 DEF BattlegroundInv

\* The value that the departures change, at first.
LEMMA NowOk ==
    ASSUME BattlegroundInv
    PROVE  /\ LeaveOk(InvitationsOf(groups), Now, place)
           /\ Now.bgs = bgs /\ Now.freeSlots = freeSlots /\ Now.scheduled = scheduled
           /\ Now.slot = slot /\ Now.bgId = bgId
<1>1. /\ Now.bgs = bgs /\ Now.freeSlots = freeSlots /\ Now.scheduled = scheduled
      /\ Now.slot = slot /\ Now.bgId = bgId
      /\ Now = [bgs |-> bgs, freeSlots |-> freeSlots, scheduled |-> scheduled, slot |-> slot, bgId |-> bgId]
  BY DEF Now
<1>2. /\ Agree(InvitationsOf(groups), bgs, slot, place, bgId) /\ FreeOk(freeSlots, bgs)
      /\ ScheduledOk(scheduled)
  BY DEF BattlegroundInv, QueuesInv, PlayersInv, SlotsInv
<1> QED
  BY <1>1, <1>2 DEF LeaveOk

\* Who is offline stays so when another, or nobody, departs.
LEMMA OfflineLeft ==
    ASSUME NEW bs, NEW pl, OfflineOk(bs, pl), NEW bs2, NEW b, NEW p, LeftBgs(bs, bs2, b, p),
           NEW pl2, \A u \in Players : pl[u] = "offline" => pl2[u] = "offline",
           BgsOk(bs), pl[p] # "offline"
    PROVE  OfflineOk(bs2, pl2)
<1> SUFFICES ASSUME NEW c \in DOMAIN bs2, bs2[c].status # "leave"
             PROVE  /\ IsInjective(bs2[c].offline)
                    /\ \A u \in Range(bs2[c].offline) : u \in bs2[c].players /\ pl2[u] = "offline"
  BY DEF OfflineOk
<1>1. /\ c \in DOMAIN bs /\ bs[c].status # "leave" /\ bs2[c].offline = bs[c].offline
      /\ bs2[c].players = IF c = b THEN bs[c].players \ {p} ELSE bs[c].players
  BY DEF LeftBgs
<1>2. /\ IsInjective(bs[c].offline)
      /\ \A u \in Range(bs[c].offline) : u \in bs[c].players /\ pl[u] = "offline"
  BY <1>1 DEF OfflineOk
<1>3. bs[c].players \in SUBSET Players
  BY <1>1, BgFields
<1> QED
  BY <1>1, <1>2, <1>3

\* Player::LeaveBattleground.
LEMMA LeaveBattlegroundStep ==
    ASSUME BattlegroundAssumption, BattlegroundInv, NEW p \in Players, LeaveBattleground(p)
    PROVE  BattlegroundInv'
<1> DEFINE iv == InvitationsOf(groups)
           b == bgId[p]
           now == Now
           new == RemovePlayerAtLeave(now, p, b)
           pl == place
           pl2 == LeftPlaces(pl, p)
<1>1. /\ place[p] = "bg" /\ b \in DOMAIN bgs /\ Becomes(new)
      /\ place' = [place EXCEPT ![p] = "world"]
      /\ UNCHANGED <<groups, events, mapVars, worldVars>>
  BY DEF LeaveBattleground
<1>2. /\ LeaveOk(iv, now, pl) /\ now.bgs = bgs /\ now.bgId = bgId
  BY NowOk
<1>3. b \in DOMAIN now.bgs /\ place[p] = pl[p] /\ now.bgId[p] = b
  BY <1>1, <1>2
<1>4. place' = pl2
  BY <1>1 DEF LeftPlaces
<1> HIDE DEF now, b, pl, iv
<1>5. LeaveOk(iv, new, pl2)
  BY <1>2, <1>3, AtLeaveView
<1>6. LeftBgs(now.bgs, new.bgs, b, p)
  BY <1>2, <1>3, AtLeaveView
<1> HIDE DEF new, pl2
<1>7. /\ bgs' = new.bgs /\ freeSlots' = new.freeSlots /\ scheduled' = new.scheduled
      /\ slot' = new.slot /\ bgId' = new.bgId
  BY <1>1 DEF Becomes
<1>8. /\ Agree(iv, new.bgs, new.slot, pl2, new.bgId) /\ FreeOk(new.freeSlots, new.bgs)
      /\ ScheduledOk(new.scheduled)
  BY <1>5 DEF LeaveOk
<1>9. QueuesInv'
  BY <1>1, <1>7, <1>8, QueuesKept DEF BattlegroundInv
<1>10. PlayersInv'
  BY <1>1, <1>4, <1>7, <1>8 DEF PlayersInv, iv
<1>11. LeftBgs(bgs, bgs', b, p)
  BY <1>2, <1>6, <1>7
<1>12. OfflineOk(bgs', place')
  <2>1. OfflineOk(bgs, place) /\ BgsOk(bgs) /\ place \in [Players -> PlaceNames]
    BY DEF BattlegroundInv, SlotsInv, PlayersInv, Agree, PlacesOk
  <2>2. \A u \in Players : place[u] = "offline" => place'[u] = "offline"
    BY <1>1, <2>1
  <2>3. place[p] # "offline"
    BY <1>1
  <2> QED
    BY <1>11, <2>1, <2>2, <2>3, OfflineLeft
<1>13. SlotsInv'
  BY <1>7, <1>8, <1>12 DEF SlotsInv
<1>14. DOMAIN bgs' = DOMAIN bgs
  BY <1>11 DEF LeftBgs
<1>15. IdsInv'
  <2>1. IdsInv /\ maps \subseteq DOMAIN bgs
    BY DEF BattlegroundInv, IdsInv
  <2>2. ids' = ids /\ unloading' = unloading /\ maps' \subseteq DOMAIN bgs
    BY <1>1, <2>1 DEF mapVars
  <2> QED
    BY <1>14, <2>1, <2>2, IdsKept
<1>16. WorldInv'
  BY <1>1, <1>14, WorldKept DEF worldVars, BattlegroundInv
<1> QED
  BY <1>9, <1>10, <1>13, <1>15, <1>16 DEF BattlegroundInv

\* The first element of a sequence without repetitions, and the others.
LEMMA TailView ==
    ASSUME NEW S, NEW s \in Seq(S), s # <<>>, IsInjective(s)
    PROVE  /\ Tail(s) \in Seq(S) /\ IsInjective(Tail(s)) /\ Head(s) \in Range(s) /\ Head(s) \in S
           /\ Head(s) \notin Range(Tail(s)) /\ Range(Tail(s)) \subseteq Range(s)
<1>1. /\ Len(s) \in Nat /\ Len(s) > 0 /\ DOMAIN s = 1..Len(s)
  OBVIOUS
<1>2. /\ Tail(s) \in Seq(S) /\ Len(Tail(s)) = Len(s) - 1
      /\ \A i \in 1..(Len(s) - 1) : Tail(s)[i] = s[i + 1]
  OBVIOUS
<1>3. DOMAIN Tail(s) = 1..(Len(s) - 1)
  BY <1>1, <1>2
<1>4. Head(s) = s[1] /\ 1 \in DOMAIN s
  BY <1>1
<1>5. \A i, j \in DOMAIN s : s[i] = s[j] => i = j
  BY DEF IsInjective
<1> DEFINE t == Tail(s)
<1>6. \A i \in DOMAIN t : i + 1 \in DOMAIN s /\ t[i] = s[i + 1] /\ i \in Nat /\ i + 1 # 1
  BY <1>1, <1>2, <1>3
<1> HIDE DEF t
<1>7. IsInjective(t)
  <2> SUFFICES ASSUME NEW i \in DOMAIN t, NEW j \in DOMAIN t, t[i] = t[j] PROVE i = j
    BY DEF IsInjective
  <2>1. i + 1 = j + 1
    BY <1>5, <1>6
  <2> QED
    BY <1>6, <2>1
<1>8. Head(s) \notin Range(t)
  BY <1>4, <1>5, <1>6 DEF Range
<1>9. Range(t) \subseteq Range(s)
  BY <1>6 DEF Range
<1>10. Head(s) \in Range(s) /\ Head(s) \in S
  BY <1>4 DEF Range
<1> QED
  BY <1>2, <1>7, <1>8, <1>9, <1>10 DEF t

\* The offline players of b become others.
WithOffline(bs, b, s) == Put(bs, b, [bs[b] EXCEPT !.offline = s])

\* Only they do.
LEMMA WithOfflineView ==
    ASSUME NEW bs, BgsOk(bs), NEW b \in DOMAIN bs, NEW s \in Seq(Players)
    PROVE  /\ BgsOk(WithOffline(bs, b, s)) /\ SameCounts(bs, WithOffline(bs, b, s))
           /\ \A c \in DOMAIN bs :
                  /\ WithOffline(bs, b, s)[c].status = bs[c].status
                  /\ WithOffline(bs, b, s)[c].offline = IF c = b THEN s ELSE bs[c].offline
           /\ WithOffline(bs, b, s) = [bs EXCEPT ![b].offline = s]
<1> DEFINE new == WithOffline(bs, b, s)
           rec == [bs[b] EXCEPT !.offline = s]
<1>1. bs[b] \in BgRec /\ bs \in [DOMAIN bs -> BgRec] /\ DOMAIN bs \subseteq Ids
  BY DEF BgsOk
<1>2. /\ rec \in BgRec /\ rec.queue = bs[b].queue /\ rec.players = bs[b].players
      /\ rec.invited = bs[b].invited /\ rec.offline = s /\ rec.status = bs[b].status
  BY <1>1 DEF BgRec
<1>3. new = [c \in DOMAIN bs \cup {b} |-> IF c = b THEN rec ELSE bs[c]]
  BY DEF WithOffline, Put
<1>4. [bs EXCEPT ![b].offline = s] = [bs EXCEPT ![b] = rec]
  OBVIOUS
<1> HIDE DEF new, rec
<1>5. /\ new \in [DOMAIN bs -> BgRec] /\ DOMAIN new = DOMAIN bs /\ new[b] = rec
      /\ \A c \in DOMAIN bs : c # b => new[c] = bs[c]
  BY <1>1, <1>2, <1>3
<1>6. BgsOk(new)
  BY <1>1, <1>5 DEF BgsOk
<1>7. ASSUME NEW c \in DOMAIN bs
      PROVE  /\ new[c].queue = bs[c].queue /\ new[c].players = bs[c].players
             /\ new[c].invited = bs[c].invited /\ new[c].status = bs[c].status
             /\ new[c].offline = IF c = b THEN s ELSE bs[c].offline
  BY <1>2, <1>5
<1>8. SameCounts(bs, new)
  BY <1>5, <1>7 DEF SameCounts
<1>9. new = [bs EXCEPT ![b] = rec]
  BY <1>1, <1>5
<1> QED
  BY <1>4, <1>6, <1>7, <1>8, <1>9 DEF new

\* _ProcessOfflineQueue: the first of the offline players is in the battleground, and his
\* place is given up.
LEMMA RemoveOfflineStep ==
    ASSUME BattlegroundAssumption, BattlegroundInv, NEW b, RemoveOffline(b)
    PROVE  BattlegroundInv'
<1> DEFINE iv == InvitationsOf(groups)
           s == bgs[b].offline
           p == Head(s)
           now == Now
           pl == place
           w == RemovePlayerAtLeave(now, p, b)
           bs == w.bgs
           bs2 == WithOffline(bs, b, Tail(s))
<1>1. /\ Visited(b) /\ bgs[b].status = "progress" /\ s # <<>> /\ p \in bgs[b].players
      /\ UNCHANGED <<groups, events, mapVars, place>>
  BY SMTT(60) DEF RemoveOffline
<1>2. Becomes([w EXCEPT !.bgs = Put(@, b, [bs[b] EXCEPT !.offline = Tail(@)])])
  BY DEF RemoveOffline
<1>3. b \in DOMAIN bgs /\ BgsOk(bgs) /\ OfflineOk(bgs, place)
  BY <1>1, VisitedIs DEF BattlegroundInv, PlayersInv, SlotsInv, Agree
<1>4. s \in Seq(Players) /\ IsInjective(s)
      /\ \A u \in Range(s) : u \in bgs[b].players /\ place[u] = "offline"
  BY <1>1, <1>3, BgFields DEF OfflineOk
<1>5. /\ Tail(s) \in Seq(Players) /\ IsInjective(Tail(s)) /\ p \in Range(s) /\ p \in Players
      /\ p \notin Range(Tail(s)) /\ Range(Tail(s)) \subseteq Range(s)
  BY <1>1, <1>4, TailView
<1>6. place[p] = "offline"
  BY <1>4, <1>5
<1>7. /\ LeaveOk(iv, now, pl) /\ now.bgs = bgs
  BY NowOk
<1>8. b \in DOMAIN now.bgs /\ place[p] = pl[p] /\ (pl[p] = "bg" => now.bgId[p] = b)
  BY <1>3, <1>6, <1>7
<1>9. LeftPlaces(pl, p) = pl
  BY <1>6 DEF LeftPlaces
<1> DEFINE tail == Tail(s)
<1> HIDE DEF p, now, pl, iv, tail
<1>10. LeaveOk(iv, w, LeftPlaces(pl, p))
  BY <1>5, <1>7, <1>8, AtLeaveView
<1>11. LeftBgs(now.bgs, bs, b, p)
  BY <1>5, <1>7, <1>8, AtLeaveView
<1>12. LeaveOk(iv, w, pl) /\ LeftBgs(bgs, bs, b, p)
  BY <1>7, <1>9, <1>10, <1>11
<1> HIDE DEF w
<1>13. /\ Agree(iv, bs, w.slot, pl, w.bgId) /\ FreeOk(w.freeSlots, bs) /\ ScheduledOk(w.scheduled)
       /\ w = [bgs |-> bs, freeSlots |-> w.freeSlots, scheduled |-> w.scheduled, slot |-> w.slot,
               bgId |-> w.bgId]
  BY <1>12 DEF LeaveOk
<1>14. b \in DOMAIN bs /\ bs[b].offline = s /\ BgsOk(bs) /\ DOMAIN bs = DOMAIN bgs
  BY <1>3, <1>12, <1>13 DEF LeftBgs, Agree
<1>15. /\ bgs' = Put(bs, b, [bs[b] EXCEPT !.offline = Tail(@)]) /\ freeSlots' = w.freeSlots
       /\ scheduled' = w.scheduled /\ slot' = w.slot /\ bgId' = w.bgId
  <2> DEFINE all == Put(bs, b, [bs[b] EXCEPT !.offline = Tail(@)])
             x == [w EXCEPT !.bgs = Put(@, b, [bs[b] EXCEPT !.offline = Tail(@)])]
  <2>0. Becomes(x)
    BY ONLY <1>2
  <2>1. x = [w EXCEPT !.bgs = all]
    OBVIOUS
  <2> HIDE DEF x, all
  <2>2. x = [bgs |-> all, freeSlots |-> w.freeSlots, scheduled |-> w.scheduled, slot |-> w.slot,
             bgId |-> w.bgId]
    BY <1>13, <2>1
  <2> QED
    BY <2>0, <2>2 DEF Becomes, all
<1>16. bgs' = WithOffline(bs, b, tail)
  BY <1>14, <1>15 DEF WithOffline, tail
<1> HIDE DEF bs, s
<1>17. tail \in Seq(Players)
  BY <1>5 DEF tail
<1>18. /\ BgsOk(bgs') /\ SameCounts(bs, bgs')
       /\ \A c \in DOMAIN bs : /\ bgs'[c].status = bs[c].status
                               /\ bgs'[c].offline = IF c = b THEN tail ELSE bs[c].offline
  BY <1>14, <1>16, <1>17, WithOfflineView
<1>19. Agree(iv, bgs', w.slot, pl, w.bgId)
  BY <1>13, <1>18, SameAgrees
<1>20. PlayersInv'
  BY <1>1, <1>15, <1>19 DEF PlayersInv, iv, pl
<1>21. DOMAIN bgs' = DOMAIN bgs /\ DOMAIN bgs' = DOMAIN bs
  BY <1>14, <1>18 DEF SameCounts
<1>22. QueuesInv' /\ IdsInv' /\ WorldInv'
  <2>1. ScheduledOk(scheduled')
    BY <1>13, <1>15
  <2> QED
    BY <1>1, <1>21, <2>1, VisitedKept
<1>23. FreeOk(freeSlots', bgs')
  BY <1>13, <1>15, <1>18 DEF FreeOk, SameCounts
<1>24. OfflineOk(bgs', place)
  <2> SUFFICES ASSUME NEW c \in DOMAIN bgs, bgs'[c].status # "leave"
               PROVE  /\ IsInjective(bgs'[c].offline)
                      /\ \A u \in Range(bgs'[c].offline) : u \in bgs'[c].players /\ place[u] = "offline"
    BY <1>21 DEF OfflineOk
  <2>1. /\ bgs'[c].offline = IF c = b THEN tail ELSE bgs[c].offline
        /\ bgs'[c].players = IF c = b THEN bgs[c].players \ {p} ELSE bgs[c].players
        /\ bgs[c].status # "leave"
    BY <1>12, <1>18, <1>21 DEF LeftBgs, SameCounts
  <2>2. CASE c = b
    BY <1>4, <1>5, <2>1, <2>2 DEF tail, s, p
  <2>3. CASE c # b
    BY <1>3, <2>1, <2>3 DEF OfflineOk
  <2> QED
    BY <2>2, <2>3
<1>25. SlotsInv'
  BY <1>1, <1>23, <1>24 DEF SlotsInv
<1> QED
  BY <1>20, <1>22, <1>25, SMTT(60) DEF BattlegroundInv

-----------------------------------------------------------------------------
(* KickAll.                                                                  *)
LeaveWorlds ==
    [bgs : BgMaps, freeSlots : [Queues -> Seq(Ids)], scheduled : Seq(Queues),
     slot : [Players -> [Queues -> Ids \cup {0, NotQueued}]], bgId : [Players -> Ids \cup {0}]]

\* The places when those of S have left.
PlacesLeft(S) == [u \in Players |-> IF u \in S /\ place[u] = "bg" THEN "world" ELSE place[u]]

\* The battlegrounds are as before, without those of S in b.
AllLeft(bs, bs2, b, S) ==
    /\ DOMAIN bs2 = DOMAIN bs
    /\ \A c \in DOMAIN bs :
           /\ bs2[c].queue = bs[c].queue /\ bs2[c].status = bs[c].status
           /\ bs2[c].offline = bs[c].offline
           /\ bs2[c].players = IF c = b THEN bs[c].players \ S ELSE bs[c].players

KickOk(w, b, S) ==
    LeaveOk(InvitationsOf(groups), w, PlacesLeft(S)) /\ AllLeft(bgs, w.bgs, b, S)

\* The values of the fold are in it.
LEMMA LeaveWorldsHas ==
    ASSUME NEW iv, NEW w, NEW pl, LeaveOk(iv, w, pl)
    PROVE  w \in LeaveWorlds
<1>1. /\ BgsOk(w.bgs) /\ SlotOk(w.slot) /\ PlacesOk(iv, w.bgs, w.slot, pl, w.bgId)
      /\ FreeOk(w.freeSlots, w.bgs) /\ ScheduledOk(w.scheduled)
      /\ w = [bgs |-> w.bgs, freeSlots |-> w.freeSlots, scheduled |-> w.scheduled, slot |-> w.slot,
              bgId |-> w.bgId]
  BY DEF LeaveOk, Agree
<1> DEFINE bs == w.bgs
           fs == w.freeSlots
           sc == w.scheduled
           sl == w.slot
           bi == w.bgId
<1>2. /\ fs \in [Queues -> Seq(Ids)] /\ sc \in Seq(Queues) /\ bi \in [Players -> Ids \cup {0}]
      /\ sl \in [Players -> [Queues -> Ids \cup {0, NotQueued}]]
  BY <1>1 DEF FreeOk, ScheduledOk, PlacesOk, SlotOk
<1>3. bs \in BgMaps
  BY <1>1 DEF BgsOk, BgMaps
<1>4. w = [bgs |-> bs, freeSlots |-> fs, scheduled |-> sc, slot |-> sl, bgId |-> bi]
  BY <1>1
<1> HIDE DEF bs, fs, sc, sl, bi
<1>5. [bgs |-> bs, freeSlots |-> fs, scheduled |-> sc, slot |-> sl, bgId |-> bi] \in LeaveWorlds
  BY <1>2, <1>3 DEF LeaveWorlds
<1> QED
  BY <1>4, <1>5

\* One more of them leaves.
LEMMA KickOne ==
    ASSUME BattlegroundAssumption, BattlegroundInv, NEW b \in DOMAIN bgs,
           NEW S \in SUBSET bgs[b].players, NEW x \in S, NEW w, KickOk(w, b, S \ {x})
    PROVE  KickOk(RemovePlayerAtLeave(w, x, b), b, S)
<1> DEFINE iv == InvitationsOf(groups)
           R == S \ {x}
           pl == PlacesLeft(R)
           new == RemovePlayerAtLeave(w, x, b)
<1>1. LeaveOk(iv, w, pl) /\ AllLeft(bgs, w.bgs, b, R)
  BY DEF KickOk
<1>2. BgsOk(bgs) /\ bgs[b].players \in SUBSET Players
  BY BgFields DEF BattlegroundInv, PlayersInv, Agree
<1>3. x \in Players /\ x \notin R /\ x \in bgs[b].players
  BY <1>2
<1>4. place[x] = pl[x]
  BY <1>3 DEF PlacesLeft
<1>5. b \in DOMAIN w.bgs /\ x \in w.bgs[b].players
  BY <1>1, <1>3 DEF AllLeft
<1>6. w.bgId[x] = b
  BY <1>1, <1>5 DEF LeaveOk, Agree, PlacesOk
<1>7. LeftPlaces(pl, x) = PlacesLeft(S)
  <2>1. \A u \in Players : PlacesLeft(S)[u] = IF u = x /\ pl[x] = "bg" THEN "world" ELSE pl[u]
    BY <1>3 DEF PlacesLeft
  <2>2. /\ PlacesLeft(S) = [u \in Players |-> PlacesLeft(S)[u]]
        /\ pl = [u \in Players |-> pl[u]]
    BY DEF PlacesLeft
  <2> HIDE DEF pl
  <2>3. \A u \in Players : LeftPlaces(pl, x)[u] = IF u = x /\ pl[x] = "bg" THEN "world" ELSE pl[u]
    BY <1>3, <2>2 DEF LeftPlaces
  <2>4. LeftPlaces(pl, x) = [u \in Players |-> LeftPlaces(pl, x)[u]]
    BY <1>3, <2>2 DEF LeftPlaces
  <2> QED
    BY <2>1, <2>2, <2>3, <2>4
<1> HIDE DEF iv, pl, new
<1>8. LeaveOk(iv, new, LeftPlaces(pl, x))
  BY <1>1, <1>3, <1>4, <1>5, <1>6, AtLeaveView DEF new
<1>9. LeftBgs(w.bgs, new.bgs, b, x)
  BY <1>1, <1>3, <1>4, <1>5, <1>6, AtLeaveView DEF new
<1>10. AllLeft(bgs, new.bgs, b, S)
  <2>1. DOMAIN new.bgs = DOMAIN bgs
    BY <1>1, <1>9 DEF AllLeft, LeftBgs
  <2>2. ASSUME NEW c \in DOMAIN bgs
        PROVE  /\ new.bgs[c].queue = bgs[c].queue /\ new.bgs[c].status = bgs[c].status
               /\ new.bgs[c].offline = bgs[c].offline
               /\ new.bgs[c].players = IF c = b THEN bgs[c].players \ S ELSE bgs[c].players
    <3>1. /\ w.bgs[c].queue = bgs[c].queue /\ w.bgs[c].status = bgs[c].status
          /\ w.bgs[c].offline = bgs[c].offline
          /\ w.bgs[c].players = IF c = b THEN bgs[c].players \ R ELSE bgs[c].players
          /\ c \in DOMAIN w.bgs
      BY <1>1 DEF AllLeft
    <3>2. /\ new.bgs[c].queue = w.bgs[c].queue /\ new.bgs[c].status = w.bgs[c].status
          /\ new.bgs[c].offline = w.bgs[c].offline
          /\ new.bgs[c].players = IF c = b THEN w.bgs[c].players \ {x} ELSE w.bgs[c].players
      BY <1>9, <3>1 DEF LeftBgs
    <3>3. (bgs[b].players \ R) \ {x} = bgs[b].players \ S
      OBVIOUS
    <3> QED
      BY <3>1, <3>2, <3>3
  <2> QED
    BY <2>1, <2>2 DEF AllLeft
<1> QED
  BY <1>7, <1>8, <1>10 DEF KickOk, iv, new

\* All of its players have left it.
LEMMA AllLeaveView ==
    ASSUME BattlegroundAssumption, BattlegroundInv, NEW b \in DOMAIN bgs
    PROVE  KickOk(AllLeave(b), b, bgs[b].players)
<1> DEFINE P == bgs[b].players
           Good == [S \in SUBSET P |-> {w \in LeaveWorlds : KickOk(w, b, S)}]
<1>1. IsFiniteSet(P)
  <2>1. P \in SUBSET Players
    BY BgFields DEF BattlegroundInv, PlayersInv, Agree
  <2> QED
    BY <2>1, FS_Subset DEF BattlegroundAssumption
<1>2. Now \in Good[{}]
  <2>1. /\ LeaveOk(InvitationsOf(groups), Now, place) /\ Now.bgs = bgs
    BY NowOk
  <2>2. PlacesLeft({}) = place
    <3>1. place \in [Players -> PlaceNames]
      BY DEF BattlegroundInv, PlayersInv, Agree, PlacesOk
    <3> QED
      BY <3>1 DEF PlacesLeft
  <2>3. AllLeft(bgs, Now.bgs, b, {})
    BY <2>1 DEF AllLeft
  <2>4. KickOk(Now, b, {}) /\ Now \in LeaveWorlds
    BY <2>1, <2>2, <2>3, LeaveWorldsHas DEF KickOk
  <2> QED
    BY <2>4
<1>3. ASSUME NEW S \in SUBSET P, NEW x \in S, NEW w \in Good[S \ {x}]
      PROVE  RemovePlayerAtLeave(w, x, b) \in Good[S]
  <2>1. KickOk(w, b, S \ {x})
    BY <1>3
  <2>2. KickOk(RemovePlayerAtLeave(w, x, b), b, S)
    BY <1>3, <2>1, KickOne
  <2>3. RemovePlayerAtLeave(w, x, b) \in LeaveWorlds
    BY <2>2, LeaveWorldsHas DEF KickOk
  <2> QED
    BY <2>2, <2>3
<1> HIDE DEF Good
<1>4. AllLeave(b) \in Good[P]
  BY <1>1, <1>2, <1>3, KickFold
<1> QED
  BY <1>4 DEF Good

\* _ProcessLeave.
LEMMA KickAllStep ==
    ASSUME BattlegroundAssumption, BattlegroundInv, NEW b, KickAll(b)
    PROVE  BattlegroundInv'
<1> DEFINE w == AllLeave(b)
           P == bgs[b].players
           iv == InvitationsOf(groups)
<1>1. /\ Visited(b) /\ bgs[b].status = "leave" /\ Becomes(w) /\ place' = PlacesLeft(P)
      /\ UNCHANGED <<groups, events, mapVars>>
  BY DEF KickAll, PlacesLeft
<1>2. b \in DOMAIN bgs /\ OfflineOk(bgs, place)
  BY <1>1, VisitedIs DEF BattlegroundInv, SlotsInv
<1>3. LeaveOk(iv, w, PlacesLeft(P)) /\ AllLeft(bgs, w.bgs, b, P)
  BY <1>2, AllLeaveView DEF KickOk
<1> HIDE DEF w, iv
<1>4. /\ bgs' = w.bgs /\ freeSlots' = w.freeSlots /\ scheduled' = w.scheduled
      /\ slot' = w.slot /\ bgId' = w.bgId
  BY <1>1 DEF Becomes
<1>5. /\ Agree(iv, bgs', slot', place', bgId') /\ FreeOk(freeSlots', bgs') /\ ScheduledOk(scheduled')
  BY <1>1, <1>3, <1>4 DEF LeaveOk
<1>6. PlayersInv'
  BY <1>1, <1>5 DEF PlayersInv, iv
<1>7. DOMAIN bgs' = DOMAIN bgs
  BY <1>3, <1>4 DEF AllLeft
<1>8. QueuesInv' /\ IdsInv' /\ WorldInv'
  BY <1>1, <1>5, <1>7, VisitedKept
<1>9. OfflineOk(bgs', place')
  <2> SUFFICES ASSUME NEW c \in DOMAIN bgs, bgs'[c].status # "leave"
               PROVE  /\ IsInjective(bgs'[c].offline)
                      /\ \A u \in Range(bgs'[c].offline) : u \in bgs'[c].players /\ place'[u] = "offline"
    BY <1>7 DEF OfflineOk
  <2>1. /\ bgs'[c].offline = bgs[c].offline /\ bgs'[c].status = bgs[c].status
        /\ bgs'[c].players = IF c = b THEN bgs[c].players \ P ELSE bgs[c].players
    BY <1>3, <1>4 DEF AllLeft
  <2>2. c # b /\ bgs'[c].players = bgs[c].players /\ bgs[c].status # "leave"
    BY <1>1, <2>1
  <2>3. /\ IsInjective(bgs[c].offline)
        /\ \A u \in Range(bgs[c].offline) : u \in bgs[c].players /\ place[u] = "offline"
    BY <1>2, <2>2 DEF OfflineOk
  <2>4. bgs[c].players \in SUBSET Players
    BY BgFields DEF BattlegroundInv, PlayersInv, Agree
  <2>5. \A u \in Players : place[u] = "offline" => place'[u] = "offline"
    BY <1>1 DEF PlacesLeft
  <2>6. \A u \in Range(bgs[c].offline) : u \in bgs[c].players /\ place'[u] = "offline"
    BY <2>3, <2>4, <2>5
  <2> QED
    BY <2>1, <2>2, <2>3, <2>6
<1>10. SlotsInv'
  BY <1>5, <1>9 DEF SlotsInv
<1> QED
  BY <1>6, <1>8, <1>10, SMTT(60) DEF BattlegroundInv

-----------------------------------------------------------------------------
(* The steps of the players.                                                 *)
LEMMA RestKept ==
    ASSUME BattlegroundInv, DOMAIN bgs' = DOMAIN bgs, UNCHANGED <<ids, unloading, phase, due>>,
           maps' \subseteq DOMAIN bgs, requests' \subseteq requests
    PROVE  IdsInv' /\ WorldInv'
<1>1. IdsInv /\ WorldInv
  BY DEF BattlegroundInv
<1>2. IdsInv'
  BY <1>1, IdsKept
<1>3. WorldInv'
  BY <1>1, WorldKept
<1> QED
  BY <1>2, <1>3

\* ... which is so for all steps that leave the maps and the world alone.
LEMMA MapsKept ==
    ASSUME BattlegroundInv, DOMAIN bgs' = DOMAIN bgs, UNCHANGED <<mapVars, worldVars>>
    PROVE  IdsInv' /\ WorldInv'
<1>1. UNCHANGED <<ids, unloading, phase, due>> /\ requests' = requests /\ maps' = maps
  BY DEF mapVars, worldVars
<1>2. maps \subseteq DOMAIN bgs
  BY DEF BattlegroundInv, IdsInv
<1> QED
  BY <1>1, <1>2, RestKept

\* Whoever is in a group has an invitation, and the other way round.
LEMMA InvitedIsIn ==
    ASSUME BattlegroundInv, NEW q \in Queues, NEW p \in Players
    PROVE  /\ ListsInv(groups[q])
           /\ InvitationsOf(groups)[q][p] = Invitations(groups[q], p)
           /\ \A g \in GroupOf(groups[q], p) :
                  [bg |-> g.invited, left |-> g.left] \in InvitationsOf(groups)[q][p]
           /\ InvitationsOf(groups)[q][p] = {} => GroupOf(groups[q], p) = {}
           /\ groups \in [Queues -> [Lists -> Seq(GroupRec)]]
<1>1. ListsInv(groups[q]) /\ groups \in [Queues -> [Lists -> Seq(GroupRec)]]
  BY DEF BattlegroundInv, QueuesInv, GroupsOk
<1>2. InvitationsOf(groups)[q][p] = Invitations(groups[q], p)
  BY DEF InvitationsOf
<1>3. \A g \in GroupOf(groups[q], p) : [bg |-> g.invited, left |-> g.left] \in Invitations(groups[q], p)
  BY DEF Invitations
<1> QED
  BY <1>1, <1>2, <1>3

\* p leaves a queue.
LEMMA OutOfIs ==
    ASSUME BattlegroundInv, NEW q \in Queues, NEW p \in Players
    PROVE  /\ [groups EXCEPT ![q] = Without(@, p)] = OutOf(groups, q, p)
           /\ GroupsOk(groups) /\ GroupsOk(OutOf(groups, q, p))
           /\ LeftQueue(InvitationsOf(groups), InvitationsOf(OutOf(groups, q, p)), q, p)
           /\ Timed(InvitationsOf(OutOf(groups, q, p)), events)
<1>1. GroupsOk(groups) /\ Timed(InvitationsOf(groups), events) /\ PlayersInv
  BY DEF BattlegroundInv, QueuesInv
<1>2. groups \in [Queues -> [Lists -> Seq(GroupRec)]]
  BY <1>1 DEF GroupsOk
<1>3. [groups EXCEPT ![q] = Without(@, p)] = OutOf(groups, q, p)
  <2> DEFINE lists == Without(groups[q], p)
  <2>1. [groups EXCEPT ![q] = Without(@, p)] = [groups EXCEPT ![q] = lists]
    OBVIOUS
  <2>2. OutOf(groups, q, p) = [y \in DOMAIN groups \cup {q} |-> IF y = q THEN lists ELSE groups[y]]
    BY DEF OutOf, Put
  <2> HIDE DEF lists
  <2>3. [groups EXCEPT ![q] = lists] = [y \in DOMAIN groups \cup {q} |-> IF y = q THEN lists ELSE groups[y]]
    BY <1>2
  <2> QED
    BY <2>1, <2>2, <2>3
<1>4. /\ GroupsOk(OutOf(groups, q, p))
      /\ LeftQueue(InvitationsOf(groups), InvitationsOf(OutOf(groups, q, p)), q, p)
  <2>1. Agree(InvitationsOf(groups), bgs, slot, place, bgId)
    BY <1>1 DEF PlayersInv
  <2> QED
    BY <1>1, <2>1, BattlegroundAssumption, OutOfQueueAgrees
<1>5. \A r \in Queues, u \in Players :
          InvitationsOf(OutOf(groups, q, p))[r][u] \subseteq InvitationsOf(groups)[r][u]
  BY <1>4 DEF LeftQueue
<1>6. Timed(InvitationsOf(OutOf(groups, q, p)), events)
  BY <1>1, <1>5, TimedLess
<1> QED
  BY <1>1, <1>3, <1>4, <1>6

\* HandleBattleFieldPortOpcode with action 0.
LEMMA LeaveQueueStep ==
    ASSUME BattlegroundAssumption, BattlegroundInv, NEW p \in Players, NEW q \in Queues, LeaveQueue(p, q)
    PROVE  BattlegroundInv'
<1>1. /\ GroupOf(groups[q], p) # {}
      /\ slot' = [slot EXCEPT ![p][q] = NotQueued] /\ bgs' = Uninvited(bgs, groups[q], p)
      /\ groups' = [groups EXCEPT ![q] = Without(@, p)] /\ scheduled' = Schedule(scheduled, q)
      /\ UNCHANGED <<events, freeSlots, mapVars, bgId, place, worldVars>>
  BY DEF LeaveQueue
<1>2. /\ groups' = OutOf(groups, q, p) /\ GroupsOk(groups) /\ GroupsOk(groups')
      /\ Timed(InvitationsOf(groups'), events)
  BY <1>1, OutOfIs, ZenonT(60)
<1>3. Agree(InvitationsOf(groups), bgs, slot, place, bgId)
  BY DEF BattlegroundInv, PlayersInv
<1>4. SlotOk(slot) /\ BgsOk(bgs) /\ ListsInv(groups[q])
  BY <1>2, <1>3 DEF Agree, GroupsOk
<1>5. slot' = SlotWith(slot, p, q, NotQueued)
  <2>1. NotQueued \in Ids \cup {0, NotQueued}
    OBVIOUS
  <2> QED
    BY <1>1, <1>4, <2>1, SlotWithView
<1>6. Agree(InvitationsOf(OutOf(groups, q, p)), Uninvited(bgs, groups[q], p),
            SlotWith(slot, p, q, NotQueued), place, bgId)
  BY <1>1, <1>2, <1>3, LeaveQueueAgrees
<1>7. PlayersInv'
  BY <1>1, <1>2, <1>5, <1>6 DEF PlayersInv
<1>8. SameShape(bgs, bgs')
  BY <1>1, <1>4, UninvitedView
<1>9. FreeOk(freeSlots, bgs) /\ OfflineOk(bgs, place)
  BY DEF BattlegroundInv, SlotsInv
<1>10. FreeOk(freeSlots, bgs') /\ OfflineOk(bgs', place)
  BY <1>8, <1>9, ShapeKept
<1>11. SlotsInv'
  BY <1>1, <1>10 DEF SlotsInv
<1>12. ScheduledOk(scheduled')
  BY <1>1, ScheduleView DEF BattlegroundInv, QueuesInv
<1>13. QueuesInv'
  BY <1>1, <1>2, <1>12 DEF BattlegroundInv, QueuesInv
<1>14. IdsInv' /\ WorldInv'
  <2>1. DOMAIN bgs' = DOMAIN bgs /\ UNCHANGED <<mapVars, worldVars>>
    BY <1>1, <1>8 DEF SameShape
  <2> QED
    BY <2>1, MapsKept
<1> QED
  BY <1>7, <1>11, <1>13, <1>14 DEF BattlegroundInv

\* bs2 is bs with p among the players of b.
Arrived(bs, bs2, b, p) ==
    /\ BgsOk(bs2) /\ DOMAIN bs2 = DOMAIN bs
    /\ \A c \in DOMAIN bs :
           /\ bs2[c].queue = bs[c].queue /\ bs2[c].invited = bs[c].invited
           /\ bs2[c].status = bs[c].status /\ bs2[c].offline = bs[c].offline
           /\ bs2[c].players = IF c = b THEN bs[c].players \cup {p} ELSE bs[c].players

\* One on his way has the slot of the battleground he goes to, so that he is added.
LEMMA AddedView ==
    ASSUME BattlegroundInv, NEW p \in Players, place[p] = "transit"
    PROVE  Arrived(bgs, Added(bgs, p), bgId[p], p) /\ bgId[p] \in DOMAIN bgs
<1> DEFINE b == bgId[p]
           rec == [bgs[b] EXCEPT !.players = @ \cup {p}]
           new == Added(bgs, p)
<1>1. BgsOk(bgs) /\ PlacesOk(InvitationsOf(groups), bgs, slot, place, bgId)
  BY DEF BattlegroundInv, PlayersInv, Agree
<1>2. b \in DOMAIN bgs /\ slot[p][bgs[b].queue] = b
  BY <1>1 DEF PlacesOk
<1>3. bgs[b].queue \in Queues /\ bgs[b] \in BgRec
  BY <1>1, <1>2, BgFields
<1>4. new = [bgs EXCEPT ![b].players = @ \cup {p}]
  BY <1>2, <1>3 DEF Added
<1>5. new = [bgs EXCEPT ![b] = rec]
  BY <1>4
<1>6. /\ rec \in BgRec /\ rec.queue = bgs[b].queue /\ rec.players = bgs[b].players \cup {p}
      /\ rec.invited = bgs[b].invited /\ rec.offline = bgs[b].offline /\ rec.status = bgs[b].status
  BY <1>3 DEF BgRec
<1>7. bgs \in [DOMAIN bgs -> BgRec] /\ DOMAIN bgs \subseteq Ids
  BY <1>1 DEF BgsOk
<1> HIDE DEF new, rec, b
<1>8. /\ new \in [DOMAIN bgs -> BgRec] /\ DOMAIN new = DOMAIN bgs /\ new[b] = rec
      /\ \A c \in DOMAIN bgs : c # b => new[c] = bgs[c]
  BY <1>2, <1>5, <1>6, <1>7
<1>9. BgsOk(new)
  BY <1>7, <1>8 DEF BgsOk
<1>10. ASSUME NEW c \in DOMAIN bgs
       PROVE  /\ new[c].queue = bgs[c].queue /\ new[c].invited = bgs[c].invited
              /\ new[c].status = bgs[c].status /\ new[c].offline = bgs[c].offline
              /\ new[c].players = IF c = b THEN bgs[c].players \cup {p} ELSE bgs[c].players
  BY <1>6, <1>8
<1>11. Arrived(bgs, new, b, p)
  BY <1>8, <1>9, <1>10 DEF Arrived
<1> QED
  BY <1>2, <1>11 DEF new, b

\* HandleMoveWorldportAck.
LEMMA ArriveStep ==
    ASSUME BattlegroundAssumption, BattlegroundInv, NEW p \in Players, Arrive(p)
    PROVE  BattlegroundInv'
<1>1. /\ place[p] = "transit" /\ bgs' = Added(bgs, p) /\ place' = [place EXCEPT ![p] = "bg"]
      /\ maps' = maps \cup {bgId[p]}
      /\ UNCHANGED <<groups, events, scheduled, freeSlots, ids, unloading, slot, bgId, worldVars>>
  BY DEF Arrive
<1>2. Arrived(bgs, bgs', bgId[p], p) /\ bgId[p] \in DOMAIN bgs
  BY <1>1, AddedView
<1>3. Agree(InvitationsOf(groups), bgs, slot, place, bgId)
  BY DEF BattlegroundInv, PlayersInv
<1>4. Agree(InvitationsOf(groups), bgs', slot, [place EXCEPT ![p] = "bg"], bgId)
  <2>1. /\ BgsOk(bgs') /\ DOMAIN bgs' = DOMAIN bgs
        /\ \A c \in DOMAIN bgs :
               /\ bgs'[c].queue = bgs[c].queue /\ bgs'[c].invited = bgs[c].invited
               /\ bgs'[c].players = IF c = bgId[p] THEN bgs[c].players \cup {p} ELSE bgs[c].players
    BY <1>2 DEF Arrived
  <2> DEFINE iv == InvitationsOf(groups)
             bs == bgs
             bs2 == bgs'
             sl == slot
             pl == place
             bi == bgId
  <2>2. /\ BattlegroundAssumption /\ Agree(iv, bs, sl, pl, bi) /\ pl[p] = "transit" /\ p \in Players
        /\ BgsOk(bs2) /\ DOMAIN bs2 = DOMAIN bs
        /\ \A c \in DOMAIN bs :
               /\ bs2[c].queue = bs[c].queue /\ bs2[c].invited = bs[c].invited
               /\ bs2[c].players = IF c = bi[p] THEN bs[c].players \cup {p} ELSE bs[c].players
    BY <1>1, <1>3, <2>1
  <2> HIDE DEF iv, bs, bs2, sl, pl, bi
  <2>3. Agree(iv, bs2, sl, [pl EXCEPT ![p] = "bg"], bi)
    BY ONLY <2>2, ArriveAgrees
  <2> QED
    BY <2>3 DEF iv, bs, bs2, sl, pl, bi
<1>5. PlayersInv'
  BY <1>1, <1>4 DEF PlayersInv
<1>6. FreeOk(freeSlots, bgs) /\ OfflineOk(bgs, place) /\ BgsOk(bgs) /\ place \in [Players -> PlaceNames]
  BY <1>3 DEF BattlegroundInv, SlotsInv, Agree, PlacesOk
<1>7. FreeOk(freeSlots, bgs')
  BY <1>2, <1>6 DEF FreeOk, Arrived
<1>8. OfflineOk(bgs', place')
  <2> SUFFICES ASSUME NEW c \in DOMAIN bgs, bgs'[c].status # "leave"
               PROVE  /\ IsInjective(bgs'[c].offline)
                      /\ \A u \in Range(bgs'[c].offline) : u \in bgs'[c].players /\ place'[u] = "offline"
    BY <1>2 DEF OfflineOk, Arrived
  <2>1. /\ bgs'[c].offline = bgs[c].offline /\ bgs[c].status # "leave"
        /\ bgs[c].players \subseteq bgs'[c].players
    BY <1>2 DEF Arrived
  <2>2. /\ IsInjective(bgs[c].offline)
        /\ \A u \in Range(bgs[c].offline) : u \in bgs[c].players /\ place[u] = "offline"
    BY <1>6, <2>1 DEF OfflineOk
  <2>3. bgs[c].players \in SUBSET Players
    BY <1>6, BgFields
  <2>4. \A u \in Players : place[u] = "offline" => place'[u] = "offline"
    BY <1>1, <1>6
  <2> QED
    BY <2>1, <2>2, <2>3, <2>4
<1>9. SlotsInv'
  BY <1>1, <1>7, <1>8 DEF SlotsInv
<1>10. QueuesInv'
  BY <1>1, QueuesKept DEF BattlegroundInv, QueuesInv
<1>11. IdsInv' /\ WorldInv'
  <2>1. DOMAIN bgs' = DOMAIN bgs
    BY <1>2 DEF Arrived
  <2>2. maps' \subseteq DOMAIN bgs
    BY <1>1, <1>2 DEF BattlegroundInv, IdsInv
  <2>3. UNCHANGED <<ids, unloading, phase, due>> /\ requests' \subseteq requests
    BY <1>1 DEF worldVars
  <2> QED
    BY <2>1, <2>2, <2>3, RestKept
<1> QED
  BY <1>5, <1>9, <1>10, <1>11 DEF BattlegroundInv

\* HandleBattleFieldPortOpcode with action 1: from the battleground he was in, to the one
\* that has counted him since he was invited.
LEMMA EnterStep ==
    ASSUME BattlegroundAssumption, BattlegroundInv, NEW p \in Players, NEW q \in Queues, Enter(p, q)
    PROVE  BattlegroundInv'
<1> DEFINE iv == InvitationsOf(groups)
           iv2 == InvitationsOf(OutOf(groups, q, p))
           b == bgId[p]
           now == Now
           w == IF b \in DOMAIN bgs THEN RemovePlayerAtLeave(now, p, b) ELSE now
           pl == place
           pl1 == LeftPlaces(pl, p)
<1>1. /\ place[p] \in {"world", "bg"} /\ groups' = [groups EXCEPT ![q] = Without(@, p)]
      /\ place' = [place EXCEPT ![p] = "transit"] /\ UNCHANGED <<events, mapVars, worldVars>>
  BY DEF Enter
<1>2. PICK g \in GroupOf(groups[q], p) :
          g.invited \in DOMAIN bgs /\ Becomes([w EXCEPT !.bgId = Put(@, p, g.invited)])
  BY DEF Enter
<1>3. /\ groups' = OutOf(groups, q, p) /\ GroupsOk(groups) /\ GroupsOk(groups') /\ LeftQueue(iv, iv2, q, p)
      /\ Timed(iv2, events)
  <2>1. /\ groups' = OutOf(groups, q, p) /\ GroupsOk(groups) /\ GroupsOk(OutOf(groups, q, p))
    BY <1>1, OutOfIs
  <2>2. LeftQueue(iv, iv2, q, p)
    BY OutOfIs
  <2>3. Timed(iv2, events)
    BY OutOfIs
  <2> QED
    BY <2>1, <2>2, <2>3
<1>4. LeaveOk(iv, now, pl) /\ now.bgs = bgs /\ now.bgId = bgId /\ Agree(iv, bgs, slot, pl, bgId)
  BY NowOk DEF BattlegroundInv, PlayersInv
<1>5. /\ pl \in [Players -> PlaceNames] /\ (pl[p] = "world" => b = 0)
      /\ (pl[p] = "bg" => b \in DOMAIN bgs) /\ BgsOk(bgs)
  BY <1>4 DEF Agree, PlacesOk
<1>6. 0 \notin DOMAIN bgs
  BY <1>5 DEF BgsOk, Ids
<1>7. /\ pl1 \in [Players -> PlaceNames] /\ pl1[p] = "world"
      /\ [pl1 EXCEPT ![p] = "transit"] = [pl EXCEPT ![p] = "transit"]
  BY <1>1, <1>5 DEF LeftPlaces, PlaceNames
<1>8. LeaveOk(iv, w, pl1) /\ LeftBgs(bgs, w.bgs, b, p)
  <2>1. CASE pl[p] = "bg"
    <3>1. b \in DOMAIN now.bgs /\ place[p] = pl[p] /\ now.bgId[p] = b
      BY <1>4, <1>5, <2>1
    <3>2. w = RemovePlayerAtLeave(now, p, b)
      BY <1>5, <2>1
    <3> HIDE DEF w, now, pl, iv, b
    <3>3. LeaveOk(iv, RemovePlayerAtLeave(now, p, b), LeftPlaces(pl, p))
      BY <1>4, <3>1, AtLeaveView
    <3>4. LeftBgs(now.bgs, RemovePlayerAtLeave(now, p, b).bgs, b, p)
      BY <1>4, <3>1, AtLeaveView
    <3> QED
      BY <1>4, <3>2, <3>3, <3>4
  <2>2. CASE pl[p] = "world"
    <3>1. w = now /\ pl1 = pl /\ b \notin DOMAIN bgs
      BY <1>5, <1>6, <2>2 DEF LeftPlaces
    <3> HIDE DEF w, now, pl1, b
    <3>2. LeftBgs(bgs, bgs, b, p)
      BY <3>1 DEF LeftBgs
    <3> QED
      BY <1>4, <3>1, <3>2
  <2> QED
    BY <1>1, <2>1, <2>2
<1> HIDE DEF w, now, pl1, iv, iv2, b
<1>9. /\ Agree(iv, w.bgs, w.slot, pl1, w.bgId) /\ FreeOk(w.freeSlots, w.bgs) /\ ScheduledOk(w.scheduled)
      /\ w = [bgs |-> w.bgs, freeSlots |-> w.freeSlots, scheduled |-> w.scheduled, slot |-> w.slot,
              bgId |-> w.bgId]
  BY <1>8 DEF LeaveOk
<1>10. /\ bgs' = w.bgs /\ freeSlots' = w.freeSlots /\ scheduled' = w.scheduled
       /\ slot' = w.slot /\ bgId' = Put(w.bgId, p, g.invited)
  <2> DEFINE all == Put(w.bgId, p, g.invited)
             x == [w EXCEPT !.bgId = Put(@, p, g.invited)]
  <2>1. x = [w EXCEPT !.bgId = all] /\ Becomes(x)
    BY <1>2
  <2> HIDE DEF x, all
  <2>2. x = [bgs |-> w.bgs, freeSlots |-> w.freeSlots, scheduled |-> w.scheduled, slot |-> w.slot,
             bgId |-> all]
    BY <1>9, <2>1
  <2> QED
    BY <2>1, <2>2 DEF Becomes, all
<1>11. w.bgId \in [Players -> Ids \cup {0}]
  BY <1>9 DEF Agree, PlacesOk
<1>12. bgId' = [w.bgId EXCEPT ![p] = g.invited]
  <2> DEFINE old == w.bgId
             v == g.invited
  <2>1. bgId' = Put(old, p, v)
    BY <1>10
  <2>3. old \in [Players -> Ids \cup {0}] /\ p \in Players
    BY <1>11
  <2> HIDE DEF old, v
  <2>2. Put(old, p, v) = [old EXCEPT ![p] = v]
    BY ONLY <2>3 DEF Put
  <2> QED
    BY <2>1, <2>2 DEF old, v
<1> DEFINE i == [bg |-> g.invited, left |-> g.left]
<1>13. i \in iv[q][p] /\ i.bg # 0 /\ i.bg = g.invited
  BY <1>2, <1>6, InvitedIsIn DEF iv
<1> HIDE DEF i
<1>14. InvitedOk(iv2)
  BY <1>3, InvitedTyped DEF iv2
<1>15. \A r \in Queues, u \in Players : iv2[r][u] = IF r = q /\ u = p THEN {} ELSE iv[r][u]
  BY <1>3 DEF LeftQueue
<1>16. Agree(iv2, w.bgs, w.slot, [pl1 EXCEPT ![p] = "transit"], [w.bgId EXCEPT ![p] = i.bg])
  <2> DEFINE bs == w.bgs
             sl == w.slot
             bi == w.bgId
  <2>1. /\ BattlegroundAssumption /\ Agree(iv, bs, sl, pl1, bi) /\ q \in Queues /\ p \in Players
        /\ pl1[p] = "world" /\ i \in iv[q][p] /\ i.bg # 0 /\ InvitedOk(iv2)
        /\ \A r \in Queues, u \in Players : iv2[r][u] = IF r = q /\ u = p THEN {} ELSE iv[r][u]
    BY <1>7, <1>9, <1>13, <1>14, <1>15
  <2> HIDE DEF bs, sl, bi
  <2>2. Agree(iv2, bs, sl, [pl1 EXCEPT ![p] = "transit"], [bi EXCEPT ![p] = i.bg])
    BY ONLY <2>1, EnterAgrees, SMTT(60)
  <2> QED
    BY <2>2 DEF bs, sl, bi
<1>17. PlayersInv'
  <2>1. place' = [pl1 EXCEPT ![p] = "transit"] /\ bgId' = [w.bgId EXCEPT ![p] = i.bg]
    BY <1>1, <1>7, <1>12, <1>13
  <2> HIDE DEF pl
  <2>2. Agree(iv2, bgs', slot', place', bgId')
    BY <1>10, <1>16, <2>1
  <2> QED
    BY <1>3, <2>2 DEF PlayersInv, iv2
<1>18. QueuesInv'
  BY <1>1, <1>3, <1>9, <1>10 DEF BattlegroundInv, QueuesInv, iv2
<1>19. LeftBgs(bgs, bgs', b, p)
  BY <1>8, <1>10
<1>20. OfflineOk(bgs', place')
  <2>1. OfflineOk(bgs, place) /\ place[p] # "offline"
    BY <1>1 DEF BattlegroundInv, SlotsInv
  <2>2. \A u \in Players : place[u] = "offline" => place'[u] = "offline"
    BY <1>1, <1>5
  <2> QED
    BY <1>5, <1>19, <2>1, <2>2, OfflineLeft
<1>21. SlotsInv'
  BY <1>9, <1>10, <1>20 DEF SlotsInv
<1>22. IdsInv' /\ WorldInv'
  <2>1. DOMAIN bgs' = DOMAIN bgs /\ UNCHANGED <<mapVars, worldVars>>
    BY <1>1, <1>19 DEF LeftBgs
  <2> QED
    BY <2>1, MapsKept
<1> QED
  BY <1>17, <1>18, <1>21, <1>22 DEF BattlegroundInv

\* A player who is not queued is in no group.
LEMMA NotQueuedAlone ==
    ASSUME BattlegroundInv, NEW q \in Queues, NEW p \in Players, slot[p][q] = NotQueued
    PROVE  GroupOf(groups[q], p) = {}
<1>1. /\ Known(InvitationsOf(groups), bgs, slot, place) /\ InvitedOk(InvitationsOf(groups))
  BY DEF BattlegroundInv, PlayersInv, Agree
<1>2. ASSUME NEW i \in InvitationsOf(groups)[q][p] PROVE FALSE
  <2>1. slot[p][q] = i.bg /\ i.bg \in Ids \cup {0}
    BY <1>1 DEF Known, InvitedOk, InvitationRec
  <2> QED
    BY <2>1 DEF Ids, NotQueued
<1>3. InvitationsOf(groups)[q][p] = {}
  BY <1>2
<1> QED
  BY <1>3, InvitedIsIn

\* The members that are online join, in a group of theirs.
Joins(gs, new, q, h) ==
    /\ GroupsOk(new)
    /\ \A r \in Queues, u \in Players :
           InvitationsOf(new)[r][u] = IF r = q /\ u \in h.players THEN {[bg |-> h.invited, left |-> h.left]}
                                                                  ELSE InvitationsOf(gs)[r][u]

\* A group at the end of a list of its faction, of players who are in no group of q.
LEMMA AppendJoins ==
    ASSUME NEW gs, GroupsOk(gs), NEW q \in Queues, NEW k \in Lists, NEW h \in GroupRec,
           \A p \in h.players : Team[p] = k[2] /\ GroupOf(gs[q], p) = {}
    PROVE  Joins(gs, [gs EXCEPT ![q][k] = Append(@, h)], q, h)
<1> DEFINE old == gs[q]
           lists == [old EXCEPT ![k] = Append(@, h)]
           new == [gs EXCEPT ![q][k] = Append(@, h)]
<1>1. ListsInv(old) /\ gs \in [Queues -> [Lists -> Seq(GroupRec)]]
  BY DEF GroupsOk
<1>2. new = [gs EXCEPT ![q] = lists]
  OBVIOUS
<1>3. \A p \in h.players : Team[p] = k[2] /\ GroupOf(old, p) = {}
  OBVIOUS
<1> HIDE DEF old, new
<1>4. ListsInv(lists) /\ \A p : GroupOf(lists, p) = IF p \in h.players THEN {h} ELSE GroupOf(old, p)
  BY <1>1, <1>3, AppendView
<1> HIDE DEF lists
<1>5. new = Put(gs, q, lists)
  BY <1>1, <1>2 DEF Put
<1>6. /\ GroupsOk(Put(gs, q, lists))
      /\ \A r \in Queues, p \in Players :
             InvitationsOf(Put(gs, q, lists))[r][p] =
                 IF r = q THEN Invitations(lists, p) ELSE InvitationsOf(gs)[r][p]
  BY <1>4, PutView
<1>7. \A p \in Players : Invitations(lists, p) =
          IF p \in h.players THEN {[bg |-> h.invited, left |-> h.left]} ELSE Invitations(old, p)
  BY <1>4 DEF Invitations
<1>8. \A p \in Players : InvitationsOf(gs)[q][p] = Invitations(old, p)
  BY DEF InvitationsOf, old
<1>9. ASSUME NEW r \in Queues, NEW u \in Players
      PROVE  InvitationsOf(new)[r][u] =
                 IF r = q /\ u \in h.players THEN {[bg |-> h.invited, left |-> h.left]}
                                             ELSE InvitationsOf(gs)[r][u]
  <2>1. InvitationsOf(new)[r][u] = IF r = q THEN Invitations(lists, u) ELSE InvitationsOf(gs)[r][u]
    BY <1>5, <1>6
  <2> QED
    BY <1>7, <1>8, <2>1
<1>10. GroupsOk(new)
  BY <1>5, <1>6
<1>11. Joins(gs, new, q, h)
  BY <1>9, <1>10 DEF Joins
<1> QED
  BY <1>11 DEF new

\* HandleBattlemasterJoinOpcode.
LEMMA JoinStep ==
    ASSUME BattlegroundAssumption, BattlegroundInv, NEW party \in UNION Scenarios, Join(party)
    PROVE  BattlegroundInv'
<1> DEFINE q == party.queue
           S == Present(party)
           single == Cardinality(party.members) = 1
           kind == IF ~single /\ Cardinality(party.members) >= MinPlayers THEN "premade" ELSE "normal"
           h == [players |-> S, invited |-> 0, left |-> 0]
           iv == InvitationsOf(groups)
<1>1. /\ requests' = requests \ {party} /\ scheduled' = Schedule(scheduled, q)
      /\ UNCHANGED <<events, bgs, freeSlots, mapVars, bgId, place, phase, due>>
  BY DEF Join
<1>2. PICK leader \in party.members :
          /\ place[leader] = "world"
          /\ IF CanJoin(party)
             THEN /\ groups' = [groups EXCEPT ![q][<<kind, Team[leader]>>] = Append(@, h)]
                  /\ slot' = [p \in Players |-> IF p \in S THEN [slot[p] EXCEPT ![q] = 0] ELSE slot[p]]
             ELSE UNCHANGED <<groups, slot>>
  BY DEF Join
<1>3. /\ q \in Queues /\ party.members \in SUBSET Players /\ Team \in [Players -> Teams]
      /\ \A p, r \in party.members : Team[p] = Team[r]
      /\ AcceptTime \in Nat
  BY DEF BattlegroundAssumption
<1>4. S \in SUBSET Players /\ S # {} /\ \A p \in S : place[p] # "offline" /\ p \in party.members
  BY <1>2, <1>3 DEF Present
<1>5. GroupsOk(groups) /\ Timed(iv, events) /\ events \in SUBSET EventRec /\ ScheduledOk(scheduled)
      /\ Agree(iv, bgs, slot, place, bgId) /\ SlotOk(slot) /\ InvitedOk(iv)
  BY DEF BattlegroundInv, QueuesInv, PlayersInv, Agree
<1>6. /\ GroupsOk(groups') /\ Timed(InvitationsOf(groups'), events)
      /\ Agree(InvitationsOf(groups'), bgs, slot', place, bgId)
  <2>1. CASE ~CanJoin(party)
    <3>1. groups' = groups /\ slot' = slot
      BY <1>2, <2>1
    <3> QED
      BY <1>5, <3>1
  <2>2. CASE CanJoin(party)
    <3> DEFINE k == <<kind, Team[leader]>>
               gs2 == groups'
               sl2 == slot'
               iv2 == InvitationsOf(gs2)
    <3>1. gs2 = [groups EXCEPT ![q][k] = Append(@, h)]
      BY <1>2, <2>2
    <3>2. sl2 = [p \in Players |-> IF p \in S THEN [slot[p] EXCEPT ![q] = 0] ELSE slot[p]]
      BY <1>2, <2>2
    <3>3. \A p \in S : slot[p][q] = NotQueued /\ place[p] # "offline"
      BY <1>4, <2>2 DEF CanJoin
    <3>4. h \in GroupRec /\ h.players = S /\ h.invited = 0 /\ h.left = 0
      BY <1>3, <1>4 DEF GroupRec
    <3>5. k \in Lists /\ k[2] = Team[leader]
      BY <1>2, <1>3 DEF Lists
    <3>6. \A p \in S : Team[p] = k[2]
      BY <1>2, <1>3, <1>4, <3>5
    <3>7. \A p \in S : GroupOf(groups[q], p) = {}
      BY <1>3, <1>4, <3>3, NotQueuedAlone
    <3> HIDE DEF k, gs2, sl2, h, S, q, iv
    <3>8. Joins(groups, [groups EXCEPT ![q][k] = Append(@, h)], q, h)
      BY <1>3, <1>5, <3>4, <3>5, <3>6, <3>7, AppendJoins
    <3>9. /\ GroupsOk(gs2) /\ InvitedOk(iv2)
          /\ \A r \in Queues, u \in Players :
                 iv2[r][u] = IF r = q /\ u \in S THEN {[bg |-> 0, left |-> 0]} ELSE iv[r][u]
      BY <3>1, <3>4, <3>8, InvitedTyped DEF Joins, iv
    <3> HIDE DEF iv2
    <3>10. SlotOk(sl2) /\ \A u \in Players, r \in Queues :
               sl2[u][r] = IF r = q /\ u \in S THEN 0 ELSE slot[u][r]
      <4>1. \A u \in Players : slot[u] \in [Queues -> Ids \cup {0, NotQueued}]
        BY <1>5 DEF SlotOk
      <4>2. \A u \in Players : sl2[u] = IF u \in S THEN [slot[u] EXCEPT ![q] = 0] ELSE slot[u]
        BY <3>2
      <4>3. \A u \in Players : sl2[u] \in [Queues -> Ids \cup {0, NotQueued}]
        BY <4>1, <4>2, ZenonT(60)
      <4>4. sl2 \in [Players -> [Queues -> Ids \cup {0, NotQueued}]]
        BY <3>2, <4>3
      <4> QED
        BY <4>1, <4>2, <4>4 DEF SlotOk
    <3>11. Queued(iv, slot, iv2, sl2, q, S)
      BY <3>9, <3>10 DEF Queued
    <3>12. Agree(iv2, bgs, sl2, place, bgId)
      <4> DEFINE bs == bgs
                 sl == slot
                 pl == place
                 bi == bgId
      <4>1. /\ BattlegroundAssumption /\ Agree(iv, bs, sl, pl, bi) /\ q \in Queues /\ S \in SUBSET Players
            /\ \A p \in S : pl[p] # "offline" /\ sl[p][q] = NotQueued
            /\ InvitedOk(iv2) /\ SlotOk(sl2) /\ Queued(iv, sl, iv2, sl2, q, S)
        BY <1>3, <1>4, <1>5, <3>3, <3>9, <3>10, <3>11
      <4> HIDE DEF bs, sl, pl, bi
      <4>2. Agree(iv2, bs, sl2, pl, bi)
        BY ONLY <4>1, JoinAgrees
      <4> QED
        BY <4>2 DEF bs, sl, pl, bi
    <3>13. Timed(iv2, events)
      <4> SUFFICES ASSUME NEW r \in Queues, NEW u \in Players, NEW i \in iv2[r][u], i.bg # 0
                   PROVE  [player |-> u, queue |-> r, bg |-> i.bg, left |-> i.left] \in events
        BY DEF Timed
      <4>1. i \in iv[r][u]
        BY <3>9, <3>11 DEF Queued
      <4> QED
        BY <1>5, <4>1 DEF Timed
    <3> QED
      BY <3>9, <3>12, <3>13 DEF iv2, gs2, sl2
  <2> QED
    BY <2>1, <2>2
<1>7. QueuesInv'
  <2>1. ScheduledOk(scheduled')
    BY <1>1, <1>3, <1>5, ScheduleView
  <2> QED
    BY <1>1, <1>5, <1>6, <2>1 DEF QueuesInv
<1>8. PlayersInv'
  BY <1>1, <1>6 DEF PlayersInv
<1>9. SlotsInv'
  BY <1>1 DEF BattlegroundInv, SlotsInv
<1>10. IdsInv' /\ WorldInv'
  <2>1. DOMAIN bgs' = DOMAIN bgs /\ UNCHANGED <<ids, unloading, phase, due>> /\ maps' = maps
        /\ requests' \subseteq requests
    BY <1>1 DEF mapVars
  <2>2. maps' \subseteq DOMAIN bgs
    BY <2>1 DEF BattlegroundInv, IdsInv
  <2> QED
    BY <2>1, <2>2, RestKept
<1> QED
  BY <1>7, <1>8, <1>9, <1>10 DEF BattlegroundInv

-----------------------------------------------------------------------------
(* LogoutPlayer.                                                             *)

\* p has left the queues of T.
OutOfAll(gs, T, p) == [r \in Queues |-> IF r \in T THEN Without(gs[r], p) ELSE gs[r]]

\* One queue more.
LEMMA OutOfOneMore ==
    ASSUME NEW gs, GroupsOk(gs), NEW T \in SUBSET Queues, NEW q \in T, NEW p
    PROVE  /\ OutOf(OutOfAll(gs, T \ {q}, p), q, p) = OutOfAll(gs, T, p)
           /\ OutOfAll(gs, T \ {q}, p)[q] = gs[q]
<1> DEFINE hs == OutOfAll(gs, T \ {q}, p)
<1>1. hs[q] = gs[q] /\ DOMAIN hs = Queues
  BY DEF OutOfAll
<1>2. OutOf(hs, q, p) = [r \in Queues \cup {q} |-> IF r = q THEN Without(gs[q], p) ELSE hs[r]]
  BY <1>1 DEF OutOf, Put
<1>3. Queues \cup {q} = Queues
  OBVIOUS
<1>4. \A r \in Queues : (IF r = q THEN Without(gs[q], p) ELSE hs[r])
                            = IF r \in T THEN Without(gs[r], p) ELSE gs[r]
  BY DEF OutOfAll
<1>5. OutOf(hs, q, p) = [r \in Queues |-> IF r \in T THEN Without(gs[r], p) ELSE gs[r]]
  BY <1>2, <1>3, <1>4
<1> QED
  BY <1>1, <1>5 DEF OutOfAll

\* What has become of the battlegrounds told when p has left the queues of T.
OutOk(T, told, bs, pl, p) ==
    /\ GroupsOk(OutOfAll(groups, T, p)) /\ SameShape(told, bs)
    /\ Agree(InvitationsOf(OutOfAll(groups, T, p)), bs, slot, pl, bgId)
    /\ \A r \in Queues, u \in Players :
           InvitationsOf(OutOfAll(groups, T, p))[r][u] =
               IF r \in T /\ u = p THEN {} ELSE InvitationsOf(groups)[r][u]

\* Those battlegrounds have their types.
LEMMA OutOkHas ==
    ASSUME NEW T, NEW told, NEW bs, NEW pl, NEW p, OutOk(T, told, bs, pl, p)
    PROVE  bs \in BgMaps
<1>1. BgsOk(bs)
  BY DEF OutOk, Agree
<1> QED
  BY <1>1 DEF BgsOk, BgMaps

\* Before he has left any queue ...
LEMMA OutOkNone ==
    ASSUME BattlegroundInv, NEW told, NEW pl, NEW p \in Players,
           Agree(InvitationsOf(groups), told, slot, pl, bgId)
    PROVE  OutOk({}, told, told, pl, p)
<1>1. GroupsOk(groups)
  BY DEF BattlegroundInv, QueuesInv
<1>2. OutOfAll(groups, {}, p) = groups
  BY <1>1 DEF OutOfAll, GroupsOk
<1>3. SameShape(told, told)
  BY DEF SameShape
<1> QED
  BY <1>1, <1>2, <1>3 DEF OutOk

\* ... when he leaves one more ...
LEMMA OutOkMore ==
    ASSUME BattlegroundAssumption, BattlegroundInv, NEW T \in SUBSET Queues, NEW q \in T, NEW told, NEW bs,
           NEW pl, NEW p \in Players, OutOk(T \ {q}, told, bs, pl, p)
    PROVE  OutOk(T, told, Uninvited(bs, groups[q], p), pl, p)
<1> DEFINE hs == OutOfAll(groups, T \ {q}, p)
           gs == OutOfAll(groups, T, p)
           bs2 == Uninvited(bs, groups[q], p)
<1>1. /\ GroupsOk(hs) /\ SameShape(told, bs) /\ Agree(InvitationsOf(hs), bs, slot, pl, bgId)
      /\ \A r \in Queues, u \in Players :
             InvitationsOf(hs)[r][u] = IF r \in T \ {q} /\ u = p THEN {} ELSE InvitationsOf(groups)[r][u]
  BY DEF OutOk
<1>2. GroupsOk(groups) /\ q \in Queues
  BY DEF BattlegroundInv, QueuesInv
<1>3. OutOf(hs, q, p) = gs /\ hs[q] = groups[q]
  BY <1>2, OutOfOneMore
<1> HIDE DEF hs, gs, bs2
<1>4. /\ GroupsOk(OutOf(hs, q, p))
      /\ Agree(InvitationsOf(OutOf(hs, q, p)), Uninvited(bs, hs[q], p), slot, pl, bgId)
      /\ LeftQueue(InvitationsOf(hs), InvitationsOf(OutOf(hs, q, p)), q, p)
  BY <1>1, <1>2, OutOfQueueAgrees
<1>5. /\ GroupsOk(gs) /\ Agree(InvitationsOf(gs), bs2, slot, pl, bgId)
      /\ LeftQueue(InvitationsOf(hs), InvitationsOf(gs), q, p)
  BY <1>3, <1>4 DEF bs2
<1>6. SameShape(told, bs2)
  <2>1. BgsOk(bs) /\ ListsInv(groups[q])
    BY <1>1, <1>2 DEF Agree, GroupsOk
  <2>2. SameShape(bs, bs2)
    BY <2>1, UninvitedView DEF bs2
  <2> QED
    BY <1>1, <2>2 DEF SameShape
<1>7. \A r \in Queues, u \in Players :
          InvitationsOf(gs)[r][u] = IF r \in T /\ u = p THEN {} ELSE InvitationsOf(groups)[r][u]
  BY <1>1, <1>5 DEF LeftQueue
<1> QED
  BY <1>5, <1>6, <1>7 DEF OutOk, gs, bs2

\* ... and when he has left all of them, in whatever order.
LEMMA UninvitedByAllView ==
    ASSUME BattlegroundAssumption, BattlegroundInv, NEW told, NEW pl, NEW p \in Players,
           Agree(InvitationsOf(groups), told, slot, pl, bgId)
    PROVE  OutOk(Queues, told, UninvitedByAll(told, p), pl, p)
<1> DEFINE Good == [T \in SUBSET Queues |-> {bs \in BgMaps : OutOk(T, told, bs, pl, p)}]
<1>1. IsFiniteSet(Queues)
  BY DEF BattlegroundAssumption
<1>2. told \in Good[{}]
  BY OutOkNone, OutOkHas
<1>3. ASSUME NEW T \in SUBSET Queues, NEW q \in T, NEW bs \in Good[T \ {q}]
      PROVE  Uninvited(bs, groups[q], p) \in Good[T]
  <2>1. OutOk(T \ {q}, told, bs, pl, p)
    BY <1>3
  <2>2. OutOk(T, told, Uninvited(bs, groups[q], p), pl, p)
    BY <1>3, <2>1, OutOkMore
  <2> QED
    BY <2>2, OutOkHas
<1> HIDE DEF Good
<1>4. UninvitedByAll(told, p) \in Good[Queues]
  BY <1>1, <1>2, <1>3, QueuesFold
<1> QED
  BY <1>4 DEF Good

\* An element that is new to a sequence without repetitions.
LEMMA AppendNew ==
    ASSUME NEW S, NEW s \in Seq(S), NEW x \in S, IsInjective(s), x \notin Range(s)
    PROVE  /\ Append(s, x) \in Seq(S) /\ IsInjective(Append(s, x))
           /\ Range(Append(s, x)) = Range(s) \cup {x}
<1> DEFINE t == Append(s, x)
<1>1. /\ t \in Seq(S) /\ Len(t) = Len(s) + 1 /\ t[Len(s) + 1] = x
      /\ \A i \in 1..Len(s) : t[i] = s[i]
      /\ Len(s) \in Nat /\ DOMAIN s = 1..Len(s) /\ DOMAIN t = 1..(Len(s) + 1)
  OBVIOUS
<1> HIDE DEF t
<1>2. \A i \in DOMAIN t : i \in DOMAIN s \/ i = Len(s) + 1
  BY <1>1
<1>3. \A i \in DOMAIN s : t[i] = s[i] /\ i \in DOMAIN t /\ s[i] # x
  BY <1>1 DEF Range
<1>4. Len(s) + 1 \in DOMAIN t
  BY <1>1
<1>5. IsInjective(t)
  <2> SUFFICES ASSUME NEW i \in DOMAIN t, NEW j \in DOMAIN t, t[i] = t[j] PROVE i = j
    BY DEF IsInjective
  <2>1. \A k, m \in DOMAIN s : s[k] = s[m] => k = m
    BY DEF IsInjective
  <2> QED
    BY <1>1, <1>2, <1>3, <2>1
<1>6. Range(t) = Range(s) \cup {x}
  <2>1. \A y \in Range(t) : y \in Range(s) \cup {x}
    BY <1>1, <1>2, <1>3 DEF Range
  <2>2. \A y \in Range(s) : y \in Range(t)
    BY <1>3 DEF Range
  <2>3. x \in Range(t)
    BY <1>1, <1>4 DEF Range
  <2> QED
    BY <2>1, <2>2, <2>3
<1> QED
  BY <1>1, <1>5, <1>6 DEF t

\* The lists of free slots and of offline players are as good as before.
LEMMA ArrivedKeeps ==
    ASSUME NEW bs, BgsOk(bs), NEW fs, FreeOk(fs, bs), NEW pl \in [Players -> PlaceNames],
           OfflineOk(bs, pl), NEW p \in Players, pl[p] # "offline", NEW b, NEW bs2, Arrived(bs, bs2, b, p)
    PROVE  FreeOk(fs, bs2) /\ OfflineOk(bs2, [pl EXCEPT ![p] = "bg"])
<1> DEFINE pl2 == [pl EXCEPT ![p] = "bg"]
<1>1. FreeOk(fs, bs2)
  BY DEF FreeOk, Arrived
<1>2. \A u \in Players : pl[u] = "offline" => pl2[u] = "offline"
  OBVIOUS
<1> HIDE DEF pl2
<1>3. OfflineOk(bs2, pl2)
  <2> SUFFICES ASSUME NEW c \in DOMAIN bs, bs2[c].status # "leave"
               PROVE  /\ IsInjective(bs2[c].offline)
                      /\ \A u \in Range(bs2[c].offline) : u \in bs2[c].players /\ pl2[u] = "offline"
    BY DEF OfflineOk, Arrived
  <2>1. /\ bs2[c].offline = bs[c].offline /\ bs[c].status # "leave"
        /\ bs[c].players \subseteq bs2[c].players
    BY DEF Arrived
  <2>2. /\ IsInjective(bs[c].offline)
        /\ \A u \in Range(bs[c].offline) : u \in bs[c].players /\ pl[u] = "offline"
    BY <2>1 DEF OfflineOk
  <2>3. bs[c].players \in SUBSET Players
    BY BgFields
  <2> QED
    BY <1>2, <2>1, <2>2, <2>3
<1> QED
  BY <1>1, <1>3 DEF pl2

Tells(bs, told, b, p) == told = [bs EXCEPT ![b].offline = Append(@, p)]

GoesOffline(pl, pl2, p) == pl2 = [pl EXCEPT ![p] = "offline"]

\* The battleground is told that p has gone offline.
LEMMA ToldView ==
    ASSUME NEW iv, NEW bs, NEW sl, NEW pl, NEW bi, Agree(iv, bs, sl, pl, bi), NEW fs, FreeOk(fs, bs),
           OfflineOk(bs, pl), NEW p \in Players, pl[p] = "bg", NEW pl2, GoesOffline(pl, pl2, p),
           NEW told, Tells(bs, told, bi[p], p)
    PROVE  /\ Agree(iv, told, sl, pl, bi) /\ FreeOk(fs, told) /\ OfflineOk(told, pl2)
           /\ DOMAIN told = DOMAIN bs
<1> DEFINE b == bi[p]
           s == bs[b].offline
           more == Append(s, p)
<1>1. BgsOk(bs) /\ b \in DOMAIN bs /\ p \in bs[b].players /\ pl \in [Players -> PlaceNames]
  BY DEF Agree, PlacesOk
<1>2. s \in Seq(Players)
  BY <1>1, BgFields
<1>3. told = [bs EXCEPT ![b].offline = more]
  BY DEF Tells
<1> HIDE DEF b, s
<1>4. more \in Seq(Players)
  BY <1>2
<1> HIDE DEF more
<1>5. WithOffline(bs, b, more) = [bs EXCEPT ![b].offline = more]
  BY <1>1, <1>4, WithOfflineView
<1>6. /\ BgsOk(told) /\ SameCounts(bs, told)
      /\ \A c \in DOMAIN bs : /\ told[c].status = bs[c].status
                              /\ told[c].offline = IF c = b THEN more ELSE bs[c].offline
  <2>1. told = WithOffline(bs, b, more)
    BY ONLY <1>3, <1>5
  <2>2. BgsOk(WithOffline(bs, b, more)) /\ SameCounts(bs, WithOffline(bs, b, more))
    BY <1>1, <1>4, WithOfflineView
  <2>3. \A c \in DOMAIN bs :
            /\ WithOffline(bs, b, more)[c].status = bs[c].status
            /\ WithOffline(bs, b, more)[c].offline = IF c = b THEN more ELSE bs[c].offline
    BY <1>1, <1>4, WithOfflineView
  <2> QED
    BY ONLY <2>1, <2>2, <2>3
<1>7. Agree(iv, told, sl, pl, bi)
  BY <1>6, SameAgrees
<1>8. FreeOk(fs, told) /\ DOMAIN told = DOMAIN bs
  BY <1>6 DEF FreeOk, SameCounts
<1>9. OfflineOk(told, pl2)
  <2> SUFFICES ASSUME NEW c \in DOMAIN bs, told[c].status # "leave"
               PROVE  /\ IsInjective(told[c].offline)
                      /\ \A u \in Range(told[c].offline) : u \in told[c].players /\ pl2[u] = "offline"
    BY <1>8 DEF OfflineOk
  <2>1. /\ bs[c].status # "leave" /\ told[c].players = bs[c].players
        /\ told[c].offline = IF c = b THEN more ELSE bs[c].offline
    BY <1>6 DEF SameCounts
  <2>2. /\ IsInjective(bs[c].offline)
        /\ \A u \in Range(bs[c].offline) : u \in bs[c].players /\ pl[u] = "offline"
    BY <2>1 DEF OfflineOk
  <2>3. bs[c].players \in SUBSET Players
    BY <1>1, BgFields
  <2>4. pl2[p] = "offline" /\ \A u \in Players : pl[u] = "offline" => pl2[u] = "offline"
    BY <1>1 DEF GoesOffline
  <2>5. CASE c # b
    BY <2>1, <2>2, <2>3, <2>4, <2>5
  <2>6. CASE c = b
    <3>1. IsInjective(s) /\ p \notin Range(s)
      BY <2>2, <2>6 DEF s
    <3>2. IsInjective(more) /\ Range(more) = Range(s) \cup {p}
      BY <1>2, <3>1, AppendNew DEF more
    <3>3. \A u \in Range(more) : u \in bs[c].players /\ pl2[u] = "offline"
      BY <1>1, <2>2, <2>3, <2>4, <2>6, <3>2 DEF s
    <3> QED
      BY <2>1, <2>6, <3>2, <3>3
  <2> QED
    BY <2>5, <2>6
<1> QED
  BY <1>7, <1>8, <1>9

\* The teleport finished and the battleground told: bs is what the queues are left with.
LogsOut(p, pl, told) ==
    /\ Agree(InvitationsOf(groups), told, slot, pl, bgId) /\ FreeOk(freeSlots, told)
    /\ OfflineOk(told, [place EXCEPT ![p] = "offline"]) /\ DOMAIN told = DOMAIN bgs
    /\ pl[p] \in {"world", "bg"} /\ [pl EXCEPT ![p] = "offline"] = [place EXCEPT ![p] = "offline"]

\* What Logout does to each variable.
LEMMA LogoutFields ==
    ASSUME NEW p, Logout(p)
    PROVE  LET arrives == place[p] = "transit" /\ bgId[p] \in DOMAIN bgs
               there == IF arrives THEN Added(bgs, p) ELSE bgs
               told == IF bgId[p] \in DOMAIN there /\ p \in there[bgId[p]].players
                       THEN [there EXCEPT ![bgId[p]].offline = Append(@, p)] ELSE there
           IN /\ place[p] # "offline"
              /\ bgs' = UninvitedByAll(told, p)
              /\ groups' = [q \in Queues |-> Without(groups[q], p)]
              /\ slot' = [slot EXCEPT ![p] = [q \in Queues |-> NotQueued]]
              /\ maps' = IF arrives THEN maps \cup {bgId[p]} ELSE maps
              /\ place' = [place EXCEPT ![p] = "offline"]
              /\ UNCHANGED <<events, scheduled, freeSlots, ids, unloading, bgId, worldVars>>
BY DEF Logout

\* The three ways to log out: from the world, from a battleground, and on the way to one.
LEMMA LogoutTold ==
    ASSUME BattlegroundAssumption, BattlegroundInv, NEW p \in Players, Logout(p)
    PROVE  /\ \E told, pl : LogsOut(p, pl, told) /\ bgs' = UninvitedByAll(told, p)
           /\ maps' \subseteq DOMAIN bgs
<1> DEFINE iv == InvitationsOf(groups)
           b == bgId[p]
           arrives == place[p] = "transit" /\ b \in DOMAIN bgs
           there == IF arrives THEN Added(bgs, p) ELSE bgs
           told == IF b \in DOMAIN there /\ p \in there[b].players
                   THEN [there EXCEPT ![b].offline = Append(@, p)] ELSE there
           there2 == IF place[p] = "transit" THEN [place EXCEPT ![p] = "bg"] ELSE place
<1>1. /\ place[p] # "offline" /\ bgs' = UninvitedByAll(told, p)
      /\ maps' = IF arrives THEN maps \cup {b} ELSE maps
  BY LogoutFields
<1>2. Agree(iv, bgs, slot, place, bgId) /\ FreeOk(freeSlots, bgs) /\ OfflineOk(bgs, place)
  BY DEF BattlegroundInv, PlayersInv, SlotsInv
<1>3. BgsOk(bgs) /\ PlacesOk(iv, bgs, slot, place, bgId) /\ place \in [Players -> PlaceNames]
  BY <1>2 DEF Agree, PlacesOk
<1>4. maps' \subseteq DOMAIN bgs
  BY <1>1 DEF BattlegroundInv, IdsInv
<1> HIDE DEF iv
<1>5. CASE place[p] = "world"
  <2>1. b = 0 /\ b \notin DOMAIN bgs
    BY <1>3, <1>5 DEF PlacesOk, BgsOk, Ids
  <2>2. told = bgs
    BY <1>5, <2>1
  <2> DEFINE pl2 == [place EXCEPT ![p] = "offline"]
  <2>3. \A u \in Players : place[u] = "offline" => pl2[u] = "offline"
    BY <1>3
  <2> HIDE DEF pl2
  <2>4. OfflineOk(bgs, pl2)
    <3>1. \A c \in DOMAIN bgs : bgs[c].players \in SUBSET Players
      BY <1>3, BgFields
    <3> QED
      BY <1>2, <2>3, <3>1 DEF OfflineOk
  <2>5. LogsOut(p, place, bgs)
    BY <1>2, <1>5, <2>4 DEF LogsOut, iv, pl2
  <2> HIDE DEF told
  <2> QED
    BY <1>1, <1>4, <2>2, <2>5
<1>6. CASE place[p] = "bg"
  <2>1. b \in DOMAIN bgs /\ p \in bgs[b].players
    BY <1>3, <1>6 DEF PlacesOk
  <2>2. told = [bgs EXCEPT ![b].offline = Append(@, p)]
    BY <1>6, <2>1
  <2> DEFINE pl2 == [place EXCEPT ![p] = "offline"]
  <2> HIDE DEF told
  <2>3. /\ Agree(iv, told, slot, place, bgId) /\ FreeOk(freeSlots, told)
        /\ OfflineOk(told, pl2) /\ DOMAIN told = DOMAIN bgs
    <3> DEFINE bs == bgs
               sl == slot
               pl == place
               bi == bgId
               fs == freeSlots
    <3>1. /\ Agree(iv, bs, sl, pl, bi) /\ FreeOk(fs, bs) /\ OfflineOk(bs, pl) /\ p \in Players
          /\ pl[p] = "bg" /\ GoesOffline(pl, pl2, p) /\ Tells(bs, told, bi[p], p)
      BY <1>2, <1>6, <2>2 DEF GoesOffline, Tells
    <3> HIDE DEF bs, sl, pl, bi, fs, pl2
    <3>2. /\ Agree(iv, told, sl, pl, bi) /\ FreeOk(fs, told)
      BY ONLY <3>1, ToldView
    <3>3. OfflineOk(told, pl2) /\ DOMAIN told = DOMAIN bs
      BY ONLY <3>1, ToldView
    <3> QED
      BY <3>2, <3>3 DEF bs, sl, pl, bi, fs
  <2>4. LogsOut(p, place, told)
    BY <1>6, <2>3 DEF LogsOut, iv
  <2> QED
    BY <1>1, <1>4, <2>4
<1>7. CASE place[p] = "transit"
  <2>1. Arrived(bgs, Added(bgs, p), b, p) /\ b \in DOMAIN bgs
    BY <1>7, AddedView
  <2> DEFINE bs == Added(bgs, p)
             pl == [place EXCEPT ![p] = "bg"]
  <2>2. there = bs
    BY <1>7, <2>1
  <2> HIDE DEF bs
  <2>3. DOMAIN bs = DOMAIN bgs /\ p \in bs[b].players
    BY <2>1 DEF Arrived, bs
  <2>4. told = [bs EXCEPT ![b].offline = Append(@, p)]
    BY <2>1, <2>2, <2>3
  <2> DEFINE sl == slot
             pl0 == place
             bi == bgId
             fs == freeSlots
             old == bgs
             pl2 == [pl EXCEPT ![p] = "offline"]
  <2> HIDE DEF told
  <2>5. /\ BattlegroundAssumption /\ Agree(iv, old, sl, pl0, bi) /\ p \in Players /\ pl0[p] = "transit"
        /\ BgsOk(bs) /\ DOMAIN bs = DOMAIN old
        /\ \A c \in DOMAIN old :
               /\ bs[c].queue = old[c].queue /\ bs[c].invited = old[c].invited
               /\ bs[c].players = IF c = bi[p] THEN old[c].players \cup {p} ELSE old[c].players
    BY <1>2, <1>7, <2>1 DEF Arrived, bs
  <2>6. /\ BgsOk(old) /\ FreeOk(fs, old) /\ pl0 \in [Players -> PlaceNames]
        /\ OfflineOk(old, pl0) /\ p \in Players /\ pl0[p] # "offline" /\ Arrived(old, bs, b, p)
    BY <1>2, <1>3, <1>7, <2>1 DEF bs
  <2>7. /\ pl[p] = "bg" /\ pl2 = [pl EXCEPT ![p] = "offline"]
        /\ told = [bs EXCEPT ![bi[p]].offline = Append(@, p)]
        /\ pl2 = [place EXCEPT ![p] = "offline"]
    BY <1>3, <2>4
  <2> HIDE DEF sl, pl0, bi, fs, old, b
  <2>8. Agree(iv, bs, sl, [pl0 EXCEPT ![p] = "bg"], bi)
    BY ONLY <2>5, ArriveAgrees, SMTT(60)
  <2>9. FreeOk(fs, bs) /\ OfflineOk(bs, [pl0 EXCEPT ![p] = "bg"])
    BY ONLY <2>6, ArrivedKeeps
  <2>10. Agree(iv, bs, sl, pl, bi) /\ OfflineOk(bs, pl)
    BY <2>8, <2>9 DEF pl0
  <2> HIDE DEF pl, pl2
  <2>11. /\ Agree(iv, bs, sl, pl, bi) /\ FreeOk(fs, bs) /\ OfflineOk(bs, pl) /\ p \in Players
         /\ pl[p] = "bg" /\ GoesOffline(pl, pl2, p) /\ Tells(bs, told, bi[p], p)
    BY <2>7, <2>9, <2>10 DEF GoesOffline, Tells
  <2>12. Agree(iv, told, sl, pl, bi) /\ FreeOk(fs, told)
    BY ONLY <2>11, ToldView
  <2>13. OfflineOk(told, pl2) /\ DOMAIN told = DOMAIN bs
    BY ONLY <2>11, ToldView
  <2>14. LogsOut(p, pl, told)
    <3>1. Agree(InvitationsOf(groups), told, slot, pl, bgId) /\ FreeOk(freeSlots, told)
      BY <2>12 DEF iv, sl, bi, fs
    <3>2. DOMAIN told = DOMAIN bgs
      BY <2>3, <2>13
    <3>3. [pl EXCEPT ![p] = "offline"] = [place EXCEPT ![p] = "offline"]
          /\ OfflineOk(told, [place EXCEPT ![p] = "offline"])
      BY <2>7, <2>13
    <3> QED
      BY <2>7, <3>1, <3>2, <3>3 DEF LogsOut
  <2> QED
    BY <1>1, <1>4, <2>14
<1> QED
  BY <1>1, <1>3, <1>5, <1>6, <1>7 DEF PlaceNames

\* LogoutPlayer.
LEMMA LogoutStep ==
    ASSUME BattlegroundAssumption, BattlegroundInv, NEW p \in Players, Logout(p)
    PROVE  BattlegroundInv'
<1>1. /\ groups' = [q \in Queues |-> Without(groups[q], p)]
      /\ slot' = [slot EXCEPT ![p] = [q \in Queues |-> NotQueued]]
      /\ place' = [place EXCEPT ![p] = "offline"]
      /\ UNCHANGED <<events, scheduled, freeSlots, ids, unloading, bgId, worldVars>>
  BY LogoutFields
<1>2. maps' \subseteq DOMAIN bgs
  BY LogoutTold
<1>3. PICK told, pl : LogsOut(p, pl, told) /\ bgs' = UninvitedByAll(told, p)
  BY LogoutTold
<1>4. /\ Agree(InvitationsOf(groups), told, slot, pl, bgId) /\ FreeOk(freeSlots, told)
      /\ OfflineOk(told, place') /\ DOMAIN told = DOMAIN bgs /\ pl[p] \in {"world", "bg"}
      /\ place' = [pl EXCEPT ![p] = "offline"]
  BY <1>1, <1>3 DEF LogsOut
<1>5. OutOk(Queues, told, bgs', pl, p)
  BY <1>3, <1>4, UninvitedByAllView
<1>6. groups' = OutOfAll(groups, Queues, p)
  BY <1>1 DEF OutOfAll
<1> DEFINE iv2 == InvitationsOf(groups')
           bs == bgs'
           sl == slot
           bi == bgId
           sl2 == slot'
           pl2 == place'
<1>7. /\ GroupsOk(groups') /\ SameShape(told, bs) /\ Agree(iv2, bs, sl, pl, bi)
      /\ \A r \in Queues, u \in Players : iv2[r][u] = IF u = p THEN {} ELSE InvitationsOf(groups)[r][u]
  BY <1>5, <1>6 DEF OutOk
<1> HIDE DEF iv2, bs, sl, bi
<1>8. \A q \in Queues : iv2[q][p] = {}
  BY <1>7
<1>9. Agree(iv2, bs, sl, [pl EXCEPT ![p] = "offline"], bi)
  BY <1>4, <1>7, <1>8, OfflineAgrees
<1>10. Agree(iv2, bs, sl, pl2, bi)
  BY <1>4, <1>9
<1>11. SlotOk(sl) /\ pl \in [Players -> PlaceNames]
  BY <1>7 DEF Agree, PlacesOk
<1>12. pl2[p] = "offline"
  BY <1>4, <1>11
<1>13. /\ sl2 = [sl EXCEPT ![p] = [q \in Queues |-> NotQueued]]
  BY <1>1 DEF sl
<1> HIDE DEF sl2, pl2
<1>14. SlotOk(sl2) /\ \A u \in Players : u # p => sl2[u] = sl[u]
  <2>1. [q \in Queues |-> NotQueued] \in [Queues -> Ids \cup {0, NotQueued}]
    OBVIOUS
  <2> QED
    BY <1>11, <1>13, <2>1 DEF SlotOk
<1>15. Agree(iv2, bs, sl2, pl2, bi)
  <2>1. \A u \in Players, q \in Queues : sl2[u][q] # sl[u][q] =>
            /\ iv2[q][u] = {}
            /\ ~ (pl2[u] \in {"transit", "bg"} /\ bs[bi[u]].queue = q)
    BY <1>8, <1>12, <1>14
  <2> QED
    BY <1>10, <1>14, <2>1, SlotAgrees
<1>16. PlayersInv'
  BY <1>1, <1>15 DEF PlayersInv, iv2, bs, sl2, pl2, bi
<1>17. QueuesInv'
  <2>1. Timed(InvitationsOf(groups), events) /\ events \in SUBSET EventRec /\ ScheduledOk(scheduled)
    BY DEF BattlegroundInv, QueuesInv
  <2>2. \A r \in Queues, u \in Players : iv2[r][u] \subseteq InvitationsOf(groups)[r][u]
    BY <1>7
  <2>3. Timed(iv2, events)
    BY <2>1, <2>2, TimedLess
  <2> QED
    BY <1>1, <1>7, <2>1, <2>3 DEF QueuesInv, iv2
<1>18. FreeOk(freeSlots, bgs') /\ OfflineOk(bgs', place')
  BY <1>4, <1>7, ShapeKept DEF bs
<1>19. SlotsInv'
  BY <1>1, <1>18 DEF SlotsInv
<1>20. IdsInv' /\ WorldInv'
  <2>1. DOMAIN bgs' = DOMAIN bgs
    BY <1>4, <1>7 DEF SameShape, bs
  <2>2. UNCHANGED <<ids, unloading, phase, due>> /\ requests' \subseteq requests
    BY <1>1 DEF worldVars
  <2> QED
    BY <1>2, <2>1, <2>2, RestKept
<1> QED
  BY <1>16, <1>17, <1>19, <1>20 DEF BattlegroundInv

\* One who is back in his battleground.
BackIn(p) ==
    LET b == bgId[p]
    IN /\ place[p] = "offline" /\ b \in DOMAIN bgs /\ p \in bgs[b].players /\ bgs[b].status # "leave"
       /\ bgs' = [bgs EXCEPT ![b].offline = Keeping(@, Players \ {p})]
       /\ slot' = [slot EXCEPT ![p][bgs[b].queue] = b]
       /\ place' = [place EXCEPT ![p] = "bg"]
       /\ UNCHANGED <<freeSlots, scheduled, bgId, groups, events, mapVars, worldVars>>

\* One whose battleground ended.
BackToWorld(p) ==
    LET b == bgId[p]
    IN /\ place[p] = "offline" /\ b \in DOMAIN bgs /\ p \in bgs[b].players /\ bgs[b].status = "leave"
       /\ Becomes([RemovePlayerAtLeave(Now, p, b) EXCEPT !.bgId = Put(@, p, 0)])
       /\ place' = [place EXCEPT ![p] = "world"]
       /\ UNCHANGED <<groups, events, mapVars, worldVars>>

\* One whom no battleground knows.
BackUnknown(p) ==
    /\ place[p] = "offline" /\ ~(bgId[p] \in DOMAIN bgs /\ p \in bgs[bgId[p]].players)
    /\ bgId' = [bgId EXCEPT ![p] = 0] /\ place' = [place EXCEPT ![p] = "world"]
    /\ UNCHANGED <<bgs, freeSlots, scheduled, slot, groups, events, mapVars, worldVars>>

\* Those are all.
LEMMA LoginCases ==
    ASSUME NEW p, Login(p)
    PROVE  BackIn(p) \/ BackToWorld(p) \/ BackUnknown(p)
BY DEF Login, BackIn, BackToWorld, BackUnknown

\* Nobody else goes online: those offline before stay so, in the battlegrounds' lists too.
LEMMA BackInStep ==
    ASSUME BattlegroundAssumption, BattlegroundInv, NEW p \in Players, BackIn(p)
    PROVE  BattlegroundInv'
<1> DEFINE iv == InvitationsOf(groups)
           b == bgId[p]
           s == bgs[b].offline
           rest == Keeping(s, Players \ {p})
           sl == slot
           sl2 == slot'
           pl == place
           bs == bgs
           bs2 == bgs'
           bi == bgId
           q == bgs[b].queue
<1>1. /\ pl[p] = "offline" /\ b \in DOMAIN bgs /\ p \in bgs[b].players /\ bgs[b].status # "leave"
      /\ bgs' = [bgs EXCEPT ![b].offline = rest] /\ slot' = [slot EXCEPT ![p][q] = b]
      /\ place' = [pl EXCEPT ![p] = "bg"]
      /\ UNCHANGED <<freeSlots, scheduled, bgId, groups, events, mapVars, worldVars>>
  BY DEF BackIn
<1>2. Agree(iv, bs, sl, pl, bi) /\ FreeOk(freeSlots, bgs) /\ OfflineOk(bgs, place)
  BY DEF BattlegroundInv, PlayersInv, SlotsInv
<1>3. BgsOk(bgs) /\ SlotOk(sl) /\ pl \in [Players -> PlaceNames] /\ q \in Queues /\ b \in Ids
      /\ s \in Seq(Players)
  BY <1>1, <1>2, BgFields DEF Agree, PlacesOk
<1>4. IsInjective(s) /\ \A u \in Range(s) : u \in bgs[b].players /\ place[u] = "offline"
  BY <1>1, <1>2 DEF OfflineOk
<1> HIDE DEF s
<1>5. rest \in Seq(Players) /\ IsInjective(rest) /\ Range(rest) = Range(s) \cap (Players \ {p})
  BY <1>3, <1>4, KeepingSet
<1> HIDE DEF rest, iv
<1>6. SlotOk(sl2) /\ sl2[p][q] = b /\ \A u \in Players : u # p => sl2[u] = sl[u]
  <2>1. SlotWith(sl, p, q, b) = [sl EXCEPT ![p][q] = b]
    <3>1. SlotOk(sl) /\ p \in Players /\ q \in Queues /\ b \in Ids \cup {0, NotQueued}
      BY <1>3
    <3> HIDE DEF sl, q, b
    <3> QED
      BY ONLY <3>1, SlotWithView
  <2>2. sl2 = SlotWith(sl, p, q, b)
    BY <1>1, <2>1
  <2> HIDE DEF sl, sl2, q, b
  <2>3. /\ SlotOk(SlotWith(sl, p, q, b))
        /\ \A u \in Players : u # p => SlotWith(sl, p, q, b)[u] = sl[u]
        /\ SlotWith(sl, p, q, b)[p][q] = b
    BY <1>3, SlotWithView
  <2> QED
    BY <2>2, <2>3
<1>7. Agree(iv, bs, sl2, [pl EXCEPT ![p] = "bg"], bi)
  <2>1. /\ BattlegroundAssumption /\ Agree(iv, bs, sl, pl, bi) /\ p \in Players /\ pl[p] = "offline"
        /\ bi[p] \in DOMAIN bs /\ p \in bs[bi[p]].players /\ SlotOk(sl2)
        /\ sl2[p][bs[bi[p]].queue] = bi[p] /\ \A u \in Players : u # p => sl2[u] = sl[u]
    BY <1>1, <1>2, <1>6
  <2> HIDE DEF bs, sl, sl2, pl, bi
  <2> QED
    BY ONLY <2>1, LoginAgrees
<1>8. /\ BgsOk(bs2) /\ SameCounts(bs, bs2)
      /\ \A c \in DOMAIN bs : /\ bs2[c].status = bs[c].status
                              /\ bs2[c].offline = IF c = b THEN rest ELSE bs[c].offline
  <2>1. WithOffline(bs, b, rest) = [bs EXCEPT ![b].offline = rest]
    <3>1. BgsOk(bs) /\ b \in DOMAIN bs /\ rest \in Seq(Players)
      BY <1>1, <1>3, <1>5
    <3> HIDE DEF bs, b
    <3> QED
      BY ONLY <3>1, WithOfflineView
  <2>2. bs2 = WithOffline(bs, b, rest)
    BY <1>1, <2>1
  <2> HIDE DEF bs, bs2, b
  <2>3. /\ BgsOk(WithOffline(bs, b, rest)) /\ SameCounts(bs, WithOffline(bs, b, rest))
        /\ \A c \in DOMAIN bs :
               /\ WithOffline(bs, b, rest)[c].status = bs[c].status
               /\ WithOffline(bs, b, rest)[c].offline = IF c = b THEN rest ELSE bs[c].offline
    <3>1. BgsOk(bs) /\ b \in DOMAIN bs
      BY <1>1, <1>3 DEF bs, b
    <3> QED
      BY <1>5, <3>1, WithOfflineView
  <2> QED
    BY <2>2, <2>3
<1>9. PlayersInv'
  <2>1. Agree(iv, bs2, sl2, [pl EXCEPT ![p] = "bg"], bi)
    BY <1>7, <1>8, SameAgrees
  <2> QED
    BY <1>1, <2>1 DEF PlayersInv, iv
<1>10. DOMAIN bgs' = DOMAIN bgs
  BY <1>8 DEF SameCounts
<1>11. OfflineOk(bgs', place')
  <2> SUFFICES ASSUME NEW c \in DOMAIN bgs, bgs'[c].status # "leave"
               PROVE  /\ IsInjective(bgs'[c].offline)
                      /\ \A u \in Range(bgs'[c].offline) : u \in bgs'[c].players /\ place'[u] = "offline"
    BY <1>10 DEF OfflineOk
  <2>1. /\ bgs[c].status # "leave" /\ bgs'[c].players = bgs[c].players
        /\ bgs'[c].offline = IF c = b THEN rest ELSE bgs[c].offline
    BY <1>8 DEF SameCounts
  <2>2. /\ IsInjective(bgs[c].offline)
        /\ \A u \in Range(bgs[c].offline) : u \in bgs[c].players /\ place[u] = "offline"
    BY <1>2, <2>1 DEF OfflineOk
  <2>3. bgs[c].players \in SUBSET Players /\ (c # b => p \notin bgs[c].players)
    BY <1>2, BgFields DEF Agree, PlacesOk
  <2>4. \A u \in Players : u # p => place'[u] = place[u]
    BY <1>1, <1>3
  <2>5. CASE c = b
    BY <1>4, <1>5, <2>1, <2>4, <2>5
  <2>6. CASE c # b
    <3>1. p \notin Range(bgs[c].offline)
      BY <2>2, <2>3, <2>6
    <3> QED
      BY <2>1, <2>2, <2>3, <2>4, <2>6, <3>1
  <2> QED
    BY <2>5, <2>6
<1>12. SlotsInv'
  <2>1. FreeOk(freeSlots, bgs')
    BY <1>2, <1>8, <1>10 DEF FreeOk, SameCounts
  <2> QED
    BY <1>1, <1>11, <2>1 DEF SlotsInv
<1>13. QueuesInv'
  BY <1>1, QueuesKept DEF BattlegroundInv, QueuesInv
<1>14. IdsInv' /\ WorldInv'
  BY <1>1, <1>10, MapsKept
<1> QED
  BY <1>9, <1>12, <1>13, <1>14 DEF BattlegroundInv

\* Back to the world from offline, once no battleground has him.
LEMMA BackOffline ==
    ASSUME NEW bs, NEW pl, OfflineOk(bs, pl), NEW p \in Players, BgsOk(bs),
           \A c \in DOMAIN bs : p \notin bs[c].players, pl \in [Players -> PlaceNames]
    PROVE  OfflineOk(bs, [pl EXCEPT ![p] = "world"])
<1> DEFINE pl2 == [pl EXCEPT ![p] = "world"]
<1>1. \A u \in Players : u # p => pl2[u] = pl[u]
  OBVIOUS
<1> HIDE DEF pl2
<1>2. OfflineOk(bs, pl2)
  <2> SUFFICES ASSUME NEW c \in DOMAIN bs, bs[c].status # "leave"
               PROVE  /\ IsInjective(bs[c].offline)
                      /\ \A u \in Range(bs[c].offline) : u \in bs[c].players /\ pl2[u] = "offline"
    BY DEF OfflineOk
  <2>1. /\ IsInjective(bs[c].offline)
        /\ \A u \in Range(bs[c].offline) : u \in bs[c].players /\ pl[u] = "offline"
    BY DEF OfflineOk
  <2>2. bs[c].players \in SUBSET Players /\ p \notin bs[c].players
    BY BgFields
  <2> QED
    BY <1>1, <2>1, <2>2
<1> QED
  BY <1>2 DEF pl2

\* LoadFromDB, when no battleground knows him.
LEMMA BackUnknownStep ==
    ASSUME BattlegroundInv, NEW p \in Players, BackUnknown(p)
    PROVE  BattlegroundInv'
<1> DEFINE iv == InvitationsOf(groups)
<1>1. /\ place[p] = "offline" /\ ~(bgId[p] \in DOMAIN bgs /\ p \in bgs[bgId[p]].players)
      /\ bgId' = [bgId EXCEPT ![p] = 0] /\ place' = [place EXCEPT ![p] = "world"]
      /\ UNCHANGED <<bgs, freeSlots, scheduled, slot, groups, events, mapVars, worldVars>>
  BY DEF BackUnknown
<1>2. Agree(iv, bgs, slot, place, bgId) /\ FreeOk(freeSlots, bgs) /\ OfflineOk(bgs, place)
  BY DEF BattlegroundInv, PlayersInv, SlotsInv
<1>3. BgsOk(bgs) /\ place \in [Players -> PlaceNames]
  BY <1>2 DEF Agree, PlacesOk
<1>4. \A c \in DOMAIN bgs : p \notin bgs[c].players
  BY <1>1, <1>2 DEF Agree, PlacesOk
<1> HIDE DEF iv
<1>5. Agree(iv, bgs, slot, place', bgId')
  <2>1. Agree(iv, bgs, slot, [place EXCEPT ![p] = "world"], [bgId EXCEPT ![p] = 0])
    BY <1>1, <1>2, <1>4, ReturnAgrees
  <2> QED
    BY <1>1, <2>1
<1>6. PlayersInv'
  BY <1>1, <1>5 DEF PlayersInv, iv
<1>7. OfflineOk(bgs, place')
  BY <1>1, <1>2, <1>3, <1>4, BackOffline
<1>8. SlotsInv'
  BY <1>1, <1>2, <1>7 DEF SlotsInv
<1>9. QueuesInv'
  BY <1>1, QueuesKept DEF BattlegroundInv, QueuesInv
<1>10. IdsInv' /\ WorldInv'
  BY <1>1, MapsKept
<1> QED
  BY <1>6, <1>8, <1>9, <1>10 DEF BattlegroundInv

\* He leaves the battleground that ended, as one who is not found in the world.
LEMMA BackToWorldStep ==
    ASSUME BattlegroundAssumption, BattlegroundInv, NEW p \in Players, BackToWorld(p)
    PROVE  BattlegroundInv'
<1> DEFINE iv == InvitationsOf(groups)
           b == bgId[p]
           now == Now
           w == RemovePlayerAtLeave(now, p, b)
           pl == place
<1>1. /\ pl[p] = "offline" /\ b \in DOMAIN bgs /\ p \in bgs[b].players /\ bgs[b].status = "leave"
      /\ Becomes([w EXCEPT !.bgId = Put(@, p, 0)]) /\ place' = [pl EXCEPT ![p] = "world"]
      /\ UNCHANGED <<groups, events, mapVars, worldVars>>
  BY DEF BackToWorld
<1>2. LeaveOk(iv, now, pl) /\ now.bgs = bgs /\ now.bgId = bgId
      /\ Agree(iv, bgs, slot, pl, bgId) /\ OfflineOk(bgs, pl)
  BY NowOk DEF BattlegroundInv, PlayersInv, SlotsInv
<1>3. /\ pl \in [Players -> PlaceNames] /\ BgsOk(bgs)
      /\ \A c \in DOMAIN bgs : c # b => p \notin bgs[c].players
  BY <1>2 DEF Agree, PlacesOk
<1>4. LeaveOk(iv, w, pl) /\ LeftBgs(bgs, w.bgs, b, p)
  <2>1. /\ BattlegroundAssumption /\ LeaveOk(iv, now, pl) /\ p \in Players /\ b \in DOMAIN now.bgs
        /\ place[p] = pl[p] /\ (pl[p] = "bg" => now.bgId[p] = b)
    BY <1>1, <1>2
  <2>2. LeftPlaces(pl, p) = pl
    BY <1>1 DEF LeftPlaces
  <2> HIDE DEF now, pl, iv, b
  <2>3. LeaveOk(iv, RemovePlayerAtLeave(now, p, b), LeftPlaces(pl, p))
    BY ONLY <2>1, AtLeaveView
  <2>4. LeftBgs(now.bgs, RemovePlayerAtLeave(now, p, b).bgs, b, p)
    BY ONLY <2>1, AtLeaveView
  <2> QED
    BY <1>2, <2>2, <2>3, <2>4
<1> HIDE DEF w, now, iv, b
<1>5. /\ Agree(iv, w.bgs, w.slot, pl, w.bgId) /\ FreeOk(w.freeSlots, w.bgs) /\ ScheduledOk(w.scheduled)
      /\ w = [bgs |-> w.bgs, freeSlots |-> w.freeSlots, scheduled |-> w.scheduled, slot |-> w.slot,
              bgId |-> w.bgId]
  BY <1>4 DEF LeaveOk
<1>6. /\ bgs' = w.bgs /\ freeSlots' = w.freeSlots /\ scheduled' = w.scheduled
      /\ slot' = w.slot /\ bgId' = Put(w.bgId, p, 0)
  <2> DEFINE all == Put(w.bgId, p, 0)
             x == [w EXCEPT !.bgId = Put(@, p, 0)]
  <2>1. x = [w EXCEPT !.bgId = all] /\ Becomes(x)
    BY <1>1
  <2> HIDE DEF x, all
  <2>2. x = [bgs |-> w.bgs, freeSlots |-> w.freeSlots, scheduled |-> w.scheduled, slot |-> w.slot,
             bgId |-> all]
    BY <1>5, <2>1
  <2> QED
    BY <2>1, <2>2 DEF Becomes, all
<1>7. bgId' = [w.bgId EXCEPT ![p] = 0]
  <2> DEFINE old == w.bgId
  <2>1. bgId' = Put(old, p, 0)
    BY <1>6
  <2>2. old \in [Players -> Ids \cup {0}] /\ p \in Players
    BY <1>5 DEF Agree, PlacesOk
  <2> HIDE DEF old
  <2>3. Put(old, p, 0) = [old EXCEPT ![p] = 0]
    BY ONLY <2>2 DEF Put
  <2> QED
    BY <2>1, <2>3 DEF old
<1>8. \A c \in DOMAIN w.bgs : p \notin w.bgs[c].players
  BY <1>3, <1>4 DEF LeftBgs
<1>9. PlayersInv'
  <2> DEFINE bs == w.bgs
             sl == w.slot
             bi == w.bgId
  <2>1. /\ Agree(iv, bs, sl, pl, bi) /\ p \in Players /\ pl[p] = "offline"
        /\ \A c \in DOMAIN bs : p \notin bs[c].players
    BY <1>1, <1>5, <1>8
  <2> HIDE DEF bs, sl, bi, pl
  <2>2. Agree(iv, bs, sl, [pl EXCEPT ![p] = "world"], [bi EXCEPT ![p] = 0])
    BY ONLY <2>1, ReturnAgrees
  <2>3. Agree(iv, bgs', slot', place', bgId')
    BY <1>1, <1>6, <1>7, <2>2 DEF bs, sl, bi
  <2> QED
    BY <1>1, <2>3 DEF PlayersInv, iv
<1>10. OfflineOk(bgs', place')
  <2>1. OfflineOk(w.bgs, pl)
    <3> SUFFICES ASSUME NEW c \in DOMAIN bgs, w.bgs[c].status # "leave"
                 PROVE  /\ IsInjective(w.bgs[c].offline)
                        /\ \A u \in Range(w.bgs[c].offline) : u \in w.bgs[c].players /\ pl[u] = "offline"
      BY <1>4 DEF OfflineOk, LeftBgs
    <3>1. /\ bgs[c].status # "leave" /\ w.bgs[c].offline = bgs[c].offline
          /\ w.bgs[c].players = bgs[c].players
      BY <1>1, <1>4 DEF LeftBgs
    <3> QED
      BY <1>2, <3>1 DEF OfflineOk
  <2>2. OfflineOk(bgs', pl) /\ BgsOk(bgs') /\ \A c \in DOMAIN bgs' : p \notin bgs'[c].players
    BY <1>5, <1>6, <1>8, <2>1 DEF Agree
  <2> HIDE DEF pl
  <2>3. OfflineOk(bgs', [pl EXCEPT ![p] = "world"])
    BY <1>3, <2>2, BackOffline
  <2> QED
    BY <1>1, <2>3
<1>11. SlotsInv'
  BY <1>5, <1>6, <1>10 DEF SlotsInv
<1>12. QueuesInv'
  <2>1. ScheduledOk(scheduled')
    BY <1>5, <1>6
  <2> QED
    BY <1>1, <2>1, QueuesKept DEF BattlegroundInv
<1>13. IdsInv' /\ WorldInv'
  <2>1. DOMAIN bgs' = DOMAIN bgs /\ UNCHANGED <<mapVars, worldVars>>
    BY <1>1, <1>4, <1>6 DEF LeftBgs
  <2> QED
    BY <2>1, MapsKept
<1> QED
  BY <1>9, <1>11, <1>12, <1>13 DEF BattlegroundInv

\* LoadFromDB.
LEMMA LoginStep ==
    ASSUME BattlegroundAssumption, BattlegroundInv, NEW p \in Players, Login(p)
    PROVE  BattlegroundInv'
BY LoginCases, BackInStep, BackToWorldStep, BackUnknownStep

\* What UpdateQueues starts from.
Started == [groups |-> groups, events |-> events, scheduled |-> scheduled, bgs |-> bgs,
            freeSlots |-> freeSlots, slot |-> slot, ids |-> ids]

\* It is a value the updates may start from.
LEMMA StartedOk ==
    ASSUME BattlegroundInv
    PROVE  WorldOk(Started)
<1>1. /\ GroupsOk(groups) /\ events \in SUBSET EventRec /\ Timed(InvitationsOf(groups), events)
      /\ scheduled \in Seq(Queues)
  BY DEF BattlegroundInv, QueuesInv, ScheduledOk
<1>2. Agree(InvitationsOf(groups), bgs, slot, place, bgId) /\ BgsOk(bgs) /\ SlotOk(slot)
  BY DEF BattlegroundInv, PlayersInv, Agree
<1>3. FreeOk(freeSlots, bgs) /\ OfflineOk(bgs, place) /\ freeSlots \in [Queues -> Seq(Ids)]
  BY DEF BattlegroundInv, SlotsInv, FreeOk
<1>4. IdsOk(ids, DOMAIN bgs \cup Gone) /\ DOMAIN bgs \cap Gone = {}
  BY DEF BattlegroundInv, IdsInv
<1>5. Started \in Worlds
  BY <1>1, <1>2, <1>3, <1>4, IsWorld DEF Started
<1>6. /\ Started.groups = groups /\ Started.events = events /\ Started.scheduled = scheduled
      /\ Started.bgs = bgs /\ Started.freeSlots = freeSlots /\ Started.slot = slot /\ Started.ids = ids
  BY DEF Started
<1> QED
  BY <1>1, <1>2, <1>3, <1>4, <1>5, <1>6 DEF WorldOk, WorldAgrees

\* The events, and then the updates that were scheduled.
LEMMA UpdateQueuesIs ==
    ASSUME UpdateQueues
    PROVE  /\ phase = "battlegrounds" /\ due = {} /\ phase' = "sessions" /\ scheduled' = <<>>
           /\ UNCHANGED <<maps, unloading, bgId, place, due, requests>>
           /\ \E late : LET done == UpdateScheduled(UpdateEvents(Started), late)
                        IN /\ groups' = done.groups /\ events' = done.events /\ bgs' = done.bgs
                           /\ freeSlots' = done.freeSlots /\ slot' = done.slot /\ ids' = done.ids
<1>1. [groups |-> groups, events |-> events, bgs |-> bgs, scheduled |-> scheduled,
       freeSlots |-> freeSlots, slot |-> slot, ids |-> ids] = Started
  BY DEF Started
<1> QED
  BY <1>1 DEF UpdateQueues

\* What they leave the variables with.
Ends(w, v) ==
    /\ EventsDone(Started, OverEvents(events), w) /\ Updated(w, v)
    /\ groups' = v.groups /\ events' = v.events /\ bgs' = v.bgs
    /\ freeSlots' = v.freeSlots /\ slot' = v.slot /\ ids' = v.ids

\* They leave such values.
LEMMA UpdateQueuesEnds ==
    ASSUME BattlegroundAssumption, BattlegroundInv, UpdateQueues
    PROVE  \E w, v : Ends(w, v)
<1> DEFINE w == UpdateEvents(Started)
<1>1. PICK late : LET done == UpdateScheduled(w, late)
                  IN /\ groups' = done.groups /\ events' = done.events /\ bgs' = done.bgs
                     /\ freeSlots' = done.freeSlots /\ slot' = done.slot /\ ids' = done.ids
  BY UpdateQueuesIs
<1> DEFINE v == UpdateScheduled(w, late)
<1>2. Started.events = events
  BY DEF Started
<1>3. EventsDone(Started, OverEvents(events), w)
  <2>1. EventsDone(Started, OverEvents(Started.events), UpdateEvents(Started))
    BY StartedOk, UpdateEventsView
  <2> QED
    BY <1>2, <2>1
<1>4. WorldOk(w)
  <2> HIDE DEF w
  <2>1. WorldAgrees(w) /\ Timed(InvitationsOf(w.groups), w.events \cup (OverEvents(events) \ OverEvents(events)))
    BY <1>2, <1>3 DEF EventsDone
  <2>2. w.events \cup (OverEvents(events) \ OverEvents(events)) = w.events
    OBVIOUS
  <2> QED
    BY <2>1, <2>2 DEF WorldOk
<1> HIDE DEF w
<1>5. Updated(w, v)
  BY <1>4, UpdateScheduledView
<1>6. Ends(w, v)
  <2> HIDE DEF v
  <2>1. /\ groups' = v.groups /\ events' = v.events /\ bgs' = v.bgs
        /\ freeSlots' = v.freeSlots /\ slot' = v.slot /\ ids' = v.ids
    BY <1>1 DEF v
  <2> QED
    BY <1>3, <1>5, <2>1 DEF Ends
<1> QED
  BY <1>6

\* BattlegroundMgr::Update: the events and the scheduled updates of the queues.
LEMMA UpdateQueuesStep ==
    ASSUME BattlegroundAssumption, BattlegroundInv, UpdateQueues
    PROVE  BattlegroundInv'
<1>1. PICK w, v : Ends(w, v)
  BY UpdateQueuesEnds
<1>2. /\ due = {} /\ phase' = "sessions" /\ scheduled' = <<>>
      /\ UNCHANGED <<maps, unloading, bgId, place, due, requests>>
  BY UpdateQueuesIs
<1>3. /\ groups' = v.groups /\ events' = v.events /\ bgs' = v.bgs
      /\ freeSlots' = v.freeSlots /\ slot' = v.slot /\ ids' = v.ids
      /\ WorldOk(v) /\ DOMAIN w.bgs \subseteq DOMAIN v.bgs /\ DOMAIN w.bgs = DOMAIN bgs
  BY <1>1 DEF Ends, Updated, NothingLost, EventsDone, Started
<1>4. /\ GroupsOk(groups') /\ FreeOk(freeSlots', bgs') /\ OfflineOk(bgs', place)
      /\ IdsOk(ids', DOMAIN bgs' \cup Gone) /\ DOMAIN bgs' \cap Gone = {}
      /\ Agree(InvitationsOf(groups'), bgs', slot', place, bgId)
      /\ Timed(InvitationsOf(groups'), events')
  BY <1>3 DEF WorldOk, WorldAgrees
<1>5. events' \in SUBSET EventRec
  BY <1>3, WorldFields DEF WorldOk
<1>6. ScheduledOk(<<>>)
  <2>1. <<>> \in Seq(Queues) /\ DOMAIN <<>> = {}
    OBVIOUS
  <2> QED
    BY <2>1 DEF ScheduledOk, IsInjective
<1>7. QueuesInv' /\ PlayersInv' /\ SlotsInv'
  BY <1>2, <1>4, <1>5, <1>6 DEF QueuesInv, PlayersInv, SlotsInv
<1>8. IdsInv'
  <2>1. Gone' = Gone
    BY <1>2 DEF Gone
  <2>2. maps' \subseteq DOMAIN bgs' /\ unloading' \subseteq Ids \X Queues
    BY <1>2, <1>3 DEF BattlegroundInv, IdsInv
  <2> QED
    BY <1>4, <2>1, <2>2 DEF IdsInv
<1>9. WorldInv'
  BY <1>2 DEF BattlegroundInv, WorldInv
<1> QED
  BY <1>7, <1>8, <1>9 DEF BattlegroundInv

-----------------------------------------------------------------------------
(* Every step.                                                               *)

\* What a player does.
LEMMA PlayerSteps ==
    ASSUME BattlegroundAssumption, BattlegroundInv, NEW p \in Players, PlayerStep(p)
    PROVE  BattlegroundInv'
<1>1. CASE \E q \in Queues : Enter(p, q) \/ LeaveQueue(p, q)
  BY <1>1, EnterStep, LeaveQueueStep
<1>2. CASE Arrive(p)
  BY <1>2, ArriveStep
<1>3. CASE LeaveBattleground(p)
  BY <1>3, LeaveBattlegroundStep
<1>4. CASE Logout(p)
  BY <1>4, LogoutStep
<1>5. CASE Login(p)
  BY <1>5, LoginStep
<1> QED
  BY <1>1, <1>2, <1>3, <1>4, <1>5 DEF PlayerStep

\* What the world does.
LEMMA WorldSteps ==
    ASSUME BattlegroundAssumption, BattlegroundInv, WorldStep
    PROVE  BattlegroundInv'
<1>1. CASE UpdateMaps
  BY <1>1, UpdateMapsStep
<1>2. CASE UpdateQueues
  BY <1>2, UpdateQueuesStep
<1>3. ASSUME NEW b \in Ids, UpdateBattleground(b) \/ Wait(b)
      PROVE  BattlegroundInv'
  <2>1. CASE DeleteBattleground(b)
    BY <2>1, DeleteBattlegroundStep
  <2>2. CASE StartMatch(b)
    BY <2>2, StartMatchStep
  <2>3. CASE EndMatch(b)
    BY <2>3, EndMatchStep
  <2>4. CASE RemoveOffline(b)
    BY <2>4, RemoveOfflineStep
  <2>5. CASE KickAll(b)
    BY <2>5, KickAllStep
  <2>6. CASE Wait(b)
    BY <2>6, WaitStep
  <2> QED
    BY <1>3, <2>1, <2>2, <2>3, <2>4, <2>5, <2>6 DEF UpdateBattleground
<1> QED
  BY <1>1, <1>2, <1>3 DEF WorldStep

\* A step that changes nothing.
LEMMA StutterStep ==
    ASSUME BattlegroundInv, UNCHANGED vars
    PROVE  BattlegroundInv'
<1>1. UNCHANGED <<groups, events, scheduled, bgs, freeSlots, ids, maps, unloading, slot, bgId,
                  place, phase, due, requests>>
  BY DEF vars
<1>2. QueuesInv'
  BY <1>1 DEF BattlegroundInv, QueuesInv
<1>3. PlayersInv' /\ SlotsInv'
  BY <1>1 DEF BattlegroundInv, PlayersInv, SlotsInv
<1>4. IdsInv' /\ WorldInv'
  BY <1>1 DEF BattlegroundInv, IdsInv, WorldInv, Gone
<1> QED
  BY <1>2, <1>3, <1>4 DEF BattlegroundInv

\* Every step preserves the invariant.
LEMMA NextHolds == BattlegroundInv /\ [Next]_vars => BattlegroundInv'
<1> SUFFICES ASSUME BattlegroundInv, [Next]_vars PROVE BattlegroundInv'
  OBVIOUS
<1> USE BattlegroundAssumption
<1>1. ASSUME NEW party \in UNION Scenarios, Join(party) PROVE BattlegroundInv'
  BY <1>1, JoinStep
<1>2. ASSUME NEW p \in Players, PlayerStep(p) PROVE BattlegroundInv'
  BY <1>2, PlayerSteps
<1>3. CASE WorldStep
  BY <1>3, WorldSteps
<1>4. CASE UNCHANGED vars
  BY <1>4, StutterStep
<1> QED
  BY <1>1, <1>2, <1>3, <1>4 DEF Next

\* The inductive invariant holds in every reachable state.
THEOREM InvariantHolds == Spec => []BattlegroundInv
<1>1. Init => BattlegroundInv
  BY InitHolds
<1>2. BattlegroundInv /\ [Next]_vars => BattlegroundInv'
  BY NextHolds
<1> QED
  BY <1>1, <1>2, PTL DEF Spec

-----------------------------------------------------------------------------
(* What it says.                                                             *)

\* The groups of a queue have their type, and their players an invitation each.
LEMMA GroupsTyped ==
    ASSUME BattlegroundInv, NEW q \in Queues, NEW g \in GroupsOf(groups[q])
    PROVE  /\ g \in GroupRec
           /\ \A p \in g.players :
                  p \in Players /\ [bg |-> g.invited, left |-> g.left] \in InvitationsOf(groups)[q][p]
<1>1. groups[q] \in [Lists -> Seq(GroupRec)]
  BY DEF BattlegroundInv, QueuesInv, GroupsOk
<1>2. PICK l \in Lists : g \in Range(groups[q][l])
  BY DEF GroupsOf
<1>3. groups[q][l] \in Seq(GroupRec)
  BY <1>1
<1>4. g \in GroupRec
  BY <1>2, <1>3 DEF Range
<1>5. ASSUME NEW p \in g.players
      PROVE  p \in Players /\ [bg |-> g.invited, left |-> g.left] \in InvitationsOf(groups)[q][p]
  <2>1. p \in Players
    BY <1>4 DEF GroupRec
  <2>2. g \in GroupOf(groups[q], p)
    BY DEF GroupOf
  <2> QED
    BY <2>1, <2>2, InvitedIsIn
<1> QED
  BY <1>4, <1>5

\* Who is invited knows it, and his invitation ends in time.
LEMMA HoldsHere == BattlegroundInv => InvitationsHold
<1> SUFFICES ASSUME BattlegroundInv, NEW q \in Queues, NEW g \in GroupsOf(groups[q]), NEW p \in g.players
             PROVE  /\ place[p] # "offline" /\ slot[p][q] = g.invited
                    /\ g.invited # 0 =>
                           /\ g.invited \in DOMAIN bgs /\ bgs[g.invited].queue = q
                           /\ [player |-> p, queue |-> q, bg |-> g.invited, left |-> g.left] \in events
                           /\ g.left > 0
  BY DEF InvitationsHold
<1> DEFINE i == [bg |-> g.invited, left |-> g.left]
           iv == InvitationsOf(groups)
           e == [player |-> p, queue |-> q, bg |-> g.invited, left |-> g.left]
<1>1. p \in Players /\ i \in iv[q][p]
  BY GroupsTyped
<1>2. i.bg = g.invited /\ i.left = g.left
  OBVIOUS
<1>3. Known(iv, bgs, slot, place) /\ Timed(iv, events) /\ events \in SUBSET EventRec
  BY DEF BattlegroundInv, PlayersInv, QueuesInv, Agree
<1> HIDE DEF i, iv
<1>4. /\ place[p] # "offline" /\ slot[p][q] = g.invited
      /\ g.invited # 0 => g.invited \in DOMAIN bgs /\ bgs[g.invited].queue = q
  BY <1>1, <1>2, <1>3 DEF Known
<1>5. ASSUME g.invited # 0 PROVE e \in events /\ g.left > 0
  <2>1. e \in events
    BY <1>1, <1>2, <1>3, <1>5 DEF Timed
  <2>2. e.left \in 1..AcceptTime /\ e.left = g.left
    BY <1>3, <2>1 DEF EventRec
  <2> QED
    BY <2>1, <2>2
<1> QED
  BY <1>4, <1>5

\* The ids that come next are free.
LEMMA UniqueHere == BattlegroundInv => IdsAreUnique
BY DEF BattlegroundInv, IdsInv, IdsOk, IdsAreUnique, Gone

\* Nobody is counted twice.
LEMMA ExactHere == BattlegroundInv => CountsExact
<1> SUFFICES ASSUME BattlegroundInv, NEW b \in DOMAIN bgs, NEW t \in Teams
             PROVE  LET Count(P) == Cardinality({p \in P : Team[p] = t})
                        invited == {p \in Players : \E g \in GroupOf(groups[bgs[b].queue], p) : g.invited = b}
                        coming == {p \in Players : place[p] = "transit" /\ bgId[p] = b}
                    IN /\ bgs[b].invited[t] = Count(invited) + Count(coming) + Count(bgs[b].players)
                       /\ bgs[b].invited[t] <= MaxPlayers
  BY DEF CountsExact
<1> USE BattlegroundAssumption
<1> DEFINE iv == InvitationsOf(groups)
           q == bgs[b].queue
           invited == {p \in Players : \E g \in GroupOf(groups[q], p) : g.invited = b}
           coming == {p \in Players : place[p] = "transit" /\ bgId[p] = b}
           inside == bgs[b].players
           all == Counted(iv, bgs, place, bgId, b)
<1>1. Agree(iv, bgs, slot, place, bgId)
  BY DEF BattlegroundInv, PlayersInv
<1>2. /\ Known(iv, bgs, slot, place) /\ CountsOk(iv, bgs, place, bgId) /\ BgsOk(bgs)
      /\ PlacesOk(iv, bgs, slot, place, bgId)
  BY <1>1 DEF Agree
<1>3. q \in Queues /\ inside \in SUBSET Players
  BY <1>2, BgFields
<1>4. \A p \in Players : p \in invited <=> \E i \in iv[q][p] : i.bg = b
  <2> TAKE p \in Players
  <2>1. iv[q][p] = {[bg |-> g.invited, left |-> g.left] : g \in GroupOf(groups[q], p)}
    BY <1>3 DEF InvitationsOf, Invitations
  <2> HIDE DEF iv
  <2>2. ASSUME NEW g \in GroupOf(groups[q], p), g.invited = b PROVE \E i \in iv[q][p] : i.bg = b
    <3>1. [bg |-> g.invited, left |-> g.left] \in iv[q][p]
      BY <2>1
    <3>2. [bg |-> g.invited, left |-> g.left].bg = b
      BY <2>2
    <3> QED
      BY <3>1, <3>2
  <2>3. ASSUME NEW i \in iv[q][p], i.bg = b PROVE \E g \in GroupOf(groups[q], p) : g.invited = b
    <3>1. PICK g \in GroupOf(groups[q], p) : i = [bg |-> g.invited, left |-> g.left]
      BY <2>1
    <3> QED
      BY <2>3, <3>1
  <2> QED
    BY <2>2, <2>3
<1>5. invited \in SUBSET Players /\ coming \in SUBSET Players
  OBVIOUS
<1>6. \A p \in Players : p \in coming <=> place[p] = "transit" /\ bgId[p] = b
  OBVIOUS
<1> HIDE DEF invited, coming, iv
<1>7. all = (invited \cup coming) \cup inside
  <2>1. all = {p \in Players : \/ \E i \in iv[q][p] : i.bg = b
                               \/ place[p] = "transit" /\ bgId[p] = b
                               \/ p \in inside}
    BY DEF Counted
  <2> HIDE DEF q, inside, all
  <2> QED
    BY <1>3, <1>4, <1>5, <1>6, <2>1
<1>8. invited \cap coming = {} /\ (invited \cup coming) \cap inside = {}
  <2>1. \A p \in Players : place[p] \in {"transit", "bg"} /\ bgId[p] = b => iv[q][p] = {}
    BY <1>2 DEF PlacesOk
  <2>2. \A p \in inside : bgId[p] = b /\ place[p] \in {"bg", "offline"}
    BY <1>2 DEF PlacesOk
  <2>3. \A p \in Players : iv[q][p] # {} => place[p] # "offline"
    BY <1>2, <1>3 DEF Known
  <2> QED
    BY <1>3, <1>4, <1>5, <1>6, <2>1, <2>2, <2>3
<1>9. bgs[b].invited[t] = Cardinality(Faction(all, t)) /\ bgs[b].invited[t] <= MaxPlayers
  BY <1>2 DEF CountsOk
<1> HIDE DEF inside, q, all
<1>10. Cardinality(Faction(all, t)) =
           Cardinality(Faction(invited, t)) + Cardinality(Faction(coming, t)) + Cardinality(Faction(inside, t))
  <2>1. Cardinality(Faction((invited \cup coming) \cup inside, t)) =
            Cardinality(Faction(invited \cup coming, t)) + Cardinality(Faction(inside, t))
    <3>1. (invited \cup coming) \in SUBSET Players
      BY <1>5
    <3> QED
      BY <1>3, <1>8, <3>1, CountMore
  <2>2. Cardinality(Faction(invited \cup coming, t)) =
            Cardinality(Faction(invited, t)) + Cardinality(Faction(coming, t))
    BY <1>5, <1>8, CountMore
  <2> QED
    BY <1>7, <2>1, <2>2
<1> QED
  BY <1>9, <1>10 DEF Faction, invited, coming, inside, q

\* A faction's players in a battleground are a number.
LEMMA CountsTyped ==
    ASSUME BattlegroundInv, NEW b \in DOMAIN bgs, NEW t \in Teams
    PROVE  bgs[b].invited[t] \in Nat
<1> DEFINE all == Counted(InvitationsOf(groups), bgs, place, bgId, b)
<1>1. bgs[b].invited[t] = Cardinality(Faction(all, t))
  BY DEF BattlegroundInv, PlayersInv, Agree, CountsOk
<1>2. all \in SUBSET Players
  BY CountedIsSet
<1> HIDE DEF all
<1>3. IsFiniteSet(Faction(all, t))
  <2>1. Faction(all, t) \subseteq Players
    BY <1>2 DEF Faction
  <2> QED
    BY <2>1, FS_Subset, BattlegroundAssumption DEF BattlegroundAssumption
<1> QED
  BY <1>1, <1>3, FS_CardinalityType

\* The variables have their types.
LEMMA TypedHere == BattlegroundInv => TypeOK
<1> SUFFICES ASSUME BattlegroundInv PROVE TypeOK
  OBVIOUS
<1>1. \A q \in Queues, l \in Lists : \A i \in DOMAIN groups[q][l] :
          groups[q][l][i] \in [players : (SUBSET Players) \ {{}}, invited : Ids \cup {0},
                               left : 0..AcceptTime]
  <2>1. groups \in [Queues -> [Lists -> Seq(GroupRec)]]
    BY DEF BattlegroundInv, QueuesInv, GroupsOk
  <2> SUFFICES ASSUME NEW q \in Queues, NEW l \in Lists, NEW i \in DOMAIN groups[q][l]
               PROVE  groups[q][l][i] \in GroupRec
    BY DEF GroupRec
  <2> DEFINE s == groups[q][l]
  <2>2. s \in Seq(GroupRec) /\ i \in DOMAIN s
    BY <2>1
  <2> HIDE DEF s
  <2>3. s[i] \in GroupRec
    BY <2>2
  <2> QED
    BY <2>3 DEF s
<1>2. events \subseteq [player : Players, queue : Queues, bg : Ids, left : 0..AcceptTime]
  <2>1. events \subseteq EventRec /\ 1..AcceptTime \subseteq 0..AcceptTime
    BY DEF BattlegroundInv, QueuesInv
  <2> QED
    BY <2>1 DEF EventRec
<1>3. scheduled \in Seq(Queues) /\ IsInjective(scheduled)
  BY DEF BattlegroundInv, QueuesInv, ScheduledOk
<1>4. Agree(InvitationsOf(groups), bgs, slot, place, bgId)
  BY DEF BattlegroundInv, PlayersInv
<1>5. /\ BgsOk(bgs) /\ SlotOk(slot) /\ place \in [Players -> PlaceNames]
      /\ bgId \in [Players -> Ids \cup {0}]
  BY <1>4 DEF Agree, PlacesOk
<1>6. \A b \in DOMAIN bgs :
          bgs[b] \in [queue : Queues, status : {"join", "progress", "leave"},
                      invited : [Teams -> Nat], players : SUBSET Players, offline : Seq(Players)]
  <2> TAKE b \in DOMAIN bgs
  <2>1. bgs[b] \in BgRec
    BY <1>5, BgFields
  <2>2. bgs[b].invited \in [Teams -> Int] /\ \A t \in Teams : bgs[b].invited[t] \in Nat
    BY <2>1, CountsTyped DEF BgRec
  <2>3. bgs[b].invited \in [Teams -> Nat]
    BY <2>2
  <2> QED
    BY <2>1, <2>3 DEF BgRec
<1>7. \A q \in Queues : freeSlots[q] \in Seq(DOMAIN bgs) /\ IsInjective(freeSlots[q])
  <2> TAKE q \in Queues
  <2> DEFINE s == freeSlots[q]
  <2>1. s \in Seq(Ids) /\ IsInjective(s) /\ \A b \in Range(s) : b \in DOMAIN bgs
    BY DEF BattlegroundInv, SlotsInv, FreeOk
  <2> HIDE DEF s
  <2>2. \A i \in 1..Len(s) : s[i] \in DOMAIN bgs
    BY <2>1 DEF Range
  <2>3. s \in Seq(DOMAIN bgs)
    BY <2>1, <2>2
  <2> QED
    BY <2>1, <2>3 DEF s
<1>8. ids.next \in 1..ids.size /\ ids.free \subseteq 1..ids.size
  <2>1. /\ ids.next \in 1..(ids.size - 1) /\ ids.free \subseteq 1..(ids.size - 1) /\ ids.size \in Nat
    BY DEF BattlegroundInv, IdsInv, IdsOk
  <2>2. 1..(ids.size - 1) \subseteq 1..ids.size
    BY <2>1
  <2> QED
    BY <2>1, <2>2
<1>9. maps \subseteq DOMAIN bgs /\ due \subseteq DOMAIN bgs /\ unloading \subseteq Ids \X Queues
      /\ phase \in {"sessions", "battlegrounds"} /\ requests \subseteq UNION Scenarios
  BY DEF BattlegroundInv, IdsInv, WorldInv
<1> QED
  BY <1>1, <1>2, <1>3, <1>5, <1>6, <1>7, <1>8, <1>9 DEF TypeOK, BgsOk, SlotOk, PlaceNames

\* Whom the events remove.
LEMMA RemovedInTime ==
    ASSUME BattlegroundInv, UpdateQueues, NEW q \in Queues, NEW g \in GroupsOf(groups[q]),
           NEW p \in g.players, slot'[p][q] = NotQueued
    PROVE  g.invited # 0 /\ g.left = 1
<1> USE BattlegroundAssumption
<1> DEFINE i == [bg |-> g.invited, left |-> g.left]
           iv == InvitationsOf(groups)
           later == InvitationsOf(LaterGroups(groups))
<1>1. PICK w, v : Ends(w, v)
  BY UpdateQueuesEnds
<1>2. g \in GroupRec /\ p \in Players /\ i \in iv[q][p]
  BY GroupsTyped
<1>3. i.bg = g.invited /\ i.left = g.left
  OBVIOUS
<1>4. slot[p][q] = g.invited /\ (g.invited # 0 => g.left > 0)
  <2>1. InvitationsHold
    BY HoldsHere
  <2>2. \A h \in GroupsOf(groups[q]) : \A u \in h.players :
            slot[u][q] = h.invited /\ (h.invited # 0 => h.left > 0)
    BY ONLY <2>1, q \in Queues, ZenonT(60) DEF InvitationsHold
  <2> QED
    BY ONLY <2>2, g \in GroupsOf(groups[q]), p \in g.players
<1>5. slot[p][q] # NotQueued
  <2>1. \A n \in Ids \cup {0} : n # NotQueued
    BY DEF Ids, NotQueued, BattlegroundAssumption
  <2> QED
    BY <1>2, <1>4, <2>1 DEF GroupRec
<1> HIDE DEF i, iv, later
<1>6. w.slot[p][q] = NotQueued
  BY <1>1, <1>2 DEF Ends, Updated, NothingLost
<1>7. PICK j \in later[q][p] : j.bg # 0 /\ j.left = 0
  <2>1. Started.slot = slot /\ Started.groups = groups
    BY DEF Started
  <2> QED
    BY <1>1, <1>2, <1>5, <1>6, <2>1 DEF Ends, EventsDone, later
<1>8. GroupsOk(groups) /\ InvitedOk(iv)
  BY DEF BattlegroundInv, QueuesInv, PlayersInv, Agree, iv
<1>9. later[q][p] = {Later(k) : k \in iv[q][p]}
  BY <1>2, <1>8, LaterGroupsView DEF later, iv
<1>10. \A k \in iv[q][p] : k = i
  BY <1>2, <1>8 DEF InvitedOk
<1>11. j = Later(i)
  BY <1>7, <1>9, <1>10
<1>12. i \in [bg : Ids \cup {0}, left : 0..AcceptTime]
  BY <1>2 DEF GroupRec, i
<1>13. j.bg = i.bg /\ j.left = IF i.left > 0 THEN i.left - 1 ELSE 0
  BY <1>11, <1>12 DEF Later
<1>14. g.left \in Nat
  BY <1>2 DEF GroupRec
<1> QED
  BY <1>3, <1>4, <1>7, <1>13, <1>14

\* Only the updates of the queues come between the two phases.
LEMMA LastPhase ==
    ASSUME [Next]_vars, phase = "battlegrounds", phase' = "sessions"
    PROVE  UpdateQueues
<1>1. phase' # phase
  OBVIOUS
<1>2. ~ UNCHANGED vars
  BY <1>1 DEF vars
<1>3. \A party \in UNION Scenarios : ~ Join(party)
  BY DEF Join
<1>4. \A p \in Players : ~ PlayerStep(p)
  BY DEF PlayerStep, Enter, LeaveQueue, Arrive, LeaveBattleground, Logout, Login
<1>5. ~ UpdateMaps
  BY DEF UpdateMaps
<1>6. \A b \in Ids : ~ (UpdateBattleground(b) \/ Wait(b))
  BY <1>1 DEF UpdateBattleground, DeleteBattleground, StartMatch, EndMatch, RemoveOffline, KickAll,
              Wait, Visited
<1> QED
  BY <1>2, <1>3, <1>4, <1>5, <1>6 DEF Next, WorldStep

-----------------------------------------------------------------------------
(* The theorems.                                                             *)

\* Every variable has its type; a battleground's counts do not go below zero, and only
\* existing battlegrounds wait for players.
THEOREM TypeCorrect == Spec => []TypeOK
BY InvariantHolds, TypedHere, PTL

\* What a battleground counts for a faction is the players invited, those on their way and
\* those in it, and at most MaxPlayers.
THEOREM CountsStayExact == Spec => []CountsExact
BY InvariantHolds, ExactHere, PTL

\* An invited group has only online players who know their invitation, its battleground
\* exists, and for each of them the event that ends it is still to come.
THEOREM InvitationsAreKept == Spec => []InvitationsHold
BY InvariantHolds, HoldsHere, PTL

\* An instance id is not given out again before its map is destroyed.
THEOREM IdsStayUnique == Spec => []IdsAreUnique
BY InvariantHolds, UniqueHere, PTL

\* The events remove only players whose own invitation has run out.
THEOREM RemovalIsTimely == Spec => TimelyRemoval
<1>1. BattlegroundInv /\ [Next]_vars =>
          [phase = "battlegrounds" /\ phase' = "sessions" =>
              \A q \in Queues : \A g \in GroupsOf(groups[q]) :
                  (\E p \in g.players : slot'[p][q] = NotQueued) => g.invited # 0 /\ g.left = 1]_vars
  BY LastPhase, RemovedInTime
<1> QED
  BY <1>1, InvariantHolds, PTL DEF Spec, TimelyRemoval

=============================================================================
