--------------------------- MODULE RecoveryProofs ---------------------------
(***************************************************************************)
(* Proofs about Recovery, for any number of packets, sizes and delays.     *)
(*                                                                         *)
(* A sum and a fold over a set of packets are first shown to satisfy their *)
(* equations, by induction on finite sets.  Three inductive invariants     *)
(* follow: RInv (a space's loss time and the packets it waits for agree),  *)
(* FlightInv (bytes_in_flight counts the outstanding packets) and          *)
(* PhasesInv (which keys are gone), and the theorems from them.            *)
(***************************************************************************)
EXTENDS Recovery, FiniteSetTheorems, WellFoundedInduction, TLAPS

\* Induction on the naturals, for a set of them.
LEMMA SetOfNaturals ==
    ASSUME NEW G \in SUBSET Nat, 0 \in G, \A n \in G : n + 1 \in G
    PROVE  \A n \in Nat : n \in G
<1> DEFINE R == OpToRel(<, Nat)
           B == Nat \ G
<1>1. IsWellFoundedOn(R, Nat)
  BY ONLY NatLessThanWellFounded, Zenon
<1>2. \A x, y \in Nat : x < y => <<x, y>> \in R
  BY DEF OpToRel
<1> HIDE DEF R
<1> SUFFICES ASSUME B # {} PROVE FALSE
  OBVIOUS
<1>3. PICK x \in B : \A y \in B : ~(<<y, x>> \in R)
  BY <1>1, WFMin
<1>4. x \in Nat /\ x # 0 /\ x - 1 \in Nat /\ x - 1 < x /\ (x - 1) + 1 = x
  BY <1>3
<1>5. x - 1 \in G
  BY <1>2, <1>3, <1>4
<1> QED BY <1>3, <1>4, <1>5

\* The subsets of S with at most k members.
UpTo(S, k) == {s \in SUBSET S : Cardinality(s) <= k}

\* Taking a member out of a finite set takes one off its cardinality.
LEMMA OneLess ==
    ASSUME NEW S, IsFiniteSet(S), NEW s \in SUBSET S
    PROVE  /\ IsFiniteSet(s) /\ Cardinality(s) \in Nat
           /\ \A x \in s : /\ IsFiniteSet(s \ {x}) /\ Cardinality(s \ {x}) \in Nat
                           /\ Cardinality(s) = Cardinality(s \ {x}) + 1
<1>1. IsFiniteSet(s)
  BY FS_Subset
<1>2. Cardinality(s) \in Nat
  BY <1>1, FS_CardinalityType
<1>3. ASSUME NEW x \in s
      PROVE  /\ IsFiniteSet(s \ {x}) /\ Cardinality(s \ {x}) \in Nat
             /\ Cardinality(s) = Cardinality(s \ {x}) + 1
  <2>1. IsFiniteSet(s \ {x}) /\ Cardinality(s \ {x}) = Cardinality(s) - 1
    BY <1>1, FS_RemoveElement
  <2>2. Cardinality(s \ {x}) \in Nat
    BY <2>1, FS_CardinalityType
  <2> QED BY <1>2, <2>1, <2>2
<1> QED BY <1>1, <1>2, <1>3

\* Induction on finite sets, for a set of subsets.
LEMMA SmallerFirst ==
    ASSUME NEW S, IsFiniteSet(S), NEW G \in SUBSET SUBSET S,
           \A s \in SUBSET S : (\A x \in s : s \ {x} \in G) => s \in G
    PROVE  \A s \in SUBSET S : s \in G
<1> DEFINE N == {k \in Nat : UpTo(S, k) \subseteq G}
<1>1. 0 \in N
  <2> SUFFICES ASSUME NEW s \in UpTo(S, 0) PROVE s \in G
    BY DEF N
  <2>1. s \in SUBSET S /\ Cardinality(s) <= 0
    BY DEF UpTo
  <2>2. ASSUME NEW x \in s PROVE s \ {x} \in G
    BY <2>1, OneLess
  <2> QED BY <2>1, <2>2
<1>2. ASSUME NEW k \in N PROVE k + 1 \in N
  <2> SUFFICES ASSUME NEW s \in UpTo(S, k + 1) PROVE s \in G
    OBVIOUS
  <2>1. s \in SUBSET S /\ Cardinality(s) <= k + 1
    BY DEF UpTo
  <2>2. ASSUME NEW x \in s PROVE s \ {x} \in G
    <3>1. Cardinality(s \ {x}) <= k /\ s \ {x} \in SUBSET S
      BY <2>1, OneLess
    <3> QED BY <3>1 DEF UpTo
  <2> QED BY <2>1, <2>2
<1> HIDE DEF N
<1>3. \A k \in Nat : k \in N
  <2>1. N \in SUBSET Nat
    BY DEF N
  <2> QED BY <1>1, <1>2, <2>1, SetOfNaturals
<1>4. ASSUME NEW s \in SUBSET S PROVE s \in G
  <2>1. Cardinality(s) \in Nat
    BY OneLess
  <2>2. s \in UpTo(S, Cardinality(s))
    BY <2>1 DEF UpTo
  <2> QED BY <1>3, <2>1, <2>2 DEF N
<1> QED BY <1>4

\* What a fold over a set is defined by: its value at each subset comes from
\* its value one member down.
FoldsOver(it, D, b, ch, st) ==
    \A s \in D : it[s] = IF s = {} THEN b ELSE st[<<ch[s], it[s \ {ch[s]}]>>]

\* Over a finite set there is such a function.
LEMMA FoldExists ==
    ASSUME NEW S, IsFiniteSet(S), NEW V, NEW b \in V,
           NEW ch, \A s \in SUBSET S : s # {} => ch[s] \in s,
           NEW st \in [S \X V -> V]
    PROVE  \E it \in [SUBSET S -> V] : FoldsOver(it, SUBSET S, b, ch, st)
<1> DEFINE F(k) == \E it \in [UpTo(S, k) -> V] : FoldsOver(it, UpTo(S, k), b, ch, st)
           N == {k \in Nat : F(k)}
<1>1. 0 \in N
  <2> DEFINE it == [s \in UpTo(S, 0) |-> b]
  <2>1. \A s \in UpTo(S, 0) : s = {}
    <3> SUFFICES ASSUME NEW s \in UpTo(S, 0), NEW x \in s PROVE FALSE
      OBVIOUS
    <3>1. s \in SUBSET S /\ Cardinality(s) <= 0
      BY DEF UpTo
    <3>2. Cardinality(s) = Cardinality(s \ {x}) + 1 /\ Cardinality(s \ {x}) \in Nat
      BY <3>1, OneLess
    <3> QED BY <3>1, <3>2
  <2>2. it \in [UpTo(S, 0) -> V] /\ FoldsOver(it, UpTo(S, 0), b, ch, st)
    BY <2>1 DEF FoldsOver
  <2> HIDE DEF it
  <2>3. F(0)
    BY <2>2
  <2> QED BY <2>3
<1>2. ASSUME NEW k \in N PROVE k + 1 \in N
  <2>1. PICK g \in [UpTo(S, k) -> V] : FoldsOver(g, UpTo(S, k), b, ch, st)
    OBVIOUS
  <2> DEFINE E(s) == IF s \in UpTo(S, k) THEN g[s]
                     ELSE st[<<ch[s], g[s \ {ch[s]}]>>]
             it == [s \in UpTo(S, k + 1) |-> E(s)]
  <2>2. ASSUME NEW s \in UpTo(S, k + 1), s # {}
        PROVE  ch[s] \in S /\ s \ {ch[s]} \in UpTo(S, k)
    <3>1. s \in SUBSET S /\ Cardinality(s) <= k + 1
      BY DEF UpTo
    <3>2. ch[s] \in s
      BY <3>1, <2>2
    <3>3. Cardinality(s \ {ch[s]}) <= k
      BY <3>1, <3>2, OneLess
    <3> QED BY <3>1, <3>2, <3>3 DEF UpTo
  <2>3. {} \in UpTo(S, k)
    BY FS_EmptySet DEF UpTo
  <2>4. UpTo(S, k) \subseteq UpTo(S, k + 1)
    <3> SUFFICES ASSUME NEW s \in UpTo(S, k) PROVE s \in UpTo(S, k + 1)
      OBVIOUS
    <3> QED BY OneLess DEF UpTo
  <2>5. ASSUME NEW s \in UpTo(S, k + 1) PROVE E(s) \in V
    <3>1. CASE s \in UpTo(S, k)
      BY <3>1
    <3>2. CASE s \notin UpTo(S, k)
      <4>1. s # {}
        BY <3>2, <2>3
      <4>2. <<ch[s], g[s \ {ch[s]}]>> \in S \X V
        BY <4>1, <2>2
      <4> QED BY <3>2, <4>2
    <3> QED BY <3>1, <3>2
  <2>6. ASSUME NEW s \in UpTo(S, k + 1)
        PROVE  it[s] = IF s = {} THEN b ELSE st[<<ch[s], it[s \ {ch[s]}]>>]
    <3>1. CASE s = {}
      BY <3>1, <2>1, <2>3 DEF FoldsOver
    <3>2. CASE s # {}
      <4>1. ch[s] \in S /\ s \ {ch[s]} \in UpTo(S, k)
        BY <3>2, <2>2
      <4>2. it[s \ {ch[s]}] = g[s \ {ch[s]}]
        BY <4>1, <2>4
      <4>3. CASE s \in UpTo(S, k)
        <5>1. g[s] = st[<<ch[s], g[s \ {ch[s]}]>>]
          BY <2>1, <3>2, <4>3 DEF FoldsOver
        <5> QED BY <3>2, <4>2, <4>3, <5>1
      <4>4. CASE s \notin UpTo(S, k)
        BY <3>2, <4>2, <4>4
      <4> QED BY <4>3, <4>4
    <3> QED BY <3>1, <3>2
  <2>7. it \in [UpTo(S, k + 1) -> V]
    BY <2>5
  <2> HIDE DEF it
  <2>8. FoldsOver(it, UpTo(S, k + 1), b, ch, st)
    BY <2>6 DEF FoldsOver
  <2>9. F(k + 1)
    BY <2>7, <2>8
  <2> QED BY <2>9
<1> HIDE DEF F, N
<1>3. \A k \in Nat : k \in N
  <2>1. N \in SUBSET Nat
    BY DEF N
  <2> QED BY <1>1, <1>2, <2>1, SetOfNaturals
<1>4. F(Cardinality(S))
  <2>1. Cardinality(S) \in Nat
    BY FS_CardinalityType
  <2> QED BY <1>3, <2>1 DEF N
<1>5. UpTo(S, Cardinality(S)) = SUBSET S
  BY FS_Subset DEF UpTo
<1> QED BY <1>4, <1>5 DEF F

\* The member of a set that a sum takes first.
AnyOf(s) == CHOOSE x \in s : TRUE

\* it is the sum of sizes on every subset of S.
SumsOver(it, S) ==
    it = [s \in SUBSET S |-> IF s = {} THEN 0
                             ELSE AnyOf(s).size + it[s \ {AnyOf(s)}]]

\* SumOfSizes is a fold, with natural values.
LEMMA SumIsFold ==
    ASSUME NEW S \in SUBSET SentPacket, IsFiniteSet(S)
    PROVE  \E it \in [SUBSET S -> Nat] : SumsOver(it, S) /\ SumOfSizes(S) = it[S]
<1> DEFINE ch == [s \in SUBSET S |-> AnyOf(s)]
           st == [z \in S \X Nat |-> z[1].size + z[2]]
<1>1. \A s \in SUBSET S : s # {} => AnyOf(s) \in s
  BY DEF AnyOf
<1>2. st \in [S \X Nat -> Nat]
  BY DEF SentPacket
<1>3. PICK g \in [SUBSET S -> Nat] : FoldsOver(g, SUBSET S, 0, ch, st)
  <2>1. \A s \in SUBSET S : s # {} => ch[s] \in s
    BY <1>1
  <2> HIDE DEF ch, st
  <2> QED BY <1>2, <2>1, FoldExists
<1>4. SumsOver(g, S)
  <2>1. ASSUME NEW s \in SUBSET S
        PROVE  g[s] = IF s = {} THEN 0 ELSE AnyOf(s).size + g[s \ {AnyOf(s)}]
    <3>1. g[s] = IF s = {} THEN 0 ELSE st[<<ch[s], g[s \ {ch[s]}]>>]
      BY <1>3 DEF FoldsOver
    <3>2. CASE s = {}
      BY <3>1, <3>2
    <3>3. CASE s # {}
      <4>1. <<AnyOf(s), g[s \ {AnyOf(s)}]>> \in S \X Nat
        BY <1>1, <3>3
      <4> QED BY <3>1, <3>3, <4>1
    <3> QED BY <3>2, <3>3
  <2> QED BY <2>1 DEF SumsOver
<1> DEFINE it == CHOOSE it : SumsOver(it, S)
<1>5. SumsOver(it, S)
  <2> HIDE DEF ch, st
  <2> QED BY <1>4
<1>6. SumOfSizes(S) = it[S]
  BY DEF SumOfSizes, MapThenSumSet, MapThenFoldSet, SumsOver, AnyOf
<1> HIDE DEF it, ch, st
<1>7. it \in [SUBSET S -> Nat]
  <2> DEFINE G == {s \in SUBSET S : it[s] \in Nat}
  <2>1. ASSUME NEW s \in SUBSET S, \A x \in s : s \ {x} \in G PROVE s \in G
    <3>1. it[s] = IF s = {} THEN 0 ELSE AnyOf(s).size + it[s \ {AnyOf(s)}]
      BY <1>5 DEF SumsOver
    <3>2. CASE s = {}
      BY <3>1, <3>2
    <3>3. CASE s # {}
      <4>1. AnyOf(s) \in s /\ AnyOf(s).size \in Nat
        BY <1>1, <3>3 DEF SentPacket
      <4>2. it[s \ {AnyOf(s)}] \in Nat
        BY <2>1, <4>1
      <4> QED BY <3>1, <3>3, <4>1, <4>2
    <3> QED BY <3>2, <3>3
  <2>2. G \in SUBSET SUBSET S
    OBVIOUS
  <2> HIDE DEF G
  <2>3. \A s \in SUBSET S : s \in G
    BY <2>1, <2>2, SmallerFirst
  <2>4. \A s \in SUBSET S : it[s] \in Nat
    BY <2>3 DEF G
  <2>5. it = [s \in SUBSET S |-> it[s]]
    <3>1. PICK e : it = e /\ e = [s \in SUBSET S |-> IF s = {} THEN 0
                                     ELSE AnyOf(s).size + it[s \ {AnyOf(s)}]]
      BY <1>5 DEF SumsOver
    <3> QED BY <3>1
  <2> QED BY <2>4, <2>5
<1> QED BY <1>5, <1>6, <1>7

\* The fold of a set is the sum on each of its subsets too.
LEMMA SumOfSubsets ==
    ASSUME NEW S \in SUBSET SentPacket, IsFiniteSet(S),
           NEW it \in [SUBSET S -> Nat], SumsOver(it, S), NEW T \in SUBSET S
    PROVE  SumOfSizes(T) = it[T]
<1>1. IsFiniteSet(T) /\ T \in SUBSET SentPacket
  BY FS_Subset
<1>2. PICK jt \in [SUBSET T -> Nat] : SumsOver(jt, T) /\ SumOfSizes(T) = jt[T]
  BY <1>1, SumIsFold
<1> DEFINE G == {s \in SUBSET T : it[s] = jt[s]}
<1>3. ASSUME NEW s \in SUBSET T, \A x \in s : s \ {x} \in G PROVE s \in G
  <2>1. it[s] = IF s = {} THEN 0 ELSE AnyOf(s).size + it[s \ {AnyOf(s)}]
    BY DEF SumsOver
  <2>2. jt[s] = IF s = {} THEN 0 ELSE AnyOf(s).size + jt[s \ {AnyOf(s)}]
    BY <1>2 DEF SumsOver
  <2>3. s # {} => it[s \ {AnyOf(s)}] = jt[s \ {AnyOf(s)}]
    BY <1>3 DEF AnyOf
  <2> QED BY <2>1, <2>2, <2>3
<1>4. G \in SUBSET SUBSET T
  OBVIOUS
<1> HIDE DEF G
<1>5. T \in G
  BY <1>1, <1>3, <1>4, SmallerFirst
<1> QED BY <1>2, <1>5 DEF G

\* The sum of no packets, and the sum with one packet taken out first.
LEMMA SumStep ==
    ASSUME NEW S \in SUBSET SentPacket, IsFiniteSet(S)
    PROVE  /\ SumOfSizes(S) \in Nat
           /\ S = {} => SumOfSizes(S) = 0
           /\ S # {} => /\ AnyOf(S) \in S
                        /\ SumOfSizes(S) = AnyOf(S).size + SumOfSizes(S \ {AnyOf(S)})
<1>1. PICK it \in [SUBSET S -> Nat] : SumsOver(it, S) /\ SumOfSizes(S) = it[S]
  BY SumIsFold
<1>2. it[S] = IF S = {} THEN 0 ELSE AnyOf(S).size + it[S \ {AnyOf(S)}]
  BY <1>1 DEF SumsOver
<1>3. SumOfSizes(S \ {AnyOf(S)}) = it[S \ {AnyOf(S)}]
  BY <1>1, SumOfSubsets
<1> QED BY <1>1, <1>2, <1>3 DEF AnyOf

\* Any packet can be taken out of a sum.
LEMMA SumRemove ==
    ASSUME NEW S \in SUBSET SentPacket, IsFiniteSet(S), NEW x \in S
    PROVE  SumOfSizes(S) = x.size + SumOfSizes(S \ {x})
<1> DEFINE Any(s) == \A y \in s : SumOfSizes(s) = y.size + SumOfSizes(s \ {y})
           G == {s \in SUBSET S : Any(s)}
<1>1. ASSUME NEW s \in SUBSET S, \A y \in s : s \ {y} \in G PROVE s \in G
  <2>1. SUFFICES ASSUME NEW y \in s
                 PROVE  SumOfSizes(s) = y.size + SumOfSizes(s \ {y})
    OBVIOUS
  <2> DEFINE a == AnyOf(s)
  <2>2. \A t \in SUBSET s : t \in SUBSET SentPacket /\ IsFiniteSet(t)
    BY FS_Subset
  <2>3. a \in s /\ SumOfSizes(s) = a.size + SumOfSizes(s \ {a})
    BY <2>2, SumStep
  <2>4. CASE y = a
    BY <2>3, <2>4
  <2>5. CASE y # a
    <3> HIDE DEF a
    <3>1. Any(s \ {a}) /\ Any(s \ {y})
      BY <1>1, <2>3
    <3>2. SumOfSizes(s \ {a}) = y.size + SumOfSizes((s \ {a}) \ {y})
      BY <3>1, <2>5
    <3>3. SumOfSizes(s \ {y}) = a.size + SumOfSizes((s \ {y}) \ {a})
      BY <3>1, <2>3, <2>5
    <3>4. (s \ {a}) \ {y} = (s \ {y}) \ {a}
      OBVIOUS
    <3>5. SumOfSizes((s \ {y}) \ {a}) \in Nat
      BY <2>2, SumStep
    <3>6. a.size \in Nat /\ y.size \in Nat
      BY <2>3 DEF SentPacket
    <3>7. PICK r \in Nat : /\ r = SumOfSizes((s \ {y}) \ {a})
                           /\ r = SumOfSizes((s \ {a}) \ {y})
      BY <3>4, <3>5, Zenon
    <3> HIDE DEF Any, G
    <3>8. SumOfSizes(s) = a.size + (y.size + r) /\ SumOfSizes(s \ {y}) = a.size + r
      BY <2>3, <3>2, <3>3, <3>7, Zenon
    <3> QED BY <3>6, <3>8
  <2> QED BY <2>4, <2>5
<1>2. G \in SUBSET SUBSET S
  OBVIOUS
<1> HIDE DEF G
<1>3. S \in G
  BY <1>1, <1>2, SmallerFirst
<1> QED BY <1>3 DEF G

\* A set and the rest of it add up.
LEMMA SumSplit ==
    ASSUME NEW S \in SUBSET SentPacket, IsFiniteSet(S), NEW A \in SUBSET S
    PROVE  /\ SumOfSizes(S) = SumOfSizes(A) + SumOfSizes(S \ A)
           /\ SumOfSizes(A) \in Nat /\ SumOfSizes(S \ A) \in Nat
<1>0. \A t \in SUBSET S : /\ t \in SUBSET SentPacket /\ IsFiniteSet(t)
                          /\ SumOfSizes(t) \in Nat
  BY FS_Subset, SumStep
<1> DEFINE G == {s \in SUBSET A : SumOfSizes(S) = SumOfSizes(s) + SumOfSizes(S \ s)}
<1>1. ASSUME NEW s \in SUBSET A, \A x \in s : s \ {x} \in G PROVE s \in G
  <2>1. CASE s = {}
    <3>1. SumOfSizes(s) = 0 /\ S \ s = S
      BY <2>1, <1>0, SumStep
    <3> QED BY <3>1, <1>0
  <2>2. CASE s # {}
    <3>1. PICK x \in s : TRUE
      BY <2>2
    <3>2. SumOfSizes(S) = SumOfSizes(s \ {x}) + SumOfSizes(S \ (s \ {x}))
      BY <1>1
    <3>3. SumOfSizes(s) = x.size + SumOfSizes(s \ {x})
      BY <1>0, SumRemove
    <3>4. /\ x \in S \ (s \ {x})
          /\ (S \ (s \ {x})) \ {x} = S \ s
      OBVIOUS
    <3>5. SumOfSizes(S \ (s \ {x})) = x.size + SumOfSizes(S \ s)
      <4> DEFINE U == S \ (s \ {x})
      <4>0. U \in SUBSET S /\ x \in U /\ U \ {x} = S \ s
        BY <3>4
      <4> HIDE DEF U, G
      <4>1. SumOfSizes(U) = x.size + SumOfSizes(U \ {x})
        BY <1>0, <4>0, SumRemove
      <4>2. SumOfSizes(U) = x.size + SumOfSizes(S \ s)
        BY <4>1, <4>0
      <4> QED BY <4>2 DEF U
    <3>6. /\ x.size \in Nat /\ SumOfSizes(s \ {x}) \in Nat
          /\ SumOfSizes(S \ s) \in Nat
      BY <1>0 DEF SentPacket
    <3>7. SumOfSizes(S) = SumOfSizes(s) + SumOfSizes(S \ s)
      BY <3>2, <3>3, <3>5, <3>6
    <3> QED BY <3>7
  <2> QED BY <2>1, <2>2
<1>2. G \in SUBSET SUBSET A /\ IsFiniteSet(A)
  BY <1>0
<1> HIDE DEF G
<1>3. A \in G
  BY <1>1, <1>2, SmallerFirst
<1> QED BY <1>0, <1>3 DEF G

\* A finite set of packets has one with the largest key.
LEMMA LargestExists ==
    ASSUME NEW S, IsFiniteSet(S), S # {}, NEW f \in [S -> Int]
    PROVE  \E p \in S : \A q \in S : f[q] <= f[p]
<1> DEFINE G == {s \in SUBSET S : s # {} => \E p \in s : \A q \in s : f[q] <= f[p]}
<1>1. ASSUME NEW s \in SUBSET S, \A x \in s : s \ {x} \in G PROVE s \in G
  <2> SUFFICES ASSUME s # {} PROVE \E p \in s : \A q \in s : f[q] <= f[p]
    OBVIOUS
  <2>1. PICK x \in s : TRUE
    OBVIOUS
  <2>2. CASE s \ {x} = {}
    BY <2>2
  <2>3. CASE s \ {x} # {}
    <3>1. PICK p \in s \ {x} : \A q \in s \ {x} : f[q] <= f[p]
      BY <1>1, <2>3
    <3>2. f[p] \in Int /\ f[x] \in Int /\ \A q \in s : f[q] \in Int
      OBVIOUS
    <3>3. CASE f[x] <= f[p]
      BY <3>1, <3>3
    <3>4. CASE f[p] < f[x]
      BY <3>1, <3>2, <3>4
    <3> QED BY <3>2, <3>3, <3>4
  <2> QED BY <2>2, <2>3
<1>2. G \in SUBSET SUBSET S
  OBVIOUS
<1> HIDE DEF G
<1>3. S \in G
  BY <1>1, <1>2, SmallerFirst
<1> QED BY <1>3 DEF G

\* The controller states: the window never goes below its minimum.
Controllers ==
    {c \in [congestion_window    : Nat,
            bytes_in_flight      : Int,
            slow_start_threshold : Nat,
            recovery_start_time  : Nat \cup {NoTime}] :
        c.congestion_window >= MinimumWindow}

\* The quotient of two naturals is one.
LEMMA QuotientNat ==
    ASSUME NEW a \in Nat, NEW b \in Nat \ {0}
    PROVE  a \div b \in Nat
OBVIOUS

\* Acknowledging a packet takes it out of flight and never shrinks the window.
LEMMA AckOne ==
    ASSUME NEW c \in Controllers, NEW p \in SentPacket
    PROVE  LET d == AckOnePacket(c, p) IN
           /\ d \in Controllers
           /\ d.bytes_in_flight = c.bytes_in_flight - p.size
           /\ d.congestion_window >= c.congestion_window
           /\ d.recovery_start_time = c.recovery_start_time
<1> DEFINE g == IF InRecovery(c, p.time_sent) THEN 0
                ELSE IF c.congestion_window < c.slow_start_threshold
                THEN p.size
                ELSE (MaxDatagramSize * p.size) \div c.congestion_window
<1>1. /\ c.congestion_window \in Nat \ {0}
      /\ c.congestion_window >= MinimumWindow
      /\ MinimumWindow \in Nat
      /\ p.size \in Nat /\ c.bytes_in_flight \in Int
  BY SizesNat DEF Controllers, MinimumWindow, SentPacket
<1>2. MaxDatagramSize * p.size \in Nat
  BY SizesNat, <1>1
<1>3. (MaxDatagramSize * p.size) \div c.congestion_window \in Nat
  <2> DEFINE a == MaxDatagramSize * p.size
             b == c.congestion_window
  <2> HIDE DEF a, b
  <2>1. a \in Nat /\ b \in Nat \ {0}
    BY <1>1, <1>2 DEF a, b
  <2>2. a \div b \in Nat
    BY <2>1, QuotientNat
  <2> QED BY <2>2 DEF a, b
<1>4. g \in Nat
  BY <1>1, <1>3
<1>5. AckOnePacket(c, p) = [c EXCEPT !.bytes_in_flight   = c.bytes_in_flight - p.size,
                                     !.congestion_window = c.congestion_window + g]
  BY DEF AckOnePacket
<1> HIDE DEF g
<1>6. /\ c.bytes_in_flight - p.size \in Int
      /\ c.congestion_window + g \in Nat
      /\ c.congestion_window + g >= c.congestion_window
      /\ c.congestion_window + g >= MinimumWindow
  BY <1>1, <1>4
<1> QED BY <1>5, <1>6 DEF Controllers

\* The packet an acknowledgement takes last.
Newest(s) == CHOOSE p \in s : \A q \in s : q.pn <= p.pn

\* There is one in every finite set of packets.
LEMMA NewestIn ==
    ASSUME NEW S \in SUBSET SentPacket, IsFiniteSet(S), S # {}
    PROVE  Newest(S) \in S
<1> DEFINE f == [p \in S |-> p.pn]
<1>1. f \in [S -> Int]
  BY DEF SentPacket
<1> HIDE DEF f
<1>2. PICK p \in S : \A q \in S : f[q] <= f[p]
  BY <1>1, LargestExists
<1>3. \A q \in S : q.pn <= p.pn
  BY <1>2 DEF f
<1> QED BY <1>3 DEF Newest

\* it is the controller after acknowledging each subset of S.
AcksOver(it, S, c) ==
    it = [s \in SUBSET S |-> IF s = {} THEN c
                             ELSE AckOnePacket(it[s \ {Newest(s)}], Newest(s))]

\* Acknowledging a set of packets takes exactly their sizes out of flight and
\* never shrinks the window.
LEMMA AckAll ==
    ASSUME NEW S \in SUBSET SentPacket, IsFiniteSet(S), NEW c \in Controllers
    PROVE  LET d == OnPacketsAcked(c, S) IN
           /\ d \in Controllers
           /\ d.bytes_in_flight = c.bytes_in_flight - SumOfSizes(S)
           /\ d.congestion_window >= c.congestion_window
           /\ d.recovery_start_time = c.recovery_start_time
<1> DEFINE ch == [s \in SUBSET S |-> Newest(s)]
           st == [z \in S \X Controllers |-> AckOnePacket(z[2], z[1])]
<1>0. \A t \in SUBSET S : t \in SUBSET SentPacket /\ IsFiniteSet(t)
  BY FS_Subset
<1>1. \A s \in SUBSET S : s # {} => Newest(s) \in s
  BY <1>0, NewestIn
<1>2. st \in [S \X Controllers -> Controllers]
  BY AckOne
<1>3. PICK g \in [SUBSET S -> Controllers] : FoldsOver(g, SUBSET S, c, ch, st)
  <2>1. \A s \in SUBSET S : s # {} => ch[s] \in s
    BY <1>1
  <2> HIDE DEF ch, st
  <2> QED BY <1>2, <2>1, FoldExists
<1>4. AcksOver(g, S, c)
  <2>1. ASSUME NEW s \in SUBSET S
        PROVE  g[s] = IF s = {} THEN c
                      ELSE AckOnePacket(g[s \ {Newest(s)}], Newest(s))
    <3>1. g[s] = IF s = {} THEN c ELSE st[<<ch[s], g[s \ {ch[s]}]>>]
      BY <1>3 DEF FoldsOver
    <3>2. CASE s = {}
      BY <3>1, <3>2
    <3>3. CASE s # {}
      <4>1. <<Newest(s), g[s \ {Newest(s)}]>> \in S \X Controllers
        BY <1>1, <3>3
      <4> QED BY <3>1, <3>3, <4>1
    <3> QED BY <3>2, <3>3
  <2> QED BY <2>1 DEF AcksOver
<1> DEFINE it == CHOOSE it : AcksOver(it, S, c)
<1>5. AcksOver(it, S, c)
  <2> HIDE DEF ch, st
  <2> QED BY <1>4
<1>6. OnPacketsAcked(c, S) = it[S]
  BY DEF OnPacketsAcked, MapThenFoldSet, AcksOver, Newest
<1> HIDE DEF it, ch, st
<1> DEFINE Good(s, d) == /\ d \in Controllers
                         /\ d.bytes_in_flight = c.bytes_in_flight - SumOfSizes(s)
                         /\ d.congestion_window >= c.congestion_window
                         /\ d.recovery_start_time = c.recovery_start_time
           G == {s \in SUBSET S : Good(s, it[s])}
<1>7. ASSUME NEW s \in SUBSET S, \A x \in s : s \ {x} \in G PROVE s \in G
  <2>1. it[s] = IF s = {} THEN c ELSE AckOnePacket(it[s \ {Newest(s)}], Newest(s))
    BY <1>5 DEF AcksOver
  <2>2. CASE s = {}
    <3>1. SumOfSizes(s) = 0
      BY <1>0, <2>2, SumStep
    <3> QED BY <2>1, <2>2, <3>1 DEF Controllers
  <2>3. CASE s # {}
    <3> DEFINE p == Newest(s)
               e == it[s \ {p}]
               d == AckOnePacket(e, p)
    <3>1. p \in s /\ p \in SentPacket
      BY <1>1, <2>3
    <3>2. Good(s \ {p}, e)
      BY <1>7, <3>1
    <3>3. SumOfSizes(s) = p.size + SumOfSizes(s \ {p}) /\ SumOfSizes(s \ {p}) \in Nat
      BY <1>0, <3>1, SumRemove, SumStep
    <3>4. it[s] = d
      BY <2>1, <2>3
    <3> HIDE DEF p, e
    <3>5. /\ d \in Controllers
          /\ d.bytes_in_flight = e.bytes_in_flight - p.size
          /\ d.congestion_window >= e.congestion_window
          /\ d.recovery_start_time = e.recovery_start_time
      BY <3>1, <3>2, AckOne
    <3> HIDE DEF d
    <3>6. /\ c.bytes_in_flight \in Int /\ p.size \in Nat
          /\ c.congestion_window \in Nat /\ d.congestion_window \in Nat
          /\ e.congestion_window \in Nat
      BY <3>1, <3>2, <3>5 DEF Controllers, SentPacket
    <3>7. Good(s, d)
      BY <3>2, <3>3, <3>5, <3>6
    <3> QED BY <3>4, <3>7
  <2> QED BY <2>2, <2>3
<1>8. G \in SUBSET SUBSET S
  OBVIOUS
<1> HIDE DEF G, Good
<1>9. S \in G
  BY <1>7, <1>8, SmallerFirst
<1> QED BY <1>6, <1>9 DEF G, Good

\* The smallest member of a set of naturals is one of them, and bounds the others.
LEMMA MinOfNaturals ==
    ASSUME NEW S \in SUBSET Nat, S # {}
    PROVE  Min(S) \in S /\ \A y \in S : Min(S) <= y
<1> DEFINE R == OpToRel(<, Nat)
<1>1. IsWellFoundedOn(R, Nat)
  BY ONLY NatLessThanWellFounded, Zenon
<1>2. \A x, y \in Nat : x < y => <<x, y>> \in R
  BY DEF OpToRel
<1> HIDE DEF R
<1>3. PICK x \in S : \A y \in S : ~(<<y, x>> \in R)
  BY <1>1, WFMin
<1>4. \A y \in S : x <= y
  <2>1. \A y \in S : ~(y < x)
    BY <1>2, <1>3, Zenon
  <2> QED BY <2>1
<1> QED BY <1>3, <1>4 DEF Min

\* The spaces are well typed, and nothing beyond largest_sent is outstanding
\* or acknowledged.
SpacesInv ==
    /\ now \in Nat
    /\ sent \in [Level -> SUBSET SentPacket]
    /\ largest_sent \in [Level -> Nat \cup {-1}]
    /\ largest_acked \in [Level -> Nat \cup {-1}]
    /\ loss_time \in [Level -> Nat \cup {NoTime}]
    /\ rtt.loss_delay \in Nat
    /\ \A l \in Level : /\ largest_acked[l] <= largest_sent[l]
                        /\ \A p \in sent[l] : p.pn <= largest_sent[l]

\* The inductive invariant of Recovery.
RInv == SpacesInv /\ LossTimeNamesOvertaken

\* NextLossTime is a time exactly when a packet waits for it.
LEMMA NextLossTimeExact ==
    ASSUME NEW P \in SUBSET SentPacket, NEW n \in Nat \cup {-1}, NEW d \in Nat
    PROVE  /\ NextLossTime(P, n, d) \in Nat \cup {NoTime}
           /\ NextLossTime(P, n, d) # NoTime <=> \E p \in P : p.pn <= n
<1> DEFINE W == {p \in P : p.pn <= n}
           T == {p.time_sent + d : p \in W}
<1>1. T \in SUBSET Nat /\ (W # {} => T # {})
  BY DEF SentPacket
<1>2. W # {} => Min(T) \in Nat
  <2> HIDE DEF T
  <2> QED BY <1>1, MinOfNaturals
<1>3. NextLossTime(P, n, d) = IF W = {} THEN NoTime ELSE Min(T)
  BY DEF NextLossTime
<1>4. W # {} <=> \E p \in P : p.pn <= n
  OBVIOUS
<1> HIDE DEF W, T
<1> QED BY <1>2, <1>3, <1>4 DEF NoTime

\* Detecting losses at one level re-establishes the loss time there.
LEMMA DetectKeepsInv ==
    ASSUME RInv, NEW l \in Level,
           NEW P \in SUBSET sent[l], NEW n \in 0 .. largest_sent[l] \cup {-1},
           NEW c, NEW r, r.loss_delay \in Nat, NEW t,
           DetectAndRemoveLost(l, P, n, c, r, t),
           largest_acked' = [largest_acked EXCEPT ![l] = n],
           rtt'.loss_delay \in Nat,
           now' = now, largest_sent' = largest_sent
    PROVE  RInv'
<1> DEFINE K == P \ LostPackets(P, n, r.loss_delay)
<1>1. /\ sent' = [sent EXCEPT ![l] = K]
      /\ loss_time' = [loss_time EXCEPT ![l] = NextLossTime(K, n, r.loss_delay)]
  BY DEF DetectAndRemoveLost
<1>2. K \subseteq sent[l] /\ K \in SUBSET SentPacket
  BY DEF RInv, SpacesInv
<1> HIDE DEF K
<1>3. /\ n \in Nat \cup {-1} /\ n <= largest_sent[l]
      /\ largest_sent[l] \in Nat \cup {-1}
  BY DEF RInv, SpacesInv
<1>4. /\ NextLossTime(K, n, r.loss_delay) \in Nat \cup {NoTime}
      /\ NextLossTime(K, n, r.loss_delay) # NoTime <=> \E p \in K : p.pn <= n
  BY <1>2, <1>3, NextLossTimeExact
<1>5. SpacesInv'
  BY <1>1, <1>2, <1>3, <1>4 DEF RInv, SpacesInv
<1>6. LossTimeNamesOvertaken'
  BY <1>1, <1>4 DEF RInv, SpacesInv, LossTimeNamesOvertaken
<1> QED BY <1>5, <1>6 DEF RInv

\* Forgetting the packets of a level clears its loss time.
LEMMA DropKeepsInv ==
    ASSUME RInv, NEW l \in Level, DropPackets(l),
           UNCHANGED <<now, largest_sent, largest_acked, rtt>>
    PROVE  RInv'
<1>1. SpacesInv'
  BY DEF RInv, SpacesInv, DropPackets
<1>2. LossTimeNamesOvertaken'
  BY DEF RInv, SpacesInv, LossTimeNamesOvertaken, DropPackets
<1> QED BY <1>1, <1>2 DEF RInv

\* A new endpoint satisfies the invariant.
LEMMA InitRInv == Init => RInv
<1> SUFFICES ASSUME Init PROVE RInv
  OBVIOUS
<1>1. rtt.loss_delay \in Nat
  BY DurationsNat DEF Init
<1>2. SpacesInv
  BY <1>1 DEF Init, SpacesInv, NoTime
<1>3. LossTimeNamesOvertaken
  BY DEF Init, LossTimeNamesOvertaken
<1> QED BY <1>2, <1>3 DEF RInv

\* Every step keeps it.
LEMMA NextRInv == RInv /\ [Next]_vars => RInv'
<1> SUFFICES ASSUME RInv, [Next]_vars PROVE RInv'
  OBVIOUS
<1>1. ASSUME NEW l \in Level, OnPacketSent(l)
      PROVE  RInv'
  <2>1. PICK b \in BOOLEAN, z \in Sizes :
          sent' = [sent EXCEPT ![l] = @ \cup
              {[pn |-> largest_sent[l] + 1, time_sent |-> now,
                ack_eliciting |-> b, size |-> z]}]
    BY <1>1 DEF OnPacketSent
  <2> DEFINE new == [pn |-> largest_sent[l] + 1, time_sent |-> now,
                     ack_eliciting |-> b, size |-> z]
  <2>2. /\ sent' = [sent EXCEPT ![l] = sent[l] \cup {new}]
        /\ largest_sent' = [largest_sent EXCEPT ![l] = largest_sent[l] + 1]
        /\ UNCHANGED <<now, largest_acked, loss_time, rtt>>
    BY <1>1, <2>1 DEF OnPacketSent
  <2>3. new \in SentPacket /\ new.pn = largest_sent[l] + 1
    BY DurationsNat DEF RInv, SpacesInv, SentPacket
  <2> HIDE DEF new
  <2>4. SpacesInv'
    BY <2>2, <2>3 DEF RInv, SpacesInv, SentPacket
  <2>5. ~(new.pn <= largest_acked[l])
    BY <2>3 DEF RInv, SpacesInv
  <2>6. LossTimeNamesOvertaken'
    BY <2>2, <2>5 DEF RInv, SpacesInv, LossTimeNamesOvertaken
  <2> QED BY <2>4, <2>6 DEF RInv
<1>2. ASSUME NEW l \in Level, RestartSpace(l)
      PROVE  RInv'
  BY <1>2, DropKeepsInv DEF RestartSpace
<1>3. CASE Ack
  <2>0. PICK l \in Level :
          \E acked \in SUBSET sent[l], largest \in 0 .. largest_sent[l],
             ce \in BOOLEAN : OnAckReceived(l, acked, largest, ce)
    BY <1>3 DEF Ack
  <2>1. PICK acked \in SUBSET sent[l], largest \in 0 .. largest_sent[l],
             ce \in BOOLEAN : OnAckReceived(l, acked, largest, ce)
    BY <2>0
  <2> DEFINE top == Max({largest_acked[l], largest})
             P == sent[l] \ acked
  <2>2. top \in 0 .. largest_sent[l] \cup {-1}
    BY DEF Max, RInv, SpacesInv
  <2>3. PICK c, t : DetectAndRemoveLost(l, P, top, c, rtt', t)
    BY <2>1 DEF OnAckReceived
  <2>4. rtt'.loss_delay \in Nat
    <3>1. rtt' \in RttAfterAck(acked, largest)
      BY <2>1 DEF OnAckReceived
    <3> QED BY <3>1, DurationsNat DEF RttAfterAck, RInv, SpacesInv
  <2>5. /\ largest_acked' = [largest_acked EXCEPT ![l] = top]
        /\ UNCHANGED <<now, largest_sent>>
        /\ P \in SUBSET sent[l]
    BY <2>1 DEF OnAckReceived
  <2> HIDE DEF top, P
  <2> QED BY <2>2, <2>3, <2>4, <2>5, DetectKeepsInv
<1>4. CASE OnLossTimeout
  <2>1. PICK l \in LossLevels :
          DetectAndRemoveLost(l, sent[l], largest_acked[l], controller, rtt, NoTime)
    BY <1>4 DEF OnLossTimeout
  <2>2. /\ l \in Level
        /\ largest_acked[l] \in 0 .. largest_sent[l] \cup {-1}
        /\ largest_acked = [largest_acked EXCEPT ![l] = largest_acked[l]]
        /\ rtt.loss_delay \in Nat
    BY DEF LossLevels, RInv, SpacesInv
  <2>3. UNCHANGED <<now, largest_sent, largest_acked, rtt>>
    BY <1>4 DEF OnLossTimeout
  <2> QED BY <2>1, <2>2, <2>3, DetectKeepsInv
<1>5. CASE DiscardInitial
  BY <1>5, DropKeepsInv DEF DiscardInitial, Level
<1>6. CASE ConfirmHandshake
  BY <1>6, DropKeepsInv DEF ConfirmHandshake, Level
<1>7. CASE OnStaleAck \/ OnProbeTimeout \/ Tick \/ UNCHANGED vars
  BY <1>7 DEF OnStaleAck, OnProbeTimeout, Tick, vars, spaceVars,
              RInv, SpacesInv, LossTimeNamesOvertaken
<1> QED BY <1>1, <1>2, <1>3, <1>4, <1>5, <1>6, <1>7 DEF Next

\* A space waits on a loss time exactly while an overtaken packet is
\* outstanding, for any traffic and any RTT samples.
THEOREM LossTimeExact == Spec => []LossTimeNamesOvertaken
<1>1. RInv => LossTimeNamesOvertaken
  BY DEF RInv
<1> QED BY InitRInv, NextRInv, <1>1, PTL DEF Spec

-----------------------------------------------------------------------------
(* Bytes in flight. *)

\* Some packets leaving flight take exactly their sizes with them.
LEMMA FlightSplit ==
    ASSUME NEW P \in SUBSET SentPacket, IsFiniteSet(P), NEW A \in SUBSET P
    PROVE  /\ SumOfSizes(InFlight(P)) =
                  SumOfSizes(InFlight(A)) + SumOfSizes(InFlight(P \ A))
           /\ SumOfSizes(InFlight(A)) \in Nat
           /\ SumOfSizes(InFlight(P \ A)) \in Nat
<1>1. /\ InFlight(P) \in SUBSET SentPacket /\ InFlight(P) \in SUBSET P
      /\ InFlight(A) \in SUBSET InFlight(P)
      /\ InFlight(P) \ InFlight(A) = InFlight(P \ A)
  BY DEF InFlight
<1>2. IsFiniteSet(InFlight(P))
  BY <1>1, FS_Subset
<1>3. /\ SumOfSizes(InFlight(P)) =
             SumOfSizes(InFlight(A)) + SumOfSizes(InFlight(P) \ InFlight(A))
      /\ SumOfSizes(InFlight(A)) \in Nat
      /\ SumOfSizes(InFlight(P) \ InFlight(A)) \in Nat
  BY <1>1, <1>2, SumSplit
<1> QED BY <1>1, <1>3, Zenon

\* Reducing the window keeps the controller well formed and every byte in
\* flight; it happens only for a packet sent after the recovery period began.
LEMMA CongestionOnce ==
    ASSUME NEW c \in Controllers, NEW t \in Nat, now \in Nat
    PROVE  LET d == OnCongestion(c, t, now) IN
           /\ d \in Controllers
           /\ d.bytes_in_flight = c.bytes_in_flight
           /\ \/ d = c
              \/ /\ d.recovery_start_time = now
                 /\ c.recovery_start_time = NoTime \/ t > c.recovery_start_time
<1> DEFINE d == OnCongestion(c, t, now)
<1>1. CASE InRecovery(c, t)
  BY <1>1 DEF OnCongestion
<1>2. CASE ~InRecovery(c, t)
  <2> DEFINE h == c.congestion_window \div 2
             w == Max({h, MinimumWindow})
  <2>1. h \in Nat /\ MinimumWindow \in Nat
    BY SizesNat DEF Controllers, MinimumWindow
  <2> HIDE DEF h
  <2>2. w \in Nat /\ w >= MinimumWindow
    BY <2>1 DEF Max
  <2>3. d = [c EXCEPT !.recovery_start_time  = now,
                      !.congestion_window    = w,
                      !.slow_start_threshold = w]
    BY <1>2 DEF OnCongestion, ReduceWindow, h
  <2> HIDE DEF w, d
  <2>4. d \in Controllers /\ d.bytes_in_flight = c.bytes_in_flight
        /\ d.recovery_start_time = now
    BY <2>2, <2>3 DEF Controllers
  <2>5. c.recovery_start_time = NoTime \/ t > c.recovery_start_time
    BY <1>2 DEF InRecovery, Controllers, NoTime
  <2> QED BY <2>4, <2>5 DEF d
<1> QED BY <1>1, <1>2

\* The latest of a finite set of packets' times is one of them.
LEMMA LatestTime ==
    ASSUME NEW P \in SUBSET SentPacket, IsFiniteSet(P), P # {}
    PROVE  \E p \in P : /\ Max({q.time_sent : q \in P}) = p.time_sent
                        /\ \A q \in P : q.time_sent <= p.time_sent
<1> DEFINE f == [p \in P |-> p.time_sent]
           T == {q.time_sent : q \in P}
<1>1. f \in [P -> Int] /\ \A p \in P : f[p] = p.time_sent /\ p.time_sent \in Nat
  BY DEF SentPacket
<1>2. PICK p \in P : \A q \in P : f[q] <= f[p]
  <2> HIDE DEF f
  <2> QED BY <1>1, LargestExists
<1>3. p.time_sent \in T /\ \A t \in T : t \in Nat /\ t <= p.time_sent
  BY <1>1, <1>2
<1> HIDE DEF T
<1>4. Max(T) = p.time_sent
  <2>1. Max(T) \in T /\ \A t \in T : Max(T) >= t
    BY <1>3 DEF Max
  <2> QED BY <1>3, <2>1
<1>5. \A q \in P : q.time_sent <= p.time_sent
  BY <1>1, <1>2
<1> QED BY <1>4, <1>5 DEF T

\* The losses p and q lie far enough apart for persistent congestion.
FarApart(p, q, r) ==
    p.time_sent - q.time_sent > (r.pto + MaxAckDelay) * PersistentCongestionThreshold

\* A loss takes exactly the lost packets out of flight, and touches the window
\* only for a packet sent after the recovery period began, or for persistent
\* congestion.
LEMMA LossResponse ==
    ASSUME NEW c \in Controllers, NEW L \in SUBSET SentPacket, IsFiniteSet(L),
           NEW r, now \in Nat
    PROVE  LET d == ControllerAfterLoss(c, L, r) IN
           /\ d \in Controllers
           /\ d.bytes_in_flight = c.bytes_in_flight - SumOfSizes(InFlight(L))
           /\ \/ /\ d.congestion_window = c.congestion_window
                 /\ d.recovery_start_time = c.recovery_start_time
              \/ /\ d.recovery_start_time = now
                 /\ \/ c.recovery_start_time = NoTime
                    \/ \E p \in L : p.time_sent > c.recovery_start_time
              \/ \E p, q \in L : FarApart(p, q, r)
<1> DEFINE hit == InFlight(L)
           d == ControllerAfterLoss(c, L, r)
<1>1. hit \in SUBSET L /\ hit \in SUBSET SentPacket /\ IsFiniteSet(hit)
  BY FS_Subset DEF InFlight
<1>2. SumOfSizes(hit) \in Nat /\ (hit = {} => SumOfSizes(hit) = 0)
  BY <1>1, SumStep
<1>3. CASE hit = {}
  <2>1. d = c
    BY <1>3 DEF ControllerAfterLoss
  <2>2. c.bytes_in_flight \in Int
    BY DEF Controllers
  <2>3. d.bytes_in_flight = c.bytes_in_flight - SumOfSizes(hit)
    BY <1>2, <1>3, <2>1, <2>2
  <2> QED BY <2>1, <2>3
<1>4. CASE hit # {}
  <2> DEFINE e == OnPacketsDiscarded(c, hit)
             t == Max({p.time_sent : p \in hit})
             f == OnCongestion(e, t, now)
  <2>1. /\ e \in Controllers
        /\ e.bytes_in_flight = c.bytes_in_flight - SumOfSizes(hit)
        /\ e.congestion_window = c.congestion_window
        /\ e.recovery_start_time = c.recovery_start_time
    <3> HIDE DEF hit
    <3> QED BY <1>2 DEF OnPacketsDiscarded, Controllers
  <2>2. PICK p \in hit : t = p.time_sent
    BY <1>1, <1>4, LatestTime
  <2>3. t \in Nat
    BY <1>1, <2>2 DEF SentPacket
  <2>4. f = OnPacketsLost(c, hit, now)
    BY DEF OnPacketsLost
  <2> HIDE DEF e, t
  <2>5. /\ f \in Controllers
        /\ f.bytes_in_flight = e.bytes_in_flight
        /\ \/ f = e
           \/ /\ f.recovery_start_time = now
              /\ e.recovery_start_time = NoTime \/ t > e.recovery_start_time
    BY <2>1, <2>3, CongestionOnce
  <2>6. CASE r.has_sample /\ SpansPersistentCongestion(hit, r)
    <3>1. d = OnPersistentCongestion(f)
      BY <1>4, <2>4, <2>6 DEF ControllerAfterLoss
    <3> HIDE DEF f, d
    <3>2. d \in Controllers /\ d.bytes_in_flight = f.bytes_in_flight
      <4>1. MinimumWindow \in Nat /\ MinimumWindow >= MinimumWindow
        BY SizesNat DEF MinimumWindow
      <4>2. d = [f EXCEPT !.congestion_window   = MinimumWindow,
                          !.recovery_start_time = NoTime]
        BY <3>1 DEF OnPersistentCongestion
      <4> QED BY <2>5, <4>1, <4>2 DEF Controllers
    <3>3. \E x, y \in hit : FarApart(x, y, r)
      <4> DEFINE first == CHOOSE x \in hit : \A y \in hit : x.pn <= y.pn
                 last == CHOOSE x \in hit : \A y \in hit : x.pn >= y.pn
      <4>1. FarApart(last, first, r)
        BY <2>6 DEF SpansPersistentCongestion, FarApart
      <4>2. last \in hit
        <5> DEFINE g == [x \in hit |-> x.pn]
        <5>1. g \in [hit -> Int]
          BY <1>1 DEF SentPacket
        <5> HIDE DEF hit
        <5>2. PICK x \in hit : \A y \in hit : g[y] <= g[x]
          <6> HIDE DEF g
          <6> QED BY <1>1, <1>4, <5>1, LargestExists
        <5>3. \A y \in hit : x.pn >= y.pn
          BY <1>1, <5>2 DEF SentPacket
        <5> QED BY <5>3
      <4>3. first \in hit
        <5> DEFINE g == [x \in hit |-> -(x.pn)]
        <5>1. g \in [hit -> Int]
          BY <1>1 DEF SentPacket
        <5> HIDE DEF hit
        <5>2. PICK x \in hit : \A y \in hit : g[y] <= g[x]
          <6> HIDE DEF g
          <6> QED BY <1>1, <1>4, <5>1, LargestExists
        <5>3. \A y \in hit : x.pn <= y.pn
          BY <1>1, <5>2 DEF SentPacket
        <5> QED BY <5>3
      <4> QED BY <4>1, <4>2, <4>3
    <3>4. \E x, y \in L : FarApart(x, y, r)
      BY <1>1, <3>3
    <3> QED BY <2>1, <2>5, <3>2, <3>4 DEF d
  <2>7. CASE ~(r.has_sample /\ SpansPersistentCongestion(hit, r))
    <3>1. d = f
      BY <1>4, <2>4, <2>7 DEF ControllerAfterLoss
    <3> HIDE DEF f, d
    <3>2. p \in L
      BY <1>1
    <3>3. CASE f = e
      BY <2>1, <2>5, <3>1, <3>3 DEF d
    <3>4. CASE f # e
      BY <2>1, <2>2, <2>5, <3>1, <3>2, <3>4 DEF d
    <3> QED BY <3>3, <3>4
  <2> QED BY <2>6, <2>7
<1> QED BY <1>3, <1>4

\* The controller is well formed, the outstanding packets of a space are
\* finitely many and sent in the past, and bytes_in_flight counts them.
FlightInv ==
    /\ controller \in Controllers
    /\ \A l \in Level : /\ IsFiniteSet(sent[l])
                        /\ \A p \in sent[l] : p.time_sent <= now
    /\ InFlightIsConserved

\* A step may shrink the window only as ReductionNeedsNewerPacket allows.
ReductionStep ==
    /\ controller'.congestion_window < controller.congestion_window
    /\ controller.recovery_start_time # NoTime
    => \E l \in Level : \E p, q \in sent[l] \ sent'[l] :
          \/ p.time_sent > controller.recovery_start_time
          \/ FarApart(p, q, rtt')

\* What leaves or enters flight at one level leaves the total right.
LEMMA ConservedAt ==
    ASSUME RInv, FlightInv, NEW l \in Level, NEW K \in SUBSET SentPacket,
           IsFiniteSet(K), sent' = [sent EXCEPT ![l] = K],
           controller'.bytes_in_flight + SumOfSizes(InFlight(sent[l]))
               = controller.bytes_in_flight + SumOfSizes(InFlight(K)),
           controller'.bytes_in_flight \in Int
    PROVE  InFlightIsConserved'
<1> DEFINE F(m) == SumOfSizes(InFlight(sent[m]))
           new == SumOfSizes(InFlight(K))
<1>1. ASSUME NEW m \in Level PROVE F(m) \in Nat
  <2>1. InFlight(sent[m]) \in SUBSET SentPacket /\ InFlight(sent[m]) \in SUBSET sent[m]
    BY DEF RInv, SpacesInv, InFlight
  <2>2. IsFiniteSet(InFlight(sent[m]))
    BY <2>1, FS_Subset DEF FlightInv
  <2> QED BY <2>1, <2>2, SumStep
<1>2. new \in Nat
  <2>1. InFlight(K) \in SUBSET SentPacket /\ InFlight(K) \in SUBSET K
    BY DEF InFlight
  <2>2. IsFiniteSet(InFlight(K))
    BY <2>1, FS_Subset
  <2> QED BY <2>1, <2>2, SumStep
<1>3. \A m \in Level : sent'[m] = IF m = l THEN K ELSE sent[m]
  BY DEF RInv, SpacesInv
<1>4. \A m \in Level : F(m)' = IF m = l THEN new ELSE F(m)
  BY <1>3
<1>5. controller.bytes_in_flight = F("INITIAL") + F("HANDSHAKE") + F("ONE_RTT")
  BY DEF FlightInv, InFlightIsConserved
<1>6. controller'.bytes_in_flight + F(l) = controller.bytes_in_flight + new
  OBVIOUS
<1>7. F("INITIAL") \in Nat /\ F("HANDSHAKE") \in Nat /\ F("ONE_RTT") \in Nat
  BY <1>1 DEF Level
<1>8. SUFFICES controller'.bytes_in_flight
                   = F("INITIAL")' + F("HANDSHAKE")' + F("ONE_RTT")'
  BY DEF InFlightIsConserved
<1> HIDE DEF F, new
<1>9. CASE l = "INITIAL"
  <2>1. /\ F("INITIAL")' = new /\ F("HANDSHAKE")' = F("HANDSHAKE")
        /\ F("ONE_RTT")' = F("ONE_RTT")
    BY <1>4, <1>9 DEF Level
  <2> QED BY <1>2, <1>5, <1>6, <1>7, <1>9, <2>1
<1>10. CASE l = "HANDSHAKE"
  <2>1. /\ F("INITIAL")' = F("INITIAL") /\ F("HANDSHAKE")' = new
        /\ F("ONE_RTT")' = F("ONE_RTT")
    BY <1>4, <1>10 DEF Level
  <2> QED BY <1>2, <1>5, <1>6, <1>7, <1>10, <2>1
<1>11. CASE l = "ONE_RTT"
  <2>1. /\ F("INITIAL")' = F("INITIAL") /\ F("HANDSHAKE")' = F("HANDSHAKE")
        /\ F("ONE_RTT")' = new
    BY <1>4, <1>11 DEF Level
  <2> QED BY <1>2, <1>5, <1>6, <1>7, <1>11, <2>1
<1> QED BY <1>9, <1>10, <1>11 DEF Level

\* Detecting losses after acknowledging A takes both sets out of flight, and
\* shrinks the window only when it may.
LEMMA DetectFlight ==
    ASSUME RInv, FlightInv, NEW l \in Level, NEW A \in SUBSET sent[l], NEW n,
           NEW c \in Controllers,
           c.bytes_in_flight = controller.bytes_in_flight - SumOfSizes(InFlight(A)),
           c.congestion_window >= controller.congestion_window,
           c.recovery_start_time = controller.recovery_start_time,
           NEW t, t = NoTime \/ \E p \in A : t = p.time_sent,
           DetectAndRemoveLost(l, sent[l] \ A, n, c, rtt', t), now' = now
    PROVE  FlightInv' /\ ReductionStep
<1> DEFINE P == sent[l] \ A
           L == LostPackets(P, n, rtt'.loss_delay)
           K == P \ L
           d == ControllerAfterLoss(c, L, rtt')
<1>1. /\ sent' = [sent EXCEPT ![l] = K]
      /\ controller' = IF t = NoTime THEN d ELSE OnCongestion(d, t, now)
  BY DEF DetectAndRemoveLost
<1>2. L \in SUBSET P
  BY DEF LostPackets
<1>3. now \in Nat /\ sent[l] \in SUBSET SentPacket /\ IsFiniteSet(sent[l])
  BY DEF RInv, SpacesInv, FlightInv
<1> HIDE DEF L
<1>4. /\ P \in SUBSET SentPacket /\ IsFiniteSet(P)
      /\ L \in SUBSET SentPacket /\ IsFiniteSet(L)
      /\ K \in SUBSET SentPacket /\ IsFiniteSet(K) /\ K \in SUBSET sent[l]
  <2>1. P \in SUBSET sent[l] /\ L \in SUBSET sent[l] /\ K \in SUBSET sent[l]
    BY <1>2
  <2> HIDE DEF P, K
  <2> QED BY <1>3, <2>1, FS_Subset
<1>5. /\ d \in Controllers
      /\ d.bytes_in_flight = c.bytes_in_flight - SumOfSizes(InFlight(L))
      /\ \/ /\ d.congestion_window = c.congestion_window
            /\ d.recovery_start_time = c.recovery_start_time
         \/ /\ d.recovery_start_time = now
            /\ \/ c.recovery_start_time = NoTime
               \/ \E p \in L : p.time_sent > c.recovery_start_time
         \/ \E p, q \in L : FarApart(p, q, rtt')
  BY <1>3, <1>4, LossResponse
<1>6. \A p \in A : p.time_sent \in Nat /\ p.time_sent <= now
  BY <1>3 DEF SentPacket, FlightInv
<1> HIDE DEF d
<1>7. /\ controller' \in Controllers
      /\ controller'.bytes_in_flight = d.bytes_in_flight
      /\ \/ controller' = d
         \/ /\ controller'.recovery_start_time = now
            /\ \E p \in A : \/ d.recovery_start_time = NoTime
                            \/ p.time_sent > d.recovery_start_time
  <2>1. CASE t = NoTime
    BY <1>1, <1>5, <2>1
  <2>2. CASE t # NoTime
    <3>1. PICK p \in A : t = p.time_sent
      BY <2>2
    <3>2. controller' = OnCongestion(d, t, now)
      BY <1>1, <2>2
    <3>3. t \in Nat
      BY <1>6, <3>1
    <3> QED BY <1>3, <1>5, <3>1, <3>2, <3>3, CongestionOnce
  <2> QED BY <2>1, <2>2
<1>8. /\ SumOfSizes(InFlight(sent[l])) = SumOfSizes(InFlight(A)) + SumOfSizes(InFlight(P))
      /\ SumOfSizes(InFlight(P)) = SumOfSizes(InFlight(L)) + SumOfSizes(InFlight(K))
      /\ SumOfSizes(InFlight(A)) \in Nat /\ SumOfSizes(InFlight(L)) \in Nat
      /\ SumOfSizes(InFlight(K)) \in Nat
  <2>1. /\ SumOfSizes(InFlight(sent[l])) = SumOfSizes(InFlight(A)) + SumOfSizes(InFlight(P))
        /\ SumOfSizes(InFlight(A)) \in Nat
    BY <1>3, FlightSplit
  <2>2. /\ SumOfSizes(InFlight(P)) = SumOfSizes(InFlight(L)) + SumOfSizes(InFlight(K))
        /\ SumOfSizes(InFlight(L)) \in Nat /\ SumOfSizes(InFlight(K)) \in Nat
    <3> HIDE DEF P
    <3> QED BY <1>2, <1>4, FlightSplit
  <2> QED BY <2>1, <2>2
<1>9. FlightInv'
  <2>1. InFlightIsConserved'
    <3> HIDE DEF P, K
    <3>1. controller.bytes_in_flight \in Int /\ controller'.bytes_in_flight \in Int
      BY <1>7 DEF FlightInv, Controllers
    <3>2. controller'.bytes_in_flight + SumOfSizes(InFlight(sent[l]))
               = controller.bytes_in_flight + SumOfSizes(InFlight(K))
      BY <1>5, <1>7, <1>8, <3>1
    <3> QED BY <1>1, <1>4, <3>1, <3>2, ConservedAt
  <2>2. ASSUME NEW m \in Level
        PROVE  /\ IsFiniteSet(sent'[m])
               /\ \A p \in sent'[m] : p.time_sent <= now'
    <3> HIDE DEF P, K
    <3>1. sent'[m] = IF m = l THEN K ELSE sent[m]
      BY <1>1 DEF RInv, SpacesInv
    <3> QED BY <1>4, <3>1 DEF FlightInv
  <2> QED BY <1>7, <2>1, <2>2 DEF FlightInv
<1>10. ReductionStep
  <2> SUFFICES ASSUME controller'.congestion_window < controller.congestion_window,
                      controller.recovery_start_time # NoTime
               PROVE  \E p, q \in sent[l] \ sent'[l] :
                         \/ p.time_sent > controller.recovery_start_time
                         \/ FarApart(p, q, rtt')
    BY DEF ReductionStep
  <2>1. sent'[l] = K /\ A \subseteq sent[l] \ sent'[l] /\ L \subseteq sent[l] \ sent'[l]
    <3>1. sent'[l] = K
      BY <1>1 DEF RInv, SpacesInv
    <3> QED BY <1>2, <3>1
  <2> HIDE DEF P, K
  <2>2. CASE \E p, q \in L : FarApart(p, q, rtt')
    BY <2>1, <2>2
  <2>3. CASE /\ d.recovery_start_time = now
             /\ \E p \in L : p.time_sent > c.recovery_start_time
    BY <2>1, <2>3
  <2>4. CASE /\ d.congestion_window = c.congestion_window
             /\ d.recovery_start_time = c.recovery_start_time
    <3>1. controller' # d
      BY <2>4, <1>5, <1>7 DEF FlightInv, Controllers
    <3>2. PICK p \in A : p.time_sent > d.recovery_start_time
      BY <1>7, <2>4, <3>1
    <3> QED BY <2>1, <2>4, <3>2
  <2> QED BY <1>5, <2>2, <2>3, <2>4
<1> QED BY <1>9, <1>10

\* Forgetting the packets of a level takes them all out of flight.
LEMMA DropFlight ==
    ASSUME RInv, FlightInv, NEW l \in Level, DropPackets(l), now' = now
    PROVE  FlightInv' /\ ReductionStep
<1> DEFINE F == InFlight(sent[l])
<1>1. /\ sent' = [sent EXCEPT ![l] = {}]
      /\ controller' = OnPacketsDiscarded(controller, F)
  BY DEF DropPackets
<1>2. F \in SUBSET SentPacket /\ F \in SUBSET sent[l] /\ InFlight({}) = {}
  BY DEF RInv, SpacesInv, InFlight
<1>3. IsFiniteSet(F) /\ IsFiniteSet({})
  BY <1>2, FS_Subset, FS_EmptySet DEF FlightInv
<1>4. SumOfSizes(F) \in Nat /\ SumOfSizes({}) = 0
  <2>1. SumOfSizes(F) \in Nat
    BY <1>2, <1>3, SumStep
  <2>2. SumOfSizes({}) = 0
    BY <1>3, SumStep
  <2> QED BY <2>1, <2>2
<1> HIDE DEF F
<1>5. /\ controller' \in Controllers
      /\ controller'.bytes_in_flight = controller.bytes_in_flight - SumOfSizes(F)
      /\ controller'.congestion_window = controller.congestion_window
      /\ controller.bytes_in_flight \in Int /\ controller.congestion_window \in Nat
  BY <1>1, <1>4 DEF OnPacketsDiscarded, FlightInv, Controllers
<1>6. InFlightIsConserved'
  <2>1. SumOfSizes(InFlight(sent[l])) = SumOfSizes(F)
    BY DEF F
  <2>2. SumOfSizes(InFlight({})) = 0
    BY <1>2, <1>4
  <2>3. controller'.bytes_in_flight + SumOfSizes(InFlight(sent[l]))
               = controller.bytes_in_flight + SumOfSizes(InFlight({}))
    BY <1>4, <1>5, <2>1, <2>2
  <2>4. controller'.bytes_in_flight \in Int
    BY <1>5 DEF Controllers
  <2> QED BY <1>1, <1>3, <2>3, <2>4, ConservedAt
<1>7. ASSUME NEW m \in Level
      PROVE  /\ IsFiniteSet(sent'[m])
             /\ \A p \in sent'[m] : p.time_sent <= now'
  <2>1. sent'[m] = IF m = l THEN {} ELSE sent[m]
    BY <1>1 DEF RInv, SpacesInv
  <2> QED BY <1>3, <2>1 DEF FlightInv
<1>8. FlightInv'
  BY <1>5, <1>6, <1>7 DEF FlightInv
<1>9. ReductionStep
  BY <1>5 DEF ReductionStep
<1> QED BY <1>8, <1>9

\* A new endpoint has nothing in flight.
LEMMA InitFlight == Init => FlightInv
<1> SUFFICES ASSUME Init PROVE FlightInv
  OBVIOUS
<1>1. controller \in Controllers /\ controller.bytes_in_flight = 0
  BY SizesNat DEF Init, NewController, Controllers, MinimumWindow, NoTime
<1>2. \A l \in Level : sent[l] = {}
  BY DEF Init
<1>3. SumOfSizes({}) = 0 /\ IsFiniteSet({}) /\ InFlight({}) = {}
  <2>1. IsFiniteSet({})
    BY FS_EmptySet
  <2>2. SumOfSizes({}) = 0
    BY <2>1, SumStep
  <2> QED BY <2>1, <2>2 DEF InFlight
<1>4. InFlightIsConserved
  <2>1. /\ sent["INITIAL"] = {} /\ sent["HANDSHAKE"] = {} /\ sent["ONE_RTT"] = {}
    BY <1>2 DEF Level
  <2>2. 0 = 0 + 0 + 0
    OBVIOUS
  <2> QED BY <1>1, <1>3, <2>1, <2>2 DEF InFlightIsConserved
<1> QED BY <1>1, <1>2, <1>3, <1>4 DEF FlightInv

\* Sending a packet puts it in flight once.
LEMMA SendFlight ==
    ASSUME RInv, FlightInv, NEW l \in Level, OnPacketSent(l)
    PROVE  FlightInv' /\ ReductionStep
<1>1. PICK b \in BOOLEAN, z \in Sizes :
        LET p == [pn |-> largest_sent[l] + 1, time_sent |-> now,
                  ack_eliciting |-> b, size |-> z]
        IN  /\ sent' = [sent EXCEPT ![l] = @ \cup {p}]
            /\ controller' = OnPacketSentC(controller, p)
  BY DEF OnPacketSent
<1> DEFINE new == [pn |-> largest_sent[l] + 1, time_sent |-> now,
                   ack_eliciting |-> b, size |-> z]
           K == sent[l] \cup {new}
<1>2. /\ sent' = [sent EXCEPT ![l] = K]
      /\ controller' = OnPacketSentC(controller, new)
      /\ now' = now
  BY <1>1 DEF OnPacketSent
<1>3. /\ new \in SentPacket /\ new.time_sent = now /\ now \in Nat
      /\ new.pn = largest_sent[l] + 1
  BY DurationsNat DEF RInv, SpacesInv, SentPacket
<1> HIDE DEF new
<1>4. new \notin sent[l]
  BY <1>3 DEF RInv, SpacesInv
<1>5. K \in SUBSET SentPacket /\ IsFiniteSet(K)
  <2>1. IsFiniteSet(sent[l])
    BY DEF FlightInv
  <2> QED BY <1>3, <2>1, FS_AddElement DEF RInv, SpacesInv
<1>6. /\ controller' \in Controllers
      /\ controller'.congestion_window = controller.congestion_window
      /\ controller'.bytes_in_flight = controller.bytes_in_flight
             + IF new.ack_eliciting THEN new.size ELSE 0
      /\ controller.bytes_in_flight \in Int /\ controller.congestion_window \in Nat
  BY <1>2, <1>3 DEF OnPacketSentC, FlightInv, Controllers, SentPacket
<1>7. /\ SumOfSizes(InFlight(K)) = SumOfSizes(InFlight(sent[l]))
             + IF new.ack_eliciting THEN new.size ELSE 0
      /\ SumOfSizes(InFlight(sent[l])) \in Nat
  <2>0. /\ InFlight(K) \in SUBSET SentPacket /\ InFlight(K) \in SUBSET K
        /\ InFlight(sent[l]) \in SUBSET K
    BY <1>5 DEF InFlight
  <2>1. IsFiniteSet(InFlight(K)) /\ IsFiniteSet(InFlight(sent[l]))
    BY <1>5, <2>0, FS_Subset
  <2>2. SumOfSizes(InFlight(sent[l])) \in Nat
    BY <1>5, <2>0, <2>1, SumStep
  <2>3. CASE new.ack_eliciting
    <3>1. new \in InFlight(K) /\ InFlight(K) \ {new} = InFlight(sent[l])
      BY <1>4, <2>3 DEF InFlight
    <3>2. SumOfSizes(InFlight(K)) = new.size + SumOfSizes(InFlight(K) \ {new})
      BY <2>0, <2>1, <3>1, SumRemove
    <3>3. SumOfSizes(InFlight(K)) = new.size + SumOfSizes(InFlight(sent[l]))
      BY <3>1, <3>2, Zenon
    <3> HIDE DEF K
    <3> QED BY <1>3, <2>2, <2>3, <3>3 DEF SentPacket
  <2>4. CASE ~new.ack_eliciting
    <3>1. InFlight(K) = InFlight(sent[l])
      BY <2>4 DEF InFlight
    <3> HIDE DEF K
    <3> QED BY <2>2, <2>4, <3>1
  <2> QED BY <2>3, <2>4
<1> HIDE DEF K
<1>8. InFlightIsConserved'
  <2>1. (IF new.ack_eliciting THEN new.size ELSE 0) \in Nat
    BY <1>3 DEF SentPacket
  <2>2. /\ controller'.bytes_in_flight + SumOfSizes(InFlight(sent[l]))
               = controller.bytes_in_flight + SumOfSizes(InFlight(K))
        /\ controller'.bytes_in_flight \in Int
    BY <1>6, <1>7, <2>1
  <2> QED BY <1>2, <1>5, <2>2, ConservedAt
<1>9. ASSUME NEW m \in Level
      PROVE  /\ IsFiniteSet(sent'[m])
             /\ \A p \in sent'[m] : p.time_sent <= now'
  <2>1. sent'[m] = IF m = l THEN K ELSE sent[m]
    BY <1>2 DEF RInv, SpacesInv
  <2>2. CASE m = l
    <3>1. \A p \in K : p \in sent[l] \/ p = new
      BY DEF K
    <3> QED BY <1>2, <1>3, <1>5, <2>1, <2>2, <3>1 DEF FlightInv
  <2>3. CASE m # l
    BY <1>2, <2>1, <2>3 DEF FlightInv
  <2> QED BY <2>2, <2>3
<1>10. FlightInv'
  BY <1>6, <1>8, <1>9 DEF FlightInv
<1>11. ReductionStep
  BY <1>6 DEF ReductionStep
<1> QED BY <1>10, <1>11

\* Every step keeps the count, and shrinks the window only when it may.
LEMMA NextFlight == RInv /\ FlightInv /\ [Next]_vars => FlightInv' /\ ReductionStep
<1> SUFFICES ASSUME RInv, FlightInv, [Next]_vars PROVE FlightInv' /\ ReductionStep
  OBVIOUS
<1>1. ASSUME NEW l \in Level, OnPacketSent(l) PROVE FlightInv' /\ ReductionStep
  BY <1>1, SendFlight
<1>2. ASSUME NEW l \in Level, RestartSpace(l) PROVE FlightInv' /\ ReductionStep
  BY <1>2, DropFlight DEF RestartSpace
<1>3. CASE Ack
  <2>0. PICK l \in Level :
          \E acked \in SUBSET sent[l], largest \in 0 .. largest_sent[l],
             ce \in BOOLEAN : OnAckReceived(l, acked, largest, ce)
    BY <1>3 DEF Ack
  <2>1. PICK acked \in SUBSET sent[l], largest \in 0 .. largest_sent[l],
             ce \in BOOLEAN : OnAckReceived(l, acked, largest, ce)
    BY <2>0
  <2> DEFINE top == Max({largest_acked[l], largest})
             c == OnPacketsAcked(controller, InFlight(acked))
             latest == Max({p.time_sent : p \in acked})
             t == IF ce THEN latest ELSE NoTime
  <2>2. /\ DetectAndRemoveLost(l, sent[l] \ acked, top, c, rtt', t)
        /\ now' = now /\ acked # {}
    BY <2>1 DEF OnAckReceived
  <2>3. acked \in SUBSET SentPacket /\ IsFiniteSet(acked)
    BY FS_Subset DEF RInv, SpacesInv, FlightInv
  <2>4. InFlight(acked) \in SUBSET SentPacket /\ IsFiniteSet(InFlight(acked))
    <3>1. InFlight(acked) \in SUBSET acked
      BY DEF InFlight
    <3> QED BY <2>3, <3>1, FS_Subset
  <2>5. t = NoTime \/ \E p \in acked : t = p.time_sent
    BY <2>2, <2>3, LatestTime
  <2>6. /\ c \in Controllers
        /\ c.bytes_in_flight = controller.bytes_in_flight - SumOfSizes(InFlight(acked))
        /\ c.congestion_window >= controller.congestion_window
        /\ c.recovery_start_time = controller.recovery_start_time
    BY <2>4, AckAll DEF FlightInv
  <2> HIDE DEF top, c, t
  <2> QED BY <2>2, <2>5, <2>6, DetectFlight
<1>4. CASE OnLossTimeout
  <2>1. PICK l \in LossLevels :
          DetectAndRemoveLost(l, sent[l], largest_acked[l], controller, rtt, NoTime)
    BY <1>4 DEF OnLossTimeout
  <2>2. l \in Level /\ rtt' = rtt /\ now' = now
    BY <1>4 DEF LossLevels, OnLossTimeout
  <2>3. DetectAndRemoveLost(l, sent[l] \ {}, largest_acked[l], controller, rtt', NoTime)
    <3>1. sent[l] \ {} = sent[l]
      OBVIOUS
    <3> QED BY <2>1, <2>2, <3>1
  <2>4. SumOfSizes(InFlight({})) = 0
    <3>1. InFlight({}) = {} /\ IsFiniteSet({})
      BY FS_EmptySet DEF InFlight
    <3>2. SumOfSizes({}) = 0
      BY <3>1, SumStep
    <3> QED BY <3>1, <3>2
  <2>5. /\ controller \in Controllers
        /\ controller.bytes_in_flight
               = controller.bytes_in_flight - SumOfSizes(InFlight({}))
        /\ controller.congestion_window >= controller.congestion_window
    BY <2>4 DEF FlightInv, Controllers
  <2> QED BY <2>2, <2>3, <2>5, DetectFlight
<1>5. CASE DiscardInitial
  BY <1>5, DropFlight DEF DiscardInitial, Level
<1>6. CASE ConfirmHandshake
  BY <1>6, DropFlight DEF ConfirmHandshake, Level
<1>7. CASE OnStaleAck \/ OnProbeTimeout \/ Tick \/ UNCHANGED vars
  <2>1. UNCHANGED <<sent, controller>> /\ (now' = now \/ now' = now + 1)
    BY <1>7 DEF OnStaleAck, OnProbeTimeout, Tick, vars, spaceVars
  <2>2. now \in Nat /\ \A l \in Level : \A p \in sent[l] : p.time_sent \in Nat
    BY DEF RInv, SpacesInv, SentPacket
  <2>3. \A l \in Level : \A p \in sent[l] : p.time_sent <= now'
    BY <2>1, <2>2 DEF FlightInv
  <2>4. InFlightIsConserved'
    BY <2>1 DEF FlightInv, InFlightIsConserved
  <2>5. ReductionStep
    BY <2>1 DEF ReductionStep, FlightInv, Controllers
  <2> QED BY <2>1, <2>3, <2>4, <2>5 DEF FlightInv
<1> QED BY <1>1, <1>2, <1>3, <1>4, <1>5, <1>6, <1>7 DEF Next

\* bytes_in_flight is the total size of the outstanding ack-eliciting packets
\* of the three spaces, however many packets of whatever sizes were sent,
\* acknowledged, lost or dropped.
THEOREM InFlightConserved == Spec => []InFlightIsConserved
<1>1. RInv /\ FlightInv => InFlightIsConserved
  BY DEF FlightInv
<1> QED BY InitRInv, NextRInv, InitFlight, NextFlight, <1>1, PTL DEF Spec

\* The window comes down again only in a step that resolves a packet sent after
\* the last reduction began, or two packets far enough apart to be persistent
\* congestion.
THEOREM ReductionsAreSpaced == Spec => ReductionNeedsNewerPacket
<1>1. RInv /\ FlightInv /\ [Next]_vars
      => [/\ controller'.congestion_window < controller.congestion_window
          /\ controller.recovery_start_time # NoTime
          => \E l \in Level : \E p, q \in sent[l] \ sent'[l] :
                \/ p.time_sent > controller.recovery_start_time
                \/ p.time_sent - q.time_sent
                     > (rtt'.pto + MaxAckDelay) * PersistentCongestionThreshold]_vars
  BY NextFlight DEF ReductionStep, FarApart
<1> QED BY InitRInv, NextRInv, InitFlight, NextFlight, <1>1, PTL
        DEF Spec, ReductionNeedsNewerPacket

-----------------------------------------------------------------------------
(* Timers. *)

\* Which keys are gone follows the handshake; the timer's inputs are well typed.
PhasesInv ==
    /\ discarded \subseteq {"INITIAL", "HANDSHAKE"}
    /\ handshake_confirmed <=> "HANDSHAKE" \in discarded
    /\ handshake_confirmed => "INITIAL" \in discarded
    /\ rtt.pto \in Nat
    /\ pto_count \in Nat

\* A new endpoint has its keys to come.
LEMMA InitPhases == Init => PhasesInv
<1> SUFFICES ASSUME Init PROVE PhasesInv
  OBVIOUS
<1>1. rtt.pto \in Nat /\ pto_count \in Nat
  BY DurationsNat DEF Init
<1>2. discarded = {} /\ ~handshake_confirmed
  BY DEF Init
<1> QED BY <1>1, <1>2 DEF PhasesInv

\* Every step keeps the phases in order.
LEMMA NextPhases == RInv /\ PhasesInv /\ [Next]_vars => PhasesInv'
<1> SUFFICES ASSUME RInv, PhasesInv, [Next]_vars PROVE PhasesInv'
  OBVIOUS
<1>1. ASSUME NEW l \in Level, OnPacketSent(l) PROVE PhasesInv'
  BY <1>1 DEF OnPacketSent, PhasesInv
<1>2. ASSUME NEW l \in Level, RestartSpace(l) PROVE PhasesInv'
  BY <1>2 DEF RestartSpace, DropPackets, PhasesInv
<1>3. CASE Ack
  <2>0. PICK l \in Level :
          \E acked \in SUBSET sent[l], largest \in 0 .. largest_sent[l],
             ce \in BOOLEAN : OnAckReceived(l, acked, largest, ce)
    BY <1>3 DEF Ack
  <2>1. PICK acked \in SUBSET sent[l], largest \in 0 .. largest_sent[l],
             ce \in BOOLEAN : OnAckReceived(l, acked, largest, ce)
    BY <2>0
  <2>2. /\ rtt' \in RttAfterAck(acked, largest) /\ pto_count' = 0
        /\ UNCHANGED <<discarded, handshake_confirmed>>
    BY <2>1 DEF OnAckReceived
  <2>3. rtt'.pto \in Nat
    BY <2>2, DurationsNat DEF RttAfterAck, PhasesInv
  <2> QED BY <2>2, <2>3 DEF PhasesInv
<1>4. CASE OnLossTimeout
  BY <1>4 DEF OnLossTimeout, PhasesInv
<1>5. CASE DiscardInitial
  BY <1>5 DEF DiscardInitial, DropPackets, PhasesInv
<1>6. CASE ConfirmHandshake
  BY <1>6 DEF ConfirmHandshake, DropPackets, PhasesInv
<1>7. CASE OnStaleAck \/ OnProbeTimeout \/ Tick \/ UNCHANGED vars
  <2>1. UNCHANGED <<discarded, handshake_confirmed, rtt>>
    BY <1>7 DEF OnStaleAck, OnProbeTimeout, Tick, vars, spaceVars
  <2>2. pto_count' = pto_count \/ pto_count' = pto_count + 1
    BY <1>7 DEF OnStaleAck, OnProbeTimeout, Tick, vars
  <2> QED BY <2>1, <2>2 DEF PhasesInv
<1> QED BY <1>1, <1>2, <1>3, <1>4, <1>5, <1>6, <1>7 DEF Next

\* Every variable keeps its type: in particular bytes_in_flight never goes
\* below zero, nor the window below its minimum.
THEOREM TypeCorrect == Spec => []TypeOK
<1>1. RInv /\ FlightInv /\ PhasesInv => TypeOK
  <2> SUFFICES ASSUME RInv, FlightInv, PhasesInv PROVE TypeOK
    OBVIOUS
  <2>1. ASSUME NEW l \in Level PROVE SumOfSizes(InFlight(sent[l])) \in Nat
    <3>1. InFlight(sent[l]) \in SUBSET SentPacket /\ InFlight(sent[l]) \in SUBSET sent[l]
      BY DEF RInv, SpacesInv, InFlight
    <3>2. IsFiniteSet(InFlight(sent[l]))
      BY <3>1, FS_Subset DEF FlightInv
    <3> QED BY <3>1, <3>2, SumStep
  <2>2. controller.bytes_in_flight \in Nat
    BY <2>1 DEF FlightInv, InFlightIsConserved, Level
  <2>3. controller.congestion_window >= MinimumWindow
    BY DEF FlightInv, Controllers
  <2>4. discarded \subseteq Level
    BY DEF PhasesInv, Level
  <2> QED BY <2>2, <2>3, <2>4 DEF TypeOK, RInv, SpacesInv, PhasesInv
<1> QED BY InitRInv, NextRInv, InitFlight, NextFlight, InitPhases, NextPhases,
           <1>1, PTL DEF Spec

\* A power of two is a natural number: it counts subsets.
LEMMA PowerOfTwo ==
    ASSUME NEW n \in Nat
    PROVE  2 ^ n \in Nat
<1>1. IsFiniteSet(1 .. n) /\ Cardinality(1 .. n) = n
  <2>1. IsFiniteSet(1 .. n) /\ Cardinality(1 .. n) = IF 1 > n THEN 0 ELSE n - 1 + 1
    BY FS_Interval
  <2> QED BY <2>1
<1>2. /\ Cardinality(SUBSET (1 .. n)) = 2 ^ n
      /\ IsFiniteSet(SUBSET (1 .. n))
  BY <1>1, FS_SUBSET
<1>3. Cardinality(SUBSET (1 .. n)) \in Nat
  BY <1>2, FS_CardinalityType
<1> QED BY <1>2, <1>3

\* A PTO duration is a natural number, the same at the two handshake levels.
LEMMA PtoDurationNat ==
    ASSUME PhasesInv, NEW l \in Level, NEW n \in Nat
    PROVE  /\ PtoDuration(l, n) \in Nat
           /\ l # "ONE_RTT" => PtoDuration(l, n) = PtoDuration("INITIAL", n)
<1> DEFINE base == rtt.pto + IF l = "ONE_RTT" THEN MaxAckDelay ELSE 0
           long == base * 2 ^ n
<1>1. base \in Nat
  BY DurationsNat DEF PhasesInv
<1>2. 2 ^ n \in Nat
  BY PowerOfTwo
<1>3. \A a, b \in Nat : a * b \in Nat
  OBVIOUS
<1>4. long \in Nat
  <2> HIDE DEF base
  <2> QED BY <1>1, <1>2, <1>3
<1>5. PtoDuration(l, n) = Min({long, MaxPto})
  BY DEF PtoDuration
<1>6. {long, MaxPto} \in SUBSET Nat /\ {long, MaxPto} # {}
  BY <1>4, DurationsNat
<1>7. PtoDuration(l, n) \in Nat
  <2> HIDE DEF long
  <2> QED BY <1>5, <1>6, MinOfNaturals
<1>8. ASSUME l # "ONE_RTT" PROVE PtoDuration(l, n) = PtoDuration("INITIAL", n)
  BY <1>8 DEF PtoDuration
<1> QED BY <1>7, <1>8

\* The time of the last packet that arms the PTO of a level.
LastSent(l) == Max({p.time_sent : p \in InFlight(sent[l])})

\* It is a time, and every PTO deadline counts from it.
LEMMA DeadlineSum ==
    ASSUME RInv, FlightInv, PhasesInv, NEW l \in PtoLevels, NEW n \in Nat
    PROVE  /\ LastSent(l) \in Nat
           /\ PtoDeadline(l, n) = LastSent(l) + PtoDuration(l, n)
           /\ PtoDeadline(l, n) \in Nat
<1> DEFINE F == InFlight(sent[l])
<1>1. l \in Level /\ F # {} /\ F \in SUBSET SentPacket /\ F \in SUBSET sent[l]
  BY DEF PtoLevels, InFlight, RInv, SpacesInv
<1>2. IsFiniteSet(F)
  BY <1>1, FS_Subset DEF FlightInv
<1>3. PICK p \in F : Max({q.time_sent : q \in F}) = p.time_sent
  <2> HIDE DEF F
  <2> QED BY <1>1, <1>2, LatestTime
<1>4. LastSent(l) \in Nat
  BY <1>1, <1>3 DEF LastSent, SentPacket
<1>5. PtoDeadline(l, n) = LastSent(l) + PtoDuration(l, n)
  BY DEF PtoDeadline, LastSent
<1>6. PtoDuration(l, n) \in Nat
  BY <1>1, PtoDurationNat
<1> QED BY <1>4, <1>5, <1>6

\* The earliest deadline is that of some level, and no level's is earlier.
LEMMA EarliestPtoExact ==
    ASSUME RInv, FlightInv, PhasesInv, PtoLevels # {}, NEW n \in Nat
    PROVE  /\ \E l \in PtoLevels : EarliestPto(n) = PtoDeadline(l, n)
           /\ \A l \in PtoLevels : EarliestPto(n) <= PtoDeadline(l, n)
<1> DEFINE T == {PtoDeadline(l, n) : l \in PtoLevels}
<1>1. T \in SUBSET Nat /\ T # {}
  BY DeadlineSum
<1>2. Min(T) \in T /\ \A y \in T : Min(T) <= y
  <2> HIDE DEF T
  <2> QED BY <1>1, MinOfNaturals
<1>3. EarliestPto(n) = Min(T)
  BY DEF EarliestPto
<1> QED BY <1>2, <1>3

\* The level picked after the backoff has doubled is one whose own timer has
\* expired and whose keys exist: only levels that share one duration are ever
\* armed together.
THEOREM ProbesAreDue == Spec => []ProbeAnswersExpiredTimer
<1>1. RInv /\ FlightInv /\ PhasesInv => ProbeAnswersExpiredTimer
  <2> SUFFICES ASSUME RInv, FlightInv, PhasesInv, TimerDue, LossLevels = {}
               PROVE  /\ ProbeLevels \cap discarded = {}
                      /\ PtoLevels # {} =>
                            \A l \in ProbeLevels : PtoDeadline(l, pto_count) <= now
                      /\ PtoLevels = {} => IsClient /\ ~handshake_confirmed
    BY DEF ProbeAnswersExpiredTimer
  <2>1. CASE PtoLevels = {}
    <3>1. IsClient /\ ~handshake_confirmed
      BY <2>1 DEF TimerDue, LossDetectionTimeout
    <3>2. ProbeLevels = {AntiDeadlockLevel}
      BY <2>1 DEF ProbeLevels
    <3>3. AntiDeadlockLevel \notin discarded
      BY <3>1 DEF AntiDeadlockLevel, PhasesInv
    <3> QED BY <2>1, <3>1, <3>2, <3>3
  <2>2. CASE PtoLevels # {}
    <3>1. /\ PtoLevels \subseteq Level \ discarded
          /\ ProbeLevels = {l \in PtoLevels :
                PtoDeadline(l, pto_count + 1) = EarliestPto(pto_count + 1)}
      BY <2>2 DEF PtoLevels, ProbeLevels
    <3>2. EarliestPto(pto_count) <= now
      BY <2>2 DEF TimerDue, LossDetectionTimeout
    <3>3. pto_count \in Nat /\ pto_count + 1 \in Nat /\ now \in Nat
      BY DEF PhasesInv, RInv, SpacesInv
    <3>4. ASSUME NEW l \in ProbeLevels PROVE PtoDeadline(l, pto_count) <= now
      <4>1. /\ l \in PtoLevels /\ l \in Level
            /\ PtoDeadline(l, pto_count + 1) = EarliestPto(pto_count + 1)
        BY <3>1
      <4>2. PICK k \in PtoLevels : EarliestPto(pto_count) = PtoDeadline(k, pto_count)
        BY <2>2, <3>3, EarliestPtoExact
      <4>3. CASE handshake_confirmed
        <5>1. \A m \in PtoLevels : m = "ONE_RTT"
          BY <3>1, <4>3 DEF PhasesInv, Level
        <5> QED BY <3>2, <4>1, <4>2, <5>1
      <4>4. CASE ~handshake_confirmed
        <5>1. l # "ONE_RTT" /\ k # "ONE_RTT" /\ k \in Level
          BY <4>1, <4>4 DEF PtoLevels
        <5> DEFINE D(n) == PtoDuration("INITIAL", n)
        <5>2. /\ D(pto_count) \in Nat /\ D(pto_count + 1) \in Nat
              /\ \A n \in {pto_count, pto_count + 1} :
                    PtoDuration(l, n) = D(n) /\ PtoDuration(k, n) = D(n)
          BY <3>3, <4>1, <5>1, PtoDurationNat DEF Level
        <5> HIDE DEF D
        <5>3. /\ LastSent(l) \in Nat /\ LastSent(k) \in Nat
              /\ \A n \in {pto_count, pto_count + 1} :
                    /\ PtoDeadline(l, n) = LastSent(l) + D(n)
                    /\ PtoDeadline(k, n) = LastSent(k) + D(n)
          BY <3>3, <4>1, <5>2, DeadlineSum
        <5>4. PtoDeadline(l, pto_count + 1) <= PtoDeadline(k, pto_count + 1)
          BY <2>2, <3>3, <4>1, EarliestPtoExact
        <5>5. LastSent(l) <= LastSent(k)
          BY <5>2, <5>3, <5>4
        <5>6. LastSent(k) + D(pto_count) <= now
          BY <3>2, <4>2, <5>3
        <5>7. LastSent(l) + D(pto_count) <= now
          BY <3>3, <5>2, <5>3, <5>5, <5>6
        <5> QED BY <5>3, <5>7
      <4> QED BY <4>3, <4>4
    <3> QED BY <2>2, <3>1, <3>4
  <2> QED BY <2>1, <2>2
<1> QED BY InitRInv, NextRInv, InitFlight, NextFlight, InitPhases, NextPhases,
           <1>1, PTL DEF Spec
=============================================================================
