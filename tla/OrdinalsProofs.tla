--------------------------- MODULE OrdinalsProofs ---------------------------
(***************************************************************************)
(* Facts about the sets that resizeDeployment works through, for any       *)
(* number of pods and any desired count.                                   *)
(***************************************************************************)
EXTENDS Ordinals, FiniteSetsExt, TLAPS, FiniteSetTheorems, WellFoundedInduction

\* A non-empty finite set of integers has a largest member.  There is no
\* induction here: strict inclusion of finite sets is well-founded, so one of
\* the sets "what lies above i" is minimal, and its i is the maximum.
LEMMA MaxMember ==
  ASSUME NEW S, \A x \in S : x \in Int, IsFiniteSet(S), S # {}
  PROVE  Max(S) \in S /\ \A y \in S : Max(S) >= y
<1> DEFINE Above(i) == {j \in S : j > i}
           T == {Above(i) : i \in S}
<1>1. T \subseteq FiniteSubsetsOf(S)
  BY FS_Subset DEF FiniteSubsetsOf
<1>2. PICK A \in T : \A B \in T : <<B, A>> \notin StrictSubsetOrdering(S)
  <2>1. T # {}
    OBVIOUS
  <2> QED
    BY <1>1, <2>1, FS_StrictSubsetOrderingWellFounded, WFMin, Zenon
<1>3. PICK i \in S : A = Above(i)
  OBVIOUS
<1>4. ASSUME NEW y \in S, y > i PROVE FALSE
  <2>1. Above(y) \subseteq Above(i) /\ y \in Above(i) /\ y \notin Above(y)
    BY <1>4
  <2>2. <<Above(y), Above(i)>> \in StrictSubsetOrdering(S)
    BY <2>1 DEF StrictSubsetOrdering
  <2>3. Above(y) \in T
    OBVIOUS
  <2> HIDE DEF T, Above
  <2> QED
    BY <1>2, <1>3, <2>2, <2>3
<1>5. \A y \in S : i >= y
  BY <1>4
<1> QED
  BY <1>5 DEF Max

\* ... and a smallest one.
LEMMA MinMember ==
  ASSUME NEW S, \A x \in S : x \in Int, IsFiniteSet(S), S # {}
  PROVE  Min(S) \in S /\ \A y \in S : Min(S) <= y
<1> DEFINE Below(i) == {j \in S : j < i}
           T == {Below(i) : i \in S}
<1>1. T \subseteq FiniteSubsetsOf(S)
  BY FS_Subset DEF FiniteSubsetsOf
<1>2. PICK A \in T : \A B \in T : <<B, A>> \notin StrictSubsetOrdering(S)
  <2>1. T # {}
    OBVIOUS
  <2> QED
    BY <1>1, <2>1, FS_StrictSubsetOrderingWellFounded, WFMin, Zenon
<1>3. PICK i \in S : A = Below(i)
  OBVIOUS
<1>4. ASSUME NEW y \in S, y < i PROVE FALSE
  <2>1. Below(y) \subseteq Below(i) /\ y \in Below(i) /\ y \notin Below(y)
    BY <1>4
  <2>2. <<Below(y), Below(i)>> \in StrictSubsetOrdering(S)
    BY <2>1 DEF StrictSubsetOrdering
  <2>3. Below(y) \in T
    OBVIOUS
  <2> HIDE DEF T, Below
  <2> QED
    BY <1>2, <1>3, <2>2, <2>3
<1>5. \A y \in S : i <= y
  BY <1>4
<1> QED
  BY <1>5 DEF Min

\* A grow of fewer pods than desired finds a name that no pod has.
LEMMA MissingNonempty ==
  ASSUME NEW S, IsFiniteSet(S), NEW d \in Nat, Cardinality(S) < d
  PROVE  Missing(S, d) # {}
<1>1. Cardinality(1..d) = d
  BY FS_Interval
<1>2. SUFFICES ASSUME 1..d \subseteq S PROVE FALSE
  BY DEF Missing
<1>3. Cardinality(1..d) <= Cardinality(S)
  BY <1>2, FS_Subset
<1> QED
  BY <1>1, <1>3, FS_CardinalityType

\* A shrink never reaches an ordinal that is within the desired count: below
\* it there are too few ordinals to put it at position desired or later.
LEMMA SurplusAbove ==
  ASSUME NEW S, \A x \in S : x \in Nat \ {0}, IsFiniteSet(S), NEW d \in Nat,
         NEW i \in Surplus(S, d)
  PROVE  i > d
<1> DEFINE Below == {j \in S : j < i}
<1>1. i \in S /\ Cardinality(Below) >= d
  BY DEF Surplus
<1>2. i \in Nat \ {0}
  BY <1>1
<1>3. Below \subseteq 1..(i - 1)
  BY <1>2
<1>4. IsFiniteSet(1..(i - 1)) /\ Cardinality(1..(i - 1)) = i - 1
  BY <1>2, FS_Interval
<1> HIDE DEF Below
<1>5. /\ IsFiniteSet(Below)
      /\ Cardinality(Below) <= Cardinality(1..(i - 1))
  BY <1>3, <1>4, FS_Subset
<1>6. Cardinality(Below) \in Nat
  BY <1>5, FS_CardinalityType
<1> QED
  BY <1>1, <1>2, <1>4, <1>5, <1>6

\* A shrink of more pods than desired finds one to remove: the last.
LEMMA SurplusNonempty ==
  ASSUME NEW S, \A x \in S : x \in Int, IsFiniteSet(S), NEW d \in Nat, Cardinality(S) > d
  PROVE  Surplus(S, d) # {}
<1> DEFINE i == Max(S)
<1>1. S # {}
  BY FS_EmptySet
<1>2. i \in S /\ \A y \in S : i >= y
  BY <1>1, MaxMember
<1> HIDE DEF i
<1>3. {j \in S : j < i} = S \ {i}
  BY <1>2
<1>4. Cardinality(S \ {i}) = Cardinality(S) - 1
  BY <1>2, FS_RemoveElement
<1>5. Cardinality(S) \in Nat
  BY FS_CardinalityType
<1>6. i \in Surplus(S, d)
  BY <1>2, <1>3, <1>4, <1>5 DEF Surplus
<1> QED
  BY <1>6

\* A shrink of no more pods than desired finds nothing.
LEMMA SurplusEmpty ==
  ASSUME NEW S, \A x \in S : x \in Int, IsFiniteSet(S), NEW d \in Nat, Cardinality(S) <= d
  PROVE  Surplus(S, d) = {}
<1> SUFFICES ASSUME NEW i \in S, Cardinality({j \in S : j < i}) >= d PROVE FALSE
  BY DEF Surplus
<1> DEFINE Below == {j \in S : j < i}
<1>1. i \in S /\ Cardinality(Below) >= d
  OBVIOUS
<1>2. Below \subseteq S \ {i}
  OBVIOUS
<1> HIDE DEF Below
<1>3. IsFiniteSet(S \ {i}) /\ Cardinality(S \ {i}) = Cardinality(S) - 1
  BY <1>1, FS_RemoveElement
<1>4. IsFiniteSet(Below) /\ Cardinality(Below) <= Cardinality(S \ {i})
  BY <1>2, <1>3, FS_Subset
<1>5. Cardinality(S) \in Nat /\ Cardinality(Below) \in Nat
  BY <1>4, FS_CardinalityType
<1> QED
  BY <1>1, <1>3, <1>4, <1>5

\* If there are more than desired, whoever removes as many as there are too many,
\* and nobody with a smaller ordinal than one that stays, removes the surplus.
LEMMA SurplusUnique ==
  ASSUME NEW S, \A x \in S : x \in Int, IsFiniteSet(S), NEW d \in Nat,
         NEW gone \in SUBSET S, Cardinality(gone) = Cardinality(S) - d,
         \A p \in gone, q \in S \ gone : q <= p
  PROVE  gone = Surplus(S, d)
<1> DEFINE stay == S \ gone
           Below(i) == {j \in S : j < i}
<1>1. IsFiniteSet(gone) /\ IsFiniteSet(stay)
  BY FS_Subset
<1>2. Cardinality(stay) = d
  <2>1. S \cap gone = gone
    OBVIOUS
  <2>2. Cardinality(S \ gone) = Cardinality(S) - Cardinality(S \cap gone)
    BY FS_Difference
  <2>3. Cardinality(S) \in Nat
    BY FS_CardinalityType
  <2> QED
    BY <2>1, <2>2, <2>3
<1>3. \A i \in S : IsFiniteSet(Below(i)) /\ Cardinality(Below(i)) \in Nat
  <2> TAKE i \in S
  <2>1. Below(i) \subseteq S
    OBVIOUS
  <2> HIDE DEF Below
  <2> QED
    BY <2>1, FS_Subset, FS_CardinalityType
<1>4. ASSUME NEW i \in gone PROVE Cardinality(Below(i)) >= d
  <2>1. stay \subseteq Below(i)
    OBVIOUS
  <2>2. IsFiniteSet(Below(i)) /\ Cardinality(Below(i)) \in Nat
    BY <1>3
  <2> HIDE DEF stay, Below
  <2>3. Cardinality(stay) <= Cardinality(Below(i))
    BY <2>1, <2>2, FS_Subset
  <2> QED
    BY <1>2, <2>2, <2>3
<1>5. ASSUME NEW i \in stay PROVE Cardinality(Below(i)) < d
  <2>1. Below(i) \subseteq stay \ {i}
    OBVIOUS
  <2>2. IsFiniteSet(stay \ {i}) /\ Cardinality(stay \ {i}) = Cardinality(stay) - 1
    BY <1>1, FS_RemoveElement
  <2>3. Cardinality(Below(i)) \in Nat
    BY <1>3
  <2> HIDE DEF stay, Below
  <2>4. Cardinality(Below(i)) <= Cardinality(stay \ {i})
    BY <2>1, <2>2, FS_Subset
  <2> QED
    BY <1>2, <2>2, <2>3, <2>4
<1>6. \A i \in S : i \in gone <=> Cardinality(Below(i)) >= d
  <2> TAKE i \in S
  <2>1. Cardinality(Below(i)) \in Nat
    BY <1>3
  <2> HIDE DEF Below
  <2> QED
    BY <1>4, <1>5, <2>1
<1> QED
  BY <1>6 DEF Surplus
=============================================================================
