---------------------------- MODULE HandlerProofs ----------------------------
(***************************************************************************)
(* Machine-checked lemmas about the handlers of OrgSync, ModelRegistry and *)
(* TrainingRequests, whatever the tables and the call: which workspace     *)
(* covers a department, what a step leaves of members, models and          *)
(* requests, that it keeps everything of its kind, and what an application *)
(* of the memberships has done.  AdminPagesProofs builds on them.          *)
(***************************************************************************)
EXTENDS OrgSync, ModelRegistry, TrainingRequests, SequenceTheorems, FiniteSetTheorems,
        WellFoundedInduction, TLAPS

-----------------------------------------------------------------------------
(* Numbers: the induction theorems of the library take an operator, so     *)
(* induction is had from a well-founded order of sets instead.             *)

LEMMA Least ==
    ASSUME NEW S \in SUBSET Nat, S # {}
    PROVE  \E m \in S : \A k \in S : m <= k
<1> DEFINE T == {0..k : k \in S}
<1>1. \A k \in S : 0..k \in FiniteSubsetsOf(Nat)
    <2> TAKE k \in S
    <2>1. k \in Int /\ 0 \in Int
        OBVIOUS
    <2>2. IsFiniteSet(0..k)
        BY <2>1, FS_Interval
    <2>3. 0..k \in SUBSET Nat
        OBVIOUS
    <2> QED BY <2>2, <2>3 DEF FiniteSubsetsOf
<1>2. T \subseteq FiniteSubsetsOf(Nat) /\ T # {}
    BY <1>1
<1> HIDE DEF T
<1>3. PICK x \in T : \A y \in T : <<y, x>> \notin StrictSubsetOrdering(Nat)
    BY <1>2, FS_StrictSubsetOrderingWellFounded, WFMin
<1>4. PICK m \in S : x = 0..m
    BY DEF T
<1>5. ASSUME NEW k \in S, k < m
      PROVE  FALSE
    <2>1. m \in 0..m /\ m \notin 0..k /\ 0..k \in T
        BY <1>5 DEF T
    <2>2. 0..k \subseteq 0..m /\ 0..k # 0..m /\ 0..m \in SUBSET Nat /\ 0..k \in SUBSET Nat
        BY <1>5, <2>1
    <2>3. <<0..k, 0..m>> \in StrictSubsetOrdering(Nat)
        BY <2>2 DEF StrictSubsetOrdering
    <2> QED BY <1>3, <1>4, <2>1, <2>3
<1> QED BY <1>5

LEMMA Induct ==
    ASSUME NEW S, 0 \in S, \A n \in Nat : n \in S => n + 1 \in S
    PROVE  Nat \subseteq S
<1> SUFFICES ASSUME NEW a \in Nat, a \notin S PROVE FALSE
    OBVIOUS
<1> DEFINE B == Nat \ S
<1>1. PICK m \in B : \A k \in B : m <= k
    BY Least
<1>2. m # 0 /\ m - 1 \in Nat /\ m - 1 \notin B
    BY <1>1
<1> QED BY <1>2

-----------------------------------------------------------------------------
(* The way up                                                              *)

\* Every department has a parent, which may be none.
Rises(s) == \A d \in Depts : ParentOf(s, d) \in Depts \cup {Nobody}

LEMMA StructureRises ==
    ASSUME NEW s, IsStructure(s)
    PROVE  Rises(s)
BY DEF Rises, IsStructure, ParentOf, Knows

Positions == (Depts \cup {Nobody}) \X SUBSET Depts
LeftOf(x) == Cardinality(Depts \ x[2])

LEMMA OnwardIsPlace ==
    ASSUME NEW s, Rises(s), NEW x \in Positions, x[1] # Nobody, x[1] \notin x[2]
    PROVE  LET y == <<ParentOf(s, x[1]), x[2] \cup {x[1]}>>
           IN  y \in Positions /\ LeftOf(y) \in Nat /\ LeftOf(x) = LeftOf(y) + 1
<1> DEFINE y == <<ParentOf(s, x[1]), x[2] \cup {x[1]}>>
<1>1. x[1] \in Depts /\ x[2] \in SUBSET Depts
    BY DEF Positions
<1>2. y \in Positions
    BY <1>1 DEF Positions, Rises
<1>3. Depts \ y[2] = (Depts \ x[2]) \ {x[1]}
    OBVIOUS
<1>4. IsFiniteSet(Depts \ x[2]) /\ x[1] \in Depts \ x[2]
    BY <1>1, DeptsAreFinite, FS_Subset
<1>5. IsFiniteSet(Depts \ y[2]) /\ Cardinality(Depts \ y[2]) = Cardinality(Depts \ x[2]) - 1
    <2>1. PICK S, a : S = Depts \ x[2] /\ a = x[1]
        OBVIOUS
    <2>2. IsFiniteSet(S) /\ a \in S
        BY <1>4, <2>1
    <2>3. IsFiniteSet(S \ {a}) /\ Cardinality(S \ {a}) = Cardinality(S) - 1
        BY <2>2, FS_RemoveElement
    <2> HIDE DEF y
    <2> QED BY <1>3, <2>1, <2>3
<1>6. LeftOf(y) \in Nat /\ LeftOf(x) \in Nat
    BY <1>4, <1>5, FS_CardinalityType DEF LeftOf
<1> HIDE DEF y
<1>7. LeftOf(x) = LeftOf(y) + 1
    BY <1>5, <1>6 DEF LeftOf
<1> QED BY <1>2, <1>6, <1>7 DEF y

LEMMA LeftIsNat ==
    ASSUME NEW x \in Positions
    PROVE  LeftOf(x) \in Nat
<1>1. Depts \ x[2] \in SUBSET Depts
    OBVIOUS
<1> QED BY <1>1, DeptsAreFinite, FS_Subset, FS_CardinalityType DEF LeftOf

\* The walk is defined: there is a function that satisfies its equation.
LEMMA WalkExists ==
    ASSUME NEW s, Rises(s), NEW marked
    PROVE  \E walk : walk = [x \in Positions |-> WalkOn(walk, s, marked, x)]
<1> DEFINE Fits(f, n) == \A x \in Positions : LeftOf(x) < n => f[x] = WalkOn(f, s, marked, x)
           G == {n \in Nat : \E f : f = [x \in Positions |-> f[x]] /\ Fits(f, n)}
<1>1. 0 \in G
    <2> DEFINE f == [x \in Positions |-> Nobody]
    <2>1. Fits(f, 0) /\ f = [x \in Positions |-> f[x]]
        BY LeftIsNat
    <2> QED BY <2>1
<1>2. ASSUME NEW n \in Nat, n \in G
      PROVE  n + 1 \in G
    <2>1. PICK f : f = [x \in Positions |-> f[x]] /\ Fits(f, n)
        BY <1>2
    <2> DEFINE g == [x \in Positions |-> WalkOn(f, s, marked, x)]
    <2>2. ASSUME NEW x \in Positions, LeftOf(x) < n + 1
          PROVE  g[x] = WalkOn(g, s, marked, x)
        <3>1. CASE x[1] = Nobody \/ x[1] \in x[2] \/ x[1] \in marked
            BY <3>1 DEF WalkOn
        <3>2. CASE ~(x[1] = Nobody \/ x[1] \in x[2] \/ x[1] \in marked)
            <4> DEFINE y == <<ParentOf(s, x[1]), x[2] \cup {x[1]}>>
            <4>1. y \in Positions /\ LeftOf(y) \in Nat /\ LeftOf(x) = LeftOf(y) + 1
                BY <3>2, OnwardIsPlace
            <4>2. f[y] = WalkOn(f, s, marked, y)
                BY <2>1, <2>2, <4>1
            <4>3. g[y] = WalkOn(f, s, marked, y)
                BY <4>1
            <4>4. g[x] = f[y] /\ WalkOn(g, s, marked, x) = g[y]
                BY <3>2 DEF WalkOn
            <4> QED BY <4>2, <4>3, <4>4
        <3> QED BY <3>1, <3>2
    <2>3. Fits(g, n + 1)
        BY <2>2
    <2>4. g = [x \in Positions |-> g[x]]
        OBVIOUS
    <2> HIDE DEF g, Fits
    <2> QED BY <2>3, <2>4
<1> HIDE DEF G
<1>3. Nat \subseteq G
    BY <1>1, <1>2, Induct
<1> DEFINE N == Cardinality(Depts) + 1
<1>4. N \in Nat /\ \A x \in Positions : LeftOf(x) < N
    <2>1. ASSUME NEW x \in Positions PROVE LeftOf(x) < N
        <3>1. Depts \ x[2] \in SUBSET Depts
            OBVIOUS
        <3>2. LeftOf(x) <= Cardinality(Depts) /\ Cardinality(Depts) \in Nat
            BY <3>1, DeptsAreFinite, FS_Subset, FS_CardinalityType DEF LeftOf
        <3> QED BY <3>2, LeftIsNat
    <2> QED BY <2>1, DeptsAreFinite, FS_CardinalityType
<1> HIDE DEF N
<1>5. PICK f : f = [x \in Positions |-> f[x]] /\ Fits(f, N)
    BY <1>3, <1>4 DEF G
<1>6. \A x \in Positions : f[x] = WalkOn(f, s, marked, x)
    BY <1>4, <1>5
<1>7. f = [x \in Positions |-> WalkOn(f, s, marked, x)]
    BY <1>5, <1>6
<1> QED BY <1>7

LEMMA WalkIsDefined ==
    ASSUME NEW s, Rises(s), NEW marked, NEW x \in Positions
    PROVE  Walk(s, marked)[x] = WalkOn(Walk(s, marked), s, marked, x)
<1>1. PICK w : w = [y \in Positions |-> WalkOn(w, s, marked, y)]
    BY WalkExists
<1>2. Walk(s, marked) = [y \in Positions |-> WalkOn(Walk(s, marked), s, marked, y)]
    BY <1>1 DEF Walk, Positions
<1> QED BY <1>2

\* It ends at a department that is marked, or nowhere.
LEMMA WalkEnds ==
    ASSUME NEW s, Rises(s), NEW marked, NEW x \in Positions
    PROVE  Walk(s, marked)[x] \in (marked \cap Depts) \cup {Nobody}
<1> DEFINE W == Walk(s, marked)
           G == {n \in Nat : \A y \in Positions : LeftOf(y) < n => W[y] \in (marked \cap Depts) \cup {Nobody}}
<1>1. 0 \in G
    BY LeftIsNat
<1>2. ASSUME NEW n \in Nat, n \in G
      PROVE  n + 1 \in G
    <2> SUFFICES ASSUME NEW y \in Positions, LeftOf(y) < n + 1
                 PROVE  W[y] \in (marked \cap Depts) \cup {Nobody}
        OBVIOUS
    <2>1. W[y] = WalkOn(W, s, marked, y)
        BY WalkIsDefined
    <2>2. CASE y[1] = Nobody \/ y[1] \in y[2] \/ y[1] \in marked
        BY <2>1, <2>2 DEF WalkOn, Positions
    <2>3. CASE ~(y[1] = Nobody \/ y[1] \in y[2] \/ y[1] \in marked)
        <3> DEFINE z == <<ParentOf(s, y[1]), y[2] \cup {y[1]}>>
        <3>1. z \in Positions /\ LeftOf(z) \in Nat /\ LeftOf(y) = LeftOf(z) + 1
            BY <2>3, OnwardIsPlace
        <3>2. W[y] = W[z]
            BY <2>1, <2>3 DEF WalkOn
        <3> HIDE DEF z
        <3> QED BY <1>2, <3>1, <3>2
    <2> QED BY <2>2, <2>3
<1> HIDE DEF G
<1>3. Nat \subseteq G
    BY <1>1, <1>2, Induct
<1>4. LeftOf(x) + 1 \in G /\ LeftOf(x) < LeftOf(x) + 1
    BY <1>3, LeftIsNat
<1> QED BY <1>4 DEF G

LEMMA FirstAboveIsMarked ==
    ASSUME NEW s, Rises(s), NEW marked, NEW d \in Depts
    PROVE  FirstAbove(s, d, marked) \in (marked \cap Depts) \cup {Nobody}
<1>1. <<ParentOf(s, d), {}>> \in Positions
    BY DEF Positions, Rises
<1> QED BY <1>1, WalkEnds DEF FirstAbove

-----------------------------------------------------------------------------
(* The n-th ancestor                                                       *)

UpOn(up, s, d, n) == IF n = 0 THEN d ELSE IF up[n - 1] = Nobody THEN Nobody ELSE ParentOf(s, up[n - 1])
Heights == 0..Cardinality(Depts)

IsUp(s, d, up) == up = [n \in Heights |-> UpOn(up, s, d, n)]

LEMMA UpExists ==
    ASSUME NEW s, NEW d
    PROVE  \E up : IsUp(s, d, up)
<1> DEFINE G == {k \in Nat : \E f : /\ f = [n \in Heights |-> f[n]]
                                    /\ \A n \in Heights : n < k => f[n] = UpOn(f, s, d, n)}
<1>0. Cardinality(Depts) \in Nat
    BY DeptsAreFinite, FS_CardinalityType
<1>1. 0 \in G
    <2> DEFINE f == [n \in Heights |-> Nobody]
    <2>1. f = [n \in Heights |-> f[n]] /\ \A n \in Heights : ~(n < 0)
        BY <1>0 DEF Heights
    <2> QED BY <2>1
<1>2. ASSUME NEW k \in Nat, k \in G
      PROVE  k + 1 \in G
    <2>1. PICK f : /\ f = [n \in Heights |-> f[n]]
                   /\ \A n \in Heights : n < k => f[n] = UpOn(f, s, d, n)
        BY <1>2
    <2> DEFINE g == [n \in Heights |-> UpOn(f, s, d, n)]
    <2>2. ASSUME NEW n \in Heights, n < k + 1
          PROVE  g[n] = UpOn(g, s, d, n)
        <3>1. CASE n = 0
            BY <3>1 DEF UpOn
        <3>2. CASE n # 0
            <4>1. n - 1 \in Heights /\ n - 1 < k
                BY <1>0, <2>2, <3>2 DEF Heights
            <4>2. g[n - 1] = f[n - 1]
                BY <2>1, <4>1
            <4> QED BY <3>2, <4>2 DEF UpOn
        <3> QED BY <3>1, <3>2
    <2>3. g = [n \in Heights |-> g[n]]
        OBVIOUS
    <2> HIDE DEF g
    <2> QED BY <2>2, <2>3
<1> HIDE DEF G
<1>3. Cardinality(Depts) + 1 \in G
    BY <1>0, <1>1, <1>2, Induct
<1>4. PICK f : /\ f = [n \in Heights |-> f[n]]
               /\ \A n \in Heights : n < Cardinality(Depts) + 1 => f[n] = UpOn(f, s, d, n)
    BY <1>3 DEF G
<1>5. \A n \in Heights : f[n] = UpOn(f, s, d, n)
    BY <1>0, <1>4 DEF Heights
<1>6. IsUp(s, d, f)
    <2>1. f = [n \in Heights |-> f[n]]
        BY <1>4
    <2> QED BY <1>5, <2>1 DEF IsUp
<1> QED BY <1>6

LEMMA UpIsDefined ==
    ASSUME NEW s, NEW d, NEW n \in Heights
    PROVE  Up(s, d)[n] = UpOn(Up(s, d), s, d, n)
<1>1. \E u : IsUp(s, d, u)
    BY UpExists
<1>2. Up(s, d) = CHOOSE u : IsUp(s, d, u)
    BY DEF Up, UpOn, Heights, IsUp
<1>3. IsUp(s, d, Up(s, d))
    BY <1>1, <1>2
<1> QED BY <1>3 DEF IsUp

-----------------------------------------------------------------------------
(* The nearest ancestor                                                    *)

\* The ancestors of d before the n-th, without d itself.
Below(s, d, n) == {Up(s, d)[m] : m \in 1..(n - 1)}

\* The walk stops at the n-th ancestor.
Stops(s, d, marked, n) == Up(s, d)[n] \in marked \cup {Nobody} \cup Below(s, d, n)

LEMMA UpIsPlace ==
    ASSUME NEW s, Rises(s), NEW d \in Depts, NEW n \in Heights
    PROVE  Up(s, d)[n] \in Depts \cup {Nobody}
<1> DEFINE U == Up(s, d)
           G == {k \in Nat : k \in Heights => U[k] \in Depts \cup {Nobody}}
<1>1. 0 \in G
    BY UpIsDefined DEF UpOn
<1>2. ASSUME NEW k \in Nat, k \in G
      PROVE  k + 1 \in G
    <2> SUFFICES ASSUME k + 1 \in Heights PROVE U[k + 1] \in Depts \cup {Nobody}
        OBVIOUS
    <2>1. k \in Heights /\ U[k] \in Depts \cup {Nobody}
        BY <1>2, DeptsAreFinite, FS_CardinalityType DEF Heights
    <2>2. U[k + 1] = UpOn(U, s, d, k + 1)
        BY UpIsDefined
    <2>3. U[k + 1] = IF U[k] = Nobody THEN Nobody ELSE ParentOf(s, U[k])
        BY <2>2 DEF UpOn
    <2> HIDE DEF U
    <2> QED BY <2>1, <2>3 DEF Rises
<1> HIDE DEF G
<1>3. Nat \subseteq G
    BY <1>1, <1>2, Induct
<1> QED BY <1>3, DeptsAreFinite, FS_CardinalityType DEF G, Heights

LEMMA UpNext ==
    ASSUME NEW s, NEW d, NEW n \in Nat, n + 1 \in Heights
    PROVE  /\ n \in Heights
           /\ Up(s, d)[n + 1] = IF Up(s, d)[n] = Nobody THEN Nobody ELSE ParentOf(s, Up(s, d)[n])
<1>1. Up(s, d)[n + 1] = UpOn(Up(s, d), s, d, n + 1)
    BY UpIsDefined
<1>2. n \in Heights
    BY DeptsAreFinite, FS_CardinalityType DEF Heights
<1> QED BY <1>1, <1>2 DEF UpOn

\* As long as it does not stop, the walk is at one ancestor after another.
LEMMA WalkFollowsUp ==
    ASSUME NEW s, Rises(s), NEW d \in Depts, NEW marked, NEW n \in Nat, n \in Heights,
           \A m \in 1..n : ~Stops(s, d, marked, m)
    PROVE  FirstAbove(s, d, marked) = Walk(s, marked)[<<ParentOf(s, Up(s, d)[n]), Below(s, d, n + 1)>>]
<1> DEFINE U == Up(s, d)
           W == Walk(s, marked)
           V(k) == Below(s, d, k)
           G == {k \in Nat : k <= n => FirstAbove(s, d, marked) = W[<<ParentOf(s, U[k]), V(k + 1)>>]}
<1>0. Cardinality(Depts) \in Nat
    BY DeptsAreFinite, FS_CardinalityType
<1>1. 0 \in G
    <2>1. U[0] = d
        BY <1>0, UpIsDefined DEF UpOn, Heights
    <2>2. V(1) = {}
        BY DEF Below
    <2> QED BY <2>1, <2>2 DEF FirstAbove
<1>2. ASSUME NEW k \in Nat, k \in G
      PROVE  k + 1 \in G
    <2> SUFFICES ASSUME k + 1 <= n PROVE FirstAbove(s, d, marked) = W[<<ParentOf(s, U[k + 1]), V(k + 2)>>]
        OBVIOUS
    <2>1. k \in Heights /\ k + 1 \in Heights /\ FirstAbove(s, d, marked) = W[<<ParentOf(s, U[k]), V(k + 1)>>]
        BY <1>0, <1>2 DEF Heights
    <2>2. U[k] # Nobody
        <3>1. CASE k = 0
            BY <2>1, <3>1, UpIsDefined, AccountIsOne DEF UpOn
        <3>2. CASE k # 0
            <4>1. k \in 1..n
                BY <3>2
            <4> QED BY <4>1 DEF Stops
        <3> QED BY <3>1, <3>2
    <2>3. U[k + 1] = ParentOf(s, U[k])
        BY <2>1, <2>2, UpNext
    <2>4. ~Stops(s, d, marked, k + 1)
        OBVIOUS
    <2>5. U[k + 1] # Nobody /\ U[k + 1] \notin marked /\ U[k + 1] \notin V(k + 1)
        BY <2>4 DEF Stops
    <2> DEFINE x == <<U[k + 1], V(k + 1)>>
    <2>6. x \in Positions
        <3>1. \A m \in 1..k : m \in Heights /\ U[m] \in Depts
            <4> TAKE m \in 1..k
            <4>1. m \in Heights /\ m \in 1..n
                BY <1>0, <2>1 DEF Heights
            <4>2. U[m] \in Depts \cup {Nobody} /\ U[m] # Nobody
                BY <4>1, UpIsPlace DEF Stops
            <4> QED BY <4>1, <4>2
        <3>2. V(k + 1) \subseteq Depts
            BY <3>1 DEF Below
        <3>3. U[k + 1] \in Depts \cup {Nobody}
            BY <2>1, UpIsPlace
        <3> QED BY <3>2, <3>3 DEF Positions
    <2>7. W[x] = WalkOn(W, s, marked, x)
        BY <2>6, WalkIsDefined
    <2>8. V(k + 2) = V(k + 1) \cup {U[k + 1]}
        <3>1. 1..(k + 1) = 1..k \cup {k + 1}
            OBVIOUS
        <3>2. k + 2 - 1 = k + 1 /\ k + 1 - 1 = k
            OBVIOUS
        <3> QED BY <3>1, <3>2 DEF Below
    <2> HIDE DEF U, W, V
    <2>9. WalkOn(W, s, marked, x) = W[<<ParentOf(s, U[k + 1]), V(k + 1) \cup {U[k + 1]}>>]
        BY <2>5 DEF WalkOn
    <2> QED BY <2>1, <2>3, <2>7, <2>8, <2>9
<1> HIDE DEF G
<1>3. n \in G
    BY <1>1, <1>2, Induct
<1> QED BY <1>3 DEF G

\* If the walk stops at a department that it has seen, or at none, there is nothing new above.
LEMMA NothingAbove ==
    ASSUME NEW s, Rises(s), NEW d \in Depts, NEW marked, NEW n \in Heights \ {0},
           \A m \in 1..(n - 1) : ~Stops(s, d, marked, m),
           Up(s, d)[n] \in Below(s, d, n) \cup {Nobody}, Nobody \notin marked,
           NEW m \in Heights \ {0}
    PROVE  Up(s, d)[m] \notin marked
<1> DEFINE U == Up(s, d)
           T == Below(s, d, n) \cup {Nobody}
           G == {k \in Nat : k + 1 \in Heights => U[k + 1] \in T}
<1>0. Cardinality(Depts) \in Nat
    BY DeptsAreFinite, FS_CardinalityType
<1>1. \A i \in 1..n : U[i] \in T
    BY <1>0 DEF Below, Heights
<1>2. 0 \in G
    BY <1>0, <1>1 DEF Heights
<1>3. ASSUME NEW k \in Nat, k \in G
      PROVE  k + 1 \in G
    <2> SUFFICES ASSUME k + 2 \in Heights PROVE U[k + 2] \in T
        OBVIOUS
    <2>1. k + 1 \in Heights /\ U[k + 1] \in T
        BY <1>0, <1>3 DEF Heights
    <2>2. U[k + 2] = IF U[k + 1] = Nobody THEN Nobody ELSE ParentOf(s, U[k + 1])
        BY UpNext, k + 1 + 1 = k + 2
    <2>3. CASE U[k + 1] = Nobody
        BY <2>2, <2>3
    <2>4. CASE U[k + 1] # Nobody
        <3>1. PICK i \in 1..(n - 1) : U[k + 1] = U[i]
            BY <2>1, <2>4 DEF Below
        <3>2. i \in Nat /\ i + 1 \in 1..n /\ i + 1 \in Heights
            BY <1>0 DEF Heights
        <3>3. U[i + 1] = IF U[i] = Nobody THEN Nobody ELSE ParentOf(s, U[i])
            BY <3>2, UpNext
        <3>4. U[k + 2] = U[i + 1]
            BY <2>2, <3>1, <3>3
        <3> QED BY <1>1, <3>2, <3>4
    <2> QED BY <2>3, <2>4
<1> HIDE DEF G
<1>4. Nat \subseteq G
    BY <1>2, <1>3, Induct
<1>5. m - 1 \in G /\ m - 1 + 1 = m
    BY <1>0, <1>4 DEF Heights
<1>6. U[m] \in T
    BY <1>5 DEF G
<1>7. ASSUME NEW e \in Below(s, d, n) PROVE e \notin marked
    <2>1. PICK i \in 1..(n - 1) : e = U[i]
        BY DEF Below
    <2> QED BY <2>1 DEF Stops
<1> QED BY <1>6, <1>7

\* The walk must stop within as many steps as there are departments, or end there.
LEMMA WalkRunsOut ==
    ASSUME NEW s, Rises(s), NEW d \in Depts, NEW marked,
           \A m \in 1..Cardinality(Depts) : ~Stops(s, d, marked, m)
    PROVE  FirstAbove(s, d, marked) = Nobody
<1> DEFINE U == Up(s, d)
           N == Cardinality(Depts)
           V == Below(s, d, N + 1)
           last == ParentOf(s, U[N])
<1>0. N \in Nat /\ N \in Heights
    BY DeptsAreFinite, FS_CardinalityType DEF Heights
<1>1. FirstAbove(s, d, marked) = Walk(s, marked)[<<last, V>>]
    BY <1>0, WalkFollowsUp
<1>2. \A m \in 1..N : U[m] \in Depts
    <2> TAKE m \in 1..N
    <2>1. m \in Heights /\ ~Stops(s, d, marked, m)
        BY <1>0 DEF Heights
    <2> QED BY <2>1, UpIsPlace DEF Stops
<1>3. U[N] \in Depts
    <2>1. CASE N = 0
        BY <1>0, <2>1, UpIsDefined DEF UpOn
    <2>2. CASE N # 0
        BY <1>0, <1>2, <2>2
    <2> QED BY <2>1, <2>2
<1>4. last \in Depts \cup {Nobody}
    BY <1>3 DEF Rises
<1>5. V = {U[m] : m \in 1..N}
    BY <1>0 DEF Below
<1>6. <<last, V>> \in Positions
    BY <1>2, <1>4, <1>5 DEF Positions
<1>7. last = Nobody \/ last \in V
    <2> SUFFICES ASSUME last \in Depts, last \notin V PROVE FALSE
        BY <1>4
    <2> DEFINE f == [i \in 1..(N + 1) |-> IF i = N + 1 THEN last ELSE U[i]]
    <2>1. f \in [1..(N + 1) -> Depts]
        BY <1>0, <1>2
    <2>2. IsFiniteSet(1..(N + 1)) /\ Cardinality(1..(N + 1)) = N + 1
        BY <1>0, FS_Interval
    <2>3. N < Cardinality(1..(N + 1))
        BY <1>0, <2>2
    <2> HIDE DEF f
    <2>4. PICK i, j \in 1..(N + 1) : i # j /\ f[i] = f[j]
        BY <2>1, <2>2, <2>3, DeptsAreFinite, FS_PigeonHole
    <2>5. ASSUME NEW a \in 1..(N + 1), NEW b \in 1..(N + 1), a < b, f[a] = f[b]
          PROVE  FALSE
        <3>1. a \in 1..N /\ a # N + 1
            BY <1>0, <2>5
        <3>2. f[a] = U[a]
            BY <3>1 DEF f
        <3>3. CASE b = N + 1
            <4>1. f[b] = last
                BY <3>3 DEF f
            <4> QED BY <1>5, <2>5, <3>1, <3>2, <4>1
        <3>4. CASE b # N + 1
            <4>1. b \in 1..N /\ a \in 1..(b - 1) /\ f[b] = U[b]
                BY <1>0, <2>5, <3>4 DEF f
            <4>2. U[b] \in Below(s, d, b)
                BY <2>5, <3>2, <4>1 DEF Below
            <4> QED BY <4>1, <4>2 DEF Stops
        <3> QED BY <3>3, <3>4
    <2> QED BY <1>0, <2>4, <2>5
<1>8. Walk(s, marked)[<<last, V>>] = WalkOn(Walk(s, marked), s, marked, <<last, V>>)
    BY <1>6, WalkIsDefined
<1> HIDE DEF last, V
<1> QED BY <1>1, <1>7, <1>8 DEF WalkOn

LEMMA WalkStops ==
    ASSUME NEW s, Rises(s), NEW d \in Depts, NEW marked, NEW n \in 1..Cardinality(Depts),
           \A m \in 1..(n - 1) : ~Stops(s, d, marked, m), Stops(s, d, marked, n)
    PROVE  FirstAbove(s, d, marked) = IF Up(s, d)[n] \in Below(s, d, n) \cup {Nobody} THEN Nobody
                                      ELSE Up(s, d)[n]
<1> DEFINE U == Up(s, d)
           W == Walk(s, marked)
           V == Below(s, d, n)
<1>0. Cardinality(Depts) \in Nat
    BY DeptsAreFinite, FS_CardinalityType
<1>1. n - 1 \in Nat /\ n - 1 \in Heights /\ n \in Heights /\ n - 1 + 1 = n
    BY <1>0 DEF Heights
<1>2. FirstAbove(s, d, marked) = W[<<ParentOf(s, U[n - 1]), V>>]
    BY <1>1, WalkFollowsUp
<1>3. U[n - 1] # Nobody
    <2>1. CASE n = 1
        BY <1>1, <2>1, UpIsDefined, AccountIsOne DEF UpOn
    <2>2. CASE n # 1
        <3>1. n - 1 \in 1..(n - 1)
            BY <1>0, <2>2
        <3> QED BY <3>1 DEF Stops
    <2> QED BY <2>1, <2>2
<1>4. U[n] = ParentOf(s, U[n - 1])
    BY <1>1, <1>3, UpNext
<1>5. \A m \in 1..(n - 1) : U[m] \in Depts
    <2> TAKE m \in 1..(n - 1)
    <2>1. m \in Heights /\ ~Stops(s, d, marked, m)
        BY <1>0 DEF Heights
    <2> QED BY <2>1, UpIsPlace DEF Stops
<1>6. <<U[n], V>> \in Positions
    <2>1. U[n] \in Depts \cup {Nobody}
        BY <1>1, UpIsPlace
    <2>2. V \subseteq Depts
        BY <1>5 DEF Below
    <2> QED BY <2>1, <2>2 DEF Positions
<1>7. W[<<U[n], V>>] = WalkOn(W, s, marked, <<U[n], V>>)
    BY <1>6, WalkIsDefined
<1> HIDE DEF U, W, V
<1>8. U[n] \in marked \cup {Nobody} \cup V
    BY DEF Stops, U, V
<1>9. WalkOn(W, s, marked, <<U[n], V>>) = IF U[n] \in V \cup {Nobody} THEN Nobody ELSE U[n]
    BY <1>8 DEF WalkOn
<1> QED BY <1>2, <1>4, <1>7, <1>9 DEF U, V

\* FirstAbove is the nearest marked ancestor, or there is none.
LEMMA FirstAboveIsNearest ==
    ASSUME NEW s, Rises(s), NEW d \in Depts, NEW marked \in SUBSET Depts
    PROVE  \/ /\ FirstAbove(s, d, marked) = Nobody
              /\ \A n \in 1..Cardinality(Depts) : Up(s, d)[n] \notin marked
           \/ \E n \in 1..Cardinality(Depts) :
                 /\ FirstAbove(s, d, marked) = Up(s, d)[n] /\ Up(s, d)[n] \in marked
                 /\ \A m \in 1..(n - 1) : Up(s, d)[m] \notin marked
<1> DEFINE N == Cardinality(Depts)
           U == Up(s, d)
<1>0. N \in Nat /\ Nobody \notin marked
    BY DeptsAreFinite, FS_CardinalityType, AccountIsOne
<1>1. CASE \A n \in 1..N : ~Stops(s, d, marked, n)
    <2>1. FirstAbove(s, d, marked) = Nobody
        BY <1>1, WalkRunsOut
    <2> QED BY <1>1, <2>1 DEF Stops
<1>2. CASE \E n \in 1..N : Stops(s, d, marked, n)
    <2> DEFINE S == {n \in 1..N : Stops(s, d, marked, n)}
    <2>1. PICK n \in S : \A k \in S : n <= k
        <3>1. S \in SUBSET Nat /\ S # {}
            BY <1>0, <1>2
        <3> HIDE DEF S
        <3> QED BY <3>1, Least
    <2>2. /\ n \in 1..N /\ Stops(s, d, marked, n) /\ \A m \in 1..(n - 1) : ~Stops(s, d, marked, m)
        <3>1. ASSUME NEW m \in 1..(n - 1) PROVE ~Stops(s, d, marked, m)
            <4>1. m \in 1..N /\ ~(n <= m)
                BY <1>0, <2>1
            <4> QED BY <2>1, <4>1
        <3> QED BY <2>1, <3>1
    <2>3. FirstAbove(s, d, marked) = IF U[n] \in Below(s, d, n) \cup {Nobody} THEN Nobody ELSE U[n]
        BY <2>2, WalkStops
    <2>4. CASE U[n] \in Below(s, d, n) \cup {Nobody}
        <3>1. n \in Heights \ {0} /\ \A m \in 1..N : m \in Heights \ {0}
            BY <1>0, <2>2 DEF Heights
        <3>2. \A m \in 1..N : U[m] \notin marked
            BY <1>0, <2>2, <2>4, <3>1, NothingAbove
        <3> QED BY <2>3, <2>4, <3>2
    <2>5. CASE U[n] \notin Below(s, d, n) \cup {Nobody}
        <3>1. U[n] \in marked
            BY <2>2, <2>5 DEF Stops
        <3>2. \A m \in 1..(n - 1) : U[m] \notin marked
            BY <2>2 DEF Stops
        <3> QED BY <2>2, <2>3, <2>5, <3>1, <3>2
    <2> QED BY <2>4, <2>5
<1> QED BY <1>1, <1>2

\* DepartmentCoverage gives a department the workspace that it belongs to, and no other.
LEMMA CoverageIsRight ==
    ASSUME NEW s, IsStructure(s), NEW link, DOMAIN link \subseteq Depts,
           NEW d \in DOMAIN s.parent, NEW w
    PROVE  BelongsTo(s, link, d, w)
           <=> d \in DOMAIN DepartmentCoverage(s, link) /\ DepartmentCoverage(s, link)[d] = w
<1> DEFINE M == Including(link)
           F(e) == FirstAbove(s, e, M)
           C == DepartmentCoverage(s, link)
           source == [e \in DOMAIN s.parent |-> IF e \in DOMAIN link THEN e ELSE F(e)]
<1>1. d \in Depts /\ d # Nobody /\ Rises(s) /\ M \in SUBSET Depts /\ Nobody \notin M
    BY StructureRises, AccountIsOne DEF IsStructure, Including
<1>2. /\ d \in DOMAIN C <=> source[d] # Nobody
      /\ d \in DOMAIN C => C[d] = link[source[d]].ws
    BY DEF DepartmentCoverage
<1>3. CASE d \in DOMAIN link
    BY <1>1, <1>2, <1>3 DEF BelongsTo
<1>4. CASE d \notin DOMAIN link
    <2>1. source[d] = F(d)
        BY <1>4
    <2>2. /\ BelongsTo(s, link, d, w) <=> IsNearest(s, link, d, w)
          /\ \A e : PassesOn(link, e) <=> e \in M
        BY <1>4 DEF BelongsTo, PassesOn, Including
    <2>3. CASE F(d) = Nobody /\ \A n \in 1..Cardinality(Depts) : Up(s, d)[n] \notin M
        BY <1>2, <2>1, <2>2, <2>3 DEF IsNearest
    <2>4. ASSUME NEW n \in 1..Cardinality(Depts), F(d) = Up(s, d)[n], Up(s, d)[n] \in M,
                 \A m \in 1..(n - 1) : Up(s, d)[m] \notin M
          PROVE  IsNearest(s, link, d, w) <=> d \in DOMAIN C /\ C[d] = w
        <3>1. F(d) # Nobody
            BY <1>1, <2>4
        <3>2. d \in DOMAIN C /\ C[d] = link[Up(s, d)[n]].ws
            BY <1>2, <2>1, <2>4, <3>1
        <3>3. ASSUME NEW k \in 1..Cardinality(Depts), Up(s, d)[k] \in M,
                     \A m \in 1..(k - 1) : Up(s, d)[m] \notin M
              PROVE  k = n
            <4>1. ~(k < n) /\ ~(n < k)
                <5>1. Cardinality(Depts) \in Nat
                    BY DeptsAreFinite, FS_CardinalityType
                <5> QED BY <2>4, <3>3, <5>1
            <4>2. Cardinality(Depts) \in Nat
                BY DeptsAreFinite, FS_CardinalityType
            <4> QED BY <4>1, <4>2
        <3> HIDE DEF C, F, M, source
        <3>4. IsNearest(s, link, d, w) <=> link[Up(s, d)[n]].ws = w
            BY <2>2, <2>4, <3>3 DEF IsNearest
        <3> QED BY <3>2, <3>4
    <2>5. \/ F(d) = Nobody /\ \A n \in 1..Cardinality(Depts) : Up(s, d)[n] \notin M
          \/ \E n \in 1..Cardinality(Depts) : /\ F(d) = Up(s, d)[n] /\ Up(s, d)[n] \in M
                                               /\ \A m \in 1..(n - 1) : Up(s, d)[m] \notin M
        BY <1>1, FirstAboveIsNearest
    <2> QED BY <2>2, <2>3, <2>4, <2>5
<1> QED BY <1>3, <1>4
-----------------------------------------------------------------------------
(* Calls                                                                   *)

Fields == {"tab", "cmd", "fn", "at", "user", "arg", "ws", "flag", "q", "verb", "was", "seen", "links",
           "want", "drop", "calm", "reply"}
Fns == OrgFns \cup ModelFns \cup TrainingFns

\* Where a handler can stand.
Stage(fn, at) ==
    \/ at \in {"sent", "back"}
    \/ fn = "syncBitrix" /\ at \in {"asked"} \cup Reading
    \/ fn = "applyWorkspaceMemberships" /\ at \in Reading
    \/ fn = "createWorkspaceFromDepartment" /\ at \in {"checked", "linking"}
    \/ fn = "linkWorkspaceDepartment" /\ at = "linking"
    \/ fn = "fetchAdminWorkspaces" /\ at = "listed"
    \/ fn = "actionAdminModel" /\ at \in {"write", "undeploy", "deploy"}
    \/ fn \in TrainingFns /\ at = "write"

IsCall(c) == DOMAIN c = Fields /\ c.fn \in Fns /\ Stage(c.fn, c.at)

\* What a step of a handler leaves of its call.
Continues(c, d) == IsCall(d) /\ d.fn = c.fn /\ d.cmd = c.cmd /\ d.tab = c.tab

-----------------------------------------------------------------------------
(* Members that Bitrix24 did not bring                                     *)

\* They are members of workspaces that exist.
Housed(o) == \A key \in DOMAIN o.member : IsLocal(o, key) => key[1] \in o.spaces

Kept(o, n) == \A key \in DOMAIN o.member :
                 IsLocal(o, key) => key \in DOMAIN n.member /\ n.member[key] = o.member[key]

Good(o) == DOMAIN o = OrgTables /\ Housed(o)
Follow(o, n) == Good(n) /\ Kept(o, n)

\* A table that is not about members may change.
LEMMA SameMembers ==
    ASSUME NEW o, NEW n, Good(o), DOMAIN n = OrgTables, n.member = o.member, n.spaces = o.spaces
    PROVE  Follow(o, n)
BY DEF Good, Follow, Housed, Kept, IsLocal

LEMMA Reflexive ==
    ASSUME NEW o, Good(o)
    PROVE  Follow(o, o)
BY DEF Good, Follow, Kept

LEMMA Transitive ==
    ASSUME NEW o, NEW n, NEW m, Follow(o, n), Follow(n, m), Good(o)
    PROVE  Follow(o, m)
BY DEF Follow, Kept, Good, IsLocal

LEMMA OtherTables ==
    ASSUME NEW o, Good(o), NEW v
    PROVE  /\ Follow(o, [o EXCEPT !.structure = v]) /\ Follow(o, [o EXCEPT !.hook = v])
           /\ Follow(o, [o EXCEPT !.locked = v]) /\ Follow(o, [o EXCEPT !.run = v])
           /\ Follow(o, [o EXCEPT !.link = v])
BY SameMembers DEF Good, OrgTables

LEMMA Answered ==
    ASSUME NEW d, NEW c, NEW r, IsCall(c), NEW x \in Answers(d, c, r)
    PROVE  /\ x.db = d /\ Continues(c, x.call) /\ x.call.at = "back" /\ x.call.reply = r
           /\ x.call.arg = c.arg /\ x.call.verb = c.verb /\ x.call.was = c.was
<1>1. PICK b : b = [c EXCEPT !.at = "back"] /\ x = [db |-> d, call |-> [b EXCEPT !.reply = r]]
    BY DEF Answers
<1>2. /\ b.at = "back" /\ b.fn = c.fn /\ b.cmd = c.cmd /\ b.tab = c.tab /\ DOMAIN b = DOMAIN c
      /\ b.arg = c.arg /\ b.verb = c.verb /\ b.was = c.was
    BY <1>1 DEF IsCall, Fields
<1>3. /\ x.call.at = "back" /\ x.call.fn = c.fn /\ x.call.cmd = c.cmd /\ x.call.tab = c.tab
      /\ x.call.reply = r /\ DOMAIN x.call = DOMAIN c
      /\ x.call.arg = c.arg /\ x.call.verb = c.verb /\ x.call.was = c.was
    BY <1>1, <1>2 DEF IsCall, Fields
<1> QED BY <1>1, <1>3 DEF IsCall, Continues, Stage

\* A call whose locals have changed, but not where it belongs.
Alike(b, c) == DOMAIN b = DOMAIN c /\ b.fn = c.fn /\ b.cmd = c.cmd /\ b.tab = c.tab /\ b.at = c.at

LEMMA OtherLocals ==
    ASSUME NEW c, DOMAIN c = Fields, NEW v
    PROVE  /\ Alike(c, [c EXCEPT !.calm = v]) /\ Alike(c, [c EXCEPT !.seen = v])
           /\ Alike(c, [c EXCEPT !.links = v]) /\ Alike(c, [c EXCEPT !.want = v])
           /\ Alike(c, [c EXCEPT !.drop = v]) /\ Alike(c, [c EXCEPT !.was = v])
           /\ Alike(c, [c EXCEPT !.reply = v])
BY DEF Alike, Fields

LEMMA AlikeIsTransitive ==
    ASSUME NEW b, NEW c, NEW d, Alike(b, c), Alike(c, d)
    PROVE  Alike(b, d)
BY DEF Alike

LEMMA Gone ==
    ASSUME NEW d, NEW c, NEW b, NEW at, IsCall(b), Alike(b, c), Stage(c.fn, at), NEW x \in Goes(d, c, at)
    PROVE  x.db = d /\ Continues(b, x.call) /\ x.call.at = at
BY DEF Goes, IsCall, Continues, Fields, Alike

-----------------------------------------------------------------------------
(* The handlers of OrgSync                                                 *)

Step(o, c, x) == Follow(o, x.db) /\ Continues(c, x.call)

LEMMA AnswerStep ==
    ASSUME NEW o, NEW n, NEW c, NEW r, IsCall(c), Follow(o, n), NEW x \in Answers(n, c, r)
    PROVE  Step(o, c, x)
BY Answered DEF Step

LEMMA RefuseStep ==
    ASSUME NEW o, NEW n, NEW c, IsCall(c), Follow(o, n), NEW x \in Refuses(n, c)
    PROVE  Step(o, c, x)
BY AnswerStep DEF Refuses

LEMMA GoStep ==
    ASSUME NEW o, NEW n, NEW b, NEW c, NEW at, IsCall(b), Alike(b, c), Stage(b.fn, at), Follow(o, n),
           NEW x \in Goes(n, c, at)
    PROVE  Step(o, b, x)
BY Gone DEF Step, Alike

LEMMA WebhookSteps ==
    ASSUME NEW o, Good(o), NEW c, IsCall(c),
           NEW x \in Status(o, c) \cup SaveWebhook(o, c) \cup Disconnect(o, c) \cup Test(o, c)
                     \cup Snapshot(o, c)
    PROVE  Step(o, c, x)
<1> DEFINE on == [o EXCEPT !.hook = TRUE]
           off == [o EXCEPT !.hook = FALSE]
<1>1. Follow(o, o) /\ Follow(o, on) /\ Follow(o, off)
    BY SameMembers, Reflexive DEF Good, OrgTables
<1>2. x \in Refuses(o, c) \/ \E r : x \in Answers(o, c, r) \/ x \in Answers(on, c, r) \/ x \in Answers(off, c, r)
    BY DEF Status, SaveWebhook, Disconnect, Test, Snapshot
<1> QED BY <1>1, <1>2, AnswerStep, RefuseStep

LEMMA ListAdminSteps ==
    ASSUME NEW o, Good(o), NEW c, IsCall(c), c.fn = "fetchAdminWorkspaces", c.at # "back",
           NEW x \in ListAdmin(o, c)
    PROVE  Step(o, c, x)
<1>1. Follow(o, o) /\ Stage(c.fn, "listed") /\ c.at \in {"sent", "listed"}
    BY Reflexive DEF IsCall, Stage, TrainingFns
<1>2. CASE c.at = "sent"
    <2>1. PICK v : x \in Goes(o, [c EXCEPT !.reply = v], "listed")
        BY <1>2 DEF ListAdmin
    <2>2. Alike(c, [c EXCEPT !.reply = v])
        BY OtherLocals DEF IsCall
    <2> QED BY <1>1, <2>1, <2>2, GoStep
<1>3. CASE c.at = "listed"
    <2>1. \E r : x \in Answers(o, c, r)
        BY <1>3 DEF ListAdmin
    <2> QED BY <1>1, <2>1, AnswerStep
<1> QED BY <1>1, <1>2, <1>3

LEMMA LinkSteps ==
    ASSUME NEW o, Good(o), NEW c, IsCall(c), c.at # "back", NEW x,
           \/ c.fn = "linkWorkspaceDepartment" /\ x \in LinkDepartment(o, c)
           \/ x \in UnlinkDepartment(o, c)
    PROVE  Step(o, c, x)
<1>1. Follow(o, o) /\ Alike(c, c)
    BY Reflexive DEF Alike
<1>2. \A link : Follow(o, [o EXCEPT !.link = link])
    BY SameMembers DEF Good, OrgTables
<1>3. c.fn = "linkWorkspaceDepartment" => c.at \in {"sent", "linking"} /\ Stage(c.fn, "linking")
    BY DEF IsCall, Stage, TrainingFns
<1>4. \/ x \in Refuses(o, c) \/ \E link, r : x \in Answers([o EXCEPT !.link = link], c, r)
      \/ Stage(c.fn, "linking") /\ x \in Goes(o, c, "linking")
    BY <1>3 DEF LinkDepartment, UnlinkDepartment, PutLink
<1> QED BY <1>1, <1>2, <1>4, AnswerStep, RefuseStep, GoStep

LEMMA SnapshotSteps ==
    ASSUME NEW o, Good(o), NEW c, IsCall(c), NEW x \in SyncAnswered(o, c), c.fn = "syncBitrix"
    PROVE  Step(o, c, x)
<1> DEFINE as(s, run) == [o EXCEPT !.structure = s, !.run = run, !.locked = FALSE]
           failed == [o EXCEPT !.run = "FAILED", !.locked = FALSE]
<1>1. ASSUME NEW s, NEW run PROVE Follow(o, as(s, run))
    <2> DEFINE one == [o EXCEPT !.structure = s]
               two == [one EXCEPT !.run = run]
               three == [two EXCEPT !.locked = FALSE]
    <2>1. Follow(o, one)
        BY OtherTables
    <2>2. Follow(one, two)
        BY <2>1, OtherTables DEF Follow
    <2>3. Follow(two, three)
        BY <2>2, OtherTables DEF Follow
    <2>4. as(s, run) = three
        OBVIOUS
    <2> HIDE DEF one, two, three, as
    <2> QED BY <2>1, <2>2, <2>3, <2>4, Transitive DEF Follow
<1>2. Follow(o, failed)
    <2> DEFINE one == [o EXCEPT !.run = "FAILED"]
               two == [one EXCEPT !.locked = FALSE]
    <2>1. Follow(o, one)
        BY OtherTables
    <2>2. Follow(one, two)
        BY <2>1, OtherTables DEF Follow
    <2>3. failed = two
        OBVIOUS
    <2> HIDE DEF one, two, failed
    <2> QED BY <2>1, <2>2, <2>3, Transitive
<1>3. \/ x \in Refuses(failed, c)
      \/ \E s \in Structures : \/ x \in Goes(as(s, "SUCCESS"), c, "departments")
                              \/ x \in Goes(as(DepartmentsFromUsers(s), "PARTIAL"), c, "departments")
    BY DEF SyncAnswered
<1>4. Stage(c.fn, "departments") /\ Alike(c, c)
    BY DEF Stage, Reading, Alike
<1> QED BY <1>1, <1>2, <1>3, <1>4, RefuseStep, GoStep

LEMMA ReadSteps ==
    ASSUME NEW o, Good(o), NEW c, IsCall(c), c.fn \in {"syncBitrix", "applyWorkspaceMemberships"},
           NEW x \in ReadDepartments(o, c) \cup ReadLinks(o, c) \cup ReadPeople(o, c) \cup ReadMembers(o, c)
    PROVE  Step(o, c, x)
<1>1. Follow(o, o)
    BY Reflexive
<1>2. \A at \in Reading : Stage(c.fn, at)
    BY DEF Stage, Reading
<1>3. \E b, at : Alike(c, b) /\ at \in Reading /\ x \in Goes(o, b, at)
    <2>1. CASE x \in ReadDepartments(o, c)
        BY <2>1 DEF ReadDepartments, Alike, Reading, IsCall, Fields
    <2>2. CASE x \in ReadLinks(o, c)
        BY <2>2 DEF ReadLinks, Alike, Reading, IsCall, Fields
    <2>3. CASE x \in ReadPeople(o, c)
        <3>1. \A w, s, l : Alike(c, [c EXCEPT !.want = w, !.seen = s, !.links = l])
            BY OtherLocals, AlikeIsTransitive DEF IsCall, Alike
        <3> QED BY <2>3, <3>1 DEF ReadPeople, Reading
    <2>4. CASE x \in ReadMembers(o, c)
        <3>1. \A w, d : Alike(c, [c EXCEPT !.want = w, !.drop = d])
            BY OtherLocals, AlikeIsTransitive DEF IsCall, Alike
        <3> QED BY <2>4, <3>1 DEF ReadMembers, Reading
    <2> QED BY <2>1, <2>2, <2>3, <2>4
<1> QED BY <1>1, <1>2, <1>3, GoStep

\* A row of another key, or of one that Bitrix24 brought, may come and go.
LEMMA OtherRows ==
    ASSUME NEW o, Good(o), NEW key, ~IsLocal(o, key), NEW role
    PROVE  /\ Follow(o, [o EXCEPT !.member = With(o.member, key, [role |-> role, source |-> "bitrix"])])
           /\ Follow(o, [o EXCEPT !.member = Without(o.member, key)])
<1> DEFINE put == [o EXCEPT !.member = With(o.member, key, [role |-> role, source |-> "bitrix"])]
           cut == [o EXCEPT !.member = Without(o.member, key)]
<1>1. /\ DOMAIN put = OrgTables /\ put.spaces = o.spaces
      /\ put.member = With(o.member, key, [role |-> role, source |-> "bitrix"])
      /\ DOMAIN cut = OrgTables /\ cut.spaces = o.spaces /\ cut.member = Without(o.member, key)
    BY DEF Good, OrgTables
<1>2. /\ DOMAIN put.member = DOMAIN o.member \cup {key} /\ put.member[key].source = "bitrix"
      /\ \A other \in DOMAIN o.member \ {key} : put.member[other] = o.member[other]
      /\ DOMAIN cut.member = DOMAIN o.member \ {key}
      /\ \A other \in DOMAIN o.member \ {key} : cut.member[other] = o.member[other]
    BY <1>1 DEF With, Without
<1> HIDE DEF put, cut
<1>3. Follow(o, put)
    BY <1>1, <1>2 DEF Good, Follow, Housed, Kept, IsLocal
<1>4. Follow(o, cut)
    BY <1>1, <1>2 DEF Good, Follow, Housed, Kept, IsLocal
<1> QED BY <1>3, <1>4 DEF put, cut

LEMMA ChangedLocals ==
    ASSUME NEW c, IsCall(c), NEW v
    PROVE  Continues(c, [c EXCEPT !.want = v]) /\ Continues(c, [c EXCEPT !.drop = v])
BY DEF Continues, IsCall, Fields

LEMMA RowSteps ==
    ASSUME NEW o, Good(o), NEW c, IsCall(c), c.at = "rows",
           c.fn \in {"syncBitrix", "applyWorkspaceMemberships"}, NEW x \in ApplyRows(o, c)
    PROVE  Step(o, c, x)
<1>1. Follow(o, o)
    BY Reflexive
<1>3. CASE x \in ApplyWanted(o, c)
    <2>0. PICK key \in DOMAIN c.want, found \in BOOLEAN :
             x = [db |-> IF found /\ IsLocal(o, key) THEN o
                         ELSE [o EXCEPT !.member = UpsertBitrixMember(@, key, c.want[key])],
                  call |-> [c EXCEPT !.want = Without(@, key)]]
        BY <1>3 DEF ApplyWanted
    <2>1. /\ x.db = IF found /\ IsLocal(o, key) THEN o
                       ELSE [o EXCEPT !.member = UpsertBitrixMember(@, key, c.want[key])]
          /\ x.call = [c EXCEPT !.want = Without(@, key)]
        BY <2>0
    <2>2. Follow(o, x.db)
        <3>1. CASE IsLocal(o, key)
            <4>1. UpsertBitrixMember(o.member, key, c.want[key]) = o.member
                BY <3>1 DEF IsLocal, UpsertBitrixMember
            <4>2. Follow(o, [o EXCEPT !.member = o.member])
                BY SameMembers DEF Good, OrgTables
            <4> QED BY <1>1, <2>1, <4>1, <4>2
        <3>2. CASE ~IsLocal(o, key)
            <4>1. UpsertBitrixMember(o.member, key, c.want[key])
                  = With(o.member, key, [role |-> c.want[key], source |-> "bitrix"])
                BY <3>2 DEF IsLocal, UpsertBitrixMember
            <4>2. x.db = [o EXCEPT !.member = With(o.member, key, [role |-> c.want[key], source |-> "bitrix"])]
                BY <2>1, <3>2, <4>1
            <4>3. Follow(o, [o EXCEPT !.member = With(o.member, key, [role |-> c.want[key], source |-> "bitrix"])])
                BY <3>2, OtherRows
            <4> QED BY <4>2, <4>3
        <3> QED BY <3>1, <3>2
    <2>3. Continues(c, [c EXCEPT !.want = Without(c.want, key)])
        BY ChangedLocals
    <2> QED BY <2>1, <2>2, <2>3 DEF Step
<1>4. CASE x \in DeleteUnwanted(o, c)
    <2>0. PICK key \in c.drop :
             x = [db |-> IF key \notin DOMAIN o.member \/ IsLocal(o, key) THEN o
                         ELSE [o EXCEPT !.member = Without(@, key)],
                  call |-> [c EXCEPT !.drop = @ \ {key}]]
        BY <1>4 DEF DeleteUnwanted
    <2>1. /\ x.db = IF key \notin DOMAIN o.member \/ IsLocal(o, key) THEN o
                       ELSE [o EXCEPT !.member = Without(@, key)]
          /\ x.call = [c EXCEPT !.drop = @ \ {key}]
        BY <2>0
    <2>2. Follow(o, x.db)
        <3>1. CASE IsLocal(o, key) \/ key \notin DOMAIN o.member
            BY <1>1, <2>1, <3>1
        <3>2. CASE ~(IsLocal(o, key) \/ key \notin DOMAIN o.member)
            <4>1. x.db = [o EXCEPT !.member = Without(o.member, key)]
                BY <2>1, <3>2
            <4>2. Follow(o, [o EXCEPT !.member = Without(o.member, key)])
                BY <3>2, OtherRows
            <4> QED BY <4>1, <4>2
        <3> QED BY <3>1, <3>2
    <2>3. Continues(c, [c EXCEPT !.drop = c.drop \ {key}])
        BY ChangedLocals
    <2> QED BY <2>1, <2>2, <2>3 DEF Step
<1>5. CASE x \in Answers(o, c, [Ok EXCEPT !.flag = TRUE])
    BY <1>1, <1>5, AnswerStep
<1> QED BY <1>3, <1>4, <1>5 DEF ApplyRows

LEMMA ApplySteps ==
    ASSUME NEW o, Good(o), NEW c, IsCall(c), c.fn \in {"syncBitrix", "applyWorkspaceMemberships"},
           c.at \in {"sent"} \cup Reading, NEW x \in ApplyMemberships(o, c)
    PROVE  Step(o, c, x)
<1>1. \/ x \in ReadDepartments(o, c) \cup ReadLinks(o, c) \cup ReadPeople(o, c) \cup ReadMembers(o, c)
      \/ c.at = "rows" /\ x \in ApplyRows(o, c)
    BY DEF ApplyMemberships, Reading
<1> QED BY <1>1, ReadSteps, RowSteps

LEMMA SyncSteps ==
    ASSUME NEW o, Good(o), NEW c, IsCall(c), c.fn = "syncBitrix", c.at # "back", NEW x \in Sync(o, c)
    PROVE  Step(o, c, x)
<1>1. c.at \in {"sent", "asked"} \cup Reading
    BY DEF IsCall, Stage, TrainingFns
<1>2. CASE c.at = "sent"
    <2>1. Follow(o, o) /\ Follow(o, [o EXCEPT !.locked = TRUE])
        BY SameMembers, Reflexive DEF Good, OrgTables
    <2>2. Stage(c.fn, "asked") /\ Alike(c, c)
        BY DEF Stage, Alike
    <2>3. x \in Refuses(o, c) \/ x \in Goes([o EXCEPT !.locked = TRUE], c, "asked")
        <3>1. x \in SyncStart(o, c)
            BY <1>2 DEF Sync, Reading
        <3> QED BY <3>1 DEF SyncStart
    <2> QED BY <2>1, <2>2, <2>3, RefuseStep, GoStep
<1>3. CASE c.at = "asked"
    <2>1. x \in SyncAnswered(o, c)
        BY <1>3 DEF Sync, Reading
    <2> QED BY <2>1, SnapshotSteps
<1>4. CASE c.at \in Reading
    <2>1. x \in ApplyMemberships(o, c)
        BY <1>4 DEF Sync, Reading
    <2> QED BY <1>4, <2>1, ApplySteps
<1> QED BY <1>1, <1>2, <1>3, <1>4

\* The workspace is new, so nobody was a member of it but by a row of Bitrix24.
LEMMA CreateSteps ==
    ASSUME NEW o, Good(o), NEW c, IsCall(c), c.fn = "createWorkspaceFromDepartment", c.at # "back",
           NEW x \in CreateFromDepartment(o, c)
    PROVE  Step(o, c, x)
<1>1. Follow(o, o)
    BY Reflexive
<1>2. c.at \in {"sent", "checked", "linking"} /\ Stage(c.fn, "checked") /\ Stage(c.fn, "linking") /\ Alike(c, c)
    BY DEF IsCall, Stage, Alike, TrainingFns
<1>3. CASE c.at = "sent"
    <2>1. x \in Goes(o, c, "checked") \/ x \in Refuses(o, c)
        BY <1>3 DEF CreateFromDepartment
    <2> QED BY <1>1, <1>2, <2>1, GoStep, RefuseStep
<1>4. CASE c.at = "checked"
    <2>1. PICK w \in Unbuilt(o) :
             x = [db |-> [o EXCEPT !.spaces = @ \cup {w},
                                   !.member = With(@, <<w, c.user>>, [role |-> "employee", source |-> "local"])],
                  call |-> [c EXCEPT !.at = "linking", !.ws = w]]
        BY <1>4 DEF CreateFromDepartment
    <2>2. /\ w \notin o.spaces
          /\ x.db = [o EXCEPT !.spaces = @ \cup {w},
                              !.member = With(@, <<w, c.user>>, [role |-> "employee", source |-> "local"])]
          /\ x.call = [c EXCEPT !.at = "linking", !.ws = w]
        BY <2>1 DEF Unbuilt
    <2> DEFINE key == <<w, c.user>>
               row == [role |-> "employee", source |-> "local"]
    <2>3. /\ DOMAIN x.db = OrgTables /\ x.db.spaces = o.spaces \cup {w}
          /\ x.db.member = With(o.member, key, row)
        BY <2>2 DEF Good, OrgTables
    <2>4. /\ DOMAIN x.db.member = DOMAIN o.member \cup {key}
          /\ \A other \in DOMAIN o.member \ {key} : x.db.member[other] = o.member[other]
        BY <2>3 DEF With
    <2>5. key[1] = w
        OBVIOUS
    <2> HIDE DEF key, row
    <2>6. ~IsLocal(o, key)
        BY <2>2, <2>5 DEF Good, Housed, IsLocal
    <2>7. Follow(o, x.db)
        BY <2>3, <2>4, <2>6, <2>5 DEF Good, Follow, Housed, Kept, IsLocal
    <2>8. Continues(c, x.call)
        BY <1>2, <2>2 DEF Continues, IsCall, Fields
    <2> QED BY <2>7, <2>8 DEF Step
<1>5. CASE c.at = "linking"
    <2>1. \A link : Follow(o, [o EXCEPT !.link = link])
        BY SameMembers DEF Good, OrgTables
    <2>2. \E link : x \in Answers([o EXCEPT !.link = link], c, Ok)
        BY <1>5 DEF CreateFromDepartment, PutLink
    <2> QED BY <2>1, <2>2, AnswerStep
<1> QED BY <1>2, <1>3, <1>4, <1>5

LEMMA OrgSteps ==
    ASSUME NEW o, Good(o), NEW c, IsCall(c), c.fn \in OrgFns, c.at # "back", NEW x \in OrgOutcomes(o, c)
    PROVE  Step(o, c, x)
<1>1. CASE c.fn = "syncBitrix"
    BY <1>1, SyncSteps DEF OrgOutcomes
<1>2. CASE c.fn = "applyWorkspaceMemberships"
    <2>1. c.at \in {"sent"} \cup Reading
        BY <1>2 DEF IsCall, Stage, TrainingFns
    <2>2. x \in ApplyMemberships(o, c)
        BY <1>2 DEF OrgOutcomes
    <2> QED BY <1>2, <2>1, <2>2, ApplySteps
<1>3. CASE c.fn = "createWorkspaceFromDepartment"
    BY <1>3, CreateSteps DEF OrgOutcomes
<1>4. CASE c.fn \in {"unlinkWorkspaceDepartment", "linkWorkspaceDepartment"}
    BY <1>4, LinkSteps DEF OrgOutcomes
<1>5. CASE c.fn \in {"fetchBitrixStatus", "saveBitrixWebhook", "disconnectBitrix", "testBitrix",
                     "fetchBitrixSnapshot"}
    BY <1>5, WebhookSteps DEF OrgOutcomes
<1>6. CASE c.fn = "fetchAdminWorkspaces"
    BY <1>6, ListAdminSteps DEF OrgOutcomes
<1> QED BY <1>1, <1>2, <1>3, <1>4, <1>5, <1>6 DEF OrgFns

LEMMA OrgStopSteps ==
    ASSUME NEW o, Good(o), NEW c, IsCall(c), NEW x \in OrgStops(o, c)
    PROVE  Step(o, c, x)
<1>1. Follow(o, o) /\ Follow(o, [o EXCEPT !.locked = FALSE])
    BY SameMembers, Reflexive DEF Good, OrgTables
<1>2. x \in Refuses(o, c) \/ x \in Refuses([o EXCEPT !.locked = FALSE], c) \/ x \in Answers(o, c, Ok)
    BY DEF OrgStops
<1> QED BY <1>1, <1>2, RefuseStep, AnswerStep

-----------------------------------------------------------------------------
(* The handlers of ModelRegistry                                           *)

Verbs == {"approve", "reject", "deploy", "disable"}

\* A command for a model has one; what is about to be written was allowed when the model was read.
ModelCall(c) ==
    /\ c.fn \in ModelFns => c.reply.rows \subseteq ModelLine
    /\ c.fn \in {"createAdminModel", "actionAdminModel"} => c.arg \in Models
    /\ c.fn = "actionAdminModel" =>
          /\ c.verb \in Verbs
          /\ c.at = "write" => c.verb # "deploy" /\ c.was \in Allowed(c.verb)

Registries == [Models -> ModelRow]

\* The models ms move, and the others stay.
Moved(r, n, ms, from, to) ==
    /\ ms \subseteq Models /\ \A m \in ms : r[m].status = from
    /\ \A m \in Models : n[m].status = IF m \in ms THEN to ELSE r[m].status

Advances(r, n) ==
    \/ \A m \in Models : n[m].status = r[m].status
    \/ \E m \in Models : \/ Moved(r, n, {m}, "unregistered", "quarantine")
                         \/ Moved(r, n, {m}, "quarantine", "approved")
                         \/ Moved(r, n, {m}, "quarantine", "rejected")
                         \/ Moved(r, n, {m}, "approved", "rejected")
                         \/ Moved(r, n, {m}, "approved", "deployed")
                         \/ Moved(r, n, {m}, "deployed", "disabled")
    \/ \E ms \in SUBSET Models : Moved(r, n, ms, "deployed", "approved")

ModelStep(r, c, x) ==
    x.db \in Registries /\ Advances(r, x.db) /\ Continues(c, x.call) /\ ModelCall(x.call)

LEMMA ModelAnswers ==
    ASSUME NEW r, NEW n \in Registries, Advances(r, n), NEW c, IsCall(c), ModelCall(c),
           NEW reply, reply.rows \subseteq ModelLine, NEW x \in Answers(n, c, reply)
    PROVE  ModelStep(r, c, x)
<1>1. /\ x.db = n /\ Continues(c, x.call) /\ x.call.at = "back" /\ x.call.reply = reply
      /\ x.call.arg = c.arg /\ x.call.verb = c.verb
    BY Answered
<1> QED BY <1>1 DEF ModelStep, ModelCall, Continues

LEMMA ModelRefuses ==
    ASSUME NEW r, NEW n \in Registries, Advances(r, n), NEW c, IsCall(c), ModelCall(c),
           NEW x \in Refuses(n, c)
    PROVE  ModelStep(r, c, x)
<1>1. Err.rows = {}
    BY DEF Err, Ok
<1> QED BY <1>1, ModelAnswers DEF Refuses

LEMMA ListSteps ==
    ASSUME NEW r \in Registries, NEW c, IsCall(c), ModelCall(c), NEW x \in ListModels(r, c)
    PROVE  ModelStep(r, c, x)
<1> DEFINE lines == {[id |-> m, status |-> r[m].status] : m \in {n \in Models : r[n].status # "unregistered"}}
<1>1. lines \subseteq ModelLine
    BY DEF Registries, ModelRow, ModelLine
<1>2. Rows(lines).rows = lines
    BY DEF Rows, Ok
<1>3. x \in Answers(r, c, Rows(lines))
    BY DEF ListModels
<1>4. Advances(r, r)
    BY DEF Advances
<1> HIDE DEF lines
<1> QED BY <1>1, <1>2, <1>3, <1>4, ModelAnswers

LEMMA CreateModelSteps ==
    ASSUME NEW r \in Registries, NEW c, IsCall(c), ModelCall(c), c.fn = "createAdminModel",
           NEW x \in CreateModel(r, c)
    PROVE  ModelStep(r, c, x)
<1> DEFINE n == [r EXCEPT ![c.arg].status = "quarantine"]
<1>1. c.arg \in Models
    BY DEF ModelCall
<1>2. CASE r[c.arg].status # "unregistered"
    BY <1>2, ModelRefuses DEF CreateModel, Advances
<1>3. CASE r[c.arg].status = "unregistered"
    <2>1. n \in Registries /\ \A m \in Models : n[m].status = IF m = c.arg THEN "quarantine" ELSE r[m].status
        BY <1>1 DEF Registries, ModelRow, ModelStatus
    <2>2. Moved(r, n, {c.arg}, "unregistered", "quarantine")
        BY <1>1, <1>3, <2>1 DEF Moved
    <2>3. Advances(r, n)
        BY <1>1, <2>2 DEF Advances
    <2>4. x \in Answers(n, c, Ok) /\ Ok.rows = {}
        BY <1>3 DEF CreateModel, Ok
    <2> HIDE DEF n
    <2> QED BY <2>1, <2>3, <2>4, ModelAnswers
<1> QED BY <1>2, <1>3

LEMMA ActionSteps ==
    ASSUME NEW r \in Registries, NEW c, IsCall(c), ModelCall(c), c.fn = "actionAdminModel", c.at # "back",
           NEW x \in Action(r, c)
    PROVE  ModelStep(r, c, x)
<1>1. c.arg \in Models /\ c.verb \in Verbs
    BY DEF ModelCall
<1>2. c.at \in {"sent", "write", "undeploy", "deploy"}
    BY DEF IsCall, Stage, TrainingFns
<1>3. Advances(r, r)
    BY DEF Advances
<1>4. CASE c.at = "sent"
    <2> DEFINE b == [c EXCEPT !.was = r[c.arg].status]
    <2>1. x \in ActionRead(r, c)
        BY <1>4 DEF Action
    <2>2. CASE r[c.arg].status \notin Allowed(c.verb)
        BY <1>3, <2>1, <2>2, ModelRefuses DEF ActionRead
    <2>3. CASE r[c.arg].status \in Allowed(c.verb)
        <3>1. PICK at \in {"write", "undeploy", "deploy"} :
                 x \in Goes(r, b, at) /\ (at = "write" => c.verb # "deploy")
            BY <2>1, <2>3 DEF ActionRead
        <3>2. Alike(c, b)
            BY OtherLocals DEF IsCall
        <3>3. Stage(b.fn, at)
            BY <3>1, <3>2 DEF Stage, Alike
        <3>4. /\ b.arg = c.arg /\ b.verb = c.verb /\ b.was = r[c.arg].status /\ b.reply = c.reply
              /\ DOMAIN b = Fields
            BY DEF IsCall, Fields
        <3> HIDE DEF b
        <3>5. x.db = r /\ Continues(c, x.call) /\ x.call.at = at
            BY <3>1, <3>2, <3>3, Gone
        <3>6. /\ x.call.arg = c.arg /\ x.call.verb = c.verb /\ x.call.was = r[c.arg].status
              /\ x.call.reply = c.reply
            BY <3>1, <3>4 DEF Goes, Fields
        <3>7. ModelCall(x.call)
            BY <1>1, <2>3, <3>1, <3>5, <3>6 DEF ModelCall, Continues
        <3> QED BY <1>3, <3>5, <3>7 DEF ModelStep
    <2> QED BY <2>2, <2>3
<1>5. CASE c.at = "write"
    <2> DEFINE n == [r EXCEPT ![c.arg].status = Target(c.verb)]
    <2>1. x \in SetStatus(r, c)
        BY <1>5 DEF Action
    <2>2. CASE r[c.arg].status # c.was
        BY <1>3, <2>1, <2>2, ModelRefuses DEF SetStatus
    <2>3. CASE r[c.arg].status = c.was
        <3>1. \/ c.verb = "approve" /\ c.was = "quarantine" /\ Target(c.verb) = "approved"
              \/ c.verb = "reject" /\ c.was \in {"quarantine", "approved"} /\ Target(c.verb) = "rejected"
              \/ c.verb = "disable" /\ c.was = "deployed" /\ Target(c.verb) = "disabled"
            BY <1>1, <1>5 DEF ModelCall, Verbs, Allowed, Target
        <3>2. n \in Registries /\ \A m \in Models : n[m].status = IF m = c.arg THEN Target(c.verb) ELSE r[m].status
            BY <1>1, <3>1 DEF Registries, ModelRow, ModelStatus
        <3>3. Moved(r, n, {c.arg}, c.was, Target(c.verb))
            BY <1>1, <2>3, <3>2 DEF Moved
        <3>4. Advances(r, n)
            BY <1>1, <3>1, <3>3 DEF Advances
        <3>5. x \in Answers(n, c, Ok) /\ Ok.rows = {}
            BY <2>1, <2>3 DEF SetStatus, Ok
        <3> HIDE DEF n
        <3> QED BY <3>2, <3>4, <3>5, ModelAnswers
    <2> QED BY <2>2, <2>3
<1>6. CASE c.at = "undeploy"
    <2> DEFINE out == Rivals(r, c)
               n == [m \in Models |-> IF m \in Rivals(r, c)
                                      THEN [status |-> "approved", alias |-> Nobody] ELSE r[m]]
    <2>1. x \in Goes(n, c, "deploy")
        BY <1>6 DEF Action, UndeployPurpose
    <2>2. n \in Registries
        BY DEF Registries, ModelRow, ModelStatus
    <2>3. Moved(r, n, out, "deployed", "approved")
        BY DEF Moved, Rivals
    <2>4. Advances(r, n)
        <3>1. out \in SUBSET Models
            BY DEF Rivals
        <3> QED BY <2>3, <3>1 DEF Advances
    <2>5. Stage(c.fn, "deploy") /\ Alike(c, c)
        BY DEF Stage, Alike
    <2> HIDE DEF n, out
    <2>6. x.db = n /\ Continues(c, x.call) /\ x.call.at = "deploy"
        BY <2>1, <2>5, Gone
    <2>7. x.call.arg = c.arg /\ x.call.verb = c.verb /\ x.call.reply = c.reply
        BY <2>1 DEF Goes, IsCall, Fields
    <2> QED BY <2>2, <2>4, <2>6, <2>7 DEF ModelStep, ModelCall, Continues
<1>7. CASE c.at = "deploy"
    <2> DEFINE n == [r EXCEPT ![c.arg] = [status |-> "deployed", alias |-> AliasOf(c.arg)]]
    <2>1. x \in SetDeployed(r, c)
        BY <1>7 DEF Action
    <2>2. CASE r[c.arg].status \notin {"approved", "deployed"}
        BY <1>3, <2>1, <2>2, ModelRefuses DEF SetDeployed
    <2>3. CASE r[c.arg].status \in {"approved", "deployed"}
        <3>1. AliasOf(c.arg) \in Exclusive \cup Models
            BY <1>1, PurposesKnown DEF AliasOf, Exclusive, Purposes
        <3>2. n \in Registries /\ \A m \in Models : n[m].status = IF m = c.arg THEN "deployed" ELSE r[m].status
            BY <1>1, <3>1 DEF Registries, ModelRow, ModelStatus
        <3>3. r[c.arg].status = "approved" => Moved(r, n, {c.arg}, "approved", "deployed")
            BY <1>1, <3>2 DEF Moved
        <3>4. Advances(r, n)
            BY <1>1, <2>3, <3>2, <3>3 DEF Advances
        <3>5. x \in Answers(n, c, Ok) /\ Ok.rows = {}
            BY <2>1, <2>3 DEF SetDeployed, Ok
        <3> HIDE DEF n
        <3> QED BY <3>2, <3>4, <3>5, ModelAnswers
    <2> QED BY <2>2, <2>3
<1> QED BY <1>2, <1>4, <1>5, <1>6, <1>7

LEMMA ModelSteps ==
    ASSUME NEW r \in Registries, NEW c, IsCall(c), ModelCall(c), c.fn \in ModelFns, c.at # "back",
           NEW x \in ModelOutcomes(r, c)
    PROVE  ModelStep(r, c, x)
<1>1. CASE c.fn = "listAdminModels"
    BY <1>1, ListSteps DEF ModelOutcomes
<1>2. CASE c.fn = "createAdminModel"
    BY <1>2, CreateModelSteps DEF ModelOutcomes
<1>3. CASE c.fn = "actionAdminModel"
    BY <1>3, ActionSteps DEF ModelOutcomes
<1> QED BY <1>1, <1>2, <1>3 DEF ModelFns

-----------------------------------------------------------------------------
(* The handlers of TrainingRequests                                        *)

\* What is about to be written was allowed when the request was read.
TrainingCall(c) == c.fn \in TrainingFns /\ c.at = "write" => c.was \in {"draft", "submitted"}

\* The step that overturns a decision.
Late(r, c, d) == /\ c.arg = r /\ c.at = "write" /\ c.was \in {"draft", "submitted"}
                 /\ d.at = "back"

Stands(q, n, c, d) ==
    \A r \in Requests : (q[r].status \in Decided /\ n[r].status # q[r].status) => Late(r, c, d)

TrainingStep(q, c, x) ==
    /\ DOMAIN x.db = Requests /\ Stands(q, x.db, c, x.call)
    /\ Continues(c, x.call) /\ TrainingCall(x.call)

LEMMA TrainingAnswers ==
    ASSUME NEW q, DOMAIN q = Requests, NEW c, IsCall(c), NEW reply, NEW x \in Answers(q, c, reply)
    PROVE  TrainingStep(q, c, x)
<1>1. x.db = q /\ Continues(c, x.call) /\ x.call.at = "back"
    BY Answered
<1> QED BY <1>1 DEF TrainingStep, Stands, TrainingCall

LEMMA TrainingSteps ==
    ASSUME NEW q, DOMAIN q = Requests, NEW c, IsCall(c), TrainingCall(c), c.fn \in TrainingFns,
           c.at # "back", NEW x \in TrainingOutcomes(q, c)
    PROVE  TrainingStep(q, c, x)
<1>1. c.at \in {"sent", "write"}
    BY DEF IsCall, Stage, TrainingFns
<1>2. CASE c.fn \in {"fetchTrainingRequests", "fetchAdminTrainingRequests"}
    <2>1. x \in ListRequests(q, c)
        BY <1>2 DEF TrainingOutcomes
    <2> QED BY <2>1, TrainingAnswers DEF ListRequests
<1>3. CASE c.fn = "createTrainingRequest"
    <2>1. x \in CreateRequest(q, c)
        BY <1>3 DEF TrainingOutcomes
    <2>2. PICK r \in Unused(q) :
             x = [db |-> [q EXCEPT ![r] = [status |-> "draft", by |-> c.user, reviewer |-> Nobody]],
                  call |-> [c EXCEPT !.at = "back", !.reply = Ok]]
        BY <2>1 DEF CreateRequest
    <2>3. q[r].status = "none"
        BY DEF Unused
    <2>4. DOMAIN x.db = Requests /\ \A s \in Requests \ {r} : x.db[s] = q[s]
        BY <2>2
    <2>5. Stands(q, x.db, c, x.call)
        BY <2>3, <2>4 DEF Stands, Decided
    <2>6. PICK y \in Answers(q, c, Ok) : y.call = x.call
        BY <2>2 DEF Answers
    <2>7. Continues(c, x.call) /\ x.call.at = "back"
        BY <2>6, Answered
    <2> QED BY <2>4, <2>5, <2>7 DEF TrainingStep, TrainingCall
<1>4. CASE c.fn \notin {"fetchTrainingRequests", "fetchAdminTrainingRequests", "createTrainingRequest"}
    <2>1. CASE c.at = "sent"
        <3> DEFINE b == [c EXCEPT !.was = q[c.arg].status]
        <3>1. x \in TransitionRead(q, c)
            BY <1>4, <2>1 DEF TrainingOutcomes
        <3>2. x \in Refuses(q, c) \/ (NextTrainingStatus(q[c.arg].status, c.verb) # "none" /\ x \in Goes(q, b, "write"))
            BY <3>1 DEF TransitionRead
        <3>3. CASE x \in Refuses(q, c)
            BY <3>3, TrainingAnswers DEF Refuses
        <3>4. CASE NextTrainingStatus(q[c.arg].status, c.verb) # "none" /\ x \in Goes(q, b, "write")
            <4>1. q[c.arg].status \in {"draft", "submitted"}
                BY <3>4 DEF NextTrainingStatus
            <4>2. Alike(c, b)
                BY OtherLocals DEF IsCall
            <4>3. Stage(b.fn, "write")
                BY <4>2 DEF Stage, Alike
            <4>4. b.was = q[c.arg].status /\ DOMAIN b = Fields
                BY DEF IsCall, Fields
            <4> HIDE DEF b
            <4>5. x.db = q /\ Continues(c, x.call)
                BY <3>4, <4>2, <4>3, Gone
            <4>6. x.call.was = b.was
                BY <3>4, <4>4 DEF Goes, Fields
            <4> QED BY <4>1, <4>4, <4>5, <4>6 DEF TrainingStep, Stands, TrainingCall
        <3> QED BY <3>2, <3>3, <3>4
    <2>2. CASE c.at = "write"
        <3>1. x \in UpdateStatus(q, c)
            BY <1>4, <2>2 DEF TrainingOutcomes
        <3>2. c.was \in {"draft", "submitted"}
            BY <2>2 DEF TrainingCall
        <3>3. PICK n : /\ DOMAIN n = Requests /\ \A r \in Requests \ {c.arg} : n[r] = q[r]
                       /\ x \in Answers(n, c, Ok)
            <4> DEFINE one == [q EXCEPT ![c.arg].status = NextTrainingStatus(c.was, c.verb)]
                       two == [one EXCEPT ![c.arg].reviewer = IF Reviews(c.verb) THEN c.user ELSE Nobody]
            <4>1. DOMAIN one = Requests /\ \A r \in Requests \ {c.arg} : one[r] = q[r]
                OBVIOUS
            <4>2. x \in Answers(two, c, Ok)
                BY <3>1 DEF UpdateStatus
            <4> HIDE DEF one
            <4>3. DOMAIN two = Requests /\ \A r \in Requests \ {c.arg} : two[r] = one[r]
                BY <4>1
            <4> QED BY <4>1, <4>2, <4>3
        <3>4. x.db = n /\ Continues(c, x.call) /\ x.call.at = "back"
            BY <3>3, Answered
        <3>5. Stands(q, n, c, x.call)
            BY <2>2, <3>2, <3>3, <3>4 DEF Stands, Late
        <3> QED BY <3>3, <3>4, <3>5 DEF TrainingStep, TrainingCall
    <2> QED BY <1>1, <2>1, <2>2
<1> QED BY <1>2, <1>3, <1>4

-----------------------------------------------------------------------------
(* The handlers keep what is stored, and their calls, of their kinds.      *)

Roles == {"employee", "department_manager"}

\* Links of departments with the workspaces sp.
LinksOn(sp, link) == /\ DOMAIN link \subseteq Depts /\ Range(link) \subseteq Link
                     /\ \A d \in DOMAIN link : link[d].ws \in sp

RowsOf(fn) ==
    CASE fn = "fetchBitrixSnapshot"  -> DeptLine
      [] fn = "fetchAdminWorkspaces" -> SpaceLine
      [] fn = "listAdminModels"      -> ModelLine
      [] fn \in {"fetchTrainingRequests", "fetchAdminTrainingRequests"} -> RequestLine
      [] OTHER -> {}
IsReply(fn, r) == r.flag \in BOOLEAN /\ r.rows \subseteq RowsOf(fn) /\ r.people \subseteq People

\* The arguments of call c, what its handler has read, and its answer.
Typed(sp, c) ==
    /\ DOMAIN c = Fields /\ c.user \in Users \cap (Authors \cup {Admin}) /\ c.flag \in BOOLEAN
    /\ c.fn \in {"createWorkspaceFromDepartment", "linkWorkspaceDepartment"} => c.arg \in Depts
    /\ c.at = "linking" => c.ws \in sp
    /\ c.fn \in TrainingFns /\ Reviews(c.verb) => c.user = Admin
    /\ IsStructure(c.seen) /\ LinksOn(sp, c.links)
    /\ DOMAIN c.want \subseteq sp \X Users /\ Range(c.want) \subseteq Roles
    /\ IsReply(c.fn, c.reply)

LEMMA MoreSpaces ==
    ASSUME NEW sp, NEW sq, sp \subseteq sq, NEW c, Typed(sp, c)
    PROVE  Typed(sq, c)
BY DEF Typed, LinksOn

LEMMA TypedAnswer ==
    ASSUME NEW sp, NEW d, NEW c, Typed(sp, c), NEW r, IsReply(c.fn, r), NEW x \in Answers(d, c, r)
    PROVE  x.db = d /\ Typed(sp, x.call)
<1>1. x.db = d /\ x.call = [c EXCEPT !.at = "back", !.reply = r]
    BY DEF Answers
<1> DEFINE e == [c EXCEPT !.at = "back", !.reply = r]
<1>2. /\ DOMAIN e = Fields /\ e.at = "back" /\ e.reply = r
      /\ \A f \in Fields \ {"at", "reply"} : e[f] = c[f]
    BY DEF Typed, Fields
<1>3. /\ e.user = c.user /\ e.flag = c.flag /\ e.fn = c.fn /\ e.arg = c.arg /\ e.ws = c.ws
      /\ e.verb = c.verb /\ e.seen = c.seen /\ e.links = c.links /\ e.want = c.want
    BY <1>2 DEF Fields
<1> HIDE DEF e
<1>4. Typed(sp, e)
    BY <1>2, <1>3 DEF Typed
<1> QED BY <1>1, <1>4 DEF e

LEMMA PlainReplies ==
    /\ \A fn : IsReply(fn, Ok) /\ IsReply(fn, Err) /\ IsReply(fn, [Ok EXCEPT !.flag = TRUE])
    /\ \A fn : \A b \in BOOLEAN : IsReply(fn, [Ok EXCEPT !.flag = b])
    /\ \A fn, rs : rs \subseteq RowsOf(fn) => IsReply(fn, Rows(rs))
BY DEF IsReply, Ok, Err, Rows

LEMMA TypedRefusal ==
    ASSUME NEW sp, NEW d, NEW c, Typed(sp, c), NEW x \in Refuses(d, c)
    PROVE  x.db = d /\ Typed(sp, x.call)
BY TypedAnswer, PlainReplies DEF Refuses

LEMMA TypedGoing ==
    ASSUME NEW sp, NEW d, NEW c, Typed(sp, c), NEW at, at = "linking" => c.ws \in sp,
           NEW x \in Goes(d, c, at)
    PROVE  x.db = d /\ Typed(sp, x.call)
<1>1. x.db = d /\ x.call = [c EXCEPT !.at = at]
    BY DEF Goes
<1> DEFINE e == [c EXCEPT !.at = at]
<1>2. /\ DOMAIN e = Fields /\ e.at = at /\ e.reply = c.reply
      /\ e.user = c.user /\ e.flag = c.flag /\ e.fn = c.fn /\ e.arg = c.arg /\ e.ws = c.ws
      /\ e.verb = c.verb /\ e.seen = c.seen /\ e.links = c.links /\ e.want = c.want
    BY DEF Typed, Fields
<1> HIDE DEF e
<1>4. Typed(sp, e)
    BY <1>2 DEF Typed
<1> QED BY <1>1, <1>4 DEF e

\* Other locals.
LEMMA TypedLocals ==
    ASSUME NEW sp, NEW c, Typed(sp, c), NEW v
    PROVE  /\ Typed(sp, [c EXCEPT !.calm = v]) /\ Typed(sp, [c EXCEPT !.drop = v])
           /\ Typed(sp, [c EXCEPT !.was = v])
           /\ IsStructure(v) => Typed(sp, [c EXCEPT !.seen = v])
           /\ LinksOn(sp, v) => Typed(sp, [c EXCEPT !.links = v])
           /\ DOMAIN v \subseteq sp \X Users /\ Range(v) \subseteq Roles => Typed(sp, [c EXCEPT !.want = v])
           /\ IsReply(c.fn, v) => Typed(sp, [c EXCEPT !.reply = v])
<1> DEFINE Eq(e) == /\ DOMAIN e = Fields /\ e.user = c.user /\ e.flag = c.flag /\ e.fn = c.fn /\ e.arg = c.arg
                    /\ e.ws = c.ws /\ e.verb = c.verb /\ e.at = c.at /\ e.reply = c.reply
<1>1. Typed(sp, [c EXCEPT !.calm = v])
    <2> DEFINE e == [c EXCEPT !.calm = v]
    <2>1. Eq(e) /\ e.seen = c.seen /\ e.links = c.links /\ e.want = c.want
        BY DEF Typed, Fields
    <2> HIDE DEF e
    <2> QED BY <2>1 DEF Typed, e
<1>2. Typed(sp, [c EXCEPT !.drop = v])
    <2> DEFINE e == [c EXCEPT !.drop = v]
    <2>1. Eq(e) /\ e.seen = c.seen /\ e.links = c.links /\ e.want = c.want
        BY DEF Typed, Fields
    <2> HIDE DEF e
    <2> QED BY <2>1 DEF Typed, e
<1>3. Typed(sp, [c EXCEPT !.was = v])
    <2> DEFINE e == [c EXCEPT !.was = v]
    <2>1. Eq(e) /\ e.seen = c.seen /\ e.links = c.links /\ e.want = c.want
        BY DEF Typed, Fields
    <2> HIDE DEF e
    <2> QED BY <2>1 DEF Typed, e
<1>4. IsStructure(v) => Typed(sp, [c EXCEPT !.seen = v])
    <2> DEFINE e == [c EXCEPT !.seen = v]
    <2>1. Eq(e) /\ e.seen = v /\ e.links = c.links /\ e.want = c.want
        BY DEF Typed, Fields
    <2> HIDE DEF e
    <2> QED BY <2>1 DEF Typed, e
<1>5. LinksOn(sp, v) => Typed(sp, [c EXCEPT !.links = v])
    <2> DEFINE e == [c EXCEPT !.links = v]
    <2>1. Eq(e) /\ e.seen = c.seen /\ e.links = v /\ e.want = c.want
        BY DEF Typed, Fields
    <2> HIDE DEF e
    <2> QED BY <2>1 DEF Typed, e
<1>6. DOMAIN v \subseteq sp \X Users /\ Range(v) \subseteq Roles => Typed(sp, [c EXCEPT !.want = v])
    <2> DEFINE e == [c EXCEPT !.want = v]
    <2>1. Eq(e) /\ e.seen = c.seen /\ e.links = c.links /\ e.want = v
        BY DEF Typed, Fields
    <2> HIDE DEF e
    <2> QED BY <2>1 DEF Typed, e
<1>7. IsReply(c.fn, v) => Typed(sp, [c EXCEPT !.reply = v])
    <2> DEFINE e == [c EXCEPT !.reply = v]
    <2>1. /\ DOMAIN e = Fields /\ e.user = c.user /\ e.flag = c.flag /\ e.fn = c.fn /\ e.arg = c.arg
          /\ e.ws = c.ws /\ e.verb = c.verb /\ e.at = c.at /\ e.reply = v
          /\ e.seen = c.seen /\ e.links = c.links /\ e.want = c.want
        BY DEF Typed, Fields
    <2> HIDE DEF e
    <2> QED BY <2>1 DEF Typed, e
<1> QED BY <1>1, <1>2, <1>3, <1>4, <1>5, <1>6, <1>7

-----------------------------------------------------------------------------
(* OrgSync                                                                 *)

\* What a step of a handler leaves.
OrgKeeps(o, x) == IsOrg(x.db) /\ o.spaces \subseteq x.db.spaces /\ Typed(x.db.spaces, x.call)

LEMMA OrgAnswers ==
    ASSUME NEW o, NEW n, IsOrg(n), o.spaces \subseteq n.spaces, NEW c, Typed(n.spaces, c),
           NEW r, IsReply(c.fn, r), NEW x \in Answers(n, c, r)
    PROVE  OrgKeeps(o, x)
BY TypedAnswer DEF OrgKeeps

LEMMA OrgRefuses ==
    ASSUME NEW o, NEW n, IsOrg(n), o.spaces \subseteq n.spaces, NEW c, Typed(n.spaces, c), NEW x \in Refuses(n, c)
    PROVE  OrgKeeps(o, x)
BY TypedRefusal DEF OrgKeeps

LEMMA OrgGoes ==
    ASSUME NEW o, NEW n, IsOrg(n), o.spaces \subseteq n.spaces, NEW c, Typed(n.spaces, c),
           NEW at, at = "linking" => c.ws \in n.spaces, NEW x \in Goes(n, c, at)
    PROVE  OrgKeeps(o, x)
BY TypedGoing DEF OrgKeeps

\* One table changes.
LEMMA OrgWith ==
    ASSUME NEW o, IsOrg(o), NEW v
    PROVE  /\ v \in BOOLEAN => IsOrg([o EXCEPT !.hook = v]) /\ [o EXCEPT !.hook = v].spaces = o.spaces
           /\ v \in BOOLEAN => IsOrg([o EXCEPT !.locked = v]) /\ [o EXCEPT !.locked = v].spaces = o.spaces
           /\ v \in {"SUCCESS", "PARTIAL", "FAILED"} =>
                 IsOrg([o EXCEPT !.run = v]) /\ [o EXCEPT !.run = v].spaces = o.spaces
           /\ IsStructure(v) => IsOrg([o EXCEPT !.structure = v]) /\ [o EXCEPT !.structure = v].spaces = o.spaces
           /\ LinksOn(o.spaces, v) => IsOrg([o EXCEPT !.link = v]) /\ [o EXCEPT !.link = v].spaces = o.spaces
           /\ DOMAIN v \subseteq o.spaces \X Users /\ Range(v) \subseteq Member =>
                 IsOrg([o EXCEPT !.member = v]) /\ [o EXCEPT !.member = v].spaces = o.spaces
<1>1. v \in BOOLEAN => IsOrg([o EXCEPT !.hook = v]) /\ [o EXCEPT !.hook = v].spaces = o.spaces
    <2> DEFINE n == [o EXCEPT !.hook = v]
    <2>1. /\ DOMAIN n = OrgTables /\ n.structure = o.structure /\ n.hook = v /\ n.locked = o.locked
          /\ n.run = o.run /\ n.spaces = o.spaces /\ n.link = o.link /\ n.member = o.member
        BY DEF IsOrg, OrgTables
    <2> HIDE DEF n
    <2> QED BY <2>1 DEF IsOrg, n
<1>2. v \in BOOLEAN => IsOrg([o EXCEPT !.locked = v]) /\ [o EXCEPT !.locked = v].spaces = o.spaces
    <2> DEFINE n == [o EXCEPT !.locked = v]
    <2>1. /\ DOMAIN n = OrgTables /\ n.structure = o.structure /\ n.hook = o.hook /\ n.locked = v
          /\ n.run = o.run /\ n.spaces = o.spaces /\ n.link = o.link /\ n.member = o.member
        BY DEF IsOrg, OrgTables
    <2> HIDE DEF n
    <2> QED BY <2>1 DEF IsOrg, n
<1>3. v \in {"SUCCESS", "PARTIAL", "FAILED"} =>
         IsOrg([o EXCEPT !.run = v]) /\ [o EXCEPT !.run = v].spaces = o.spaces
    <2> DEFINE n == [o EXCEPT !.run = v]
    <2>1. /\ DOMAIN n = OrgTables /\ n.structure = o.structure /\ n.hook = o.hook /\ n.locked = o.locked
          /\ n.run = v /\ n.spaces = o.spaces /\ n.link = o.link /\ n.member = o.member
        BY DEF IsOrg, OrgTables
    <2> HIDE DEF n
    <2> QED BY <2>1 DEF IsOrg, n
<1>4. IsStructure(v) => IsOrg([o EXCEPT !.structure = v]) /\ [o EXCEPT !.structure = v].spaces = o.spaces
    <2> DEFINE n == [o EXCEPT !.structure = v]
    <2>1. /\ DOMAIN n = OrgTables /\ n.structure = v /\ n.hook = o.hook /\ n.locked = o.locked
          /\ n.run = o.run /\ n.spaces = o.spaces /\ n.link = o.link /\ n.member = o.member
        BY DEF IsOrg, OrgTables
    <2> HIDE DEF n
    <2> QED BY <2>1 DEF IsOrg, n
<1>5. LinksOn(o.spaces, v) => IsOrg([o EXCEPT !.link = v]) /\ [o EXCEPT !.link = v].spaces = o.spaces
    <2> DEFINE n == [o EXCEPT !.link = v]
    <2>1. /\ DOMAIN n = OrgTables /\ n.structure = o.structure /\ n.hook = o.hook /\ n.locked = o.locked
          /\ n.run = o.run /\ n.spaces = o.spaces /\ n.link = v /\ n.member = o.member
        BY DEF IsOrg, OrgTables
    <2> HIDE DEF n
    <2> QED BY <2>1 DEF IsOrg, LinksOn, n
<1>6. DOMAIN v \subseteq o.spaces \X Users /\ Range(v) \subseteq Member =>
         IsOrg([o EXCEPT !.member = v]) /\ [o EXCEPT !.member = v].spaces = o.spaces
    <2> DEFINE n == [o EXCEPT !.member = v]
    <2>1. /\ DOMAIN n = OrgTables /\ n.structure = o.structure /\ n.hook = o.hook /\ n.locked = o.locked
          /\ n.run = o.run /\ n.spaces = o.spaces /\ n.link = o.link /\ n.member = v
        BY DEF IsOrg, OrgTables
    <2> HIDE DEF n
    <2> QED BY <2>1 DEF IsOrg, n
<1> QED BY <1>1, <1>2, <1>3, <1>4, <1>5, <1>6

LEMMA CoverageType ==
    ASSUME NEW sp, NEW s, IsStructure(s), NEW link, LinksOn(sp, link)
    PROVE  LET C == DepartmentCoverage(s, link)
           IN  DOMAIN C \subseteq DOMAIN s.parent /\ \A d \in DOMAIN C : C[d] \in sp
<1> DEFINE F(d) == FirstAbove(s, d, Including(link))
           C == DepartmentCoverage(s, link)
<1>1. DOMAIN s.parent \subseteq Depts /\ Rises(s)
    BY StructureRises DEF IsStructure
<1>2. \A d \in DOMAIN s.parent : F(d) \in DOMAIN link \cup {Nobody}
    <2> TAKE d \in DOMAIN s.parent
    <2>1. F(d) \in (Including(link) \cap Depts) \cup {Nobody}
        BY <1>1, FirstAboveIsMarked
    <2> QED BY <2>1 DEF Including
<1> HIDE DEF F
<1>3. C = [d \in {e \in DOMAIN s.parent : (IF e \in DOMAIN link THEN e ELSE F(e)) # Nobody} |->
               link[IF d \in DOMAIN link THEN d ELSE F(d)].ws]
    BY DEF DepartmentCoverage, F
<1>4. ASSUME NEW d \in DOMAIN C PROVE C[d] \in sp
    <2>1. PICK a : a \in DOMAIN link /\ C[d] = link[a].ws
        BY <1>2, <1>3
    <2> QED BY <2>1 DEF LinksOn
<1> QED BY <1>3, <1>4

LEMMA DesiredType ==
    ASSUME NEW sp, NEW s, IsStructure(s), NEW C, \A d \in DOMAIN C : C[d] \in sp
    PROVE  LET D == DesiredBitrixMemberships(s, C)
           IN  DOMAIN D \subseteq sp \X Users /\ Range(D) \subseteq Roles
<1> DEFINE D == DesiredBitrixMemberships(s, C)
           P == {x \in s.active \X DOMAIN C : Account[x[1]] # Nobody /\ x[2] \in s.in[x[1]]}
           Key(x) == <<C[x[2]], Account[x[1]]>>
<1>1. \A x \in P : C[x[2]] \in sp /\ Account[x[1]] \in Users
    BY AccountIsOne DEF IsStructure
<1>2. DOMAIN D = {Key(x) : x \in P}
    BY DEF DesiredBitrixMemberships
<1>3. DOMAIN D \subseteq sp \X Users
    BY <1>1, <1>2
<1>4. \A key \in DOMAIN D : D[key] \in Roles
    BY DEF DesiredBitrixMemberships, Roles
<1> HIDE DEF D
<1> QED BY <1>3, <1>4 DEF Range, D

LEMMA EnrichedType ==
    ASSUME NEW o, IsOrg(o)
    PROVE  EnrichDepartments(o.structure, o.link) \subseteq DeptLine
<1> DEFINE s == o.structure
           link == o.link
           C == DepartmentCoverage(s, link)
           A(d) == AncestorLinkName(s, link, d)
<1>1. /\ IsStructure(s) /\ LinksOn(o.spaces, link) /\ o.spaces \subseteq Workspaces
      /\ DOMAIN s.parent \subseteq Depts /\ Rises(s)
    BY StructureRises DEF IsOrg, LinksOn, IsStructure
<1>2. \A d \in DOMAIN C : C[d] \in Workspaces
    BY <1>1, CoverageType
<1>3. \A d \in DOMAIN link : link[d].ws \in Workspaces /\ link[d].include \in BOOLEAN
    BY <1>1 DEF LinksOn, Link, Range
<1>4. \A d \in Depts : A(d) \in Depts \cup {Nobody}
    BY <1>1, FirstAboveIsMarked DEF AncestorLinkName
<1> DEFINE One(d) == [dept |-> d, ws |-> link[d].ws, inherited |-> FALSE, from |-> Nobody,
                      include |-> link[d].include]
           Two(d) == [dept |-> d, ws |-> C[d], inherited |-> TRUE, from |-> A(d), include |-> FALSE]
           Three(d) == [dept |-> d, ws |-> Nobody, inherited |-> FALSE, from |-> Nobody, include |-> FALSE]
           Line(d) == CASE d \in DOMAIN link -> One(d)
                        [] d \in DOMAIN C \ DOMAIN link -> Two(d)
                        [] d \notin DOMAIN C -> Three(d)
<1>5. EnrichDepartments(s, link) = {Line(d) : d \in DOMAIN s.parent}
    BY DEF EnrichDepartments
<1>6. ASSUME NEW d \in DOMAIN s.parent PROVE Line(d) \in DeptLine
    <2>1. d \in Depts
        BY <1>1
    <2>2. d \in DOMAIN link => One(d) \in DeptLine
        BY <1>3, <2>1 DEF DeptLine
    <2>3. d \in DOMAIN C => Two(d) \in DeptLine
        BY <1>2, <1>4, <2>1 DEF DeptLine
    <2>4. Three(d) \in DeptLine
        BY <2>1 DEF DeptLine
    <2>5. d \in DOMAIN link => d \in DOMAIN C
        BY <1>1, <1>6, AccountIsOne DEF DepartmentCoverage
    <2> HIDE DEF One, Two, Three, C
    <2> QED BY <2>2, <2>3, <2>4, <2>5
<1> QED BY <1>5, <1>6

\* A workspace has at most as many members as there are users.
LEMMA MembersAreUsers ==
    ASSUME NEW o, IsOrg(o), NEW w
    PROVE  Cardinality({key \in DOMAIN o.member : key[1] = w}) \in 0..Cardinality(Users)
<1> DEFINE K == {key \in DOMAIN o.member : key[1] = w}
           f == [key \in K |-> key[2]]
<1>1. \A key \in K : key = <<w, key[2]>> /\ key[2] \in Users
    BY DEF IsOrg
<1>2. f \in [K -> Users] /\ \A x, y \in K : f[x] = f[y] => x = y
    BY <1>1
<1> HIDE DEF f, K
<1>3. f \in Injection(K, Users)
    BY <1>2 DEF Injection, IsInjective
<1>4. IsFiniteSet(K) /\ Cardinality(K) <= Cardinality(Users)
    BY <1>3, DeptsAreFinite, FS_Injection
<1>5. Cardinality(K) \in Nat /\ Cardinality(Users) \in Nat
    BY <1>4, DeptsAreFinite, FS_CardinalityType
<1> QED BY <1>4, <1>5 DEF K

LEMMA ListedType ==
    ASSUME NEW o, IsOrg(o), NEW c, Typed(o.spaces, c), NEW x,
           \/ c.fn = "fetchAdminWorkspaces" /\ c.at \in {"sent", "listed"} /\ x \in ListAdmin(o, c)
           \/ c.fn = "fetchBitrixSnapshot" /\ x \in Snapshot(o, c)
    PROVE  OrgKeeps(o, x)
<1>1. CASE c.fn = "fetchAdminWorkspaces" /\ c.at \in {"sent", "listed"} /\ x \in ListAdmin(o, c)
    <2>1. SpaceLine = RowsOf(c.fn)
        BY <1>1 DEF RowsOf
    <2>2. CASE c.at = "sent"
        <3>1. x \in Goes(o, [c EXCEPT !.reply = Rows(Counted(o))], "listed")
            BY <1>1, <2>2 DEF ListAdmin
        <3>2. Counted(o) \subseteq SpaceLine
            <4> DEFINE count(w) == Cardinality({key \in DOMAIN o.member : key[1] = w})
            <4>1. \A w \in o.spaces : count(w) \in 0..Cardinality(Users) /\ w \in Workspaces
                BY MembersAreUsers DEF IsOrg
            <4>2. Counted(o) = {[ws |-> w, depts |-> {}, count |-> count(w)] : w \in o.spaces}
                BY DEF Counted
            <4> HIDE DEF count
            <4> QED BY <4>1, <4>2 DEF SpaceLine
        <3>3. IsReply(c.fn, Rows(Counted(o)))
            BY <2>1, <3>2, PlainReplies
        <3>4. Typed(o.spaces, [c EXCEPT !.reply = Rows(Counted(o))])
            BY <3>3, TypedLocals
        <3> QED BY <3>1, <3>4, OrgGoes
    <2>3. CASE c.at = "listed"
        <3>1. x \in Answers(o, c, Rows(WithLinks(o, c.reply.rows)))
            BY <1>1, <2>3 DEF ListAdmin
        <3>2. c.reply.rows \subseteq SpaceLine
            BY <2>1 DEF Typed, IsReply
        <3>3. WithLinks(o, c.reply.rows) \subseteq SpaceLine
            <4>1. \A ws : {d \in DOMAIN o.link : o.link[d].ws = ws} \in SUBSET Depts
                BY DEF IsOrg
            <4>2. \A line \in SpaceLine, ds \in SUBSET Depts : [line EXCEPT !.depts = ds] \in SpaceLine
                BY DEF SpaceLine
            <4> QED BY <3>2, <4>1, <4>2 DEF WithLinks
        <3> QED BY <2>1, <3>1, <3>3, PlainReplies, OrgAnswers
    <2> QED BY <1>1, <2>2, <2>3
<1>2. CASE c.fn = "fetchBitrixSnapshot" /\ x \in Snapshot(o, c)
    <2> DEFINE lines == EnrichDepartments(o.structure, o.link)
    <2>1. PICK found : x \in Answers(o, c, [Rows(lines) EXCEPT !.people = found \cap DOMAIN o.structure.in])
        BY <1>2 DEF Snapshot
    <2>2. lines \subseteq RowsOf(c.fn)
        BY <1>2, EnrichedType DEF RowsOf
    <2>3. DOMAIN o.structure.in \subseteq People
        BY DEF IsOrg, IsStructure
    <2> HIDE DEF lines
    <2>4. IsReply(c.fn, [Rows(lines) EXCEPT !.people = found \cap DOMAIN o.structure.in])
        BY <2>2, <2>3 DEF IsReply, Rows, Ok
    <2> QED BY <2>1, <2>4, OrgAnswers
<1> QED BY <1>1, <1>2

LEMMA WebhookTypes ==
    ASSUME NEW o, IsOrg(o), NEW c, Typed(o.spaces, c),
           NEW x \in Status(o, c) \cup SaveWebhook(o, c) \cup Disconnect(o, c) \cup Test(o, c)
    PROVE  OrgKeeps(o, x)
<1> DEFINE on == [o EXCEPT !.hook = TRUE]
           off == [o EXCEPT !.hook = FALSE]
<1>1. IsOrg(on) /\ IsOrg(off) /\ on.spaces = o.spaces /\ off.spaces = o.spaces
    BY OrgWith
<1>2. on.hook \in BOOLEAN /\ off.hook \in BOOLEAN /\ o.hook \in BOOLEAN
    BY <1>1 DEF IsOrg
<1>3. IsReply(c.fn, StatusOf(o)) /\ IsReply(c.fn, StatusOf(on)) /\ IsReply(c.fn, StatusOf(off)) /\ IsReply(c.fn, Ok)
    <2> HIDE DEF on, off
    <2>1. \A b \in BOOLEAN : IsReply(c.fn, [Ok EXCEPT !.flag = b])
        BY PlainReplies
    <2>2. IsReply(c.fn, Ok)
        BY PlainReplies
    <2> QED BY <1>2, <2>1, <2>2 DEF StatusOf
<1>4. \/ x \in Refuses(o, c) \/ x \in Answers(o, c, StatusOf(o)) \/ x \in Answers(on, c, StatusOf(on))
      \/ x \in Answers(off, c, StatusOf(off)) \/ x \in Answers(o, c, Ok)
    BY DEF Status, SaveWebhook, Disconnect, Test
<1> HIDE DEF on, off
<1> QED BY <1>1, <1>3, <1>4, OrgAnswers, OrgRefuses

LEMMA WithRange ==
    ASSUME NEW f, NEW x, NEW v
    PROVE  /\ DOMAIN With(f, x, v) = DOMAIN f \cup {x} /\ With(f, x, v)[x] = v
           /\ \A y \in DOMAIN f \ {x} : With(f, x, v)[y] = f[y]
           /\ Range(With(f, x, v)) \subseteq Range(f) \cup {v}
           /\ DOMAIN Without(f, x) = DOMAIN f \ {x}
           /\ \A y \in DOMAIN f \ {x} : Without(f, x)[y] = f[y]
           /\ Range(Without(f, x)) \subseteq Range(f)
BY DEF With, Without, Range

LEMMA LinkedWith ==
    ASSUME NEW sp, NEW f, LinksOn(sp, f), NEW d
    PROVE  /\ LinksOn(sp, Without(f, d))
           /\ \A v \in Link : d \in Depts /\ v.ws \in sp => LinksOn(sp, With(f, d, v))
<1>1. LinksOn(sp, Without(f, d))
    BY DEF LinksOn, Without, Range
<1>2. ASSUME NEW v \in Link, d \in Depts, v.ws \in sp
      PROVE  LinksOn(sp, With(f, d, v))
    <2> DEFINE g == With(f, d, v)
    <2>1. DOMAIN g = DOMAIN f \cup {d} /\ \A y \in DOMAIN g : g[y] = IF y = d THEN v ELSE f[y]
        BY DEF With
    <2>2. \A y \in DOMAIN f : f[y] \in Link /\ f[y].ws \in sp
        BY DEF LinksOn, Range
    <2> HIDE DEF g
    <2>3. \A y \in DOMAIN g : g[y] \in Link /\ g[y].ws \in sp
        BY <1>2, <2>1, <2>2
    <2>4. DOMAIN g \subseteq Depts
        BY <1>2, <2>1 DEF LinksOn
    <2> QED BY <2>3, <2>4 DEF LinksOn, Range, g
<1> QED BY <1>1, <1>2

LEMMA LinkTypes ==
    ASSUME NEW o, IsOrg(o), NEW c, Typed(o.spaces, c), NEW x,
           \/ c.fn = "linkWorkspaceDepartment" /\ c.at \in {"sent", "linking"} /\ x \in LinkDepartment(o, c)
           \/ x \in UnlinkDepartment(o, c)
    PROVE  OrgKeeps(o, x)
<1> DEFINE row == [ws |-> c.ws, include |-> c.flag]
           put == With(o.link, c.arg, row)
           cut == Without(o.link, c.arg)
<1>1. o.spaces \subseteq Workspaces /\ LinksOn(o.spaces, o.link) /\ c.flag \in BOOLEAN
    BY DEF IsOrg, LinksOn, Typed
<1>2. LinksOn(o.spaces, cut)
    BY <1>1, LinkedWith
<1>3. ASSUME c.arg \in Depts, c.ws \in o.spaces PROVE LinksOn(o.spaces, put)
    <2>1. row \in Link /\ row.ws = c.ws
        BY <1>1, <1>3 DEF Link
    <2> HIDE DEF row
    <2> QED BY <1>1, <1>3, <2>1, LinkedWith
<1> HIDE DEF put, cut
<1>4. \/ x \in Refuses(o, c) \/ x \in Answers([o EXCEPT !.link = cut], c, Ok)
      \/ c.ws \in o.spaces /\ x \in Goes(o, c, "linking")
      \/ c.arg \in Depts /\ c.ws \in o.spaces /\ x \in Answers([o EXCEPT !.link = put], c, Ok)
    BY DEF LinkDepartment, PutLink, UnlinkDepartment, Typed, put, cut
<1>5. IsReply(c.fn, Ok)
    BY PlainReplies
<1> QED BY <1>2, <1>3, <1>4, <1>5, OrgWith, OrgAnswers, OrgRefuses, OrgGoes

LEMMA SyncTypes ==
    ASSUME NEW o, IsOrg(o), NEW c, Typed(o.spaces, c), NEW x \in SyncStart(o, c) \cup SyncAnswered(o, c)
    PROVE  OrgKeeps(o, x)
<1> DEFINE as(s, run) == [o EXCEPT !.structure = s, !.run = run, !.locked = FALSE]
           failed == [o EXCEPT !.run = "FAILED", !.locked = FALSE]
           begun == [o EXCEPT !.locked = TRUE]
<1>1. IsOrg(failed) /\ failed.spaces = o.spaces
    <2> DEFINE one == [o EXCEPT !.run = "FAILED"]
               two == [one EXCEPT !.locked = FALSE]
    <2>1. IsOrg(one) /\ one.spaces = o.spaces
        BY OrgWith
    <2> HIDE DEF one
    <2>2. IsOrg(two) /\ two.spaces = one.spaces
        BY <2>1, OrgWith
    <2> QED BY <2>1, <2>2 DEF one
<1>2. ASSUME NEW s, IsStructure(s), NEW run \in {"SUCCESS", "PARTIAL"}
      PROVE  IsOrg(as(s, run)) /\ as(s, run).spaces = o.spaces
    <2> DEFINE one == [o EXCEPT !.structure = s]
               two == [one EXCEPT !.run = run]
               three == [two EXCEPT !.locked = FALSE]
    <2>1. IsOrg(one) /\ one.spaces = o.spaces
        BY <1>2, OrgWith
    <2> HIDE DEF one
    <2>2. IsOrg(two) /\ two.spaces = one.spaces
        BY <2>1, OrgWith
    <2> HIDE DEF two
    <2>3. IsOrg(three) /\ three.spaces = two.spaces
        BY <2>2, OrgWith
    <2> QED BY <2>1, <2>2, <2>3 DEF one, two
<1>3. \A s : IsStructure(s) => IsStructure(DepartmentsFromUsers(s))
    <2> SUFFICES ASSUME NEW s, IsStructure(s) PROVE IsStructure(DepartmentsFromUsers(s))
        OBVIOUS
    <2> DEFINE named == [d \in UNION Range(s.in) |-> Nobody]
               r == [parent |-> named, head |-> named, in |-> s.in, active |-> s.active]
    <2>1. s = [parent |-> s.parent, head |-> s.head, in |-> s.in, active |-> s.active]
        BY DEF IsStructure
    <2>2. DepartmentsFromUsers(s) = r
        <3> DEFINE one == [s EXCEPT !.parent = named]
                   two == [one EXCEPT !.head = named]
        <3> HIDE DEF named
        <3>1. one = [parent |-> named, head |-> s.head, in |-> s.in, active |-> s.active]
            BY <2>1
        <3>2. two = [parent |-> named, head |-> named, in |-> s.in, active |-> s.active]
            <4> HIDE DEF one
            <4> QED BY <3>1
        <3>3. DepartmentsFromUsers(s) = two
            BY DEF DepartmentsFromUsers, named
        <3> QED BY <3>2, <3>3
    <2>3. UNION Range(s.in) \subseteq Depts
        BY DEF IsStructure, Range
    <2>4. DOMAIN named \subseteq Depts /\ \A d \in DOMAIN named : named[d] = Nobody
        BY <2>3
    <2>5. DOMAIN s.in \subseteq People /\ s.active \subseteq DOMAIN s.in /\ \A p \in DOMAIN s.in : s.in[p] \subseteq Depts
        BY DEF IsStructure
    <2> HIDE DEF named
    <2>6. r = [parent |-> r.parent, head |-> r.head, in |-> r.in, active |-> r.active]
        OBVIOUS
    <2>7. r.parent = named /\ r.head = named /\ r.in = s.in /\ r.active = s.active
        OBVIOUS
    <2> HIDE DEF r
    <2> QED BY <2>2, <2>4, <2>5, <2>6, <2>7 DEF IsStructure
<1>4. IsOrg(begun) /\ begun.spaces = o.spaces
    BY OrgWith
<1>5. CASE x \in SyncStart(o, c)
    <2>1. x \in Refuses(o, c) \/ x \in Goes(begun, c, "asked")
        BY <1>5 DEF SyncStart
    <2> HIDE DEF begun
    <2> QED BY <1>4, <2>1, OrgRefuses, OrgGoes
<1>6. CASE x \in SyncAnswered(o, c)
    <2>1. \/ x \in Refuses(failed, c)
          \/ \E s \in Structures : x \in Goes(as(s, "SUCCESS"), c, "departments")
          \/ \E s \in Structures : x \in Goes(as(DepartmentsFromUsers(s), "PARTIAL"), c, "departments")
        BY <1>6 DEF SyncAnswered
    <2>2. \A s \in Structures : IsStructure(s) /\ IsStructure(DepartmentsFromUsers(s))
        BY <1>3, StructuresAreSuch
    <2> HIDE DEF as, failed
    <2> QED BY <1>1, <1>2, <2>1, <2>2, OrgRefuses, OrgGoes
<1> QED BY <1>5, <1>6

\* Members of the workspaces sp.
MembersOn(sp, member) == DOMAIN member \subseteq sp \X Users /\ Range(member) \subseteq Member

LEMMA MemberWith ==
    ASSUME NEW sp, NEW f, MembersOn(sp, f), NEW key
    PROVE  /\ MembersOn(sp, Without(f, key))
           /\ \A v \in Member : key \in sp \X Users => MembersOn(sp, With(f, key, v))
<1>1. MembersOn(sp, Without(f, key))
    BY DEF MembersOn, Without, Range
<1>2. ASSUME NEW v \in Member, key \in sp \X Users
      PROVE  MembersOn(sp, With(f, key, v))
    <2> DEFINE g == With(f, key, v)
    <2>1. DOMAIN g = DOMAIN f \cup {key} /\ \A y \in DOMAIN g : g[y] = IF y = key THEN v ELSE f[y]
        BY DEF With
    <2>2. DOMAIN f \subseteq sp \X Users /\ \A y \in DOMAIN f : f[y] \in Member
        BY DEF MembersOn, Range
    <2> HIDE DEF g
    <2>3. \A y \in DOMAIN g : g[y] \in Member
        BY <1>2, <2>1, <2>2
    <2>4. DOMAIN g \subseteq sp \X Users
        BY <1>2, <2>1, <2>2
    <2> QED BY <2>3, <2>4 DEF MembersOn, Range, g
<1> QED BY <1>1, <1>2

LEMMA CreateTypes ==
    ASSUME NEW o, IsOrg(o), NEW c, Typed(o.spaces, c), c.fn = "createWorkspaceFromDepartment",
           c.at \in {"sent", "checked", "linking"}, NEW x \in CreateFromDepartment(o, c)
    PROVE  OrgKeeps(o, x)
<1>1. c.arg \in Depts /\ c.user \in Users /\ c.flag \in BOOLEAN /\ o.spaces \subseteq Workspaces
    BY DEF Typed, IsOrg
<1>2. CASE c.at = "sent"
    <2>1. x \in Goes(o, c, "checked") \/ x \in Refuses(o, c)
        BY <1>2 DEF CreateFromDepartment
    <2> QED BY <2>1, OrgGoes, OrgRefuses
<1>3. CASE c.at = "checked"
    <2>1. PICK w \in Unbuilt(o) :
             x = [db |-> [o EXCEPT !.spaces = @ \cup {w},
                                   !.member = With(@, <<w, c.user>>, [role |-> "employee", source |-> "local"])],
                  call |-> [c EXCEPT !.at = "linking", !.ws = w]]
        BY <1>3 DEF CreateFromDepartment
    <2> DEFINE row == [role |-> "employee", source |-> "local"]
               key == <<w, c.user>>
               sp == o.spaces \cup {w}
               member == With(o.member, key, row)
               n == [o EXCEPT !.spaces = @ \cup {w}, !.member = With(@, key, row)]
               e == [c EXCEPT !.at = "linking", !.ws = w]
    <2>2. /\ DOMAIN n = OrgTables /\ n.structure = o.structure /\ n.hook = o.hook /\ n.locked = o.locked
          /\ n.run = o.run /\ n.spaces = sp /\ n.link = o.link /\ n.member = member
        BY DEF IsOrg, OrgTables
    <2>3. row \in Member /\ key \in sp \X Users /\ MembersOn(sp, o.member) /\ sp \subseteq Workspaces
        BY <1>1 DEF Member, MembersOn, IsOrg, Unbuilt
    <2>4. /\ DOMAIN e = Fields /\ e.at = "linking" /\ e.ws = w /\ e.reply = c.reply
          /\ e.user = c.user /\ e.flag = c.flag /\ e.fn = c.fn /\ e.arg = c.arg
          /\ e.verb = c.verb /\ e.seen = c.seen /\ e.links = c.links /\ e.want = c.want
        BY DEF Typed, Fields
    <2>5. x.db = n /\ x.call = e
        BY <2>1
    <2>6. w \in sp /\ o.spaces \subseteq sp
        OBVIOUS
    <2> HIDE DEF row, key, n, e, sp
    <2>7. MembersOn(sp, member)
        BY <2>3, MemberWith
    <2> HIDE DEF member
    <2>8. IsOrg(n)
        BY <2>2, <2>3, <2>6, <2>7 DEF IsOrg, MembersOn
    <2>9. Typed(sp, c)
        BY <2>6, MoreSpaces
    <2>10. Typed(sp, e)
        BY <2>4, <2>6, <2>9 DEF Typed
    <2> QED BY <2>2, <2>5, <2>6, <2>8, <2>10 DEF OrgKeeps
<1>4. CASE c.at = "linking"
    <2> DEFINE row == [ws |-> c.ws, include |-> c.flag]
               put == With(o.link, c.arg, row)
    <2>1. x \in Answers([o EXCEPT !.link = put], c, Ok)
        BY <1>4 DEF CreateFromDepartment, PutLink
    <2>2. c.ws \in o.spaces
        BY <1>4 DEF Typed
    <2>3. row \in Link /\ row.ws = c.ws
        BY <1>1, <2>2 DEF Link
    <2>4. LinksOn(o.spaces, o.link)
        BY DEF IsOrg, LinksOn
    <2> HIDE DEF row
    <2>5. LinksOn(o.spaces, put)
        BY <1>1, <2>2, <2>3, <2>4, LinkedWith
    <2>6. IsReply(c.fn, Ok)
        BY PlainReplies
    <2> HIDE DEF put
    <2> QED BY <2>1, <2>5, <2>6, OrgWith, OrgAnswers
<1> QED BY <1>2, <1>3, <1>4

LEMMA WithoutStructure == IsStructure(NoStructure)
BY DEF IsStructure, NoStructure

\* The structure that a handler puts together from what it reads.
Mixed(s, t) == [parent |-> s.parent, head |-> s.head, in |-> t.in, active |-> t.active]

LEMMA MixedStructure ==
    ASSUME NEW s, NEW t, IsStructure(s), IsStructure(t)
    PROVE  /\ IsStructure(Mixed(s, t))
           /\ [s EXCEPT !.in = t.in, !.active = t.active] = Mixed(s, t)
           /\ [s EXCEPT !.parent = t.parent, !.head = t.head] = Mixed(t, s)
<1>1. IsStructure(Mixed(s, t))
    <2> DEFINE r == Mixed(s, t)
    <2>1. r = [parent |-> r.parent, head |-> r.head, in |-> r.in, active |-> r.active]
        BY DEF Mixed
    <2>2. r.parent = s.parent /\ r.head = s.head /\ r.in = t.in /\ r.active = t.active
        BY DEF Mixed
    <2> HIDE DEF r
    <2>3. IsStructure(r)
        BY <2>1, <2>2 DEF IsStructure
    <2> QED BY <2>3 DEF r
<1>2. s = [parent |-> s.parent, head |-> s.head, in |-> s.in, active |-> s.active]
    BY DEF IsStructure
<1>3. [s EXCEPT !.in = t.in, !.active = t.active] = Mixed(s, t)
    <2> DEFINE one == [s EXCEPT !.in = t.in]
               two == [one EXCEPT !.active = t.active]
    <2>1. one = [parent |-> s.parent, head |-> s.head, in |-> t.in, active |-> s.active]
        BY <1>2
    <2> HIDE DEF one
    <2>2. two = Mixed(s, t)
        BY <2>1 DEF Mixed
    <2> QED BY <2>2 DEF one
<1>4. [s EXCEPT !.parent = t.parent, !.head = t.head] = Mixed(t, s)
    <2> DEFINE one == [s EXCEPT !.parent = t.parent]
               two == [one EXCEPT !.head = t.head]
    <2>1. one = [parent |-> t.parent, head |-> s.head, in |-> s.in, active |-> s.active]
        BY <1>2
    <2> HIDE DEF one
    <2>2. two = Mixed(t, s)
        BY <2>1 DEF Mixed
    <2> QED BY <2>2 DEF one
<1> QED BY <1>1, <1>3, <1>4

\* The memberships that follow from what is stored.
Desired(o) == DesiredBitrixMemberships(o.structure, DepartmentCoverage(o.structure, o.link))

LEMMA ReadTypes ==
    ASSUME NEW o, IsOrg(o), NEW c, Typed(o.spaces, c),
           NEW x \in ReadDepartments(o, c) \cup ReadLinks(o, c) \cup ReadPeople(o, c) \cup ReadMembers(o, c)
    PROVE  OrgKeeps(o, x)
<1>1. IsStructure(c.seen) /\ IsStructure(o.structure) /\ LinksOn(o.spaces, o.link) /\ LinksOn(o.spaces, c.links)
    BY DEF Typed, IsOrg, LinksOn
<1>2. CASE x \in ReadDepartments(o, c)
    <2> DEFINE a == [c EXCEPT !.calm = TRUE]
               s == Mixed(o.structure, NoStructure)
               b == [a EXCEPT !.seen = s]
    <2>1. x \in Goes(o, b, "links")
        BY <1>1, <1>2, WithoutStructure, MixedStructure DEF ReadDepartments
    <2>2. IsStructure(s)
        BY <1>1, WithoutStructure, MixedStructure
    <2>3. Typed(o.spaces, a)
        BY TypedLocals
    <2> HIDE DEF a, s
    <2>4. Typed(o.spaces, b)
        BY <2>2, <2>3, TypedLocals
    <2> HIDE DEF b
    <2> QED BY <2>1, <2>4, OrgGoes
<1>3. CASE x \in ReadLinks(o, c)
    <2> DEFINE b == [c EXCEPT !.links = o.link]
    <2>1. x \in Goes(o, b, "people")
        BY <1>3 DEF ReadLinks
    <2>2. Typed(o.spaces, b)
        BY <1>1, TypedLocals
    <2> HIDE DEF b
    <2> QED BY <2>1, <2>2, OrgGoes
<1>4. CASE x \in ReadPeople(o, c)
    <2> DEFINE s == [c.seen EXCEPT !.in = o.structure.in, !.active = o.structure.active]
               D == DesiredBitrixMemberships(s, DepartmentCoverage(s, c.links))
               one == [c EXCEPT !.want = D]
               two == [one EXCEPT !.seen = NoStructure]
               three == [two EXCEPT !.links = <<>>]
    <2>1. x \in Goes(o, three, "members")
        BY <1>4 DEF ReadPeople
    <2>2. IsStructure(s)
        <3>1. s = Mixed(c.seen, o.structure)
            BY <1>1, MixedStructure
        <3>2. IsStructure(Mixed(c.seen, o.structure))
            BY <1>1, MixedStructure
        <3> QED BY <3>1, <3>2
    <2> HIDE DEF s
    <2>3. DOMAIN D \subseteq o.spaces \X Users /\ Range(D) \subseteq Roles
        BY <1>1, <2>2, CoverageType, DesiredType
    <2> HIDE DEF D
    <2>4. Typed(o.spaces, one)
        BY <2>3, TypedLocals
    <2> HIDE DEF one
    <2>5. Typed(o.spaces, two)
        BY <2>4, WithoutStructure, TypedLocals
    <2>6. LinksOn(o.spaces, <<>>)
        BY DEF LinksOn, Range
    <2> HIDE DEF two
    <2>7. Typed(o.spaces, three)
        BY <2>5, <2>6, TypedLocals
    <2> HIDE DEF three
    <2> QED BY <2>1, <2>7, OrgGoes
<1>5. CASE x \in ReadMembers(o, c)
    <2> DEFINE have == {key \in DOMAIN o.member : o.member[key].source = "bitrix"}
               same == {key \in have \cap DOMAIN c.want : o.member[key].role = c.want[key]}
               want == [key \in DOMAIN c.want \ same |-> c.want[key]]
               one == [c EXCEPT !.want = want]
               two == [one EXCEPT !.drop = have \ DOMAIN c.want]
    <2>1. x \in Goes(o, two, "rows")
        BY <1>5 DEF ReadMembers
    <2>2. DOMAIN want \subseteq o.spaces \X Users /\ Range(want) \subseteq Roles
        BY DEF Typed, Range
    <2> HIDE DEF want
    <2>3. Typed(o.spaces, one)
        BY <2>2, TypedLocals
    <2> HIDE DEF one, have
    <2>4. Typed(o.spaces, two)
        BY <2>3, TypedLocals
    <2> HIDE DEF two
    <2> QED BY <2>1, <2>4, OrgGoes
<1> QED BY <1>2, <1>3, <1>4, <1>5

LEMMA RowTypes ==
    ASSUME NEW o, IsOrg(o), NEW c, Typed(o.spaces, c), NEW x \in ApplyRows(o, c)
    PROVE  OrgKeeps(o, x)
<1>1. MembersOn(o.spaces, o.member)
    BY DEF IsOrg, MembersOn
<1>2. CASE x \in ApplyWanted(o, c)
    <2>1. PICK key \in DOMAIN c.want, found \in BOOLEAN :
             x = [db |-> IF found /\ IsLocal(o, key) THEN o
                         ELSE [o EXCEPT !.member = UpsertBitrixMember(@, key, c.want[key])],
                  call |-> [c EXCEPT !.want = Without(@, key)]]
        BY <1>2 DEF ApplyWanted
    <2> DEFINE row == [role |-> c.want[key], source |-> "bitrix"]
               put == With(o.member, key, row)
               want == Without(c.want, key)
    <2>2. key \in o.spaces \X Users /\ row \in Member
        BY DEF Typed, Member, Roles, Range
    <2> HIDE DEF row
    <2>3. MembersOn(o.spaces, put)
        BY <1>1, <2>2, MemberWith
    <2>4. x.db \in {o, [o EXCEPT !.member = o.member], [o EXCEPT !.member = put]}
        BY <2>1 DEF UpsertBitrixMember, row
    <2> HIDE DEF put
    <2>5. IsOrg(x.db) /\ x.db.spaces = o.spaces
        <3>1. IsOrg([o EXCEPT !.member = o.member]) /\ [o EXCEPT !.member = o.member].spaces = o.spaces
            BY <1>1, OrgWith DEF MembersOn
        <3>2. IsOrg([o EXCEPT !.member = put]) /\ [o EXCEPT !.member = put].spaces = o.spaces
            BY <2>3, OrgWith DEF MembersOn
        <3> QED BY <2>4, <3>1, <3>2
    <2>6. DOMAIN want \subseteq o.spaces \X Users /\ Range(want) \subseteq Roles
        BY DEF Typed, Range, Without
    <2> HIDE DEF want
    <2>7. Typed(o.spaces, [c EXCEPT !.want = want])
        BY <2>6, TypedLocals
    <2>8. x.call = [c EXCEPT !.want = want]
        BY <2>1 DEF want
    <2> QED BY <2>5, <2>7, <2>8 DEF OrgKeeps
<1>3. CASE x \in DeleteUnwanted(o, c)
    <2>1. PICK key \in c.drop :
             x = [db |-> IF key \notin DOMAIN o.member \/ IsLocal(o, key) THEN o
                         ELSE [o EXCEPT !.member = Without(@, key)],
                  call |-> [c EXCEPT !.drop = @ \ {key}]]
        BY <1>3 DEF DeleteUnwanted
    <2> DEFINE cut == Without(o.member, key)
    <2>2. MembersOn(o.spaces, cut)
        BY <1>1, MemberWith
    <2>3. x.db \in {o, [o EXCEPT !.member = cut]}
        BY <2>1
    <2> HIDE DEF cut
    <2>4. IsOrg(x.db) /\ x.db.spaces = o.spaces
        <3>1. IsOrg([o EXCEPT !.member = cut]) /\ [o EXCEPT !.member = cut].spaces = o.spaces
            BY <2>2, OrgWith DEF MembersOn
        <3> QED BY <2>3, <3>1
    <2>5. PICK v : x.call = [c EXCEPT !.drop = v]
        BY <2>1
    <2>6. Typed(o.spaces, [c EXCEPT !.drop = v])
        BY TypedLocals
    <2> QED BY <2>4, <2>5, <2>6 DEF OrgKeeps
<1>4. CASE x \in Answers(o, c, [Ok EXCEPT !.flag = TRUE])
    BY <1>4, PlainReplies, OrgAnswers
<1> QED BY <1>2, <1>3, <1>4 DEF ApplyRows

LEMMA ApplyTypes ==
    ASSUME NEW o, IsOrg(o), NEW c, Typed(o.spaces, c), c.at \in {"sent"} \cup Reading,
           NEW x \in ApplyMemberships(o, c)
    PROVE  OrgKeeps(o, x)
<1>1. \/ x \in ReadDepartments(o, c) \cup ReadLinks(o, c) \cup ReadPeople(o, c) \cup ReadMembers(o, c)
      \/ x \in ApplyRows(o, c)
    BY DEF ApplyMemberships, Reading
<1> QED BY <1>1, ReadTypes, RowTypes

LEMMA OrgTypes ==
    ASSUME NEW o, IsOrg(o), NEW c, IsCall(c), Typed(o.spaces, c), c.fn \in OrgFns, c.at # "back",
           NEW x \in OrgOutcomes(o, c)
    PROVE  OrgKeeps(o, x)
<1>1. CASE c.fn = "syncBitrix"
    <2>1. c.at \in {"sent", "asked"} \cup Reading
        BY <1>1 DEF IsCall, Stage, TrainingFns
    <2>2. x \in Sync(o, c)
        BY <1>1 DEF OrgOutcomes
    <2>3. \/ x \in SyncStart(o, c) \cup SyncAnswered(o, c)
          \/ c.at \in Reading /\ x \in ApplyMemberships(o, c)
        BY <2>1, <2>2 DEF Sync, Reading
    <2> QED BY <2>3, SyncTypes, ApplyTypes
<1>2. CASE c.fn = "applyWorkspaceMemberships"
    <2>1. c.at \in {"sent"} \cup Reading
        BY <1>2 DEF IsCall, Stage, TrainingFns
    <2>2. x \in ApplyMemberships(o, c)
        BY <1>2 DEF OrgOutcomes
    <2> QED BY <2>1, <2>2, ApplyTypes
<1>3. CASE c.fn = "createWorkspaceFromDepartment"
    <2>1. c.at \in {"sent", "checked", "linking"}
        BY <1>3 DEF IsCall, Stage, TrainingFns
    <2>2. x \in CreateFromDepartment(o, c)
        BY <1>3 DEF OrgOutcomes
    <2> QED BY <1>3, <2>1, <2>2, CreateTypes
<1>4. CASE c.fn \in {"unlinkWorkspaceDepartment", "linkWorkspaceDepartment"}
    <2>1. c.fn = "linkWorkspaceDepartment" => c.at \in {"sent", "linking"}
        BY DEF IsCall, Stage, TrainingFns
    <2> QED BY <1>4, <2>1, LinkTypes DEF OrgOutcomes
<1>5. CASE c.fn \in {"fetchBitrixStatus", "saveBitrixWebhook", "disconnectBitrix", "testBitrix"}
    BY <1>5, WebhookTypes DEF OrgOutcomes
<1>6. CASE c.fn \in {"fetchBitrixSnapshot", "fetchAdminWorkspaces"}
    <2>1. c.fn = "fetchAdminWorkspaces" => c.at \in {"sent", "listed"}
        BY DEF IsCall, Stage, TrainingFns
    <2> QED BY <1>6, <2>1, ListedType DEF OrgOutcomes
<1> QED BY <1>1, <1>2, <1>3, <1>4, <1>5, <1>6 DEF OrgFns

LEMMA OrgStopTypes ==
    ASSUME NEW o, IsOrg(o), NEW c, Typed(o.spaces, c), NEW x \in OrgStops(o, c)
    PROVE  OrgKeeps(o, x)
<1> DEFINE n == [o EXCEPT !.locked = FALSE]
<1>1. IsOrg(n) /\ n.spaces = o.spaces
    BY OrgWith
<1>2. x \in Refuses(o, c) \/ x \in Refuses(n, c) \/ x \in Answers(o, c, Ok)
    BY DEF OrgStops
<1>3. IsReply(c.fn, Ok)
    BY PlainReplies
<1> HIDE DEF n
<1> QED BY <1>1, <1>2, <1>3, OrgRefuses, OrgAnswers

-----------------------------------------------------------------------------
(* ModelRegistry and TrainingRequests                                      *)

LEMMA ModelTypes ==
    ASSUME NEW r \in Registries, NEW sp, NEW c, Typed(sp, c), IsCall(c), c.fn \in ModelFns, c.at # "back",
           NEW x \in ModelOutcomes(r, c)
    PROVE  Typed(sp, x.call)
<1>1. IsReply(c.fn, Ok)
    BY PlainReplies
<1>2. CASE c.fn = "listAdminModels"
    <2> DEFINE lines == {[id |-> m, status |-> r[m].status] : m \in {n \in Models : r[n].status # "unregistered"}}
    <2>1. lines \subseteq RowsOf(c.fn)
        BY <1>2 DEF Registries, ModelRow, ModelLine, RowsOf
    <2>2. x \in Answers(r, c, Rows(lines))
        BY <1>2 DEF ModelOutcomes, ListModels
    <2> HIDE DEF lines
    <2> QED BY <2>1, <2>2, PlainReplies, TypedAnswer
<1>3. CASE c.fn = "createAdminModel"
    <2>1. x \in Refuses(r, c) \/ \E n : x \in Answers(n, c, Ok)
        BY <1>3 DEF ModelOutcomes, CreateModel
    <2> QED BY <1>1, <2>1, TypedRefusal, TypedAnswer
<1>4. CASE c.fn = "actionAdminModel"
    <2>1. c.at \in {"sent", "write", "undeploy", "deploy"}
        BY <1>4 DEF IsCall, Stage, TrainingFns
    <2>2. x \in Action(r, c)
        BY <1>4 DEF ModelOutcomes
    <2>3. \/ \E n : x \in Refuses(n, c) \/ x \in Answers(n, c, Ok) \/ x \in Goes(n, c, "deploy")
          \/ \E v, at \in {"write", "undeploy", "deploy", r[c.arg].status} :
                at # "linking" /\ x \in Goes(r, [c EXCEPT !.was = v], at)
        <3>1. CASE c.at = "sent"
            <4>1. x \in ActionRead(r, c)
                BY <2>2, <3>1 DEF Action
            <4>2. \/ x \in Refuses(r, c) \/ x \in Goes(r, [c EXCEPT !.was = r[c.arg].status], "write")
                  \/ x \in Goes(r, [c EXCEPT !.was = r[c.arg].status], "undeploy")
                  \/ x \in Goes(r, [c EXCEPT !.was = r[c.arg].status], "deploy")
                BY <4>1 DEF ActionRead
            <4> QED BY <4>2
        <3>2. CASE c.at = "write"
            BY <2>2, <3>2 DEF Action, SetStatus
        <3>3. CASE c.at = "undeploy"
            BY <2>2, <3>3 DEF Action, UndeployPurpose
        <3>4. CASE c.at = "deploy"
            BY <2>2, <3>4 DEF Action, SetDeployed
        <3> QED BY <2>1, <3>1, <3>2, <3>3, <3>4
    <2>4. \A v : Typed(sp, [c EXCEPT !.was = v])
        BY TypedLocals
    <2> QED BY <1>1, <2>3, <2>4, TypedRefusal, TypedAnswer, TypedGoing
<1> QED BY <1>2, <1>3, <1>4 DEF ModelFns

LEMMA TrainingTypes ==
    ASSUME NEW q \in [Requests -> Request], NEW sp, NEW c, Typed(sp, c), IsCall(c), c.fn \in TrainingFns,
           c.at # "back", NEW x \in TrainingOutcomes(q, c)
    PROVE  x.db \in [Requests -> Request] /\ Typed(sp, x.call)
<1>1. IsReply(c.fn, Ok) /\ c.user \in Authors \cup {Admin}
    BY PlainReplies DEF Typed
<1>2. CASE c.fn \in {"fetchTrainingRequests", "fetchAdminTrainingRequests"}
    <2> DEFINE lines == {[id |-> r, status |-> q[r].status] : r \in {s \in Requests : q[s].status # "none"}}
    <2>1. lines \subseteq RowsOf(c.fn)
        BY <1>2 DEF Request, RequestLine, RowsOf
    <2>2. x \in Answers(q, c, Rows(lines))
        BY <1>2 DEF TrainingOutcomes, ListRequests
    <2> HIDE DEF lines
    <2> QED BY <2>1, <2>2, PlainReplies, TypedAnswer
<1>3. CASE c.fn = "createTrainingRequest"
    <2>1. PICK r \in Unused(q) :
             x = [db |-> [q EXCEPT ![r] = [status |-> "draft", by |-> c.user, reviewer |-> Nobody]],
                  call |-> [c EXCEPT !.at = "back", !.reply = Ok]]
        BY <1>3 DEF TrainingOutcomes, CreateRequest
    <2>2. [status |-> "draft", by |-> c.user, reviewer |-> Nobody] \in Request
        BY <1>1 DEF Request, RequestStatus
    <2>3. x.db \in [Requests -> Request]
        BY <2>1, <2>2
    <2>4. PICK y \in Answers(q, c, Ok) : y.call = x.call
        BY <2>1 DEF Answers
    <2> QED BY <1>1, <2>3, <2>4, TypedAnswer
<1>4. CASE c.fn \notin {"fetchTrainingRequests", "fetchAdminTrainingRequests", "createTrainingRequest"}
    <2>1. CASE c.at = "sent"
        <3>1. x \in TransitionRead(q, c)
            BY <1>4, <2>1 DEF TrainingOutcomes
        <3>2. x \in Refuses(q, c) \/ x \in Goes(q, [c EXCEPT !.was = q[c.arg].status], "write")
            BY <3>1 DEF TransitionRead
        <3>3. Typed(sp, [c EXCEPT !.was = q[c.arg].status])
            BY TypedLocals
        <3> QED BY <3>2, <3>3, TypedRefusal, TypedGoing
    <2>2. CASE c.at # "sent"
        <3> DEFINE status == NextTrainingStatus(c.was, c.verb)
                   who == IF Reviews(c.verb) THEN c.user ELSE Nobody
                   one == [q EXCEPT ![c.arg].status = status]
                   two == [one EXCEPT ![c.arg].reviewer = who]
        <3>1. x \in Answers(two, c, Ok)
            BY <1>4, <2>2 DEF TrainingOutcomes, UpdateStatus
        <3>2. status \in RequestStatus
            BY DEF NextTrainingStatus, RequestStatus
        <3>3. who \in {Admin, Nobody}
            BY DEF Typed
        <3> HIDE DEF status, who
        <3>4. one \in [Requests -> Request]
            BY <3>2 DEF Request
        <3> HIDE DEF one
        <3>5. two \in [Requests -> Request]
            BY <3>3, <3>4 DEF Request
        <3> HIDE DEF two
        <3> QED BY <1>1, <3>1, <3>5, TypedAnswer
    <2> QED BY <2>1, <2>2
<1> QED BY <1>2, <1>3, <1>4

-----------------------------------------------------------------------------
(* What an application of the memberships has done, as long as nobody      *)
(* changes what it is made from                                            *)

Brings(c) == c.fn \in {"syncBitrix", "applyWorkspaceMemberships"}

\* The member is there as D says, or is not of Bitrix24.
Settled(o, D, key) == /\ key \in DOMAIN o.member
                      /\ ~IsLocal(o, key) => o.member[key].role = D[key]

\* Rows that are still to be written are those that D says, the others are as D says, and
\* what D does not say is still to be removed.
RowsLeft(o, D, c) ==
    /\ \A key \in DOMAIN c.want : key \in DOMAIN D /\ c.want[key] = D[key]
    /\ \A key \in DOMAIN D \ DOMAIN c.want : Settled(o, D, key)
    /\ \A key \in DOMAIN o.member : ~IsLocal(o, key) => key \in DOMAIN D \cup c.drop
    /\ c.drop \cap DOMAIN D = {}

Applied(o) ==
    /\ \A key \in DOMAIN Desired(o) : Settled(o, Desired(o), key)
    /\ \A key \in DOMAIN o.member : ~IsLocal(o, key) => key \in DOMAIN Desired(o)

Applies(o, c) ==
    Brings(c) /\ c.calm =>
       /\ c.at \in {"links", "people"} => c.seen = Mixed(o.structure, NoStructure)
       /\ c.at = "people" => c.links = o.link
       /\ c.at = "members" => c.want = Desired(o)
       /\ c.at = "rows" => RowsLeft(o, Desired(o), c)
       /\ c.at = "back" /\ c.reply.ok /\ c.reply.flag => Applied(o)

LEMMA AppliesElsewhere ==
    ASSUME NEW o, NEW n, NEW c, Applies(o, c), n.structure = o.structure, n.link = o.link, n.member = o.member
    PROVE  Applies(n, c)
BY DEF Applies, Applied, RowsLeft, Settled, IsLocal, Desired

\* The fields on which it depends.
LEMMA GoneWith ==
    ASSUME NEW d, NEW c, DOMAIN c = Fields, NEW at, NEW x \in Goes(d, c, at)
    PROVE  /\ x.db = d /\ DOMAIN x.call = Fields /\ x.call.at = at /\ x.call.fn = c.fn /\ x.call.calm = c.calm
           /\ x.call.seen = c.seen /\ x.call.links = c.links /\ x.call.want = c.want /\ x.call.drop = c.drop
BY DEF Goes, Fields

LEMMA LocalIs ==
    ASSUME NEW c, DOMAIN c = Fields, NEW v
    PROVE  /\ LET e == [c EXCEPT !.calm = v]
              IN  /\ DOMAIN e = Fields /\ e.fn = c.fn /\ e.at = c.at /\ e.calm = v /\ e.seen = c.seen
                  /\ e.links = c.links /\ e.want = c.want /\ e.drop = c.drop
           /\ LET e == [c EXCEPT !.seen = v]
              IN  /\ DOMAIN e = Fields /\ e.fn = c.fn /\ e.at = c.at /\ e.calm = c.calm /\ e.seen = v
                  /\ e.links = c.links /\ e.want = c.want /\ e.drop = c.drop
           /\ LET e == [c EXCEPT !.links = v]
              IN  /\ DOMAIN e = Fields /\ e.fn = c.fn /\ e.at = c.at /\ e.calm = c.calm /\ e.seen = c.seen
                  /\ e.links = v /\ e.want = c.want /\ e.drop = c.drop
           /\ LET e == [c EXCEPT !.want = v]
              IN  /\ DOMAIN e = Fields /\ e.fn = c.fn /\ e.at = c.at /\ e.calm = c.calm /\ e.seen = c.seen
                  /\ e.links = c.links /\ e.want = v /\ e.drop = c.drop
           /\ LET e == [c EXCEPT !.drop = v]
              IN  /\ DOMAIN e = Fields /\ e.fn = c.fn /\ e.at = c.at /\ e.calm = c.calm /\ e.seen = c.seen
                  /\ e.links = c.links /\ e.want = c.want /\ e.drop = v
BY DEF Fields

LEMMA ReadApplies ==
    ASSUME NEW o, IsOrg(o), NEW c, Typed(o.spaces, c), Applies(o, c),
           NEW x, \/ x \in ReadDepartments(o, c)
                  \/ c.at = "links" /\ x \in ReadLinks(o, c)
                  \/ c.at = "people" /\ x \in ReadPeople(o, c)
                  \/ c.at = "members" /\ x \in ReadMembers(o, c)
    PROVE  Applies(x.db, x.call)
<1>1. DOMAIN c = Fields /\ IsStructure(c.seen) /\ IsStructure(o.structure)
    BY DEF Typed, IsOrg
<1>2. CASE x \in ReadDepartments(o, c)
    <2> DEFINE a == [c EXCEPT !.calm = TRUE]
               s == [NoStructure EXCEPT !.parent = o.structure.parent, !.head = o.structure.head]
               b == [a EXCEPT !.seen = s]
    <2>1. x \in Goes(o, b, "links")
        BY <1>2 DEF ReadDepartments
    <2>2. s = Mixed(o.structure, NoStructure)
        BY <1>1, WithoutStructure, MixedStructure
    <2>3. DOMAIN a = Fields
        BY <1>1, LocalIs
    <2> HIDE DEF a, s
    <2>4. DOMAIN b = Fields /\ b.seen = s
        BY <2>3, LocalIs
    <2> HIDE DEF b
    <2>5. x.db = o /\ x.call.at = "links" /\ x.call.seen = s
        BY <2>1, <2>4, GoneWith
    <2> QED BY <2>2, <2>5 DEF Applies
<1>3. CASE c.at = "links" /\ x \in ReadLinks(o, c)
    <2> DEFINE b == [c EXCEPT !.links = o.link]
    <2>1. x \in Goes(o, b, "people")
        BY <1>3 DEF ReadLinks
    <2>2. DOMAIN b = Fields /\ b.seen = c.seen /\ b.links = o.link /\ b.calm = c.calm /\ b.fn = c.fn
        BY <1>1, LocalIs
    <2> HIDE DEF b
    <2>3. /\ x.db = o /\ x.call.at = "people" /\ x.call.seen = c.seen /\ x.call.links = o.link
          /\ x.call.calm = c.calm /\ x.call.fn = c.fn
        BY <2>1, <2>2, GoneWith
    <2> QED BY <1>3, <2>3 DEF Applies, Brings
<1>4. CASE c.at = "people" /\ x \in ReadPeople(o, c)
    <2> DEFINE s == [c.seen EXCEPT !.in = o.structure.in, !.active = o.structure.active]
               D == DesiredBitrixMemberships(s, DepartmentCoverage(s, c.links))
               one == [c EXCEPT !.want = D]
               two == [one EXCEPT !.seen = NoStructure]
               three == [two EXCEPT !.links = <<>>]
    <2>1. x \in Goes(o, three, "members")
        BY <1>4 DEF ReadPeople
    <2>2. s = Mixed(c.seen, o.structure)
        <3>1. \A a, b : IsStructure(a) /\ IsStructure(b)
                        => [a EXCEPT !.in = b.in, !.active = b.active] = Mixed(a, b)
            BY MixedStructure
        <3> HIDE DEF D, one, two, three
        <3> QED BY <1>1, <3>1
    <2>3. c.seen = Mixed(o.structure, NoStructure) => s = o.structure
        BY <1>1, <2>2 DEF Mixed, IsStructure
    <2> HIDE DEF s
    <2>4. c.seen = Mixed(o.structure, NoStructure) /\ c.links = o.link => D = Desired(o)
        BY <2>3 DEF Desired
    <2> HIDE DEF D
    <2>5. DOMAIN one = Fields /\ one.want = D /\ one.calm = c.calm /\ one.fn = c.fn
        BY <1>1, LocalIs
    <2> HIDE DEF one
    <2>6. DOMAIN two = Fields /\ two.want = D /\ two.calm = c.calm /\ two.fn = c.fn
        BY <2>5, LocalIs
    <2> HIDE DEF two
    <2>7. DOMAIN three = Fields /\ three.want = D /\ three.calm = c.calm /\ three.fn = c.fn
        BY <2>6, LocalIs
    <2> HIDE DEF three
    <2>8. x.db = o /\ x.call.at = "members" /\ x.call.calm = c.calm /\ x.call.fn = c.fn /\ x.call.want = D
        BY <2>1, <2>7, GoneWith
    <2> QED BY <1>4, <2>4, <2>8 DEF Applies, Brings
<1>5. CASE c.at = "members" /\ x \in ReadMembers(o, c)
    <2> DEFINE have == {key \in DOMAIN o.member : o.member[key].source = "bitrix"}
               same == {key \in have \cap DOMAIN c.want : o.member[key].role = c.want[key]}
               want == [key \in DOMAIN c.want \ same |-> c.want[key]]
               drop == have \ DOMAIN c.want
               one == [c EXCEPT !.want = want]
               two == [one EXCEPT !.drop = drop]
    <2>1. x \in Goes(o, two, "rows")
        BY <1>5 DEF ReadMembers
    <2>2. DOMAIN want = DOMAIN c.want \ same /\ \A key \in DOMAIN want : want[key] = c.want[key]
        OBVIOUS
    <2>3. \A key \in same : key \in DOMAIN o.member /\ o.member[key].role = c.want[key]
        OBVIOUS
    <2>4. \A key \in DOMAIN o.member : ~IsLocal(o, key) => key \in have
        BY DEF IsOrg, Member, IsLocal, Range
    <2>5. drop = have \ DOMAIN c.want
        OBVIOUS
    <2> HIDE DEF want, drop, same, have
    <2>6. DOMAIN one = Fields /\ one.want = want /\ one.calm = c.calm /\ one.fn = c.fn
        BY <1>1, LocalIs
    <2> HIDE DEF one
    <2>7. DOMAIN two = Fields /\ two.want = want /\ two.drop = drop /\ two.calm = c.calm /\ two.fn = c.fn
        BY <2>6, LocalIs
    <2> HIDE DEF two
    <2>8. /\ x.db = o /\ x.call.at = "rows" /\ x.call.calm = c.calm /\ x.call.fn = c.fn
          /\ x.call.want = want /\ x.call.drop = drop
        BY <2>1, <2>7, GoneWith
    <2>9. ASSUME c.want = Desired(o) PROVE RowsLeft(o, Desired(o), x.call)
        <3> DEFINE D == Desired(o)
        <3>1. /\ DOMAIN want = DOMAIN D \ same /\ \A key \in DOMAIN want : want[key] = D[key]
              /\ drop = have \ DOMAIN D
              /\ \A key \in same : key \in DOMAIN o.member /\ o.member[key].role = D[key]
            BY <2>2, <2>3, <2>5, <2>9
        <3> HIDE DEF D
        <3>2. RowsLeft(o, D, x.call)
            BY <2>4, <2>8, <3>1 DEF RowsLeft, Settled
        <3> QED BY <3>2 DEF D
    <2> QED BY <1>5, <2>8, <2>9 DEF Applies, Brings
<1> QED BY <1>2, <1>3, <1>4, <1>5

\* One row is written: D and the rows that are left stay as they must be.
LEMMA RowWritten ==
    ASSUME NEW o, NEW n, NEW D, NEW c, NEW e, RowsLeft(o, D, c), NEW key \in DOMAIN c.want,
           n.member = IF IsLocal(o, key) THEN o.member
                      ELSE With(o.member, key, [role |-> c.want[key], source |-> "bitrix"]),
           e.want = Without(c.want, key), e.drop = c.drop
    PROVE  RowsLeft(n, D, e)
<1> DEFINE row == [role |-> c.want[key], source |-> "bitrix"]
           want == c.want
           left == e.want
           was == o.member
           member == n.member
<1>1. DOMAIN left = DOMAIN want \ {key} /\ \A k \in DOMAIN want \ {key} : left[k] = want[k]
    BY DEF Without
<1>2. key \in DOMAIN D /\ want[key] = D[key]
    BY DEF RowsLeft
<1>3. CASE IsLocal(o, key)
    <2>1. member = was
        BY <1>3
    <2>2. \A k : (IsLocal(n, k) <=> IsLocal(o, k)) /\ (Settled(n, D, k) <=> Settled(o, D, k))
        BY <2>1 DEF IsLocal, Settled
    <2>3. Settled(n, D, key)
        BY <1>3, <2>2 DEF IsLocal, Settled
    <2> QED BY <1>1, <2>1, <2>2, <2>3 DEF RowsLeft
<1>4. CASE ~IsLocal(o, key)
    <2>1. member = With(was, key, row)
        BY <1>4
    <2>2. row.role = D[key] /\ row.source # "local"
        BY <1>2
    <2> HIDE DEF row
    <2>3. /\ DOMAIN member = DOMAIN was \cup {key} /\ member[key] = row
          /\ \A k \in DOMAIN was \ {key} : member[k] = was[k]
        BY <2>1 DEF With
    <2>4. Settled(n, D, key)
        BY <2>2, <2>3 DEF Settled, IsLocal
    <2>5. \A k : k # key => (IsLocal(n, k) <=> IsLocal(o, k)) /\ (Settled(n, D, k) <=> Settled(o, D, k))
        BY <2>3 DEF IsLocal, Settled
    <2> QED BY <1>1, <1>2, <2>3, <2>4, <2>5 DEF RowsLeft
<1> QED BY <1>3, <1>4

LEMMA RowRemoved ==
    ASSUME NEW o, NEW n, NEW D, NEW c, NEW e, RowsLeft(o, D, c), NEW key \in c.drop,
           n.member = IF key \notin DOMAIN o.member \/ IsLocal(o, key) THEN o.member ELSE Without(o.member, key),
           e.want = c.want, e.drop = c.drop \ {key}
    PROVE  RowsLeft(n, D, e)
<1> DEFINE was == o.member
           member == n.member
<1>1. key \notin DOMAIN D
    BY DEF RowsLeft
<1>2. /\ DOMAIN member \subseteq DOMAIN was /\ \A k \in DOMAIN was : k # key => k \in DOMAIN member
      /\ \A k \in DOMAIN member : member[k] = was[k]
      /\ key \in DOMAIN member => IsLocal(o, key)
    BY DEF Without
<1>3. /\ \A k : k # key => (IsLocal(n, k) <=> IsLocal(o, k)) /\ (Settled(n, D, k) <=> Settled(o, D, k))
      /\ key \in DOMAIN member => IsLocal(n, key)
    BY <1>2 DEF IsLocal, Settled
<1> QED BY <1>1, <1>2, <1>3 DEF RowsLeft

LEMMA RowApplies ==
    ASSUME NEW o, IsOrg(o), NEW c, Typed(o.spaces, c), Applies(o, c), c.at = "rows", Brings(c),
           NEW x \in ApplyRows(o, c)
    PROVE  Applies(x.db, x.call)
<1> DEFINE D == Desired(o)
<1>1. DOMAIN c = Fields /\ DOMAIN o = OrgTables
    BY DEF Typed, IsOrg
<1>2. CASE x \in ApplyWanted(o, c)
    <2>1. PICK key \in DOMAIN c.want, found \in BOOLEAN :
             x = [db |-> IF found /\ IsLocal(o, key) THEN o
                         ELSE [o EXCEPT !.member = UpsertBitrixMember(@, key, c.want[key])],
                  call |-> [c EXCEPT !.want = Without(@, key)]]
        BY <1>2 DEF ApplyWanted
    <2> DEFINE e == [c EXCEPT !.want = Without(c.want, key)]
    <2>2. x.call = e
        BY <2>1
    <2>3. e.at = "rows" /\ e.fn = c.fn /\ e.calm = c.calm /\ e.drop = c.drop /\ e.want = Without(c.want, key)
        BY <1>1, LocalIs
    <2> HIDE DEF e
    <2>4. /\ x.db.structure = o.structure /\ x.db.link = o.link
          /\ x.db.member = IF IsLocal(o, key) THEN o.member
                           ELSE With(o.member, key, [role |-> c.want[key], source |-> "bitrix"])
        BY <1>1, <2>1 DEF OrgTables, UpsertBitrixMember, IsLocal
    <2>5. Desired(x.db) = D
        BY <2>4 DEF Desired
    <2> HIDE DEF D
    <2>6. RowsLeft(o, D, c) => RowsLeft(x.db, D, e)
        BY <2>3, <2>4, RowWritten
    <2> QED BY <2>2, <2>3, <2>5, <2>6 DEF Applies, Brings, D
<1>3. CASE x \in DeleteUnwanted(o, c)
    <2>1. PICK key \in c.drop :
             x = [db |-> IF key \notin DOMAIN o.member \/ IsLocal(o, key) THEN o
                         ELSE [o EXCEPT !.member = Without(@, key)],
                  call |-> [c EXCEPT !.drop = @ \ {key}]]
        BY <1>3 DEF DeleteUnwanted
    <2> DEFINE e == [c EXCEPT !.drop = c.drop \ {key}]
    <2>2. x.call = e
        BY <2>1
    <2>3. e.at = "rows" /\ e.fn = c.fn /\ e.calm = c.calm /\ e.drop = c.drop \ {key} /\ e.want = c.want
        BY <1>1, LocalIs
    <2> HIDE DEF e
    <2>4. /\ x.db.structure = o.structure /\ x.db.link = o.link
          /\ x.db.member = IF key \notin DOMAIN o.member \/ IsLocal(o, key) THEN o.member
                           ELSE Without(o.member, key)
        BY <1>1, <2>1 DEF OrgTables
    <2>5. Desired(x.db) = D
        BY <2>4 DEF Desired
    <2> HIDE DEF D
    <2>6. RowsLeft(o, D, c) => RowsLeft(x.db, D, e)
        BY <2>3, <2>4, RowRemoved
    <2> QED BY <2>2, <2>3, <2>5, <2>6 DEF Applies, Brings, D
<1>4. CASE x \in Answers(o, c, [Ok EXCEPT !.flag = TRUE]) /\ DOMAIN c.want = {} /\ c.drop = {}
    <2>1. PICK b : b = [c EXCEPT !.at = "back"]
                   /\ x = [db |-> o, call |-> [b EXCEPT !.reply = [Ok EXCEPT !.flag = TRUE]]]
        BY <1>4 DEF Answers
    <2>2. DOMAIN b = Fields /\ b.at = "back" /\ b.fn = c.fn /\ b.calm = c.calm
        BY <1>1, <2>1 DEF Fields
    <2>3. x.db = o /\ x.call.at = "back" /\ x.call.fn = c.fn /\ x.call.calm = c.calm
        BY <2>1, <2>2 DEF Fields
    <2>4. RowsLeft(o, D, c) => Applied(o)
        BY <1>4 DEF RowsLeft, Applied
    <2> QED BY <2>3, <2>4 DEF Applies, Brings
<1>5. \/ x \in ApplyWanted(o, c)
      \/ x \in DeleteUnwanted(o, c)
      \/ x \in Answers(o, c, [Ok EXCEPT !.flag = TRUE]) /\ DOMAIN c.want = {} /\ c.drop = {}
    BY DEF ApplyRows
<1> QED BY <1>2, <1>3, <1>4, <1>5

LEMMA ApplyApplies ==
    ASSUME NEW o, IsOrg(o), NEW c, Typed(o.spaces, c), Applies(o, c), Brings(c), c.at \in {"sent"} \cup Reading,
           NEW x \in ApplyMemberships(o, c)
    PROVE  Applies(x.db, x.call)
<1>1. \/ x \in ReadDepartments(o, c)
      \/ (c.at = "links" /\ x \in ReadLinks(o, c))
      \/ (c.at = "people" /\ x \in ReadPeople(o, c))
      \/ (c.at = "members" /\ x \in ReadMembers(o, c))
      \/ (c.at = "rows" /\ x \in ApplyRows(o, c))
    BY DEF ApplyMemberships, Reading
<1> QED BY <1>1, ReadApplies, RowApplies

\* Nothing is due of a call that has not begun to read, or did not answer that it is done.
LEMMA NothingDue ==
    ASSUME NEW o, NEW c, \/ c.at \in {"asked", "departments"}
                        \/ (c.at = "back" /\ ~(c.reply.ok /\ c.reply.flag))
                        \/ ~Brings(c)
    PROVE  Applies(o, c)
BY DEF Applies

LEMMA NotDone ==
    ASSUME NEW o, NEW n, NEW c, IsCall(c), NEW x, x \in Refuses(n, c) \/ x \in Answers(n, c, Ok)
    PROVE  Applies(o, x.call)
<1>1. ~Err.ok /\ ~Ok.flag
    BY DEF Err, Ok
<1>2. x.call.at = "back" /\ (x.call.reply = Err \/ x.call.reply = Ok)
    BY Answered DEF Refuses
<1> QED BY <1>1, <1>2, NothingDue

LEMMA SyncApplies ==
    ASSUME NEW o, IsOrg(o), NEW c, Typed(o.spaces, c), IsCall(c), Applies(o, c), c.fn = "syncBitrix",
           c.at # "back", NEW x \in Sync(o, c)
    PROVE  Applies(x.db, x.call)
<1>1. c.at \in {"sent", "asked"} \cup Reading /\ DOMAIN c = Fields
    BY DEF IsCall, Stage, TrainingFns
<1>2. CASE c.at = "sent"
    <2>1. x \in Refuses(o, c) \/ x \in Goes([o EXCEPT !.locked = TRUE], c, "asked")
        BY <1>2 DEF Sync, SyncStart, Reading
    <2>2. ASSUME x \in Goes([o EXCEPT !.locked = TRUE], c, "asked") PROVE x.call.at = "asked"
        BY <1>1, <2>2, GoneWith
    <2>3. CASE x \in Refuses(o, c)
        BY <2>3, NotDone
    <2>4. CASE x \in Goes([o EXCEPT !.locked = TRUE], c, "asked")
        <3>1. x.call.at \in {"asked", "departments"}
            BY <2>2, <2>4
        <3> QED BY <3>1, NothingDue
    <2> QED BY <2>1, <2>3, <2>4
<1>3. CASE c.at = "asked"
    <2> DEFINE failed == [o EXCEPT !.run = "FAILED", !.locked = FALSE]
    <2>1. x \in Refuses(failed, c) \/ \E n : x \in Goes(n, c, "departments")
        BY <1>3 DEF Sync, SyncAnswered, Reading
    <2> HIDE DEF failed
    <2>2. CASE x \in Refuses(failed, c)
        BY <2>2, NotDone
    <2>3. CASE \E n : x \in Goes(n, c, "departments")
        <3>1. x.call.at \in {"asked", "departments"}
            BY <1>1, <2>3, GoneWith
        <3> QED BY <3>1, NothingDue
    <2> QED BY <2>1, <2>2, <2>3
<1>4. CASE c.at \in Reading
    <2>1. x \in ApplyMemberships(o, c)
        BY <1>4 DEF Sync, Reading
    <2> QED BY <1>4, <2>1, ApplyApplies DEF Brings
<1> QED BY <1>1, <1>2, <1>3, <1>4

LEMMA OrgIsGood ==
    ASSUME NEW o, IsOrg(o)
    PROVE  Good(o)
<1>1. \A key \in DOMAIN o.member : key[1] \in o.spaces
    BY DEF IsOrg
<1> QED BY <1>1 DEF IsOrg, Good, Housed

LEMMA OrgApplies ==
    ASSUME NEW o, IsOrg(o), NEW c, Typed(o.spaces, c), IsCall(c), Applies(o, c), c.fn \in OrgFns,
           c.at # "back", NEW x \in OrgOutcomes(o, c)
    PROVE  Applies(x.db, x.call)
<1>1. x.call.fn = c.fn
    BY OrgSteps, OrgIsGood DEF Step, Continues
<1>2. CASE ~Brings(c)
    BY <1>1, <1>2, NothingDue DEF Brings
<1>3. CASE c.fn = "syncBitrix"
    <2>1. x \in Sync(o, c)
        BY <1>3 DEF OrgOutcomes
    <2> QED BY <1>3, <2>1, SyncApplies
<1>4. CASE c.fn = "applyWorkspaceMemberships"
    <2>1. c.at \in {"sent"} \cup Reading
        BY <1>4 DEF IsCall, Stage, TrainingFns
    <2>2. x \in ApplyMemberships(o, c)
        BY <1>4 DEF OrgOutcomes
    <2> QED BY <1>4, <2>1, <2>2, ApplyApplies DEF Brings
<1> QED BY <1>2, <1>3, <1>4 DEF Brings

LEMMA OrgStopApplies ==
    ASSUME NEW o, NEW c, IsCall(c), NEW x \in OrgStops(o, c)
    PROVE  Applies(x.db, x.call)
<1>1. x \in Refuses(o, c) \/ x \in Refuses([o EXCEPT !.locked = FALSE], c) \/ x \in Answers(o, c, Ok)
    BY DEF OrgStops
<1> QED BY <1>1, NotDone

\* Places(w, u): where the structure and the links put the user u into the workspace w.
Places(o, w, u) ==
    LET coverage == DepartmentCoverage(o.structure, o.link)
    IN  {x \in o.structure.active \X DOMAIN coverage :
            /\ x[2] \in o.structure.in[x[1]]
            /\ coverage[x[2]] = w /\ Account[x[1]] = u}

LEMMA AppliedPlaces ==
    ASSUME NEW o, Applied(o), NEW w, NEW u \in Users, ~IsLocal(o, <<w, u>>)
    PROVE  /\ <<w, u>> \in DOMAIN o.member <=> Places(o, w, u) # {}
           /\ <<w, u>> \in DOMAIN o.member =>
                 (o.member[<<w, u>>].role = "department_manager"
                  <=> \E x \in Places(o, w, u) : o.structure.head[x[2]] = x[1])
<1> DEFINE C == DepartmentCoverage(o.structure, o.link)
           D == Desired(o)
           s == o.structure
           key == <<w, u>>
           P == {x \in s.active \X DOMAIN C : Account[x[1]] # Nobody /\ x[2] \in s.in[x[1]]}
           Key(x) == <<C[x[2]], Account[x[1]]>>
           Heads(k) == \E x \in P : Key(x) = k /\ s.head[x[2]] = x[1]
<1>1. u # Nobody
    BY AccountIsOne
<1>2. Places(o, w, u) = {x \in P : Key(x) = key}
    BY <1>1 DEF Places
<1>3. DOMAIN D = {Key(x) : x \in P}
    BY DEF Desired, DesiredBitrixMemberships
<1>4. \A k \in DOMAIN D : D[k] = IF Heads(k) THEN "department_manager" ELSE "employee"
    BY DEF Desired, DesiredBitrixMemberships
<1> HIDE DEF P, C, D
<1>5. key \in DOMAIN D <=> Places(o, w, u) # {}
    BY <1>2, <1>3
<1>6. key \in DOMAIN D => (D[key] = "department_manager"
                           <=> \E x \in Places(o, w, u) : s.head[x[2]] = x[1])
    BY <1>2, <1>4
<1> HIDE DEF Key, Heads
<1>7. key \in DOMAIN o.member <=> key \in DOMAIN D
    BY DEF Applied, Settled, D
<1>8. key \in DOMAIN D => o.member[key].role = D[key]
    BY DEF Applied, Settled, D
<1> QED BY <1>5, <1>6, <1>7, <1>8

-----------------------------------------------------------------------------
(* One name, one model                                                     *)

\* If no other model of the purpose has come into service since UndeployPurpose, none is.
Cleared(r, c) == IsDeployment(c) /\ c.calm => Rivals(r, c) = {}

\* What a command about models makes of the table: it serves no model that was not served,
\* unless it is a deployment, which serves its own.
LEMMA CommandServes ==
    ASSUME NEW r \in Registries, NEW c, IsCall(c), ModelCall(c), c.fn \in ModelFns, c.at # "back",
           NEW x \in ModelOutcomes(r, c)
    PROVE  /\ Cleared(x.db, x.call)
           /\ \/ \A m \in Models : x.db[m].status = "deployed" => x.db[m] = r[m]
              \/ /\ c.fn = "actionAdminModel" /\ c.at = "deploy" /\ c.arg \in Models
                 /\ x.call.at = "back" /\ x.db[c.arg] = [status |-> "deployed", alias |-> AliasOf(c.arg)]
                 /\ \A m \in Models \ {c.arg} : x.db[m] = r[m]
<1> DEFINE Fewer(n) == \A m \in Models : n[m].status = "deployed" => n[m] = r[m]
<1>1. CASE c.fn = "listAdminModels"
    <2>1. x.db = r /\ x.call.fn = c.fn
        BY <1>1, Answered DEF ModelOutcomes, ListModels, Continues
    <2> QED BY <1>1, <2>1 DEF Cleared, IsDeployment
<1>2. CASE c.fn = "createAdminModel"
    <2>1. x \in Refuses(r, c) \/ x \in Answers([r EXCEPT ![c.arg].status = "quarantine"], c, Ok)
        BY <1>2 DEF ModelOutcomes, CreateModel
    <2>2. x.call.fn = c.fn /\ (x.db = r \/ x.db = [r EXCEPT ![c.arg].status = "quarantine"])
        BY <2>1, Answered DEF Refuses, Continues
    <2>3. c.arg \in Models
        BY <1>2 DEF ModelCall
    <2>4. Fewer([r EXCEPT ![c.arg].status = "quarantine"])
        BY <2>3 DEF Registries, ModelRow
    <2> QED BY <1>2, <2>2, <2>4 DEF Cleared, IsDeployment
<1>3. CASE c.fn = "actionAdminModel"
    <2>1. c.arg \in Models /\ c.verb \in Verbs /\ c.at \in {"sent", "write", "undeploy", "deploy"}
          /\ x \in Action(r, c) /\ DOMAIN c = Fields
        BY <1>3 DEF ModelCall, IsCall, Stage, TrainingFns, ModelOutcomes
    <2>2. ASSUME x \in Refuses(r, c) PROVE Cleared(x.db, x.call) /\ Fewer(x.db)
        <3>1. x.db = r /\ x.call.at = "back"
            BY <2>2, Answered DEF Refuses
        <3> QED BY <3>1 DEF Cleared, IsDeployment
    <2>3. CASE c.at = "sent"
        <3> DEFINE b == [c EXCEPT !.was = r[c.arg].status]
        <3>1. \/ x \in Refuses(r, c)
              \/ \E at : x \in Goes(r, b, at) /\ (at = "deploy" => PurposeOf[c.arg] \notin Exclusive)
            BY <2>1, <2>3 DEF Action, ActionRead
        <3>2. ASSUME NEW at, x \in Goes(r, b, at), at = "deploy" => PurposeOf[c.arg] \notin Exclusive
              PROVE  Cleared(x.db, x.call) /\ Fewer(x.db)
            <4>1. DOMAIN b = Fields /\ b.arg = c.arg
                BY <2>1 DEF Fields
            <4> HIDE DEF b
            <4>2. x.db = r /\ x.call.at = at /\ x.call.arg = c.arg
                BY <3>2, <4>1 DEF Goes, Fields
            <4> QED BY <3>2, <4>2 DEF Cleared, IsDeployment
        <3> HIDE DEF b
        <3> QED BY <2>2, <3>1, <3>2
    <2>4. CASE c.at = "write"
        <3> DEFINE n == [r EXCEPT ![c.arg].status = Target(c.verb)]
        <3>1. x \in Refuses(r, c) \/ x \in Answers(n, c, Ok)
            BY <2>1, <2>4 DEF Action, SetStatus
        <3>2. Target(c.verb) # "deployed"
            BY <1>3, <2>1, <2>4 DEF Verbs, Target, ModelCall
        <3>3. \A m \in Models : IF m = c.arg THEN n[m].status # "deployed" ELSE n[m] = r[m]
            BY <2>1, <3>2 DEF Registries, ModelRow
        <3> HIDE DEF n
        <3>4. Fewer(n)
            BY <3>3
        <3>5. x \in Answers(n, c, Ok) => x.db = n /\ x.call.at = "back"
            BY Answered
        <3> QED BY <2>2, <3>1, <3>4, <3>5 DEF Cleared, IsDeployment
    <2>5. CASE c.at = "undeploy"
        <3> DEFINE n == [m \in Models |-> IF m \in Rivals(r, c)
                                          THEN [status |-> "approved", alias |-> Nobody] ELSE r[m]]
        <3>1. x \in Goes(n, c, "deploy")
            BY <2>1, <2>5 DEF Action, UndeployPurpose
        <3>2. /\ \A m \in Models : n[m].status = "deployed" => n[m] = r[m]
              /\ \A m \in Models \ {c.arg} : PurposeOf[m] = PurposeOf[c.arg] => n[m].status # "deployed"
            BY DEF Rivals
        <3> HIDE DEF n
        <3>3. x.db = n /\ x.call.arg = c.arg
            BY <2>1, <3>1 DEF Goes, Fields
        <3>4. Rivals(x.db, x.call) = {}
            BY <3>2, <3>3 DEF Rivals
        <3> QED BY <3>2, <3>3, <3>4 DEF Cleared
    <2>6. CASE c.at = "deploy"
        <3> DEFINE row == [status |-> "deployed", alias |-> AliasOf(c.arg)]
                   n == [r EXCEPT ![c.arg] = row]
        <3>1. x \in Refuses(r, c) \/ x \in Answers(n, c, Ok)
            BY <2>1, <2>6 DEF Action, SetDeployed
        <3>2. \A m \in Models : n[m] = IF m = c.arg THEN row ELSE r[m]
            BY <2>1 DEF Registries
        <3> HIDE DEF n
        <3>3. x \in Answers(n, c, Ok) => x.db = n /\ x.call.at = "back"
            BY Answered
        <3> HIDE DEF row
        <3>4. x \in Answers(n, c, Ok) =>
                 /\ Cleared(x.db, x.call) /\ x.call.at = "back" /\ x.db[c.arg] = row
                 /\ \A m \in Models \ {c.arg} : x.db[m] = r[m]
            BY <2>1, <3>2, <3>3 DEF Cleared, IsDeployment
        <3> QED BY <1>3, <2>1, <2>2, <2>6, <3>1, <3>4 DEF row
    <2> QED BY <2>1, <2>3, <2>4, <2>5, <2>6
<1> QED BY <1>1, <1>2, <1>3 DEF ModelFns

LEMMA CommandNames ==
    ASSUME NEW r \in Registries, NEW c, IsCall(c), ModelCall(c), c.fn \in ModelFns, c.at # "back",
           IsNamed(r), NEW x \in ModelOutcomes(r, c)
    PROVE  IsNamed(x.db)
<1>1. CASE \A m \in Models : x.db[m].status = "deployed" => x.db[m] = r[m]
    BY <1>1 DEF IsNamed
<1>2. CASE /\ x.db[c.arg] = [status |-> "deployed", alias |-> AliasOf(c.arg)]
           /\ \A m \in Models \ {c.arg} : x.db[m] = r[m]
    BY <1>2 DEF IsNamed
<1> QED BY <1>1, <1>2, CommandServes

\* Models of which none has the name of a purpose share a name only if they share a purpose.
LEMMA SharedNames ==
    ASSUME NEW m \in Models \ Exclusive, NEW n \in Models \ Exclusive, m # n, AliasOf(m) = AliasOf(n)
    PROVE  PurposeOf[m] \in Exclusive /\ PurposeOf[n] = PurposeOf[m]
<1>1. PurposeOf[m] \in Purposes /\ PurposeOf[n] \in Purposes
    BY PurposesKnown
<1>2. \A k \in Models : PurposeOf[k] \in Purposes =>
         AliasOf(k) = IF PurposeOf[k] \in Exclusive THEN PurposeOf[k] ELSE k
    BY DEF AliasOf, Exclusive, Purposes
<1> QED BY <1>1, <1>2

\* Only a deployment that is no longer calm gives two models one name.
LEMMA OverlapShares ==
    ASSUME NEW r \in Registries, NEW c, IsCall(c), ModelCall(c), c.fn \in ModelFns, c.at # "back",
           IsNamed(r), Cleared(r, c), NEW x \in ModelOutcomes(r, c),
           NEW m \in Models \ Exclusive, NEW n \in Models \ Exclusive, m # n,
           ShareAlias(x.db, m, n), ~ShareAlias(r, m, n)
    PROVE  IsDeployment(c) /\ ~c.calm /\ c.arg \in {m, n} /\ x.call.at = "back"
<1>1. ~ \A k \in Models : x.db[k].status = "deployed" => x.db[k] = r[k]
    BY DEF ShareAlias
<1>2. /\ c.fn = "actionAdminModel" /\ c.at = "deploy" /\ c.arg \in Models /\ x.call.at = "back"
      /\ x.db[c.arg] = [status |-> "deployed", alias |-> AliasOf(c.arg)]
      /\ \A k \in Models \ {c.arg} : x.db[k] = r[k]
    BY <1>1, CommandServes
<1>3. c.arg \in {m, n}
    BY <1>2 DEF ShareAlias
<1>4. PICK k \in Models \ Exclusive : k # c.arg /\ {k, c.arg} = {m, n}
    BY <1>3
<1>5. r[k].status = "deployed" /\ AliasOf(k) = AliasOf(c.arg)
    BY <1>2, <1>4 DEF ShareAlias, IsNamed
<1>6. PurposeOf[c.arg] \in Exclusive /\ PurposeOf[k] = PurposeOf[c.arg]
    BY <1>3, <1>4, <1>5, SharedNames
<1>7. IsDeployment(c) /\ k \in Rivals(r, c)
    BY <1>2, <1>4, <1>5, <1>6 DEF IsDeployment, Rivals
<1> QED BY <1>2, <1>3, <1>7 DEF Cleared
=============================================================================
