----------------------------- MODULE DiskProofs -----------------------------
(***************************************************************************)
(* Machine-checked lemmas about the handlers of WorkspaceDisk and the      *)
(* orders of FileView, whatever the disk and the request: what a handler   *)
(* leaves of the rows, the folders and the objects.  FileManagerProofs     *)
(* builds on them.                                                         *)
(***************************************************************************)
EXTENDS FileView, SequenceTheorems, FiniteSetTheorems, WellFoundedInduction, TLAPS

-----------------------------------------------------------------------------
(* Numbers: the induction theorems of the library take an operator, so     *)
(* induction is had from a well-founded order of sets instead.             *)

LEMMA Least ==
    ASSUME NEW S \in SUBSET Nat, S # {}
    PROVE  \E m \in S : \A k \in S : m <= k
<1> DEFINE T == {0..k : k \in S}
<1>1. \A k \in S : 0..k \in FiniteSubsetsOf(Nat)
    <2> TAKE k \in S
    <2>1. k \in Int /\ 0 \in Int
        OBVIOUS
    <2>2. IsFiniteSet(0..k)
        BY <2>1, FS_Interval
    <2>3. 0..k \in SUBSET Nat
        OBVIOUS
    <2> QED BY <2>2, <2>3 DEF FiniteSubsetsOf
<1>2. T \subseteq FiniteSubsetsOf(Nat) /\ T # {}
    BY <1>1
<1> HIDE DEF T
<1>3. PICK x \in T : \A y \in T : <<y, x>> \notin StrictSubsetOrdering(Nat)
    BY <1>2, FS_StrictSubsetOrderingWellFounded, WFMin
<1>4. PICK m \in S : x = 0..m
    BY DEF T
<1>5. ASSUME NEW k \in S, k < m
      PROVE  FALSE
    <2>1. m \in 0..m /\ m \notin 0..k /\ 0..k \in T
        BY <1>5 DEF T
    <2>2. 0..k \subseteq 0..m /\ 0..k # 0..m /\ 0..m \in SUBSET Nat /\ 0..k \in SUBSET Nat
        BY <1>5, <2>1
    <2>3. <<0..k, 0..m>> \in StrictSubsetOrdering(Nat)
        BY <2>2 DEF StrictSubsetOrdering
    <2> QED BY <1>3, <1>4, <2>1, <2>3
<1> QED BY <1>5

LEMMA Induct ==
    ASSUME NEW S, 0 \in S, \A n \in Nat : n \in S => n + 1 \in S
    PROVE  Nat \subseteq S
<1> SUFFICES ASSUME NEW a \in Nat, a \notin S PROVE FALSE
    OBVIOUS
<1> DEFINE B == Nat \ S
<1>1. PICK m \in B : \A k \in B : m <= k
    BY Least
<1>2. m # 0 /\ m - 1 \in Nat /\ m - 1 \notin B
    BY <1>1
<1> QED BY <1>2

LEMMA Numbers ==
    /\ Cardinality(Files) \in Nat /\ Cardinality(Folders) \in Nat
    /\ \A f : f \in Files <=> f \in Nat /\ 1 <= f /\ f <= Cardinality(Files)
    /\ \A p : p \in Folders <=> /\ p \in Nat /\ Cardinality(Files) + 1 <= p
                                /\ p <= Cardinality(Files) + Cardinality(Folders)
    /\ Files \cap Folders = {}
<1>1. Cardinality(Files) \in Nat /\ Cardinality(Folders) \in Nat
    BY IdsAreNumbers, FS_CardinalityType
<1> DEFINE n == Cardinality(Files)
           m == Cardinality(Folders)
<1>2. n \in Nat /\ m \in Nat /\ Files = 1..n /\ Folders = (n + 1)..(n + m)
    BY <1>1, IdsAreNumbers
<1> HIDE DEF n, m
<1>3. /\ \A f : f \in 1..n <=> f \in Nat /\ 1 <= f /\ f <= n
      /\ \A p : p \in (n + 1)..(n + m) <=> p \in Nat /\ n + 1 <= p /\ p <= n + m
      /\ \A p : p \in (n + 1)..(n + m) => p \notin 1..n
    BY <1>2
<1>4. /\ \A f : f \in Files <=> f \in Nat /\ 1 <= f /\ f <= n
      /\ \A p : p \in Folders <=> p \in Nat /\ n + 1 <= p /\ p <= n + m
      /\ Files \cap Folders = {}
    BY <1>2, <1>3
<1> QED BY <1>1, <1>4 DEF n, m

-----------------------------------------------------------------------------
(* Item by item                                                            *)

Numbered == Files \cup Folders

LEMMA LatestIsIn ==
    ASSUME NEW S \in SUBSET Numbered, S # {}
    PROVE  Latest(S) \in S
<1> DEFINE N == Cardinality(Files) + Cardinality(Folders)
           B == {n \in Nat : \A x \in S : x <= n}
<1>1. N \in Nat /\ \A x \in S : x \in Nat /\ x <= N
    BY Numbers DEF Numbered
<1>2. N \in B /\ B \in SUBSET Nat
    BY <1>1
<1> HIDE DEF N
<1>3. PICK m \in B : \A k \in B : m <= k
    BY <1>2, Least
<1>4. m \in S
    <2> SUFFICES ASSUME m \notin S PROVE FALSE
        OBVIOUS
    <2>1. \A x \in S : x \in Nat /\ x < m
        BY <1>1, <1>3
    <2>2. m - 1 \in Nat /\ \A x \in S : x <= m - 1
        BY <2>1, <1>3
    <2>3. m - 1 \in B
        BY <2>2
    <2>4. m <= m - 1
        BY <1>3, <2>3
    <2> QED BY <2>2, <2>4
<1>5. \A y \in S : m >= y
    BY <1>1, <1>3
<1> QED BY <1>4, <1>5 DEF Latest

LEMMA WithoutLatest ==
    ASSUME NEW ids \in SUBSET Numbered, NEW s \in SUBSET ids, s # {}
    PROVE  LET t == s \ {Latest(s)}
           IN  /\ Latest(s) \in ids /\ t \in SUBSET ids
               /\ Cardinality(t) \in Nat /\ Cardinality(s) = Cardinality(t) + 1
<1>1. Latest(s) \in s
    BY LatestIsIn
<1>2. IsFiniteSet(s)
    <2>1. IsFiniteSet(Numbered)
        BY IdsAreNumbers, FS_Union DEF Numbered
    <2> QED BY <2>1, FS_Subset
<1>3. /\ IsFiniteSet(s \ {Latest(s)}) /\ Cardinality(s) \in Nat
      /\ Cardinality(s \ {Latest(s)}) = Cardinality(s) - 1 /\ Cardinality(s \ {Latest(s)}) \in Nat
    BY <1>1, <1>2, FS_RemoveElement, FS_CardinalityType
<1> QED BY <1>1, <1>3

LEMMA SizeOf ==
    ASSUME NEW s \in SUBSET Numbered
    PROVE  Cardinality(s) \in Nat /\ IsFiniteSet(s)
<1>1. IsFiniteSet(Numbered)
    BY IdsAreNumbers, FS_Union DEF Numbered
<1> QED BY <1>1, FS_Subset, FS_CardinalityType

\* What holds before the first item and is kept by each holds after the last.
LEMMA FoldStays ==
    ASSUME NEW ids \in SUBSET Numbered, NEW it, NEW G, it[{}] \in G,
           \A s \in SUBSET ids : s # {} /\ it[s \ {Latest(s)}] \in G => it[s] \in G
    PROVE  it[ids] \in G
<1> DEFINE L == {n \in Nat : \A s \in SUBSET ids : Cardinality(s) < n => it[s] \in G}
<1>1. 0 \in L
    <2>1. \A s \in SUBSET ids : ~(Cardinality(s) < 0)
        BY SizeOf
    <2> QED BY <2>1
<1>2. ASSUME NEW n \in Nat, n \in L
      PROVE  n + 1 \in L
    <2> SUFFICES ASSUME NEW s \in SUBSET ids, Cardinality(s) < n + 1 PROVE it[s] \in G
        OBVIOUS
    <2>1. CASE s = {}
        BY <2>1
    <2>2. CASE s # {}
        <3>1. PICK t : t = s \ {Latest(s)}
            OBVIOUS
        <3>2. t \in SUBSET ids /\ Cardinality(t) \in Nat /\ Cardinality(s) = Cardinality(t) + 1
            BY <2>2, <3>1, WithoutLatest
        <3>3. it[t] \in G
            BY <1>2, <2>2, <3>2
        <3> QED BY <2>2, <3>1, <3>3
    <2> QED BY <2>1, <2>2
<1> HIDE DEF L
<1>3. Nat \subseteq L
    BY <1>1, <1>2, Induct
<1>4. Cardinality(ids) + 1 \in L /\ Cardinality(ids) < Cardinality(ids) + 1
    BY <1>3, SizeOf
<1> QED BY <1>4 DEF L

FoldOn(it, base, H, s) == IF s = {} THEN base ELSE H[<<it[s \ {Latest(s)}], Latest(s)>>]

Folded(it, ids, G, base, H) ==
    it \in [SUBSET ids -> G] /\ \A s \in SUBSET ids : it[s] = FoldOn(it, base, H, s)

LEMMA FoldExists ==
    ASSUME NEW ids \in SUBSET Numbered, NEW G, NEW base \in G, NEW H \in [G \X ids -> G]
    PROVE  \E it : Folded(it, ids, G, base, H)
<1> DEFINE L == {n \in Nat : \E f \in [SUBSET ids -> G] : \A s \in SUBSET ids :
                    Cardinality(s) < n => f[s] = FoldOn(f, base, H, s)}
<1>1. 0 \in L
    <2>1. \A s \in SUBSET ids : ~(Cardinality(s) < 0)
        BY SizeOf
    <2>2. [s \in SUBSET ids |-> base] \in [SUBSET ids -> G]
        OBVIOUS
    <2> QED BY <2>1, <2>2
<1>2. ASSUME NEW n \in Nat, n \in L
      PROVE  n + 1 \in L
    <2>1. PICK f \in [SUBSET ids -> G] : \A s \in SUBSET ids : Cardinality(s) < n => f[s] = FoldOn(f, base, H, s)
        BY <1>2
    <2>2. PICK g : g = [s \in SUBSET ids |-> FoldOn(f, base, H, s)]
        OBVIOUS
    <2>3. ASSUME NEW s \in SUBSET ids
          PROVE  FoldOn(f, base, H, s) \in G
        <3>1. CASE s = {}
            BY <3>1 DEF FoldOn
        <3>2. CASE s # {}
            <4>1. PICK t, x : t = s \ {Latest(s)} /\ x = Latest(s)
                OBVIOUS
            <4>2. t \in SUBSET ids /\ x \in ids
                BY <3>2, <4>1, WithoutLatest
            <4>3. H[<<f[t], x>>] \in G
                BY <4>2
            <4> QED BY <3>2, <4>1, <4>3 DEF FoldOn
        <3> QED BY <3>1, <3>2
    <2>4. g \in [SUBSET ids -> G]
        BY <2>2, <2>3
    <2>5. ASSUME NEW s \in SUBSET ids, Cardinality(s) < n + 1
          PROVE  g[s] = FoldOn(g, base, H, s)
        <3>1. CASE s = {}
            BY <2>2, <3>1 DEF FoldOn
        <3>2. CASE s # {}
            <4>1. PICK t : t = s \ {Latest(s)}
                OBVIOUS
            <4>2. t \in SUBSET ids /\ Cardinality(t) < n
                <5>1. t \in SUBSET ids /\ Cardinality(t) \in Nat /\ Cardinality(s) = Cardinality(t) + 1
                    BY <3>2, <4>1, WithoutLatest
                <5> QED BY <2>5, <5>1
            <4>3. f[t] = FoldOn(f, base, H, t) /\ g[t] = FoldOn(f, base, H, t)
                BY <2>1, <2>2, <4>2
            <4>4. g[s] = FoldOn(f, base, H, s)
                BY <2>2
            <4> QED BY <3>2, <4>1, <4>3, <4>4 DEF FoldOn
        <3> QED BY <3>1, <3>2
    <2> QED BY <2>4, <2>5
<1> HIDE DEF L
<1>3. Nat \subseteq L
    BY <1>1, <1>2, Induct
<1> DEFINE N == Cardinality(ids) + 1
<1>4. N \in Nat /\ \A s \in SUBSET ids : Cardinality(s) < N
    <2>1. IsFiniteSet(ids) /\ Cardinality(ids) \in Nat
        BY SizeOf
    <2>2. ASSUME NEW s \in SUBSET ids PROVE Cardinality(s) < N
        <3>1. Cardinality(s) <= Cardinality(ids) /\ Cardinality(s) \in Nat
            BY <2>1, FS_Subset, FS_CardinalityType
        <3> QED BY <2>1, <3>1
    <2> QED BY <2>1, <2>2
<1> HIDE DEF N
<1>5. PICK f \in [SUBSET ids -> G] : \A s \in SUBSET ids : Cardinality(s) < N => f[s] = FoldOn(f, base, H, s)
    BY <1>3, <1>4 DEF L
<1> QED BY <1>4, <1>5 DEF Folded


-----------------------------------------------------------------------------
(* The order of the rows on the screen                                     *)

LEMMA ChosenIsIn ==
    ASSUME NEW I \in SUBSET Nat, I # {}
    PROVE  Min(I) \in I
<1>1. \E m \in I : \A k \in I : m <= k
    BY Least
<1> QED BY <1>1 DEF Min

\* Where something is in a sequence, or 0.
LEMMA WhereIs ==
    ASSUME NEW n \in Nat, NEW I \in SUBSET (1..n)
    PROVE  (IF I # {} THEN Min(I) ELSE 0) \in 0..n
<1>1. CASE I = {}
    BY <1>1
<1>2. CASE I # {}
    <2>1. I \in SUBSET Nat
        OBVIOUS
    <2>2. Min(I) \in I
        BY <1>2, <2>1, ChosenIsIn
    <2>3. Min(I) \in 1..n
        BY <2>2
    <2>4. Min(I) \in 0..n
        BY <2>3
    <2> QED BY <1>2, <2>4
<1> QED BY <1>1, <1>2

\* before has one of any two members of S before the other.
InLine(S, before) ==
    /\ \A x \in S : <<x, x>> \notin before
    /\ \A x, y \in S : x # y => <<x, y>> \in before \/ <<y, x>> \in before
    /\ \A x, y, z \in S : <<x, y>> \in before /\ <<y, z>> \in before => <<x, z>> \in before

LEMMA SortedIs ==
    ASSUME NEW S, IsFiniteSet(S), NEW before, InLine(S, before)
    PROVE  Sorted(S, before) \in [1..Cardinality(S) -> S] /\ Cardinality(S) \in Nat
<1> DEFINE First(x) == {y \in S : <<y, x>> \in before}
<1>1. Cardinality(S) \in Nat
    BY FS_CardinalityType
<1>2. PICK n \in Nat : n = Cardinality(S)
    BY <1>1
<1>3. \A x \in S : IsFiniteSet(First(x)) /\ Cardinality(First(x)) \in Nat /\ Cardinality(First(x)) < n
    <2> SUFFICES ASSUME NEW x \in S
                 PROVE  IsFiniteSet(First(x)) /\ Cardinality(First(x)) \in Nat /\ Cardinality(First(x)) < n
        OBVIOUS
    <2>1. First(x) \in SUBSET S /\ x \notin First(x)
        BY DEF InLine
    <2>2. IsFiniteSet(First(x)) /\ Cardinality(First(x)) <= n /\ (n = Cardinality(First(x)) => S = First(x))
        BY <1>2, <2>1, FS_Subset
    <2>3. Cardinality(First(x)) \in Nat
        BY <2>2, FS_CardinalityType
    <2> QED BY <2>1, <2>2, <2>3
<1>4. ASSUME NEW x \in S, NEW y \in S, x # y
      PROVE  Cardinality(First(x)) # Cardinality(First(y))
    <2>1. ASSUME NEW u \in S, NEW v \in S, <<u, v>> \in before
          PROVE  Cardinality(First(u)) # Cardinality(First(v))
        <3>1. First(u) \in SUBSET First(v)
            BY <2>1 DEF InLine
        <3>2. u \in First(v) /\ u \notin First(u)
            BY <2>1 DEF InLine
        <3>3. Cardinality(First(v)) = Cardinality(First(u)) => First(v) = First(u)
            BY <1>3, <3>1, FS_Subset
        <3> QED BY <3>2, <3>3
    <2> QED BY <1>4, <2>1 DEF InLine
<1>5. PICK T, place : T = 0..(n - 1) /\ place = [x \in S |-> Cardinality(First(x))]
    OBVIOUS
<1>6. place \in [S -> T]
    <2>1. \A x \in S : Cardinality(First(x)) \in T
        <3> SUFFICES ASSUME NEW x \in S PROVE Cardinality(First(x)) \in 0..(n - 1)
            BY <1>5
        <3>1. PICK c : c = Cardinality(First(x))
            OBVIOUS
        <3>2. c \in Nat /\ c < n
            BY <1>3, <3>1
        <3> QED BY <3>1, <3>2
    <2> QED BY <1>5, <2>1
<1>7. place \in Injection(S, T)
    BY <1>4, <1>5, <1>6 DEF Injection, IsInjective
<1>8. IsFiniteSet(T) /\ Cardinality(T) = n
    <2>1. 0 \in Int /\ n - 1 \in Int
        OBVIOUS
    <2> QED BY <1>5, <2>1, FS_Interval
<1>9. place \in Surjection(S, T)
    BY <1>2, <1>7, <1>8, FS_Injection
<1>10. \A i \in 1..n : \E x \in S : Cardinality(First(x)) = i - 1
    <2> SUFFICES ASSUME NEW i \in 1..n PROVE \E x \in S : Cardinality(First(x)) = i - 1
        OBVIOUS
    <2>1. i - 1 \in T
        BY <1>5
    <2>2. \E x \in S : place[x] = i - 1
        BY <1>9, <2>1 DEF Surjection
    <2> QED BY <1>5, <2>2
<1>11. \A i \in 1..n : (CHOOSE x \in S : Cardinality(First(x)) = i - 1) \in S
    BY <1>10
<1> QED BY <1>1, <1>2, <1>11 DEF Sorted

\* By a number of each, and where that is the same by their own number.
LEMMA KeysPutInLine ==
    ASSUME NEW S \in SUBSET Nat, NEW K \in [S -> Int], NEW asc \in BOOLEAN, NEW before,
           before = {x \in S \X S : IF K[x[1]] = K[x[2]] THEN x[1] > x[2] ELSE (K[x[1]] < K[x[2]]) = asc}
    PROVE  InLine(S, before)
<1>1. \A x, y \in S : <<x, y>> \in before <=> IF K[x] = K[y] THEN x > y ELSE (K[x] < K[y]) = asc
    OBVIOUS
<1>2. \A x, y \in S : <<x, y>> \in before <=> \/ K[x] = K[y] /\ x > y
                                              \/ (asc /\ K[x] < K[y]) \/ (~asc /\ K[y] < K[x])
    <2> SUFFICES ASSUME NEW x \in S, NEW y \in S
                 PROVE  <<x, y>> \in before <=> \/ K[x] = K[y] /\ x > y
                                                \/ (asc /\ K[x] < K[y]) \/ (~asc /\ K[y] < K[x])
        OBVIOUS
    <2>1. K[x] \in Int /\ K[y] \in Int
        OBVIOUS
    <2>2. CASE asc = TRUE
        <3>1. ((K[x] < K[y]) = asc) <=> K[x] < K[y]
            BY <2>2
        <3>2. K[x] < K[y] => K[x] # K[y]
            BY <2>1
        <3> QED BY <1>1, <2>2, <3>1, <3>2
    <2>3. CASE asc = FALSE
        BY <1>1, <2>1, <2>3
    <2> QED BY <2>2, <2>3
<1>3. \A x \in S : K[x] \in Int /\ x \in Nat
    OBVIOUS
<1>4. \A x \in S : <<x, x>> \notin before
    BY <1>2, <1>3
<1>5. \A x, y \in S : x # y => <<x, y>> \in before \/ <<y, x>> \in before
    BY <1>2, <1>3
<1>6. \A x, y, z \in S : <<x, y>> \in before /\ <<y, z>> \in before => <<x, z>> \in before
    BY <1>2, <1>3
<1> QED BY <1>4, <1>5, <1>6 DEF InLine

LEMMA FilesAreSorted ==
    ASSUME NEW fs \in SUBSET Files, NEW filters \in Filters
    PROVE  SortFiles(fs, filters) \in [1..Cardinality(fs) -> fs] /\ Cardinality(fs) \in Nat
<1> DEFINE Rank(f) == SelectInSeq(<<"archive", "audio", "document", "image", "other", "video">>,
                                  LAMBDA k : k = ClassifyFile(f))
           Key(f) == CASE filters.sort = "name" -> Title[f]
                       [] filters.sort = "size" -> Bytes[f]
                       [] filters.sort = "type" -> Rank(f)
                       [] OTHER                 -> f
<1>1. \A f \in Files : Rank(f) \in Int
    <2> SUFFICES ASSUME NEW f \in Files PROVE Rank(f) \in Int
        OBVIOUS
    <2>1. PICK I : I = {i \in 1..6 : <<"archive", "audio", "document", "image", "other", "video">>[i] = ClassifyFile(f)}
        OBVIOUS
    <2>2. Rank(f) = IF I # {} THEN Min(I) ELSE 0
        BY <2>1 DEF SelectInSeq
    <2>3. I \in SUBSET (1..6) /\ 6 \in Nat
        BY <2>1
    <2>4. Rank(f) \in 0..6
        BY <2>2, <2>3, WhereIs
    <2> QED BY <2>4
<1>2. \A f \in fs : f \in Nat /\ Title[f] \in Int /\ Bytes[f] \in Int
    BY Numbers, NamesAreRanked
<1> HIDE DEF Rank
<1>3. \A f \in fs : Key(f) \in Int
    BY <1>1, <1>2
<1> HIDE DEF Key
<1>4. PICK K : K = [f \in fs |-> Key(f)]
    OBVIOUS
<1>5. PICK before : before = {x \in fs \X fs : IF K[x[1]] = K[x[2]] THEN x[1] > x[2]
                                               ELSE (K[x[1]] < K[x[2]]) = filters.asc}
    OBVIOUS
<1>6. fs \in SUBSET Nat /\ K \in [fs -> Int] /\ filters.asc \in BOOLEAN
    BY <1>2, <1>3, <1>4 DEF Filters
<1>7. InLine(fs, before)
    BY <1>5, <1>6, KeysPutInLine
<1>8. before = {x \in fs \X fs : IF Key(x[1]) = Key(x[2]) THEN x[1] > x[2]
                                 ELSE (Key(x[1]) < Key(x[2])) = filters.asc}
    BY <1>4, <1>5
<1>9. SortFiles(fs, filters) = Sorted(fs, before)
    BY <1>8 DEF SortFiles, Key, Rank
<1>10. IsFiniteSet(fs)
    BY SizeOf DEF Numbered
<1> QED BY <1>7, <1>9, <1>10, SortedIs

LEMMA FoldersAreSorted ==
    ASSUME NEW ps \in SUBSET Folders, NEW filters \in Filters
    PROVE  SortFolders(ps, filters) \in [1..Cardinality(ps) -> ps] /\ Cardinality(ps) \in Nat
<1> DEFINE Key(p) == IF filters.sort = "name" THEN Title[p] ELSE p
<1>2. \A p \in ps : p \in Nat /\ Title[p] \in Int
    BY Numbers, NamesAreRanked
<1>3. \A p \in ps : Key(p) \in Int
    BY <1>2
<1> HIDE DEF Key
<1>4. PICK K : K = [p \in ps |-> Key(p)]
    OBVIOUS
<1>5. PICK before : before = {x \in ps \X ps : IF K[x[1]] = K[x[2]] THEN x[1] > x[2]
                                               ELSE (K[x[1]] < K[x[2]]) = filters.asc}
    OBVIOUS
<1>6. ps \in SUBSET Nat /\ K \in [ps -> Int] /\ filters.asc \in BOOLEAN
    BY <1>2, <1>3, <1>4 DEF Filters
<1>7. InLine(ps, before)
    BY <1>5, <1>6, KeysPutInLine
<1>8. before = {x \in ps \X ps : IF Key(x[1]) = Key(x[2]) THEN x[1] > x[2]
                                 ELSE (Key(x[1]) < Key(x[2])) = filters.asc}
    BY <1>4, <1>5
<1>9. SortFolders(ps, filters) = Sorted(ps, before)
    BY <1>8 DEF SortFolders, Key
<1>10. IsFiniteSet(ps)
    BY SizeOf DEF Numbered
<1> QED BY <1>7, <1>9, <1>10, SortedIs

\* The requests for several ids, one for each.
LEMMA OneForEach ==
    ASSUME NEW S, IsFiniteSet(S), NEW T, NEW g \in Surjection(S, T)
    PROVE  SetToSeq(T) \in Seq(T)
<1>1. IsFiniteSet(T)
    BY FS_Surjection
<1>2. Cardinality(T) \in Nat /\ ExistsBijection(1..Cardinality(T), T)
    BY <1>1, FS_CardinalityType
<1>3. PICK f : f \in Bijection(1..Cardinality(T), T)
    BY <1>2 DEF ExistsBijection
<1>4. f \in [1..Cardinality(T) -> T] /\ IsInjective(f)
    BY <1>3 DEF Bijection, Injection, IsInjective
<1>5. SetToSeq(T) \in [1..Cardinality(T) -> T]
    BY <1>4 DEF SetToSeq
<1>6. PICK n, s : n \in Nat /\ s \in [1..n -> T] /\ s = SetToSeq(T)
    BY <1>2, <1>5
<1>7. s \in UNION {[1..k -> T] : k \in Nat}
    BY <1>6
<1> QED BY <1>6, <1>7, SeqDef
-----------------------------------------------------------------------------
(* The folders under a folder                                              *)

Under(d, activeOnly, x, y) ==
    d.folder[y].in = x /\ d.folder[y].state # "none" /\ (activeOnly => d.folder[y].state = "active")
Closed(d, activeOnly, S) == \A x \in S, y \in Folders : Under(d, activeOnly, x, y) => y \in S

LEMMA Subtree ==
    ASSUME NEW d, NEW p \in Folders, NEW activeOnly
    PROVE  /\ CollectSubtreeIDs(d, p, activeOnly) \subseteq Folders
           /\ p \in CollectSubtreeIDs(d, p, activeOnly)
           /\ Closed(d, activeOnly, CollectSubtreeIDs(d, p, activeOnly))
BY DEF CollectSubtreeIDs, Closed, Under

LEMMA SubtreeIsLeast ==
    ASSUME NEW d, NEW p \in Folders, NEW activeOnly, NEW S \in SUBSET Folders, p \in S, Closed(d, activeOnly, S)
    PROVE  CollectSubtreeIDs(d, p, activeOnly) \subseteq S
BY DEF CollectSubtreeIDs, Closed, Under

\* Fewer folders, smaller subtrees.
LEMMA SubtreeShrinks ==
    ASSUME NEW d, NEW e, NEW p \in Folders, NEW a, NEW b,
           \A x \in Folders, y \in Folders : Under(e, a, x, y) => Under(d, b, x, y)
    PROVE  CollectSubtreeIDs(e, p, a) \subseteq CollectSubtreeIDs(d, p, b)
<1> DEFINE S == CollectSubtreeIDs(d, p, b)
<1>1. S \in SUBSET Folders /\ p \in S /\ Closed(d, b, S)
    BY Subtree
<1> HIDE DEF S
<1>2. Closed(e, a, S)
    BY <1>1 DEF Closed
<1> QED BY <1>1, <1>2, SubtreeIsLeast DEF S

LEMMA ActiveSubtree ==
    ASSUME NEW d, NEW p \in Folders, NEW a
    PROVE  CollectSubtreeIDs(d, p, a) \subseteq CollectSubtreeIDs(d, p, FALSE)
BY SubtreeShrinks DEF Under

\* What lies under what lies under p lies under p.
LEMMA SubtreeOfSubtree ==
    ASSUME NEW d, NEW p \in Folders, NEW q \in CollectSubtreeIDs(d, p, FALSE)
    PROVE  q \in Folders /\ CollectSubtreeIDs(d, q, FALSE) \subseteq CollectSubtreeIDs(d, p, FALSE)
<1> DEFINE S == CollectSubtreeIDs(d, p, FALSE)
<1>1. S \in SUBSET Folders /\ q \in S /\ Closed(d, FALSE, S)
    BY Subtree
<1> HIDE DEF S
<1> QED BY <1>1, SubtreeIsLeast DEF S

-----------------------------------------------------------------------------
(* What a disk is                                                          *)

LEMMA RowIs ==
    ASSUME NEW r \in Row
    PROVE  /\ r.in \in Folders \cup {Root} /\ r.ws \in Workspaces \cup {Nobody}
           /\ r.ws = Nobody => r = NoRow
           /\ r.ws \in Workspaces <=> r.ws # Nobody
           /\ r.state = "none" <=> r.ws = Nobody
           /\ r = [ws |-> r.ws, in |-> r.in, state |-> r.state]
BY IdsAreNumbers DEF Row, NoRow, RowState

LEMMA DiskIs ==
    ASSUME NEW d \in Disk
    PROVE  /\ d = [file |-> d.file, folder |-> d.folder, object |-> d.object, keys |-> d.keys, dirs |-> d.dirs]
           /\ d.file \in [Files -> Row] /\ d.folder \in [Folders -> Row] /\ d.object \in SUBSET Files
           /\ d.keys \in 0..Cardinality(Files) /\ d.dirs \in 0..Cardinality(Folders)
           /\ d.keys \in Nat /\ d.dirs \in Nat /\ NextKey(d) \in Nat /\ NextDir(d) \in Nat
BY Numbers DEF Disk, NextKey, NextDir

\* The rows of a workspace are under rows of it.
LEMMA SubtreeIsOfItsWorkspace ==
    ASSUME NEW d, IsStored(d), NEW p \in Folders, NEW q \in CollectSubtreeIDs(d, p, FALSE)
    PROVE  q \in Folders /\ d.folder[q].ws = d.folder[p].ws
<1> DEFINE S == {x \in Folders : d.folder[x].ws = d.folder[p].ws}
<1>1. Closed(d, FALSE, S)
    BY IdsAreNumbers DEF Closed, Under, IsStored, InOneWorkspace
<1>2. S \in SUBSET Folders /\ p \in S
    OBVIOUS
<1> HIDE DEF S
<1>3. q \in S
    BY <1>1, <1>2, SubtreeIsLeast
<1> QED BY <1>3 DEF S

\* Nothing lies in itself where nothing did, when folders go or come to the top.
LEMMA ForestShrinks ==
    ASSUME NEW d \in Disk, NEW e \in Disk, IsForest(d),
           \A p \in Folders : \/ e.folder[p].in = Root
                              \/ e.folder[p].in = d.folder[p].in /\ d.folder[p].state # "none"
    PROVE  IsForest(e)
<1> SUFFICES ASSUME NEW p \in Folders, e.folder[p].in # Root,
                    e.folder[p].in \in CollectSubtreeIDs(e, p, FALSE)
             PROVE  FALSE
    BY DEF IsForest, IsDescendantOf
<1>1. e.folder[p].in = d.folder[p].in /\ d.folder[p].in # Root
    OBVIOUS
<1>2. \A x \in Folders, y \in Folders : Under(e, FALSE, x, y) => Under(d, FALSE, x, y)
    BY IdsAreNumbers DEF Under
<1>3. CollectSubtreeIDs(e, p, FALSE) \subseteq CollectSubtreeIDs(d, p, FALSE)
    BY <1>2, SubtreeShrinks
<1> QED BY <1>1, <1>3 DEF IsForest, IsDescendantOf

\* The rows that a request for workspace ws may have changed from d to e: its own, and new ones.
RowKept(ws, old, new) ==
    /\ old.ws \notin {ws, Nobody} => new = old
    /\ old.ws = ws => new.ws \in {ws, Nobody}
    /\ old.ws = Nobody => new.ws \in {ws, Nobody}
Keeps(d, e, ws) ==
    /\ IsStored(e) /\ d.keys <= e.keys /\ d.dirs <= e.dirs
    /\ \A f \in Files : /\ RowKept(ws, d.file[f], e.file[f])
                        /\ f <= d.keys /\ d.file[f].ws = Nobody => e.file[f].ws = Nobody
    /\ \A p \in Folders : /\ RowKept(ws, d.folder[p], e.folder[p])
                          /\ p < NextDir(d) /\ d.folder[p].ws = Nobody => e.folder[p].ws = Nobody

LEMMA StoredIs ==
    ASSUME NEW d, IsStored(d)
    PROVE  d \in Disk /\ InOneWorkspace(d) /\ IsForest(d) /\ GivenOut(d)
BY DEF IsStored

LEMMA KeepsItself ==
    ASSUME NEW d, IsStored(d), NEW ws
    PROVE  Keeps(d, d, ws)
BY StoredIs, DiskIs DEF Keeps, RowKept

LEMMA KeepsOn ==
    ASSUME NEW d, NEW e, NEW g, NEW ws, IsStored(d), Keeps(d, e, ws), Keeps(e, g, ws)
    PROVE  Keeps(d, g, ws)
<1>1. IsStored(e) /\ IsStored(g) /\ d \in Disk /\ e \in Disk /\ g \in Disk
    BY StoredIs DEF Keeps
<1>2. d.keys \in Nat /\ e.keys \in Nat /\ g.keys \in Nat /\ d.dirs \in Nat /\ e.dirs \in Nat /\ g.dirs \in Nat
    BY <1>1, DiskIs
<1>3. d.keys <= g.keys /\ d.dirs <= g.dirs
    BY <1>2 DEF Keeps
<1>4. ASSUME NEW f \in Files
      PROVE  /\ RowKept(ws, d.file[f], g.file[f])
             /\ f <= d.keys /\ d.file[f].ws = Nobody => g.file[f].ws = Nobody
    <2>1. f <= d.keys => f <= e.keys
        BY <1>2, Numbers DEF Keeps
    <2> QED BY <2>1 DEF Keeps, RowKept
<1>5. ASSUME NEW p \in Folders
      PROVE  /\ RowKept(ws, d.folder[p], g.folder[p])
             /\ p < NextDir(d) /\ d.folder[p].ws = Nobody => g.folder[p].ws = Nobody
    <2>1. p < NextDir(d) => p < NextDir(e)
        BY <1>2, Numbers DEF Keeps, NextDir
    <2> QED BY <2>1 DEF Keeps, RowKept
<1> QED BY <1>1, <1>3, <1>4, <1>5 DEF Keeps

-----------------------------------------------------------------------------
(* The handlers that change single rows                                    *)

Replies == [ok : BOOLEAN, files : SUBSET Files, folders : SUBSET Folders]

\* An outcome of a request for workspace ws, which leaves every object where it is.
Fine(d, ws, o) ==
    /\ o.reply \in Replies /\ Keeps(d, o.disk, ws) /\ d.object \subseteq o.disk.object

LEMMA RepliesAre ==
    /\ Failure \in Replies /\ Done \in Replies
    /\ \A files \in SUBSET Files, folders \in SUBSET Folders : Reply(files, folders) \in Replies
BY DEF Replies, Failure, Done, Reply

LEMMA RefusedIsFine ==
    ASSUME NEW d, IsStored(d), NEW ws
    PROVE  Fine(d, ws, Refused(d)) /\ Fine(d, ws, Outcome(d, Done))
BY RepliesAre, KeepsItself DEF Fine, Refused, Outcome

\* As long as folders go or come to the top, the rest is a matter of single rows.
LEMMA NewDisk ==
    ASSUME NEW d, IsStored(d), NEW e \in Disk, InOneWorkspace(e), GivenOut(e),
           \A p \in Folders : e.folder[p].in \in {Root, d.folder[p].in}
    PROVE  IsStored(e)
<1>1. d \in Disk /\ IsForest(d)
    BY StoredIs
<1>2. ASSUME NEW p \in Folders, e.folder[p].in # Root
      PROVE  e.folder[p].in = d.folder[p].in /\ d.folder[p].state # "none"
    <2>1. d.folder[p] \in Row
        BY <1>1, DiskIs
    <2>2. d.folder[p].in # Root
        BY <1>2
    <2>3. d.folder[p].state # "none"
        BY <2>1, <2>2, RowIs DEF NoRow
    <2> QED BY <1>2, <2>3
<1>3. IsForest(e)
    BY <1>1, <1>2, ForestShrinks
<1> QED BY <1>3 DEF IsStored

LEMMA FileRows ==
    ASSUME NEW d, IsStored(d), NEW f \in Files
    PROVE  /\ d.file[f] \in Row /\ d.file[f].in \in Folders \cup {Root}
           /\ d.file[f].ws \in Workspaces \cup {Nobody}
           /\ d.file[f].in # Root => d.folder[d.file[f].in].ws = d.file[f].ws
           /\ f >= NextKey(d) => d.file[f] = NoRow /\ f \notin d.object
           /\ d.file[f].ws = Nobody => d.file[f] = NoRow
           /\ d.file[f].state = "none" <=> d.file[f].ws = Nobody
BY StoredIs, DiskIs, RowIs DEF InOneWorkspace, GivenOut

LEMMA FolderRows ==
    ASSUME NEW d, IsStored(d), NEW p \in Folders
    PROVE  /\ d.folder[p] \in Row /\ d.folder[p].in \in Folders \cup {Root}
           /\ d.folder[p].ws \in Workspaces \cup {Nobody}
           /\ d.folder[p].in # Root => d.folder[d.folder[p].in].ws = d.folder[p].ws
           /\ p >= NextDir(d) => d.folder[p] = NoRow
           /\ d.folder[p].ws = Nobody => d.folder[p] = NoRow
           /\ d.folder[p].state = "none" <=> d.folder[p].ws = Nobody
BY StoredIs, DiskIs, RowIs DEF InOneWorkspace, GivenOut

LEMMA TargetIs ==
    ASSUME NEW d, IsStored(d), NEW ws, NEW p \in Folders \cup {Root}, FolderExistsActive(d, ws, p)
    PROVE  p = Root \/ (p \in Folders /\ d.folder[p].ws = ws)
BY DEF FolderExistsActive, ActiveFolder

LEMMA NumberOf ==
    ASSUME NEW d, IsStored(d)
    PROVE  /\ d.keys \in Nat /\ d.dirs \in Nat /\ Cardinality(Files) \in Nat /\ Cardinality(Folders) \in Nat
           /\ NextKey(d) = d.keys + 1 /\ NextDir(d) = Cardinality(Files) + d.dirs + 1
           /\ d.keys <= Cardinality(Files) /\ d.dirs <= Cardinality(Folders)
           /\ \A f \in Files : f \in Nat /\ f <= Cardinality(Files)
           /\ \A p \in Folders : p \in Nat /\ p <= Cardinality(Files) + Cardinality(Folders)
BY StoredIs, DiskIs, Numbers DEF NextKey, NextDir

\* A change to one row of workspace_files.
FileChange(d, e, ws, f, row, k, objects) ==
    /\ IsStored(d) /\ ws \in Workspaces /\ f \in Files /\ row \in Row
    /\ d.file[f].ws \in {ws, Nobody} /\ row.ws = ws
    /\ row.in # Root => d.folder[row.in].ws = ws
    /\ k \in Nat /\ d.keys <= k /\ k <= Cardinality(Files) /\ f <= k
    /\ objects \in SUBSET (1..k) /\ d.object \subseteq objects
    /\ e = [d EXCEPT !.file[f] = row, !.keys = k, !.object = objects]

FileChanged(d, e, ws, f, row) ==
    /\ IsStored(e) /\ d.object \subseteq e.object /\ e.folder = d.folder
    /\ e.file = [d.file EXCEPT ![f] = row]
    /\ (f <= d.keys => d.file[f].ws = ws) => Keeps(d, e, ws)

LEMMA OneFile ==
    ASSUME NEW d, NEW e, NEW ws, NEW f, NEW row, NEW k, NEW objects,
           FileChange(d, e, ws, f, row, k, objects)
    PROVE  FileChanged(d, e, ws, f, row)
<1>0. /\ IsStored(d) /\ ws \in Workspaces /\ f \in Files /\ row \in Row
      /\ d.file[f].ws \in {ws, Nobody} /\ row.ws = ws
      /\ row.in # Root => d.folder[row.in].ws = ws
      /\ k \in Nat /\ d.keys <= k /\ k <= Cardinality(Files) /\ f <= k
      /\ objects \in SUBSET (1..k) /\ d.object \subseteq objects
      /\ e = [d EXCEPT !.file[f] = row, !.keys = k, !.object = objects]
    BY DEF FileChange
<1>1. d \in Disk /\ d.file \in [Files -> Row] /\ d.folder \in [Folders -> Row]
    BY <1>0, StoredIs, DiskIs
<1>2. /\ e = [d EXCEPT !.file = [d.file EXCEPT ![f] = row], !.keys = k, !.object = objects]
      /\ e.folder = d.folder /\ e.dirs = d.dirs /\ e.keys = k /\ e.object = objects
      /\ e.file = [d.file EXCEPT ![f] = row]
      /\ e = [file |-> e.file, folder |-> e.folder, object |-> e.object, keys |-> e.keys, dirs |-> e.dirs]
    BY <1>0, <1>1 DEF Disk
<1>3. Cardinality(Files) \in Nat /\ Files = 1..Cardinality(Files) /\ k \in 0..Cardinality(Files) /\ objects \in SUBSET Files
    BY <1>0, NumberOf, IdsAreNumbers
<1>4. e \in Disk
    <2>1. e.file \in [Files -> Row]
        BY <1>0, <1>1, <1>2
    <2>2. d.dirs \in 0..Cardinality(Folders)
        BY <1>1, DiskIs
    <2> QED BY <1>1, <1>2, <1>3, <2>1, <2>2 DEF Disk
<1>5. \A g \in Files : e.file[g] = IF g = f THEN row ELSE d.file[g]
    BY <1>1, <1>2
<1>6. InOneWorkspace(e)
    BY <1>0, <1>2, <1>5, FileRows, FolderRows DEF InOneWorkspace
<1>7. GivenOut(e)
    <2>1. NextKey(e) = k + 1 /\ NextDir(e) = NextDir(d)
        BY <1>2 DEF NextKey, NextDir
    <2>2. ASSUME NEW g \in Files, g >= k + 1
          PROVE  e.file[g] = NoRow /\ g \notin objects
        <3>1. g # f /\ g >= NextKey(d) /\ g \notin 1..k
            BY <1>0, <2>2, NumberOf
        <3> QED BY <1>0, <1>5, <3>1, FileRows
    <2> QED BY <1>0, <1>2, <2>1, <2>2, FolderRows DEF GivenOut
<1>8. IsStored(e)
    BY <1>0, <1>2, <1>4, <1>6, <1>7, NewDisk
<1>9. ASSUME f <= d.keys => d.file[f].ws = ws, NEW g \in Files
      PROVE  /\ RowKept(ws, d.file[g], e.file[g])
             /\ g <= d.keys /\ d.file[g].ws = Nobody => e.file[g].ws = Nobody
    BY <1>0, <1>5, <1>9, IdsAreNumbers DEF RowKept
<1>10. \A p \in Folders : /\ RowKept(ws, d.folder[p], e.folder[p])
                          /\ p < NextDir(d) /\ d.folder[p].ws = Nobody => e.folder[p].ws = Nobody
    BY <1>2 DEF RowKept
<1> QED BY <1>0, <1>2, <1>8, <1>9, <1>10, NumberOf DEF Keeps, FileChanged

LEMMA UploadInitIsFine ==
    ASSUME NEW d, IsStored(d), NEW ws, NEW p
    PROVE  Fine(d, ws, UploadInit(d, ws, p))
<1>1. CASE ~(FolderExistsActive(d, ws, p) /\ NextKey(d) \in Files)
    BY <1>1, RefusedIsFine DEF UploadInit
<1>2. CASE FolderExistsActive(d, ws, p) /\ NextKey(d) \in Files
    <2>1. PICK e : e = [d EXCEPT !.keys = @ + 1]
        OBVIOUS
    <2>2. UploadInit(d, ws, p) = Outcome(e, Reply({NextKey(d)}, {}))
        BY <1>2, <2>1 DEF UploadInit
    <2>3. d \in Disk
        BY StoredIs
    <2>4. /\ e.file = d.file /\ e.folder = d.folder /\ e.object = d.object /\ e.dirs = d.dirs
          /\ e.keys = d.keys + 1 /\ NextKey(e) = NextKey(d) + 1 /\ NextDir(e) = NextDir(d)
        BY <2>1, <2>3 DEF Disk, NextKey, NextDir
    <2>5. e.keys \in 0..Cardinality(Files) /\ e \in Disk
        <3>1. d.keys + 1 \in 0..Cardinality(Files)
            BY <1>2, Numbers, NumberOf DEF NextKey
        <3> QED BY <2>1, <2>3, <3>1 DEF Disk
    <2>6. InOneWorkspace(e) /\ GivenOut(e)
        <3>1. \A f \in Files : f >= NextKey(e) => f >= NextKey(d)
            BY <2>4, NumberOf
        <3> QED BY <2>4, <3>1, FileRows, FolderRows DEF InOneWorkspace, GivenOut
    <2>7. IsStored(e)
        BY <2>4, <2>5, <2>6, NewDisk
    <2>8. Keeps(d, e, ws)
        BY <2>4, <2>7, NumberOf DEF Keeps, RowKept
    <2> QED BY <1>2, <2>2, <2>4, <2>8, RepliesAre DEF Fine, Outcome
<1> QED BY <1>1, <1>2

LEMMA ObjectsAre ==
    ASSUME NEW d, IsStored(d)
    PROVE  d.object \in SUBSET (1..d.keys)
<1>1. d.object \in SUBSET Files
    BY StoredIs, DiskIs
<1>2. ASSUME NEW f \in d.object PROVE f \in 1..d.keys
    <2>1. f \in Files /\ ~(f >= NextKey(d))
        BY <1>1, FileRows
    <2>2. f \in Nat /\ 1 <= f /\ NextKey(d) = d.keys + 1 /\ d.keys \in Nat
        BY <2>1, Numbers, NumberOf
    <2> QED BY <2>1, <2>2
<1> QED BY <1>2

LEMMA MoveFileIsFine ==
    ASSUME NEW d, IsStored(d), NEW ws \in Workspaces, NEW f \in Files, NEW p \in Folders \cup {Root}
    PROVE  Fine(d, ws, MoveFile(d, ws, f, p))
<1>1. CASE ~(ActiveFile(d, ws, f) /\ FolderExistsActive(d, ws, p))
    BY <1>1, RefusedIsFine DEF MoveFile
<1>2. CASE ActiveFile(d, ws, f) /\ FolderExistsActive(d, ws, p)
    <2>1. PICK e, row : e = [d EXCEPT !.file[f].in = p] /\ row = [d.file[f] EXCEPT !.in = p]
        OBVIOUS
    <2>2. MoveFile(d, ws, f, p) = Outcome(e, Done)
        BY <1>2, <2>1 DEF MoveFile
    <2>3. d \in Disk /\ d.file \in [Files -> Row] /\ d.file[f].ws = ws /\ d.file[f].state = "active"
        BY <1>2, StoredIs, DiskIs DEF ActiveFile
    <2>4. row \in Row /\ row.ws = ws /\ row.in = p
        BY <2>1, <2>3 DEF Row, NoRow
    <2>5. e = [d EXCEPT !.file[f] = row, !.keys = d.keys, !.object = d.object]
        BY <2>1, <2>3 DEF Disk
    <2>6. d.file[f].ws # Nobody /\ f <= d.keys
        <3>1. ~(f >= NextKey(d))
            BY <2>3, FileRows DEF NoRow
        <3> QED BY <2>3, <3>1, NumberOf, IdsAreNumbers
    <2>7. Keeps(d, e, ws) /\ d.object \subseteq e.object
        <3>1. row.in # Root => d.folder[row.in].ws = ws
            BY <1>2, <2>4, TargetIs
        <3>2. FileChange(d, e, ws, f, row, d.keys, d.object)
            BY <2>3, <2>4, <2>5, <2>6, <3>1, NumberOf, ObjectsAre DEF FileChange
        <3>3. FileChanged(d, e, ws, f, row)
            BY <3>2, OneFile
        <3> QED BY <2>3, <3>3 DEF FileChanged
    <2> QED BY <2>2, <2>7, RepliesAre DEF Fine, Outcome
<1> QED BY <1>1, <1>2

LEMMA CopyFileIsFine ==
    ASSUME NEW d, IsStored(d), NEW ws \in Workspaces, NEW f \in Files, NEW p \in Folders \cup {Root}
    PROVE  Fine(d, ws, CopyFile(d, ws, f, p))
<1> DEFINE ready == /\ ActiveFile(d, ws, f) /\ FolderExistsActive(d, ws, p) /\ f \in d.object
                    /\ NextKey(d) \in Files
<1>1. CASE ~ready
    BY <1>1, RefusedIsFine DEF CopyFile
<1>2. CASE ready
    <2>1. PICK e, row, k : /\ k = NextKey(d) /\ row = [ws |-> ws, in |-> p, state |-> "active"]
                           /\ e = [d EXCEPT !.keys = k, !.file[k] = row, !.object = @ \cup {k}]
        OBVIOUS
    <2>2. CopyFile(d, ws, f, p) = Outcome(e, Reply({k}, {}))
        BY <1>2, <2>1 DEF CopyFile
    <2>3. d \in Disk /\ d.file \in [Files -> Row]
        BY StoredIs, DiskIs
    <2>4. row \in Row /\ row.ws = ws /\ row.in = p
        BY <2>1 DEF Row, NoRow, RowState
    <2>5. e = [d EXCEPT !.file[k] = row, !.keys = k, !.object = d.object \cup {k}]
        BY <2>1, <2>3 DEF Disk
    <2>6. k \in Files /\ k = d.keys + 1 /\ d.file[k].ws = Nobody
        BY <1>2, <2>1, NumberOf, FileRows DEF NoRow
    <2>7. Keeps(d, e, ws) /\ d.object \subseteq e.object
        <3>1. row.in # Root => d.folder[row.in].ws = ws
            BY <1>2, <2>4, TargetIs
        <3>2. k \in Nat /\ d.keys \in Nat /\ k <= Cardinality(Files) /\ d.keys <= k /\ ~(k <= d.keys)
            BY <2>6, NumberOf
        <3>3. d.object \cup {k} \in SUBSET (1..k)
            BY <2>6, <3>2, ObjectsAre
        <3>4. FileChange(d, e, ws, k, row, k, d.object \cup {k})
            BY <2>3, <2>4, <2>5, <2>6, <3>1, <3>2, <3>3 DEF FileChange
        <3>5. FileChanged(d, e, ws, k, row)
            BY <3>4, OneFile
        <3> QED BY <3>2, <3>5 DEF FileChanged
    <2> QED BY <2>2, <2>6, <2>7, RepliesAre DEF Fine, Outcome
<1> QED BY <1>1, <1>2

\* What a token says: a key that was given out, for a workspace and a folder that was there.
Claimed(d, claims) ==
    /\ claims.ws \in Workspaces /\ claims.key \in Files /\ claims.key <= d.keys
    /\ d.file[claims.key].ws \in {claims.ws, Nobody}
    /\ claims.in # Root => /\ claims.in \in Folders /\ claims.in < NextDir(d)
                           /\ d.folder[claims.in].ws \in {claims.ws, Nobody}

LEMMA ClaimsStay ==
    ASSUME NEW d, IsStored(d), NEW e, NEW ws, Keeps(d, e, ws), NEW claims, Claimed(d, claims)
    PROVE  Claimed(e, claims)
<1>1. /\ d.keys <= e.keys /\ d.dirs <= e.dirs /\ d.keys \in Nat /\ e.keys \in Nat
      /\ d.dirs \in Nat /\ e.dirs \in Nat
    BY NumberOf DEF Keeps
<1>2. claims.key <= e.keys
    BY <1>1, Numbers DEF Claimed
<1>3. claims.in # Root => claims.in < NextDir(e)
    BY <1>1, Numbers DEF Claimed, NextDir
<1>4. claims.key \in Files /\ e.file[claims.key].ws \in {claims.ws, Nobody}
    BY DEF Keeps, RowKept, Claimed
<1>5. claims.in # Root => claims.in \in Folders /\ e.folder[claims.in].ws \in {claims.ws, Nobody}
    BY DEF Keeps, RowKept, Claimed
<1> QED BY <1>2, <1>3, <1>4, <1>5 DEF Claimed

\* The row it makes is of the workspace of the token, in a folder of that workspace; the
\* object it removes is the one the token names, and only while it has no row.
Completed(d, ws, claims, o) ==
    /\ o.reply \in Replies /\ IsStored(o.disk)
    /\ d.object \ o.disk.object \subseteq {key \in {claims.key} : d.file[key] = NoRow}
    /\ Claimed(o.disk, claims) /\ o.disk.folder = d.folder
    /\ \A f \in Files : RowKept(ws, d.file[f], o.disk.file[f])

\* A folder may be put where it does not lie above.
Grafted(d, e, p, row) ==
    /\ e.folder = [d.folder EXCEPT ![p] = row]
    /\ row.in # Root => row.in \notin CollectSubtreeIDs(d, p, FALSE)

LEMMA ForestGrows ==
    ASSUME NEW d, IsStored(d), NEW p \in Folders, NEW row \in Row, NEW e \in Disk,
           Grafted(d, e, p, row)
    PROVE  IsForest(e)
<1>1. \A y \in Folders : e.folder[y] = IF y = p THEN row ELSE d.folder[y]
    BY StoredIs, DiskIs DEF Grafted
<1>2. \A x \in Folders, y \in Folders : Under(e, FALSE, x, y) /\ y # p => Under(d, FALSE, x, y)
    BY <1>1 DEF Under
<1>3. PICK C : C = CollectSubtreeIDs(d, p, FALSE)
    OBVIOUS
<1>4. C \in SUBSET Folders /\ p \in C /\ Closed(d, FALSE, C)
    BY <1>3, Subtree
<1>5. Closed(e, FALSE, C)
    BY <1>2, <1>4 DEF Closed
<1> SUFFICES ASSUME NEW q \in Folders, e.folder[q].in # Root
             PROVE  e.folder[q].in \notin CollectSubtreeIDs(e, q, FALSE)
    BY DEF IsForest, IsDescendantOf
<1>6. CASE q = p
    <2>1. CollectSubtreeIDs(e, p, FALSE) \subseteq C
        BY <1>4, <1>5, SubtreeIsLeast
    <2> QED BY <1>1, <1>3, <1>6, <2>1 DEF Grafted
<1>7. CASE q # p
    <2>1. PICK t, B : t = d.folder[q].in /\ B = CollectSubtreeIDs(d, q, FALSE)
        OBVIOUS
    <2>2. e.folder[q].in = t /\ t # Root /\ t \notin B
        BY <1>1, <1>7, <2>1, StoredIs DEF IsForest, IsDescendantOf
    <2>3. B \in SUBSET Folders /\ q \in B /\ Closed(d, FALSE, B)
        BY <2>1, Subtree
    <2>4. CASE row.in \notin B
        <3>1. Closed(e, FALSE, B)
            BY <1>1, <1>2, <2>3, <2>4 DEF Closed, Under
        <3>2. CollectSubtreeIDs(e, q, FALSE) \subseteq B
            BY <2>3, <3>1, SubtreeIsLeast
        <3> QED BY <2>2, <3>2
    <2>5. CASE row.in \in B
        <3>1. PICK S : S = B \cup C
            OBVIOUS
        <3>2. Closed(e, FALSE, S)
            BY <1>2, <1>4, <2>3, <3>1 DEF Closed
        <3>3. CollectSubtreeIDs(e, q, FALSE) \subseteq S
            BY <1>4, <2>3, <3>1, <3>2, SubtreeIsLeast
        <3>4. t \notin C
            <4> SUFFICES ASSUME t \in C PROVE FALSE
                OBVIOUS
            <4>0. row.in # Root => row.in \notin C
                BY <1>3 DEF Grafted
            <4>1. Under(d, FALSE, t, q)
                BY <2>1, <2>2, FolderRows DEF Under, NoRow
            <4>2. q \in C
                BY <1>4, <4>1 DEF Closed
            <4>3. B \subseteq C
                BY <1>3, <2>1, <4>2, SubtreeOfSubtree
            <4>4. row.in \in Folders
                BY <2>3, <2>5
            <4> QED BY <2>5, <4>0, <4>3, <4>4, IdsAreNumbers
        <3> QED BY <2>2, <3>1, <3>3, <3>4
    <2> QED BY <2>4, <2>5
<1> QED BY <1>6, <1>7

\* A change to one row of workspace_folders.
FolderChange(d, e, ws, p, row, n) ==
    /\ IsStored(d) /\ ws \in Workspaces /\ p \in Folders /\ row \in Row
    /\ d.folder[p].ws \in {ws, Nobody} /\ row.ws = ws
    /\ row.in # Root => d.folder[row.in].ws = ws /\ row.in \notin CollectSubtreeIDs(d, p, FALSE)
    /\ n \in Nat /\ d.dirs <= n /\ n <= Cardinality(Folders) /\ p <= Cardinality(Files) + n
    /\ p < NextDir(d) => d.folder[p].ws = ws
    /\ e = [d EXCEPT !.folder[p] = row, !.dirs = n]

LEMMA OneFolder ==
    ASSUME NEW d, NEW e, NEW ws, NEW p, NEW row, NEW n, FolderChange(d, e, ws, p, row, n)
    PROVE  Keeps(d, e, ws) /\ e.object = d.object
<1>0. /\ IsStored(d) /\ ws \in Workspaces /\ p \in Folders /\ row \in Row
      /\ d.folder[p].ws \in {ws, Nobody} /\ row.ws = ws
      /\ row.in # Root => d.folder[row.in].ws = ws /\ row.in \notin CollectSubtreeIDs(d, p, FALSE)
      /\ n \in Nat /\ d.dirs <= n /\ n <= Cardinality(Folders) /\ p <= Cardinality(Files) + n
      /\ p < NextDir(d) => d.folder[p].ws = ws
      /\ e = [d EXCEPT !.folder[p] = row, !.dirs = n]
    BY DEF FolderChange
<1>1. d \in Disk /\ d.file \in [Files -> Row] /\ d.folder \in [Folders -> Row]
    BY <1>0, StoredIs, DiskIs
<1>2. /\ e.file = d.file /\ e.object = d.object /\ e.keys = d.keys /\ e.dirs = n
      /\ e.folder = [d.folder EXCEPT ![p] = row]
      /\ e = [file |-> e.file, folder |-> e.folder, object |-> e.object, keys |-> e.keys, dirs |-> e.dirs]
    BY <1>0, <1>1 DEF Disk
<1>3. \A q \in Folders : e.folder[q] = IF q = p THEN row ELSE d.folder[q]
    BY <1>1, <1>2
<1>4. e \in Disk
    <2>1. e.folder \in [Folders -> Row]
        BY <1>0, <1>1, <1>2
    <2>2. n \in 0..Cardinality(Folders) /\ d.keys \in 0..Cardinality(Files) /\ d.object \in SUBSET Files
        BY <1>0, <1>1, DiskIs, NumberOf
    <2> QED BY <1>1, <1>2, <2>1, <2>2 DEF Disk
<1>5. InOneWorkspace(e)
    <2>1. \A f \in Files : e.file[f].in # Root => e.folder[e.file[f].in].ws = e.file[f].ws
        BY <1>0, <1>2, <1>3, FileRows DEF NoRow
    <2>2. \A q \in Folders : e.folder[q].in # Root => e.folder[e.folder[q].in].ws = e.folder[q].ws
        <3> SUFFICES ASSUME NEW q \in Folders, e.folder[q].in # Root
                     PROVE  e.folder[e.folder[q].in].ws = e.folder[q].ws
            OBVIOUS
        <3>1. e.folder[q].in \in Folders
            BY <1>0, <1>3, FolderRows, RowIs
        <3>2. CASE q = p
            BY <1>0, <1>3, <3>1, <3>2
        <3>3. CASE q # p
            BY <1>0, <1>3, <3>1, <3>3, FolderRows DEF NoRow
        <3> QED BY <3>2, <3>3
    <2> QED BY <2>1, <2>2 DEF InOneWorkspace
<1>6. GivenOut(e)
    <2>1. NextKey(e) = NextKey(d) /\ NextDir(e) = Cardinality(Files) + n + 1 /\ NextDir(d) = Cardinality(Files) + d.dirs + 1
        BY <1>2 DEF NextKey, NextDir
    <2>2. ASSUME NEW q \in Folders, q >= NextDir(e)
          PROVE  e.folder[q] = NoRow
        <3>1. q # p /\ q >= NextDir(d)
            BY <1>0, <2>1, <2>2, NumberOf
        <3> QED BY <1>0, <1>3, <3>1, FolderRows
    <2> QED BY <1>0, <1>2, <2>1, <2>2, FileRows DEF GivenOut
<1>7. IsForest(e)
    <2>1. Grafted(d, e, p, row)
        BY <1>0, <1>2 DEF Grafted
    <2> QED BY <1>0, <1>4, <2>1, ForestGrows
<1>8. IsStored(e)
    BY <1>4, <1>5, <1>6, <1>7 DEF IsStored
<1>9. \A q \in Folders : /\ RowKept(ws, d.folder[q], e.folder[q])
                         /\ q < NextDir(d) /\ d.folder[q].ws = Nobody => e.folder[q].ws = Nobody
    BY <1>0, <1>3, IdsAreNumbers DEF RowKept
<1>10. \A f \in Files : /\ RowKept(ws, d.file[f], e.file[f])
                        /\ f <= d.keys /\ d.file[f].ws = Nobody => e.file[f].ws = Nobody
    BY <1>2 DEF RowKept
<1> QED BY <1>0, <1>2, <1>8, <1>9, <1>10, NumberOf DEF Keeps


LEMMA CreateFolderIsFine ==
    ASSUME NEW d, IsStored(d), NEW ws \in Workspaces, NEW parent \in Folders \cup {Root}
    PROVE  Fine(d, ws, CreateFolder(d, ws, parent))
<1>1. CASE ~(FolderExistsActive(d, ws, parent) /\ NextDir(d) \in Folders)
    BY <1>1, RefusedIsFine DEF CreateFolder
<1>2. CASE FolderExistsActive(d, ws, parent) /\ NextDir(d) \in Folders
    <2>1. PICK e, row, p : /\ p = NextDir(d) /\ row = [ws |-> ws, in |-> parent, state |-> "active"]
                           /\ e = [d EXCEPT !.dirs = @ + 1, !.folder[p] = row]
        OBVIOUS
    <2>2. CreateFolder(d, ws, parent) = Outcome(e, Reply({}, {p}))
        BY <1>2, <2>1 DEF CreateFolder
    <2>3. d \in Disk /\ p \in Folders
        BY <1>2, <2>1, StoredIs
    <2>4. row \in Row /\ row.ws = ws /\ row.in = parent
        BY <2>1 DEF Row, RowState
    <2>5. e = [d EXCEPT !.folder[p] = row, !.dirs = d.dirs + 1]
        BY <2>1, <2>3 DEF Disk
    <2>6. /\ d.dirs \in Nat /\ d.dirs + 1 \in Nat /\ d.dirs <= d.dirs + 1 /\ ~(p < NextDir(d))
          /\ d.dirs + 1 <= Cardinality(Folders) /\ p <= Cardinality(Files) + (d.dirs + 1)
        BY <2>1, <2>3, NumberOf
    <2>7. d.folder[p] = NoRow /\ d.folder[p].ws = Nobody
        <3>1. p >= NextDir(d)
            BY <2>3, <2>6, NumberOf
        <3> QED BY <2>3, <3>1, FolderRows DEF NoRow
    <2>8. row.in # Root => d.folder[row.in].ws = ws /\ row.in \notin CollectSubtreeIDs(d, p, FALSE)
        <3>1. Closed(d, FALSE, {p})
            BY <2>3, <2>7, FolderRows, IdsAreNumbers DEF Closed, Under
        <3>2. CollectSubtreeIDs(d, p, FALSE) \subseteq {p}
            <4>1. {p} \in SUBSET Folders /\ p \in {p}
                BY <2>3
            <4> QED BY <2>3, <3>1, <4>1, SubtreeIsLeast
        <3>3. row.in # Root => d.folder[row.in].ws = ws
            BY <1>2, <2>4, TargetIs
        <3> QED BY <2>7, <3>2, <3>3, IdsAreNumbers
    <2>9. FolderChange(d, e, ws, p, row, d.dirs + 1)
        BY <2>3, <2>4, <2>5, <2>6, <2>7, <2>8 DEF FolderChange
    <2>10. Keeps(d, e, ws) /\ e.object = d.object
        BY <2>9, OneFolder
    <2> QED BY <2>2, <2>3, <2>10, RepliesAre DEF Fine, Outcome
<1> QED BY <1>1, <1>2

\* A folder that is there has a number that was given out.
LEMMA FolderGiven ==
    ASSUME NEW d, IsStored(d), NEW p \in Folders, d.folder[p].ws # Nobody
    PROVE  p <= Cardinality(Files) + d.dirs /\ d.folder[p] # NoRow
<1>1. ~(p >= NextDir(d)) /\ d.folder[p] # NoRow
    BY FolderRows DEF NoRow
<1> QED BY <1>1, NumberOf

LEMMA MoveFolderIsFine ==
    ASSUME NEW d, IsStored(d), NEW ws \in Workspaces, NEW p \in Folders, NEW parent \in Folders \cup {Root}
    PROVE  Fine(d, ws, MoveFolder(d, ws, p, parent))
<1> DEFINE legal == /\ ActiveFolder(d, ws, p) /\ FolderExistsActive(d, ws, parent)
                    /\ parent # Root => ~ IsDescendantOf(d, parent, p)
<1>1. CASE ~legal
    BY <1>1, RefusedIsFine DEF MoveFolder
<1>2. CASE legal
    <2>1. PICK e, row : e = [d EXCEPT !.folder[p].in = parent] /\ row = [d.folder[p] EXCEPT !.in = parent]
        OBVIOUS
    <2>2. MoveFolder(d, ws, p, parent) = Outcome(e, Done)
        BY <1>2, <2>1 DEF MoveFolder
    <2>3. d \in Disk /\ d.folder \in [Folders -> Row] /\ d.folder[p].ws = ws /\ d.folder[p].state = "active"
        BY <1>2, StoredIs, DiskIs DEF ActiveFolder
    <2>4. row \in Row /\ row.ws = ws /\ row.in = parent
        BY <2>1, <2>3 DEF Row, NoRow
    <2>5. e = [d EXCEPT !.folder[p] = row, !.dirs = d.dirs]
        BY <2>1, <2>3 DEF Disk
    <2>6. p <= Cardinality(Files) + d.dirs
        BY <2>3, FolderGiven, IdsAreNumbers
    <2>7. row.in # Root => d.folder[row.in].ws = ws /\ row.in \notin CollectSubtreeIDs(d, p, FALSE)
        <3>1. PICK C : C = CollectSubtreeIDs(d, p, FALSE)
            OBVIOUS
        <3>2. parent # Root => parent \notin C
            BY <1>2, <3>1 DEF IsDescendantOf
        <3>3. row.in # Root => d.folder[row.in].ws = ws /\ row.in \notin C
            BY <1>2, <2>4, <3>2, TargetIs
        <3> QED BY <3>1, <3>3
    <2>8. FolderChange(d, e, ws, p, row, d.dirs)
        <3>1. d.dirs \in Nat /\ d.dirs <= d.dirs /\ d.dirs <= Cardinality(Folders)
            BY NumberOf
        <3> QED BY <2>3, <2>4, <2>5, <2>6, <2>7, <3>1 DEF FolderChange
    <2>9. Keeps(d, e, ws) /\ e.object = d.object
        BY <2>8, OneFolder
    <2> QED BY <2>2, <2>9, RepliesAre DEF Fine, Outcome
<1> QED BY <1>1, <1>2

\* The way back from the trash, for a file: to where it was or to the root.
LEMMA RestoreFileIsFine ==
    ASSUME NEW d, IsStored(d), NEW ws \in Workspaces, NEW f \in Files
    PROVE  Fine(d, ws, RestoreFile(d, ws, f))
<1> DEFINE found == d.file[f].ws = ws /\ InTrash(d.file[f])
<1>1. CASE ~found
    BY <1>1, RefusedIsFine DEF RestoreFile
<1>2. CASE found
    <2>0. PICK home : home = IF FolderExistsActive(d, ws, d.file[f].in) THEN d.file[f].in ELSE Root
        OBVIOUS
    <2>1. PICK e, row : /\ row = [d.file[f] EXCEPT !.in = home, !.state = "active"]
                        /\ e = [d EXCEPT !.file[f] = [@ EXCEPT !.in = home, !.state = "active"]]
        OBVIOUS
    <2>2. RestoreFile(d, ws, f) = Outcome(e, Done)
        BY <1>2, <2>0, <2>1 DEF RestoreFile
    <2>3. d \in Disk /\ d.file \in [Files -> Row] /\ d.file[f].ws = ws /\ home \in {Root, d.file[f].in}
        BY <1>2, <2>0, StoredIs, DiskIs
    <2>4. row \in Row /\ row.ws = ws /\ row.in = home
        <3>1. home \in Folders \cup {Root}
            BY <2>3, FileRows
        <3>2. d.file[f] \in [ws : Workspaces, in : Folders \cup {Root}, state : RowState]
            BY <2>3, IdsAreNumbers DEF Row, NoRow
        <3> QED BY <2>1, <2>3, <3>1, <3>2 DEF Row, RowState
    <2>5. e = [d EXCEPT !.file[f] = row, !.keys = d.keys, !.object = d.object]
        BY <2>1, <2>3 DEF Disk
    <2>6. d.file[f].ws # Nobody /\ f <= d.keys
        <3>1. d.file[f].ws # Nobody
            BY <2>3, IdsAreNumbers
        <3>2. ~(f >= NextKey(d))
            BY <3>1, FileRows DEF NoRow
        <3> QED BY <3>1, <3>2, NumberOf
    <2>7. row.in # Root => d.folder[row.in].ws = ws
        BY <2>3, <2>4, FileRows
    <2>8. FileChange(d, e, ws, f, row, d.keys, d.object)
        BY <2>3, <2>4, <2>5, <2>6, <2>7, NumberOf, ObjectsAre DEF FileChange
    <2>9. FileChanged(d, e, ws, f, row)
        BY <2>8, OneFile
    <2> QED BY <2>2, <2>3, <2>9, RepliesAre DEF Fine, Outcome, FileChanged
<1> QED BY <1>1, <1>2

\* The batch comes back where it was, or its folders alone.
Batch(row, ws) == row.ws = ws /\ row.state = "batched"
WithBatch(row, ws) == IF Batch(row, ws) THEN [row EXCEPT !.state = "active"] ELSE row

BatchBack(d, ws, fs) ==
    [d EXCEPT !.folder = [q \in Folders |-> WithBatch(@[q], ws)],
              !.file = [f \in Files |-> IF f \in fs THEN WithBatch(@[f], ws) ELSE @[f]]]

LEMMA WithBatchIs ==
    ASSUME NEW row \in Row, NEW ws
    PROVE  /\ WithBatch(row, ws) \in Row /\ WithBatch(row, ws).ws = row.ws
           /\ WithBatch(row, ws).in = row.in
           /\ WithBatch(row, ws) # row => row.ws = ws /\ row # NoRow
BY DEF WithBatch, Batch, Row, NoRow, RowState

LEMMA BatchIsFine ==
    ASSUME NEW d, IsStored(d), NEW ws \in Workspaces, NEW fs, NEW e, e = BatchBack(d, ws, fs)
    PROVE  Keeps(d, e, ws) /\ e.object = d.object
<1>1. d \in Disk /\ d.file \in [Files -> Row] /\ d.folder \in [Folders -> Row]
    BY StoredIs, DiskIs
<1>2. /\ e.file = [f \in Files |-> IF f \in fs THEN WithBatch(d.file[f], ws) ELSE d.file[f]]
      /\ e.object = d.object
      /\ e.folder = [q \in Folders |-> WithBatch(d.folder[q], ws)]
      /\ e.keys = d.keys /\ e.dirs = d.dirs /\ NextKey(e) = NextKey(d) /\ NextDir(e) = NextDir(d)
      /\ e = [file |-> e.file, folder |-> e.folder, object |-> e.object, keys |-> e.keys, dirs |-> e.dirs]
    BY <1>1 DEF Disk, NextKey, NextDir, BatchBack
<1>3. \A f \in Files : /\ e.file[f] \in Row /\ e.file[f].ws = d.file[f].ws /\ e.file[f].in = d.file[f].in
                       /\ e.file[f] # d.file[f] => d.file[f].ws = ws /\ d.file[f] # NoRow
    BY <1>1, <1>2, WithBatchIs
<1>4. \A p \in Folders : /\ e.folder[p] \in Row /\ e.folder[p].ws = d.folder[p].ws
                         /\ e.folder[p].in = d.folder[p].in
                         /\ e.folder[p] # d.folder[p] => d.folder[p].ws = ws /\ d.folder[p] # NoRow
    BY <1>1, <1>2, WithBatchIs
<1>5. e \in Disk
    BY <1>1, <1>2, <1>3, <1>4 DEF Disk
<1>6. InOneWorkspace(e)
    BY <1>3, <1>4, FileRows, FolderRows DEF InOneWorkspace
<1>7. GivenOut(e)
    <2>1. \A f \in Files : f >= NextKey(d) => e.file[f] = NoRow /\ f \notin d.object
        BY <1>3, FileRows
    <2>2. \A p \in Folders : p >= NextDir(d) => e.folder[p] = NoRow
        BY <1>4, FolderRows
    <2> QED BY <1>2, <2>1, <2>2 DEF GivenOut
<1>8. IsStored(e)
    BY <1>4, <1>5, <1>6, <1>7, NewDisk
<1> QED BY <1>2, <1>3, <1>4, <1>8, NumberOf, IdsAreNumbers DEF Keeps, RowKept

LEMMA RestoreFolderIsFine ==
    ASSUME NEW d, IsStored(d), NEW ws \in Workspaces, NEW p \in Folders, NEW o \in RestoreFolder(d, ws, p)
    PROVE  Fine(d, ws, o) /\ o = [disk |-> o.disk, reply |-> o.reply]
<1> DEFINE row == d.folder[p]
<1>0. CASE o = Refused(d)
    BY <1>0, RefusedIsFine DEF Refused, Outcome
<1>1. CASE o # Refused(d) /\ (row.ws # ws \/ row.state \notin {"trash", "batched"})
    BY <1>1 DEF RestoreFolder
<1>2. CASE o # Refused(d) /\ row.ws = ws /\ row.state = "batched"
    <2>1. PICK folders, e : /\ folders = [d EXCEPT !.folder = [q \in Folders |-> WithBatch(@[q], ws)]]
                            /\ e = [folders EXCEPT !.file = [f \in Files |-> WithBatch(@[f], ws)]]
        OBVIOUS
    <2>2. o = Outcome(e, Done) \/ o = Outcome(folders, Failure)
        BY <1>2, <2>1 DEF RestoreFolder, WithBatch, Batch
    <2>3. d \in Disk /\ d.file \in [Files -> Row]
        BY StoredIs, DiskIs
    <2>4. e = BatchBack(d, ws, Files) /\ folders = BatchBack(d, ws, {})
        BY <2>1, <2>3 DEF Disk, BatchBack
    <2>5. Keeps(d, e, ws) /\ e.object = d.object
        BY <2>4, BatchIsFine
    <2>6. Keeps(d, folders, ws) /\ folders.object = d.object
        BY <2>4, BatchIsFine
    <2> QED BY <2>2, <2>5, <2>6, RepliesAre DEF Fine, Outcome
<1>3. CASE o # Refused(d) /\ row.ws = ws /\ row.state = "trash"
    <2>0. PICK home : home = IF FolderExistsActive(d, ws, d.folder[p].in) THEN d.folder[p].in ELSE Root
        OBVIOUS
    <2>1. PICK e, new : /\ new = [d.folder[p] EXCEPT !.in = home, !.state = "active"]
                        /\ e = [d EXCEPT !.folder[p] = [@ EXCEPT !.in = home, !.state = "active"]]
        OBVIOUS
    <2>2. o = Outcome(e, Done)
        BY <1>3, <2>0, <2>1 DEF RestoreFolder
    <2>3. d \in Disk /\ d.folder \in [Folders -> Row] /\ d.folder[p].ws = ws /\ home \in {Root, d.folder[p].in}
        BY <1>3, <2>0, StoredIs, DiskIs
    <2>4. new \in Row /\ new.ws = ws /\ new.in = home
        <3>1. home \in Folders \cup {Root}
            BY <2>3, FolderRows
        <3>2. d.folder[p] \in [ws : Workspaces, in : Folders \cup {Root}, state : RowState]
            BY <2>3, IdsAreNumbers DEF Row, NoRow
        <3> QED BY <2>1, <2>3, <3>1, <3>2 DEF Row, RowState
    <2>5. e = [d EXCEPT !.folder[p] = new, !.dirs = d.dirs]
        BY <2>1, <2>3 DEF Disk
    <2>6. p <= Cardinality(Files) + d.dirs
        BY <2>3, FolderGiven, IdsAreNumbers
    <2>7. new.in # Root => d.folder[new.in].ws = ws /\ new.in \notin CollectSubtreeIDs(d, p, FALSE)
        <3>1. PICK C : C = CollectSubtreeIDs(d, p, FALSE)
            OBVIOUS
        <3>2. d.folder[p].in # Root => d.folder[p].in \notin C
            BY <3>1, StoredIs DEF IsForest, IsDescendantOf
        <3>3. new.in # Root => d.folder[new.in].ws = ws /\ new.in \notin C
            BY <2>3, <2>4, <3>2, FolderRows
        <3> QED BY <3>1, <3>3
    <2>8. FolderChange(d, e, ws, p, new, d.dirs)
        <3>1. d.dirs \in Nat /\ d.dirs <= d.dirs /\ d.dirs <= Cardinality(Folders)
            BY NumberOf
        <3> QED BY <2>3, <2>4, <2>5, <2>6, <2>7, <3>1 DEF FolderChange
    <2>9. Keeps(d, e, ws) /\ e.object = d.object
        BY <2>8, OneFolder
    <2> QED BY <2>2, <2>9, RepliesAre DEF Fine, Outcome
<1> QED BY <1>0, <1>1, <1>2, <1>3

LEMMA FineOn ==
    ASSUME NEW d, NEW e, NEW ws, NEW o, IsStored(d), Keeps(d, e, ws), d.object \subseteq e.object, Fine(e, ws, o)
    PROVE  Fine(d, ws, o)
BY KeepsOn DEF Fine

LEMMA ExtractArchiveIsFine ==
    ASSUME NEW d, IsStored(d), NEW ws \in Workspaces, NEW f \in Files, NEW o \in ExtractArchive(d, ws, f)
    PROVE  Fine(d, ws, o)
<1>1. PICK made, p, copied : /\ made = CreateFolder(d, ws, d.file[f].in) /\ p = NextDir(d)
                             /\ copied = CopyFile(made.disk, ws, f, p)
    OBVIOUS
<1>2. \/ o = Refused(d)
      \/ /\ Room(d)
         /\ o \in {Outcome(copied.disk, Reply({}, {p})), Outcome(made.disk, Failure)}
    BY <1>1 DEF ExtractArchive
<1>3. CASE o = Refused(d)
    BY <1>3, RefusedIsFine
<1>4. CASE Room(d) /\ o \in {Outcome(copied.disk, Reply({}, {p})), Outcome(made.disk, Failure)}
    <2>1. p \in Folders /\ {p} \in SUBSET Folders
        BY <1>1, <1>4 DEF Room
    <2>2. Fine(d, ws, made)
        BY <1>1, FileRows, CreateFolderIsFine
    <2>3. IsStored(made.disk)
        BY <2>2 DEF Fine, Keeps
    <2>4. Fine(made.disk, ws, copied)
        BY <1>1, <2>1, <2>3, CopyFileIsFine
    <2>5. Fine(d, ws, copied)
        BY <2>2, <2>4, FineOn DEF Fine
    <2>6. Failure \in Replies /\ Reply({}, {p}) \in Replies
        BY <2>1, RepliesAre
    <2> QED BY <1>4, <2>2, <2>5, <2>6 DEF Fine, Outcome
<1> QED BY <1>2, <1>3, <1>4

-----------------------------------------------------------------------------
(* The handlers that erase                                                 *)

\* What is left of d in e when rows of ws were erased: none is put anywhere else, and no
\* row is in a folder that is gone.
Cut(d, e, ws) ==
    /\ IsStored(d) /\ ws \in Workspaces /\ e \in Disk
    /\ e.keys = d.keys /\ e.dirs = d.dirs /\ e.object \subseteq d.object
    /\ \A f \in Files : \/ e.file[f] = d.file[f]
                        \/ d.file[f].ws = ws /\ e.file[f] \in {NoRow, [d.file[f] EXCEPT !.in = Root]}
    /\ \A p \in Folders : e.folder[p] = d.folder[p] \/ (d.folder[p].ws = ws /\ e.folder[p] = NoRow)
    /\ \A f \in Files : e.file[f].in # Root => e.folder[e.file[f].in] = d.folder[e.file[f].in]
    /\ \A p \in Folders : e.folder[p].in # Root => e.folder[e.folder[p].in] = d.folder[e.folder[p].in]

Remnant(d, e) ==
    /\ \A f \in Files : e.file[f].in \in {Root, d.file[f].in}
    /\ \A p \in Folders : e.folder[p] \in {NoRow, d.folder[p]}
Less(d, e, ws, S) == Keeps(d, e, ws) /\ Remnant(d, e) /\ d.object \ e.object \subseteq S

LEMMA CutIsLess ==
    ASSUME NEW d, NEW e, NEW ws, Cut(d, e, ws)
    PROVE  Keeps(d, e, ws) /\ Remnant(d, e)
<1>1. IsStored(d) /\ ws \in Workspaces /\ e \in Disk /\ d \in Disk
    BY StoredIs DEF Cut
<1>2. \A f \in Files : /\ d.file[f].ws \notin {ws} => e.file[f] = d.file[f]
                       /\ e.file[f].ws \in {d.file[f].ws, Nobody}
                       /\ e.file[f].in \in {Root, d.file[f].in}
                       /\ e.file[f].in # Root => e.file[f] = d.file[f]
                       /\ d.file[f] = NoRow => e.file[f] = NoRow
    <2> SUFFICES ASSUME NEW f \in Files
                 PROVE  /\ d.file[f].ws \notin {ws} => e.file[f] = d.file[f]
                        /\ e.file[f].ws \in {d.file[f].ws, Nobody}
                        /\ e.file[f].in \in {Root, d.file[f].in}
                        /\ e.file[f].in # Root => e.file[f] = d.file[f]
                        /\ d.file[f] = NoRow => e.file[f] = NoRow
        OBVIOUS
    <2>1. d.file[f] \in Row
        BY <1>1, DiskIs
    <2>2. \/ e.file[f] = d.file[f]
          \/ d.file[f].ws = ws /\ e.file[f] = NoRow
          \/ d.file[f].ws = ws /\ e.file[f] = [d.file[f] EXCEPT !.in = Root]
        BY DEF Cut
    <2> QED BY <2>1, <2>2, RowIs DEF NoRow
<1>3. \A p \in Folders : /\ d.folder[p].ws \notin {ws} => e.folder[p] = d.folder[p]
                         /\ e.folder[p].ws \in {d.folder[p].ws, Nobody}
                         /\ e.folder[p] \in {NoRow, d.folder[p]}
                         /\ e.folder[p].in \in {Root, d.folder[p].in}
                         /\ e.folder[p].in # Root => e.folder[p] = d.folder[p]
    BY DEF Cut, NoRow
<1>4. InOneWorkspace(e)
    <2>1. ASSUME NEW f \in Files, e.file[f].in # Root
          PROVE  e.folder[e.file[f].in].ws = e.file[f].ws
        BY <1>1, <1>2, <2>1, FileRows DEF Cut
    <2>2. ASSUME NEW p \in Folders, e.folder[p].in # Root
          PROVE  e.folder[e.folder[p].in].ws = e.folder[p].ws
        BY <1>1, <1>3, <2>2, FolderRows DEF Cut
    <2> QED BY <2>1, <2>2 DEF InOneWorkspace
<1>5. GivenOut(e)
    <2>1. NextKey(e) = NextKey(d) /\ NextDir(e) = NextDir(d) /\ e.object \subseteq d.object
        BY DEF NextKey, NextDir, Cut
    <2>2. \A f \in Files : f >= NextKey(d) => e.file[f] = NoRow /\ f \notin e.object
        BY <1>1, <1>2, <2>1, FileRows
    <2>3. \A p \in Folders : p >= NextDir(d) => e.folder[p] = NoRow
        BY <1>1, <1>3, FolderRows
    <2> QED BY <2>1, <2>2, <2>3 DEF GivenOut
<1>6. IsStored(e)
    BY <1>1, <1>3, <1>4, <1>5, NewDisk
<1>7. d.keys <= e.keys /\ d.dirs <= e.dirs
    BY <1>1, NumberOf DEF Cut
<1>8. Keeps(d, e, ws)
    BY <1>2, <1>3, <1>6, <1>7 DEF Keeps, RowKept
<1> QED BY <1>2, <1>3, <1>8 DEF Remnant

LEMMA LessOn ==
    ASSUME NEW d, NEW e, NEW g, NEW ws, NEW S, IsStored(d), Less(d, e, ws, S), Less(e, g, ws, S)
    PROVE  Less(d, g, ws, S)
<1>1. Keeps(d, g, ws)
    BY KeepsOn DEF Less
<1>2. Remnant(d, g)
    BY DEF Less, Remnant
<1> QED BY <1>1, <1>2 DEF Less

LEMMA DropFilesIs ==
    ASSUME NEW d, IsStored(d), NEW ws \in Workspaces, NEW fs \in SUBSET Files,
           \A f \in fs : d.file[f].ws = ws, NEW e, e = DropFiles(d, fs)
    PROVE  Less(d, e, ws, fs) /\ e.folder = d.folder
<1>1. d \in Disk /\ d.file \in [Files -> Row] /\ d.folder \in [Folders -> Row] /\ d.object \in SUBSET Files
    BY StoredIs, DiskIs
<1>2. /\ e.file = [f \in Files |-> IF f \in fs THEN NoRow ELSE d.file[f]]
      /\ e.folder = d.folder /\ e.object = d.object \ fs /\ e.keys = d.keys /\ e.dirs = d.dirs
      /\ e = [file |-> e.file, folder |-> e.folder, object |-> e.object, keys |-> e.keys, dirs |-> e.dirs]
    BY <1>1 DEF Disk, DropFiles
<1>3. e.file \in [Files -> Row] /\ e.object \in SUBSET Files
    BY <1>1, <1>2 DEF Row
<1>4. e \in Disk
    BY <1>1, <1>2, <1>3 DEF Disk
<1>5. \A f \in Files : e.file[f].in # Root => e.file[f] = d.file[f]
    BY <1>2 DEF NoRow
<1>6. Cut(d, e, ws)
    BY <1>2, <1>4, <1>5 DEF Cut
<1> QED BY <1>2, <1>6, CutIsLess DEF Less

LEMMA DropObjectsIs ==
    ASSUME NEW d, IsStored(d), NEW ws \in Workspaces, NEW fs \in SUBSET Files, NEW e, e = DropObjects(d, fs)
    PROVE  Less(d, e, ws, fs) /\ e.folder = d.folder
<1>1. d \in Disk /\ d.object \in SUBSET Files
    BY StoredIs, DiskIs
<1>2. /\ e.file = d.file /\ e.folder = d.folder /\ e.object = d.object \ fs
      /\ e.keys = d.keys /\ e.dirs = d.dirs /\ e \in Disk
    BY <1>1 DEF Disk, DropObjects
<1>3. Cut(d, e, ws)
    BY <1>2 DEF Cut
<1> QED BY <1>2, <1>3, CutIsLess DEF Less

LEMMA UploadCompleteIsFine ==
    ASSUME NEW d, IsStored(d), NEW ws, NEW claims, Claimed(d, claims), NEW o \in UploadComplete(d, ws, claims)
    PROVE  Completed(d, ws, claims, o)
<1>2. PICK key, row : key = claims.key /\ row = [ws |-> ws, in |-> claims.in, state |-> "active"]
    OBVIOUS
<1>3. PICK there \in BOOLEAN : there = (claims.in = Root \/ d.folder[claims.in].state # "none")
    OBVIOUS
<1>4. \/ o = Refused(d) \/ o = Outcome(d, Reply({key}, {}))
      \/ /\ claims.ws = ws /\ d.file[key].ws # ws /\ key \in d.object /\ there
         /\ o = Outcome([d EXCEPT !.file[key] = row], Reply({key}, {}))
      \/ /\ claims.ws = ws /\ d.file[key].ws # ws /\ o = Outcome(DropObjects(d, {key}), Failure)
    BY <1>2, <1>3 DEF UploadComplete
<1>5. key \in Files /\ Failure \in Replies /\ Reply({key}, {}) \in Replies
    BY <1>2, RepliesAre DEF Claimed
<1>6. CASE o = Refused(d) \/ o = Outcome(d, Reply({key}, {}))
    <2>1. o.disk = d /\ o.reply \in Replies
        BY <1>5, <1>6 DEF Refused, Outcome
    <2> QED BY <2>1 DEF RowKept, Completed
<1>7. CASE /\ claims.ws = ws /\ d.file[key].ws # ws /\ key \in d.object /\ there
           /\ o = Outcome([d EXCEPT !.file[key] = row], Reply({key}, {}))
    <2>1. PICK e : e = [d EXCEPT !.file[key] = row]
        OBVIOUS
    <2>2. d \in Disk /\ ws \in Workspaces /\ d.file[key].ws = Nobody /\ key <= d.keys /\ d.keys \in Nat
        BY <1>2, <1>7, StoredIs, NumberOf DEF Claimed
    <2>3. claims.in # Root => claims.in \in Folders /\ d.folder[claims.in].ws = ws
        BY <1>3, <1>7, FolderRows DEF Claimed
    <2>4. row \in Row /\ row.ws = ws /\ row.in = claims.in
        BY <1>2, <2>2, <2>3 DEF Row, RowState
    <2>5. e = [d EXCEPT !.file[key] = row, !.keys = d.keys, !.object = d.object]
        BY <2>1, <2>2 DEF Disk
    <2>6. FileChange(d, e, ws, key, row, d.keys, d.object)
        BY <1>5, <2>2, <2>3, <2>4, <2>5, NumberOf, ObjectsAre DEF FileChange
    <2>7. FileChanged(d, e, ws, key, row)
        BY <2>6, OneFile
    <2>8. /\ IsStored(e) /\ d.object \subseteq e.object /\ e.folder = d.folder
          /\ e.file = [d.file EXCEPT ![key] = row] /\ e.keys = d.keys /\ e.dirs = d.dirs
        BY <2>1, <2>2, <2>7 DEF Disk, FileChanged
    <2>9. \A f \in Files : e.file[f] = IF f = key THEN row ELSE d.file[f]
        BY <2>2, <2>8, DiskIs
    <2>10. \A f \in Files : RowKept(ws, d.file[f], e.file[f])
        BY <2>2, <2>4, <2>9 DEF RowKept
    <2>11. Claimed(e, claims)
        BY <1>2, <1>5, <1>7, <2>4, <2>8, <2>9 DEF Claimed, NextDir
    <2>12. o.disk = e /\ o.reply \in Replies
        BY <1>5, <1>7, <2>1 DEF Outcome
    <2> QED BY <2>8, <2>10, <2>11, <2>12 DEF Completed
<1>8. CASE claims.ws = ws /\ d.file[key].ws # ws /\ o = Outcome(DropObjects(d, {key}), Failure)
    <2>1. PICK e : e = DropObjects(d, {key})
        OBVIOUS
    <2>2. ws \in Workspaces /\ {key} \in SUBSET Files /\ o.disk = e /\ o.reply \in Replies
        BY <1>2, <1>5, <1>8, <2>1 DEF Claimed, Outcome
    <2>3. Less(d, e, ws, {key}) /\ e.folder = d.folder
        BY <2>1, <2>2, DropObjectsIs
    <2>4. Keeps(d, e, ws) /\ d.object \ e.object \subseteq {key} /\ IsStored(e)
        BY <2>3 DEF Less, Keeps
    <2>5. Claimed(e, claims)
        BY <2>4, ClaimsStay
    <2>6. \A f \in Files : RowKept(ws, d.file[f], e.file[f])
        BY <2>4 DEF Keeps
    <2>7. d.file[key] = NoRow
        BY <1>2, <1>5, <1>8, FileRows DEF Claimed
    <2> QED BY <1>2, <2>2, <2>3, <2>4, <2>5, <2>6, <2>7 DEF Completed
<1> QED BY <1>4, <1>6, <1>7, <1>8

\* What lies under folders of a workspace is of the workspace, and goes with them.
LEMMA DropFoldersIs ==
    ASSUME NEW d, IsStored(d), NEW ws \in Workspaces, NEW ps \in SUBSET Folders,
           \A p \in ps : d.folder[p].ws = ws, NEW e, e = DropFolders(d, ps)
    PROVE  Less(d, e, ws, {})
<1>1. d \in Disk /\ d.file \in [Files -> Row] /\ d.folder \in [Folders -> Row]
    BY StoredIs, DiskIs
<1>2. PICK gone : gone = UNION {CollectSubtreeIDs(d, p, FALSE) : p \in ps}
    OBVIOUS
<1>3. /\ e.folder = [p \in Folders |-> IF p \in gone THEN NoRow ELSE d.folder[p]]
      /\ e.file = [f \in Files |-> IF d.file[f].in \in gone THEN [d.file[f] EXCEPT !.in = Root] ELSE d.file[f]]
      /\ e.object = d.object /\ e.keys = d.keys /\ e.dirs = d.dirs
      /\ e = [file |-> e.file, folder |-> e.folder, object |-> e.object, keys |-> e.keys, dirs |-> e.dirs]
    BY <1>1, <1>2 DEF Disk, DropFolders
<1>4. \A q \in gone : q \in Folders /\ d.folder[q].ws = ws
    <2> SUFFICES ASSUME NEW p \in ps, NEW q \in CollectSubtreeIDs(d, p, FALSE)
                 PROVE  q \in Folders /\ d.folder[q].ws = ws
        BY <1>2
    <2> QED BY SubtreeIsOfItsWorkspace
<1>5. Closed(d, FALSE, gone)
    <2> SUFFICES ASSUME NEW p \in ps, NEW x \in CollectSubtreeIDs(d, p, FALSE), NEW y \in Folders,
                        Under(d, FALSE, x, y)
                 PROVE  y \in CollectSubtreeIDs(d, p, FALSE)
        BY <1>2 DEF Closed
    <2>1. Closed(d, FALSE, CollectSubtreeIDs(d, p, FALSE))
        BY Subtree
    <2> QED BY <2>1 DEF Closed
<1>6. \A q \in Folders : e.folder[q] = d.folder[q] \/ (d.folder[q].ws = ws /\ e.folder[q] = NoRow)
    BY <1>3, <1>4
<1>7. \A f \in Files : e.file[f] = d.file[f] \/ (d.file[f].ws = ws /\ e.file[f] = [d.file[f] EXCEPT !.in = Root])
    <2> SUFFICES ASSUME NEW f \in Files, d.file[f].in \in gone PROVE d.file[f].ws = ws
        BY <1>3
    <2> QED BY <1>4, FileRows, IdsAreNumbers
<1>8. \A f \in Files : /\ e.file[f] \in Row
                       /\ e.file[f].in # Root => e.file[f].in \in Folders \ gone
    <2> SUFFICES ASSUME NEW f \in Files
                 PROVE  /\ e.file[f] \in Row
                        /\ e.file[f].in # Root => e.file[f].in \in Folders \ gone
        OBVIOUS
    <2>1. d.file[f] \in Row /\ d.file[f].in \in Folders \cup {Root}
        BY <1>1, FileRows
    <2>2. CASE d.file[f].in \in gone
        <3>1. e.file[f] = [d.file[f] EXCEPT !.in = Root]
            BY <1>3, <2>2
        <3> QED BY <2>1, <3>1 DEF Row, NoRow
    <2>3. CASE d.file[f].in \notin gone
        <3>1. e.file[f] = d.file[f]
            BY <1>3, <2>3
        <3> QED BY <2>1, <2>3, <3>1
    <2> QED BY <2>2, <2>3
<1>9. \A q \in Folders : e.folder[q].in # Root => e.folder[q].in \in Folders \ gone
    <2> SUFFICES ASSUME NEW q \in Folders, e.folder[q].in # Root
                 PROVE  e.folder[q].in \in Folders \ gone
        OBVIOUS
    <2>1. q \notin gone /\ e.folder[q] = d.folder[q]
        BY <1>3 DEF NoRow
    <2>2. d.folder[q].in \in Folders /\ d.folder[q].state # "none"
        BY <2>1, FolderRows DEF NoRow
    <2>3. d.folder[q].in \notin gone
        BY <1>5, <2>1, <2>2 DEF Closed, Under
    <2> QED BY <2>1, <2>2, <2>3
<1>10. e \in Disk
    <2>1. e.file \in [Files -> Row]
        BY <1>3, <1>8
    <2>2. e.folder \in [Folders -> Row]
        BY <1>1, <1>3 DEF Row
    <2> QED BY <1>1, <1>3, <2>1, <2>2 DEF Disk
<1>11. \A q \in Folders \ gone : e.folder[q] = d.folder[q]
    BY <1>3
<1>12. Cut(d, e, ws)
    BY <1>3, <1>6, <1>7, <1>8, <1>9, <1>10, <1>11 DEF Cut
<1> QED BY <1>3, <1>12, CutIsLess DEF Less

LEMMA LessItself ==
    ASSUME NEW d, IsStored(d), NEW ws, NEW S
    PROVE  Less(d, d, ws, S)
BY KeepsItself DEF Less, Remnant

LEMMA LessMore ==
    ASSUME NEW d, NEW e, NEW ws, NEW S, NEW T, S \subseteq T, Less(d, e, ws, S)
    PROVE  Less(d, e, ws, T)
BY DEF Less

\* An outcome of a request that erases for workspace ws: only objects of S go.
Erased(d, ws, o, S) == o.reply \in Replies /\ Less(d, o.disk, ws, S)

LEMMA RefusedErasesNothing ==
    ASSUME NEW d, IsStored(d), NEW ws, NEW S
    PROVE  Erased(d, ws, Refused(d), S)
BY RepliesAre, LessItself DEF Erased, Refused, Outcome

\* The objects go one after another: any of them may be gone when a request stops.
LEMMA CutShortIs ==
    ASSUME NEW d, IsStored(d), NEW ws \in Workspaces, NEW fs \in SUBSET Files, NEW o \in CutShort(d, fs)
    PROVE  Erased(d, ws, o, fs)
<1>1. PICK s \in SUBSET fs : o = Outcome(DropObjects(d, s), Failure)
    BY DEF CutShort
<1>2. Less(d, DropObjects(d, s), ws, s)
    BY DropObjectsIs
<1>3. Less(d, DropObjects(d, s), ws, fs)
    BY <1>2, LessMore
<1> QED BY <1>1, <1>3, RepliesAre DEF Erased, Outcome

LEMMA PurgeFilesIs ==
    ASSUME NEW d, IsStored(d), NEW ws \in Workspaces, NEW fs \in SUBSET Files,
           \A f \in fs : d.file[f].ws = ws, NEW o \in PurgeFiles(d, fs)
    PROVE  Erased(d, ws, o, fs)
<1>1. CASE o = Outcome(DropFiles(d, fs), Done)
    <2>1. Less(d, DropFiles(d, fs), ws, fs)
        BY DropFilesIs
    <2> QED BY <1>1, <2>1, RepliesAre DEF Erased, Outcome
<1> QED BY <1>1, CutShortIs DEF PurgeFiles

\* The files in the folder p and in the folders under it.
Below(d, p) == {f \in Files : d.file[f].in \in CollectSubtreeIDs(d, p, FALSE)}

\* The files go first and then the folders, of those the ones of the workspace.
LEMMA DropBothIs ==
    ASSUME NEW d, IsStored(d), NEW ws \in Workspaces, NEW fs \in SUBSET Files,
           \A f \in fs : d.file[f].ws = ws, NEW ps \in SUBSET Folders, \A p \in ps : d.folder[p].ws = ws
    PROVE  Less(d, DropFolders(DropFiles(d, fs), ps), ws, fs)
<1>1. PICK e, g : e = DropFiles(d, fs) /\ g = DropFolders(e, ps)
    OBVIOUS
<1>2. Less(d, e, ws, fs) /\ e.folder = d.folder
    BY <1>1, DropFilesIs
<1>3. IsStored(e)
    BY <1>2 DEF Less, Keeps
<1>4. Less(e, g, ws, {})
    BY <1>1, <1>2, <1>3, DropFoldersIs
<1>5. Less(e, g, ws, fs)
    BY <1>4, LessMore
<1> QED BY <1>1, <1>2, <1>5, LessOn

LEMMA ErasedMore ==
    ASSUME NEW d, NEW ws, NEW o, NEW S, NEW T, S \subseteq T, Erased(d, ws, o, S)
    PROVE  Erased(d, ws, o, T)
BY LessMore DEF Erased

LEMMA PurgeFolderTreeIs ==
    ASSUME NEW d, IsStored(d), NEW ws \in Workspaces, NEW p \in Folders, NEW includeDeleted \in BOOLEAN,
           NEW o \in PurgeFolderTree(d, ws, p, includeDeleted)
    PROVE  Erased(d, ws, o, Below(d, p))
<1>1. PICK ps, C : ps = CollectSubtreeIDs(d, p, ~includeDeleted) /\ C = CollectSubtreeIDs(d, p, FALSE)
    OBVIOUS
<1>2. ps \subseteq C /\ C \subseteq Folders
    BY <1>1, ActiveSubtree, Subtree
<1>3. PICK fs : fs = {f \in Files : d.file[f].ws = ws /\ d.file[f].in \in ps
                                    /\ (includeDeleted \/ d.file[f].state = "active")}
    OBVIOUS
<1>4. PICK own : own = {q \in ps : d.folder[q].ws = ws}
    OBVIOUS
<1>5. \/ o \in {Outcome(DropFolders(DropFiles(d, fs), own), Done), Outcome(DropFiles(d, fs), Failure)}
      \/ o \in CutShort(d, fs)
    BY <1>1, <1>3, <1>4 DEF PurgeFolderTree
<1>6. /\ fs \in SUBSET Files /\ fs \subseteq Below(d, p) /\ own \in SUBSET Folders
      /\ \A f \in fs : d.file[f].ws = ws
      /\ \A q \in own : d.folder[q].ws = ws
    BY <1>1, <1>2, <1>3, <1>4 DEF Below
<1>7. Less(d, DropFolders(DropFiles(d, fs), own), ws, fs) /\ Less(d, DropFiles(d, fs), ws, fs)
    BY <1>6, DropBothIs, DropFilesIs
<1>8. Erased(d, ws, o, fs)
    BY <1>5, <1>6, <1>7, CutShortIs, RepliesAre DEF Erased, Outcome
<1> QED BY <1>6, <1>8, ErasedMore

LEMMA DeleteFileIs ==
    ASSUME NEW d, IsStored(d), NEW ws \in Workspaces, NEW f \in Files, NEW o \in DeleteFile(d, ws, f)
    PROVE  Erased(d, ws, o, {f})
<1>1. CASE ~ActiveFile(d, ws, f)
    BY <1>1, RefusedErasesNothing DEF DeleteFile
<1>2. CASE ActiveFile(d, ws, f)
    <2>1. o \in PurgeFiles(d, {f}) /\ {f} \in SUBSET Files /\ \A g \in {f} : d.file[g].ws = ws
        BY <1>2 DEF DeleteFile, ActiveFile
    <2> QED BY <2>1, PurgeFilesIs
<1> QED BY <1>1, <1>2

LEMMA DeleteFolderIs ==
    ASSUME NEW d, IsStored(d), NEW ws \in Workspaces, NEW p \in Folders, NEW o \in DeleteFolder(d, ws, p)
    PROVE  Erased(d, ws, o, Below(d, p))
<1>1. CASE ~ActiveFolder(d, ws, p)
    BY <1>1, RefusedErasesNothing DEF DeleteFolder
<1>2. CASE ActiveFolder(d, ws, p)
    <2>1. o \in PurgeFolderTree(d, ws, p, FALSE) /\ FALSE \in BOOLEAN
        BY <1>2 DEF DeleteFolder
    <2> QED BY <2>1, PurgeFolderTreeIs
<1> QED BY <1>1, <1>2

LEMMA BulkDeleteFilesIs ==
    ASSUME NEW d, IsStored(d), NEW ws \in Workspaces, NEW fs \in SUBSET Files, NEW o \in BulkDeleteFiles(d, ws, fs)
    PROVE  Erased(d, ws, o, fs)
<1>1. PICK own : own = {f \in fs : ActiveFile(d, ws, f)}
    OBVIOUS
<1>2. o \in PurgeFiles(d, own) /\ own \in SUBSET Files /\ own \subseteq fs /\ \A f \in own : d.file[f].ws = ws
    BY <1>1 DEF BulkDeleteFiles, ActiveFile
<1>3. Erased(d, ws, o, own)
    BY <1>2, PurgeFilesIs
<1> QED BY <1>2, <1>3, ErasedMore

LEMMA PermanentDeleteFileIs ==
    ASSUME NEW d, IsStored(d), NEW ws \in Workspaces, NEW f \in Files, NEW o \in PermanentDelete(d, ws, f)
    PROVE  Erased(d, ws, o, {f})
<1>0. f \notin Folders
    BY Numbers
<1>1. CASE d.file[f].ws # ws
    BY <1>0, <1>1, RefusedErasesNothing DEF PermanentDelete
<1>2. CASE d.file[f].ws = ws
    <2>1. o \in PurgeFiles(d, {f}) /\ {f} \in SUBSET Files /\ \A g \in {f} : d.file[g].ws = ws
        BY <1>0, <1>2 DEF PermanentDelete
    <2> QED BY <2>1, PurgeFilesIs
<1> QED BY <1>1, <1>2

LEMMA PermanentDeleteFolderIs ==
    ASSUME NEW d, IsStored(d), NEW ws \in Workspaces, NEW p \in Folders, NEW o \in PermanentDelete(d, ws, p)
    PROVE  Erased(d, ws, o, Below(d, p))
<1>1. CASE d.folder[p].ws # ws
    BY <1>1, RefusedErasesNothing DEF PermanentDelete
<1>2. CASE d.folder[p].ws = ws
    <2>1. o \in PurgeFolderTree(d, ws, p, TRUE) /\ TRUE \in BOOLEAN
        BY <1>2 DEF PermanentDelete
    <2> QED BY <2>1, PurgeFolderTreeIs
<1> QED BY <1>1, <1>2

LEMMA EmptyTrashIs ==
    ASSUME NEW d, IsStored(d), NEW ws \in Workspaces, NEW o \in EmptyTrash(d, ws)
    PROVE  Erased(d, ws, o, {f \in Files : InTrash(d.file[f])})
<1>1. PICK fs : fs = {f \in Files : d.file[f].ws = ws /\ InTrash(d.file[f])}
    OBVIOUS
<1>2. PICK ps : ps = UNION {CollectSubtreeIDs(d, p, FALSE) : p \in ListTrash(d, ws).reply.folders}
    OBVIOUS
<1>3. PICK own : own = {q \in ps : d.folder[q].ws = ws}
    OBVIOUS
<1>4. \/ o \in {Outcome(DropFolders(DropFiles(d, fs), own), Done), Outcome(DropFiles(d, fs), Failure)}
      \/ o \in CutShort(d, fs)
    BY <1>1, <1>2, <1>3 DEF EmptyTrash
<1>5. ps \subseteq Folders
    BY <1>2 DEF CollectSubtreeIDs
<1>6. /\ fs \in SUBSET Files /\ own \in SUBSET Folders /\ \A f \in fs : d.file[f].ws = ws
      /\ \A q \in own : d.folder[q].ws = ws
    BY <1>1, <1>3, <1>5
<1>7. Less(d, DropFolders(DropFiles(d, fs), own), ws, fs) /\ Less(d, DropFiles(d, fs), ws, fs)
    BY <1>6, DropBothIs, DropFilesIs
<1>8. Erased(d, ws, o, fs)
    BY <1>4, <1>6, <1>7, CutShortIs, RepliesAre DEF Erased, Outcome
<1>9. fs \subseteq {f \in Files : InTrash(d.file[f])}
    BY <1>1
<1> QED BY <1>8, <1>9, ErasedMore

-----------------------------------------------------------------------------
(* The handlers that go on item by item                                    *)

\* The disks that a request for workspace ws may leave without taking an object.
KeptDisks(d, ws) == {e \in Disk : Keeps(d, e, ws) /\ d.object \subseteq e.object}

LEMMA KeptDisksAre ==
    ASSUME NEW d, IsStored(d), NEW ws
    PROVE  /\ d \in KeptDisks(d, ws)
           /\ \A e \in KeptDisks(d, ws) : IsStored(e) /\ Keeps(d, e, ws) /\ d.object \subseteq e.object
           /\ \A o : Fine(d, ws, o) => o.disk \in KeptDisks(d, ws)
BY KeepsItself, StoredIs DEF KeptDisks, Keeps, Fine

MoveFilesOn(it, d, ws, to, s) == IF s = {} THEN d ELSE MoveFile(it[s \ {Latest(s)}], ws, Latest(s), to).disk

MoveFilesRun(it, d, ws, ids, to) == it = [s \in SUBSET ids |-> MoveFilesOn(it, d, ws, to, s)]

LEMMA BulkMoveFilesGoesOn ==
    ASSUME NEW d, NEW ws, NEW ids, NEW to, NEW it, MoveFilesRun(it, d, ws, ids, to)
    PROVE  \E jt : MoveFilesRun(jt, d, ws, ids, to) /\ BulkMoveFiles(d, ws, ids, to) = {Outcome(jt[ids], Done)}
<1> DEFINE jt == CHOOSE x : x = [s \in SUBSET ids |-> MoveFilesOn(x, d, ws, to, s)]
<1>1. jt = [s \in SUBSET ids |-> MoveFilesOn(jt, d, ws, to, s)]
    BY DEF MoveFilesRun
<1>2. BulkMoveFiles(d, ws, ids, to) = {Outcome(jt[ids], Done)}
    BY DEF BulkMoveFiles, Bulk, MapThenFoldSet, MoveFilesOn
<1> QED BY <1>1, <1>2 DEF MoveFilesRun

LEMMA BulkMoveFilesIsFine ==
    ASSUME NEW d, IsStored(d), NEW ws \in Workspaces, NEW ids \in SUBSET Files, NEW to \in Folders \cup {Root},
           NEW o \in BulkMoveFiles(d, ws, ids, to)
    PROVE  Fine(d, ws, o)
<1>1. PICK H : H = [x \in KeptDisks(d, ws) \X ids |-> MoveFile(x[1], ws, x[2], to).disk]
    OBVIOUS
<1>2. \A e \in KeptDisks(d, ws), x \in ids : MoveFile(e, ws, x, to).disk \in KeptDisks(d, ws)
    <2> SUFFICES ASSUME NEW e \in KeptDisks(d, ws), NEW x \in ids
                 PROVE  MoveFile(e, ws, x, to).disk \in KeptDisks(d, ws)
        OBVIOUS
    <2>1. IsStored(e) /\ Keeps(d, e, ws) /\ d.object \subseteq e.object
        BY KeptDisksAre
    <2>2. Fine(e, ws, MoveFile(e, ws, x, to))
        BY <2>1, MoveFileIsFine
    <2>3. Fine(d, ws, MoveFile(e, ws, x, to))
        BY <2>1, <2>2, FineOn
    <2> QED BY <2>3, KeptDisksAre
<1>3. H \in [KeptDisks(d, ws) \X ids -> KeptDisks(d, ws)] /\ d \in KeptDisks(d, ws) /\ ids \in SUBSET Numbered
    BY <1>1, <1>2, KeptDisksAre DEF Numbered
<1>4. PICK it \in [SUBSET ids -> KeptDisks(d, ws)] : \A s \in SUBSET ids : it[s] = FoldOn(it, d, H, s)
    <2>1. \E it : Folded(it, ids, KeptDisks(d, ws), d, H)
        BY <1>3, FoldExists
    <2> QED BY <2>1 DEF Folded
<1>5. it = [s \in SUBSET ids |-> MoveFilesOn(it, d, ws, to, s)]
    <2> SUFFICES ASSUME NEW s \in SUBSET ids PROVE it[s] = MoveFilesOn(it, d, ws, to, s)
        BY <1>4
    <2>1. CASE s = {}
        BY <1>4, <2>1 DEF FoldOn, MoveFilesOn
    <2>2. CASE s # {}
        <3>1. PICK t, x : t = s \ {Latest(s)} /\ x = Latest(s)
            OBVIOUS
        <3>2. t \in SUBSET ids /\ x \in ids
            BY <1>3, <2>2, <3>1, WithoutLatest
        <3>3. H[<<it[t], x>>] = MoveFile(it[t], ws, x, to).disk
            BY <1>1, <1>4, <3>2
        <3> QED BY <1>4, <2>2, <3>1, <3>3 DEF FoldOn, MoveFilesOn
    <2> QED BY <2>1, <2>2
<1>6. PICK jt : /\ jt = [s \in SUBSET ids |-> MoveFilesOn(jt, d, ws, to, s)]
                /\ BulkMoveFiles(d, ws, ids, to) = {Outcome(jt[ids], Done)}
    <2>1. MoveFilesRun(it, d, ws, ids, to)
        BY <1>5 DEF MoveFilesRun
    <2>2. \E jt : MoveFilesRun(jt, d, ws, ids, to) /\ BulkMoveFiles(d, ws, ids, to) = {Outcome(jt[ids], Done)}
        BY <2>1, BulkMoveFilesGoesOn
    <2> QED BY <2>2 DEF MoveFilesRun
<1>7. jt[{}] \in KeptDisks(d, ws)
    BY <1>3, <1>6 DEF MoveFilesOn
<1>8. ASSUME NEW s \in SUBSET ids, s # {}, jt[s \ {Latest(s)}] \in KeptDisks(d, ws)
      PROVE  jt[s] \in KeptDisks(d, ws)
    <2>1. Latest(s) \in ids
        BY <1>3, <1>8, WithoutLatest
    <2>2. jt[s] = MoveFile(jt[s \ {Latest(s)}], ws, Latest(s), to).disk
        BY <1>6, <1>8 DEF MoveFilesOn
    <2> QED BY <1>2, <1>8, <2>1, <2>2
<1>9. jt[ids] \in KeptDisks(d, ws)
    BY <1>3, <1>7, <1>8, FoldStays
<1> QED BY <1>6, <1>9, KeptDisksAre, RepliesAre DEF Fine, Outcome

CopyFilesOn(it, d, ws, to, s) == IF s = {} THEN d ELSE CopyFile(it[s \ {Latest(s)}], ws, Latest(s), to).disk

CopyFilesRun(it, d, ws, ids, to) == it = [s \in SUBSET ids |-> CopyFilesOn(it, d, ws, to, s)]

LEMMA BulkCopyFilesGoesOn ==
    ASSUME NEW d, NEW ws, NEW ids, NEW to, NEW it, CopyFilesRun(it, d, ws, ids, to)
    PROVE  \E jt : CopyFilesRun(jt, d, ws, ids, to) /\ BulkCopyFiles(d, ws, ids, to) = {Outcome(jt[ids], Done)}
<1> DEFINE jt == CHOOSE x : x = [s \in SUBSET ids |-> CopyFilesOn(x, d, ws, to, s)]
<1>1. jt = [s \in SUBSET ids |-> CopyFilesOn(jt, d, ws, to, s)]
    BY DEF CopyFilesRun
<1>2. BulkCopyFiles(d, ws, ids, to) = {Outcome(jt[ids], Done)}
    BY DEF BulkCopyFiles, Bulk, MapThenFoldSet, CopyFilesOn
<1> QED BY <1>1, <1>2 DEF CopyFilesRun

LEMMA BulkCopyFilesIsFine ==
    ASSUME NEW d, IsStored(d), NEW ws \in Workspaces, NEW ids \in SUBSET Files, NEW to \in Folders \cup {Root},
           NEW o \in BulkCopyFiles(d, ws, ids, to)
    PROVE  Fine(d, ws, o)
<1>1. PICK H : H = [x \in KeptDisks(d, ws) \X ids |-> CopyFile(x[1], ws, x[2], to).disk]
    OBVIOUS
<1>2. \A e \in KeptDisks(d, ws), x \in ids : CopyFile(e, ws, x, to).disk \in KeptDisks(d, ws)
    <2> SUFFICES ASSUME NEW e \in KeptDisks(d, ws), NEW x \in ids
                 PROVE  CopyFile(e, ws, x, to).disk \in KeptDisks(d, ws)
        OBVIOUS
    <2>1. IsStored(e) /\ Keeps(d, e, ws) /\ d.object \subseteq e.object
        BY KeptDisksAre
    <2>2. Fine(e, ws, CopyFile(e, ws, x, to))
        BY <2>1, CopyFileIsFine
    <2>3. Fine(d, ws, CopyFile(e, ws, x, to))
        BY <2>1, <2>2, FineOn
    <2> QED BY <2>3, KeptDisksAre
<1>3. H \in [KeptDisks(d, ws) \X ids -> KeptDisks(d, ws)] /\ d \in KeptDisks(d, ws) /\ ids \in SUBSET Numbered
    BY <1>1, <1>2, KeptDisksAre DEF Numbered
<1>4. PICK it \in [SUBSET ids -> KeptDisks(d, ws)] : \A s \in SUBSET ids : it[s] = FoldOn(it, d, H, s)
    <2>1. \E it : Folded(it, ids, KeptDisks(d, ws), d, H)
        BY <1>3, FoldExists
    <2> QED BY <2>1 DEF Folded
<1>5. it = [s \in SUBSET ids |-> CopyFilesOn(it, d, ws, to, s)]
    <2> SUFFICES ASSUME NEW s \in SUBSET ids PROVE it[s] = CopyFilesOn(it, d, ws, to, s)
        BY <1>4
    <2>1. CASE s = {}
        BY <1>4, <2>1 DEF FoldOn, CopyFilesOn
    <2>2. CASE s # {}
        <3>1. PICK t, x : t = s \ {Latest(s)} /\ x = Latest(s)
            OBVIOUS
        <3>2. t \in SUBSET ids /\ x \in ids
            BY <1>3, <2>2, <3>1, WithoutLatest
        <3>3. H[<<it[t], x>>] = CopyFile(it[t], ws, x, to).disk
            BY <1>1, <1>4, <3>2
        <3> QED BY <1>4, <2>2, <3>1, <3>3 DEF FoldOn, CopyFilesOn
    <2> QED BY <2>1, <2>2
<1>6. PICK jt : /\ jt = [s \in SUBSET ids |-> CopyFilesOn(jt, d, ws, to, s)]
                /\ BulkCopyFiles(d, ws, ids, to) = {Outcome(jt[ids], Done)}
    <2>1. CopyFilesRun(it, d, ws, ids, to)
        BY <1>5 DEF CopyFilesRun
    <2>2. \E jt : CopyFilesRun(jt, d, ws, ids, to) /\ BulkCopyFiles(d, ws, ids, to) = {Outcome(jt[ids], Done)}
        BY <2>1, BulkCopyFilesGoesOn
    <2> QED BY <2>2 DEF CopyFilesRun
<1>7. jt[{}] \in KeptDisks(d, ws)
    BY <1>3, <1>6 DEF CopyFilesOn
<1>8. ASSUME NEW s \in SUBSET ids, s # {}, jt[s \ {Latest(s)}] \in KeptDisks(d, ws)
      PROVE  jt[s] \in KeptDisks(d, ws)
    <2>1. Latest(s) \in ids
        BY <1>3, <1>8, WithoutLatest
    <2>2. jt[s] = CopyFile(jt[s \ {Latest(s)}], ws, Latest(s), to).disk
        BY <1>6, <1>8 DEF CopyFilesOn
    <2> QED BY <1>2, <1>8, <2>1, <2>2
<1>9. jt[ids] \in KeptDisks(d, ws)
    BY <1>3, <1>7, <1>8, FoldStays
<1> QED BY <1>6, <1>9, KeptDisksAre, RepliesAre DEF Fine, Outcome

MoveFoldersOn(it, d, ws, to, s) == IF s = {} THEN d ELSE MoveFolder(it[s \ {Latest(s)}], ws, Latest(s), to).disk

MoveFoldersRun(it, d, ws, ids, to) == it = [s \in SUBSET ids |-> MoveFoldersOn(it, d, ws, to, s)]

LEMMA BulkMoveFoldersGoesOn ==
    ASSUME NEW d, NEW ws, NEW ids, NEW to, NEW it, MoveFoldersRun(it, d, ws, ids, to)
    PROVE  \E jt : MoveFoldersRun(jt, d, ws, ids, to) /\ BulkMoveFolders(d, ws, ids, to) = {Outcome(jt[ids], Done)}
<1> DEFINE jt == CHOOSE x : x = [s \in SUBSET ids |-> MoveFoldersOn(x, d, ws, to, s)]
<1>1. jt = [s \in SUBSET ids |-> MoveFoldersOn(jt, d, ws, to, s)]
    BY DEF MoveFoldersRun
<1>2. BulkMoveFolders(d, ws, ids, to) = {Outcome(jt[ids], Done)}
    BY DEF BulkMoveFolders, Bulk, MapThenFoldSet, MoveFoldersOn
<1> QED BY <1>1, <1>2 DEF MoveFoldersRun

LEMMA BulkMoveFoldersIsFine ==
    ASSUME NEW d, IsStored(d), NEW ws \in Workspaces, NEW ids \in SUBSET Folders, NEW to \in Folders \cup {Root},
           NEW o \in BulkMoveFolders(d, ws, ids, to)
    PROVE  Fine(d, ws, o)
<1>1. PICK H : H = [x \in KeptDisks(d, ws) \X ids |-> MoveFolder(x[1], ws, x[2], to).disk]
    OBVIOUS
<1>2. \A e \in KeptDisks(d, ws), x \in ids : MoveFolder(e, ws, x, to).disk \in KeptDisks(d, ws)
    <2> SUFFICES ASSUME NEW e \in KeptDisks(d, ws), NEW x \in ids
                 PROVE  MoveFolder(e, ws, x, to).disk \in KeptDisks(d, ws)
        OBVIOUS
    <2>1. IsStored(e) /\ Keeps(d, e, ws) /\ d.object \subseteq e.object
        BY KeptDisksAre
    <2>2. Fine(e, ws, MoveFolder(e, ws, x, to))
        BY <2>1, MoveFolderIsFine
    <2>3. Fine(d, ws, MoveFolder(e, ws, x, to))
        BY <2>1, <2>2, FineOn
    <2> QED BY <2>3, KeptDisksAre
<1>3. H \in [KeptDisks(d, ws) \X ids -> KeptDisks(d, ws)] /\ d \in KeptDisks(d, ws) /\ ids \in SUBSET Numbered
    BY <1>1, <1>2, KeptDisksAre DEF Numbered
<1>4. PICK it \in [SUBSET ids -> KeptDisks(d, ws)] : \A s \in SUBSET ids : it[s] = FoldOn(it, d, H, s)
    <2>1. \E it : Folded(it, ids, KeptDisks(d, ws), d, H)
        BY <1>3, FoldExists
    <2> QED BY <2>1 DEF Folded
<1>5. it = [s \in SUBSET ids |-> MoveFoldersOn(it, d, ws, to, s)]
    <2> SUFFICES ASSUME NEW s \in SUBSET ids PROVE it[s] = MoveFoldersOn(it, d, ws, to, s)
        BY <1>4
    <2>1. CASE s = {}
        BY <1>4, <2>1 DEF FoldOn, MoveFoldersOn
    <2>2. CASE s # {}
        <3>1. PICK t, x : t = s \ {Latest(s)} /\ x = Latest(s)
            OBVIOUS
        <3>2. t \in SUBSET ids /\ x \in ids
            BY <1>3, <2>2, <3>1, WithoutLatest
        <3>3. H[<<it[t], x>>] = MoveFolder(it[t], ws, x, to).disk
            BY <1>1, <1>4, <3>2
        <3> QED BY <1>4, <2>2, <3>1, <3>3 DEF FoldOn, MoveFoldersOn
    <2> QED BY <2>1, <2>2
<1>6. PICK jt : /\ jt = [s \in SUBSET ids |-> MoveFoldersOn(jt, d, ws, to, s)]
                /\ BulkMoveFolders(d, ws, ids, to) = {Outcome(jt[ids], Done)}
    <2>1. MoveFoldersRun(it, d, ws, ids, to)
        BY <1>5 DEF MoveFoldersRun
    <2>2. \E jt : MoveFoldersRun(jt, d, ws, ids, to) /\ BulkMoveFolders(d, ws, ids, to) = {Outcome(jt[ids], Done)}
        BY <2>1, BulkMoveFoldersGoesOn
    <2> QED BY <2>2 DEF MoveFoldersRun
<1>7. jt[{}] \in KeptDisks(d, ws)
    BY <1>3, <1>6 DEF MoveFoldersOn
<1>8. ASSUME NEW s \in SUBSET ids, s # {}, jt[s \ {Latest(s)}] \in KeptDisks(d, ws)
      PROVE  jt[s] \in KeptDisks(d, ws)
    <2>1. Latest(s) \in ids
        BY <1>3, <1>8, WithoutLatest
    <2>2. jt[s] = MoveFolder(jt[s \ {Latest(s)}], ws, Latest(s), to).disk
        BY <1>6, <1>8 DEF MoveFoldersOn
    <2> QED BY <1>2, <1>8, <2>1, <2>2
<1>9. jt[ids] \in KeptDisks(d, ws)
    BY <1>3, <1>7, <1>8, FoldStays
<1> QED BY <1>6, <1>9, KeptDisksAre, RepliesAre DEF Fine, Outcome

LEMMA BelowShrinks ==
    ASSUME NEW d, NEW e, NEW p \in Folders, Remnant(d, e)
    PROVE  Below(e, p) \subseteq Below(d, p)
<1>1. PICK C, D : C = CollectSubtreeIDs(d, p, FALSE) /\ D = CollectSubtreeIDs(e, p, FALSE)
    OBVIOUS
<1>2. \A x \in Folders, y \in Folders : Under(e, FALSE, x, y) => Under(d, FALSE, x, y)
    BY IdsAreNumbers DEF Under, Remnant, NoRow
<1>3. D \subseteq C /\ D \subseteq Folders
    BY <1>1, <1>2, SubtreeShrinks, Subtree
<1>4. {f \in Files : e.file[f].in \in D} \subseteq {f \in Files : d.file[f].in \in C}
    BY <1>3, IdsAreNumbers DEF Remnant
<1> QED BY <1>1, <1>4 DEF Below

LessDisks(d, ws, S) == {e \in Disk : Less(d, e, ws, S)}

LEMMA FolderPurgedIs ==
    ASSUME NEW d, IsStored(d), NEW ws \in Workspaces, NEW T, NEW x \in Folders,
           \A e : Remnant(d, e) => Below(e, x) \subseteq T, NEW S \in SUBSET LessDisks(d, ws, T)
    PROVE  FolderPurged(S, ws, x) \in SUBSET LessDisks(d, ws, T)
<1> SUFFICES ASSUME NEW e \in S, NEW o \in DeleteFolder(e, ws, x)
             PROVE  o.disk \in LessDisks(d, ws, T)
    BY DEF FolderPurged
<1>1. Less(d, e, ws, T) /\ IsStored(e) /\ Remnant(d, e)
    BY DEF LessDisks, Less, Keeps
<1>2. Erased(e, ws, o, Below(e, x))
    BY <1>1, DeleteFolderIs
<1>3. Erased(e, ws, o, T)
    BY <1>1, <1>2, ErasedMore
<1>4. Less(e, o.disk, ws, T)
    BY <1>3 DEF Erased
<1>5. Less(d, o.disk, ws, T)
    BY <1>1, <1>4, LessOn
<1>6. o.disk \in Disk
    BY <1>5, StoredIs DEF Less, Keeps
<1> QED BY <1>5, <1>6 DEF LessDisks

PurgesOn(it, b, ws, s) == IF s = {} THEN b ELSE FolderPurged(it[s \ {Latest(s)}], ws, Latest(s))
PurgesRun(it, b, ws, ids) == it = [s \in SUBSET ids |-> PurgesOn(it, b, ws, s)]
Purges(b, ws, ids) == MapThenFoldSet(LAMBDA x, S : FolderPurged(S, ws, x), b, LAMBDA x : x, Latest, ids)

LEMMA PurgesGoOn ==
    ASSUME NEW b, NEW ws, NEW ids, NEW it, PurgesRun(it, b, ws, ids)
    PROVE  \E jt : PurgesRun(jt, b, ws, ids) /\ Purges(b, ws, ids) = jt[ids]
<1> DEFINE jt == CHOOSE x : x = [s \in SUBSET ids |-> PurgesOn(x, b, ws, s)]
<1>1. jt = [s \in SUBSET ids |-> PurgesOn(jt, b, ws, s)]
    BY DEF PurgesRun
<1>2. Purges(b, ws, ids) = jt[ids]
    BY DEF Purges, MapThenFoldSet, PurgesOn
<1> QED BY <1>1, <1>2 DEF PurgesRun

LEMMA PurgesErase ==
    ASSUME NEW d, IsStored(d), NEW ws \in Workspaces, NEW ids \in SUBSET Folders,
           NEW T, \A x \in ids : \A e : Remnant(d, e) => Below(e, x) \subseteq T, NEW b \in SUBSET LessDisks(d, ws, T)
    PROVE  Purges(b, ws, ids) \in SUBSET LessDisks(d, ws, T)
<1>0. PICK G : G = SUBSET LessDisks(d, ws, T)
    OBVIOUS
<1>1. PICK H : H = [x \in G \X ids |-> FolderPurged(x[1], ws, x[2])]
    OBVIOUS
<1>2. \A S \in G, x \in ids : FolderPurged(S, ws, x) \in G
    BY <1>0, FolderPurgedIs
<1>3. H \in [G \X ids -> G] /\ b \in G /\ ids \in SUBSET Numbered
    BY <1>0, <1>1, <1>2 DEF Numbered
<1>4. PICK it \in [SUBSET ids -> G] : \A s \in SUBSET ids : it[s] = FoldOn(it, b, H, s)
    <2>1. \E it : Folded(it, ids, G, b, H)
        BY <1>3, FoldExists
    <2> QED BY <2>1 DEF Folded
<1>5. it = [s \in SUBSET ids |-> PurgesOn(it, b, ws, s)]
    <2> SUFFICES ASSUME NEW s \in SUBSET ids PROVE it[s] = PurgesOn(it, b, ws, s)
        BY <1>4
    <2>1. CASE s = {}
        BY <1>4, <2>1 DEF FoldOn, PurgesOn
    <2>2. CASE s # {}
        <3>1. PICK t, x : t = s \ {Latest(s)} /\ x = Latest(s)
            OBVIOUS
        <3>2. t \in SUBSET ids /\ x \in ids
            BY <1>3, <2>2, <3>1, WithoutLatest
        <3>3. H[<<it[t], x>>] = FolderPurged(it[t], ws, x)
            BY <1>1, <1>4, <3>2
        <3> QED BY <1>4, <2>2, <3>1, <3>3 DEF FoldOn, PurgesOn
    <2> QED BY <2>1, <2>2
<1>6. PICK jt : /\ jt = [s \in SUBSET ids |-> PurgesOn(jt, b, ws, s)]
                /\ Purges(b, ws, ids) = jt[ids]
    <2>1. PurgesRun(it, b, ws, ids)
        BY <1>5 DEF PurgesRun
    <2>2. \E jt : PurgesRun(jt, b, ws, ids) /\ Purges(b, ws, ids) = jt[ids]
        BY <2>1, PurgesGoOn
    <2> QED BY <2>2 DEF PurgesRun
<1>7. jt[{}] \in G
    BY <1>3, <1>6 DEF PurgesOn
<1>8. ASSUME NEW s \in SUBSET ids, s # {}, jt[s \ {Latest(s)}] \in G
      PROVE  jt[s] \in G
    <2>1. Latest(s) \in ids
        BY <1>3, <1>8, WithoutLatest
    <2>2. jt[s] = FolderPurged(jt[s \ {Latest(s)}], ws, Latest(s))
        BY <1>6, <1>8 DEF PurgesOn
    <2> QED BY <1>2, <1>8, <2>1, <2>2
<1>9. jt[ids] \in G
    BY <1>3, <1>7, <1>8, FoldStays
<1> QED BY <1>0, <1>6, <1>9

LEMMA BulkDeleteFoldersIs ==
    ASSUME NEW d, IsStored(d), NEW ws \in Workspaces, NEW ps \in SUBSET Folders,
           NEW o \in BulkDeleteFolders(d, ws, ps)
    PROVE  Erased(d, ws, o, UNION {Below(d, p) : p \in ps})
<1>0. PICK T : T = UNION {Below(d, p) : p \in ps}
    OBVIOUS
<1>1. PICK e \in Purges({d}, ws, ps) : o = Outcome(e, Done)
    BY DEF BulkDeleteFolders, Purges
<1>2. \A x \in ps : \A g : Remnant(d, g) => Below(g, x) \subseteq T
    BY <1>0, BelowShrinks
<1>3. {d} \in SUBSET LessDisks(d, ws, T)
    BY LessItself, StoredIs DEF LessDisks
<1>4. Purges({d}, ws, ps) \in SUBSET LessDisks(d, ws, T)
    BY <1>2, <1>3, PurgesErase
<1>5. Less(d, e, ws, T)
    BY <1>1, <1>4 DEF LessDisks
<1> QED BY <1>0, <1>1, <1>5, RepliesAre DEF Erased, Outcome

-----------------------------------------------------------------------------
(* The way back from the trash                                             *)

FineOutcomes(d, ws) == {o \in [disk : Disk, reply : Replies] : Fine(d, ws, o)}

LEMMA FineOutcomesAre ==
    ASSUME NEW d, IsStored(d), NEW ws
    PROVE  /\ Outcome(d, Done) \in FineOutcomes(d, ws)
           /\ \A o \in FineOutcomes(d, ws) : IsStored(o.disk) /\ Fine(d, ws, o)
<1>1. d \in Disk /\ Done \in Replies
    BY StoredIs, RepliesAre
<1>2. Outcome(d, Done) \in [disk : Disk, reply : Replies]
    BY <1>1 DEF Outcome
<1> QED BY <1>2, RefusedIsFine DEF FineOutcomes, Fine, Keeps

\* One more row is restored, where none before it was refused.
LEMMA FineGoesOn ==
    ASSUME NEW d, IsStored(d), NEW ws, NEW a \in FineOutcomes(d, ws), NEW o, Fine(a.disk, ws, o),
           o = [disk |-> o.disk, reply |-> o.reply]
    PROVE  o \in FineOutcomes(d, ws)
<1>1. IsStored(a.disk) /\ Fine(d, ws, a)
    BY FineOutcomesAre
<1>2. Fine(d, ws, o)
    BY <1>1, FineOn DEF Fine
<1>3. o.disk \in Disk /\ o.reply \in Replies
    BY <1>2, StoredIs DEF Fine, Keeps
<1> QED BY <1>2, <1>3 DEF FineOutcomes

LEMMA FolderBackIsFine ==
    ASSUME NEW d, IsStored(d), NEW ws \in Workspaces, NEW x \in Folders, NEW S \in SUBSET FineOutcomes(d, ws)
    PROVE  FolderBack(S, ws, x) \in SUBSET FineOutcomes(d, ws)
<1> SUFFICES ASSUME NEW a \in S, NEW o \in (IF a.reply.ok THEN RestoreFolder(a.disk, ws, x) ELSE {a})
             PROVE  o \in FineOutcomes(d, ws)
    BY DEF FolderBack
<1>1. CASE o = a
    BY <1>1
<1>2. CASE o \in RestoreFolder(a.disk, ws, x)
    <2>1. a \in FineOutcomes(d, ws) /\ IsStored(a.disk)
        BY FineOutcomesAre
    <2>2. Fine(a.disk, ws, o) /\ o = [disk |-> o.disk, reply |-> o.reply]
        BY <1>2, <2>1, RestoreFolderIsFine
    <2> QED BY <2>1, <2>2, FineGoesOn
<1> QED BY <1>1, <1>2

BackFoldersOn(it, b, ws, s) == IF s = {} THEN b ELSE FolderBack(it[s \ {Latest(s)}], ws, Latest(s))
BackFoldersRun(it, b, ws, ids) == it = [s \in SUBSET ids |-> BackFoldersOn(it, b, ws, s)]
BackFolders(b, ws, ids) == MapThenFoldSet(LAMBDA x, S : FolderBack(S, ws, x), b, LAMBDA x : x, Latest, ids)

LEMMA BackFoldersGoOn ==
    ASSUME NEW b, NEW ws, NEW ids, NEW it, BackFoldersRun(it, b, ws, ids)
    PROVE  \E jt : BackFoldersRun(jt, b, ws, ids) /\ BackFolders(b, ws, ids) = jt[ids]
<1> DEFINE jt == CHOOSE x : x = [s \in SUBSET ids |-> BackFoldersOn(x, b, ws, s)]
<1>1. jt = [s \in SUBSET ids |-> BackFoldersOn(jt, b, ws, s)]
    BY DEF BackFoldersRun
<1>2. BackFolders(b, ws, ids) = jt[ids]
    BY DEF BackFolders, MapThenFoldSet, BackFoldersOn
<1> QED BY <1>1, <1>2 DEF BackFoldersRun

LEMMA BackFoldersAreFine ==
    ASSUME NEW d, IsStored(d), NEW ws \in Workspaces, NEW ids \in SUBSET Folders,
           NEW b \in SUBSET FineOutcomes(d, ws)
    PROVE  BackFolders(b, ws, ids) \in SUBSET FineOutcomes(d, ws)
<1>0. PICK G : G = SUBSET FineOutcomes(d, ws)
    OBVIOUS
<1>1. PICK H : H = [x \in G \X ids |-> FolderBack(x[1], ws, x[2])]
    OBVIOUS
<1>2. \A S \in G, x \in ids : FolderBack(S, ws, x) \in G
    BY <1>0, FolderBackIsFine
<1>3. H \in [G \X ids -> G] /\ b \in G /\ ids \in SUBSET Numbered
    BY <1>0, <1>1, <1>2 DEF Numbered
<1>4. PICK it \in [SUBSET ids -> G] : \A s \in SUBSET ids : it[s] = FoldOn(it, b, H, s)
    <2>1. \E it : Folded(it, ids, G, b, H)
        BY <1>3, FoldExists
    <2> QED BY <2>1 DEF Folded
<1>5. it = [s \in SUBSET ids |-> BackFoldersOn(it, b, ws, s)]
    <2> SUFFICES ASSUME NEW s \in SUBSET ids PROVE it[s] = BackFoldersOn(it, b, ws, s)
        BY <1>4
    <2>1. CASE s = {}
        BY <1>4, <2>1 DEF FoldOn, BackFoldersOn
    <2>2. CASE s # {}
        <3>1. PICK t, x : t = s \ {Latest(s)} /\ x = Latest(s)
            OBVIOUS
        <3>2. t \in SUBSET ids /\ x \in ids
            BY <1>3, <2>2, <3>1, WithoutLatest
        <3>3. H[<<it[t], x>>] = FolderBack(it[t], ws, x)
            BY <1>1, <1>4, <3>2
        <3> QED BY <1>4, <2>2, <3>1, <3>3 DEF FoldOn, BackFoldersOn
    <2> QED BY <2>1, <2>2
<1>6. PICK jt : /\ jt = [s \in SUBSET ids |-> BackFoldersOn(jt, b, ws, s)]
                /\ BackFolders(b, ws, ids) = jt[ids]
    <2>1. BackFoldersRun(it, b, ws, ids)
        BY <1>5 DEF BackFoldersRun
    <2>2. \E jt : BackFoldersRun(jt, b, ws, ids) /\ BackFolders(b, ws, ids) = jt[ids]
        BY <2>1, BackFoldersGoOn
    <2> QED BY <2>2 DEF BackFoldersRun
<1>7. jt[{}] \in G
    BY <1>3, <1>6 DEF BackFoldersOn
<1>8. ASSUME NEW s \in SUBSET ids, s # {}, jt[s \ {Latest(s)}] \in G
      PROVE  jt[s] \in G
    <2>1. Latest(s) \in ids
        BY <1>3, <1>8, WithoutLatest
    <2>2. jt[s] = FolderBack(jt[s \ {Latest(s)}], ws, Latest(s))
        BY <1>6, <1>8 DEF BackFoldersOn
    <2> QED BY <1>2, <1>8, <2>1, <2>2
<1>9. jt[ids] \in G
    BY <1>3, <1>7, <1>8, FoldStays
<1> QED BY <1>0, <1>6, <1>9

LEMMA FileBackIsFine ==
    ASSUME NEW d, IsStored(d), NEW ws \in Workspaces, NEW x \in Files, NEW S \in SUBSET FineOutcomes(d, ws)
    PROVE  FileBack(S, ws, x) \in SUBSET FineOutcomes(d, ws)
<1> SUFFICES ASSUME NEW a \in S,
                    NEW o \in (IF a.reply.ok THEN {RestoreFile(a.disk, ws, x), Refused(a.disk)} ELSE {a})
             PROVE  o \in FineOutcomes(d, ws)
    BY DEF FileBack
<1>1. CASE o = a
    BY <1>1
<1>2. CASE o \in {RestoreFile(a.disk, ws, x), Refused(a.disk)}
    <2>1. a \in FineOutcomes(d, ws) /\ IsStored(a.disk)
        BY FineOutcomesAre
    <2>2. Fine(a.disk, ws, o)
        BY <1>2, <2>1, RestoreFileIsFine, RefusedIsFine
    <2>3. o = [disk |-> o.disk, reply |-> o.reply]
        BY <1>2 DEF RestoreFile, Refused, Outcome
    <2> QED BY <2>1, <2>2, <2>3, FineGoesOn
<1> QED BY <1>1, <1>2

BackFilesOn(it, b, ws, s) == IF s = {} THEN b ELSE FileBack(it[s \ {Latest(s)}], ws, Latest(s))
BackFilesRun(it, b, ws, ids) == it = [s \in SUBSET ids |-> BackFilesOn(it, b, ws, s)]
BackFiles(b, ws, ids) == MapThenFoldSet(LAMBDA x, S : FileBack(S, ws, x), b, LAMBDA x : x, Latest, ids)

LEMMA BackFilesGoOn ==
    ASSUME NEW b, NEW ws, NEW ids, NEW it, BackFilesRun(it, b, ws, ids)
    PROVE  \E jt : BackFilesRun(jt, b, ws, ids) /\ BackFiles(b, ws, ids) = jt[ids]
<1> DEFINE jt == CHOOSE x : x = [s \in SUBSET ids |-> BackFilesOn(x, b, ws, s)]
<1>1. jt = [s \in SUBSET ids |-> BackFilesOn(jt, b, ws, s)]
    BY DEF BackFilesRun
<1>2. BackFiles(b, ws, ids) = jt[ids]
    BY DEF BackFiles, MapThenFoldSet, BackFilesOn
<1> QED BY <1>1, <1>2 DEF BackFilesRun

LEMMA BackFilesAreFine ==
    ASSUME NEW d, IsStored(d), NEW ws \in Workspaces, NEW ids \in SUBSET Files,
           NEW b \in SUBSET FineOutcomes(d, ws)
    PROVE  BackFiles(b, ws, ids) \in SUBSET FineOutcomes(d, ws)
<1>0. PICK G : G = SUBSET FineOutcomes(d, ws)
    OBVIOUS
<1>1. PICK H : H = [x \in G \X ids |-> FileBack(x[1], ws, x[2])]
    OBVIOUS
<1>2. \A S \in G, x \in ids : FileBack(S, ws, x) \in G
    BY <1>0, FileBackIsFine
<1>3. H \in [G \X ids -> G] /\ b \in G /\ ids \in SUBSET Numbered
    BY <1>0, <1>1, <1>2 DEF Numbered
<1>4. PICK it \in [SUBSET ids -> G] : \A s \in SUBSET ids : it[s] = FoldOn(it, b, H, s)
    <2>1. \E it : Folded(it, ids, G, b, H)
        BY <1>3, FoldExists
    <2> QED BY <2>1 DEF Folded
<1>5. it = [s \in SUBSET ids |-> BackFilesOn(it, b, ws, s)]
    <2> SUFFICES ASSUME NEW s \in SUBSET ids PROVE it[s] = BackFilesOn(it, b, ws, s)
        BY <1>4
    <2>1. CASE s = {}
        BY <1>4, <2>1 DEF FoldOn, BackFilesOn
    <2>2. CASE s # {}
        <3>1. PICK t, x : t = s \ {Latest(s)} /\ x = Latest(s)
            OBVIOUS
        <3>2. t \in SUBSET ids /\ x \in ids
            BY <1>3, <2>2, <3>1, WithoutLatest
        <3>3. H[<<it[t], x>>] = FileBack(it[t], ws, x)
            BY <1>1, <1>4, <3>2
        <3> QED BY <1>4, <2>2, <3>1, <3>3 DEF FoldOn, BackFilesOn
    <2> QED BY <2>1, <2>2
<1>6. PICK jt : /\ jt = [s \in SUBSET ids |-> BackFilesOn(jt, b, ws, s)]
                /\ BackFiles(b, ws, ids) = jt[ids]
    <2>1. BackFilesRun(it, b, ws, ids)
        BY <1>5 DEF BackFilesRun
    <2>2. \E jt : BackFilesRun(jt, b, ws, ids) /\ BackFiles(b, ws, ids) = jt[ids]
        BY <2>1, BackFilesGoOn
    <2> QED BY <2>2 DEF BackFilesRun
<1>7. jt[{}] \in G
    BY <1>3, <1>6 DEF BackFilesOn
<1>8. ASSUME NEW s \in SUBSET ids, s # {}, jt[s \ {Latest(s)}] \in G
      PROVE  jt[s] \in G
    <2>1. Latest(s) \in ids
        BY <1>3, <1>8, WithoutLatest
    <2>2. jt[s] = FileBack(jt[s \ {Latest(s)}], ws, Latest(s))
        BY <1>6, <1>8 DEF BackFilesOn
    <2> QED BY <1>2, <1>8, <2>1, <2>2
<1>9. jt[ids] \in G
    BY <1>3, <1>7, <1>8, FoldStays
<1> QED BY <1>0, <1>6, <1>9

LEMMA RestoreTrashIsFine ==
    ASSUME NEW d, IsStored(d), NEW ws \in Workspaces, NEW fs \in SUBSET Files, NEW ps \in SUBSET Folders,
           NEW o \in RestoreTrash(d, ws, fs, ps)
    PROVE  Fine(d, ws, o)
<1>1. PICK b, c : b = BackFolders({Outcome(d, Done)}, ws, ps) /\ c = BackFiles(b, ws, fs)
    OBVIOUS
<1>2. RestoreTrash(d, ws, fs, ps) = c
    BY <1>1 DEF RestoreTrash, BackFolders, BackFiles
<1>3. b \in SUBSET FineOutcomes(d, ws)
    BY <1>1, FineOutcomesAre, BackFoldersAreFine
<1>4. c \in SUBSET FineOutcomes(d, ws)
    BY <1>1, <1>3, BackFilesAreFine
<1> QED BY <1>2, <1>4 DEF FineOutcomes

-----------------------------------------------------------------------------
(* The handlers that only read                                             *)

LEMMA ListsAre ==
    ASSUME NEW d, IsStored(d), NEW ws, NEW section, NEW p, NEW scopeAll
    PROVE  /\ ListFiles(d, ws, section, p).reply \in Replies
           /\ ListFolders(d, ws, p, scopeAll).reply \in Replies /\ ListFolders(d, ws, p, scopeAll).disk = d
           /\ ListTrash(d, ws).reply \in Replies
           /\ Breadcrumbs(d, ws, p).reply \in Replies /\ Breadcrumbs(d, ws, p).disk = d
<1>1. ListFiles(d, ws, section, p).reply \in Replies
    <2>1. PICK mine : mine = {f \in Files : ActiveFile(d, ws, f)}
        OBVIOUS
    <2>2. \A S \in SUBSET Files : Outcome(d, Reply(S, {})).reply \in Replies
        BY RepliesAre DEF Outcome
    <2>3. Refused(d).reply \in Replies
        BY RepliesAre DEF Outcome, Refused
    <2>4. mine \in SUBSET Files /\ {f \in mine : Mime[f] = "image"} \in SUBSET Files
          /\ {f \in mine : Mime[f] = "video"} \in SUBSET Files /\ {f \in mine : d.file[f].in = p} \in SUBSET Files
        BY <2>1
    <2>5. \/ ListFiles(d, ws, section, p) = Outcome(d, Reply(mine, {}))
          \/ ListFiles(d, ws, section, p) = Outcome(d, Reply({f \in mine : Mime[f] = "image"}, {}))
          \/ ListFiles(d, ws, section, p) = Outcome(d, Reply({f \in mine : Mime[f] = "video"}, {}))
          \/ ListFiles(d, ws, section, p) = Outcome(d, Reply({f \in mine : d.file[f].in = p}, {}))
          \/ ListFiles(d, ws, section, p) = Refused(d)
        BY <2>1 DEF ListFiles
    <2> QED BY <2>2, <2>3, <2>4, <2>5
<1>2. ListFolders(d, ws, p, scopeAll).reply \in Replies /\ ListFolders(d, ws, p, scopeAll).disk = d
    <2>1. PICK mine : mine = {q \in Folders : ActiveFolder(d, ws, q)}
        OBVIOUS
    <2>2. \/ ListFolders(d, ws, p, scopeAll) = Outcome(d, Reply({}, mine))
          \/ ListFolders(d, ws, p, scopeAll) = Outcome(d, Reply({}, {q \in mine : d.folder[q].in = p}))
          \/ ListFolders(d, ws, p, scopeAll) = Refused(d)
        BY <2>1 DEF ListFolders
    <2>3. mine \in SUBSET Folders /\ {q \in mine : d.folder[q].in = p} \in SUBSET Folders
        BY <2>1
    <2> QED BY <2>2, <2>3, RepliesAre DEF Outcome, Refused
<1>3. ListTrash(d, ws).reply \in Replies
    BY RepliesAre DEF ListTrash, Outcome
<1>4. Breadcrumbs(d, ws, p).reply \in Replies /\ Breadcrumbs(d, ws, p).disk = d
    <2>1. CASE p \in Folders /\ ActiveFolder(d, ws, p)
        <3>1. {p} \in SUBSET Folders /\ Breadcrumbs(d, ws, p) = Outcome(d, Reply({}, {p}))
            BY <2>1 DEF Breadcrumbs
        <3> QED BY <3>1, RepliesAre DEF Outcome
    <2>2. CASE ~(p \in Folders /\ ActiveFolder(d, ws, p))
        <3>1. Breadcrumbs(d, ws, p) = Refused(d)
            BY <2>2 DEF Breadcrumbs
        <3> QED BY <3>1, RepliesAre DEF Outcome, Refused
    <2> QED BY <2>1, <2>2
<1> QED BY <1>1, <1>2, <1>3, <1>4

\* The key of a new upload: given out, for the folder and the workspace it was asked for.
LEMMA UploadInitClaims ==
    ASSUME NEW d, IsStored(d), NEW ws \in Workspaces, NEW p \in Folders \cup {Root},
           UploadInit(d, ws, p).reply.ok, NEW key \in UploadInit(d, ws, p).reply.files
    PROVE  Claimed(UploadInit(d, ws, p).disk, [ws |-> ws, in |-> p, key |-> key])
<1>1. PICK e : e = [d EXCEPT !.keys = @ + 1]
    OBVIOUS
<1>2. /\ FolderExistsActive(d, ws, p) /\ NextKey(d) \in Files
      /\ UploadInit(d, ws, p) = Outcome(e, Reply({NextKey(d)}, {}))
    BY <1>1 DEF UploadInit, Refused, Outcome, Failure
<1>3. key = NextKey(d) /\ UploadInit(d, ws, p).disk = e
    BY <1>2 DEF Outcome, Reply
<1>4. d \in Disk
    BY StoredIs
<1>5. e.file = d.file /\ e.folder = d.folder /\ e.keys = d.keys + 1 /\ NextDir(e) = NextDir(d)
    BY <1>1, <1>4 DEF Disk, NextDir
<1>6. key \in Files /\ key <= e.keys /\ d.file[key].ws = Nobody
    <2>1. key \in Nat /\ key = d.keys + 1 /\ key >= NextKey(d) /\ key \in Files
        BY <1>2, <1>3, NumberOf
    <2>2. d.file[key] = NoRow
        BY <2>1, FileRows
    <2> QED BY <1>5, <2>1, <2>2 DEF NoRow
<1>7. p # Root => p \in Folders /\ p < NextDir(d) /\ d.folder[p].ws = ws
    <2>1. p # Root => p \in Folders /\ d.folder[p].ws = ws
        BY <1>2, TargetIs
    <2>2. p # Root => p <= Cardinality(Files) + d.dirs
        BY <2>1, FolderGiven, IdsAreNumbers
    <2> QED BY <2>1, <2>2, NumberOf
<1> QED BY <1>3, <1>5, <1>6, <1>7 DEF Claimed

\* An object under a key that was given out.
Put(d, k, e) ==
    k \in SUBSET Files /\ (\A f \in k : f <= d.keys) /\ e = [d EXCEPT !.object = @ \cup k]

LEMMA PutIsFine ==
    ASSUME NEW d, IsStored(d), NEW ws, NEW k, NEW e, Put(d, k, e)
    PROVE  Keeps(d, e, ws) /\ d.object \subseteq e.object
<1>0. k \in SUBSET Files /\ (\A f \in k : f <= d.keys) /\ e = [d EXCEPT !.object = @ \cup k]
    BY DEF Put
<1>1. d \in Disk
    BY StoredIs
<1>2. /\ e.file = d.file /\ e.folder = d.folder /\ e.keys = d.keys /\ e.dirs = d.dirs
      /\ e.object = d.object \cup k /\ NextKey(e) = NextKey(d) /\ NextDir(e) = NextDir(d) /\ e \in Disk
    BY <1>0, <1>1 DEF Disk, NextKey, NextDir
<1>3. \A f \in Files : f >= NextKey(d) => f \notin k
    BY <1>0, NumberOf DEF NextKey
<1>4. InOneWorkspace(e) /\ GivenOut(e)
    BY <1>2, <1>3, FileRows, FolderRows DEF InOneWorkspace, GivenOut
<1>5. IsStored(e)
    BY <1>2, <1>4, NewDisk
<1> QED BY <1>2, <1>5, NumberOf DEF Keeps, RowKept
=============================================================================
