--------------------------- MODULE PackagesProofs ---------------------------
(***************************************************************************)
(* Proofs about the units of MCServices that deal with packages: Difypkg   *)
(* and Packages.                                                           *)
(***************************************************************************)
EXTENDS MCServices, SequenceTheorems, Sequences, FiniteSetTheorems,
        WellFoundedInduction, TLAPS

------------------------------------------------------------------------------
(* Difypkg: sorted paths and the first entry of a name *)

\* The instance takes these operators from the community and standard modules, too.
LEMMA DpOperators ==
  /\ \A S : Dp!Cardinality(S) = Cardinality(S)
  /\ \A s : Dp!ToSet(s) = {s[i] : i \in DOMAIN s}
  /\ \A s : Dp!Front(s) = SubSeq(s, 1, Len(s) - 1)
<1>1. ASSUME NEW S PROVE Dp!Cardinality(S) = Cardinality(S)
  BY Zenon DEF Dp!Cardinality, Cardinality
<1>2. ASSUME NEW s PROVE Dp!ToSet(s) = {s[i] : i \in DOMAIN s}
  BY Zenon DEF Dp!ToSet
<1>3. ASSUME NEW s PROVE Dp!Front(s) = SubSeq(s, 1, Len(s) - 1)
  BY Zenon DEF Dp!Front
<1> QED
  BY <1>1, <1>2, <1>3

\* A set of numbers has a least one.
LEMMA LeastOf ==
  ASSUME NEW S, S \subseteq Nat, S # {}
  PROVE  \E x \in S : \A y \in S : x <= y
<1>1. PICK x \in S : \A y \in S : <<y, x>> \notin OpToRel(<, Nat)
  BY NatLessThanWellFounded, WFMin
<1>2. ASSUME NEW y \in S, y < x PROVE FALSE
  <2>1. x \in Nat /\ y \in Nat
    OBVIOUS
  <2>2. <<y, x>> \in OpToRel(<, Nat)
    BY <1>2, <2>1, Zenon DEF OpToRel
  <2> QED
    BY <1>1, <2>2
<1>3. ASSUME NEW y \in S PROVE x <= y
  <2>1. x \in Nat /\ y \in Nat /\ ~(y < x)
    BY <1>2
  <2> QED
    BY <2>1
<1> QED
  BY <1>3

\* The paths are finitely many, and no two have one place in the order.
LEMMA PathsRanked ==
  /\ IsFiniteSet(Dp!Paths)
  /\ \A p \in Dp!Paths : Dp!Rank(p) \in Nat
  /\ \A p, q \in Dp!Paths : Dp!Rank(p) = Dp!Rank(q) => p = q
<1> DEFINE O == Dp!PathOrder
<1>1. DOMAIN O = 1..10
  BY DEF Dp!PathOrder
<1>2. Dp!Paths = {O[i] : i \in 1..10}
  BY <1>1, DpOperators DEF Dp!Paths
<1>3. IsFiniteSet(1..10)
  <2>1. ASSUME NEW m \in Nat PROVE IsFiniteSet(1..m)
    BY FS_Interval
  <2> QED
    BY <2>1
<1> HIDE DEF O
<1>4. IsFiniteSet(Dp!Paths)
  <2> DEFINE f == [i \in 1..10 |-> O[i]]
  <2>1. f \in Surjection(1..10, Dp!Paths)
    BY <1>2 DEF Surjection
  <2> QED
    BY <1>3, <2>1, FS_Surjection, Zenon
<1>5. ASSUME NEW p \in Dp!Paths PROVE Dp!Rank(p) \in 1..10 /\ O[Dp!Rank(p)] = p
  BY <1>1, <1>2 DEF Dp!Rank, O
<1> QED
  BY <1>4, <1>5

\* Sorted lists exactly the paths it is given (sort.Slice and WalkDir lose none).
LEMMA SortedEnumerates ==
  ASSUME NEW S, S \subseteq Dp!Paths
  PROVE  /\ Cardinality(S) \in Nat
         /\ Dp!Sorted(S) \in [1..Cardinality(S) -> S]
         /\ {Dp!Sorted(S)[i] : i \in 1..Cardinality(S)} = S
<1> DEFINE n == Cardinality(S)
           Below(p) == {q \in S : Dp!Rank(q) < Dp!Rank(p)}
           R == [p \in S |-> Cardinality(Below(p))]
           T == {R[p] : p \in S}
<1>1. IsFiniteSet(S) /\ n \in Nat
  BY PathsRanked, FS_Subset, FS_CardinalityType
<1>2. ASSUME NEW p \in S
      PROVE  /\ IsFiniteSet(Below(p)) /\ Cardinality(Below(p)) \in Nat
             /\ Cardinality(Below(p) \cup {p}) = Cardinality(Below(p)) + 1
             /\ IsFiniteSet(Below(p) \cup {p})
  <2>1. IsFiniteSet(Below(p))
    <3>1. Below(p) \in SUBSET S
      OBVIOUS
    <3> QED
      BY <1>1, <3>1, FS_Subset, Zenon
  <2>2. p \notin Below(p)
    BY PathsRanked
  <2> HIDE DEF Below
  <2>3. Cardinality(Below(p)) \in Nat
    BY <2>1, FS_CardinalityType
  <2> QED
    BY <2>1, <2>2, <2>3, FS_AddElement
<1>3. ASSUME NEW p \in S PROVE R[p] \in 0..n - 1
  <2>1. Below(p) \cup {p} \in SUBSET S
    OBVIOUS
  <2> DEFINE B == Below(p) \cup {p}
  <2>2. Cardinality(B) <= n
    BY <1>1, <2>1, FS_Subset, Zenon
  <2>3. R[p] \in Nat /\ Cardinality(B) = R[p] + 1
    BY <1>2
  <2> HIDE DEF R, n, B
  <2> QED
    BY <1>1, <2>2, <2>3
<1>4. ASSUME NEW p \in S, NEW q \in S, Dp!Rank(p) < Dp!Rank(q) PROVE R[p] < R[q]
  <2> DEFINE B == Below(p) \cup {p}
  <2>1. B \in SUBSET Below(q)
    BY <1>4, PathsRanked
  <2>2. Cardinality(B) <= Cardinality(Below(q))
    BY <1>2, <2>1, FS_Subset, Zenon
  <2>3. R[p] \in Nat /\ R[q] = Cardinality(Below(q)) /\ Cardinality(B) = R[p] + 1 /\ Cardinality(Below(q)) \in Nat
    BY <1>2
  <2> HIDE DEF R, B, Below
  <2> QED
    BY <2>2, <2>3
<1>5. ASSUME NEW p \in S, NEW q \in S, R[p] = R[q] PROVE p = q
  <2>1. Dp!Rank(p) \in Nat /\ Dp!Rank(q) \in Nat /\ R[p] \in Nat /\ R[q] \in Nat
    BY PathsRanked, <1>3
  <2>2. ~(Dp!Rank(p) < Dp!Rank(q)) /\ ~(Dp!Rank(q) < Dp!Rank(p))
    BY <1>4, <1>5, <2>1
  <2> QED
    BY <2>1, <2>2, PathsRanked
<1>6. T = 0..n - 1
  <2>1. T \in SUBSET (0..n - 1)
    BY <1>3
  <2>2. R \in Bijection(S, T)
    <3>1. R \in [S -> T]
      OBVIOUS
    <3> HIDE DEF R
    <3> QED
      BY <1>5, <3>1, Zenon DEF Bijection, Injection, Surjection, IsInjective
  <2>3. Cardinality(T) = n
    BY <1>1, <2>2, FS_Bijection, Zenon DEF ExistsBijection
  <2>4. IsFiniteSet(0..n - 1) /\ Cardinality(0..n - 1) = n
    <3>2. n \in Nat
      BY <1>1
    <3> HIDE DEF n
    <3>5. 0 \in Int /\ n - 1 \in Int
      BY <3>2
    <3>1. IsFiniteSet(0..n - 1) /\ Cardinality(0..n - 1) = IF 0 > n - 1 THEN 0 ELSE (n - 1) - 0 + 1
      BY <3>5, FS_Interval, Zenon
    <3>3. CASE n = 0
      BY <3>1, <3>3
    <3>4. CASE n # 0
      <4>1. ~(0 > n - 1) /\ (n - 1) - 0 + 1 = n
        BY <3>2, <3>4
      <4> QED
        BY <3>1, <4>1, Zenon
    <3> QED
      BY <3>3, <3>4, Zenon
  <2> HIDE DEF T
  <2> QED
    BY <2>1, <2>3, <2>4, FS_Subset, Zenon
<1>7. ASSUME NEW i \in 1..n PROVE \E p \in S : Cardinality(Below(p)) = i - 1
  <2>1. i - 1 \in 0..n - 1
    <3> HIDE DEF n
    <3> QED
      BY <1>1
  <2>2. i - 1 \in T
    BY <1>6, <2>1, Zenon
  <2> QED
    BY <2>2
<1>8. Dp!Sorted(S) = [i \in 1..n |-> CHOOSE p \in S : Dp!Cardinality(Below(p)) = i - 1]
  <2>1. Dp!Cardinality(S) = n
    BY DpOperators, Zenon
  <2> HIDE DEF n
  <2> QED
    BY <2>1, Zenon DEF Dp!Sorted
<1>9. ASSUME NEW i \in 1..n PROVE Dp!Sorted(S)[i] \in S /\ R[Dp!Sorted(S)[i]] = i - 1
  <2>1. Dp!Sorted(S)[i] = CHOOSE p \in S : Dp!Cardinality(Below(p)) = i - 1
    BY <1>8
  <2>2. \E p \in S : Dp!Cardinality(Below(p)) = i - 1
    BY <1>7, DpOperators, Zenon
  <2>3. Dp!Sorted(S)[i] \in S /\ Dp!Cardinality(Below(Dp!Sorted(S)[i])) = i - 1
    <3> HIDE DEF Below
    <3> QED
      BY <2>1, <2>2, Zenon
  <2>4. Dp!Sorted(S)[i] \in S /\ Cardinality(Below(Dp!Sorted(S)[i])) = i - 1
    BY <2>3, DpOperators, Zenon
  <2> QED
    BY <2>4
<1>10. ASSUME NEW p \in S PROVE \E i \in 1..n : Dp!Sorted(S)[i] = p
  <2>1. R[p] \in Nat /\ R[p] + 1 \in 1..n /\ (R[p] + 1) - 1 = R[p]
    <3>1. R[p] \in 0..n - 1
      BY <1>3
    <3> HIDE DEF R, n
    <3> QED
      BY <1>1, <3>1
  <2> QED
    BY <1>5, <1>9, <2>1
<1> HIDE DEF n, R
<1>11. Dp!Sorted(S) \in [1..n -> S]
  BY <1>8, <1>9
<1> QED
  BY <1>1, <1>9, <1>10, <1>11 DEF n

\* There is a first entry for every path of a package.
LEMMA FirstIs ==
  ASSUME NEW n \in Nat, NEW es, DOMAIN es = 1..n, NEW p \in {es[i].path : i \in 1..n}
  PROVE  /\ Dp!FirstOf(es, p) \in 1..n
         /\ es[Dp!FirstOf(es, p)].path = p
         /\ \A j \in 1..(Dp!FirstOf(es, p) - 1) : es[j].path # p
<1> DEFINE S == {i \in 1..n : es[i].path = p}
<1>1. S \subseteq Nat /\ S # {}
  OBVIOUS
<1>2. PICK x \in S : \A y \in S : x <= y
  BY <1>1, LeastOf
<1>3. x \in DOMAIN es /\ es[x].path = p /\ \A j \in 1..(x - 1) : es[j].path # p
  BY <1>2
<1> QED
  BY <1>3 DEF Dp!FirstOf

------------------------------------------------------------------------------
(* Difypkg: entries and signatures *)

\* A decoder that walks over the entries es and reads the first of each name.
Shows(v, es) == v.walk = [i \in DOMAIN es |-> es[i].path] /\ v.read = Dp!ReadFile(es)

\* What a decoder over a package shows.
LEMMA ViewIs ==
  ASSUME NEW a, NEW k
  PROVE  /\ Shows(Dp!ZipView(a, k), a.entries)
         /\ Dp!ZipView(a, k).walk = [i \in DOMAIN a.entries |-> a.entries[i].path]
         /\ Dp!ZipView(a, k).read = Dp!ReadFile(a.entries)
         /\ Dp!ZipView(a, k).comment = a.comment /\ Dp!ZipView(a, k).kind = k.kind
         /\ Dp!ZipView(a, k).fs = FALSE /\ Dp!ZipView(a, k).dotted = k.dotted
BY DEF Dp!ZipView, Shows

\* ReadFile answers for the paths of the entries, with the content of one of them.
LEMMA ReadIs ==
  ASSUME NEW es \in Seq(Dp!EntryShape)
  PROVE  /\ DOMAIN Dp!ReadFile(es) = {es[i].path : i \in 1..Len(es)}
         /\ \A p \in DOMAIN Dp!ReadFile(es) :
              /\ p \in Dp!Paths /\ Dp!ReadFile(es)[p] \in Dp!Contents
              /\ \E k \in 1..Len(es) :
                   /\ es[k].path = p /\ es[k].content = Dp!ReadFile(es)[p]
                   /\ \A j \in 1..(k - 1) : es[j].path # p
<1>1. DOMAIN es = 1..Len(es) /\ Len(es) \in Nat
  OBVIOUS
<1>2. DOMAIN Dp!ReadFile(es) = {es[i].path : i \in 1..Len(es)}
  BY <1>1 DEF Dp!ReadFile
<1>3. ASSUME NEW p \in DOMAIN Dp!ReadFile(es)
      PROVE  /\ p \in Dp!Paths /\ Dp!ReadFile(es)[p] \in Dp!Contents
             /\ \E k \in 1..Len(es) :
                  /\ es[k].path = p /\ es[k].content = Dp!ReadFile(es)[p]
                  /\ \A j \in 1..(k - 1) : es[j].path # p
  <2> DEFINE k == Dp!FirstOf(es, p)
  <2>1. p \in {es[i].path : i \in 1..Len(es)}
    BY <1>2
  <2>2. k \in 1..Len(es) /\ es[k].path = p /\ \A j \in 1..(k - 1) : es[j].path # p
    BY <1>1, <2>1, FirstIs
  <2>3. Dp!ReadFile(es)[p] = es[k].content
    BY <1>1, <2>1 DEF Dp!ReadFile
  <2> HIDE DEF k
  <2>4. es[k] \in Dp!EntryShape
    BY <2>2
  <2>5. es[k].path \in Dp!Paths /\ es[k].content \in Dp!Contents
    BY <2>4 DEF Dp!EntryShape
  <2> QED
    BY <2>2, <2>3, <2>5
<1> QED
  BY <1>2, <1>3

\* The package a signature leaves: the entries as they read, and the verification.
LEMMA SignedEntriesAre ==
  ASSUME NEW es \in Seq(Dp!EntryShape), NEW c \in Categories \cup {"none"}, NEW v,
         Shows(v, es)
  PROVE  LET t == Dp!SignedEntries(v, c)
             n == Len(es)
         IN  /\ t \in Seq(Dp!EntryShape) /\ Len(t) = IF c = "none" THEN n ELSE n + 1
             /\ \A i \in 1..n : t[i].path = es[i].path /\ t[i].content = Dp!ReadFile(es)[es[i].path]
             /\ c # "none" => t[n + 1].path = Dp!VerificationFile /\ t[n + 1].content = c
<1> DEFINE n == Len(es)
           z == Dp!ReadFile(es)
           m == [i \in 1..n |-> [path |-> es[i].path, content |-> z[es[i].path]]]
           w == [path |-> Dp!VerificationFile, content |-> c]
<1>1. n \in Nat /\ DOMAIN es = 1..n
  OBVIOUS
<1>2. ASSUME NEW i \in 1..n PROVE m[i] \in Dp!EntryShape /\ m[i].path = es[i].path /\ m[i].content = z[es[i].path]
  <2>0. DOMAIN z = {es[k].path : k \in 1..n}
    BY ReadIs, Zenon
  <2>1. es[i].path \in DOMAIN z
    BY <2>0, Zenon
  <2>2. es[i].path \in Dp!Paths /\ z[es[i].path] \in Dp!Contents
    BY <2>1, ReadIs
  <2> QED
    BY <2>2 DEF Dp!EntryShape
<1> HIDE DEF z
<1>3. m \in Seq(Dp!EntryShape) /\ Len(m) = n
  <2>1. m \in [1..n -> Dp!EntryShape]
    BY <1>2
  <2> HIDE DEF m
  <2> QED
    BY <1>1, <2>1
<1>4. Dp!SignedEntries(v, c) = m \o (IF c = "none" THEN <<>> ELSE <<w>>)
  BY <1>1 DEF Dp!SignedEntries, Dp!None_, Shows, z
<1>5. CASE c = "none"
  <2> HIDE DEF m, n
  <2>1. Dp!SignedEntries(v, c) = m
    BY <1>3, <1>4, <1>5
  <2> QED
    BY <1>2, <1>3, <1>5, <2>1 DEF n, z
<1>6. CASE c # "none"
  <2>1. w \in Dp!EntryShape
    <3>1. Dp!VerificationFile \in Dp!Paths
      <4>1. Dp!PathOrder[1] = Dp!VerificationFile /\ 1 \in DOMAIN Dp!PathOrder
        BY DEF Dp!PathOrder
      <4> QED
        BY <4>1, DpOperators DEF Dp!Paths
    <3>2. c \in Dp!Contents
      BY <1>6 DEF Dp!Contents
    <3> QED
      BY <3>1, <3>2 DEF Dp!EntryShape
  <2>2. w.path = Dp!VerificationFile /\ w.content = c
    OBVIOUS
  <2> HIDE DEF m, n, w
  <2>3. Dp!SignedEntries(v, c) = Append(m, w)
    BY <1>3, <1>4, <1>6, <2>1
  <2>4. /\ Append(m, w) \in Seq(Dp!EntryShape) /\ Len(Append(m, w)) = n + 1
        /\ \A i \in 1..n : Append(m, w)[i] = m[i]
        /\ Append(m, w)[n + 1] = w
    BY <1>1, <1>3, <2>1
  <2> QED
    BY <1>2, <1>6, <2>2, <2>3, <2>4 DEF n, z
<1> QED
  BY <1>5, <1>6

\* It reads as it did, the verification added.
LEMMA SignedPackageReads ==
  ASSUME NEW es \in Seq(Dp!EntryShape), NEW c \in Categories \cup {"none"}, NEW v,
         Shows(v, es)
  PROVE  LET y == Dp!ReadFile(Dp!SignedEntries(v, c))
             z == Dp!ReadFile(es)
         IN  /\ DOMAIN y = DOMAIN z \cup (IF c = "none" THEN {} ELSE {Dp!VerificationFile})
             /\ \A p \in DOMAIN z : y[p] = z[p]
             /\ c # "none" /\ Dp!VerificationFile \notin DOMAIN z => y[Dp!VerificationFile] = c
<1> DEFINE t == Dp!SignedEntries(v, c)
           y == Dp!ReadFile(t)
           z == Dp!ReadFile(es)
           n == Len(es)
<1>1. /\ t \in Seq(Dp!EntryShape) /\ Len(t) = IF c = "none" THEN n ELSE n + 1
      /\ \A i \in 1..n : t[i].path = es[i].path /\ t[i].content = z[es[i].path]
      /\ c # "none" => t[n + 1].path = Dp!VerificationFile /\ t[n + 1].content = c
  BY SignedEntriesAre
<1>2. DOMAIN z = {es[i].path : i \in 1..n} /\ n \in Nat
  <2>1. DOMAIN z = {es[i].path : i \in 1..n}
    BY ReadIs, Zenon
  <2>2. n \in Nat
    OBVIOUS
  <2> QED
    BY <2>1, <2>2
<1>3. DOMAIN y = {t[i].path : i \in 1..Len(t)}
  BY <1>1, ReadIs
<1>4. ASSUME NEW p \in DOMAIN y
      PROVE  \E k \in 1..Len(t) : /\ t[k].path = p /\ t[k].content = y[p]
                                  /\ \A j \in 1..(k - 1) : t[j].path # p
  BY <1>1, ReadIs
<1> HIDE DEF t, y, z, n
<1>5. DOMAIN y = DOMAIN z \cup (IF c = "none" THEN {} ELSE {Dp!VerificationFile})
  <2>1. ASSUME NEW p \in DOMAIN z PROVE p \in DOMAIN y
    <3>1. PICK i \in 1..n : es[i].path = p
      BY <1>2
    <3>2. t[i].path = p /\ i \in 1..Len(t)
      BY <1>1, <1>2, <3>1
    <3> QED
      BY <1>3, <3>2
  <2>2. c # "none" => Dp!VerificationFile \in DOMAIN y
    BY <1>1, <1>2, <1>3
  <2>3. ASSUME NEW p \in DOMAIN y PROVE p \in DOMAIN z \/ (c # "none" /\ p = Dp!VerificationFile)
    <3>1. PICK k \in 1..Len(t) : t[k].path = p
      BY <1>3
    <3>2. CASE k \in 1..n
      BY <1>1, <1>2, <3>1, <3>2
    <3>3. CASE k \notin 1..n
      <4>1. c # "none" /\ k = n + 1
        BY <1>1, <1>2, <3>3
      <4> QED
        BY <1>1, <3>1, <4>1
    <3> QED
      BY <3>2, <3>3
  <2> QED
    BY <2>1, <2>2, <2>3
<1>6. ASSUME NEW p \in DOMAIN z PROVE y[p] = z[p]
  <2>1. p \in DOMAIN y
    BY <1>5
  <2>2. PICK k \in 1..Len(t) : t[k].path = p /\ t[k].content = y[p] /\ \A j \in 1..(k - 1) : t[j].path # p
    BY <1>4, <2>1
  <2>3. PICK j \in 1..n : es[j].path = p
    BY <1>2
  <2>4. k \in 1..n
    <3>1. t[j].path = p
      BY <1>1, <2>3
    <3>2. ~(j <= k - 1)
      BY <1>2, <2>2, <2>3, <3>1
    <3> QED
      BY <1>1, <1>2, <3>2
  <2> QED
    BY <1>1, <2>2, <2>4
<1>7. ASSUME c # "none", Dp!VerificationFile \notin DOMAIN z PROVE y[Dp!VerificationFile] = c
  <2>1. Dp!VerificationFile \in DOMAIN y
    BY <1>5, <1>7
  <2>2. PICK k \in 1..Len(t) : t[k].path = Dp!VerificationFile /\ t[k].content = y[Dp!VerificationFile]
    BY <1>4, <2>1
  <2>3. k \notin 1..n
    BY <1>1, <1>2, <1>7, <2>2
  <2>4. k = n + 1
    BY <1>1, <1>2, <1>7, <2>3
  <2> QED
    BY <1>1, <1>7, <2>2, <2>4
<1> QED
  BY <1>5, <1>6, <1>7 DEF t, y, z

\* What a signature with category c over the entries es holds.
SignsOver(d, es, c, time) ==
  /\ d \in Seq(Dp!Contents \cup {time})
  /\ Len(d) = IF c = "none" THEN Len(es) + 1 ELSE Len(es) + 2
  /\ \A i \in 1..Len(es) : d[i] = Dp!ReadFile(es)[es[i].path]
  /\ c # "none" => d[Len(es) + 1] = c
  /\ d[Len(d)] = time

\* What is signed: every file as it reads, the verification, the time.
LEMMA SigningDataIs ==
  ASSUME NEW es \in Seq(Dp!EntryShape), NEW c \in Categories \cup {"none"}, NEW v, NEW time,
         Shows(v, es)
  PROVE  SignsOver(Dp!SigningData(v, c, time), es, c, time)
<1> DEFINE n == Len(es)
           z == Dp!ReadFile(es)
           S == Dp!Contents \cup {time}
           m == [i \in 1..n |-> z[es[i].path]]
<1>1. n \in Nat /\ DOMAIN es = 1..n
  OBVIOUS
<1>2. DOMAIN z = {es[k].path : k \in 1..n}
  BY ReadIs, Zenon
<1>3. ASSUME NEW i \in 1..n PROVE z[es[i].path] \in S
  <2>1. es[i].path \in DOMAIN z
    BY <1>2, Zenon
  <2> QED
    BY <2>1, ReadIs
<1> HIDE DEF z, S
<1>4. m \in Seq(S) /\ Len(m) = n /\ \A i \in 1..n : m[i] = z[es[i].path]
  <2>1. m \in [1..n -> S]
    BY <1>3
  <2> QED
    BY <1>1, <2>1
<1>5. time \in S /\ (c # "none" => c \in S)
  BY DEF S, Dp!Contents
<1>6. Dp!SigningData(v, c, time) = m \o (IF c = "none" THEN <<>> ELSE <<c>>) \o <<time>>
  BY <1>1 DEF Dp!SigningData, Dp!None_, Shows, z
<1> HIDE DEF m, n
<1>7. CASE c = "none"
  <2>1. Dp!SigningData(v, c, time) = Append(m, time)
    BY <1>4, <1>5, <1>6, <1>7
  <2>2. /\ Append(m, time) \in Seq(S) /\ Len(Append(m, time)) = n + 1
        /\ \A i \in 1..n : Append(m, time)[i] = m[i]
        /\ Append(m, time)[n + 1] = time
    BY <1>1, <1>4, <1>5
  <2> QED
    BY <1>4, <1>7, <2>1, <2>2 DEF n, z, S, SignsOver
<1>8. CASE c # "none"
  <2>1. Dp!SigningData(v, c, time) = Append(Append(m, c), time)
    BY <1>4, <1>5, <1>6, <1>8
  <2> DEFINE a == Append(m, c)
             b == Append(a, time)
  <2>2. a \in Seq(S) /\ Len(a) = n + 1 /\ (\A i \in 1..n : a[i] = m[i]) /\ a[n + 1] = c
    BY <1>1, <1>4, <1>5, <1>8
  <2> HIDE DEF a
  <2>3. b \in Seq(S) /\ Len(b) = n + 2 /\ (\A i \in 1..n + 1 : b[i] = a[i]) /\ b[n + 2] = time
    BY <1>1, <1>5, <2>2
  <2>4. Dp!SigningData(v, c, time) = b
    BY <2>1 DEF a
  <2> HIDE DEF b
  <2>5. n + 1 \in 1..n + 1 /\ \A i \in 1..n : i \in 1..n + 1
    BY <1>1
  <2> QED
    BY <1>4, <1>8, <2>2, <2>3, <2>4, <2>5 DEF n, z, S, SignsOver
<1> QED
  BY <1>7, <1>8

\* d has what every entry's file reads as, then the time.
Hashes(d, es, time) ==
  /\ d \in Seq(Dp!Contents \cup {time})
  /\ Len(d) = Len(es) + 1
  /\ \A i \in 1..Len(es) : d[i] = Dp!ReadFile(es)[es[i].path]
  /\ d[Len(es) + 1] = time

\* What a signature is checked against.
LEMMA SignedDataIs ==
  ASSUME NEW es \in Seq(Dp!EntryShape), NEW v, NEW time,
         Shows(v, es)
  PROVE  Hashes(Dp!SignedData(v, time), es, time)
<1> DEFINE n == Len(es)
           z == Dp!ReadFile(es)
           S == Dp!Contents \cup {time}
           m == [i \in 1..n |-> z[es[i].path]]
<1>1. n \in Nat /\ DOMAIN es = 1..n
  OBVIOUS
<1>2. DOMAIN z = {es[k].path : k \in 1..n}
  BY ReadIs, Zenon
<1>3. ASSUME NEW i \in 1..n PROVE z[es[i].path] \in S
  <2>1. es[i].path \in DOMAIN z
    BY <1>2, Zenon
  <2> QED
    BY <2>1, ReadIs
<1> HIDE DEF z, S
<1>4. m \in Seq(S) /\ Len(m) = n /\ \A i \in 1..n : m[i] = z[es[i].path]
  <2>1. m \in [1..n -> S]
    BY <1>3
  <2> QED
    BY <1>1, <2>1
<1>5. time \in S
  BY DEF S
<1>6. Dp!SignedData(v, time) = Append(m, time)
  <2>1. DOMAIN v.walk = 1..n /\ \A i \in 1..n : v.walk[i] = es[i].path
    BY <1>1 DEF Shows
  <2>2. [i \in DOMAIN v.walk |-> v.read[v.walk[i]]] = m
    BY <2>1 DEF Shows, z
  <2> QED
    BY <2>2, Zenon DEF Dp!SignedData
<1> HIDE DEF m, n
<1>7. /\ Append(m, time) \in Seq(S) /\ Len(Append(m, time)) = n + 1
      /\ \A i \in 1..n : Append(m, time)[i] = m[i]
      /\ Append(m, time)[n + 1] = time
  BY <1>1, <1>4, <1>5
<1> QED
  BY <1>4, <1>6, <1>7 DEF n, z, S, Hashes

\* An unchanged package is verified against the signature it was given, unless the
\* signature added a second verification.
LEMMA CoveredVerifies ==
  ASSUME NEW es \in Seq(Dp!EntryShape), NEW v, NEW s, NEW sig,
         Shows(v, es),
         Dp!SignatureCovers(s, sig, es), Dp!SignedReads(s, es),
         s.category = "none" \/ s.before \in {"none", s.category},
         Dp!VerificationFile \in DOMAIN v.read => v.read[Dp!VerificationFile] # "none"
  PROVE  sig.data = Dp!SignedData(v, sig.time)
<1> DEFINE e == Dp!SignedData(v, sig.time)
           d == sig.data
           z == Dp!ReadFile(es)
           l == Len(es)
           n == l - (IF s.category = "none" THEN 0 ELSE 1)
           S == Dp!Contents \cup {sig.time}
<1>1. e \in Seq(S) /\ Len(e) = l + 1 /\ (\A i \in 1..l : e[i] = z[es[i].path]) /\ e[l + 1] = sig.time
  <2>1. Hashes(e, es, sig.time)
    BY SignedDataIs, Zenon
  <2> QED
    BY <2>1, Zenon DEF Hashes
<1>2. /\ d \in Seq(S) /\ n \in Nat /\ Len(d) = l + 1 /\ d[l + 1] = sig.time
      /\ DOMAIN s.reads = {es[i].path : i \in 1..n}
      /\ \A i \in 1..n : d[i] = s.reads[es[i].path]
      /\ s.category # "none" => es[n + 1].path = Dp!VerificationFile /\ d[n + 1] = s.category
  BY DEF Dp!SignatureCovers, Dp!None_
<1>3. /\ \A p \in DOMAIN s.reads : z[p] = s.reads[p]
      /\ s.category # "none" /\ Dp!VerificationFile \notin DOMAIN s.reads
           => z[Dp!VerificationFile] = s.category
      /\ Dp!VerificationFile \in DOMAIN s.reads => s.before = s.reads[Dp!VerificationFile]
      /\ DOMAIN z = DOMAIN s.reads \cup (IF s.category = "none" THEN {} ELSE {Dp!VerificationFile})
  BY Zenon DEF Dp!SignedReads, Dp!None_
<1>4. l \in Nat /\ v.read = z
  BY DEF Shows
<1> HIDE DEF e, d, z, l
<1>5. ASSUME NEW i \in 1..l + 1 PROVE d[i] = e[i]
  <2>1. CASE i \in 1..n
    <3>1. es[i].path \in DOMAIN s.reads /\ i \in 1..l
      BY <1>2, <1>4, <2>1
    <3> QED
      BY <1>1, <1>2, <1>3, <2>1, <3>1
  <2>2. CASE i = l + 1
    BY <1>1, <1>2, <2>2
  <2>3. CASE i \notin 1..n /\ i # l + 1
    <3>1. s.category # "none" /\ i = n + 1 /\ i \in 1..l
      BY <1>2, <1>4, <2>3
    <3>2. z[Dp!VerificationFile] = s.category
      BY <1>3, <1>4, <3>1
    <3> QED
      BY <1>1, <1>2, <3>1, <3>2
  <2> QED
    BY <2>1, <2>2, <2>3
<1> HIDE DEF S
<1>6. DOMAIN d = 1..l + 1 /\ DOMAIN e = 1..l + 1
  BY <1>1, <1>2
<1>7. d = [i \in 1..l + 1 |-> d[i]] /\ e = [i \in 1..l + 1 |-> e[i]]
  BY <1>1, <1>2, <1>6
<1>8. d = e
  BY <1>5, <1>7
<1> QED
  BY <1>8 DEF d, e

\* What is verified reads as it was signed.
LEMMA VerifiedReads ==
  ASSUME NEW es \in Seq(Dp!EntryShape), NEW v, NEW s, NEW sig,
         Shows(v, es),
         Dp!SignatureCovers(s, sig, es), sig.data = Dp!SignedData(v, sig.time)
  PROVE  /\ DOMAIN v.read \ {Dp!VerificationFile} = DOMAIN s.reads \ {Dp!VerificationFile}
         /\ \A p \in DOMAIN s.reads : v.read[p] = s.reads[p]
<1> DEFINE d == sig.data
           z == Dp!ReadFile(es)
           l == Len(es)
           n == l - (IF s.category = "none" THEN 0 ELSE 1)
<1>1. \A i \in 1..l : d[i] = z[es[i].path]
  <2>1. Hashes(d, es, sig.time)
    <3>1. Hashes(Dp!SignedData(v, sig.time), es, sig.time)
      BY SignedDataIs, Zenon
    <3> QED
      BY <3>1, Zenon
  <2> QED
    BY <2>1, Zenon DEF Hashes
<1>2. /\ n \in Nat
      /\ DOMAIN s.reads = {es[i].path : i \in 1..n}
      /\ \A i \in 1..n : d[i] = s.reads[es[i].path]
      /\ s.category # "none" => es[n + 1].path = Dp!VerificationFile
  BY DEF Dp!SignatureCovers, Dp!None_
<1>3. DOMAIN z = {es[i].path : i \in 1..l}
  BY ReadIs, Zenon
<1>4. l \in Nat /\ v.read = z
  BY DEF Shows
<1> HIDE DEF d, z, l
<1>5. \A i \in 1..n : i \in 1..l
  BY <1>2, <1>4
<1>6. ASSUME NEW p \in DOMAIN s.reads PROVE z[p] = s.reads[p] /\ p \in DOMAIN z
  <2>1. PICK i \in 1..n : es[i].path = p
    BY <1>2
  <2> QED
    BY <1>1, <1>2, <1>3, <1>5, <2>1
<1>7. ASSUME NEW p \in DOMAIN z, p # Dp!VerificationFile PROVE p \in DOMAIN s.reads
  <2>1. PICK i \in 1..l : es[i].path = p
    BY <1>3
  <2>2. i \in 1..n
    BY <1>2, <1>4, <1>7, <2>1
  <2> QED
    BY <1>2, <2>1, <2>2
<1> QED
  BY <1>4, <1>6, <1>7

------------------------------------------------------------------------------
(* Difypkg: the author's directory and Pack *)

\* The paths, one by one.
LEMMA PathSet ==
  Dp!Paths = {Dp!VerificationFile, Dp!Readme_, Dp!PluginIcon, Dp!ProviderIcon, Dp!Child_,
              Dp!Position_, Dp!Manifest_, Dp!Provider_, Dp!ReadmeZh, Dp!RequirementsFile}
<1>1. DOMAIN Dp!PathOrder = 1..10
  BY DEF Dp!PathOrder
<1>2. Dp!Paths = {Dp!PathOrder[i] : i \in 1..10}
  BY <1>1, DpOperators DEF Dp!Paths
<1> QED
  BY <1>2 DEF Dp!PathOrder

\* A directory that is tried is one.
LEMMA SourceStarts ==
  ASSUME Dp!DpInit
  PROVE  Dp!SourceKnows
<1>1. s1 \in Dp!Sources
  BY DEF Dp!DpInit, Dp!TriedSources
<1>2. PICK k \in PluginKinds, uv \in BOOLEAN,
           extras \in SUBSET {Dp!VerificationFile, Dp!RequirementsFile},
           flaw \in {"none", "missing", "bad", "ignored", "dotted"},
           at \in Dp!Paths \ {Dp!VerificationFile} :
        s1 = Dp!SourceWith(k, uv, extras, flaw, at)
  BY <1>1 DEF Dp!Sources
<1>3. /\ s1.kind = k /\ s1.uv = uv /\ s1.ignored = IF flaw = "ignored" THEN {at} ELSE {}
      /\ s1.dotted = IF flaw = "dotted" THEN {at} \cap Dp!DeclaredPaths ELSE {}
  BY <1>2, Zenon DEF Dp!SourceWith
<1> DEFINE D == (Dp!BaseFiles(k) \cup extras) \ (IF flaw = "missing" THEN {at} ELSE {})
<1>4. s1.files = [p \in D |-> IF p = Dp!VerificationFile THEN (CHOOSE c \in Categories : TRUE)
                              ELSE IF flaw = "bad" /\ p = at THEN "bad" ELSE "ok"]
  BY <1>2, Zenon DEF Dp!SourceWith
<1>5. D \subseteq Dp!Paths
  BY PathSet DEF Dp!BaseFiles
<1>6. (CHOOSE c \in Categories : TRUE) \in Categories
  BY ServicesAssumption DEF Dp!DpAssumption
<1> HIDE DEF D
<1>7. DOMAIN s1.files = D
  BY <1>4, Zenon
<1>8. ASSUME NEW p \in D
      PROVE  s1.files[p] \in IF p = Dp!VerificationFile THEN Categories ELSE {"ok", "bad"}
  BY <1>4, <1>6
<1> QED
  BY <1>3, <1>5, <1>7, <1>8, Zenon DEF Dp!SourceKnows

\* Before Pack there is a source directory and nothing else.
LEMMA PackageStarts ==
  ASSUME Dp!DpInit
  PROVE  Dp!DpIInv
<1>1. Dp!SourceKnows
  BY SourceStarts
<1>2. s2 = Dp!NoArchive /\ s3 = <<>> /\ s4 = "no" /\ s5 = Dp!NotOpened
  BY DEF Dp!DpInit
<1>3. s2.entries = <<>> /\ s2.comment = <<>>
  BY <1>2 DEF Dp!NoArchive
<1>4. Dp!ArchiveKnows
  <2>1. PICK limit \in SizeLimits : limit \in Nat
    BY ServicesAssumption DEF Dp!DpAssumption
  <2>2. \E l \in SizeLimits : Len(s2.entries) <= l + Len(s3)
    BY <1>2, <1>3, <2>1
  <2>3. Len(s3) <= MaxSigns
    BY <1>2, ServicesAssumption DEF Dp!DpAssumption
  <2>4. s2.entries \in Seq(Dp!EntryShape) /\ s3 \in Seq(Dp!SignShape(Dp!Paths))
    BY <1>2, <1>3
  <2>5. s2 = [entries |-> s2.entries, comment |-> s2.comment]
    BY <1>2 DEF Dp!NoArchive
  <2> QED
    BY <1>2, <1>3, <2>2, <2>3, <2>4, <2>5 DEF Dp!ArchiveKnows
<1>5. Dp!PackedKnows
  BY <1>2 DEF Dp!PackedKnows, Dp!Pristine
<1>6. Dp!SignatureKnows
  BY <1>2 DEF Dp!SignatureKnows
<1>7. Dp!OpenedKnows
  BY <1>2 DEF Dp!OpenedKnows
<1> QED
  BY <1>1, <1>4, <1>5, <1>6, <1>7 DEF Dp!DpIInv

\* What Pack writes: every collected path once, with its content.
LEMMA CollectedIs ==
  ASSUME Dp!SourceKnows
  PROVE  LET es == Dp!Collected(s1)
             z == Dp!ReadFile(es)
         IN  /\ es \in Seq(Dp!EntryShape)
             /\ DOMAIN z = Dp!CollectedPaths(s1)
             /\ \A p \in DOMAIN z : z[p] = Dp!ContentOf(s1, p)
             /\ Dp!VerificationFile \in DOMAIN z => z[Dp!VerificationFile] \in Categories
<1> DEFINE es == Dp!Collected(s1)
           z == Dp!ReadFile(es)
           C == Dp!CollectedPaths(s1)
           n == Cardinality(C)
           o == Dp!Sorted(C)
<1>1. C \subseteq Dp!Paths
  BY PathSet DEF Dp!SourceKnows, Dp!CollectedPaths
<1>2. n \in Nat /\ o \in [1..n -> C] /\ {o[i] : i \in 1..n} = C
  BY <1>1, SortedEnumerates
<1>3. es = [i \in 1..n |-> [path |-> o[i], content |-> Dp!ContentOf(s1, o[i])]]
  <2>1. Dp!Cardinality(C) = n
    BY DpOperators, Zenon
  <2> HIDE DEF n
  <2> QED
    BY <2>1 DEF Dp!Collected
<1>4. ASSUME NEW p \in C PROVE Dp!ContentOf(s1, p) \in Dp!Contents
  <2>1. CASE p \in DOMAIN s1.files
    BY <2>1 DEF Dp!ContentOf, Dp!SourceKnows, Dp!Contents
  <2>2. CASE p \notin DOMAIN s1.files
    BY <2>2 DEF Dp!ContentOf, Dp!Contents
  <2> QED
    BY <2>1, <2>2
<1>5. Dp!VerificationFile \in C => Dp!ContentOf(s1, Dp!VerificationFile) \in Categories
  <2>1. ASSUME Dp!VerificationFile \in C PROVE Dp!VerificationFile \in DOMAIN s1.files
    BY <2>1 DEF Dp!CollectedPaths, Dp!VerificationFile, Dp!RequirementsFile
  <2> QED
    BY <2>1 DEF Dp!ContentOf, Dp!SourceKnows
<1> HIDE DEF o, n, C
<1>6. ASSUME NEW i \in 1..n
      PROVE  es[i] \in Dp!EntryShape /\ es[i].path = o[i] /\ es[i].content = Dp!ContentOf(s1, o[i])
  BY <1>1, <1>2, <1>3, <1>4 DEF Dp!EntryShape
<1>7. es \in [1..n -> Dp!EntryShape]
  BY <1>3, <1>6
<1> HIDE DEF es
<1>8. es \in Seq(Dp!EntryShape) /\ Len(es) = n
  BY <1>2, <1>7
<1>9. DOMAIN z = {es[i].path : i \in 1..Len(es)}
  BY <1>8, ReadIs, Zenon
<1>10. ASSUME NEW p \in DOMAIN z
       PROVE  \E k \in 1..Len(es) : /\ es[k].path = p /\ es[k].content = z[p]
                                    /\ \A j \in 1..(k - 1) : es[j].path # p
  BY <1>8, ReadIs
<1> HIDE DEF z
<1>11. DOMAIN z = C
  BY <1>2, <1>6, <1>8, <1>9
<1>12. ASSUME NEW p \in DOMAIN z PROVE z[p] = Dp!ContentOf(s1, p)
  BY <1>6, <1>8, <1>10
<1> QED
  BY <1>5, <1>8, <1>11, <1>12 DEF es, z, C

\* A package that was not made yet was neither signed nor opened.
LEMMA Unmade ==
  ASSUME Dp!DpIInv, s2 = Dp!NoArchive
  PROVE  s3 = <<>> /\ s4 = "no" /\ s5 = Dp!NotOpened
<1>1. s2.comment = <<>>
  BY DEF Dp!NoArchive
<1>2. s3 = <<>>
  BY <1>1 DEF Dp!DpIInv, Dp!SignatureKnows
<1> QED
  BY <1>2 DEF Dp!DpIInv, Dp!ArchiveKnows, Dp!OpenedKnows

\* Pack keeps the invariant: the archive holds what the walk collected.
LEMMA PackKeeps ==
  ASSUME Dp!DpIInv, NEW limit \in SizeLimits, Dp!Pack(limit)
  PROVE  Dp!DpIInv'
<1> DEFINE es == Dp!Collected(s1)
<1>1. /\ s2' = [entries |-> es, comment |-> <<>>]
      /\ s1' = s1 /\ s3' = s3 /\ s4' = s4 /\ s5' = s5
      /\ s2 = Dp!NoArchive /\ Dp!PackValid(s1) /\ Len(es) <= limit
  BY DEF Dp!Pack
<1>2. s3 = <<>> /\ s4 = "no" /\ s5 = Dp!NotOpened
  BY <1>1, Unmade
<1>3. Dp!SourceKnows
  BY DEF Dp!DpIInv
<1>4. /\ es \in Seq(Dp!EntryShape)
      /\ DOMAIN Dp!ReadFile(es) = Dp!CollectedPaths(s1)
      /\ \A p \in DOMAIN Dp!ReadFile(es) : Dp!ReadFile(es)[p] = Dp!ContentOf(s1, p)
      /\ Dp!VerificationFile \in DOMAIN Dp!ReadFile(es) => Dp!ReadFile(es)[Dp!VerificationFile] \in Categories
  BY <1>3, CollectedIs, Zenon
<1> HIDE DEF es
<1>5. s2'.entries = es /\ s2'.comment = <<>>
  BY <1>1
<1>6. Dp!SourceKnows'
  BY <1>1, <1>3 DEF Dp!SourceKnows
<1>7. Dp!ArchiveKnows'
  <2>1. limit \in Nat /\ Len(s3) = 0 /\ Len(es) \in Nat
    BY <1>2, <1>4, ServicesAssumption DEF Dp!DpAssumption
  <2>2. \E l \in SizeLimits : Len(es) <= l + Len(s3)
    BY <1>1, <2>1
  <2> QED
    BY <1>1, <1>2, <1>4, <1>5, <2>2 DEF Dp!ArchiveKnows, Dp!DpIInv
<1>8. Dp!PackedKnows'
  BY <1>1, <1>4, <1>5, Zenon DEF Dp!PackedKnows
<1>9. Dp!SignatureKnows' /\ Dp!OpenedKnows'
  BY <1>1, <1>2 DEF Dp!SignatureKnows, Dp!OpenedKnows
<1> QED
  BY <1>6, <1>7, <1>8, <1>9 DEF Dp!DpIInv

------------------------------------------------------------------------------
(* Difypkg: Sign and Edit *)

\* What is known of the signatures as a sequence.
LEMMA SignsAre ==
  ASSUME Dp!ArchiveKnows
  PROVE  /\ s3 \in Seq(Dp!SignShape(Dp!Paths)) /\ Len(s3) \in Nat
         /\ DOMAIN s3 = 1..Len(s3)
         /\ s3 # <<>> => Len(s3) \in 1..Len(s3)
BY DEF Dp!ArchiveKnows

\* The entries of a package that is signed.
Extends(t, es, c) ==
  /\ t \in Seq(Dp!EntryShape) /\ Len(t) = IF c = "none" THEN Len(es) ELSE Len(es) + 1
  /\ \A i \in 1..Len(es) : t[i].path = es[i].path
  /\ c # "none" => t[Len(es) + 1].path = Dp!VerificationFile
\* Signing makes such entries and such a signature.
LEMMA SigningIs ==
  ASSUME NEW es \in Seq(Dp!EntryShape), NEW c \in Categories \cup {"none"}, NEW v, NEW time,
         Shows(v, es)
  PROVE  Extends(Dp!SignedEntries(v, c), es, c) /\ SignsOver(Dp!SigningData(v, c, time), es, c, time)
<1> DEFINE n == Len(es)
           t == Dp!SignedEntries(v, c)
           d == Dp!SigningData(v, c, time)
<1>1. Extends(t, es, c)
  <2>1. /\ t \in Seq(Dp!EntryShape) /\ Len(t) = IF c = "none" THEN n ELSE n + 1
        /\ \A i \in 1..n : t[i].path = es[i].path /\ t[i].content = Dp!ReadFile(es)[es[i].path]
        /\ c # "none" => t[n + 1].path = Dp!VerificationFile /\ t[n + 1].content = c
    BY SignedEntriesAre
  <2> HIDE DEF t
  <2> QED
    BY <2>1, Zenon DEF Extends
<1>2. SignsOver(d, es, c, time)
  BY SigningDataIs, Zenon
<1> QED
  BY <1>1, <1>2

\* The new signature covers the package it leaves.
LEMMA SignCovers ==
  ASSUME NEW es \in Seq(Dp!EntryShape), NEW c \in Categories \cup {"none"}, NEW v, NEW time, NEW s, NEW sig,
         Shows(v, es), s.category = c, s.reads = v.read,
         sig.time = time, sig.data = Dp!SigningData(v, c, time)
  PROVE  Dp!SignatureCovers(s, sig, Dp!SignedEntries(v, c))
<1> DEFINE t == Dp!SignedEntries(v, c)
           d == Dp!SigningData(v, c, time)
           l == Len(es)
           z == Dp!ReadFile(es)
           n == Len(t) - (IF c = "none" THEN 0 ELSE 1)
<1>1. /\ t \in Seq(Dp!EntryShape) /\ Len(t) = IF c = "none" THEN l ELSE l + 1
      /\ \A i \in 1..l : t[i].path = es[i].path
      /\ c # "none" => t[l + 1].path = Dp!VerificationFile
  <2>1. Extends(t, es, c)
    BY SigningIs, Zenon
  <2> QED
    BY <2>1, Zenon DEF Extends
<1>2. /\ d \in Seq(Dp!Contents \cup {time})
      /\ Len(d) = IF c = "none" THEN l + 1 ELSE l + 2
      /\ \A i \in 1..l : d[i] = z[es[i].path]
      /\ c # "none" => d[l + 1] = c
      /\ d[Len(d)] = time
  <2>1. SignsOver(d, es, c, time)
    BY SigningIs, Zenon
  <2> QED
    BY <2>1, Zenon DEF SignsOver
<1>3. DOMAIN z = {es[i].path : i \in 1..l}
  BY ReadIs, Zenon
<1>4. l \in Nat /\ s.reads = z
  BY DEF Shows
<1> HIDE DEF t, d, l, z
<1>5. n = l /\ n \in Nat /\ Len(d) = Len(t) + 1
  BY <1>1, <1>2, <1>4
<1>6. DOMAIN s.reads = {t[i].path : i \in 1..n}
  <2>1. {t[i].path : i \in 1..l} = {es[i].path : i \in 1..l}
    BY <1>1
  <2> QED
    BY <1>3, <1>4, <1>5, <2>1
<1>7. \A i \in 1..n : d[i] = s.reads[t[i].path]
  BY <1>1, <1>2, <1>4, <1>5
<1>8. d[Len(t) + 1] = time
  BY <1>2, <1>5
<1>9. c # "none" => t[n + 1].path = Dp!VerificationFile /\ d[n + 1] = c
  BY <1>1, <1>2, <1>5
<1> HIDE DEF n
<1>10. d = sig.data
  BY DEF d
<1> QED
  BY <1>2, <1>5, <1>6, <1>7, <1>8, <1>9, <1>10 DEF Dp!SignatureCovers, Dp!None_, n, t

\* The data d are the contents of the entries t, in their order, and the time.
OverContents(d, t, time) ==
  LET x == [i \in DOMAIN t |-> t[i].content] IN x \in Seq(Dp!Contents) /\ d = Append(x, time)

\* The signature is over the contents of the entries that are written, in their order.
LEMMA SignedContents ==
  ASSUME NEW es \in Seq(Dp!EntryShape), NEW c \in Categories \cup {"none"}, NEW v, NEW time,
         Shows(v, es)
  PROVE  OverContents(Dp!SigningData(v, c, time), Dp!SignedEntries(v, c), time)
<1> DEFINE t == Dp!SignedEntries(v, c)
           d == Dp!SigningData(v, c, time)
           x == [i \in DOMAIN t |-> t[i].content]
           a == Append(x, time)
           n == Len(es)
           l == Len(t)
           z == Dp!ReadFile(es)
           S == Dp!Contents \cup {time}
<1>1. /\ t \in Seq(Dp!EntryShape) /\ l = IF c = "none" THEN n ELSE n + 1
      /\ \A i \in 1..n : t[i].content = z[es[i].path]
      /\ c # "none" => t[n + 1].content = c
  <2>1. /\ t \in Seq(Dp!EntryShape) /\ Len(t) = IF c = "none" THEN n ELSE n + 1
        /\ \A i \in 1..n : t[i].path = es[i].path /\ t[i].content = z[es[i].path]
        /\ c # "none" => t[n + 1].path = Dp!VerificationFile /\ t[n + 1].content = c
    BY SignedEntriesAre
  <2> HIDE DEF t, n, z
  <2> QED
    BY <2>1, Zenon
<1>2. /\ d \in Seq(S) /\ Len(d) = IF c = "none" THEN n + 1 ELSE n + 2
      /\ \A i \in 1..n : d[i] = z[es[i].path]
      /\ c # "none" => d[n + 1] = c
      /\ d[Len(d)] = time
  <2>1. SignsOver(d, es, c, time)
    BY SigningDataIs, Zenon
  <2> QED
    BY <2>1, Zenon DEF SignsOver
<1>3. n \in Nat
  OBVIOUS
<1> HIDE DEF t, d, n, z
<1>4. l \in Nat /\ DOMAIN t = 1..l
  BY <1>1
<1>5. ASSUME NEW i \in 1..l PROVE x[i] = t[i].content /\ x[i] \in Dp!Contents
  <2>1. t[i] \in Dp!EntryShape
    BY <1>1, <1>4
  <2> QED
    BY <1>4, <2>1 DEF Dp!EntryShape
<1>6. x \in Seq(Dp!Contents) /\ Len(x) = l
  <2>1. x \in [1..l -> Dp!Contents]
    BY <1>4, <1>5
  <2> HIDE DEF x, l
  <2> QED
    BY <1>4, <2>1
<1> HIDE DEF x
<1>7. a \in Seq(S) /\ Len(a) = l + 1 /\ (\A i \in 1..l : a[i] = x[i]) /\ a[l + 1] = time
  <2>1. x \in Seq(S) /\ time \in S
    BY <1>6
  <2> HIDE DEF S, l
  <2> QED
    BY <1>4, <1>6, <2>1
<1> HIDE DEF a, S
<1>8. Len(d) = l + 1
  BY <1>1, <1>2, <1>3
<1>9. ASSUME NEW i \in 1..l + 1 PROVE d[i] = a[i]
  <2>1. CASE i = l + 1
    BY <1>2, <1>7, <1>8, <2>1
  <2>2. CASE i \in 1..n
    <3>1. i \in 1..l
      BY <1>1, <1>3, <2>2
    <3> QED
      BY <1>1, <1>2, <1>5, <1>7, <2>2, <3>1
  <2>3. CASE i \notin 1..n /\ i # l + 1
    <3>1. c # "none" /\ i = n + 1 /\ i \in 1..l
      BY <1>1, <1>3, <2>3
    <3> QED
      BY <1>1, <1>2, <1>5, <1>7, <3>1
  <2> QED
    BY <2>1, <2>2, <2>3
<1> HIDE DEF l
<1>10. d = [i \in 1..l + 1 |-> d[i]] /\ a = [i \in 1..l + 1 |-> a[i]]
  BY <1>2, <1>7, <1>8
<1>11. d = a
  BY <1>9, <1>10
<1> QED
  BY <1>6, <1>11, Zenon DEF OverContents, a, x, t, d

\* What a decoder reads, file after file as it walks, are contents.
LEMMA WalkReads ==
  ASSUME NEW es \in Seq(Dp!EntryShape), NEW v, Shows(v, es)
  PROVE  [i \in DOMAIN v.walk |-> v.read[v.walk[i]]] \in Seq(Dp!Contents)
<1> DEFINE z == Dp!ReadFile(es)
<1>1. DOMAIN z = {es[k].path : k \in 1..Len(es)} /\ \A p \in DOMAIN z : z[p] \in Dp!Contents
  BY ReadIs
<1>2. Len(es) \in Nat /\ DOMAIN v.walk = 1..Len(es) /\ v.read = z /\ \A i \in 1..Len(es) : v.walk[i] = es[i].path
  BY DEF Shows
<1> HIDE DEF z
<1>3. ASSUME NEW i \in 1..Len(es) PROVE v.read[v.walk[i]] \in Dp!Contents
  BY <1>1, <1>2
<1> QED
  BY <1>2, <1>3

\* A package that is signed has an entry.
LEMMA LoadedHasEntries ==
  ASSUME NEW es \in Seq(Dp!EntryShape), NEW v, Shows(v, es), Dp!ManifestLoads(v)
  PROVE  es # <<>>
<1>1. Dp!Manifest_ \in DOMAIN Dp!ReadFile(es)
  BY DEF Dp!ManifestLoads, Dp!Loads, Shows
<1>2. DOMAIN Dp!ReadFile(es) = {es[i].path : i \in 1..Len(es)}
  BY ReadIs, Zenon
<1> QED
  BY <1>1, <1>2

\* Sign keeps the invariant: the new signature covers the entries it was written beside.
LEMMA SignKeeps ==
  ASSUME Dp!DpIInv, NEW key \in OtherKeys \cup {Official}, NEW c \in Categories \cup {Dp!None_},
         Dp!Sign(key, c)
  PROVE  Dp!DpIInv'
<1> DEFINE v == Dp!ZipView(s2, s1)
           es == s2.entries
           time == Len(s3) + 1
           t == Dp!SignedEntries(v, c)
           y == Dp!ReadFile(t)
           z == Dp!ReadFile(es)
           sig == [key |-> key, time |-> time, data |-> Dp!SigningData(v, c, time)]
           s == [key |-> key, category |-> c, before |-> Dp!DecodedVerification(v), reads |-> v.read,
                 contents |-> [i \in DOMAIN t |-> t[i].content]]
<1>1. /\ s2 # Dp!NoArchive /\ s5 = Dp!NotOpened /\ Len(s3) < MaxSigns /\ Dp!ManifestLoads(v)
      /\ s2' = [entries |-> t, comment |-> <<sig>>]
      /\ s3' = Append(s3, s) /\ s1' = s1 /\ s4' = s4 /\ s5' = s5
  BY Zenon DEF Dp!Sign
<1>2. Dp!SourceKnows /\ Dp!ArchiveKnows /\ Dp!PackedKnows
  BY DEF Dp!DpIInv
<1>3. es \in Seq(Dp!EntryShape) /\ Shows(v, es) /\ c \in Categories \cup {"none"}
  BY <1>2, ViewIs DEF Dp!ArchiveKnows, Dp!None_
<1>4. v.read = z
  BY ViewIs, Zenon
<1>0. OverContents(Dp!SigningData(v, c, time), t, time)
  <2> HIDE DEF v, es, time
  <2> QED
    BY <1>3, SignedContents, Zenon
<1>5. Dp!SignatureCovers(s, sig, t)
  <2>1. s.category = c /\ s.reads = v.read /\ sig.time = time /\ sig.data = Dp!SigningData(v, c, time)
    OBVIOUS
  <2> HIDE DEF s, sig, v, time
  <2> QED
    BY <1>3, <2>1, SignCovers, Zenon
<1>6. /\ DOMAIN y = DOMAIN z \cup (IF c = "none" THEN {} ELSE {Dp!VerificationFile})
      /\ \A p \in DOMAIN z : y[p] = z[p]
      /\ c # "none" /\ Dp!VerificationFile \notin DOMAIN z => y[Dp!VerificationFile] = c
  <2> HIDE DEF v, es
  <2> QED
    BY <1>3, SignedPackageReads, Zenon
<1>7. t \in Seq(Dp!EntryShape) /\ Len(t) = IF c = "none" THEN Len(es) ELSE Len(es) + 1
  <2> HIDE DEF v, es
  <2>1. t \in Seq(Dp!EntryShape)
    BY <1>3, SignedEntriesAre, SMTT(30)
  <2>2. Len(t) = IF c = "none" THEN Len(es) ELSE Len(es) + 1
    BY <1>3, SignedEntriesAre, SMTT(30)
  <2> QED
    BY <2>1, <2>2, Zenon
<1>8. Dp!SignedReads(s, t)
  <2>1. s.reads = z /\ s.category = c /\ s.before = Dp!DecodedVerification(v)
    BY <1>4
  <2> HIDE DEF s, z, t, v
  <2> QED
    BY <1>4, <1>6, <2>1, Zenon DEF Dp!SignedReads, Dp!DecodedVerification, Dp!None_, y
<1>9. es # <<>>
  BY <1>1, <1>3, LoadedHasEntries, Zenon
<1>10. s \in Dp!SignShape(Dp!Paths)
  <2>1. DOMAIN z \in SUBSET Dp!Paths /\ \A p \in DOMAIN z : z[p] \in Dp!Contents
    BY <1>3, ReadIs
  <2>2. z = [p \in DOMAIN z |-> z[p]]
    BY DEF Dp!ReadFile
  <2>3. z \in UNION {[S -> Dp!Contents] : S \in SUBSET Dp!Paths}
    <3>1. z \in [DOMAIN z -> Dp!Contents]
      BY <2>1, <2>2
    <3> HIDE DEF z
    <3> QED
      BY <2>1, <3>1
  <2>4. Dp!DecodedVerification(v) \in Dp!Contents \cup {Dp!None_}
    <3> HIDE DEF z, v
    <3> QED
      BY <1>4, <2>1 DEF Dp!DecodedVerification
  <2>5. s.contents \in Seq(Dp!Contents)
    <3>1. s.contents = [i \in DOMAIN t |-> t[i].content]
      OBVIOUS
    <3> HIDE DEF v, s, t
    <3> QED
      BY <1>0, <3>1, Zenon DEF OverContents
  <2> HIDE DEF z, v, t
  <2> QED
    BY <1>4, <2>3, <2>4, <2>5 DEF Dp!SignShape
<1>11. /\ s3' \in Seq(Dp!SignShape(Dp!Paths)) /\ Len(s3') = Len(s3) + 1 /\ Len(s3) \in Nat
       /\ s3'[Len(s3')] = s /\ s3' # <<>>
       /\ \A i \in DOMAIN s3 : i \in DOMAIN s3' /\ s3'[i] = s3[i]
       /\ Len(s3') \in DOMAIN s3'
  <2>1. s3 \in Seq(Dp!SignShape(Dp!Paths))
    BY <1>2, SignsAre
  <2> HIDE DEF s
  <2> QED
    BY <1>1, <1>10, <2>1
<1>12. /\ s2'.entries = t /\ s2'.comment = <<sig>> /\ s.category = c /\ s.key = key /\ sig.key = key
       /\ sig.time = time /\ sig.data = Dp!SigningData(v, c, time)
       /\ s.contents = [i \in DOMAIN t |-> t[i].content]
  BY <1>1
<1> HIDE DEF s, sig, v, t, time
<1>13. Dp!SourceKnows'
  BY <1>1, <1>2 DEF Dp!SourceKnows
<1>14. Dp!ArchiveKnows'
  <2>1. PICK limit \in SizeLimits : Len(es) <= limit + Len(s3)
    BY <1>2 DEF Dp!ArchiveKnows
  <2>2. limit \in Nat /\ MaxSigns \in Nat
    BY ServicesAssumption DEF Dp!DpAssumption
  <2>3. Len(es) \in Nat
    BY <1>3
  <2>4. Len(t) <= limit + Len(s3')
    BY <1>7, <1>11, <2>1, <2>2, <2>3
  <2>5. Len(s3') <= MaxSigns
    BY <1>1, <1>11, <2>2
  <2>6. s4 \in {"no", "changed", "renamed"}
    BY <1>2 DEF Dp!ArchiveKnows
  <2> QED
    BY <1>1, <1>7, <1>11, <1>12, <2>4, <2>5, <2>6 DEF Dp!ArchiveKnows
<1>15. Dp!PackedKnows'
  <2> SUFFICES ASSUME s4 = "no" PROVE Dp!PackedKnows'
    BY <1>1, <1>2 DEF Dp!PackedKnows, Dp!Pristine, Dp!ArchiveKnows
  <2>1. Dp!Pristine
    BY <1>1 DEF Dp!Pristine
  <2>2. /\ Dp!PackValid(s1)
        /\ DOMAIN z \ {Dp!VerificationFile} = Dp!CollectedPaths(s1) \ {Dp!VerificationFile}
        /\ \A p \in DOMAIN z \ {Dp!VerificationFile} : z[p] = Dp!ContentOf(s1, p)
        /\ Dp!VerificationFile \in DOMAIN z => z[Dp!VerificationFile] \in Categories
        /\ (\A i \in DOMAIN s3 : s3[i].category = Dp!None_) =>
             DOMAIN z = Dp!CollectedPaths(s1) /\ \A p \in DOMAIN z : z[p] = Dp!ContentOf(s1, p)
    BY <1>2, <2>1, Zenon DEF Dp!PackedKnows
  <2> HIDE DEF y, z
  <2>3. /\ DOMAIN y \ {Dp!VerificationFile} = Dp!CollectedPaths(s1) \ {Dp!VerificationFile}
        /\ \A p \in DOMAIN y \ {Dp!VerificationFile} : y[p] = Dp!ContentOf(s1, p)
    BY <1>6, <2>2
  <2>4. Dp!VerificationFile \in DOMAIN y => y[Dp!VerificationFile] \in Categories
    BY <1>3, <1>6, <2>2
  <2>5. ASSUME \A i \in DOMAIN s3' : s3'[i].category = Dp!None_
        PROVE  DOMAIN y = Dp!CollectedPaths(s1) /\ \A p \in DOMAIN y : y[p] = Dp!ContentOf(s1, p)
    <3>1. c = Dp!None_
      BY <1>11, <1>12, <2>5
    <3>2. \A i \in DOMAIN s3 : s3[i].category = Dp!None_
      BY <1>11, <2>5
    <3> QED
      BY <1>6, <2>2, <3>1, <3>2 DEF Dp!None_
  <2>6. Dp!ReadFile(s2'.entries) = y
    BY <1>12 DEF y
  <2> QED
    BY <1>1, <2>2, <2>3, <2>4, <2>5, <2>6, Zenon DEF Dp!PackedKnows
<1>16. Dp!SignatureKnows'
  <2>1. t # <<>>
    BY <1>3, <1>7, <1>9
  <2>2. Len(<<sig>>) = 1 /\ <<sig>>[1] = sig
    OBVIOUS
  <2>3. s2'.comment[1] = sig /\ Len(s2'.comment) = 1 /\ Dp!LastSign' = s
    BY <1>11, <1>12, <2>2 DEF Dp!LastSign
  <2>4. sig.data = Append(s.contents, sig.time)
    BY <1>0, <1>12, Zenon DEF OverContents
  <2> QED
    BY <1>5, <1>8, <1>12, <2>1, <2>3, <2>4 DEF Dp!SignatureKnows
<1>17. Dp!OpenedKnows'
  BY <1>1 DEF Dp!OpenedKnows
<1> QED
  BY <1>13, <1>14, <1>15, <1>16, <1>17 DEF Dp!DpIInv

\* A signature covers paths, not contents.
LEMMA EditCovers ==
  ASSUME NEW es, NEW fs, NEW s, NEW sig, Dp!SignatureCovers(s, sig, es), Len(fs) = Len(es),
         Len(es) \in Nat, \A i \in 1..Len(es) : fs[i].path = es[i].path
  PROVE  Dp!SignatureCovers(s, sig, fs)
<1> DEFINE n == Len(es) - (IF s.category = Dp!None_ THEN 0 ELSE 1)
<1>1. /\ sig.data \in Seq(Dp!Contents \cup {sig.time})
      /\ n \in Nat /\ Len(sig.data) = Len(es) + 1 /\ sig.data[Len(es) + 1] = sig.time
      /\ DOMAIN s.reads = {es[i].path : i \in 1..n}
      /\ \A i \in 1..n : sig.data[i] = s.reads[es[i].path]
      /\ s.category # Dp!None_ => es[n + 1].path = Dp!VerificationFile /\ sig.data[n + 1] = s.category
  BY Zenon DEF Dp!SignatureCovers
<1>2. \A i \in 1..n : i \in 1..Len(es)
  BY <1>1
<1>3. s.category # Dp!None_ => n + 1 \in 1..Len(es)
  BY <1>1
<1>4. n = Len(fs) - (IF s.category = Dp!None_ THEN 0 ELSE 1)
  OBVIOUS
<1> HIDE DEF n
<1>5. DOMAIN s.reads = {fs[i].path : i \in 1..n}
  BY <1>1, <1>2
<1>6. \A i \in 1..n : sig.data[i] = s.reads[fs[i].path]
  BY <1>1, <1>2
<1>7. s.category # Dp!None_ => fs[n + 1].path = Dp!VerificationFile
  BY <1>1, <1>3
<1> QED
  BY <1>1, <1>4, <1>5, <1>6, <1>7, Zenon DEF Dp!SignatureCovers

\* Editing the archive keeps the invariant: the signature no longer covers the entries.
LEMMA EditKeeps ==
  ASSUME Dp!DpIInv, Dp!Edit
  PROVE  Dp!DpIInv'
<1> DEFINE es == s2.entries
           fs == s2'.entries
<1>1. /\ s3 # <<>> /\ s5 = Dp!NotOpened /\ s4 = "no"
      /\ s1' = s1 /\ s3' = s3 /\ s5' = s5
      /\ \/ s4' = "changed" /\ \E i \in DOMAIN es : s2' = [s2 EXCEPT !.entries[i].content = "edited"]
         \/ s4' = "changed" /\ s2' = [s2 EXCEPT !.entries = Dp!Front(@)]
         \/ s4' = "renamed" /\ \E i \in DOMAIN es, p \in NewNames : s2' = [s2 EXCEPT !.entries[i].path = p]
  BY Zenon DEF Dp!Edit
<1>0. s4' \in {"changed", "renamed"}
  BY <1>1, Zenon
<1>2. Dp!SourceKnows /\ Dp!ArchiveKnows /\ Dp!SignatureKnows
  BY DEF Dp!DpIInv
<1>3. es \in Seq(Dp!EntryShape) /\ es # <<>> /\ Len(es) \in Nat \ {0} /\ DOMAIN es = 1..Len(es)
  BY <1>1, <1>2 DEF Dp!ArchiveKnows, Dp!SignatureKnows
<1>4. /\ Dp!SignatureCovers(Dp!LastSign, s2.comment[1], es)
      /\ Len(s2.comment) = 1 /\ s2.comment[1].key = Dp!LastSign.key
      /\ s2.comment[1].data = Append(Dp!LastSign.contents, s2.comment[1].time)
  BY <1>1, <1>2 DEF Dp!SignatureKnows
<1>5. \/ fs \in Seq(Dp!EntryShape) /\ Len(fs) = Len(es) /\ \A i \in 1..Len(es) : fs[i].path = es[i].path
      \/ s4' = "changed" /\ fs \in Seq(Dp!EntryShape) /\ Len(fs) = Len(es) - 1
      \/ s4' = "renamed" /\ fs \in Seq(Dp!EntryShape) /\ Len(fs) = Len(es)
  <2>1. ASSUME NEW i \in DOMAIN es, s2' = [s2 EXCEPT !.entries[i].content = "edited"]
        PROVE  /\ fs \in Seq(Dp!EntryShape) /\ Len(fs) = Len(es)
               /\ \A k \in 1..Len(es) : fs[k].path = es[k].path
    <3>0. s2 = [entries |-> s2.entries, comment |-> s2.comment]
      BY <1>2, Zenon DEF Dp!ArchiveKnows
    <3>1. fs = [es EXCEPT ![i] = [es[i] EXCEPT !.content = "edited"]]
      BY <2>1, <3>0
    <3>2. es[i] \in Dp!EntryShape
      BY <1>3
    <3>3. [es[i] EXCEPT !.content = "edited"] \in Dp!EntryShape
          /\ [es[i] EXCEPT !.content = "edited"].path = es[i].path
      BY <3>2 DEF Dp!EntryShape, Dp!Contents
    <3> HIDE DEF fs, es
    <3> QED
      BY <1>3, <3>1, <3>3
  <2>2. ASSUME s2' = [s2 EXCEPT !.entries = Dp!Front(@)]
        PROVE  fs \in Seq(Dp!EntryShape) /\ Len(fs) = Len(es) - 1
    <3>0. s2 = [entries |-> s2.entries, comment |-> s2.comment]
      BY <1>2, Zenon DEF Dp!ArchiveKnows
    <3>1. fs = SubSeq(es, 1, Len(es) - 1)
      BY <2>2, <3>0, DpOperators
    <3> HIDE DEF fs, es
    <3> QED
      BY <1>3, <3>1
  <2>3. ASSUME NEW i \in DOMAIN es, NEW p \in NewNames, s2' = [s2 EXCEPT !.entries[i].path = p]
        PROVE  fs \in Seq(Dp!EntryShape) /\ Len(fs) = Len(es)
    <3>0. s2 = [entries |-> s2.entries, comment |-> s2.comment]
      BY <1>2, Zenon DEF Dp!ArchiveKnows
    <3>1. fs = [es EXCEPT ![i] = [es[i] EXCEPT !.path = p]]
      BY <2>3, <3>0
    <3>2. es[i] \in Dp!EntryShape
      BY <1>3
    <3>3. p \in Dp!Paths
      BY ServicesAssumption DEF Dp!DpAssumption
    <3>4. [es[i] EXCEPT !.path = p] \in Dp!EntryShape
      BY <3>2, <3>3 DEF Dp!EntryShape
    <3> HIDE DEF fs, es
    <3> QED
      BY <1>3, <3>1, <3>4
  <2> HIDE DEF fs
  <2> QED
    BY <1>1, <2>1, <2>2, <2>3, Zenon
<1>6. s2'.comment = s2.comment /\ s2' = [entries |-> s2'.entries, comment |-> s2'.comment]
  <2>1. s2 = [entries |-> s2.entries, comment |-> s2.comment]
    BY <1>2, Zenon DEF Dp!ArchiveKnows
  <2>2. ASSUME NEW i \in DOMAIN es, s2' = [s2 EXCEPT !.entries[i].content = "edited"]
        PROVE  s2'.comment = s2.comment /\ s2' = [entries |-> s2'.entries, comment |-> s2'.comment]
    BY <2>1, <2>2
  <2>3. ASSUME s2' = [s2 EXCEPT !.entries = Dp!Front(@)]
        PROVE  s2'.comment = s2.comment /\ s2' = [entries |-> s2'.entries, comment |-> s2'.comment]
    BY <2>1, <2>3
  <2>4. ASSUME NEW i \in DOMAIN es, NEW p \in NewNames, s2' = [s2 EXCEPT !.entries[i].path = p]
        PROVE  s2'.comment = s2.comment /\ s2' = [entries |-> s2'.entries, comment |-> s2'.comment]
    BY <2>1, <2>4
  <2> QED
    BY <1>1, <2>2, <2>3, <2>4, Zenon
<1> HIDE DEF es, fs
<1>7. Dp!SourceKnows'
  BY <1>1, <1>2 DEF Dp!SourceKnows
<1>8. Dp!ArchiveKnows'
  <2>1. PICK limit \in SizeLimits : Len(es) <= limit + Len(s3)
    BY <1>2 DEF Dp!ArchiveKnows, es
  <2>2. limit \in Nat /\ Len(s3) \in Nat
    BY <1>2, SignsAre, ServicesAssumption DEF Dp!DpAssumption
  <2>3. Len(fs) <= limit + Len(s3) /\ fs \in Seq(Dp!EntryShape)
    <3>1. fs \in Seq(Dp!EntryShape) /\ Len(fs) \in {Len(es), Len(es) - 1}
      BY <1>5, Zenon
    <3>2. Len(es) \in Nat
      BY <1>3
    <3> QED
      BY <2>1, <2>2, <3>1, <3>2
  <2>4. s3 \in Seq(Dp!SignShape(Dp!Paths)) /\ Len(s3) <= MaxSigns
    BY <1>2 DEF Dp!ArchiveKnows
  <2>5. \E l \in SizeLimits : Len(s2'.entries) <= l + Len(s3')
    BY <1>1, <2>3 DEF fs
  <2>6. s2'.entries \in Seq(Dp!EntryShape)
    BY <2>3 DEF fs
  <2>7. s3' = s3 /\ s3 # <<>> /\ s4' \in {"no", "changed", "renamed"}
    BY <1>0, <1>1
  <2> QED
    BY <1>6, <2>4, <2>5, <2>6, <2>7 DEF Dp!ArchiveKnows
<1>9. Dp!PackedKnows'
  BY <1>0 DEF Dp!PackedKnows, Dp!Pristine
<1>10. Dp!SignatureKnows'
  <2>1. Dp!LastSign' = Dp!LastSign
    BY <1>1 DEF Dp!LastSign
  <2>2. CASE Len(fs) = Len(es) /\ \A i \in 1..Len(es) : fs[i].path = es[i].path
    <3>1. Dp!SignatureCovers(Dp!LastSign, s2.comment[1], fs)
      BY <1>3, <1>4, <2>2, EditCovers
    <3> QED
      BY <1>0, <1>1, <1>4, <1>6, <2>1, <3>1 DEF Dp!SignatureKnows, fs
  <2>3. CASE s4' = "changed" /\ Len(fs) = Len(es) - 1
    <3>1. Len(s2.comment[1].data) = Len(es) + 1
      BY <1>4 DEF Dp!SignatureCovers
    <3>2. Len(fs) + 1 < Len(s2.comment[1].data)
      BY <1>3, <2>3, <3>1
    <3> QED
      BY <1>0, <1>1, <1>4, <1>6, <2>1, <2>3, <3>2 DEF Dp!SignatureKnows, fs
  <2>4. CASE s4' = "renamed"
    BY <1>1, <1>4, <1>6, <2>1, <2>4 DEF Dp!SignatureKnows
  <2> QED
    BY <1>5, <2>2, <2>3, <2>4
<1>11. Dp!OpenedKnows'
  BY <1>1 DEF Dp!OpenedKnows
<1> QED
  BY <1>7, <1>8, <1>9, <1>10, <1>11 DEF Dp!DpIInv

------------------------------------------------------------------------------
(* Difypkg: Open_, and what the invariant says of what was opened *)

\* Opening keeps the invariant: what was opened is what the archive shows.
LEMMA OpenKeeps ==
  ASSUME Dp!DpIInv, NEW config \in Dp!Configs, Dp!Open_(config)
  PROVE  Dp!DpIInv'
<1> DEFINE v == Dp!ZipView(s2, s1)
           verified == Dp!VerifiedBy(v, config)
           error == [state |-> "error", config |-> config]
           open == [state |-> "open", config |-> config, verified |-> verified,
                    verification |-> IF verified THEN Dp!DecodedVerification(v) ELSE Dp!None_]
<1>1. /\ s2 # Dp!NoArchive /\ s5 = Dp!NotOpened
      /\ s1' = s1 /\ s2' = s2 /\ s3' = s3 /\ s4' = s4
      /\ s5' = IF ~Dp!ManifestLoads(v) THEN error ELSE open
  BY Zenon DEF Dp!Open_
<1>2. Dp!SourceKnows /\ Dp!ArchiveKnows /\ Dp!PackedKnows /\ Dp!SignatureKnows
  BY DEF Dp!DpIInv
<1>3. Dp!SourceKnows'
  BY <1>1, <1>2 DEF Dp!SourceKnows
<1>4. Dp!ArchiveKnows'
  BY <1>1, <1>2, Zenon DEF Dp!ArchiveKnows
<1>5. Dp!PackedKnows'
  BY <1>1, <1>2, Zenon DEF Dp!PackedKnows, Dp!Pristine
<1>6. Dp!SignatureKnows'
  BY <1>1, <1>2, Zenon DEF Dp!SignatureKnows, Dp!LastSign
<1>7. error.state = "error"
  OBVIOUS
<1>8. /\ open.state = "open" /\ open.config = config /\ open.verified = verified
      /\ open.verification = IF verified THEN Dp!DecodedVerification(v) ELSE Dp!None_
  BY Zenon
<1> HIDE DEF error, open, verified
<1>9. v' = v
  BY <1>1
<1>10. CASE ~Dp!ManifestLoads(v)
  <2>1. s5' = error
    BY <1>1, <1>10
  <2>2. s5'.state = "error" /\ s2' # Dp!NoArchive /\ ~Dp!ManifestLoads(Dp!ZipView(s2', s1'))
    BY <1>1, <1>7, <1>10, <2>1
  <2>3. Dp!OpenedKnows'
    BY <2>2, Zenon DEF Dp!OpenedKnows
  <2> QED
    BY <1>3, <1>4, <1>5, <1>6, <2>3 DEF Dp!DpIInv
<1>11. CASE Dp!ManifestLoads(v)
  <2>1. s5' = open
    BY <1>1, <1>11
  <2>2. /\ s5'.state = "open" /\ s5'.config = config /\ s5'.verified = verified
        /\ s5'.verified => s5'.verification = Dp!DecodedVerification(v)
    BY <1>8, <2>1, Zenon
  <2>3. Dp!OpenedKnows'
    BY <1>1, <2>2, Zenon DEF Dp!OpenedKnows, verified
  <2> QED
    BY <1>3, <1>4, <1>5, <1>6, <2>3 DEF Dp!DpIInv
<1> QED
  BY <1>10, <1>11

\* Every step of Difypkg preserves the invariant.
LEMMA PackageStep ==
  ASSUME Dp!DpIInv, Dp!DpNext
  PROVE  Dp!DpIInv'
<1>1. ASSUME NEW limit \in SizeLimits, Dp!Pack(limit) PROVE Dp!DpIInv'
  BY <1>1, PackKeeps
<1>2. ASSUME NEW key \in OtherKeys \cup {Official}, NEW c \in Categories \cup {Dp!None_}, Dp!Sign(key, c)
      PROVE  Dp!DpIInv'
  BY <1>2, SignKeeps
<1>3. ASSUME Dp!Edit PROVE Dp!DpIInv'
  BY <1>3, EditKeeps
<1>4. ASSUME NEW config \in Dp!Configs, Dp!Open_(config) PROVE Dp!DpIInv'
  BY <1>4, OpenKeeps
<1> QED
  BY <1>1, <1>2, <1>3, <1>4, Zenon DEF Dp!DpNext

\* The invariant implies the type invariant of Difypkg.
LEMMA PackageTyped ==
  ASSUME Dp!DpIInv
  PROVE  Dp!DpTypeOK
<1>1. Dp!SourceKnows /\ Dp!ArchiveKnows /\ Dp!SignatureKnows /\ Dp!OpenedKnows
  BY DEF Dp!DpIInv
<1>2. s1.kind \in PluginKinds /\ s1.ignored \cup s1.dotted \cup DOMAIN s1.files \subseteq Dp!Paths
  <2>1. Dp!DeclaredPaths \subseteq Dp!Paths
    BY PathSet DEF Dp!DeclaredPaths
  <2> QED
    BY <1>1, <2>1 DEF Dp!SourceKnows
<1>3. ASSUME NEW i \in DOMAIN s2.entries
      PROVE  s2.entries[i].path \in Dp!Paths /\ s2.entries[i].content \in Dp!Contents
  <2>1. s2.entries[i] \in Dp!EntryShape
    BY <1>1 DEF Dp!ArchiveKnows
  <2> QED
    BY <2>1 DEF Dp!EntryShape
<1>4. Len(s2.comment) <= 1
  <2>1. CASE s3 = <<>>
    <3>1. s2.comment = <<>>
      BY <1>1, <2>1 DEF Dp!ArchiveKnows
    <3> QED
      BY <3>1
  <2>2. CASE s3 # <<>>
    <3>1. Len(s2.comment) = 1
      BY <1>1, <2>2, Zenon DEF Dp!SignatureKnows
    <3> QED
      BY <3>1
  <2> QED
    BY <2>1, <2>2
<1>5. s5.state \in {"no", "error", "open"}
  <2>1. Dp!NotOpened.state = "no"
    BY DEF Dp!NotOpened
  <2> QED
    BY <1>1, <2>1, Zenon DEF Dp!OpenedKnows
<1>6. /\ \E limit \in SizeLimits : Len(s2.entries) <= limit + Len(s3)
      /\ Len(s3) <= MaxSigns /\ s4 \in {"no", "changed", "renamed"}
  BY <1>1, Zenon DEF Dp!ArchiveKnows
<1>7. /\ {s2.entries[i].path : i \in DOMAIN s2.entries} \subseteq Dp!Paths
      /\ {s2.entries[i].content : i \in DOMAIN s2.entries} \subseteq Dp!Contents
  BY <1>3, Zenon
<1> QED
  BY <1>2, <1>4, <1>5, <1>6, <1>7, Zenon DEF Dp!DpTypeOK

\* What a package that nobody has changed shows, beside what the directory shows.
LEMMA PackageShows ==
  ASSUME Dp!DpIInv, Dp!Pristine
  PROVE  LET z == Dp!ZipView(s2, s1)
             d == Dp!FsView(s1)
             P == Dp!Paths \ {Dp!VerificationFile, Dp!RequirementsFile}
         IN  /\ z.kind = s1.kind /\ d.kind = s1.kind /\ d.read = s1.files
             /\ z.dotted = s1.dotted /\ d.dotted = s1.dotted /\ d.fs = TRUE
             /\ Dp!ManifestLoads(d)
             /\ Dp!ToSet(z.walk) = DOMAIN z.read
             /\ Dp!ToSet(d.walk) = DOMAIN s1.files \ s1.ignored
             /\ \A p \in P : p \in DOMAIN z.read <=> p \in DOMAIN s1.files \ s1.ignored
             /\ \A p \in P : p \in DOMAIN z.read => z.read[p] = s1.files[p]
<1> DEFINE z == Dp!ZipView(s2, s1)
           d == Dp!FsView(s1)
           r == Dp!ReadFile(s2.entries)
           es == s2.entries
           D == DOMAIN s1.files \ s1.ignored
<1>1. Dp!SourceKnows /\ Dp!ArchiveKnows /\ Dp!PackedKnows
  BY DEF Dp!DpIInv
<1>2. z.walk = [i \in DOMAIN es |-> es[i].path] /\ z.read = r /\ z.kind = s1.kind /\ z.dotted = s1.dotted
  BY DEF Dp!ZipView
<1>3. d.walk = Dp!Sorted(D) /\ d.read = s1.files /\ d.kind = s1.kind /\ d.dotted = s1.dotted /\ d.fs = TRUE
  BY DEF Dp!FsView
<1>4. Dp!ToSet(z.walk) = DOMAIN r
  <2>1. es \in Seq(Dp!EntryShape)
    BY <1>1 DEF Dp!ArchiveKnows
  <2>2. DOMAIN r = {es[i].path : i \in 1..Len(es)}
    BY <2>1, ReadIs, Zenon
  <2>3. DOMAIN es = 1..Len(es)
    BY <2>1
  <2>4. Dp!ToSet(z.walk) = {z.walk[i] : i \in DOMAIN z.walk}
    BY DpOperators, Zenon
  <2> HIDE DEF r, es, z
  <2>5. DOMAIN z.walk = 1..Len(es) /\ \A i \in 1..Len(es) : z.walk[i] = es[i].path
    BY <1>2, <2>3
  <2> QED
    BY <2>2, <2>4, <2>5
<1>5. Dp!ToSet(d.walk) = D
  <2>1. D \subseteq Dp!Paths
    BY <1>1 DEF Dp!SourceKnows
  <2>2. /\ Cardinality(D) \in Nat
        /\ Dp!Sorted(D) \in [1..Cardinality(D) -> D]
        /\ {Dp!Sorted(D)[i] : i \in 1..Cardinality(D)} = D
    BY <2>1, SortedEnumerates
  <2>3. DOMAIN Dp!Sorted(D) = 1..Cardinality(D)
    BY <2>2
  <2>4. Dp!ToSet(Dp!Sorted(D)) = {Dp!Sorted(D)[i] : i \in DOMAIN Dp!Sorted(D)}
    BY DpOperators, Zenon
  <2> HIDE DEF D
  <2> QED
    BY <1>3, <2>2, <2>3, <2>4
<1>6. /\ Dp!PackValid(s1)
      /\ DOMAIN r \ {Dp!VerificationFile} = Dp!CollectedPaths(s1) \ {Dp!VerificationFile}
      /\ \A p \in DOMAIN r \ {Dp!VerificationFile} : r[p] = Dp!ContentOf(s1, p)
  BY <1>1, Zenon DEF Dp!PackedKnows
<1>7. Dp!ManifestLoads(d)
  BY <1>6 DEF Dp!PackValid
<1> HIDE DEF r
<1>8. ASSUME NEW p \in Dp!Paths \ {Dp!VerificationFile, Dp!RequirementsFile}
      PROVE  p \in DOMAIN r <=> p \in D
  BY <1>6 DEF Dp!CollectedPaths
<1>9. ASSUME NEW p \in Dp!Paths \ {Dp!VerificationFile, Dp!RequirementsFile}, p \in DOMAIN r
      PROVE  r[p] = s1.files[p]
  BY <1>6, <1>8, <1>9 DEF Dp!ContentOf
<1> HIDE DEF z, d, D
<1> QED
  BY <1>2, <1>3, <1>4, <1>5, <1>7, <1>8, <1>9 DEF z, d, D

\* What Pack produced opens, unless a needed file was ignored or is read by a name that is
\* not clean.
LEMMA PackedOpensHolds ==
  ASSUME Dp!DpIInv
  PROVE  Dp!PackedOpens
<1> DEFINE z == Dp!ZipView(s2, s1)
           d == Dp!FsView(s1)
           P == Dp!Paths \ {Dp!VerificationFile, Dp!RequirementsFile}
           F == {Dp!Manifest_, Dp!Provider_, Dp!Child_, Dp!Position_}
<1> SUFFICES ASSUME Dp!Pristine, s5.state = "error", s1.ignored \cap F = {},
                    s1.dotted \cap Dp!ReadByName(s1.kind) = {}
             PROVE  FALSE
  BY DEF Dp!PackedOpens
<1>1. ~Dp!ManifestLoads(z)
  <2>1. Dp!NotOpened.state = "no"
    BY DEF Dp!NotOpened
  <2> QED
    BY <2>1, Zenon DEF Dp!DpIInv, Dp!OpenedKnows
<1>2. /\ z.kind = s1.kind /\ d.kind = s1.kind /\ d.read = s1.files
      /\ z.dotted = s1.dotted /\ d.dotted = s1.dotted /\ d.fs = TRUE
      /\ Dp!ManifestLoads(d)
      /\ Dp!ToSet(z.walk) = DOMAIN z.read
      /\ Dp!ToSet(d.walk) = DOMAIN s1.files \ s1.ignored
      /\ \A p \in P : p \in DOMAIN z.read <=> p \in DOMAIN s1.files \ s1.ignored
      /\ \A p \in P : p \in DOMAIN z.read => z.read[p] = s1.files[p]
  BY PackageShows, Zenon
<1>3. F \subseteq P
  BY PathSet DEF Dp!Manifest_, Dp!Provider_, Dp!Child_, Dp!Position_, Dp!VerificationFile, Dp!RequirementsFile
<1> HIDE DEF z, d
<1>4. ASSUME NEW p \in F, p \notin s1.dotted PROVE Dp!Loads(d, p) => Dp!Loads(z, p)
  BY <1>2, <1>3, <1>4 DEF Dp!Loads
<1>5. Dp!LoadModels(d) => Dp!LoadModels(z)
  BY <1>2, <1>3, <1>4 DEF Dp!LoadModels, Dp!Matched
<1>8. Dp!Manifest_ \notin s1.dotted
  <2>1. Dp!Manifest_ \notin Dp!DeclaredPaths
    BY DEF Dp!DeclaredPaths, Dp!Manifest_, Dp!Provider_, Dp!Child_, Dp!Position_, Dp!PluginIcon, Dp!ProviderIcon
  <2> QED
    BY <2>1 DEF Dp!DpIInv, Dp!SourceKnows
<1>9. /\ Dp!Provider_ \notin s1.dotted
      /\ s1.kind = "model" => Dp!Position_ \notin s1.dotted
      /\ s1.kind # "model" => Dp!Child_ \notin s1.dotted
  BY DEF Dp!ReadByName
<1> HIDE DEF F, P
<1>6. Dp!Manifest_ \in F /\ Dp!Provider_ \in F /\ Dp!Child_ \in F /\ Dp!Position_ \in F
  BY DEF F
<1>7. Dp!ManifestLoads(z)
  BY <1>2, <1>4, <1>5, <1>6, <1>8, <1>9
     DEF Dp!ManifestLoads, Dp!LoadProvider, Dp!LoadPositions, Dp!LoadChildren
<1> QED
  BY <1>1, <1>7

\* The package declares what the directory declares.
LEMMA PackageAgreesHolds ==
  ASSUME Dp!DpIInv
  PROVE  Dp!PackageAgrees
<1> DEFINE z == Dp!ZipView(s2, s1)
           d == Dp!FsView(s1)
           P == Dp!Paths \ {Dp!VerificationFile, Dp!RequirementsFile}
<1> SUFFICES ASSUME Dp!Pristine, s1.ignored = {}
             PROVE  /\ Dp!DeclaredChildren(z) = Dp!DeclaredChildren(d)
                    /\ Dp!AssetsOfView(z) = Dp!AssetsOfView(d)
                    /\ Dp!Readmes(z) = Dp!Readmes(d)
                    /\ (~Dp!Generates(s1) /\ \A i \in DOMAIN s3 : s3[i].category = Dp!None_)
                         => Dp!ChecksumOf(z) = Dp!ChecksumOf(d)
  BY Zenon DEF Dp!PackageAgrees
<1>1. /\ z.kind = s1.kind /\ d.kind = s1.kind /\ d.read = s1.files
      /\ z.dotted = s1.dotted /\ d.dotted = s1.dotted /\ d.fs = TRUE
      /\ Dp!ManifestLoads(d)
      /\ Dp!ToSet(z.walk) = DOMAIN z.read
      /\ Dp!ToSet(d.walk) = DOMAIN s1.files \ s1.ignored
      /\ \A p \in P : p \in DOMAIN z.read <=> p \in DOMAIN s1.files \ s1.ignored
      /\ \A p \in P : p \in DOMAIN z.read => z.read[p] = s1.files[p]
  BY PackageShows, Zenon
<1>2. {Dp!Child_, Dp!Readme_, Dp!ReadmeZh, Dp!PluginIcon, Dp!ProviderIcon} \subseteq P
  BY PathSet DEF Dp!Child_, Dp!Readme_, Dp!ReadmeZh, Dp!PluginIcon, Dp!ProviderIcon,
                 Dp!VerificationFile, Dp!RequirementsFile
<1>3. ASSUME ~Dp!Generates(s1), \A i \in DOMAIN s3 : s3[i].category = Dp!None_
      PROVE  Dp!ChecksumOf(z) = Dp!ChecksumOf(d)
  <2> DEFINE r == Dp!ReadFile(s2.entries)
  <2>1. z.read = r
    BY DEF Dp!ZipView
  <2>2. DOMAIN r = Dp!CollectedPaths(s1) /\ \A p \in DOMAIN r : r[p] = Dp!ContentOf(s1, p)
    BY <1>3, Zenon DEF Dp!DpIInv, Dp!PackedKnows
  <2> HIDE DEF r, z, d
  <2>3. DOMAIN r = DOMAIN s1.files /\ \A p \in DOMAIN r : r[p] = s1.files[p]
    BY <1>3, <2>2 DEF Dp!CollectedPaths, Dp!ContentOf
  <2> QED
    BY <1>1, <2>1, <2>3 DEF Dp!ChecksumOf
<1> HIDE DEF z, d, P
<1>4. \A p \in P : /\ p \in DOMAIN z.read <=> p \in DOMAIN d.read
                   /\ p \in DOMAIN z.read => z.read[p] = d.read[p]
  BY <1>1
<1>5. Dp!DeclaredChildren(z) = Dp!DeclaredChildren(d)
  BY <1>1, <1>2 DEF Dp!DeclaredChildren, Dp!Matched
<1>6. Dp!AssetsOfView(z) = Dp!AssetsOfView(d)
  <2>1. Dp!ReadDir(z, Dp!AssetPaths) = Dp!ReadDir(d, Dp!AssetPaths)
        /\ Dp!ReadDir(z, Dp!AssetPaths) \subseteq P
    BY <1>2, <1>4 DEF Dp!ReadDir, Dp!AssetPaths
  <2>2. \A p \in Dp!ReadDir(z, Dp!AssetPaths) : z.read[p] = d.read[p]
    BY <1>4, <2>1 DEF Dp!ReadDir
  <2> QED
    BY <2>1, <2>2 DEF Dp!AssetsOfView
<1>7. Dp!Readmes(z) = Dp!Readmes(d)
  <2>1. Dp!ReadDir(z, {Dp!ReadmeZh}) = Dp!ReadDir(d, {Dp!ReadmeZh})
        /\ \A p \in Dp!ReadDir(z, {Dp!ReadmeZh}) : z.read[p] = d.read[p]
    BY <1>2, <1>4 DEF Dp!ReadDir
  <2>2. {<<"zh_Hans", z.read[p]>> : p \in Dp!ReadDir(z, {Dp!ReadmeZh})}
          = {<<"zh_Hans", d.read[p]>> : p \in Dp!ReadDir(d, {Dp!ReadmeZh})}
    BY <2>1
  <2>3. /\ Dp!Readme_ \in DOMAIN z.read <=> Dp!Readme_ \in DOMAIN d.read
        /\ Dp!Readme_ \in DOMAIN z.read => z.read[Dp!Readme_] = d.read[Dp!Readme_]
    BY <1>2, <1>4
  <2> QED
    BY <2>2, <2>3, Zenon DEF Dp!Readmes
<1> QED
  BY <1>3, <1>5, <1>6, <1>7

\* A configuration verifies with the keys it trusts.
LEMMA VerifiedByTrust ==
  ASSUME NEW config \in Dp!Configs, NEW v
  PROVE  /\ Dp!VerifiedBy(v, config) => Dp!VerifiesWith(v, Dp!TrustedBy(config))
         /\ Dp!VerifiesWith(v, Dp!TrustedBy(config)) /\ ~(config.enabled /\ config.missing)
              => Dp!VerifiedBy(v, config)
<1>1. CASE config.enabled /\ (config.keys # {} \/ config.missing)
  <2>1. config.keys \cup {Official} = Dp!TrustedBy(config)
    BY <1>1 DEF Dp!TrustedBy
  <2> QED
    BY <1>1, <2>1 DEF Dp!VerifiedBy
<1>2. CASE ~(config.enabled /\ (config.keys # {} \/ config.missing))
  <2>1. {Official} = Dp!TrustedBy(config)
    BY <1>2 DEF Dp!TrustedBy
  <2> QED
    BY <1>2, <2>1 DEF Dp!VerifiedBy
<1> QED
  BY <1>1, <1>2

\* What was signed with a trusted key is verified when it is opened.
LEMMA SignedIsVerifiedHolds ==
  ASSUME Dp!DpIInv
  PROVE  Dp!SignedIsVerified
<1> DEFINE v == Dp!ZipView(s2, s1)
           s == Dp!LastSign
           sig == s2.comment[1]
           es == s2.entries
           V == Dp!VerificationFile
<1> SUFFICES ASSUME Dp!Pristine, Dp!Opened, s3 # <<>>, s.key \in Dp!TrustedBy(s5.config),
                    ~(s5.config.enabled /\ s5.config.missing),
                    s.category = Dp!None_ \/ s.before \in {Dp!None_, s.category}
             PROVE  s5.verified /\ (s.category # Dp!None_ => s5.verification = s.category)
  BY Zenon DEF Dp!SignedIsVerified
<1>1. Dp!ArchiveKnows /\ Dp!PackedKnows /\ Dp!SignatureKnows /\ Dp!OpenedKnows
  BY DEF Dp!DpIInv
<1>2. s4 = "no"
  BY DEF Dp!Pristine
<1>3. /\ s5.config \in Dp!Configs /\ s5.verified = Dp!VerifiedBy(v, s5.config)
      /\ s5.verified => s5.verification = Dp!DecodedVerification(v)
  <2>1. s5.state = "open" /\ Dp!NotOpened.state = "no"
    BY DEF Dp!Opened, Dp!NotOpened
  <2> QED
    BY <1>1, <2>1, Zenon DEF Dp!OpenedKnows
<1>4. /\ Len(s2.comment) = 1 /\ sig.key = s.key
      /\ Dp!SignatureCovers(s, sig, es) /\ Dp!SignedReads(s, es)
  BY <1>1, <1>2, Zenon DEF Dp!SignatureKnows
<1>5. es \in Seq(Dp!EntryShape) /\ Shows(v, es) /\ v.comment = s2.comment
  BY <1>1, ViewIs DEF Dp!ArchiveKnows
<1>6. V \in DOMAIN v.read => v.read[V] \in Categories
  <2>1. v.read = Dp!ReadFile(es)
    BY DEF Dp!ZipView
  <2> QED
    BY <1>1, <2>1, Zenon DEF Dp!PackedKnows
<1>7. "none" \notin Categories
  BY ServicesAssumption DEF Dp!DpAssumption
<1>8. sig.data = Dp!SignedData(v, sig.time)
  <2>1. s.category = "none" \/ s.before \in {"none", s.category}
    BY DEF Dp!None_
  <2>2. V \in DOMAIN v.read => v.read[V] # "none"
    BY <1>6, <1>7
  <2> HIDE DEF v, s, sig, es
  <2> QED
    BY <1>4, <1>5, <2>1, <2>2, CoveredVerifies, Zenon
<1>9. Dp!VerifiesWith(v, Dp!TrustedBy(s5.config))
  <2>1. v.comment # <<>> /\ v.comment[1] = sig
    BY <1>4, <1>5
  <2>2. ~Dp!DecodeFails(v)
    BY <1>6, <2>1 DEF Dp!DecodeFails
  <2> HIDE DEF v, s, sig
  <2> QED
    BY <1>4, <1>8, <2>1, <2>2, Zenon DEF Dp!VerifiesWith
<1>10. s5.verified
  BY <1>3, <1>9, VerifiedByTrust, Zenon
<1>11. ASSUME s.category # Dp!None_ PROVE s5.verification = s.category
  <2>1. s5.verification = Dp!DecodedVerification(v)
    BY <1>3, <1>10, Zenon
  <2>2. v.read = Dp!ReadFile(es)
    BY DEF Dp!ZipView
  <2>3. /\ DOMAIN v.read = DOMAIN s.reads \cup {V}
        /\ \A p \in DOMAIN s.reads : v.read[p] = s.reads[p]
        /\ V \notin DOMAIN s.reads => v.read[V] = s.category
        /\ V \in DOMAIN s.reads => s.before = s.reads[V]
    BY <1>4, <1>11, <2>2, Zenon DEF Dp!SignedReads
  <2> HIDE DEF v, s
  <2>4. V \in DOMAIN v.read /\ v.read[V] = s.category
    BY <1>6, <1>7, <1>11, <2>3 DEF Dp!None_
  <2> QED
    BY <2>1, <2>4 DEF Dp!DecodedVerification
<1> QED
  BY <1>10, <1>11

\* What is verified was signed with a trusted key and is what was signed.
LEMMA VerifiedIsSignedHolds ==
  ASSUME Dp!DpIInv
  PROVE  Dp!VerifiedIsSigned
<1> DEFINE v == Dp!ZipView(s2, s1)
           s == Dp!LastSign
           sig == s2.comment[1]
           es == s2.entries
           V == Dp!VerificationFile
<1> SUFFICES ASSUME Dp!Opened, s5.verified
             PROVE  \E i \in DOMAIN s3 :
                      /\ s3[i].key \in Dp!TrustedBy(s5.config)
                      /\ [k \in DOMAIN v.walk |-> v.read[v.walk[k]]] = s3[i].contents
                      /\ s4 # "renamed" =>
                           /\ DOMAIN v.read \ {V} = DOMAIN s3[i].reads \ {V}
                           /\ \A p \in DOMAIN s3[i].reads : v.read[p] = s3[i].reads[p]
  BY Zenon DEF Dp!VerifiedIsSigned
<1>1. Dp!ArchiveKnows /\ Dp!SignatureKnows /\ Dp!OpenedKnows
  BY DEF Dp!DpIInv
<1>2. Dp!VerifiesWith(v, Dp!TrustedBy(s5.config))
  <2>1. s5.state = "open" /\ Dp!NotOpened.state = "no"
    BY DEF Dp!Opened, Dp!NotOpened
  <2>2. s5.config \in Dp!Configs /\ Dp!VerifiedBy(v, s5.config)
    BY <1>1, <2>1, Zenon DEF Dp!OpenedKnows
  <2> QED
    BY <2>2, VerifiedByTrust, Zenon
<1>3. es \in Seq(Dp!EntryShape) /\ Shows(v, es) /\ v.comment = s2.comment
  BY <1>1, ViewIs DEF Dp!ArchiveKnows
<1>4. /\ s2.comment # <<>> /\ sig.key \in Dp!TrustedBy(s5.config)
      /\ sig.data = Dp!SignedData(v, sig.time)
  <2> HIDE DEF v
  <2> QED
    BY <1>2, <1>3, Zenon DEF Dp!VerifiesWith, Dp!DecodeFails
<1>5. s3 # <<>>
  BY <1>1, <1>4 DEF Dp!ArchiveKnows
<1>6. sig.key = s.key /\ sig.data = Append(s.contents, sig.time)
  BY <1>1, <1>5, Zenon DEF Dp!SignatureKnows
<1>7. Len(sig.data) = Len(es) + 1
  <2>1. Hashes(Dp!SignedData(v, sig.time), es, sig.time)
    BY <1>3, SignedDataIs, Zenon
  <2> QED
    BY <1>4, <2>1, Zenon DEF Hashes
<1>8. ASSUME s4 # "renamed" PROVE Dp!SignatureCovers(s, sig, es)
  <2>1. \/ Dp!SignatureCovers(s, sig, es)
        \/ Len(es) + 1 < Len(sig.data)
    BY <1>1, <1>5, <1>8, Zenon DEF Dp!SignatureKnows
  <2>2. Len(es) \in Nat
    BY <1>3
  <2>3. ~(Len(es) + 1 < Len(sig.data))
    BY <1>7, <2>2
  <2> QED
    BY <2>1, <2>3
<1>9. ASSUME s4 # "renamed"
      PROVE  /\ DOMAIN v.read \ {V} = DOMAIN s.reads \ {V}
             /\ \A p \in DOMAIN s.reads : v.read[p] = s.reads[p]
  <2> HIDE DEF v, s, sig, es
  <2> QED
    BY <1>3, <1>4, <1>8, <1>9, VerifiedReads
<1>10. Len(s3) \in DOMAIN s3 /\ s = s3[Len(s3)]
  BY <1>1, <1>5, SignsAre DEF Dp!LastSign
<1>11. [k \in DOMAIN v.walk |-> v.read[v.walk[k]]] = s.contents
  <2> DEFINE m == [k \in DOMAIN v.walk |-> v.read[v.walk[k]]]
             S == Dp!Contents \cup {sig.time}
  <2>1. s.contents \in Seq(Dp!Contents)
    <3>1. s \in Dp!SignShape(Dp!Paths)
      BY <1>1, <1>10, SignsAre
    <3> HIDE DEF s
    <3> QED
      BY <3>1 DEF Dp!SignShape
  <2>2. m \in Seq(Dp!Contents)
    <3> HIDE DEF v, es
    <3> QED
      BY <1>3, WalkReads, Zenon
  <2>3. Append(m, sig.time) = Append(s.contents, sig.time)
    BY <1>4, <1>6, Zenon DEF Dp!SignedData
  <2> HIDE DEF m, v, s, sig
  <2>4. m \in Seq(S) /\ s.contents \in Seq(S) /\ sig.time \in S
    BY <2>1, <2>2
  <2> DEFINE b == s.contents
             f == sig.time
  <2>5. m \in Seq(S) /\ b \in Seq(S) /\ f \in S /\ Append(m, f) = Append(b, f)
    BY <2>3, <2>4, Zenon
  <2> HIDE DEF S, b, f
  <2>6. m = b
    BY <2>5, AppendInjective
  <2> QED
    BY <2>6, Zenon DEF m, b
<1> HIDE DEF v, s, sig
<1> QED
  BY <1>4, <1>6, <1>9, <1>10, <1>11, Zenon

------------------------------------------------------------------------------
(* Packages: requests and the sequences of packages they hold *)

\* A package put in front of a sequence.
LEMMA Prepends ==
  ASSUME NEW S, NEW p \in S, NEW t \in Seq(S)
  PROVE  LET n == <<p>> \o t
         IN  /\ n \in Seq(S) /\ Len(n) = Len(t) + 1 /\ n # <<>>
             /\ Head(n) = p /\ Tail(n) = t
             /\ Pkg!Members(n) = {p} \cup Pkg!Members(t)
<1> DEFINE n == <<p>> \o t
<1>1. n \in Seq(S) /\ Len(n) = Len(t) + 1 /\ n # <<>> /\ Len(t) \in Nat
  OBVIOUS
<1>2. /\ n[1] = p /\ \A i \in 1..Len(t) : n[i + 1] = t[i]
      /\ DOMAIN n = 1..(Len(t) + 1) /\ DOMAIN t = 1..Len(t)
  OBVIOUS
<1>3. Head(n) = p /\ Tail(n) = t
  OBVIOUS
<1> HIDE DEF n
<1>4. ASSUME NEW k \in DOMAIN n, k # 1 PROVE k - 1 \in DOMAIN t /\ n[k] = t[k - 1]
  <2>1. k - 1 \in 1..Len(t) /\ (k - 1) + 1 = k
    BY <1>1, <1>2, <1>4
  <2> QED
    BY <1>2, <2>1
<1>5. 1 \in DOMAIN n /\ \A i \in DOMAIN t : i + 1 \in DOMAIN n
  BY <1>1, <1>2
<1>6. Pkg!Members(n) = {p} \cup Pkg!Members(t)
  <2>1. ASSUME NEW k \in DOMAIN n PROVE n[k] \in {p} \cup Pkg!Members(t)
    BY <1>2, <1>4 DEF Pkg!Members
  <2>2. p \in Pkg!Members(n)
    BY <1>2, <1>5 DEF Pkg!Members
  <2>3. ASSUME NEW i \in DOMAIN t PROVE t[i] \in Pkg!Members(n)
    BY <1>2, <1>5 DEF Pkg!Members
  <2> QED
    BY <2>1, <2>2, <2>3 DEF Pkg!Members
<1> QED
  BY <1>1, <1>3, <1>6 DEF n

\* A sequence that is not empty, by its first package.
LEMMA Splits ==
  ASSUME NEW S, NEW t \in Seq(S), t # <<>>
  PROVE  /\ Head(t) \in S /\ Tail(t) \in Seq(S) /\ Len(t) = Len(Tail(t)) + 1
         /\ t = <<Head(t)>> \o Tail(t)
         /\ Pkg!Members(t) = {Head(t)} \cup Pkg!Members(Tail(t))
<1> DEFINE h == Head(t)
           l == Tail(t)
<1>1. h \in S /\ l \in Seq(S) /\ Len(t) = Len(l) + 1 /\ Len(l) \in Nat /\ t = <<h>> \o l
  OBVIOUS
<1>2. t[1] = h /\ DOMAIN t = 1..(Len(l) + 1) /\ DOMAIN l = 1..Len(l) /\ \A i \in 1..Len(l) : l[i] = t[i + 1]
  OBVIOUS
<1> HIDE DEF h, l
<1>3. \A i \in DOMAIN l : i + 1 \in DOMAIN t /\ i + 1 # 1
  BY <1>1, <1>2
<1>4. ASSUME NEW k \in DOMAIN t, k # 1 PROVE k - 1 \in DOMAIN l /\ t[k] = l[k - 1]
  <2>1. k - 1 \in 1..Len(l) /\ (k - 1) + 1 = k
    BY <1>1, <1>2, <1>4
  <2> QED
    BY <1>2, <2>1
<1>5. Pkg!Members(t) = {h} \cup Pkg!Members(l)
  <2>1. ASSUME NEW k \in DOMAIN t PROVE t[k] \in {h} \cup Pkg!Members(l)
    BY <1>2, <1>4 DEF Pkg!Members
  <2>2. h \in Pkg!Members(t)
    BY <1>1, <1>2 DEF Pkg!Members
  <2>3. ASSUME NEW i \in DOMAIN l PROVE l[i] \in Pkg!Members(t)
    BY <1>2, <1>3 DEF Pkg!Members
  <2> QED
    BY <2>1, <2>2, <2>3 DEF Pkg!Members
<1> QED
  BY <1>1, <1>5 DEF h, l

\* The empty sequence.
LEMMA Empties ==
  /\ Pkg!Members(<<>>) = {} /\ Len(<<>>) = 0
  /\ \A S : <<>> \in Seq(S)
BY DEF Pkg!Members

\* Members are of the set the sequence is over.
LEMMA MembersIn ==
  ASSUME NEW S, NEW t \in Seq(S)
  PROVE  Pkg!Members(t) \subseteq S /\ Len(t) \in Nat /\ (t = <<>> <=> Len(t) = 0)
BY DEF Pkg!Members

\* A request, by its fields.
Request(at, todos, kepts, answered, undone) ==
  [pc |-> at, todo |-> todos, kept |-> kepts, answer |-> answered, undo |-> undone]

\* A request built from well-shaped fields is well shaped.
LEMMA RequestShaped ==
  ASSUME NEW at \in {"idle", "ended"} \cup Pkg!Persisting \cup Pkg!Undoing,
         NEW todos \in Seq(Pkg!PackageShape), NEW kepts \in Seq(Pkg!PackageShape),
         NEW answered \in {"none", "success", "failure"}, NEW undone \in {"whole", "partial"}
  PROVE  Request(at, todos, kepts, answered, undone) \in Pkg!UploadShape
BY Zenon DEF Request, Pkg!UploadShape

\* The fields of a request in a well-shaped state.
LEMMA RequestFields ==
  ASSUME Pkg!PkgShape, NEW u \in Uploaders
  PROVE  LET r == s4[u]
         IN  /\ r \in Pkg!UploadShape
             /\ r.pc \in {"idle", "ended"} \cup Pkg!Persisting \cup Pkg!Undoing
             /\ r.todo \in Seq(Pkg!PackageShape) /\ r.kept \in Seq(Pkg!PackageShape)
             /\ r.answer \in {"none", "success", "failure"} /\ r.undo \in {"whole", "partial"}
<1>1. s4[u] \in Pkg!UploadShape
  BY DEF Pkg!PkgShape
<1> QED
  BY <1>1 DEF Pkg!UploadShape

\* What the operators that move a request do to it.
LEMMA RequestUpdates ==
  ASSUME Pkg!PkgShape, NEW u \in Uploaders
  PROVE  LET r == s4[u]
         IN  /\ \A at : Pkg!ToPkg(u, at) =>
                  s4' = [s4 EXCEPT ![u] = Request(at, r.todo, r.kept, r.answer, r.undo)]
             /\ \A at, p : Pkg!With(u, at, p) =>
                  s4' = [s4 EXCEPT ![u] = Request(at, <<p>> \o Tail(r.todo), r.kept, r.answer, r.undo)]
             /\ \A p : Pkg!Persisted(u, p) =>
                  s4' = [s4 EXCEPT ![u] =
                    Request(IF Len(r.todo) = 1 THEN "ended" ELSE "exists", Tail(r.todo), <<p>> \o r.kept,
                            IF Len(r.todo) = 1 THEN "success" ELSE r.answer, r.undo)]
             /\ \A p : Pkg!Rollback(u, p) =>
                  s4' = [s4 EXCEPT ![u] = Request("undo_assets", <<>>, <<p>> \o r.kept, "failure", r.undo)]
             /\ \A undo : Pkg!NextUndo(u, undo) =>
                  s4' = [s4 EXCEPT ![u] =
                    Request(IF Len(r.kept) = 1 THEN "ended" ELSE "undo_assets", r.todo, Tail(r.kept),
                            r.answer, undo)]
<1> DEFINE r == s4[u]
<1>1. r \in Pkg!UploadShape /\ DOMAIN s4 = Uploaders
  BY DEF Pkg!PkgShape
<1>2. r = [pc |-> r.pc, todo |-> r.todo, kept |-> r.kept, answer |-> r.answer, undo |-> r.undo]
  BY <1>1 DEF Pkg!UploadShape
<1>3. ASSUME NEW at, Pkg!ToPkg(u, at)
      PROVE  s4' = [s4 EXCEPT ![u] = Request(at, r.todo, r.kept, r.answer, r.undo)]
  <2>1. s4' = [s4 EXCEPT ![u] = [r EXCEPT !.pc = at]]
    BY <1>3, Zenon DEF Pkg!ToPkg
  <2>2. [r EXCEPT !.pc = at] = Request(at, r.todo, r.kept, r.answer, r.undo)
    BY <1>2 DEF Request
  <2> QED
    BY <2>1, <2>2
<1>4. ASSUME NEW at, NEW p, Pkg!With(u, at, p)
      PROVE  s4' = [s4 EXCEPT ![u] = Request(at, <<p>> \o Tail(r.todo), r.kept, r.answer, r.undo)]
  <2> DEFINE n == <<p>> \o Tail(r.todo)
             q == [r EXCEPT !.pc = at, !.todo = n]
  <2>1. s4' = [s4 EXCEPT ![u] = q]
    BY <1>1, <1>4 DEF Pkg!With
  <2> HIDE DEF n
  <2>2. q = [Request(r.pc, r.todo, r.kept, r.answer, r.undo) EXCEPT !.pc = at, !.todo = n]
    BY <1>2 DEF Request
  <2>3. [Request(r.pc, r.todo, r.kept, r.answer, r.undo) EXCEPT !.pc = at, !.todo = n]
          = Request(at, n, r.kept, r.answer, r.undo)
    <3>1. [Request(r.pc, r.todo, r.kept, r.answer, r.undo) EXCEPT !.pc = at]
            = Request(at, r.todo, r.kept, r.answer, r.undo)
      BY DEF Request
    <3>2. [Request(at, r.todo, r.kept, r.answer, r.undo) EXCEPT !.todo = n]
            = Request(at, n, r.kept, r.answer, r.undo)
      BY DEF Request
    <3> QED
      BY <3>1, <3>2
  <2> HIDE DEF q
  <2> QED
    BY <2>1, <2>2, <2>3 DEF n
<1>5. ASSUME NEW p, Pkg!Persisted(u, p)
      PROVE  s4' = [s4 EXCEPT ![u] =
                Request(IF Len(r.todo) = 1 THEN "ended" ELSE "exists", Tail(r.todo), <<p>> \o r.kept,
                        IF Len(r.todo) = 1 THEN "success" ELSE r.answer, r.undo)]
  BY <1>1, <1>2, <1>5 DEF Pkg!Persisted, Request
<1>6. ASSUME NEW p, Pkg!Rollback(u, p)
      PROVE  s4' = [s4 EXCEPT ![u] = Request("undo_assets", <<>>, <<p>> \o r.kept, "failure", r.undo)]
  BY <1>1, <1>2, <1>6 DEF Pkg!Rollback, Request
<1>7. ASSUME NEW undo, Pkg!NextUndo(u, undo)
      PROVE  s4' = [s4 EXCEPT ![u] =
                Request(IF Len(r.kept) = 1 THEN "ended" ELSE "undo_assets", r.todo, Tail(r.kept),
                        r.answer, undo)]
  <2> DEFINE n == Tail(r.kept)
             at == IF Len(r.kept) = 1 THEN "ended" ELSE "undo_assets"
             q == [r EXCEPT !.kept = n, !.undo = undo, !.pc = at]
  <2>1. s4' = [s4 EXCEPT ![u] = q]
    BY <1>1, <1>7 DEF Pkg!NextUndo
  <2> HIDE DEF n, at
  <2>2. q = [Request(r.pc, r.todo, r.kept, r.answer, r.undo) EXCEPT !.kept = n, !.undo = undo, !.pc = at]
    BY <1>2 DEF Request
  <2>3. [Request(r.pc, r.todo, r.kept, r.answer, r.undo) EXCEPT !.kept = n, !.undo = undo, !.pc = at]
          = Request(at, r.todo, n, r.answer, undo)
    <3>1. [Request(r.pc, r.todo, r.kept, r.answer, r.undo) EXCEPT !.kept = n]
            = Request(r.pc, r.todo, n, r.answer, r.undo)
      BY DEF Request
    <3>2. [Request(r.pc, r.todo, n, r.answer, r.undo) EXCEPT !.undo = undo]
            = Request(r.pc, r.todo, n, r.answer, undo)
      BY DEF Request
    <3>3. [Request(r.pc, r.todo, n, r.answer, undo) EXCEPT !.pc = at]
            = Request(at, r.todo, n, r.answer, undo)
      BY DEF Request
    <3> QED
      BY <3>1, <3>2, <3>3
  <2> HIDE DEF q
  <2> QED
    BY <2>1, <2>2, <2>3 DEF n, at
<1> QED
  BY <1>3, <1>4, <1>5, <1>6, <1>7

------------------------------------------------------------------------------
(* Packages: what a step of one request leaves true of the others *)

\* u has become q, and was under way before.  (s7' = s7: it did not start.)
Moves(u, q) ==
  /\ s4' = [s4 EXCEPT ![u] = q] /\ s7' = s7
  /\ q.pc # "idle" /\ s4[u].pc \notin {"idle", "ended"}
  /\ s4[u].answer = "failure" => q.answer = "failure"
  /\ s6 => s6'

\* A write of u is noted if it overlaps another request.
Noted(u) == (\E v \in Uploaders \ {u} : Pkg!Serving(v)) => s6'

Failed == \E v \in Uploaders : s4[v].answer = "failure"

\* A step of one request leaves the others where they were, and an overlap stays one.
LEMMA Moved ==
  ASSUME Pkg!PkgShape, NEW u \in Uploaders, NEW q, Moves(u, q)
  PROVE  /\ s4'[u] = q /\ \A w \in Uploaders \ {u} : s4'[w] = s4[w]
         /\ Failed => Failed'
         /\ Pkg!Raced => Pkg!Raced'
         /\ s6' /\ q.answer = "failure" => Pkg!Raced'
<1>1. s4'[u] = q /\ \A w \in Uploaders \ {u} : s4'[w] = s4[w]
  BY DEF Pkg!PkgShape, Moves
<1>2. \A w \in Uploaders : s4[w].answer = "failure" => s4'[w].answer = "failure"
  BY <1>1 DEF Moves
<1>3. Failed => Failed'
  BY <1>2 DEF Failed
<1>4. Pkg!Raced => Pkg!Raced'
  BY <1>2 DEF Pkg!Raced, Moves
<1>5. s6' /\ q.answer = "failure" => Pkg!Raced'
  BY <1>1 DEF Pkg!Raced
<1> QED
  BY <1>1, <1>3, <1>4, <1>5

\* A step that adds icons, or belongs to a failed request, keeps what is known of the icons.
LEMMA IconsMove ==
  ASSUME Pkg!PkgIInv, NEW u \in Uploaders, NEW q, Moves(u, q),
         s1 \subseteq s1' \/ q.answer = "failure",
         q.pc \in Pkg!Persisting => Head(q.todo).assets \subseteq s1' \/ Failed,
         \A i \in s3' \ s3 : AssetsOf[i] \subseteq s1' \/ Failed
  PROVE  Pkg!IconsKnown' /\ Pkg!IconsServed'
<1>0. Pkg!PkgShape /\ Pkg!IconsKnown /\ Pkg!IconsServed
  BY DEF Pkg!PkgIInv
<1>1. /\ s4'[u] = q /\ \A w \in Uploaders \ {u} : s4'[w] = s4[w]
      /\ Failed => Failed'
      /\ q.answer = "failure" => Failed'
  BY <1>0, Moved DEF Failed
<1>2. \A w \in Uploaders : s4[w].pc \in Pkg!Persisting => Head(s4[w].todo).assets \subseteq s1 \/ Failed
  BY <1>0 DEF Pkg!IconsKnown, Pkg!Head_, Failed
<1>3. \A i \in s3 : AssetsOf[i] \subseteq s1 \/ Failed
  BY <1>0 DEF Pkg!IconsServed, Failed
<1>4. \A w \in Uploaders : s4'[w].pc \in Pkg!Persisting => Head(s4'[w].todo).assets \subseteq s1' \/ Failed'
  BY <1>1, <1>2
<1>5. \A i \in s3' : AssetsOf[i] \subseteq s1' \/ Failed'
  BY <1>1, <1>3
<1>6. Failed' <=> \E v \in Uploaders : s4'[v].answer = "failure"
  BY DEF Failed
<1> QED
  BY <1>4, <1>5, <1>6 DEF Pkg!IconsKnown, Pkg!IconsServed, Pkg!Head_

\* A step that empties the bucket only for a rollback keeps what is known of it.
LEMMA StoredMove ==
  ASSUME Pkg!PkgIInv, NEW u \in Uploaders, NEW q, Moves(u, q), s3' \subseteq PackageIds,
         \A i \in PackageIds : s2'[i] = "none" =>
            s2[i] = "none" \/ (q.answer = "failure" /\ Noted(u) /\ (i \notin s3 \/ s6)),
         q.pc \in {"look", "create", "again"} => s2'[Head(q.todo).id] # "none" \/ Pkg!Raced',
         q.pc = "undo_package" => Head(q.kept).id \notin s3' \/ s6',
         s3' \subseteq s3 \/ Noted(u),
         \A i \in s3' \ s3 : s2'[i] # "none" \/ Pkg!Raced'
  PROVE  Pkg!StoredKnown' /\ Pkg!DeclaredIsStored'
<1>0. Pkg!PkgShape /\ Pkg!StoredKnown /\ Pkg!DeclaredIsStored /\ \A w \in Uploaders : Pkg!RequestKnows(s4[w])
  BY DEF Pkg!PkgIInv
<1>1. /\ s4'[u] = q /\ \A w \in Uploaders \ {u} : s4'[w] = s4[w]
      /\ Pkg!Raced => Pkg!Raced'
      /\ s6' /\ q.answer = "failure" => Pkg!Raced'
  BY <1>0, Moved
<1>2. ASSUME NEW w \in Uploaders, s4'[w].pc \in {"look", "create", "again"}
      PROVE  s2'[Head(s4'[w].todo).id] # "none" \/ Pkg!Raced'
  <2>1. CASE w = u
    BY <1>1, <1>2, <2>1
  <2>2. CASE w # u
    <3>1. s4'[w] = s4[w] /\ Pkg!Serving(w)
      BY <1>1, <1>2, <2>2 DEF Pkg!Serving
    <3>2. s2[Head(s4[w].todo).id] # "none" \/ Pkg!Raced
      BY <1>0, <1>2, <3>1 DEF Pkg!StoredKnown, Pkg!Head_
    <3>3. Head(s4[w].todo).id \in PackageIds
      <4>1. s4[w].todo \in Seq(Pkg!PackageShape)
        BY <1>0, RequestFields
      <4>2. s4[w].todo # <<>>
        BY <1>0, <1>2, <3>1 DEF Pkg!RequestKnows, Pkg!Persisting
      <4>3. Head(s4[w].todo) \in Pkg!PackageShape
        BY <4>1, <4>2, Splits
      <4> QED
        BY <4>3 DEF Pkg!PackageShape
    <3>4. Noted(u) => s6'
      BY <2>2, <3>1 DEF Noted
    <3> QED
      BY <1>1, <3>1, <3>2, <3>3, <3>4
  <2> QED
    BY <2>1, <2>2
<1>3. ASSUME NEW w \in Uploaders, s4'[w].pc = "undo_package"
      PROVE  Head(s4'[w].kept).id \notin s3' \/ s6'
  <2>1. CASE w = u
    BY <1>1, <1>3, <2>1
  <2>2. CASE w # u
    <3>1. s4'[w] = s4[w] /\ Pkg!Serving(w)
      BY <1>1, <1>3, <2>2 DEF Pkg!Serving
    <3>2. Head(s4[w].kept).id \notin s3 \/ s6
      BY <1>0, <1>3, <3>1 DEF Pkg!StoredKnown, Pkg!Undone
    <3>3. Noted(u) => s6'
      BY <2>2, <3>1 DEF Noted
    <3> QED
      BY <3>1, <3>2, <3>3 DEF Moves
  <2> QED
    BY <2>1, <2>2
<1>4. ASSUME NEW i \in s3', s2'[i] = "none" PROVE Pkg!Raced'
  <2>1. CASE i \notin s3
    BY <1>4, <2>1
  <2>2. CASE i \in s3
    <3>1. s2[i] = "none" => Pkg!Raced
      BY <1>0, <2>2 DEF Pkg!DeclaredIsStored
    <3>2. q.answer = "failure" /\ s6 => Pkg!Raced'
      BY <1>1 DEF Moves
    <3> QED
      BY <1>1, <1>4, <2>2, <3>1, <3>2
  <2> QED
    BY <2>1, <2>2
<1> QED
  BY <1>2, <1>3, <1>4 DEF Pkg!StoredKnown, Pkg!DeclaredIsStored, Pkg!Head_, Pkg!Undone

\* A step that deletes at most its own row keeps what is known of the rows.
LEMMA RowsMove ==
  ASSUME Pkg!PkgIInv, NEW u \in Uploaders, NEW q, Moves(u, q),
         \/ s3 \subseteq s3'
         \/ /\ q.answer = "failure" /\ s4[u].pc = "undo_row"
            /\ s3 \subseteq s3' \cup {Head(s4[u].kept).id},
         \A p \in Pkg!Stands(q) : p.id \in s3' \/ Pkg!Raced'
  PROVE  Pkg!RowsKnown'
<1>0. Pkg!PkgShape /\ Pkg!RowsKnown /\ Pkg!OverlapKnown /\ \A w \in Uploaders : Pkg!RequestKnows(s4[w])
  BY DEF Pkg!PkgIInv
<1>1. /\ s4'[u] = q /\ \A w \in Uploaders \ {u} : s4'[w] = s4[w]
      /\ Pkg!Raced => Pkg!Raced'
      /\ s6' /\ q.answer = "failure" => Pkg!Raced'
  BY <1>0, Moved
<1>2. ASSUME NEW w \in Uploaders, w # u, NEW p \in Pkg!Stands(s4[w]) PROVE p.id \in s3' \/ Pkg!Raced'
  <2>1. p.id \in s3 \/ Pkg!Raced
    BY <1>0 DEF Pkg!RowsKnown
  <2>2. CASE s3 \subseteq s3'
    BY <1>1, <2>1, <2>2
  <2>3. CASE /\ q.answer = "failure" /\ s4[u].pc = "undo_row"
             /\ s3 \subseteq s3' \cup {Head(s4[u].kept).id}
    <3> DEFINE h == Head(s4[u].kept)
    <3>1. s4[u].kept # <<>> /\ "created" \in h.marks /\ Pkg!Serving(u)
      BY <1>0, <2>3 DEF Pkg!RequestKnows, Pkg!Undoing, Pkg!Serving
    <3>2. h \in Pkg!Members(s4[u].kept)
      <4>1. s4[u].kept \in Seq(Pkg!PackageShape)
        BY <1>0, RequestFields
      <4>2. Pkg!Members(s4[u].kept) = {h} \cup Pkg!Members(Tail(s4[u].kept))
        BY <3>1, <4>1, Splits
      <4> QED
        BY <4>2, Zenon
    <3>3. ~s6 => p.id # h.id
      BY <1>0, <1>2, <3>1, <3>2 DEF Pkg!OverlapKnown
    <3> HIDE DEF h
    <3>4. s6 => Pkg!Raced'
      BY <1>1, <2>3 DEF Moves
    <3> QED
      BY <1>1, <2>1, <2>3, <3>3, <3>4 DEF h
  <2> QED
    BY <2>2, <2>3
<1> QED
  BY <1>1, <1>2 DEF Pkg!RowsKnown

\* A request that writes beside another one is noted as overlapping.
LEMMA OverlapMove ==
  ASSUME Pkg!PkgIInv, NEW u \in Uploaders, NEW q, Moves(u, q),
         \A p \in Pkg!Stands(q) : p \in Pkg!Stands(s4[u]) \/ Pkg!HasSaved(s4[u]),
         Pkg!HasSaved(q) => Pkg!HasSaved(s4[u]) \/ Noted(u),
         \A p \in Pkg!Members(q.kept) : "created" \in p.marks =>
            \/ p.id \notin s3
            \/ \E o \in Pkg!Members(s4[u].kept) : "created" \in o.marks /\ o.id = p.id
  PROVE  Pkg!OverlapKnown'
<1>0. /\ Pkg!PkgShape /\ Pkg!RowsKnown /\ Pkg!OverlapKnown
      /\ \A w \in Uploaders : Pkg!RequestKnows(s4[w])
  BY DEF Pkg!PkgIInv
<1>1. s4'[u] = q /\ \A w \in Uploaders \ {u} : s4'[w] = s4[w]
  BY <1>0, Moved
<1> SUFFICES ASSUME ~s6' PROVE Pkg!OverlapKnown'
  BY Zenon DEF Pkg!OverlapKnown
<1>2. ~s6
  BY DEF Moves
<1>3. ASSUME NEW w \in Uploaders, w # u PROVE ~(Pkg!HasSaved(q) /\ Pkg!HasSaved(s4[w]))
  <2>1. ~(Pkg!HasSaved(s4[u]) /\ Pkg!HasSaved(s4[w]))
    BY <1>0, <1>2, <1>3 DEF Pkg!OverlapKnown
  <2>2. Pkg!HasSaved(s4[w]) => Pkg!Serving(w)
    BY DEF Pkg!HasSaved, Pkg!Serving
  <2> QED
    BY <1>3, <2>1, <2>2 DEF Noted
<1>4. ASSUME NEW w \in Uploaders, w # u, Pkg!Serving(w),
             NEW p \in Pkg!Stands(q), NEW o \in Pkg!Members(s4[w].kept), "created" \in o.marks
      PROVE  p.id # o.id
  <2>1. Pkg!HasSaved(s4[w])
    <3>1. "saved" \in o.marks
      BY <1>0, <1>4 DEF Pkg!RequestKnows
    <3> QED
      BY <1>4, <3>1 DEF Pkg!HasSaved, Pkg!SavedOf, Pkg!Serving
  <2>2. p \in Pkg!Stands(s4[u])
    BY <1>0, <1>2, <1>4, <2>1 DEF Pkg!OverlapKnown
  <2> QED
    BY <1>0, <1>2, <1>4, <2>2 DEF Pkg!OverlapKnown
<1>5. ASSUME NEW w \in Uploaders, w # u,
             NEW p \in Pkg!Stands(s4[w]), NEW o \in Pkg!Members(q.kept), "created" \in o.marks
      PROVE  p.id # o.id
  <2>1. p.id \in s3
    BY <1>0, <1>2 DEF Pkg!RowsKnown, Pkg!Raced
  <2>2. Pkg!Serving(u)
    BY DEF Moves, Pkg!Serving
  <2>3. \A x \in Pkg!Members(s4[u].kept) : "created" \in x.marks => p.id # x.id
    BY <1>0, <1>2, <1>5, <2>2 DEF Pkg!OverlapKnown
  <2> QED
    BY <1>5, <2>1, <2>3
<1>6. ASSUME NEW v \in Uploaders, NEW w \in Uploaders, v # w
      PROVE  /\ ~(Pkg!HasSaved(s4'[v]) /\ Pkg!HasSaved(s4'[w]))
             /\ s4'[w].pc \notin {"idle", "ended"} =>
                  \A p \in Pkg!Stands(s4'[v]), o \in Pkg!Members(s4'[w].kept) :
                     "created" \in o.marks => p.id # o.id
  <2>1. CASE v = u
    BY <1>1, <1>3, <1>4, <1>6, <2>1 DEF Pkg!Serving
  <2>2. CASE w = u
    BY <1>1, <1>3, <1>5, <1>6, <2>2
  <2>3. CASE v # u /\ w # u
    BY <1>0, <1>1, <1>2, <1>6, <2>3 DEF Pkg!OverlapKnown, Pkg!Serving
  <2> QED
    BY <2>1, <2>2, <2>3
<1> QED
  BY <1>6 DEF Pkg!OverlapKnown, Pkg!Serving

\* A request that is over stays over, and one that moves has not been alone for the others.
LEMMA LoneMove ==
  ASSUME Pkg!PkgIInv, NEW u \in Uploaders, NEW q, Moves(u, q),
         q.undo = "whole" => /\ s4[u].undo = "whole"
                             /\ Pkg!Differ(s4[u], s7[u], s3, s2) => Pkg!Differ(q, s7[u], s3', s2')
  PROVE  Pkg!OverKnown' /\ Pkg!LoneKnows'
<1>0. Pkg!PkgShape /\ Pkg!OverKnown /\ Pkg!LoneKnows
  BY DEF Pkg!PkgIInv
<1>1. s4'[u] = q /\ \A w \in Uploaders \ {u} : s4'[w] = s4[w]
  BY <1>0, Moved
<1>2. \A w \in Uploaders : s7[w].over \subseteq Uploaders
  BY <1>0 DEF Pkg!PkgShape, Pkg!BeforeShape
<1>3. \A w \in Uploaders : \A x \in s7[w].over : s4[x].pc = "ended"
  BY <1>0 DEF Pkg!OverKnown, Pkg!AtPkg
<1>4. \A w \in Uploaders : \A x \in s7[w].over : x # u /\ s4'[x].pc = "ended"
  BY <1>1, <1>2, <1>3 DEF Moves
<1>5. Pkg!OverKnown'
  BY <1>4 DEF Pkg!OverKnown, Pkg!AtPkg, Moves
<1>6. ASSUME NEW w \in Uploaders, s4'[w].pc # "idle", s4'[w].undo = "whole", Pkg!Lone(w)'
      PROVE  Pkg!Differ(s4'[w], s7'[w], s3', s2')
  <2>1. \A x \in Uploaders \ {w} : s4'[x].pc = "idle" \/ x \in s7[w].over
    BY <1>6 DEF Pkg!Lone, Pkg!AtPkg, Moves
  <2>2. w = u
    <3>1. w # u => q.pc = "idle" \/ u \in s7[w].over
      BY <1>1, <2>1
    <3> QED
      BY <1>4, <3>1 DEF Moves
  <2>3. Pkg!Lone(u)
    BY <1>1, <2>1, <2>2 DEF Pkg!Lone, Pkg!AtPkg
  <2>4. s4[u].undo = "whole" /\ s4[u].pc # "idle"
    BY <1>1, <1>6, <2>2 DEF Moves
  <2>5. Pkg!Differ(s4[u], s7[u], s3, s2)
    BY <1>0, <2>3, <2>4 DEF Pkg!LoneKnows, Pkg!AtPkg
  <2>6. Pkg!Differ(q, s7[u], s3', s2')
    BY <1>1, <1>6, <2>2, <2>5
  <2> QED
    BY <1>1, <2>2, <2>6 DEF Moves
<1> QED
  BY <1>5, <1>6 DEF Pkg!LoneKnows, Pkg!AtPkg

\* The parts of the invariant together.
LEMMA RequestStep ==
  ASSUME Pkg!PkgIInv, NEW u \in Uploaders, NEW q \in Pkg!UploadShape, Moves(u, q), Pkg!RequestKnows(q),
         s1' \subseteq Assets, s2' \in [PackageIds -> Builds \cup {"none"}], s3' \subseteq PackageIds,
         s5' \in 0..MaxFaults, s6' \in BOOLEAN,
         Pkg!IconsKnown', Pkg!IconsServed', Pkg!StoredKnown', Pkg!DeclaredIsStored',
         Pkg!RowsKnown', Pkg!OverlapKnown', Pkg!OverKnown', Pkg!LoneKnows'
  PROVE  Pkg!PkgIInv'
<1>0. Pkg!PkgShape /\ \A w \in Uploaders : Pkg!RequestKnows(s4[w])
  BY DEF Pkg!PkgIInv
<1>1. s4'[u] = q /\ \A w \in Uploaders \ {u} : s4'[w] = s4[w]
  BY <1>0, Moved
<1>2. s4' \in [Uploaders -> Pkg!UploadShape]
  BY <1>0 DEF Moves, Pkg!PkgShape
<1>3. s7' \in [Uploaders -> Pkg!BeforeShape]
  BY <1>0 DEF Moves, Pkg!PkgShape
<1>4. Pkg!PkgShape'
  BY <1>2, <1>3 DEF Pkg!PkgShape
<1>5. \A w \in Uploaders : Pkg!RequestKnows(s4'[w])
  BY <1>0, <1>1
<1> QED
  BY <1>4, <1>5 DEF Pkg!PkgIInv

\* A step that leaves the package bucket and the rows alone.
LEMMA QuietStep ==
  ASSUME Pkg!PkgIInv, NEW u \in Uploaders, NEW q \in Pkg!UploadShape, Moves(u, q), Pkg!RequestKnows(q),
         s1' \subseteq Assets, s2' = s2, s3' = s3, s5' \in 0..MaxFaults, s6' \in BOOLEAN,
         s1 \subseteq s1' \/ q.answer = "failure",
         q.pc \in Pkg!Persisting => Head(q.todo).assets \subseteq s1' \/ Failed,
         q.pc \in {"look", "create", "again"} =>
            s4[u].pc \in {"look", "create", "again"} /\ Head(q.todo).id = Head(s4[u].todo).id,
         q.pc = "undo_package" => Head(q.kept).id \notin s3,
         \A p \in Pkg!Stands(q) : p \in Pkg!Stands(s4[u]) \/ (p.id \in s3 /\ Pkg!HasSaved(s4[u])),
         Pkg!HasSaved(q) => Pkg!HasSaved(s4[u]),
         \A p \in Pkg!Members(q.kept) : "created" \in p.marks =>
            \E o \in Pkg!Members(s4[u].kept) : "created" \in o.marks /\ o.id = p.id,
         q.undo = "whole" => /\ s4[u].undo = "whole"
                             /\ Pkg!Differ(s4[u], s7[u], s3, s2) => Pkg!Differ(q, s7[u], s3, s2)
  PROVE  Pkg!PkgIInv'
<1>0. /\ Pkg!PkgShape /\ Pkg!StoredKnown /\ Pkg!RowsKnown
  BY DEF Pkg!PkgIInv
<1>1. s2' \in [PackageIds -> Builds \cup {"none"}] /\ s3' \subseteq PackageIds
  BY <1>0 DEF Pkg!PkgShape
<1>2. Pkg!IconsKnown' /\ Pkg!IconsServed'
  BY IconsMove
<1>3. Pkg!Raced => Pkg!Raced'
  BY <1>0, Moved
<1>4. Pkg!StoredKnown' /\ Pkg!DeclaredIsStored'
  <2>1. q.pc \in {"look", "create", "again"} => s2'[Head(q.todo).id] # "none" \/ Pkg!Raced'
    BY <1>0, <1>3 DEF Pkg!StoredKnown, Pkg!Head_
  <2> QED
    BY <1>1, <2>1, StoredMove
<1>5. Pkg!RowsKnown'
  <2>1. \A p \in Pkg!Stands(q) : p.id \in s3' \/ Pkg!Raced'
    BY <1>0, <1>3 DEF Pkg!RowsKnown
  <2> QED
    BY <2>1, RowsMove
<1>6. Pkg!OverlapKnown'
  BY OverlapMove
<1>7. Pkg!OverKnown' /\ Pkg!LoneKnows'
  BY LoneMove
<1> QED
  BY <1>1, <1>2, <1>4, <1>5, <1>6, <1>7, RequestStep

------------------------------------------------------------------------------
(* Packages: a request that persists, and one that rolls back *)

SavedAmong(S) == {p \in S : "saved" \in p.marks}
CreatedIds(S) == {p.id : p \in {x \in S : "created" \in x.marks}}

Persists(at, p, t, k) == Request(at, <<p>> \o t, k, "none", "whole")
PersistsWell(at, p, t, k) ==
  /\ at \in Pkg!Persisting /\ p \in Pkg!PackageShape
  /\ t \in Seq(Pkg!PackageShape) /\ k \in Seq(Pkg!PackageShape) /\ Len(t) + Len(k) <= 1
  /\ Pkg!HeadKnows(at, p)
  /\ \A o \in Pkg!Members(t) : o.marks = {} /\ o.assets = {}
  /\ \A o \in Pkg!Members(k) : "created" \in o.marks => "saved" \in o.marks

Undoes(at, p, k, undone) == Request(at, <<>>, <<p>> \o k, "failure", undone)
UndoesWell(at, p, k, undone) ==
  /\ at \in Pkg!Undoing /\ undone \in {"whole", "partial"}
  /\ p \in Pkg!PackageShape /\ k \in Seq(Pkg!PackageShape) /\ Len(k) <= 1
  /\ "created" \in p.marks => "saved" \in p.marks /\ k = <<>>
  /\ \A o \in Pkg!Members(k) : "created" \in o.marks => "saved" \in o.marks
  /\ at = "undo_row" => "created" \in p.marks
  /\ at \in {"undo_get", "undo_look", "undo_package"} => "saved" \in p.marks

\* What there is to know of a request that persists p.
PersistsAs(q, at, p, t, k) ==
  /\ q \in Pkg!UploadShape /\ Pkg!RequestKnows(q)
  /\ q.pc = at /\ q.todo = <<p>> \o t /\ q.kept = k /\ q.answer = "none" /\ q.undo = "whole"
  /\ Head(q.todo) = p /\ Tail(q.todo) = t /\ Len(q.todo) = Len(t) + 1
  /\ Pkg!Stands(q) = Pkg!Members(k)
  /\ Pkg!SavedOf(q) = SavedAmong({p} \cup Pkg!Members(k))
  /\ Pkg!RowsOf(q) = CreatedIds(Pkg!Members(k))
  /\ Pkg!Current(q) = p /\ Pkg!Others(q) = Pkg!Members(t) \cup Pkg!Members(k)

\* What can be read off a request that persists.
LEMMA PersistsHas ==
  ASSUME NEW at, NEW p, NEW t, NEW k, PersistsWell(at, p, t, k)
  PROVE  PersistsAs(Persists(at, p, t, k), at, p, t, k)
<1> DEFINE q == Persists(at, p, t, k)
           n == <<p>> \o t
<1>1. q.pc = at /\ q.todo = n /\ q.kept = k /\ q.answer = "none" /\ q.undo = "whole"
  <2>1. q = Request(at, n, k, "none", "whole")
    BY DEF Persists
  <2> HIDE DEF q, n
  <2> QED
    BY <2>1 DEF Request
<1>2. /\ n \in Seq(Pkg!PackageShape) /\ Len(n) = Len(t) + 1 /\ n # <<>>
      /\ Head(n) = p /\ Tail(n) = t
      /\ Pkg!Members(n) = {p} \cup Pkg!Members(t)
  BY Prepends DEF PersistsWell
<1>3. Len(t) \in Nat /\ Len(k) \in Nat /\ Len(t) + Len(k) <= 1 /\ at \in Pkg!Persisting
      /\ k \in Seq(Pkg!PackageShape) /\ Pkg!HeadKnows(at, p)
  BY DEF PersistsWell
<1>4. q \in Pkg!UploadShape
  BY <1>2, <1>3, RequestShaped DEF Persists
<1> HIDE DEF q, n
<1>5. Pkg!RequestKnows(q)
  <2>1. Len(q.todo) + Len(q.kept) <= 2
    BY <1>1, <1>2, <1>3
  <2>3. \A o \in Pkg!Members(q.kept) : "created" \in o.marks => "saved" \in o.marks
    BY <1>1 DEF PersistsWell
  <2>4. \A o \in Pkg!Members(Tail(q.todo)) : o.marks = {} /\ o.assets = {}
    BY <1>1, <1>2 DEF PersistsWell
  <2>5. q.pc \notin Pkg!Undoing /\ q.pc \notin {"idle", "ended", "undo_row", "undo_get", "undo_look", "undo_package"}
    BY <1>1, <1>3 DEF Pkg!Persisting, Pkg!Undoing
  <2> QED
    BY <1>1, <1>2, <1>3, <2>1, <2>3, <2>4, <2>5 DEF Pkg!RequestKnows
<1>6. Pkg!Stands(q) = Pkg!Members(k)
  BY <1>1, <1>3 DEF Pkg!Stands
<1>7. Pkg!SavedOf(q) = SavedAmong({p} \cup Pkg!Members(k))
  BY <1>1, <1>2 DEF Pkg!SavedOf, SavedAmong, PersistsWell
<1>8. Pkg!RowsOf(q) = CreatedIds(Pkg!Members(k))
  BY <1>1, <1>3 DEF Pkg!RowsOf, CreatedIds, Pkg!Persisting
<1>9. Pkg!Current(q) = p /\ Pkg!Others(q) = Pkg!Members(t) \cup Pkg!Members(k)
  BY <1>1, <1>2, <1>3 DEF Pkg!Current, Pkg!Others, Pkg!Persisting, Pkg!Undoing
<1> QED
  BY <1>1, <1>2, <1>4, <1>5, <1>6, <1>7, <1>8, <1>9 DEF q, n, PersistsAs

\* What there is to know of a request that rolls p back.
UndoesAs(q, at, p, k, undone) ==
  /\ q \in Pkg!UploadShape /\ Pkg!RequestKnows(q)
  /\ q.pc = at /\ q.todo = <<>> /\ q.kept = <<p>> \o k /\ q.answer = "failure" /\ q.undo = undone
  /\ Head(q.kept) = p /\ Tail(q.kept) = k /\ Len(q.kept) = Len(k) + 1
  /\ Pkg!Members(q.kept) = {p} \cup Pkg!Members(k)
  /\ Pkg!Stands(q) = {}
  /\ Pkg!SavedOf(q) = SavedAmong({p} \cup Pkg!Members(k))
  /\ Pkg!RowsOf(q) = CreatedIds((IF at \in {"undo_get", "undo_look", "undo_package"} THEN {} ELSE {p})
                                  \cup Pkg!Members(k))
  /\ Pkg!Current(q) = p /\ Pkg!Others(q) = Pkg!Members(k)

\* What can be read off a request that rolls back.
LEMMA UndoesHas ==
  ASSUME NEW at, NEW p, NEW k, NEW undone, UndoesWell(at, p, k, undone)
  PROVE  UndoesAs(Undoes(at, p, k, undone), at, p, k, undone)
<1> DEFINE q == Undoes(at, p, k, undone)
           n == <<p>> \o k
<1>1. q.pc = at /\ q.todo = <<>> /\ q.kept = n /\ q.answer = "failure" /\ q.undo = undone
  <2>1. q = Request(at, <<>>, n, "failure", undone)
    BY DEF Undoes
  <2> HIDE DEF q, n
  <2> QED
    BY <2>1 DEF Request
<1>2. /\ n \in Seq(Pkg!PackageShape) /\ Len(n) = Len(k) + 1 /\ n # <<>>
      /\ Head(n) = p /\ Tail(n) = k
      /\ Pkg!Members(n) = {p} \cup Pkg!Members(k)
  BY Prepends DEF UndoesWell
<1>3. Len(k) \in Nat /\ Len(k) <= 1 /\ at \in Pkg!Undoing /\ undone \in {"whole", "partial"}
  BY DEF UndoesWell
<1>4. q \in Pkg!UploadShape
  BY <1>2, <1>3, Empties, RequestShaped DEF Undoes
<1> HIDE DEF q, n
<1>5. Pkg!RequestKnows(q)
  <2>1. Len(q.todo) + Len(q.kept) <= 2
    BY <1>1, <1>2, <1>3, Empties
  <2>2. Tail(q.kept) # <<>> => "created" \notin Head(q.kept).marks
    BY <1>1, <1>2 DEF UndoesWell
  <2>3. \A o \in Pkg!Members(q.kept) : "created" \in o.marks => "saved" \in o.marks
    BY <1>1, <1>2 DEF UndoesWell
  <2>4. q.pc \notin Pkg!Persisting /\ q.pc \notin {"idle", "ended"}
    BY <1>1, <1>3 DEF Pkg!Persisting, Pkg!Undoing
  <2>5. /\ q.pc = "undo_row" => "created" \in Head(q.kept).marks
        /\ q.pc \in {"undo_get", "undo_look", "undo_package"} => "saved" \in Head(q.kept).marks
    BY <1>1, <1>2 DEF UndoesWell
  <2> QED
    BY <1>1, <1>2, <2>1, <2>2, <2>3, <2>4, <2>5 DEF Pkg!RequestKnows
<1>6. Pkg!Stands(q) = {}
  BY <1>1, <1>3 DEF Pkg!Stands, Pkg!Persisting, Pkg!Undoing
<1>7. Pkg!SavedOf(q) = SavedAmong({p} \cup Pkg!Members(k))
  BY <1>1, <1>2, Empties DEF Pkg!SavedOf, SavedAmong
<1>8. Pkg!RowsOf(q) = CreatedIds((IF at \in {"undo_get", "undo_look", "undo_package"} THEN {} ELSE {p})
                                   \cup Pkg!Members(k))
  BY <1>1, <1>2 DEF Pkg!RowsOf, CreatedIds
<1>9. Pkg!Current(q) = p /\ Pkg!Others(q) = Pkg!Members(k)
  BY <1>1, <1>2, <1>3 DEF Pkg!Current, Pkg!Others, Pkg!Persisting, Pkg!Undoing
<1> QED
  BY <1>1, <1>2, <1>4, <1>5, <1>6, <1>7, <1>8, <1>9 DEF q, n, UndoesAs

\* Every request that persists is one.
LEMMA PersistingIs ==
  ASSUME Pkg!PkgIInv, NEW u \in Uploaders, s4[u].pc \in Pkg!Persisting
  PROVE  LET r == s4[u]
         IN  /\ r = Persists(r.pc, Head(r.todo), Tail(r.todo), r.kept)
             /\ PersistsWell(r.pc, Head(r.todo), Tail(r.todo), r.kept)
<1> DEFINE r == s4[u]
           h == Head(r.todo)
           t == Tail(r.todo)
<1>1. Pkg!PkgShape /\ Pkg!RequestKnows(r)
  BY DEF Pkg!PkgIInv
<1>2. /\ r.todo \in Seq(Pkg!PackageShape) /\ r.kept \in Seq(Pkg!PackageShape)
      /\ r \in Pkg!UploadShape
  BY <1>1, RequestFields
<1>3. r.todo # <<>> /\ r.answer = "none" /\ r.undo = "whole"
  BY <1>1 DEF Pkg!RequestKnows
<1>4. /\ h \in Pkg!PackageShape /\ t \in Seq(Pkg!PackageShape) /\ Len(r.todo) = Len(t) + 1
      /\ r.todo = <<h>> \o t
      /\ Pkg!Members(r.todo) = {h} \cup Pkg!Members(t)
  BY <1>2, <1>3, Splits
<1>5. r = Request(r.pc, r.todo, r.kept, r.answer, r.undo)
  BY <1>2 DEF Pkg!UploadShape, Request
<1> HIDE DEF r, h, t
<1>6. PersistsWell(r.pc, h, t, r.kept)
  <2>1. Len(r.todo) + Len(r.kept) <= 2
    BY <1>1 DEF Pkg!RequestKnows
  <2>2. Len(t) + Len(r.kept) <= 1
    <3>1. Len(t) \in Nat /\ Len(r.kept) \in Nat
      BY <1>2, <1>4, MembersIn
    <3>2. Len(r.todo) = Len(t) + 1
      BY <1>4
    <3> DEFINE a == Len(t)
               b == Len(r.kept)
               c == Len(r.todo)
    <3>3. a \in Nat /\ b \in Nat /\ c = a + 1 /\ c + b <= 2
      BY <2>1, <3>1, <3>2
    <3> HIDE DEF a, b, c
    <3>4. a + b <= 1
      BY <3>3
    <3> QED
      BY <3>4 DEF a, b
  <2>4. r.pc \in Pkg!Persisting
    BY DEF r
  <2>5. Pkg!HeadKnows(r.pc, h) /\ \A o \in Pkg!Members(t) : o.marks = {} /\ o.assets = {}
    BY <1>1, <2>4 DEF Pkg!RequestKnows, h, t
  <2>6. \A o \in Pkg!Members(r.kept) : "created" \in o.marks => "saved" \in o.marks
    BY <1>1 DEF Pkg!RequestKnows
  <2> QED
    BY <1>2, <1>4, <2>2, <2>4, <2>5, <2>6 DEF PersistsWell
<1> QED
  BY <1>3, <1>4, <1>5, <1>6 DEF Persists, r, h, t

\* Every request that rolls back is one.
LEMMA UndoingIs ==
  ASSUME Pkg!PkgIInv, NEW u \in Uploaders, s4[u].pc \in Pkg!Undoing
  PROVE  LET r == s4[u]
         IN  /\ r = Undoes(r.pc, Head(r.kept), Tail(r.kept), r.undo)
             /\ UndoesWell(r.pc, Head(r.kept), Tail(r.kept), r.undo)
<1> DEFINE r == s4[u]
           h == Head(r.kept)
           t == Tail(r.kept)
<1>1. Pkg!PkgShape /\ Pkg!RequestKnows(r)
  BY DEF Pkg!PkgIInv
<1>2. r.kept \in Seq(Pkg!PackageShape) /\ r \in Pkg!UploadShape /\ r.undo \in {"whole", "partial"}
  BY <1>1, RequestFields
<1>3. r.todo = <<>> /\ r.kept # <<>> /\ r.answer = "failure"
  BY <1>1 DEF Pkg!RequestKnows
<1>4. /\ h \in Pkg!PackageShape /\ t \in Seq(Pkg!PackageShape) /\ Len(r.kept) = Len(t) + 1
      /\ r.kept = <<h>> \o t
      /\ Pkg!Members(r.kept) = {h} \cup Pkg!Members(t)
  BY <1>2, <1>3, Splits
<1>5. r = Request(r.pc, r.todo, r.kept, r.answer, r.undo)
  BY <1>2 DEF Pkg!UploadShape, Request
<1> HIDE DEF r, h, t
<1>6. UndoesWell(r.pc, h, t, r.undo)
  <2>1. Len(t) \in Nat /\ Len(r.todo) = 0 /\ Len(r.todo) + Len(r.kept) <= 2
    BY <1>1, <1>3, <1>4 DEF Pkg!RequestKnows
  <2>2. Len(t) <= 1
    BY <1>4, <2>1
  <2>3. \A o \in Pkg!Members(r.kept) : "created" \in o.marks => "saved" \in o.marks
    BY <1>1 DEF Pkg!RequestKnows
  <2>4. r.pc \in Pkg!Undoing
    BY DEF r
  <2>5. /\ r.pc = "undo_row" => "created" \in h.marks
        /\ r.pc \in {"undo_get", "undo_look", "undo_package"} => "saved" \in h.marks
        /\ t # <<>> => "created" \notin h.marks
    BY <1>1, <2>4 DEF Pkg!RequestKnows, h, t
  <2> QED
    BY <1>2, <1>4, <2>2, <2>3, <2>4, <2>5 DEF UndoesWell
<1> QED
  BY <1>3, <1>4, <1>5, <1>6 DEF Undoes, r, h, t

------------------------------------------------------------------------------
(* Packages: the steps that leave the package bucket and the rows alone *)

\* A call that fails or not keeps the number of faults within its bound.
LEMMA FaultsCounted ==
  ASSUME Pkg!PkgShape, Pkg!Fault \/ Pkg!Fine
  PROVE  s5' \in 0..MaxFaults
BY ServicesAssumption DEF Pkg!PkgShape, Pkg!Fault, Pkg!Fine, Pkg!PackagesAssumption

\* What a request that has been alone found is told by the packages it has saved.
LEMMA DifferKept ==
  ASSUME NEW r, NEW q, NEW b, NEW rows, NEW stored,
         Pkg!Differ(r, b, rows, stored), Pkg!RowsOf(q) = Pkg!RowsOf(r),
         \A o \in Pkg!SavedOf(q) : \E p \in Pkg!SavedOf(r) :
            p.id = o.id /\ p.build = o.build /\ Pkg!Restored(p) = Pkg!Restored(o),
         \A p \in Pkg!SavedOf(r) : p.id \in Pkg!Exempt(b) \/ \E o \in Pkg!SavedOf(q) : o.id = p.id,
         q.pc \in {"remap", "save"} => Pkg!Restored(Head(q.todo)) = stored[Head(q.todo).id],
         \A o \in Pkg!Others(q) : o.id = Pkg!Current(q).id => o.id \in b.twice
  PROVE  Pkg!Differ(q, b, rows, stored)
<1>1. /\ rows = b.declared \cup Pkg!RowsOf(r) /\ Pkg!RowsOf(r) \cap b.declared = {}
      /\ \A p \in Pkg!SavedOf(r) :
           p.id \notin Pkg!Exempt(b) => stored[p.id] = p.build /\ Pkg!Restored(p) = b.bucket[p.id]
      /\ \A i \in PackageIds \ Pkg!Exempt(b) :
           stored[i] = b.bucket[i] \/ \E p \in Pkg!SavedOf(r) : p.id = i
  BY DEF Pkg!Differ
<1>2. \A o \in Pkg!SavedOf(q) :
        o.id \notin Pkg!Exempt(b) => stored[o.id] = o.build /\ Pkg!Restored(o) = b.bucket[o.id]
  <2> SUFFICES ASSUME NEW o \in Pkg!SavedOf(q), o.id \notin Pkg!Exempt(b)
               PROVE  stored[o.id] = o.build /\ Pkg!Restored(o) = b.bucket[o.id]
    OBVIOUS
  <2>1. PICK p \in Pkg!SavedOf(r) : p.id = o.id /\ p.build = o.build /\ Pkg!Restored(p) = Pkg!Restored(o)
    OBVIOUS
  <2> QED
    BY <1>1, <2>1
<1>3. \A i \in PackageIds \ Pkg!Exempt(b) :
        stored[i] = b.bucket[i] \/ \E o \in Pkg!SavedOf(q) : o.id = i
  <2> SUFFICES ASSUME NEW i \in PackageIds \ Pkg!Exempt(b), stored[i] # b.bucket[i]
               PROVE  \E o \in Pkg!SavedOf(q) : o.id = i
    OBVIOUS
  <2>1. PICK p \in Pkg!SavedOf(r) : p.id = i
    BY <1>1
  <2> QED
    BY <2>1
<1> QED
  BY <1>1, <1>2, <1>3 DEF Pkg!Differ

\* The shared part of a step's outcome: the faults counted, the history of the others.
Calls(u) ==
  /\ s7' = s7 /\ (Pkg!Fault \/ Pkg!Fine) /\ s6' \in BOOLEAN /\ (s6 => s6')

\* A request goes on persisting the same package.
LEMMA PersistsOn ==
  ASSUME Pkg!PkgIInv, NEW u \in Uploaders, NEW cur, NEW h, NEW t, NEW k, NEW at, NEW p,
         s4[u] = Persists(cur, h, t, k), PersistsWell(cur, h, t, k), PersistsWell(at, p, t, k),
         s4' = [s4 EXCEPT ![u] = Persists(at, p, t, k)], Calls(u),
         s2' = s2, s3' = s3, s1 \subseteq s1', s1' \subseteq Assets,
         p.id = h.id, p.build = h.build, "saved" \in p.marks => "saved" \in h.marks,
         "saved" \in h.marks => "saved" \in p.marks /\ Pkg!Restored(p) = Pkg!Restored(h),
         h.assets \subseteq s1 \/ Failed => p.assets \subseteq s1' \/ Failed,
         at \in {"look", "create", "again"} => cur \in {"look", "create", "again"},
         at \in {"remap", "save"} =>
            \/ Pkg!Restored(p) = s2[p.id]
            \/ cur \in {"remap", "save"} /\ Pkg!Restored(p) = Pkg!Restored(h)
  PROVE  Pkg!PkgIInv'
<1> DEFINE r == s4[u]
           q == Persists(at, p, t, k)
<1>0. Pkg!PkgShape /\ Pkg!IconsKnown
  BY DEF Pkg!PkgIInv
<1>1. /\ r.pc = cur /\ r.kept = k /\ r.answer = "none" /\ r.undo = "whole"
      /\ Head(r.todo) = h /\ Pkg!Stands(r) = Pkg!Members(k)
      /\ Pkg!SavedOf(r) = SavedAmong({h} \cup Pkg!Members(k))
      /\ Pkg!RowsOf(r) = CreatedIds(Pkg!Members(k))
      /\ Pkg!Current(r) = h /\ Pkg!Others(r) = Pkg!Members(t) \cup Pkg!Members(k)
  <2>1. PersistsAs(r, cur, h, t, k)
    BY PersistsHas
  <2> HIDE DEF r
  <2> QED
    BY <2>1 DEF PersistsAs
<1>2. /\ q \in Pkg!UploadShape /\ Pkg!RequestKnows(q)
      /\ q.pc = at /\ q.kept = k /\ q.answer = "none" /\ q.undo = "whole"
      /\ Head(q.todo) = p /\ Pkg!Stands(q) = Pkg!Members(k)
      /\ Pkg!SavedOf(q) = SavedAmong({p} \cup Pkg!Members(k))
      /\ Pkg!RowsOf(q) = CreatedIds(Pkg!Members(k))
      /\ Pkg!Current(q) = p /\ Pkg!Others(q) = Pkg!Members(t) \cup Pkg!Members(k)
  <2>1. PersistsAs(q, at, p, t, k)
    BY PersistsHas
  <2> HIDE DEF q
  <2> QED
    BY <2>1 DEF PersistsAs
<1>3. at \in Pkg!Persisting /\ cur \in Pkg!Persisting
  BY DEF PersistsWell
<1>4. s5' \in 0..MaxFaults /\ s7' = s7 /\ s6' \in BOOLEAN /\ (s6 => s6') /\ s4' = [s4 EXCEPT ![u] = q]
  BY <1>0, FaultsCounted DEF Calls
<1> HIDE DEF r, q
<1>5. Moves(u, q)
  BY <1>1, <1>2, <1>3, <1>4 DEF Moves, Pkg!Persisting, r
<1>6. Head(q.todo).assets \subseteq s1' \/ Failed
  <2>1. h.assets \subseteq s1 \/ Failed
    BY <1>0, <1>1, <1>3 DEF Pkg!IconsKnown, Pkg!Head_, Failed, r
  <2> QED
    BY <1>2, <2>1
<1>7. /\ \A o \in Pkg!SavedOf(q) : \E x \in Pkg!SavedOf(r) :
           x.id = o.id /\ x.build = o.build /\ Pkg!Restored(x) = Pkg!Restored(o)
      /\ \A x \in Pkg!SavedOf(r) : \E o \in Pkg!SavedOf(q) : o.id = x.id
  BY <1>1, <1>2 DEF SavedAmong
<1>8. Pkg!HasSaved(q) => Pkg!HasSaved(r)
  BY <1>1, <1>3, <1>7 DEF Pkg!HasSaved, Pkg!Persisting
<1>9. Pkg!Differ(r, s7[u], s3, s2) => Pkg!Differ(q, s7[u], s3, s2)
  <2> SUFFICES ASSUME Pkg!Differ(r, s7[u], s3, s2) PROVE Pkg!Differ(q, s7[u], s3, s2)
    OBVIOUS
  <2>1. cur \in {"remap", "save"} => Pkg!Restored(h) = s2[h.id]
    BY <1>1 DEF Pkg!Differ
  <2>2. q.pc \in {"remap", "save"} => Pkg!Restored(Head(q.todo)) = s2[Head(q.todo).id]
    BY <1>2, <2>1
  <2>3. Pkg!RowsOf(q) = Pkg!RowsOf(r)
    BY <1>1, <1>2
  <2>4. \A o \in Pkg!Others(q) : o.id = Pkg!Current(q).id => o.id \in s7[u].twice
    BY <1>1, <1>2 DEF Pkg!Differ
  <2> QED
    BY <1>7, <2>2, <2>3, <2>4, DifferKept
<1>10. /\ q.pc \in {"look", "create", "again"} =>
            r.pc \in {"look", "create", "again"} /\ Head(q.todo).id = Head(r.todo).id
       /\ q.pc # "undo_package"
       /\ \A x \in Pkg!Stands(q) : x \in Pkg!Stands(r)
       /\ \A x \in Pkg!Members(q.kept) : "created" \in x.marks =>
            \E o \in Pkg!Members(r.kept) : "created" \in o.marks /\ o.id = x.id
  BY <1>1, <1>2, <1>3 DEF Pkg!Persisting
<1> QED
  BY <1>1, <1>2, <1>4, <1>5, <1>6, <1>8, <1>9, <1>10, QuietStep DEF r

\* A request that cannot persist its package starts to roll back.
LEMMA RollsBack ==
  ASSUME Pkg!PkgIInv, NEW u \in Uploaders, NEW cur, NEW h, NEW t, NEW k,
         s4[u] = Persists(cur, h, t, k), PersistsWell(cur, h, t, k),
         s4' = [s4 EXCEPT ![u] = Undoes("undo_assets", h, k, "whole")], Calls(u),
         s1' = s1, s2' = s2, s3' = s3
  PROVE  Pkg!PkgIInv'
<1> DEFINE r == s4[u]
           q == Undoes("undo_assets", h, k, "whole")
<1>0. Pkg!PkgShape
  BY DEF Pkg!PkgIInv
<1>1. cur \in Pkg!Persisting /\ "created" \notin h.marks
  BY DEF PersistsWell, Pkg!HeadKnows, Pkg!Persisting
<1>2. UndoesWell("undo_assets", h, k, "whole")
  <2>1. Len(k) <= 1
    <3>1. Len(t) \in Nat /\ Len(k) \in Nat /\ Len(t) + Len(k) <= 1
      BY DEF PersistsWell
    <3> QED
      BY <3>1
  <2> QED
    BY <1>1, <2>1 DEF PersistsWell, UndoesWell, Pkg!Undoing
<1>3. /\ r.pc = cur /\ r.kept = k /\ r.answer = "none" /\ r.undo = "whole"
      /\ Pkg!SavedOf(r) = SavedAmong({h} \cup Pkg!Members(k))
      /\ Pkg!RowsOf(r) = CreatedIds(Pkg!Members(k))
      /\ Pkg!Current(r) = h /\ Pkg!Others(r) = Pkg!Members(t) \cup Pkg!Members(k)
  <2>1. PersistsAs(r, cur, h, t, k)
    BY PersistsHas
  <2> HIDE DEF r
  <2> QED
    BY <2>1 DEF PersistsAs
<1>4. /\ q \in Pkg!UploadShape /\ Pkg!RequestKnows(q)
      /\ q.pc = "undo_assets" /\ q.answer = "failure" /\ q.undo = "whole"
      /\ Pkg!Current(q) = h /\ Pkg!Others(q) = Pkg!Members(k)
      /\ Pkg!Members(q.kept) = {h} \cup Pkg!Members(k)
      /\ Pkg!Stands(q) = {}
      /\ Pkg!SavedOf(q) = SavedAmong({h} \cup Pkg!Members(k))
      /\ Pkg!RowsOf(q) = CreatedIds({h} \cup Pkg!Members(k))
  <2>1. UndoesAs(q, "undo_assets", h, k, "whole")
    BY <1>2, UndoesHas
  <2> HIDE DEF q
  <2> QED
    BY <2>1 DEF UndoesAs
<1>5. s5' \in 0..MaxFaults /\ s7' = s7 /\ s6' \in BOOLEAN /\ (s6 => s6') /\ s4' = [s4 EXCEPT ![u] = q]
  BY <1>0, FaultsCounted DEF Calls
<1> HIDE DEF r, q
<1>6. Moves(u, q)
  BY <1>1, <1>3, <1>4, <1>5 DEF Moves, Pkg!Persisting, r
<1>7. Pkg!RowsOf(q) = Pkg!RowsOf(r)
  BY <1>1, <1>3, <1>4 DEF CreatedIds
<1>8. Pkg!HasSaved(q) => Pkg!HasSaved(r)
  BY <1>1, <1>3, <1>4 DEF Pkg!HasSaved, Pkg!Persisting
<1>9. Pkg!Differ(r, s7[u], s3, s2) => Pkg!Differ(q, s7[u], s3, s2)
  <2> SUFFICES ASSUME Pkg!Differ(r, s7[u], s3, s2) PROVE Pkg!Differ(q, s7[u], s3, s2)
    OBVIOUS
  <2>1. \A o \in Pkg!Others(q) : o.id = Pkg!Current(q).id => o.id \in s7[u].twice
    BY <1>3, <1>4 DEF Pkg!Differ
  <2> QED
    BY <1>3, <1>4, <1>7, <2>1, DifferKept
<1>10. /\ q.pc \notin Pkg!Persisting /\ q.pc \notin {"look", "create", "again", "undo_package"}
       /\ \A x \in Pkg!Members(q.kept) : "created" \in x.marks =>
            \E o \in Pkg!Members(r.kept) : "created" \in o.marks /\ o.id = x.id
  BY <1>1, <1>3, <1>4 DEF Pkg!Persisting
<1>11. s1' \subseteq Assets
  BY <1>0 DEF Pkg!PkgShape
<1> QED
  BY <1>3, <1>4, <1>5, <1>6, <1>8, <1>9, <1>10, <1>11, QuietStep DEF r

\* A request goes on rolling the same package back.
LEMMA UndoesOn ==
  ASSUME Pkg!PkgIInv, NEW u \in Uploaders, NEW cur, NEW h, NEW k, NEW x, NEW at, NEW p, NEW y,
         s4[u] = Undoes(cur, h, k, x), UndoesWell(cur, h, k, x), UndoesWell(at, p, k, y),
         s4' = [s4 EXCEPT ![u] = Undoes(at, p, k, y)], Calls(u),
         s1' \subseteq Assets, s2' = s2, s3' = s3,
         p.id = h.id, p.build = h.build, p.marks = h.marks, p.previous = h.previous,
         at = "undo_package" => h.id \notin s3,
         y = "whole" => x = "whole",
         y = "whole" /\ "created" \in h.marks =>
            (at \in {"undo_get", "undo_look", "undo_package"}
               <=> cur \in {"undo_get", "undo_look", "undo_package"})
  PROVE  Pkg!PkgIInv'
<1> DEFINE r == s4[u]
           q == Undoes(at, p, k, y)
<1>0. Pkg!PkgShape
  BY DEF Pkg!PkgIInv
<1>1. cur \in Pkg!Undoing /\ at \in Pkg!Undoing
  BY DEF UndoesWell
<1>2. /\ r.pc = cur /\ r.answer = "failure" /\ r.undo = x
      /\ Pkg!Current(r) = h /\ Pkg!Others(r) = Pkg!Members(k)
      /\ Pkg!Members(r.kept) = {h} \cup Pkg!Members(k)
      /\ Pkg!SavedOf(r) = SavedAmong({h} \cup Pkg!Members(k))
      /\ Pkg!RowsOf(r) = CreatedIds((IF cur \in {"undo_get", "undo_look", "undo_package"} THEN {} ELSE {h})
                                      \cup Pkg!Members(k))
  <2>1. UndoesAs(r, cur, h, k, x)
    BY UndoesHas
  <2> HIDE DEF r
  <2> QED
    BY <2>1 DEF UndoesAs
<1>3. /\ q \in Pkg!UploadShape /\ Pkg!RequestKnows(q)
      /\ q.pc = at /\ q.answer = "failure" /\ q.undo = y /\ Head(q.kept) = p
      /\ Pkg!Current(q) = p /\ Pkg!Others(q) = Pkg!Members(k)
      /\ Pkg!Members(q.kept) = {p} \cup Pkg!Members(k)
      /\ Pkg!Stands(q) = {}
      /\ Pkg!SavedOf(q) = SavedAmong({p} \cup Pkg!Members(k))
      /\ Pkg!RowsOf(q) = CreatedIds((IF at \in {"undo_get", "undo_look", "undo_package"} THEN {} ELSE {p})
                                      \cup Pkg!Members(k))
  <2>1. UndoesAs(q, at, p, k, y)
    BY UndoesHas
  <2> HIDE DEF q
  <2> QED
    BY <2>1 DEF UndoesAs
<1>4. s5' \in 0..MaxFaults /\ s7' = s7 /\ s6' \in BOOLEAN /\ (s6 => s6') /\ s4' = [s4 EXCEPT ![u] = q]
  BY <1>0, FaultsCounted DEF Calls
<1> HIDE DEF r, q
<1>5. Moves(u, q)
  BY <1>1, <1>2, <1>3, <1>4 DEF Moves, Pkg!Undoing, r
<1>6. /\ \A o \in Pkg!SavedOf(q) : \E z \in Pkg!SavedOf(r) :
           z.id = o.id /\ z.build = o.build /\ Pkg!Restored(z) = Pkg!Restored(o)
      /\ \A z \in Pkg!SavedOf(r) : \E o \in Pkg!SavedOf(q) : o.id = z.id
  BY <1>2, <1>3 DEF SavedAmong, Pkg!Restored
<1>7. Pkg!HasSaved(q) => Pkg!HasSaved(r)
  BY <1>1, <1>2, <1>6 DEF Pkg!HasSaved, Pkg!Undoing
<1>8. y = "whole" => Pkg!RowsOf(q) = Pkg!RowsOf(r)
  <2>1. CreatedIds({p} \cup Pkg!Members(k)) = CreatedIds({h} \cup Pkg!Members(k))
    BY DEF CreatedIds
  <2>2. "created" \notin h.marks => CreatedIds({p} \cup Pkg!Members(k)) = CreatedIds(Pkg!Members(k))
    BY DEF CreatedIds
  <2>3. {} \cup Pkg!Members(k) = Pkg!Members(k)
    OBVIOUS
  <2> DEFINE was == cur \in {"undo_get", "undo_look", "undo_package"}
             is == at \in {"undo_get", "undo_look", "undo_package"}
             all == CreatedIds({h} \cup Pkg!Members(k))
             rest == CreatedIds(Pkg!Members(k))
  <2>4. Pkg!RowsOf(r) = IF was THEN rest ELSE all
    BY <1>2, <2>3
  <2>5. Pkg!RowsOf(q) = IF is THEN rest ELSE all
    BY <1>3, <2>1, <2>3
  <2>6. "created" \notin h.marks => all = rest
    BY <2>1, <2>2
  <2>7. y = "whole" /\ "created" \in h.marks => (is <=> was)
    OBVIOUS
  <2> HIDE DEF was, is, all, rest
  <2> QED
    BY <2>4, <2>5, <2>6, <2>7
<1>9. y = "whole" => (Pkg!Differ(r, s7[u], s3, s2) => Pkg!Differ(q, s7[u], s3, s2))
  <2> SUFFICES ASSUME y = "whole", Pkg!Differ(r, s7[u], s3, s2) PROVE Pkg!Differ(q, s7[u], s3, s2)
    OBVIOUS
  <2>1. q.pc \notin {"remap", "save"}
    BY <1>1, <1>3 DEF Pkg!Undoing
  <2>2. \A o \in Pkg!Others(q) : o.id = Pkg!Current(q).id => o.id \in s7[u].twice
    BY <1>2, <1>3 DEF Pkg!Differ
  <2> QED
    BY <1>6, <1>8, <2>1, <2>2, DifferKept
<1>10. /\ q.pc \notin Pkg!Persisting /\ q.pc \notin {"look", "create", "again"}
       /\ q.pc = "undo_package" => Head(q.kept).id \notin s3
       /\ \A z \in Pkg!Members(q.kept) : "created" \in z.marks =>
            \E o \in Pkg!Members(r.kept) : "created" \in o.marks /\ o.id = z.id
  BY <1>1, <1>2, <1>3 DEF Pkg!Persisting, Pkg!Undoing
<1> QED
  BY <1>2, <1>3, <1>4, <1>5, <1>7, <1>9, <1>10, QuietStep DEF r

\* A request that is over.
Over(kepts, answered, undone) == Request("ended", <<>>, kepts, answered, undone)

OverAs(q, k, answered, undone) ==
  /\ q \in Pkg!UploadShape /\ Pkg!RequestKnows(q)
  /\ q.pc = "ended" /\ q.kept = k /\ q.answer = answered /\ q.undo = undone
  /\ Pkg!Stands(q) = (IF answered = "success" THEN Pkg!Members(k) ELSE {})
  /\ Pkg!SavedOf(q) = SavedAmong(Pkg!Members(k))
  /\ Pkg!RowsOf(q) = CreatedIds(Pkg!Members(k))
  /\ Pkg!Others(q) = {}

\* What can be read off a request that is over.
LEMMA OverHas ==
  ASSUME NEW k \in Seq(Pkg!PackageShape), NEW answered \in {"success", "failure"},
         NEW undone \in {"whole", "partial"},
         Len(k) <= 2, \A o \in Pkg!Members(k) : "created" \in o.marks => "saved" \in o.marks,
         answered = "failure" => k = <<>>
  PROVE  OverAs(Over(k, answered, undone), k, answered, undone)
<1> DEFINE q == Over(k, answered, undone)
<1>1. q.pc = "ended" /\ q.todo = <<>> /\ q.kept = k /\ q.answer = answered /\ q.undo = undone
  BY DEF Over, Request
<1>2. q \in Pkg!UploadShape
  BY Empties, RequestShaped DEF Over
<1> HIDE DEF q
<1>3. Pkg!Members(q.todo) = {} /\ Len(q.todo) = 0
  BY <1>1, Empties
<1>4. Len(q.todo) + Len(q.kept) <= 2
  BY <1>1, <1>3
<1>5. Pkg!RequestKnows(q)
  BY <1>1, <1>3, <1>4 DEF Pkg!RequestKnows, Pkg!Persisting, Pkg!Undoing
<1>6. Pkg!Stands(q) = (IF answered = "success" THEN Pkg!Members(k) ELSE {})
  BY <1>1 DEF Pkg!Stands, Pkg!Persisting
<1>7. Pkg!SavedOf(q) = SavedAmong(Pkg!Members(k))
  BY <1>1, <1>3 DEF Pkg!SavedOf, SavedAmong
<1>8. Pkg!RowsOf(q) = CreatedIds(Pkg!Members(k))
  BY <1>1 DEF Pkg!RowsOf, CreatedIds
<1>9. Pkg!Others(q) = {}
  BY <1>1 DEF Pkg!Others, Pkg!Persisting, Pkg!Undoing
<1> QED
  BY <1>1, <1>2, <1>5, <1>6, <1>7, <1>8, <1>9 DEF q, OverAs

\* A request whose package is rolled back: the next one, or the end.
UndoneTo(k, undone) ==
  IF k = <<>> THEN Over(<<>>, "failure", undone) ELSE Undoes("undo_assets", Head(k), Tail(k), undone)

UndoneAs(q, k, undone) ==
  /\ q \in Pkg!UploadShape /\ Pkg!RequestKnows(q)
  /\ q.pc \in {"ended", "undo_assets"} /\ q.answer = "failure" /\ q.undo = undone
  /\ Pkg!Members(q.kept) = Pkg!Members(k) /\ Pkg!Stands(q) = {}
  /\ Pkg!SavedOf(q) = SavedAmong(Pkg!Members(k))
  /\ Pkg!RowsOf(q) = CreatedIds(Pkg!Members(k))
  /\ Pkg!Others(q) = {}

\* What can be read off a request after one package was rolled back.
LEMMA UndoneHas ==
  ASSUME NEW cur, NEW h, NEW k, NEW x, UndoesWell(cur, h, k, x), NEW y \in {"whole", "partial"}
  PROVE  UndoneAs(UndoneTo(k, y), k, y)
<1>1. /\ k \in Seq(Pkg!PackageShape) /\ Len(k) \in Nat /\ Len(k) <= 1
      /\ \A o \in Pkg!Members(k) : "created" \in o.marks => "saved" \in o.marks
  BY DEF UndoesWell
<1>2. CASE k = <<>>
  <2> DEFINE q == Over(k, "failure", y)
  <2>1. UndoneTo(k, y) = q
    BY <1>2 DEF UndoneTo
  <2>2. Pkg!Members(k) = {} /\ Len(k) <= 2
    BY <1>1, <1>2, Empties
  <2>3. OverAs(q, k, "failure", y)
    BY <1>1, <1>2, <2>2, OverHas
  <2> HIDE DEF q
  <2> QED
    BY <2>1, <2>3 DEF UndoneAs, OverAs
<1>3. CASE k # <<>>
  <2> DEFINE p == Head(k)
             l == Tail(k)
             q == Undoes("undo_assets", p, l, y)
  <2>1. UndoneTo(k, y) = q
    BY <1>3 DEF UndoneTo
  <2>2. /\ p \in Pkg!PackageShape /\ l \in Seq(Pkg!PackageShape) /\ Len(k) = Len(l) + 1
        /\ Pkg!Members(k) = {p} \cup Pkg!Members(l)
    BY <1>1, <1>3, Splits
  <2> HIDE DEF p, l
  <2>3. Len(l) <= 1 /\ l = <<>> /\ Pkg!Members(l) = {}
    <3>1. Len(l) \in Nat /\ (l = <<>> <=> Len(l) = 0)
      BY <2>2, MembersIn
    <3>2. Len(l) = 0
      BY <1>1, <2>2, <3>1
    <3> QED
      BY <3>1, <3>2, Empties
  <2>4. UndoesWell("undo_assets", p, l, y)
    BY <1>1, <2>2, <2>3 DEF UndoesWell, Pkg!Undoing
  <2>5. UndoesAs(q, "undo_assets", p, l, y)
    BY <2>4, UndoesHas
  <2> HIDE DEF q
  <2> QED
    BY <2>1, <2>2, <2>3, <2>5 DEF UndoneAs, UndoesAs
<1> QED
  BY <1>2, <1>3

\* NextUndo does that.
Becomes(u, q) == s4' = [s4 EXCEPT ![u] = q]

\* NextUndo makes a request that.
LEMMA UndoneIs ==
  ASSUME Pkg!PkgShape, NEW u \in Uploaders, NEW cur, NEW h, NEW k, NEW x, NEW y,
         s4[u] = Undoes(cur, h, k, x), UndoesWell(cur, h, k, x), Pkg!NextUndo(u, y)
  PROVE  Becomes(u, UndoneTo(k, y))
<1> DEFINE r == s4[u]
<1>1. s4' = [s4 EXCEPT ![u] =
               Request(IF Len(r.kept) = 1 THEN "ended" ELSE "undo_assets", r.todo, Tail(r.kept), r.answer, y)]
  BY RequestUpdates
<1>2. r.todo = <<>> /\ Tail(r.kept) = k /\ Len(r.kept) = Len(k) + 1 /\ r.answer = "failure"
  <2>1. UndoesAs(r, cur, h, k, x)
    BY UndoesHas
  <2> HIDE DEF r
  <2> QED
    BY <2>1 DEF UndoesAs
<1>3. k \in Seq(Pkg!PackageShape)
  BY DEF UndoesWell
<1>4. Len(k) \in Nat /\ (k = <<>> <=> Len(k) = 0)
  BY <1>3, MembersIn
<1> HIDE DEF r
<1>5. CASE k = <<>>
  <2>1. Len(r.kept) = 1
    BY <1>2, <1>4, <1>5
  <2> QED
    BY <1>1, <1>2, <1>5, <2>1 DEF UndoneTo, Over, Becomes
<1>6. CASE k # <<>>
  <2>1. Len(r.kept) # 1
    BY <1>2, <1>4, <1>6
  <2>2. k = <<Head(k)>> \o Tail(k)
    BY <1>3, <1>6, Splits
  <2>3. UndoneTo(k, y) = Request("undo_assets", <<>>, k, "failure", y)
    BY <1>6, <2>2 DEF UndoneTo, Undoes
  <2> QED
    BY <1>1, <1>2, <2>1, <2>3 DEF Becomes
<1> QED
  BY <1>5, <1>6

\* A package that was not stored, or that the request leaves stored, is left behind.
LEMMA UndoesNext ==
  ASSUME Pkg!PkgIInv, NEW u \in Uploaders, NEW cur, NEW h, NEW k, NEW x, NEW y \in {"whole", "partial"},
         s4[u] = Undoes(cur, h, k, x), UndoesWell(cur, h, k, x),
         s4' = [s4 EXCEPT ![u] = UndoneTo(k, y)], Calls(u),
         s1' = s1, s2' = s2, s3' = s3,
         y = "whole" => x = "whole",
         y = "whole" => \/ "saved" \notin h.marks
                        \/ /\ cur \in {"undo_get", "undo_look", "undo_package"}
                           /\ Pkg!Differ(s4[u], s7[u], s3, s2) => h.id \in Pkg!Exempt(s7[u])
  PROVE  Pkg!PkgIInv'
<1> DEFINE r == s4[u]
           q == UndoneTo(k, y)
<1>0. Pkg!PkgShape
  BY DEF Pkg!PkgIInv
<1>1. cur \in Pkg!Undoing /\ ("created" \in h.marks => "saved" \in h.marks)
  BY DEF UndoesWell
<1>2. /\ r.pc = cur /\ r.answer = "failure" /\ r.undo = x
      /\ Pkg!Current(r) = h /\ Pkg!Others(r) = Pkg!Members(k)
      /\ Pkg!Members(r.kept) = {h} \cup Pkg!Members(k)
      /\ Pkg!SavedOf(r) = SavedAmong({h} \cup Pkg!Members(k))
      /\ Pkg!RowsOf(r) = CreatedIds((IF cur \in {"undo_get", "undo_look", "undo_package"} THEN {} ELSE {h})
                                      \cup Pkg!Members(k))
  <2>1. UndoesAs(r, cur, h, k, x)
    BY UndoesHas
  <2> HIDE DEF r
  <2> QED
    BY <2>1 DEF UndoesAs
<1>3. UndoneAs(q, k, y)
  BY UndoneHas
<1>4. s5' \in 0..MaxFaults /\ s7' = s7 /\ s6' \in BOOLEAN /\ (s6 => s6') /\ s4' = [s4 EXCEPT ![u] = q]
  BY <1>0, FaultsCounted DEF Calls
<1> HIDE DEF r, q
<1>5. Moves(u, q)
  BY <1>1, <1>2, <1>3, <1>4 DEF Moves, UndoneAs, Pkg!Undoing, r
<1>6. \A o \in Pkg!SavedOf(q) : o \in Pkg!SavedOf(r)
  BY <1>2, <1>3 DEF SavedAmong, UndoneAs
<1>7. Pkg!HasSaved(q) => Pkg!HasSaved(r)
  BY <1>1, <1>2, <1>6 DEF Pkg!HasSaved, Pkg!Undoing
<1>8. y = "whole" => (Pkg!Differ(r, s7[u], s3, s2) => Pkg!Differ(q, s7[u], s3, s2))
  <2> SUFFICES ASSUME y = "whole", Pkg!Differ(r, s7[u], s3, s2) PROVE Pkg!Differ(q, s7[u], s3, s2)
    OBVIOUS
  <2>1. q.pc \notin {"remap", "save"}
    BY <1>3 DEF UndoneAs
  <2>2. \/ "saved" \notin h.marks
        \/ cur \in {"undo_get", "undo_look", "undo_package"} /\ h.id \in Pkg!Exempt(s7[u])
    BY DEF r
  <2>3. Pkg!RowsOf(q) = Pkg!RowsOf(r)
    <3>1. "created" \notin h.marks => CreatedIds({h} \cup Pkg!Members(k)) = CreatedIds(Pkg!Members(k))
      BY DEF CreatedIds
    <3>2. {} \cup Pkg!Members(k) = Pkg!Members(k)
      OBVIOUS
    <3>3. Pkg!RowsOf(q) = CreatedIds(Pkg!Members(k))
      BY <1>3 DEF UndoneAs
    <3> QED
      BY <1>1, <1>2, <2>2, <3>1, <3>2, <3>3
  <2>4. \A z \in Pkg!SavedOf(r) : z.id \in Pkg!Exempt(s7[u]) \/ \E o \in Pkg!SavedOf(q) : o.id = z.id
    BY <1>2, <1>3, <2>2 DEF SavedAmong, UndoneAs
  <2>5. \A o \in Pkg!Others(q) : o.id = Pkg!Current(q).id => o.id \in s7[u].twice
    BY <1>3 DEF UndoneAs
  <2> QED
    BY <1>6, <2>1, <2>3, <2>4, <2>5, DifferKept
<1>9. /\ q.pc \notin Pkg!Persisting /\ q.pc \notin {"look", "create", "again", "undo_package"}
      /\ q.undo = y /\ q.answer = "failure" /\ Pkg!Stands(q) = {}
      /\ q \in Pkg!UploadShape /\ Pkg!RequestKnows(q)
      /\ \A z \in Pkg!Members(q.kept) : "created" \in z.marks =>
           \E o \in Pkg!Members(r.kept) : "created" \in o.marks /\ o.id = z.id
  BY <1>2, <1>3 DEF Pkg!Persisting, UndoneAs
<1>10. s1' \subseteq Assets
  BY <1>0 DEF Pkg!PkgShape
<1> QED
  BY <1>2, <1>4, <1>5, <1>7, <1>8, <1>9, <1>10, QuietStep DEF r

\* A request whose package p is persisted: the next one of the bundle, or success.
PersistedTo(p, t, k) ==
  IF t = <<>> THEN Over(<<p>> \o k, "success", "whole")
  ELSE Persists("exists", Head(t), Tail(t), <<p>> \o k)

PersistedAs(q, p, t, k) ==
  /\ q \in Pkg!UploadShape /\ Pkg!RequestKnows(q)
  /\ q.pc \in {"ended", "exists"} /\ q.answer \in {"none", "success"} /\ q.undo = "whole"
  /\ q.pc = "exists" => Head(q.todo).assets = {}
  /\ Pkg!Members(q.kept) = {p} \cup Pkg!Members(k) /\ Pkg!Stands(q) = {p} \cup Pkg!Members(k)
  /\ Pkg!SavedOf(q) = SavedAmong({p} \cup Pkg!Members(k))
  /\ Pkg!RowsOf(q) = CreatedIds({p} \cup Pkg!Members(k))
  /\ \A o \in Pkg!Others(q) : o.id = Pkg!Current(q).id =>
       o.id = p.id /\ \E x \in Pkg!Members(t) : x.id = p.id

\* What can be read off a request after one package was persisted.
LEMMA PersistedHas ==
  ASSUME NEW cur, NEW h, NEW t, NEW k, PersistsWell(cur, h, t, k),
         NEW p \in Pkg!PackageShape, p.id = h.id, "saved" \in p.marks
  PROVE  PersistedAs(PersistedTo(p, t, k), p, t, k)
<1> DEFINE n == <<p>> \o k
<1>1. /\ t \in Seq(Pkg!PackageShape) /\ k \in Seq(Pkg!PackageShape) /\ Len(t) + Len(k) <= 1
      /\ \A o \in Pkg!Members(t) : o.marks = {} /\ o.assets = {}
      /\ \A o \in Pkg!Members(k) : "created" \in o.marks => "saved" \in o.marks
  BY DEF PersistsWell
<1>2. /\ n \in Seq(Pkg!PackageShape) /\ Len(n) = Len(k) + 1
      /\ Pkg!Members(n) = {p} \cup Pkg!Members(k)
  BY <1>1, Prepends
<1>3. Len(t) \in Nat /\ Len(k) \in Nat /\ (t = <<>> <=> Len(t) = 0)
  BY <1>1, MembersIn
<1> HIDE DEF n
<1>4. CASE t = <<>>
  <2> DEFINE q == Over(n, "success", "whole")
  <2>1. PersistedTo(p, t, k) = q
    BY <1>4 DEF PersistedTo, n
  <2>2. Len(n) <= 2
    BY <1>1, <1>2, <1>3
  <2>3. \A o \in Pkg!Members(n) : "created" \in o.marks => "saved" \in o.marks
    BY <1>1, <1>2
  <2>4. OverAs(q, n, "success", "whole")
    BY <1>2, <2>2, <2>3, OverHas
  <2> HIDE DEF q
  <2> QED
    BY <1>2, <2>1, <2>4 DEF PersistedAs, OverAs
<1>5. CASE t # <<>>
  <2> DEFINE f == Head(t)
             l == Tail(t)
             q == Persists("exists", f, l, n)
  <2>1. PersistedTo(p, t, k) = q
    BY <1>5 DEF PersistedTo, n
  <2>2. /\ f \in Pkg!PackageShape /\ l \in Seq(Pkg!PackageShape) /\ Len(t) = Len(l) + 1
        /\ Pkg!Members(t) = {f} \cup Pkg!Members(l)
    BY <1>1, <1>5, Splits
  <2> HIDE DEF f, l
  <2>3. Len(l) + Len(n) <= 1 /\ Len(l) = 0 /\ Len(k) = 0
    <3>1. Len(l) \in Nat
      BY <2>2, MembersIn
    <3> DEFINE a == Len(l)
               b == Len(k)
               c == Len(n)
               d == Len(t)
    <3>2. a \in Nat /\ b \in Nat /\ c = b + 1 /\ d = a + 1 /\ d + b <= 1
      BY <1>1, <1>2, <1>3, <2>2, <3>1
    <3> HIDE DEF a, b, c, d
    <3>3. a + c <= 1 /\ a = 0 /\ b = 0
      BY <3>2
    <3> QED
      BY <3>3 DEF a, b, c
  <2>4. f.marks = {} /\ f.assets = {}
    BY <1>1, <2>2
  <2>5. PersistsWell("exists", f, l, n)
    <3>1. Pkg!HeadKnows("exists", f)
      BY <2>4 DEF Pkg!HeadKnows
    <3>2. /\ \A o \in Pkg!Members(l) : o.marks = {} /\ o.assets = {}
          /\ \A o \in Pkg!Members(n) : "created" \in o.marks => "saved" \in o.marks
      BY <1>1, <1>2, <2>2
    <3> QED
      BY <1>2, <2>2, <2>3, <3>1, <3>2 DEF PersistsWell, Pkg!Persisting
  <2>6. PersistsAs(q, "exists", f, l, n)
    BY <2>5, PersistsHas
  <2> HIDE DEF q
  <2>7. SavedAmong({f} \cup Pkg!Members(n)) = SavedAmong({p} \cup Pkg!Members(k))
    BY <1>2, <2>4 DEF SavedAmong
  <2>8. Pkg!Members(l) = {} /\ Pkg!Members(k) = {}
    <3>1. l = <<>> /\ k = <<>>
      BY <1>1, <2>2, <2>3, MembersIn
    <3> QED
      BY <3>1, Empties
  <2>9. Pkg!Current(q) = f /\ Pkg!Others(q) = {p} /\ f \in Pkg!Members(t)
    BY <1>2, <2>2, <2>6, <2>8 DEF PersistsAs
  <2> QED
    BY <1>2, <2>1, <2>4, <2>6, <2>7, <2>9 DEF PersistedAs, PersistsAs
<1> QED
  BY <1>4, <1>5

\* Persisted does that.
LEMMA PersistedIs ==
  ASSUME Pkg!PkgShape, NEW u \in Uploaders, NEW cur, NEW h, NEW t, NEW k, NEW p,
         s4[u] = Persists(cur, h, t, k), PersistsWell(cur, h, t, k), Pkg!Persisted(u, p)
  PROVE  s4' = [s4 EXCEPT ![u] = PersistedTo(p, t, k)]
<1> DEFINE r == s4[u]
<1>1. s4' = [s4 EXCEPT ![u] =
               Request(IF Len(r.todo) = 1 THEN "ended" ELSE "exists", Tail(r.todo), <<p>> \o r.kept,
                       IF Len(r.todo) = 1 THEN "success" ELSE r.answer, r.undo)]
  BY RequestUpdates
<1>2. /\ r.kept = k /\ Tail(r.todo) = t /\ Len(r.todo) = Len(t) + 1
      /\ r.answer = "none" /\ r.undo = "whole"
  <2>1. PersistsAs(r, cur, h, t, k)
    BY PersistsHas
  <2> HIDE DEF r
  <2> QED
    BY <2>1 DEF PersistsAs
<1>3. t \in Seq(Pkg!PackageShape)
  BY DEF PersistsWell
<1>4. Len(t) \in Nat /\ (t = <<>> <=> Len(t) = 0)
  BY <1>3, MembersIn
<1> HIDE DEF r
<1>5. CASE t = <<>>
  <2>1. Len(r.todo) = 1
    BY <1>2, <1>4, <1>5
  <2> QED
    BY <1>1, <1>2, <1>5, <2>1 DEF PersistedTo, Over
<1>6. CASE t # <<>>
  <2>1. Len(r.todo) # 1
    BY <1>2, <1>4, <1>6
  <2>2. t = <<Head(t)>> \o Tail(t)
    BY <1>3, <1>6, Splits
  <2>3. PersistedTo(p, t, k) = Request("exists", t, <<p>> \o k, "none", "whole")
    BY <1>6, <2>2 DEF PersistedTo, Persists
  <2> QED
    BY <1>1, <1>2, <2>1, <2>3
<1> QED
  BY <1>5, <1>6

\* A package whose row is there already is persisted.
LEMMA PersistsNext ==
  ASSUME Pkg!PkgIInv, NEW u \in Uploaders, NEW cur, NEW h, NEW t, NEW k,
         s4[u] = Persists(cur, h, t, k), PersistsWell(cur, h, t, k),
         cur \in {"look", "create", "again"}, h.id \in s3,
         s4' = [s4 EXCEPT ![u] = PersistedTo(h, t, k)], Calls(u),
         s1' = s1, s2' = s2, s3' = s3
  PROVE  Pkg!PkgIInv'
<1> DEFINE r == s4[u]
           q == PersistedTo(h, t, k)
<1>0. Pkg!PkgShape
  BY DEF Pkg!PkgIInv
<1>1. "saved" \in h.marks /\ "created" \notin h.marks /\ h \in Pkg!PackageShape
  BY DEF PersistsWell, Pkg!HeadKnows
<1>2. /\ r.pc = cur /\ r.kept = k /\ r.answer = "none" /\ r.undo = "whole"
      /\ Pkg!Stands(r) = Pkg!Members(k)
      /\ Pkg!SavedOf(r) = SavedAmong({h} \cup Pkg!Members(k))
      /\ Pkg!RowsOf(r) = CreatedIds(Pkg!Members(k))
      /\ Pkg!Current(r) = h /\ Pkg!Others(r) = Pkg!Members(t) \cup Pkg!Members(k)
  <2>1. PersistsAs(r, cur, h, t, k)
    BY PersistsHas
  <2> HIDE DEF r
  <2> QED
    BY <2>1 DEF PersistsAs
<1>3. PersistedAs(q, h, t, k)
  BY <1>1, PersistedHas
<1>4. s5' \in 0..MaxFaults /\ s7' = s7 /\ s6' \in BOOLEAN /\ (s6 => s6') /\ s4' = [s4 EXCEPT ![u] = q]
  BY <1>0, FaultsCounted DEF Calls
<1> HIDE DEF r, q
<1>5. Moves(u, q)
  BY <1>2, <1>3, <1>4 DEF Moves, PersistedAs, r
<1>6. Pkg!HasSaved(r)
  BY <1>1, <1>2 DEF Pkg!HasSaved, SavedAmong
<1>7. Pkg!RowsOf(q) = Pkg!RowsOf(r) /\ Pkg!SavedOf(q) = Pkg!SavedOf(r)
  BY <1>1, <1>2, <1>3 DEF PersistedAs, CreatedIds
<1>8. Pkg!Differ(r, s7[u], s3, s2) => Pkg!Differ(q, s7[u], s3, s2)
  <2> SUFFICES ASSUME Pkg!Differ(r, s7[u], s3, s2) PROVE Pkg!Differ(q, s7[u], s3, s2)
    OBVIOUS
  <2>1. q.pc \notin {"remap", "save"}
    BY <1>3 DEF PersistedAs
  <2>2. \A x \in Pkg!Members(t) : x.id = h.id => x.id \in s7[u].twice
    BY <1>2 DEF Pkg!Differ
  <2>3. \A o \in Pkg!Others(q) : o.id = Pkg!Current(q).id => o.id \in s7[u].twice
    BY <1>3, <2>2 DEF PersistedAs
  <2> QED
    BY <1>7, <2>1, <2>3, DifferKept
<1>9. /\ q.pc \in Pkg!Persisting => Head(q.todo).assets = {}
      /\ q.pc \notin {"look", "create", "again", "undo_package"}
      /\ q \in Pkg!UploadShape /\ Pkg!RequestKnows(q)
      /\ \A x \in Pkg!Stands(q) : x \in Pkg!Stands(r) \/ (x.id \in s3 /\ Pkg!HasSaved(r))
      /\ \A z \in Pkg!Members(q.kept) : "created" \in z.marks =>
           \E o \in Pkg!Members(r.kept) : "created" \in o.marks /\ o.id = z.id
  BY <1>1, <1>2, <1>3, <1>6 DEF Pkg!Persisting, PersistedAs
<1>10. s1' \subseteq Assets
  BY <1>0 DEF Pkg!PkgShape
<1> QED
  BY <1>2, <1>4, <1>5, <1>6, <1>8, <1>9, <1>10, QuietStep DEF r

------------------------------------------------------------------------------
(* Packages: the steps that write the package bucket or the rows *)

\* The package is stored: a request that has been alone finds what it has kept a copy of.
LEMMA Saves ==
  ASSUME Pkg!PkgIInv, NEW u \in Uploaders, NEW h, NEW t, NEW k, NEW p,
         s4[u] = Persists("save", h, t, k), PersistsWell("save", h, t, k), PersistsWell("look", p, t, k),
         p.id = h.id, p.build = h.build, p.assets = h.assets, p.previous = h.previous,
         p.marks = h.marks \cup {"saved"},
         s4' = [s4 EXCEPT ![u] = Persists("look", p, t, k)], Calls(u), Noted(u),
         s1' = s1, s2' = [s2 EXCEPT ![h.id] = h.build], s3' = s3
  PROVE  Pkg!PkgIInv'
<1> DEFINE r == s4[u]
           q == Persists("look", p, t, k)
<1>0. Pkg!PkgShape /\ Pkg!IconsKnown /\ Pkg!RowsKnown
  BY DEF Pkg!PkgIInv
<1>1. h \in Pkg!PackageShape /\ h.marks \subseteq {"existed"}
  BY DEF PersistsWell, Pkg!HeadKnows
<1>2. h.id \in PackageIds /\ h.build \in Builds /\ h.build # "none"
  BY <1>1, ServicesAssumption DEF Pkg!PackageShape, Pkg!PackagesAssumption
<1>3. /\ r.pc = "save" /\ r.kept = k /\ r.answer = "none" /\ r.undo = "whole"
      /\ Pkg!Current(r) = h /\ Pkg!Others(r) = Pkg!Members(t) \cup Pkg!Members(k)
      /\ Head(r.todo) = h /\ Pkg!Stands(r) = Pkg!Members(k)
      /\ Pkg!SavedOf(r) = SavedAmong({h} \cup Pkg!Members(k))
      /\ Pkg!RowsOf(r) = CreatedIds(Pkg!Members(k))
  <2>1. PersistsAs(r, "save", h, t, k)
    BY PersistsHas
  <2> HIDE DEF r
  <2> QED
    BY <2>1 DEF PersistsAs
<1>4. /\ q \in Pkg!UploadShape /\ Pkg!RequestKnows(q)
      /\ q.pc = "look" /\ q.kept = k /\ q.answer = "none" /\ q.undo = "whole"
      /\ Pkg!Current(q) = p /\ Pkg!Others(q) = Pkg!Members(t) \cup Pkg!Members(k)
      /\ Head(q.todo) = p /\ Pkg!Stands(q) = Pkg!Members(k)
      /\ Pkg!SavedOf(q) = SavedAmong({p} \cup Pkg!Members(k))
      /\ Pkg!RowsOf(q) = CreatedIds(Pkg!Members(k))
  <2>1. PersistsAs(q, "look", p, t, k)
    BY PersistsHas
  <2> HIDE DEF q
  <2> QED
    BY <2>1 DEF PersistsAs
<1>5. s5' \in 0..MaxFaults /\ s7' = s7 /\ s6' \in BOOLEAN /\ (s6 => s6') /\ s4' = [s4 EXCEPT ![u] = q]
  BY <1>0, FaultsCounted DEF Calls
<1>6. /\ s1' \subseteq Assets /\ s2' \in [PackageIds -> Builds \cup {"none"}] /\ s3' \subseteq PackageIds
      /\ s2'[h.id] = h.build /\ \A i \in PackageIds : i # h.id => s2'[i] = s2[i]
  BY <1>0, <1>2 DEF Pkg!PkgShape
<1> HIDE DEF r, q
<1>7. Moves(u, q)
  BY <1>3, <1>4, <1>5 DEF Moves, r
<1>8. Pkg!IconsKnown' /\ Pkg!IconsServed'
  <2>1. h.assets \subseteq s1 \/ Failed
    BY <1>0, <1>3 DEF Pkg!IconsKnown, Pkg!Head_, Failed, Pkg!Persisting, r
  <2> QED
    BY <1>4, <1>7, <2>1, IconsMove
<1>9. Pkg!StoredKnown' /\ Pkg!DeclaredIsStored'
  <2>1. \A i \in PackageIds : s2'[i] = "none" => s2[i] = "none"
    BY <1>2, <1>6
  <2>2. s2'[Head(q.todo).id] # "none"
    BY <1>2, <1>4, <1>6
  <2> QED
    BY <1>4, <1>6, <1>7, <2>1, <2>2, StoredMove
<1>10. Pkg!RowsKnown'
  <2>1. Pkg!Raced => Pkg!Raced'
    BY <1>0, <1>7, Moved
  <2>2. \A x \in Pkg!Stands(r) : x.id \in s3 \/ Pkg!Raced
    BY <1>0 DEF Pkg!RowsKnown, r
  <2>3. \A x \in Pkg!Stands(q) : x.id \in s3' \/ Pkg!Raced'
    BY <1>3, <1>4, <2>1, <2>2
  <2> QED
    BY <1>7, <2>3, RowsMove
<1>11. Pkg!OverlapKnown'
  BY <1>3, <1>4, <1>7, OverlapMove DEF r
<1>12. Pkg!OverKnown' /\ Pkg!LoneKnows'
  <2>1. ASSUME Pkg!Differ(r, s7[u], s3, s2) PROVE Pkg!Differ(q, s7[u], s3', s2')
    <3> DEFINE b == s7[u]
    <3>1. Pkg!SavedOf(r) = SavedAmong(Pkg!Members(k))
      BY <1>1, <1>3 DEF SavedAmong
    <3>2. Pkg!SavedOf(q) = {p} \cup SavedAmong(Pkg!Members(k))
      BY <1>4 DEF SavedAmong
    <3>3. /\ s3 = b.declared \cup Pkg!RowsOf(r) /\ Pkg!RowsOf(r) \cap b.declared = {}
          /\ \A o \in SavedAmong(Pkg!Members(k)) :
               o.id \notin Pkg!Exempt(b) => s2[o.id] = o.build /\ Pkg!Restored(o) = b.bucket[o.id]
          /\ \A i \in PackageIds \ Pkg!Exempt(b) :
               s2[i] = b.bucket[i] \/ \E o \in SavedAmong(Pkg!Members(k)) : o.id = i
          /\ Pkg!Restored(h) = s2[h.id]
      <4>1. /\ s3 = b.declared \cup Pkg!RowsOf(r) /\ Pkg!RowsOf(r) \cap b.declared = {}
            /\ \A o \in Pkg!SavedOf(r) :
                 o.id \notin Pkg!Exempt(b) => s2[o.id] = o.build /\ Pkg!Restored(o) = b.bucket[o.id]
            /\ \A i \in PackageIds \ Pkg!Exempt(b) :
                 s2[i] = b.bucket[i] \/ \E o \in Pkg!SavedOf(r) : o.id = i
        BY <2>1, Zenon DEF Pkg!Differ
      <4>2. Pkg!Restored(h) = s2[h.id]
        BY <1>3, <2>1 DEF Pkg!Differ
      <4> QED
        BY <3>1, <4>1, <4>2, Zenon
    <3>4. SavedAmong(Pkg!Members(k)) \subseteq Pkg!Members(k)
      BY DEF SavedAmong
    <3>5. Pkg!Members(k) \subseteq Pkg!PackageShape
      BY MembersIn DEF PersistsWell
    <3>11. \A o \in Pkg!Members(t) \cup Pkg!Members(k) : o.id = h.id => o.id \in b.twice
      BY <1>3, <2>1 DEF Pkg!Differ
    <3>6. \A o \in SavedAmong(Pkg!Members(k)) :
            o.id \in PackageIds /\ (o.id \notin Pkg!Exempt(b) => o.id # h.id)
      BY <1>1, <3>4, <3>5, <3>11 DEF Pkg!PackageShape, Pkg!Exempt
    <3>7. Pkg!Restored(p) = Pkg!Restored(h)
      BY DEF Pkg!Restored
    <3> HIDE DEF b
    <3>8. \A o \in Pkg!SavedOf(q) :
            o.id \notin Pkg!Exempt(b) => s2'[o.id] = o.build /\ Pkg!Restored(o) = b.bucket[o.id]
      <4>1. CASE h.id \notin Pkg!Exempt(b)
        <5>1. s2[h.id] = b.bucket[h.id]
          BY <1>2, <3>3, <3>6, <4>1
        <5>2. s2'[p.id] = p.build /\ Pkg!Restored(p) = b.bucket[p.id]
          BY <1>6, <3>3, <3>7, <5>1
        <5> QED
          BY <1>6, <3>2, <3>3, <3>6, <5>2
      <4>2. CASE h.id \in Pkg!Exempt(b)
        BY <1>6, <3>2, <3>3, <3>6, <4>2
      <4> QED
        BY <4>1, <4>2
    <3>9. \A i \in PackageIds \ Pkg!Exempt(b) : s2'[i] = b.bucket[i] \/ \E o \in Pkg!SavedOf(q) : o.id = i
      BY <1>6, <3>2, <3>3
    <3>10. q.pc \notin {"remap", "save"}
      BY <1>4
    <3>12. \A o \in Pkg!Others(q) : o.id = Pkg!Current(q).id => o.id \in b.twice
      BY <1>4, <3>11
    <3> QED
      BY <1>3, <1>4, <3>3, <3>8, <3>9, <3>10, <3>12 DEF Pkg!Differ, b
  <2> QED
    BY <1>3, <1>7, <2>1, LoneMove DEF r
<1> QED
  BY <1>4, <1>5, <1>6, <1>7, <1>8, <1>9, <1>10, <1>11, <1>12, RequestStep

\* The row is inserted, and is the request's own.
LEMMA Creates ==
  ASSUME Pkg!PkgIInv, NEW u \in Uploaders, NEW h, NEW t, NEW k, NEW p \in Pkg!PackageShape,
         s4[u] = Persists("create", h, t, k), PersistsWell("create", h, t, k), h.id \notin s3,
         p.id = h.id, p.build = h.build, p.previous = h.previous, p.marks = h.marks \cup {"created"},
         s4' = [s4 EXCEPT ![u] = PersistedTo(p, t, k)], Calls(u), Noted(u),
         s1' = s1, s2' = s2, s3' = s3 \cup {h.id}
  PROVE  Pkg!PkgIInv'
<1> DEFINE r == s4[u]
           q == PersistedTo(p, t, k)
<1>0. Pkg!PkgShape /\ Pkg!IconsKnown /\ Pkg!RowsKnown /\ Pkg!StoredKnown
  BY DEF Pkg!PkgIInv
<1>1. /\ h \in Pkg!PackageShape /\ "saved" \in h.marks /\ "created" \notin h.marks
      /\ h.assets = AssetsOf[h.id]
  BY DEF PersistsWell, Pkg!HeadKnows
<1>2. h.id \in PackageIds
  BY <1>1 DEF Pkg!PackageShape
<1>3. /\ r.pc = "create" /\ r.kept = k /\ r.answer = "none" /\ r.undo = "whole"
      /\ Pkg!Current(r) = h /\ Pkg!Others(r) = Pkg!Members(t) \cup Pkg!Members(k)
      /\ Head(r.todo) = h /\ Pkg!Stands(r) = Pkg!Members(k)
      /\ Pkg!SavedOf(r) = SavedAmong({h} \cup Pkg!Members(k))
      /\ Pkg!RowsOf(r) = CreatedIds(Pkg!Members(k))
  <2>1. PersistsAs(r, "create", h, t, k)
    BY PersistsHas
  <2> HIDE DEF r
  <2> QED
    BY <2>1 DEF PersistsAs
<1>4. PersistedAs(q, p, t, k)
  BY <1>1, PersistedHas
<1>5. s5' \in 0..MaxFaults /\ s7' = s7 /\ s6' \in BOOLEAN /\ (s6 => s6') /\ s4' = [s4 EXCEPT ![u] = q]
  BY <1>0, FaultsCounted DEF Calls
<1>6. s1' \subseteq Assets /\ s2' \in [PackageIds -> Builds \cup {"none"}] /\ s3' \subseteq PackageIds
  BY <1>0, <1>2 DEF Pkg!PkgShape
<1> HIDE DEF r, q
<1>7. Moves(u, q)
  BY <1>3, <1>4, <1>5 DEF Moves, PersistedAs, r
<1>8. Pkg!Raced => Pkg!Raced'
  BY <1>0, <1>7, Moved
<1>9. /\ q \in Pkg!UploadShape /\ Pkg!RequestKnows(q) /\ q.undo = "whole"
      /\ q.pc \in {"ended", "exists"} /\ (q.pc = "exists" => Head(q.todo).assets = {})
      /\ Pkg!Members(q.kept) = {p} \cup Pkg!Members(k) /\ Pkg!Stands(q) = {p} \cup Pkg!Members(k)
      /\ Pkg!SavedOf(q) = SavedAmong({p} \cup Pkg!Members(k))
      /\ Pkg!RowsOf(q) = CreatedIds({p} \cup Pkg!Members(k))
      /\ \A o \in Pkg!Others(q) : o.id = Pkg!Current(q).id =>
           o.id = p.id /\ \E x \in Pkg!Members(t) : x.id = p.id
  BY <1>4 DEF PersistedAs
<1>10. Pkg!IconsKnown' /\ Pkg!IconsServed'
  <2>1. AssetsOf[h.id] \subseteq s1 \/ Failed
    BY <1>0, <1>1, <1>3 DEF Pkg!IconsKnown, Pkg!Head_, Failed, Pkg!Persisting, r
  <2>2. \A i \in s3' \ s3 : AssetsOf[i] \subseteq s1' \/ Failed
    BY <2>1
  <2>3. q.pc \in Pkg!Persisting => Head(q.todo).assets \subseteq s1' \/ Failed
    BY <1>9 DEF Pkg!Persisting
  <2> QED
    BY <1>7, <2>2, <2>3, IconsMove
<1>11. Pkg!StoredKnown' /\ Pkg!DeclaredIsStored'
  <2>1. s2[h.id] # "none" \/ Pkg!Raced
    BY <1>0, <1>3 DEF Pkg!StoredKnown, Pkg!Head_, r
  <2>2. \A i \in s3' \ s3 : s2'[i] # "none" \/ Pkg!Raced'
    BY <1>8, <2>1
  <2> QED
    BY <1>6, <1>7, <1>9, <2>2, StoredMove
<1>12. Pkg!RowsKnown'
  <2>1. \A x \in Pkg!Stands(r) : x.id \in s3 \/ Pkg!Raced
    BY <1>0 DEF Pkg!RowsKnown, r
  <2>2. \A x \in Pkg!Stands(q) : x.id \in s3' \/ Pkg!Raced'
    BY <1>3, <1>8, <1>9, <2>1
  <2> QED
    BY <1>7, <2>2, RowsMove
<1>13. Pkg!OverlapKnown'
  <2>1. Pkg!HasSaved(r)
    BY <1>1, <1>3 DEF Pkg!HasSaved, SavedAmong
  <2>2. \A x \in Pkg!Members(q.kept) : "created" \in x.marks =>
          x.id \notin s3 \/ \E o \in Pkg!Members(r.kept) : "created" \in o.marks /\ o.id = x.id
    BY <1>3, <1>9
  <2> QED
    BY <1>7, <2>1, <2>2, OverlapMove DEF r
<1>14. Pkg!OverKnown' /\ Pkg!LoneKnows'
  <2>1. ASSUME Pkg!Differ(r, s7[u], s3, s2) PROVE Pkg!Differ(q, s7[u], s3', s2')
    <3> DEFINE b == s7[u]
    <3>1. Pkg!RowsOf(q) = {h.id} \cup Pkg!RowsOf(r)
      BY <1>3, <1>9 DEF CreatedIds
    <3>2. /\ s3 = b.declared \cup Pkg!RowsOf(r) /\ Pkg!RowsOf(r) \cap b.declared = {}
          /\ \A o \in Pkg!SavedOf(r) :
               o.id \notin Pkg!Exempt(b) => s2[o.id] = o.build /\ Pkg!Restored(o) = b.bucket[o.id]
          /\ \A i \in PackageIds \ Pkg!Exempt(b) :
               s2[i] = b.bucket[i] \/ \E o \in Pkg!SavedOf(r) : o.id = i
      BY <2>1 DEF Pkg!Differ
    <3>9. \A o \in Pkg!Members(t) : o.id = h.id => o.id \in b.twice
      BY <1>3, <2>1 DEF Pkg!Differ
    <3>3. /\ Pkg!SavedOf(r) = {h} \cup SavedAmong(Pkg!Members(k))
          /\ Pkg!SavedOf(q) = {p} \cup SavedAmong(Pkg!Members(k))
      BY <1>1, <1>3, <1>9 DEF SavedAmong
    <3>4. Pkg!Restored(p) = Pkg!Restored(h)
      BY DEF Pkg!Restored
    <3> HIDE DEF b
    <3>5. s3' = b.declared \cup Pkg!RowsOf(q) /\ Pkg!RowsOf(q) \cap b.declared = {}
      BY <3>1, <3>2
    <3>6. \A o \in Pkg!SavedOf(q) :
            o.id \notin Pkg!Exempt(b) => s2'[o.id] = o.build /\ Pkg!Restored(o) = b.bucket[o.id]
      BY <3>2, <3>3, <3>4
    <3>7. \A i \in PackageIds \ Pkg!Exempt(b) : s2'[i] = b.bucket[i] \/ \E o \in Pkg!SavedOf(q) : o.id = i
      BY <3>2, <3>3
    <3>8. q.pc \notin {"remap", "save"}
      BY <1>9
    <3>10. \A o \in Pkg!Others(q) : o.id = Pkg!Current(q).id => o.id \in b.twice
      BY <1>9, <3>9
    <3> QED
      BY <3>5, <3>6, <3>7, <3>8, <3>10 DEF Pkg!Differ, b
  <2> QED
    BY <1>3, <1>7, <2>1, LoneMove DEF r
<1> QED
  BY <1>5, <1>6, <1>7, <1>9, <1>10, <1>11, <1>12, <1>13, <1>14, RequestStep

\* The request's own row is deleted.
LEMMA UndoesRow ==
  ASSUME Pkg!PkgIInv, NEW u \in Uploaders, NEW h, NEW k, NEW x,
         s4[u] = Undoes("undo_row", h, k, x), UndoesWell("undo_row", h, k, x),
         s4' = [s4 EXCEPT ![u] = Undoes("undo_get", h, k, x)], Calls(u), Noted(u),
         s1' = s1, s2' = s2, s3' = s3 \ {h.id}
  PROVE  Pkg!PkgIInv'
<1> DEFINE r == s4[u]
           q == Undoes("undo_get", h, k, x)
<1>0. Pkg!PkgShape
  BY DEF Pkg!PkgIInv
<1>1. /\ "created" \in h.marks /\ "saved" \in h.marks
      /\ Pkg!Members(k) = {}
  BY Empties DEF UndoesWell
<1>2. UndoesWell("undo_get", h, k, x)
  BY <1>1 DEF UndoesWell, Pkg!Undoing
<1>3. /\ r.pc = "undo_row" /\ r.answer = "failure" /\ r.undo = x /\ Head(r.kept) = h
      /\ Pkg!Members(r.kept) = {h} \cup Pkg!Members(k)
      /\ Pkg!SavedOf(r) = SavedAmong({h} \cup Pkg!Members(k))
      /\ Pkg!RowsOf(r) = CreatedIds({h} \cup Pkg!Members(k))
  <2>1. UndoesAs(r, "undo_row", h, k, x)
    BY UndoesHas
  <2> HIDE DEF r
  <2> QED
    BY <2>1 DEF UndoesAs
<1>4. /\ q \in Pkg!UploadShape /\ Pkg!RequestKnows(q)
      /\ q.pc = "undo_get" /\ q.answer = "failure" /\ q.undo = x
      /\ Pkg!Members(q.kept) = {h} \cup Pkg!Members(k)
      /\ Pkg!Stands(q) = {}
      /\ Pkg!SavedOf(q) = SavedAmong({h} \cup Pkg!Members(k))
      /\ Pkg!RowsOf(q) = CreatedIds(Pkg!Members(k)) /\ Pkg!Others(q) = Pkg!Members(k)
  <2>1. UndoesAs(q, "undo_get", h, k, x)
    BY <1>2, UndoesHas
  <2> HIDE DEF q
  <2>2. {} \cup Pkg!Members(k) = Pkg!Members(k)
    OBVIOUS
  <2> QED
    BY <2>1, <2>2 DEF UndoesAs
<1>5. s5' \in 0..MaxFaults /\ s7' = s7 /\ s6' \in BOOLEAN /\ (s6 => s6') /\ s4' = [s4 EXCEPT ![u] = q]
  BY <1>0, FaultsCounted DEF Calls
<1>6. s1' \subseteq Assets /\ s2' \in [PackageIds -> Builds \cup {"none"}] /\ s3' \subseteq PackageIds
  BY <1>0 DEF Pkg!PkgShape
<1> HIDE DEF r, q
<1>7. Moves(u, q)
  BY <1>3, <1>4, <1>5 DEF Moves, r
<1>8. Pkg!IconsKnown' /\ Pkg!IconsServed'
  <2>1. q.pc \notin Pkg!Persisting
    BY <1>4 DEF Pkg!Persisting
  <2> QED
    BY <1>7, <2>1, IconsMove
<1>9. Pkg!StoredKnown' /\ Pkg!DeclaredIsStored'
  BY <1>4, <1>6, <1>7, StoredMove
<1>10. Pkg!RowsKnown'
  <2>1. s3 \subseteq s3' \cup {Head(s4[u].kept).id} /\ s4[u].pc = "undo_row"
    BY <1>3 DEF r
  <2> QED
    BY <1>4, <1>7, <2>1, RowsMove
<1>11. Pkg!OverlapKnown'
  <2>1. Pkg!HasSaved(r)
    BY <1>1, <1>3 DEF Pkg!HasSaved, SavedAmong
  <2> QED
    BY <1>3, <1>4, <1>7, <2>1, OverlapMove DEF r
<1>12. Pkg!OverKnown' /\ Pkg!LoneKnows'
  <2>1. ASSUME Pkg!Differ(r, s7[u], s3, s2) PROVE Pkg!Differ(q, s7[u], s3', s2')
    <3> DEFINE b == s7[u]
    <3>1. Pkg!RowsOf(r) = {h.id} \cup Pkg!RowsOf(q) /\ h.id \notin Pkg!RowsOf(q)
      BY <1>1, <1>3, <1>4 DEF CreatedIds
    <3>2. /\ s3 = b.declared \cup Pkg!RowsOf(r) /\ Pkg!RowsOf(r) \cap b.declared = {}
          /\ \A o \in Pkg!SavedOf(r) :
               o.id \notin Pkg!Exempt(b) => s2[o.id] = o.build /\ Pkg!Restored(o) = b.bucket[o.id]
          /\ \A i \in PackageIds \ Pkg!Exempt(b) :
               s2[i] = b.bucket[i] \/ \E o \in Pkg!SavedOf(r) : o.id = i
      BY <2>1 DEF Pkg!Differ
    <3>3. Pkg!SavedOf(q) = Pkg!SavedOf(r) /\ q.pc \notin {"remap", "save"}
      BY <1>3, <1>4
    <3> HIDE DEF b
    <3>4. s3' = b.declared \cup Pkg!RowsOf(q) /\ Pkg!RowsOf(q) \cap b.declared = {}
      BY <3>1, <3>2
    <3>5. Pkg!Others(q) = {}
      BY <1>1, <1>4
    <3> QED
      BY <3>2, <3>3, <3>4, <3>5 DEF Pkg!Differ, b
  <2> QED
    BY <1>3, <1>4, <1>7, <2>1, LoneMove DEF r
<1> QED
  BY <1>4, <1>5, <1>6, <1>7, <1>8, <1>9, <1>10, <1>11, <1>12, RequestStep

\* The bucket is given back what it held.
LEMMA UndoesStored ==
  ASSUME Pkg!PkgIInv, NEW u \in Uploaders, NEW h, NEW k, NEW x,
         s4[u] = Undoes("undo_package", h, k, x), UndoesWell("undo_package", h, k, x),
         s4' = [s4 EXCEPT ![u] = UndoneTo(k, x)], Calls(u), Noted(u),
         s1' = s1, s2' = [s2 EXCEPT ![h.id] = Pkg!Restored(h)], s3' = s3
  PROVE  Pkg!PkgIInv'
<1> DEFINE r == s4[u]
           q == UndoneTo(k, x)
<1>0. Pkg!PkgShape /\ Pkg!StoredKnown
  BY DEF Pkg!PkgIInv
<1>1. /\ "saved" \in h.marks /\ x \in {"whole", "partial"} /\ h \in Pkg!PackageShape
      /\ k \in Seq(Pkg!PackageShape)
  BY DEF UndoesWell
<1>2. h.id \in PackageIds /\ Pkg!Restored(h) \in Builds \cup {"none"}
  BY <1>1 DEF Pkg!PackageShape, Pkg!Restored
<1>3. /\ r.pc = "undo_package" /\ r.answer = "failure" /\ r.undo = x /\ Head(r.kept) = h
      /\ Pkg!Members(r.kept) = {h} \cup Pkg!Members(k)
      /\ Pkg!SavedOf(r) = SavedAmong({h} \cup Pkg!Members(k))
      /\ Pkg!RowsOf(r) = CreatedIds(Pkg!Members(k))
      /\ Pkg!Current(r) = h /\ Pkg!Others(r) = Pkg!Members(k)
  <2>1. UndoesAs(r, "undo_package", h, k, x)
    BY UndoesHas
  <2> HIDE DEF r
  <2>2. {} \cup Pkg!Members(k) = Pkg!Members(k)
    OBVIOUS
  <2> QED
    BY <2>1, <2>2 DEF UndoesAs
<1>4. /\ q \in Pkg!UploadShape /\ Pkg!RequestKnows(q)
      /\ q.pc \in {"ended", "undo_assets"} /\ q.answer = "failure" /\ q.undo = x
      /\ Pkg!Members(q.kept) = Pkg!Members(k) /\ Pkg!Stands(q) = {}
      /\ Pkg!SavedOf(q) = SavedAmong(Pkg!Members(k))
      /\ Pkg!RowsOf(q) = CreatedIds(Pkg!Members(k)) /\ Pkg!Others(q) = {}
  <2>1. UndoneAs(q, k, x)
    BY <1>1, UndoneHas
  <2> HIDE DEF q
  <2> QED
    BY <2>1 DEF UndoneAs
<1>5. s5' \in 0..MaxFaults /\ s7' = s7 /\ s6' \in BOOLEAN /\ (s6 => s6') /\ s4' = [s4 EXCEPT ![u] = q]
  BY <1>0, FaultsCounted DEF Calls
<1>6. /\ s1' \subseteq Assets /\ s2' \in [PackageIds -> Builds \cup {"none"}] /\ s3' \subseteq PackageIds
      /\ s2'[h.id] = Pkg!Restored(h) /\ \A i \in PackageIds : i # h.id => s2'[i] = s2[i]
  BY <1>0, <1>2 DEF Pkg!PkgShape
<1> HIDE DEF r, q
<1>7. Moves(u, q)
  BY <1>3, <1>4, <1>5 DEF Moves, r
<1>8. Pkg!IconsKnown' /\ Pkg!IconsServed'
  <2>1. q.pc \notin Pkg!Persisting
    BY <1>4 DEF Pkg!Persisting
  <2> QED
    BY <1>7, <2>1, IconsMove
<1>9. Pkg!StoredKnown' /\ Pkg!DeclaredIsStored'
  <2>1. h.id \notin s3 \/ s6
    BY <1>0, <1>3 DEF Pkg!StoredKnown, Pkg!Undone, r
  <2>2. \A i \in PackageIds : s2'[i] = "none" =>
          s2[i] = "none" \/ (q.answer = "failure" /\ Noted(u) /\ (i \notin s3 \/ s6))
    BY <1>4, <1>6, <2>1
  <2> QED
    BY <1>4, <1>6, <1>7, <2>2, StoredMove
<1>10. Pkg!RowsKnown'
  BY <1>4, <1>7, RowsMove
<1>11. Pkg!OverlapKnown'
  <2>1. Pkg!HasSaved(r)
    BY <1>1, <1>3 DEF Pkg!HasSaved, SavedAmong
  <2> QED
    BY <1>3, <1>4, <1>7, <2>1, OverlapMove DEF r
<1>12. Pkg!OverKnown' /\ Pkg!LoneKnows'
  <2>1. ASSUME Pkg!Differ(r, s7[u], s3, s2) PROVE Pkg!Differ(q, s7[u], s3', s2')
    <3> DEFINE b == s7[u]
    <3>1. Pkg!SavedOf(r) = {h} \cup Pkg!SavedOf(q)
      BY <1>1, <1>3, <1>4 DEF SavedAmong
    <3>2. /\ s3 = b.declared \cup Pkg!RowsOf(r) /\ Pkg!RowsOf(r) \cap b.declared = {}
          /\ \A o \in Pkg!SavedOf(r) :
               o.id \notin Pkg!Exempt(b) => s2[o.id] = o.build /\ Pkg!Restored(o) = b.bucket[o.id]
          /\ \A i \in PackageIds \ Pkg!Exempt(b) :
               s2[i] = b.bucket[i] \/ \E o \in Pkg!SavedOf(r) : o.id = i
      BY <2>1 DEF Pkg!Differ
    <3>3. Pkg!Members(k) \subseteq Pkg!PackageShape
      BY <1>1, MembersIn
    <3>8. \A o \in Pkg!Members(k) : o.id = h.id => o.id \in b.twice
      BY <1>3, <2>1 DEF Pkg!Differ
    <3>4. \A o \in Pkg!SavedOf(q) : o.id \in PackageIds /\ (o.id \notin Pkg!Exempt(b) => o.id # h.id)
      BY <1>4, <3>3, <3>8 DEF Pkg!PackageShape, SavedAmong, Pkg!Exempt
    <3> HIDE DEF b
    <3>5. \A o \in Pkg!SavedOf(q) :
            o.id \notin Pkg!Exempt(b) => s2'[o.id] = o.build /\ Pkg!Restored(o) = b.bucket[o.id]
      BY <1>6, <3>1, <3>2, <3>4
    <3>6. \A i \in PackageIds \ Pkg!Exempt(b) : s2'[i] = b.bucket[i] \/ \E o \in Pkg!SavedOf(q) : o.id = i
      BY <1>6, <3>1, <3>2
    <3>7. q.pc \notin {"remap", "save"} /\ Pkg!RowsOf(q) = Pkg!RowsOf(r)
      BY <1>3, <1>4
    <3> QED
      BY <1>4, <3>2, <3>5, <3>6, <3>7 DEF Pkg!Differ, b
  <2> QED
    BY <1>3, <1>4, <1>7, <2>1, LoneMove DEF r
<1> QED
  BY <1>4, <1>5, <1>6, <1>7, <1>8, <1>9, <1>10, <1>11, <1>12, RequestStep

------------------------------------------------------------------------------
(* Packages: every action *)

\* A call that writes nothing, and one that writes.
LEMMA CallsQuiet ==
  ASSUME NEW u \in Uploaders, Pkg!PkgShape, s7' = s7, s6' = s6, Pkg!Fault \/ Pkg!Fine
  PROVE  Calls(u)
BY Zenon DEF Calls, Pkg!PkgShape

\* A call that writes notes the other requests being served.
LEMMA CallsWrite ==
  ASSUME NEW u \in Uploaders, Pkg!PkgShape, s7' = s7, Pkg!Wrote(u), Pkg!Fault \/ Pkg!Fine
  PROVE  Calls(u) /\ Noted(u)
<1>1. s6' = (s6 \/ \E v \in Uploaders \ {u} : Pkg!Serving(v))
  BY Zenon DEF Pkg!Wrote
<1>2. (s6 => s6') /\ Noted(u)
  BY <1>1, Zenon DEF Noted
<1>3. s6' \in BOOLEAN
  BY <1>1, Zenon
<1> QED
  BY <1>2, <1>3, Zenon DEF Calls

\* A package with other marks, with other assets, or with the copy of what was stored.
LEMMA Marked ==
  ASSUME NEW h \in Pkg!PackageShape, NEW m \in SUBSET {"existed", "saved", "created"}
  PROVE  LET p == [h EXCEPT !.marks = m]
         IN  /\ p \in Pkg!PackageShape /\ p.id = h.id /\ p.build = h.build /\ p.marks = m
             /\ p.assets = h.assets /\ p.previous = h.previous
BY DEF Pkg!PackageShape

\* A package with the icons RemapAssets saved.
LEMMA Pictured ==
  ASSUME NEW h \in Pkg!PackageShape, NEW a \in SUBSET Assets
  PROVE  LET p == [h EXCEPT !.assets = a]
         IN  /\ p \in Pkg!PackageShape /\ p.id = h.id /\ p.build = h.build /\ p.marks = h.marks
             /\ p.assets = a /\ p.previous = h.previous
BY DEF Pkg!PackageShape

CopyOf(p, h, m, c) ==
  /\ p \in Pkg!PackageShape /\ p.id = h.id /\ p.build = h.build /\ p.marks = m
  /\ p.assets = h.assets /\ p.previous = c

\* A package with other marks and the copy of what was stored.
LEMMA Copied ==
  ASSUME NEW h \in Pkg!PackageShape, NEW m \in SUBSET {"existed", "saved", "created"},
         NEW c \in Builds \cup {"none"}
  PROVE  CopyOf([h EXCEPT !.marks = m, !.previous = c], h, m, c)
BY DEF Pkg!PackageShape, CopyOf

\* Where the operators take a request that persists.
LEMMA PersistsGoes ==
  ASSUME Pkg!PkgShape, NEW u \in Uploaders, NEW cur, NEW h, NEW t, NEW k,
         s4[u] = Persists(cur, h, t, k), PersistsWell(cur, h, t, k), NEW at, NEW p
  PROVE  /\ Pkg!ToPkg(u, at) => s4' = [s4 EXCEPT ![u] = Persists(at, h, t, k)]
         /\ Pkg!With(u, at, p) => s4' = [s4 EXCEPT ![u] = Persists(at, p, t, k)]
         /\ Pkg!Rollback(u, p) => s4' = [s4 EXCEPT ![u] = Undoes("undo_assets", p, k, "whole")]
<1> DEFINE r == s4[u]
<1>1. /\ r.kept = k /\ r.todo = <<h>> \o t /\ Tail(r.todo) = t
      /\ r.answer = "none" /\ r.undo = "whole"
  <2>1. PersistsAs(r, cur, h, t, k)
    BY PersistsHas
  <2> HIDE DEF r
  <2> QED
    BY <2>1 DEF PersistsAs
<1>2. /\ Pkg!ToPkg(u, at) =>
           s4' = [s4 EXCEPT ![u] = Request(at, r.todo, r.kept, r.answer, r.undo)]
      /\ Pkg!With(u, at, p) =>
           s4' = [s4 EXCEPT ![u] = Request(at, <<p>> \o Tail(r.todo), r.kept, r.answer, r.undo)]
      /\ Pkg!Rollback(u, p) =>
           s4' = [s4 EXCEPT ![u] = Request("undo_assets", <<>>, <<p>> \o r.kept, "failure", r.undo)]
  BY RequestUpdates
<1> HIDE DEF r
<1> QED
  BY <1>1, <1>2 DEF Persists, Undoes

\* Where the operators take a request that rolls back.
LEMMA UndoesGoes ==
  ASSUME Pkg!PkgShape, NEW u \in Uploaders, NEW cur, NEW h, NEW k, NEW x,
         s4[u] = Undoes(cur, h, k, x), UndoesWell(cur, h, k, x), NEW at, NEW p
  PROVE  /\ Pkg!ToPkg(u, at) => Becomes(u, Undoes(at, h, k, x))
         /\ s4' = [s4 EXCEPT ![u].pc = at, ![u].undo = "partial"]
              => Becomes(u, Undoes(at, h, k, "partial"))
         /\ s4' = [s4 EXCEPT ![u].kept = <<p>> \o Tail(@)]
              => Becomes(u, Undoes(cur, p, k, x))
<1> DEFINE r == s4[u]
           n == <<p>> \o k
<1>1. /\ r.pc = cur /\ r.todo = <<>> /\ r.kept = <<h>> \o k /\ Tail(r.kept) = k
      /\ r.answer = "failure" /\ r.undo = x
  <2>1. UndoesAs(r, cur, h, k, x)
    BY UndoesHas
  <2> HIDE DEF r
  <2> QED
    BY <2>1 DEF UndoesAs
<1>2. DOMAIN s4 = Uploaders
  BY DEF Pkg!PkgShape
<1>3. Pkg!ToPkg(u, at) => s4' = [s4 EXCEPT ![u] = Request(at, r.todo, r.kept, r.answer, r.undo)]
  BY RequestUpdates
<1>4. r = Request(cur, <<>>, <<h>> \o k, "failure", x)
  BY DEF Undoes
<1>5. s4' = [s4 EXCEPT ![u].pc = at, ![u].undo = "partial"]
        => s4' = [s4 EXCEPT ![u] = Undoes(at, h, k, "partial")]
  <2> DEFINE c == <<h>> \o k
  <2> SUFFICES ASSUME s4' = [s4 EXCEPT ![u].pc = at, ![u].undo = "partial"]
               PROVE  s4' = [s4 EXCEPT ![u] = Undoes(at, h, k, "partial")]
    OBVIOUS
  <2>1. s4' = [s4 EXCEPT ![u] = [r EXCEPT !.pc = at, !.undo = "partial"]]
    BY <1>2
  <2>2. [Request(cur, <<>>, c, "failure", x) EXCEPT !.pc = at] = Request(at, <<>>, c, "failure", x)
    <3> HIDE DEF c
    <3> QED
      BY DEF Request
  <2>3. [Request(at, <<>>, c, "failure", x) EXCEPT !.undo = "partial"] = Request(at, <<>>, c, "failure", "partial")
    <3> HIDE DEF c
    <3> QED
      BY DEF Request
  <2>4. [r EXCEPT !.pc = at, !.undo = "partial"] = Request(at, <<>>, c, "failure", "partial")
    BY <1>4, <2>2, <2>3
  <2> QED
    BY <2>1, <2>4 DEF Undoes
<1>6. s4' = [s4 EXCEPT ![u].kept = <<p>> \o Tail(@)] => s4' = [s4 EXCEPT ![u] = Undoes(cur, p, k, x)]
  <2> DEFINE c == <<h>> \o k
  <2> SUFFICES ASSUME s4' = [s4 EXCEPT ![u].kept = <<p>> \o Tail(@)]
               PROVE  s4' = [s4 EXCEPT ![u] = Undoes(cur, p, k, x)]
    OBVIOUS
  <2>1. s4' = [s4 EXCEPT ![u] = [r EXCEPT !.kept = <<p>> \o Tail(r.kept)]]
    BY <1>2
  <2>2. [Request(cur, <<>>, c, "failure", x) EXCEPT !.kept = n] = Request(cur, <<>>, n, "failure", x)
    <3> HIDE DEF n, c
    <3> QED
      BY DEF Request
  <2>3. [r EXCEPT !.kept = n] = Request(cur, <<>>, n, "failure", x)
    BY <1>4, <2>2
  <2> QED
    BY <1>1, <2>1, <2>3 DEF Undoes
<1> HIDE DEF r
<1> QED
  BY <1>1, <1>3, <1>5, <1>6 DEF Undoes, Becomes

\* Save asks the bucket whether the package is there.
LEMMA PersistExistsKeeps ==
  ASSUME Pkg!PkgIInv, NEW u \in Uploaders, Pkg!PersistExists(u)
  PROVE  Pkg!PkgIInv'
<1> DEFINE h == Head(s4[u].todo)
           t == Tail(s4[u].todo)
           k == s4[u].kept
<1>0. Pkg!PkgShape
  BY DEF Pkg!PkgIInv
<1>1. s4[u].pc = "exists"
  BY DEF Pkg!PersistExists, Pkg!AtPkg
<1>2. s4[u] = Persists("exists", h, t, k) /\ PersistsWell("exists", h, t, k)
  BY <1>1, PersistingIs DEF Pkg!Persisting
<1>3. s1' = s1 /\ s2' = s2 /\ s3' = s3 /\ s6' = s6 /\ s7' = s7 /\ (Pkg!Fault \/ Pkg!Fine)
  BY DEF Pkg!PersistExists, Pkg!StoresKept
<1>4. Calls(u) /\ s1' \subseteq Assets
  BY <1>0, <1>3, CallsQuiet DEF Pkg!PkgShape
<1>5. \/ s2[h.id] # "none" /\ Pkg!ToPkg(u, "get")
      \/ s2[h.id] = "none" /\ Pkg!ToPkg(u, "remap")
      \/ Pkg!Rollback(u, h)
  BY DEF Pkg!PersistExists, Pkg!Head_
<1> HIDE DEF h, t, k
<1>6. h.marks = {} /\ h.assets = {}
  BY <1>2 DEF PersistsWell, Pkg!HeadKnows
<1>7. CASE Pkg!Rollback(u, h)
  <2>1. s4' = [s4 EXCEPT ![u] = Undoes("undo_assets", h, k, "whole")]
    BY <1>0, <1>2, <1>7, PersistsGoes
  <2> QED
    BY <1>2, <1>3, <1>4, <2>1, RollsBack
<1>8. CASE Pkg!ToPkg(u, "get")
  <2>1. s4' = [s4 EXCEPT ![u] = Persists("get", h, t, k)]
    BY <1>0, <1>2, <1>8, PersistsGoes
  <2>2. PersistsWell("get", h, t, k)
    BY <1>2, <1>6 DEF PersistsWell, Pkg!HeadKnows, Pkg!Persisting
  <2> QED
    BY <1>2, <1>3, <1>4, <2>1, <2>2, PersistsOn
<1>9. CASE s2[h.id] = "none" /\ Pkg!ToPkg(u, "remap")
  <2>1. s4' = [s4 EXCEPT ![u] = Persists("remap", h, t, k)]
    BY <1>0, <1>2, <1>9, PersistsGoes
  <2>2. PersistsWell("remap", h, t, k)
    BY <1>2, <1>6 DEF PersistsWell, Pkg!HeadKnows, Pkg!Persisting
  <2>3. Pkg!Restored(h) = s2[h.id]
    BY <1>6, <1>9 DEF Pkg!Restored
  <2> QED
    BY <1>2, <1>3, <1>4, <2>1, <2>2, <2>3, PersistsOn
<1> QED
  BY <1>5, <1>7, <1>8, <1>9

\* Save reads the package it is about to overwrite.
LEMMA PersistGetKeeps ==
  ASSUME Pkg!PkgIInv, NEW u \in Uploaders, Pkg!PersistGet(u)
  PROVE  Pkg!PkgIInv'
<1> DEFINE h == Head(s4[u].todo)
           t == Tail(s4[u].todo)
           k == s4[u].kept
           p == [h EXCEPT !.marks = h.marks \cup {"existed"}, !.previous = s2[h.id]]
<1>0. Pkg!PkgShape
  BY DEF Pkg!PkgIInv
<1>1. s4[u].pc = "get"
  BY DEF Pkg!PersistGet, Pkg!AtPkg
<1>2. s4[u] = Persists("get", h, t, k) /\ PersistsWell("get", h, t, k)
  BY <1>1, PersistingIs DEF Pkg!Persisting
<1>3. s1' = s1 /\ s2' = s2 /\ s3' = s3 /\ s6' = s6 /\ s7' = s7 /\ (Pkg!Fault \/ Pkg!Fine)
  BY DEF Pkg!PersistGet, Pkg!StoresKept
<1>4. Calls(u) /\ s1' \subseteq Assets
  BY <1>0, <1>3, CallsQuiet DEF Pkg!PkgShape
<1>5. Pkg!With(u, "remap", [h EXCEPT !.marks = @ \cup {"existed"}, !.previous = s2[h.id]]) \/ Pkg!Rollback(u, h)
  BY DEF Pkg!PersistGet, Pkg!Head_
<1>6. h.marks = {} /\ h.assets = {} /\ h \in Pkg!PackageShape
  BY <1>2 DEF PersistsWell, Pkg!HeadKnows
<1>7. s2[h.id] \in Builds \cup {"none"}
  BY <1>0, <1>6 DEF Pkg!PkgShape, Pkg!PackageShape
<1>8. /\ p \in Pkg!PackageShape /\ p.id = h.id /\ p.build = h.build /\ p.marks = {"existed"}
      /\ p.assets = {} /\ p.previous = s2[h.id]
  <2> DEFINE m == h.marks \cup {"existed"}
             c == s2[h.id]
  <2>1. m \in SUBSET {"existed", "saved", "created"} /\ m = {"existed"}
    BY <1>6
  <2>3. c \in Builds \cup {"none"}
    BY <1>7
  <2> HIDE DEF h, m, c
  <2>2. CopyOf([h EXCEPT !.marks = m, !.previous = c], h, m, c)
    BY <1>6, <2>1, <2>3, Copied
  <2>4. CopyOf(p, h, m, c)
    BY <2>2 DEF m, c
  <2> HIDE DEF p
  <2> QED
    BY <1>6, <2>1, <2>4 DEF CopyOf, c
<1>9. Pkg!With(u, "remap", p) \/ Pkg!Rollback(u, h)
  BY <1>5
<1> HIDE DEF h, t, k, p
<1>10. CASE Pkg!Rollback(u, h)
  <2>1. s4' = [s4 EXCEPT ![u] = Undoes("undo_assets", h, k, "whole")]
    BY <1>0, <1>2, <1>10, PersistsGoes
  <2> QED
    BY <1>2, <1>3, <1>4, <2>1, RollsBack
<1>11. CASE Pkg!With(u, "remap", p)
  <2>1. s4' = [s4 EXCEPT ![u] = Persists("remap", p, t, k)]
    BY <1>0, <1>2, <1>11, PersistsGoes
  <2>2. PersistsWell("remap", p, t, k)
    BY <1>2, <1>8 DEF PersistsWell, Pkg!HeadKnows, Pkg!Persisting
  <2>3. Pkg!Restored(p) = s2[p.id]
    BY <1>8 DEF Pkg!Restored
  <2> QED
    BY <1>2, <1>3, <1>4, <1>6, <1>8, <2>1, <2>2, <2>3, PersistsOn
<1> QED
  BY <1>9, <1>10, <1>11

\* The icons of the package are saved.
LEMMA RemapAssetsKeeps ==
  ASSUME Pkg!PkgIInv, NEW u \in Uploaders, Pkg!RemapAssets(u)
  PROVE  Pkg!PkgIInv'
<1> DEFINE h == Head(s4[u].todo)
           t == Tail(s4[u].todo)
           k == s4[u].kept
<1>0. Pkg!PkgShape
  BY DEF Pkg!PkgIInv
<1>1. s4[u].pc = "remap"
  BY DEF Pkg!RemapAssets, Pkg!AtPkg
<1>2. s4[u] = Persists("remap", h, t, k) /\ PersistsWell("remap", h, t, k)
  BY <1>1, PersistingIs DEF Pkg!Persisting
<1>3. s2' = s2 /\ s3' = s3 /\ s7' = s7
  BY DEF Pkg!RemapAssets
<1>4. \/ \E a \in AssetsOf[h.id] \ h.assets :
           /\ Pkg!Fine /\ Pkg!Wrote(u) /\ s1' = s1 \cup {a}
           /\ Pkg!With(u, "remap", [h EXCEPT !.assets = @ \cup {a}])
      \/ h.assets = AssetsOf[h.id] /\ Pkg!Fine /\ Pkg!ToPkg(u, "save") /\ s1' = s1 /\ s6' = s6
      \/ Pkg!Fault /\ Pkg!Rollback(u, h) /\ s1' = s1 /\ s6' = s6
  BY DEF Pkg!RemapAssets, Pkg!Head_
<1>5. /\ h \in Pkg!PackageShape /\ h.marks \subseteq {"existed"}
      /\ h.id \in PackageIds /\ h.assets \subseteq Assets
  BY <1>2 DEF PersistsWell, Pkg!HeadKnows, Pkg!PackageShape
<1>6. AssetsOf[h.id] \subseteq Assets /\ s1 \subseteq Assets
  BY <1>0, <1>5, ServicesAssumption DEF Pkg!PackagesAssumption, Pkg!PkgShape
<1> HIDE DEF h, t, k
<1>7. CASE Pkg!Fault /\ Pkg!Rollback(u, h) /\ s1' = s1 /\ s6' = s6
  <2>1. s4' = [s4 EXCEPT ![u] = Undoes("undo_assets", h, k, "whole")]
    BY <1>0, <1>2, <1>7, PersistsGoes
  <2>2. Calls(u)
    BY <1>0, <1>3, <1>7, CallsQuiet
  <2> QED
    BY <1>2, <1>3, <1>7, <2>1, <2>2, RollsBack
<1>8. CASE h.assets = AssetsOf[h.id] /\ Pkg!Fine /\ Pkg!ToPkg(u, "save") /\ s1' = s1 /\ s6' = s6
  <2>1. s4' = [s4 EXCEPT ![u] = Persists("save", h, t, k)]
    BY <1>0, <1>2, <1>8, PersistsGoes
  <2>2. Calls(u)
    BY <1>0, <1>3, <1>8, CallsQuiet
  <2>3. PersistsWell("save", h, t, k)
    BY <1>2, <1>5, <1>8 DEF PersistsWell, Pkg!HeadKnows, Pkg!Persisting
  <2> QED
    BY <1>2, <1>3, <1>6, <1>8, <2>1, <2>2, <2>3, PersistsOn
<1>9. ASSUME NEW a \in AssetsOf[h.id] \ h.assets, Pkg!Fine, Pkg!Wrote(u), s1' = s1 \cup {a},
             Pkg!With(u, "remap", [h EXCEPT !.assets = @ \cup {a}])
      PROVE  Pkg!PkgIInv'
  <2> DEFINE c == h.assets \cup {a}
             p == [h EXCEPT !.assets = c]
  <2>1. /\ p \in Pkg!PackageShape /\ p.id = h.id /\ p.build = h.build /\ p.marks = h.marks
        /\ p.assets = c /\ p.previous = h.previous
    <3>1. c \in SUBSET Assets
      BY <1>5, <1>6
    <3> HIDE DEF c
    <3> QED
      BY <1>5, <3>1, Pictured
  <2>2. Pkg!With(u, "remap", p)
    BY <1>9
  <2>3. Calls(u)
    BY <1>0, <1>3, <1>9, CallsWrite
  <2> HIDE DEF p
  <2>4. s4' = [s4 EXCEPT ![u] = Persists("remap", p, t, k)]
    BY <1>0, <1>2, <2>2, PersistsGoes
  <2>5. PersistsWell("remap", p, t, k)
    BY <1>2, <1>5, <2>1 DEF PersistsWell, Pkg!HeadKnows, Pkg!Persisting
  <2>6. Pkg!Restored(p) = Pkg!Restored(h)
    BY <2>1 DEF Pkg!Restored
  <2>7. s1 \subseteq s1' /\ s1' \subseteq Assets
    BY <1>6, <1>9
  <2>8. h.assets \subseteq s1 \/ Failed => p.assets \subseteq s1' \/ Failed
    BY <1>9, <2>1
  <2> QED
    BY <1>2, <1>3, <2>1, <2>3, <2>4, <2>5, <2>6, <2>7, <2>8, PersistsOn
<1> QED
  BY <1>4, <1>7, <1>8, <1>9

\* The package is written to the bucket.
LEMMA PersistSaveKeeps ==
  ASSUME Pkg!PkgIInv, NEW u \in Uploaders, Pkg!PersistSave(u)
  PROVE  Pkg!PkgIInv'
<1> DEFINE h == Head(s4[u].todo)
           t == Tail(s4[u].todo)
           k == s4[u].kept
           m == h.marks \cup {"saved"}
           p == [h EXCEPT !.marks = m]
<1>0. Pkg!PkgShape
  BY DEF Pkg!PkgIInv
<1>1. s4[u].pc = "save"
  BY DEF Pkg!PersistSave, Pkg!AtPkg
<1>2. s4[u] = Persists("save", h, t, k) /\ PersistsWell("save", h, t, k)
  BY <1>1, PersistingIs DEF Pkg!Persisting
<1>3. s1' = s1 /\ s3' = s3 /\ s7' = s7
  BY DEF Pkg!PersistSave
<1>4. \/ /\ Pkg!Fine /\ Pkg!Wrote(u) /\ s2' = [s2 EXCEPT ![h.id] = h.build]
         /\ Pkg!With(u, "look", p)
      \/ Pkg!Fault /\ Pkg!Rollback(u, h) /\ s2' = s2 /\ s6' = s6
  BY DEF Pkg!PersistSave, Pkg!Head_
<1>5. /\ h \in Pkg!PackageShape /\ h.marks \subseteq {"existed"} /\ h.assets = AssetsOf[h.id]
  BY <1>2 DEF PersistsWell, Pkg!HeadKnows
<1> HIDE DEF h, t, k
<1>6. /\ p \in Pkg!PackageShape /\ p.id = h.id /\ p.build = h.build /\ p.marks = m
      /\ p.assets = h.assets /\ p.previous = h.previous
  <2>1. m \in SUBSET {"existed", "saved", "created"}
    BY <1>5
  <2> HIDE DEF m
  <2> QED
    BY <1>5, <2>1, Marked
<1> HIDE DEF p
<1>7. CASE Pkg!Fault /\ Pkg!Rollback(u, h) /\ s2' = s2 /\ s6' = s6
  <2>1. s4' = [s4 EXCEPT ![u] = Undoes("undo_assets", h, k, "whole")]
    BY <1>0, <1>2, <1>7, PersistsGoes
  <2>2. Calls(u)
    BY <1>0, <1>3, <1>7, CallsQuiet
  <2> QED
    BY <1>2, <1>3, <1>7, <2>1, <2>2, RollsBack
<1>8. CASE /\ Pkg!Fine /\ Pkg!Wrote(u) /\ s2' = [s2 EXCEPT ![h.id] = h.build]
           /\ Pkg!With(u, "look", p)
  <2>1. s4' = [s4 EXCEPT ![u] = Persists("look", p, t, k)]
    BY <1>0, <1>2, <1>8, PersistsGoes
  <2>2. Calls(u) /\ Noted(u)
    BY <1>0, <1>3, <1>8, CallsWrite
  <2>3. PersistsWell("look", p, t, k)
    BY <1>2, <1>5, <1>6 DEF PersistsWell, Pkg!HeadKnows, Pkg!Persisting
  <2> QED
    BY <1>2, <1>3, <1>6, <1>8, <2>1, <2>2, <2>3, Saves
<1> QED
  BY <1>4, <1>7, <1>8

\* The declaration is looked up.
LEMMA PersistLookKeeps ==
  ASSUME Pkg!PkgIInv, NEW u \in Uploaders, Pkg!PersistLook(u)
  PROVE  Pkg!PkgIInv'
<1> DEFINE h == Head(s4[u].todo)
           t == Tail(s4[u].todo)
           k == s4[u].kept
<1>0. Pkg!PkgShape
  BY DEF Pkg!PkgIInv
<1>1. s4[u].pc = "look"
  BY DEF Pkg!PersistLook, Pkg!AtPkg
<1>2. s4[u] = Persists("look", h, t, k) /\ PersistsWell("look", h, t, k)
  BY <1>1, PersistingIs DEF Pkg!Persisting
<1>3. s1' = s1 /\ s2' = s2 /\ s3' = s3 /\ s6' = s6 /\ s7' = s7 /\ (Pkg!Fault \/ Pkg!Fine)
  BY DEF Pkg!PersistLook, Pkg!StoresKept
<1>4. Calls(u) /\ s1' \subseteq Assets
  BY <1>0, <1>3, CallsQuiet DEF Pkg!PkgShape
<1>5. \/ h.id \in s3 /\ Pkg!Persisted(u, h)
      \/ Pkg!ToPkg(u, "create")
      \/ Pkg!Rollback(u, h)
  BY DEF Pkg!PersistLook, Pkg!Head_
<1> HIDE DEF h, t, k
<1>6. CASE Pkg!Rollback(u, h)
  <2>1. s4' = [s4 EXCEPT ![u] = Undoes("undo_assets", h, k, "whole")]
    BY <1>0, <1>2, <1>6, PersistsGoes
  <2> QED
    BY <1>2, <1>3, <1>4, <2>1, RollsBack
<1>7. CASE h.id \in s3 /\ Pkg!Persisted(u, h)
  <2>1. s4' = [s4 EXCEPT ![u] = PersistedTo(h, t, k)]
    BY <1>0, <1>2, <1>7, PersistedIs
  <2> QED
    BY <1>2, <1>3, <1>4, <1>7, <2>1, PersistsNext
<1>8. CASE Pkg!ToPkg(u, "create")
  <2>1. s4' = [s4 EXCEPT ![u] = Persists("create", h, t, k)]
    BY <1>0, <1>2, <1>8, PersistsGoes
  <2>2. PersistsWell("create", h, t, k)
    BY <1>2 DEF PersistsWell, Pkg!HeadKnows, Pkg!Persisting
  <2> QED
    BY <1>2, <1>3, <1>4, <2>1, <2>2, PersistsOn
<1> QED
  BY <1>5, <1>6, <1>7, <1>8

\* The declaration is inserted.
LEMMA PersistCreateKeeps ==
  ASSUME Pkg!PkgIInv, NEW u \in Uploaders, Pkg!PersistCreate(u)
  PROVE  Pkg!PkgIInv'
<1> DEFINE h == Head(s4[u].todo)
           t == Tail(s4[u].todo)
           k == s4[u].kept
           m == h.marks \cup {"created"}
           p == [h EXCEPT !.marks = m]
<1>0. Pkg!PkgShape
  BY DEF Pkg!PkgIInv
<1>1. s4[u].pc = "create"
  BY DEF Pkg!PersistCreate, Pkg!AtPkg
<1>2. s4[u] = Persists("create", h, t, k) /\ PersistsWell("create", h, t, k)
  BY <1>1, PersistingIs DEF Pkg!Persisting
<1>3. s1' = s1 /\ s2' = s2 /\ s7' = s7 /\ s1' \subseteq Assets
  BY <1>0 DEF Pkg!PersistCreate, Pkg!PkgShape
<1>4. \/ /\ Pkg!Fine /\ h.id \notin s3 /\ Pkg!Wrote(u) /\ s3' = s3 \cup {h.id}
         /\ Pkg!Persisted(u, p)
      \/ Pkg!Fine /\ h.id \in s3 /\ Pkg!Persisted(u, h) /\ s3' = s3 /\ s6' = s6
      \/ Pkg!Fault /\ Pkg!ToPkg(u, "again") /\ s3' = s3 /\ s6' = s6
  BY DEF Pkg!PersistCreate, Pkg!Head_
<1>5. h \in Pkg!PackageShape /\ h.marks \subseteq {"existed", "saved", "created"}
  BY <1>2 DEF PersistsWell, Pkg!PackageShape
<1> HIDE DEF h, t, k
<1>6. /\ p \in Pkg!PackageShape /\ p.id = h.id /\ p.build = h.build /\ p.marks = m
      /\ p.assets = h.assets /\ p.previous = h.previous
  <2>1. m \in SUBSET {"existed", "saved", "created"}
    BY <1>5
  <2> HIDE DEF m
  <2> QED
    BY <1>5, <2>1, Marked
<1> HIDE DEF p
<1>7. CASE /\ Pkg!Fine /\ h.id \notin s3 /\ Pkg!Wrote(u) /\ s3' = s3 \cup {h.id}
           /\ Pkg!Persisted(u, p)
  <2>1. s4' = [s4 EXCEPT ![u] = PersistedTo(p, t, k)]
    BY <1>0, <1>2, <1>7, PersistedIs
  <2>2. Calls(u) /\ Noted(u)
    BY <1>0, <1>3, <1>7, CallsWrite
  <2> QED
    BY <1>2, <1>3, <1>6, <1>7, <2>1, <2>2, Creates
<1>8. CASE Pkg!Fine /\ h.id \in s3 /\ Pkg!Persisted(u, h) /\ s3' = s3 /\ s6' = s6
  <2>1. s4' = [s4 EXCEPT ![u] = PersistedTo(h, t, k)]
    BY <1>0, <1>2, <1>8, PersistedIs
  <2>2. Calls(u)
    BY <1>0, <1>3, <1>8, CallsQuiet
  <2> QED
    BY <1>2, <1>3, <1>8, <2>1, <2>2, PersistsNext
<1>9. CASE Pkg!Fault /\ Pkg!ToPkg(u, "again") /\ s3' = s3 /\ s6' = s6
  <2>1. s4' = [s4 EXCEPT ![u] = Persists("again", h, t, k)]
    BY <1>0, <1>2, <1>9, PersistsGoes
  <2>2. PersistsWell("again", h, t, k)
    BY <1>2 DEF PersistsWell, Pkg!HeadKnows, Pkg!Persisting
  <2>3. Calls(u)
    BY <1>0, <1>3, <1>9, CallsQuiet
  <2> QED
    BY <1>2, <1>3, <1>9, <2>1, <2>2, <2>3, PersistsOn
<1> QED
  BY <1>4, <1>7, <1>8, <1>9

\* The declaration is looked up again after an insertion that failed.
LEMMA PersistAgainKeeps ==
  ASSUME Pkg!PkgIInv, NEW u \in Uploaders, Pkg!PersistAgain(u)
  PROVE  Pkg!PkgIInv'
<1> DEFINE h == Head(s4[u].todo)
           t == Tail(s4[u].todo)
           k == s4[u].kept
<1>0. Pkg!PkgShape
  BY DEF Pkg!PkgIInv
<1>1. s4[u].pc = "again"
  BY DEF Pkg!PersistAgain, Pkg!AtPkg
<1>2. s4[u] = Persists("again", h, t, k) /\ PersistsWell("again", h, t, k)
  BY <1>1, PersistingIs DEF Pkg!Persisting
<1>3. s1' = s1 /\ s2' = s2 /\ s3' = s3 /\ s6' = s6 /\ s7' = s7 /\ (Pkg!Fault \/ Pkg!Fine)
  BY DEF Pkg!PersistAgain, Pkg!StoresKept
<1>4. Calls(u)
  BY <1>0, <1>3, CallsQuiet
<1>5. (h.id \in s3 /\ Pkg!Persisted(u, h)) \/ Pkg!Rollback(u, h)
  BY DEF Pkg!PersistAgain, Pkg!Head_
<1> HIDE DEF h, t, k
<1>6. CASE Pkg!Rollback(u, h)
  <2>1. s4' = [s4 EXCEPT ![u] = Undoes("undo_assets", h, k, "whole")]
    BY <1>0, <1>2, <1>6, PersistsGoes
  <2> QED
    BY <1>2, <1>3, <1>4, <2>1, RollsBack
<1>7. CASE h.id \in s3 /\ Pkg!Persisted(u, h)
  <2>1. s4' = [s4 EXCEPT ![u] = PersistedTo(h, t, k)]
    BY <1>0, <1>2, <1>7, PersistedIs
  <2> QED
    BY <1>2, <1>3, <1>4, <1>7, <2>1, PersistsNext
<1> QED
  BY <1>5, <1>6, <1>7

\* The rollback deletes the icons.
LEMMA UndoAssetsKeeps ==
  ASSUME Pkg!PkgIInv, NEW u \in Uploaders, Pkg!UndoAssets(u)
  PROVE  Pkg!PkgIInv'
<1> DEFINE h == Head(s4[u].kept)
           k == Tail(s4[u].kept)
           x == s4[u].undo
<1>0. Pkg!PkgShape
  BY DEF Pkg!PkgIInv
<1>1. s4[u].pc = "undo_assets"
  BY DEF Pkg!UndoAssets, Pkg!AtPkg
<1>2. s4[u] = Undoes("undo_assets", h, k, x) /\ UndoesWell("undo_assets", h, k, x)
  BY <1>1, UndoingIs DEF Pkg!Undoing
<1>3. s2' = s2 /\ s3' = s3 /\ s7' = s7 /\ s1 \subseteq Assets
  BY <1>0 DEF Pkg!UndoAssets, Pkg!PkgShape
<1>4. \/ /\ Pkg!Fine /\ s1' = s1 /\ s6' = s6
         /\ \/ "created" \in h.marks /\ Pkg!ToPkg(u, "undo_row")
            \/ "created" \notin h.marks /\ "saved" \in h.marks /\ Pkg!ToPkg(u, "undo_get")
            \/ "saved" \notin h.marks /\ Pkg!NextUndo(u, x)
      \/ \E a \in h.assets :
           /\ (Pkg!Fine /\ s1' = s1 \ {a}) \/ (Pkg!Fault /\ s1' = s1)
           /\ Pkg!Wrote(u)
           /\ s4' = [s4 EXCEPT ![u].kept = <<[h EXCEPT !.assets = @ \ {a}]>> \o Tail(@)]
  BY DEF Pkg!UndoAssets, Pkg!Undone
<1>5. /\ h \in Pkg!PackageShape /\ h.assets \subseteq Assets /\ x \in {"whole", "partial"}
      /\ "created" \in h.marks => "saved" \in h.marks
  BY <1>2 DEF UndoesWell, Pkg!PackageShape
<1> HIDE DEF h, k, x
<1>6. CASE /\ Pkg!Fine /\ s1' = s1 /\ s6' = s6
           /\ \/ "created" \in h.marks /\ Pkg!ToPkg(u, "undo_row")
              \/ "created" \notin h.marks /\ "saved" \in h.marks /\ Pkg!ToPkg(u, "undo_get")
              \/ "saved" \notin h.marks /\ Pkg!NextUndo(u, x)
  <2>1. Calls(u)
    BY <1>0, <1>3, <1>6, CallsQuiet
  <2>2. CASE "created" \in h.marks /\ Pkg!ToPkg(u, "undo_row")
    <3>1. s4' = [s4 EXCEPT ![u] = Undoes("undo_row", h, k, x)]
      <4>1. Becomes(u, Undoes("undo_row", h, k, x))
        BY <1>0, <1>2, <2>2, UndoesGoes
      <4> QED
        BY <4>1 DEF Becomes
    <3>2. UndoesWell("undo_row", h, k, x)
      BY <1>2, <2>2 DEF UndoesWell, Pkg!Undoing
    <3> QED
      BY <1>2, <1>3, <1>6, <2>1, <3>1, <3>2, UndoesOn
  <2>3. CASE "created" \notin h.marks /\ "saved" \in h.marks /\ Pkg!ToPkg(u, "undo_get")
    <3>1. s4' = [s4 EXCEPT ![u] = Undoes("undo_get", h, k, x)]
      <4>1. Becomes(u, Undoes("undo_get", h, k, x))
        BY <1>0, <1>2, <2>3, UndoesGoes
      <4> QED
        BY <4>1 DEF Becomes
    <3>2. UndoesWell("undo_get", h, k, x)
      BY <1>2, <2>3 DEF UndoesWell, Pkg!Undoing
    <3> QED
      BY <1>2, <1>3, <1>6, <2>1, <2>3, <3>1, <3>2, UndoesOn
  <2>4. CASE "saved" \notin h.marks /\ Pkg!NextUndo(u, x)
    <3>1. s4' = [s4 EXCEPT ![u] = UndoneTo(k, x)]
      <4>1. Becomes(u, UndoneTo(k, x))
        BY <1>0, <1>2, <2>4, UndoneIs
      <4> QED
        BY <4>1 DEF Becomes
    <3> QED
      BY <1>2, <1>3, <1>5, <1>6, <2>1, <2>4, <3>1, UndoesNext
  <2> QED
    BY <1>6, <2>2, <2>3, <2>4
<1>7. ASSUME NEW a \in h.assets,
             (Pkg!Fine /\ s1' = s1 \ {a}) \/ (Pkg!Fault /\ s1' = s1),
             Pkg!Wrote(u),
             s4' = [s4 EXCEPT ![u].kept = <<[h EXCEPT !.assets = @ \ {a}]>> \o Tail(@)]
      PROVE  Pkg!PkgIInv'
  <2> DEFINE c == h.assets \ {a}
             p == [h EXCEPT !.assets = c]
  <2>1. /\ p \in Pkg!PackageShape /\ p.id = h.id /\ p.build = h.build /\ p.marks = h.marks
        /\ p.assets = c /\ p.previous = h.previous
    <3>1. c \in SUBSET Assets
      BY <1>5
    <3> HIDE DEF c
    <3> QED
      BY <1>5, <3>1, Pictured
  <2>2. s4' = [s4 EXCEPT ![u].kept = <<p>> \o Tail(@)]
    BY <1>7
  <2>3. Calls(u) /\ s1' \subseteq Assets
    BY <1>0, <1>3, <1>7, CallsWrite
  <2> HIDE DEF p
  <2>4. s4' = [s4 EXCEPT ![u] = Undoes("undo_assets", p, k, x)]
    <3>1. Becomes(u, Undoes("undo_assets", p, k, x))
      BY <1>0, <1>2, <2>2, UndoesGoes
    <3> QED
      BY <3>1 DEF Becomes
  <2>5. UndoesWell("undo_assets", p, k, x)
    BY <1>2, <2>1 DEF UndoesWell, Pkg!Undoing
  <2> QED
    BY <1>2, <1>3, <2>1, <2>3, <2>4, <2>5, UndoesOn
<1> QED
  BY <1>4, <1>6, <1>7

\* The rollback deletes the request's own declaration.
LEMMA UndoRowKeeps ==
  ASSUME Pkg!PkgIInv, NEW u \in Uploaders, Pkg!UndoRow(u)
  PROVE  Pkg!PkgIInv'
<1> DEFINE h == Head(s4[u].kept)
           k == Tail(s4[u].kept)
           x == s4[u].undo
<1>0. Pkg!PkgShape
  BY DEF Pkg!PkgIInv
<1>1. s4[u].pc = "undo_row"
  BY DEF Pkg!UndoRow, Pkg!AtPkg
<1>2. s4[u] = Undoes("undo_row", h, k, x) /\ UndoesWell("undo_row", h, k, x)
  BY <1>1, UndoingIs DEF Pkg!Undoing
<1>3. s1' = s1 /\ s2' = s2 /\ s7' = s7 /\ s1' \subseteq Assets
  BY <1>0 DEF Pkg!UndoRow, Pkg!PkgShape
<1>4. \/ Pkg!Fine /\ Pkg!Wrote(u) /\ s3' = s3 \ {h.id} /\ Pkg!ToPkg(u, "undo_get")
      \/ /\ Pkg!Fault /\ s4' = [s4 EXCEPT ![u].pc = "undo_get", ![u].undo = "partial"]
         /\ s3' = s3 /\ s6' = s6
  BY DEF Pkg!UndoRow, Pkg!Undone, Pkg!UndoLost
<1> HIDE DEF h, k, x
<1>5. CASE Pkg!Fine /\ Pkg!Wrote(u) /\ s3' = s3 \ {h.id} /\ Pkg!ToPkg(u, "undo_get")
  <2>1. s4' = [s4 EXCEPT ![u] = Undoes("undo_get", h, k, x)]
    <3>1. Becomes(u, Undoes("undo_get", h, k, x))
      BY <1>0, <1>2, <1>5, UndoesGoes
    <3> QED
      BY <3>1 DEF Becomes
  <2>2. Calls(u) /\ Noted(u)
    BY <1>0, <1>3, <1>5, CallsWrite
  <2> QED
    BY <1>2, <1>3, <1>5, <2>1, <2>2, UndoesRow
<1>6. CASE /\ Pkg!Fault /\ s4' = [s4 EXCEPT ![u].pc = "undo_get", ![u].undo = "partial"]
           /\ s3' = s3 /\ s6' = s6
  <2>1. s4' = [s4 EXCEPT ![u] = Undoes("undo_get", h, k, "partial")]
    <3>1. Becomes(u, Undoes("undo_get", h, k, "partial"))
      BY <1>0, <1>2, <1>6, UndoesGoes
    <3> QED
      BY <3>1 DEF Becomes
  <2>2. Calls(u)
    BY <1>0, <1>3, <1>6, CallsQuiet
  <2>3. UndoesWell("undo_get", h, k, "partial")
    BY <1>2 DEF UndoesWell, Pkg!Undoing
  <2> QED
    BY <1>2, <1>3, <1>6, <2>1, <2>2, <2>3, UndoesOn
<1> QED
  BY <1>4, <1>5, <1>6

\* The rollback reads what the bucket holds.
LEMMA UndoGetKeeps ==
  ASSUME Pkg!PkgIInv, NEW u \in Uploaders, Pkg!UndoGet(u)
  PROVE  Pkg!PkgIInv'
<1> DEFINE h == Head(s4[u].kept)
           k == Tail(s4[u].kept)
           x == s4[u].undo
<1>0. Pkg!PkgShape
  BY DEF Pkg!PkgIInv
<1>1. s4[u].pc = "undo_get"
  BY DEF Pkg!UndoGet, Pkg!AtPkg
<1>2. s4[u] = Undoes("undo_get", h, k, x) /\ UndoesWell("undo_get", h, k, x)
  BY <1>1, UndoingIs DEF Pkg!Undoing
<1>3. s1' = s1 /\ s2' = s2 /\ s3' = s3 /\ s6' = s6 /\ s7' = s7 /\ (Pkg!Fault \/ Pkg!Fine)
  BY DEF Pkg!UndoGet, Pkg!StoresKept
<1>4. Calls(u) /\ s1' \subseteq Assets
  BY <1>0, <1>3, CallsQuiet DEF Pkg!PkgShape
<1>5. \/ Pkg!ToPkg(u, "undo_look")
      \/ s2[h.id] # h.build /\ Pkg!NextUndo(u, x)
      \/ Pkg!NextUndo(u, "partial")
  BY DEF Pkg!UndoGet, Pkg!Undone
<1>6. x \in {"whole", "partial"} /\ "saved" \in h.marks
  BY <1>2 DEF UndoesWell
<1> HIDE DEF h, k, x
<1>7. CASE Pkg!ToPkg(u, "undo_look")
  <2>1. s4' = [s4 EXCEPT ![u] = Undoes("undo_look", h, k, x)]
    <3>1. Becomes(u, Undoes("undo_look", h, k, x))
      BY <1>0, <1>2, <1>7, UndoesGoes
    <3> QED
      BY <3>1 DEF Becomes
  <2>2. UndoesWell("undo_look", h, k, x)
    BY <1>2 DEF UndoesWell, Pkg!Undoing
  <2> QED
    BY <1>2, <1>3, <1>4, <2>1, <2>2, UndoesOn
<1>8. CASE s2[h.id] # h.build /\ Pkg!NextUndo(u, x)
  <2>1. s4' = [s4 EXCEPT ![u] = UndoneTo(k, x)]
    <3>1. Becomes(u, UndoneTo(k, x))
      BY <1>0, <1>2, <1>8, UndoneIs
    <3> QED
      BY <3>1 DEF Becomes
  <2>2. Pkg!Differ(s4[u], s7[u], s3, s2) => h.id \in Pkg!Exempt(s7[u])
    <3>1. UndoesAs(s4[u], "undo_get", h, k, x)
      BY <1>2, UndoesHas
    <3>2. h \in Pkg!SavedOf(s4[u])
      BY <1>6, <3>1 DEF UndoesAs, SavedAmong
    <3> QED
      BY <1>8, <3>2 DEF Pkg!Differ
  <2> QED
    BY <1>2, <1>3, <1>4, <1>6, <2>1, <2>2, UndoesNext
<1>9. CASE Pkg!NextUndo(u, "partial")
  <2>1. s4' = [s4 EXCEPT ![u] = UndoneTo(k, "partial")]
    <3>1. Becomes(u, UndoneTo(k, "partial"))
      BY <1>0, <1>2, <1>9, UndoneIs
    <3> QED
      BY <3>1 DEF Becomes
  <2> QED
    BY <1>2, <1>3, <1>4, <2>1, UndoesNext
<1> QED
  BY <1>5, <1>7, <1>8, <1>9

\* The rollback looks whether the plugin is still declared.
LEMMA UndoLookKeeps ==
  ASSUME Pkg!PkgIInv, NEW u \in Uploaders, Pkg!UndoLook(u)
  PROVE  Pkg!PkgIInv'
<1> DEFINE h == Head(s4[u].kept)
           k == Tail(s4[u].kept)
           x == s4[u].undo
<1>0. Pkg!PkgShape
  BY DEF Pkg!PkgIInv
<1>1. s4[u].pc = "undo_look"
  BY DEF Pkg!UndoLook, Pkg!AtPkg
<1>2. s4[u] = Undoes("undo_look", h, k, x) /\ UndoesWell("undo_look", h, k, x)
  BY <1>1, UndoingIs DEF Pkg!Undoing
<1>3. s1' = s1 /\ s2' = s2 /\ s3' = s3 /\ s6' = s6 /\ s7' = s7 /\ (Pkg!Fault \/ Pkg!Fine)
  BY DEF Pkg!UndoLook, Pkg!StoresKept
<1>4. Calls(u) /\ s1' \subseteq Assets
  BY <1>0, <1>3, CallsQuiet DEF Pkg!PkgShape
<1>5. \/ h.id \notin s3 /\ Pkg!ToPkg(u, "undo_package")
      \/ h.id \in s3 /\ Pkg!NextUndo(u, x)
      \/ Pkg!NextUndo(u, "partial")
  BY DEF Pkg!UndoLook, Pkg!Undone
<1>6. x \in {"whole", "partial"} /\ "saved" \in h.marks
  BY <1>2 DEF UndoesWell
<1> HIDE DEF h, k, x
<1>7. CASE h.id \notin s3 /\ Pkg!ToPkg(u, "undo_package")
  <2>1. s4' = [s4 EXCEPT ![u] = Undoes("undo_package", h, k, x)]
    <3>1. Becomes(u, Undoes("undo_package", h, k, x))
      BY <1>0, <1>2, <1>7, UndoesGoes
    <3> QED
      BY <3>1 DEF Becomes
  <2>2. UndoesWell("undo_package", h, k, x)
    BY <1>2 DEF UndoesWell, Pkg!Undoing
  <2> QED
    BY <1>2, <1>3, <1>4, <1>7, <2>1, <2>2, UndoesOn
<1>8. CASE h.id \in s3 /\ Pkg!NextUndo(u, x)
  <2>1. s4' = [s4 EXCEPT ![u] = UndoneTo(k, x)]
    <3>1. Becomes(u, UndoneTo(k, x))
      BY <1>0, <1>2, <1>8, UndoneIs
    <3> QED
      BY <3>1 DEF Becomes
  <2>2. Pkg!Differ(s4[u], s7[u], s3, s2) => h.id \in Pkg!Exempt(s7[u])
    <3>1. UndoesAs(s4[u], "undo_look", h, k, x)
      BY <1>2, UndoesHas
    <3>2. {} \cup Pkg!Members(k) = Pkg!Members(k)
      OBVIOUS
    <3>3. /\ Pkg!RowsOf(s4[u]) = CreatedIds(Pkg!Members(k))
          /\ Pkg!Current(s4[u]) = h /\ Pkg!Others(s4[u]) = Pkg!Members(k)
      BY <3>1, <3>2 DEF UndoesAs
    <3> SUFFICES ASSUME Pkg!Differ(s4[u], s7[u], s3, s2) PROVE h.id \in Pkg!Exempt(s7[u])
      OBVIOUS
    <3>4. \A o \in Pkg!Members(k) : o.id = h.id => o.id \in s7[u].twice
      BY <3>3 DEF Pkg!Differ
    <3>5. h.id \in s7[u].declared \cup CreatedIds(Pkg!Members(k))
      BY <1>8, <3>3 DEF Pkg!Differ
    <3> QED
      BY <3>4, <3>5 DEF CreatedIds, Pkg!Exempt
  <2> QED
    BY <1>2, <1>3, <1>4, <1>6, <2>1, <2>2, UndoesNext
<1>9. CASE Pkg!NextUndo(u, "partial")
  <2>1. s4' = [s4 EXCEPT ![u] = UndoneTo(k, "partial")]
    <3>1. Becomes(u, UndoneTo(k, "partial"))
      BY <1>0, <1>2, <1>9, UndoneIs
    <3> QED
      BY <3>1 DEF Becomes
  <2> QED
    BY <1>2, <1>3, <1>4, <2>1, UndoesNext
<1> QED
  BY <1>5, <1>7, <1>8, <1>9

\* The rollback restores or deletes the package.
LEMMA UndoPackageKeeps ==
  ASSUME Pkg!PkgIInv, NEW u \in Uploaders, Pkg!UndoPackage(u)
  PROVE  Pkg!PkgIInv'
<1> DEFINE h == Head(s4[u].kept)
           k == Tail(s4[u].kept)
           x == s4[u].undo
<1>0. Pkg!PkgShape
  BY DEF Pkg!PkgIInv
<1>1. s4[u].pc = "undo_package"
  BY DEF Pkg!UndoPackage, Pkg!AtPkg
<1>2. s4[u] = Undoes("undo_package", h, k, x) /\ UndoesWell("undo_package", h, k, x)
  BY <1>1, UndoingIs DEF Pkg!Undoing
<1>3. s1' = s1 /\ s3' = s3 /\ s7' = s7
  BY DEF Pkg!UndoPackage
<1>4. \/ /\ Pkg!Fine /\ Pkg!Wrote(u) /\ s2' = [s2 EXCEPT ![h.id] = Pkg!Restored(h)]
         /\ Pkg!NextUndo(u, x)
      \/ Pkg!Fault /\ Pkg!NextUndo(u, "partial") /\ s2' = s2 /\ s6' = s6
  BY DEF Pkg!UndoPackage, Pkg!Undone, Pkg!Restored
<1> HIDE DEF h, k, x
<1>5. CASE /\ Pkg!Fine /\ Pkg!Wrote(u) /\ s2' = [s2 EXCEPT ![h.id] = Pkg!Restored(h)]
           /\ Pkg!NextUndo(u, x)
  <2>1. s4' = [s4 EXCEPT ![u] = UndoneTo(k, x)]
    <3>1. Becomes(u, UndoneTo(k, x))
      BY <1>0, <1>2, <1>5, UndoneIs
    <3> QED
      BY <3>1 DEF Becomes
  <2>2. Calls(u) /\ Noted(u)
    BY <1>0, <1>3, <1>5, CallsWrite
  <2> QED
    BY <1>2, <1>3, <1>5, <2>1, <2>2, UndoesStored
<1>6. CASE Pkg!Fault /\ Pkg!NextUndo(u, "partial") /\ s2' = s2 /\ s6' = s6
  <2>1. s4' = [s4 EXCEPT ![u] = UndoneTo(k, "partial")]
    <3>1. Becomes(u, UndoneTo(k, "partial"))
      BY <1>0, <1>2, <1>6, UndoneIs
    <3> QED
      BY <3>1 DEF Becomes
  <2>2. Calls(u)
    BY <1>0, <1>3, <1>6, CallsQuiet
  <2> QED
    BY <1>2, <1>3, <1>6, <2>1, <2>2, UndoesNext
<1> QED
  BY <1>4, <1>5, <1>6

\* A bundle has one package or two, as PreparePackage left them, perhaps of one identifier.
LEMMA BundleStarts ==
  ASSUME NEW s \in Pkg!Bundles
  PROVE  /\ s = <<Head(s)>> \o Tail(s) /\ PersistsWell("exists", Head(s), Tail(s), <<>>)
         /\ \A o \in Pkg!Members(Tail(s)) : o.id = Head(s).id => o.id \in Pkg!Twice(s)
<1> DEFINE one == {Pkg!Prepared(i, b) : i \in PackageIds, b \in Builds}
<1>1. one \subseteq Pkg!PackageShape /\ \A x \in one : x.marks = {} /\ x.assets = {} /\ x.id \in PackageIds
  BY DEF Pkg!Prepared, Pkg!PackageShape
<1>2. (\E x \in one : s = <<x>>) \/ (\E x \in one, y \in one : s = <<x, y>>)
  BY DEF Pkg!Bundles
<1> HIDE DEF one
<1>3. /\ Pkg!Members(<<>>) = {} /\ Len(<<>>) = 0
      /\ <<>> \in Seq(Pkg!PackageShape)
  BY Empties
<1>4. CASE \E x \in one : s = <<x>>
  <2>1. PICK x \in one : s = <<x>>
    BY <1>4
  <2>2. Head(s) = x /\ Tail(s) = <<>> /\ s = <<x>> \o <<>>
    BY <2>1
  <2>3. Pkg!HeadKnows("exists", x) /\ x \in Pkg!PackageShape
    BY <1>1, <2>1 DEF Pkg!HeadKnows
  <2>4. PersistsWell("exists", x, <<>>, <<>>)
    BY <1>3, <2>3 DEF PersistsWell, Pkg!Persisting
  <2> QED
    BY <1>3, <2>2, <2>4
<1>5. CASE \E x \in one, y \in one : s = <<x, y>>
  <2>1. PICK x \in one, y \in one : s = <<x, y>>
    BY <1>5
  <2> DEFINE l == Tail(s)
  <2>2. s \in Seq(Pkg!PackageShape) /\ s # <<>> /\ Len(s) = 2 /\ Head(s) = x /\ l[1] = y
    BY <1>1, <2>1
  <2>3. Pkg!HeadKnows("exists", x) /\ x \in Pkg!PackageShape
    BY <1>1, <2>1 DEF Pkg!HeadKnows
  <2>4. l \in Seq(Pkg!PackageShape) /\ s = <<Head(s)>> \o l /\ Len(s) = Len(l) + 1
    BY <2>2, Splits
  <2> HIDE DEF l
  <2>5. Len(l) = 1
    <3>1. Len(l) \in Nat
      BY <2>4
    <3> QED
      BY <2>2, <2>4, <3>1
  <2>6. Pkg!Members(l) = {y}
    <3>1. DOMAIN l = {1}
      BY <2>4, <2>5
    <3> QED
      BY <2>2, <3>1 DEF Pkg!Members
  <2>7. \A o \in Pkg!Members(l) : o.marks = {} /\ o.assets = {}
    BY <1>1, <2>1, <2>6
  <2>8. Len(l) + Len(<<>>) <= 1
    BY <1>3, <2>5
  <2>9. PersistsWell("exists", x, l, <<>>)
    BY <1>3, <2>3, <2>4, <2>7, <2>8 DEF PersistsWell, Pkg!Persisting
  <2>10. y.id = x.id => y.id \in Pkg!Twice(s)
    <3>1. 1 \in DOMAIN s /\ 2 \in DOMAIN s /\ s[1] = x /\ s[2] = y /\ y.id \in PackageIds
      BY <1>1, <2>1
    <3> QED
      BY <3>1 DEF Pkg!Twice
  <2>11. \A o \in Pkg!Members(l) : o.id = x.id => o.id \in Pkg!Twice(s)
    BY <2>6, <2>10
  <2> QED
    BY <2>2, <2>4, <2>9, <2>11 DEF l
<1> QED
  BY <1>2, <1>4, <1>5

\* A request that has just started has nothing to show.
StartsAs(q, doubled) ==
  /\ q \in Pkg!UploadShape /\ Pkg!RequestKnows(q)
  /\ q.pc \in {"exists", "ended"} /\ q.undo = "whole"
  /\ q.pc = "exists" => Head(q.todo).assets = {}
  /\ Pkg!Members(q.kept) = {} /\ Pkg!Stands(q) = {} /\ Pkg!SavedOf(q) = {} /\ Pkg!RowsOf(q) = {}
  /\ \A o \in Pkg!Others(q) : o.id = Pkg!Current(q).id => o.id \in doubled

\* A request starts with one package or two, none of them persisted.
LEMMA UploadStarts ==
  ASSUME Pkg!PkgIInv, NEW u \in Uploaders, NEW s \in Pkg!Bundles, Pkg!Upload(u, s)
  PROVE  \E q : s4' = [s4 EXCEPT ![u] = q] /\ StartsAs(q, Pkg!Twice(s))
<1>0. Pkg!PkgShape /\ Pkg!RequestKnows(s4[u])
  BY DEF Pkg!PkgIInv
<1>1. s4[u].pc = "idle" /\ DOMAIN s4 = Uploaders
  BY <1>0 DEF Pkg!Upload, Pkg!AtPkg, Pkg!PkgShape
<1>2. s4[u] = Request("idle", <<>>, <<>>, "none", "whole")
  BY <1>0, <1>1 DEF Pkg!RequestKnows, Pkg!Resting_, Request
<1>3. /\ Pkg!Members(<<>>) = {} /\ Len(<<>>) = 0
      /\ <<>> \in Seq(Pkg!PackageShape)
  BY Empties
<1>4. CASE s4' = [s4 EXCEPT ![u].pc = "exists", ![u].todo = s]
  <2> DEFINE q == Persists("exists", Head(s), Tail(s), <<>>)
  <2>1. /\ s = <<Head(s)>> \o Tail(s) /\ PersistsWell("exists", Head(s), Tail(s), <<>>)
        /\ \A o \in Pkg!Members(Tail(s)) : o.id = Head(s).id => o.id \in Pkg!Twice(s)
    BY BundleStarts
  <2>2. s4' = [s4 EXCEPT ![u] = [Request("idle", <<>>, <<>>, "none", "whole") EXCEPT !.pc = "exists", !.todo = s]]
    BY <1>1, <1>2, <1>4
  <2>3. [Request("idle", <<>>, <<>>, "none", "whole") EXCEPT !.pc = "exists"]
          = Request("exists", <<>>, <<>>, "none", "whole")
    BY DEF Request
  <2>4. [Request("exists", <<>>, <<>>, "none", "whole") EXCEPT !.todo = s]
          = Request("exists", s, <<>>, "none", "whole")
    BY DEF Request
  <2>5. s4' = [s4 EXCEPT ![u] = Request("exists", s, <<>>, "none", "whole")]
    BY <2>2, <2>3, <2>4
  <2>6. q = Request("exists", s, <<>>, "none", "whole")
    BY <2>1 DEF Persists
  <2>7. Head(s).marks = {} /\ Head(s).assets = {}
    BY <2>1 DEF PersistsWell, Pkg!HeadKnows
  <2>8. PersistsAs(q, "exists", Head(s), Tail(s), <<>>)
    BY <2>1, PersistsHas
  <2> HIDE DEF q
  <2>9. SavedAmong({Head(s)} \cup {}) = {} /\ CreatedIds({}) = {}
    BY <2>7 DEF SavedAmong, CreatedIds
  <2>10. StartsAs(q, Pkg!Twice(s))
    BY <1>3, <2>1, <2>7, <2>8, <2>9 DEF StartsAs, PersistsAs
  <2> QED
    BY <2>5, <2>6, <2>10
<1>5. CASE s4' = [s4 EXCEPT ![u].pc = "ended", ![u].answer = "failure"]
  <2> DEFINE q == Over(<<>>, "failure", "whole")
  <2>1. s4' = [s4 EXCEPT ![u] =
                 [Request("idle", <<>>, <<>>, "none", "whole") EXCEPT !.pc = "ended", !.answer = "failure"]]
    BY <1>1, <1>2, <1>5
  <2>2. [Request("idle", <<>>, <<>>, "none", "whole") EXCEPT !.pc = "ended"]
          = Request("ended", <<>>, <<>>, "none", "whole")
    BY DEF Request
  <2>3. [Request("ended", <<>>, <<>>, "none", "whole") EXCEPT !.answer = "failure"]
          = Request("ended", <<>>, <<>>, "failure", "whole")
    BY DEF Request
  <2>4. s4' = [s4 EXCEPT ![u] = q]
    BY <2>1, <2>2, <2>3 DEF Over
  <2>5. OverAs(q, <<>>, "failure", "whole")
    <3>1. Len(<<>>) <= 2
      BY <1>3
    <3> QED
      BY <1>3, <3>1, OverHas
  <2> HIDE DEF q
  <2>6. SavedAmong({}) = {} /\ CreatedIds({}) = {}
    BY DEF SavedAmong, CreatedIds
  <2>7. StartsAs(q, Pkg!Twice(s))
    BY <1>3, <2>5, <2>6 DEF StartsAs, OverAs
  <2> QED
    BY <2>4, <2>7
<1> QED
  BY <1>4, <1>5 DEF Pkg!Upload

\* A request starts.
LEMMA UploadKeeps ==
  ASSUME Pkg!PkgIInv, NEW u \in Uploaders, NEW s \in Pkg!Bundles, Pkg!Upload(u, s)
  PROVE  Pkg!PkgIInv'
<1> DEFINE b == [bucket |-> s2, declared |-> s3, twice |-> Pkg!Twice(s),
                over |-> {v \in Uploaders : Pkg!AtPkg(v, "ended")}]
<1>0. /\ Pkg!PkgShape /\ (\A w \in Uploaders : Pkg!RequestKnows(s4[w]))
      /\ Pkg!IconsKnown /\ Pkg!IconsServed /\ Pkg!StoredKnown /\ Pkg!DeclaredIsStored
      /\ Pkg!RowsKnown /\ Pkg!OverlapKnown /\ Pkg!OverKnown /\ Pkg!LoneKnows
  BY DEF Pkg!PkgIInv
<1>1. PICK q : s4' = [s4 EXCEPT ![u] = q] /\ StartsAs(q, Pkg!Twice(s))
  BY UploadStarts
<1>2. /\ s1' = s1 /\ s2' = s2 /\ s3' = s3 /\ s5' = s5 /\ s6' = s6
      /\ s7' = [s7 EXCEPT ![u] = b] /\ s4[u].pc = "idle"
  BY DEF Pkg!Upload, Pkg!AtPkg
<1>3. s4[u].answer = "none"
  <2>1. s4[u] = Pkg!Resting_
    BY <1>0, <1>2 DEF Pkg!RequestKnows
  <2> QED
    BY <2>1 DEF Pkg!Resting_
<1>4. /\ b \in Pkg!BeforeShape /\ b.bucket = s2 /\ b.declared = s3 /\ b.twice = Pkg!Twice(s)
      /\ b.over = {v \in Uploaders : s4[v].pc = "ended"}
  <2>1. Pkg!Twice(s) \in SUBSET PackageIds
    BY DEF Pkg!Twice
  <2> QED
    BY <1>0, <2>1 DEF Pkg!PkgShape, Pkg!BeforeShape, Pkg!AtPkg
<1> HIDE DEF b
<1>5. /\ s4'[u] = q /\ (\A w \in Uploaders \ {u} : s4'[w] = s4[w])
      /\ s7'[u] = b /\ (\A w \in Uploaders \ {u} : s7'[w] = s7[w])
  BY <1>0, <1>1, <1>2 DEF Pkg!PkgShape
<1>6. /\ q \in Pkg!UploadShape /\ Pkg!RequestKnows(q)
      /\ q.pc \in {"exists", "ended"} /\ q.undo = "whole"
      /\ q.pc = "exists" => Head(q.todo).assets = {}
      /\ Pkg!Members(q.kept) = {} /\ Pkg!Stands(q) = {} /\ Pkg!SavedOf(q) = {} /\ Pkg!RowsOf(q) = {}
      /\ \A o \in Pkg!Others(q) : o.id = Pkg!Current(q).id => o.id \in Pkg!Twice(s)
  BY <1>1 DEF StartsAs
<1>7. (Failed => Failed') /\ (Pkg!Raced => Pkg!Raced')
  <2>1. \A w \in Uploaders : s4[w].answer = "failure" => s4'[w].answer = "failure"
    BY <1>3, <1>5
  <2> QED
    BY <1>2, <2>1 DEF Failed, Pkg!Raced
<1>8. Pkg!PkgShape'
  <2>1. s4' \in [Uploaders -> Pkg!UploadShape] /\ s7' \in [Uploaders -> Pkg!BeforeShape]
    BY <1>0, <1>1, <1>2, <1>4, <1>6 DEF Pkg!PkgShape
  <2>2. s6' \in BOOLEAN
    BY <1>0, <1>2, Zenon DEF Pkg!PkgShape
  <2>3. s1' \subseteq Assets /\ s2' \in [PackageIds -> Builds \cup {"none"}] /\ s3' \subseteq PackageIds
        /\ s5' \in 0..MaxFaults
    BY <1>0, <1>2 DEF Pkg!PkgShape
  <2> QED
    BY <2>1, <2>2, <2>3, Zenon DEF Pkg!PkgShape
<1>9. \A w \in Uploaders : Pkg!RequestKnows(s4'[w])
  BY <1>0, <1>5, <1>6
<1>10. Pkg!IconsKnown' /\ Pkg!IconsServed'
  <2>1. \A w \in Uploaders : s4[w].pc \in Pkg!Persisting => Head(s4[w].todo).assets \subseteq s1 \/ Failed
    BY <1>0 DEF Pkg!IconsKnown, Pkg!Head_, Failed
  <2>2. \A i \in s3 : AssetsOf[i] \subseteq s1 \/ Failed
    BY <1>0 DEF Pkg!IconsServed, Failed
  <2>3. q.pc \in Pkg!Persisting => Head(q.todo).assets = {}
    BY <1>6 DEF Pkg!Persisting
  <2>4. \A w \in Uploaders : s4'[w].pc \in Pkg!Persisting => Head(s4'[w].todo).assets \subseteq s1' \/ Failed'
    BY <1>2, <1>5, <1>7, <2>1, <2>3
  <2>5. \A i \in s3' : AssetsOf[i] \subseteq s1' \/ Failed'
    BY <1>2, <1>7, <2>2
  <2>6. Failed' <=> \E v \in Uploaders : s4'[v].answer = "failure"
    BY DEF Failed
  <2> QED
    BY <2>4, <2>5, <2>6 DEF Pkg!IconsKnown, Pkg!IconsServed, Pkg!Head_
<1>11. Pkg!StoredKnown' /\ Pkg!DeclaredIsStored'
  <2>1. \A w \in Uploaders :
          /\ s4[w].pc \in {"look", "create", "again"} => s2[Head(s4[w].todo).id] # "none" \/ Pkg!Raced
          /\ s4[w].pc = "undo_package" => Head(s4[w].kept).id \notin s3 \/ s6
    BY <1>0 DEF Pkg!StoredKnown, Pkg!Head_, Pkg!Undone
  <2>2. \A w \in Uploaders :
          /\ s4'[w].pc \in {"look", "create", "again"} => s2'[Head(s4'[w].todo).id] # "none" \/ Pkg!Raced'
          /\ s4'[w].pc = "undo_package" => Head(s4'[w].kept).id \notin s3' \/ s6'
    BY <1>2, <1>5, <1>6, <1>7, <2>1
  <2> QED
    BY <1>0, <1>2, <1>7, <2>2 DEF Pkg!StoredKnown, Pkg!DeclaredIsStored, Pkg!Head_, Pkg!Undone
<1>12. Pkg!RowsKnown'
  BY <1>0, <1>2, <1>5, <1>6, <1>7 DEF Pkg!RowsKnown
<1>13. Pkg!OverlapKnown'
  <2> SUFFICES ASSUME ~s6' PROVE Pkg!OverlapKnown'
    BY Zenon DEF Pkg!OverlapKnown
  <2>1. ~s6 /\ ~Pkg!HasSaved(q)
    BY <1>2, <1>6 DEF Pkg!HasSaved
  <2>2. ASSUME NEW v \in Uploaders, NEW w \in Uploaders, v # w
        PROVE  /\ ~(Pkg!HasSaved(s4'[v]) /\ Pkg!HasSaved(s4'[w]))
               /\ s4'[w].pc \notin {"idle", "ended"} =>
                    \A p \in Pkg!Stands(s4'[v]), o \in Pkg!Members(s4'[w].kept) :
                       "created" \in o.marks => p.id # o.id
    <3>1. CASE v = u
      BY <1>5, <1>6, <2>1, <2>2, <3>1
    <3>2. CASE w = u
      BY <1>5, <1>6, <2>1, <2>2, <3>2
    <3>3. CASE v # u /\ w # u
      BY <1>0, <1>5, <2>1, <2>2, <3>3 DEF Pkg!OverlapKnown, Pkg!Serving
    <3> QED
      BY <3>1, <3>2, <3>3
  <2> QED
    BY <2>2 DEF Pkg!OverlapKnown, Pkg!Serving
<1>14. \A w \in Uploaders : s7[w].over \subseteq Uploaders /\ \A x \in s7[w].over : x # u /\ s4[x].pc = "ended"
  <2>1. \A w \in Uploaders : s7[w].over \subseteq Uploaders
    BY <1>0 DEF Pkg!PkgShape, Pkg!BeforeShape
  <2> QED
    BY <1>0, <1>2, <2>1 DEF Pkg!OverKnown, Pkg!AtPkg
<1>15. Pkg!OverKnown'
  <2>1. \A w \in Uploaders : \A x \in s7'[w].over : s4'[x].pc = "ended"
    BY <1>2, <1>4, <1>5, <1>14
  <2> QED
    BY <2>1 DEF Pkg!OverKnown, Pkg!AtPkg
<1>16. Pkg!LoneKnows'
  <2> SUFFICES ASSUME NEW w \in Uploaders, s4'[w].pc # "idle", s4'[w].undo = "whole", Pkg!Lone(w)'
               PROVE  Pkg!Differ(s4'[w], s7'[w], s3', s2')
    BY DEF Pkg!LoneKnows, Pkg!AtPkg
  <2>1. \A x \in Uploaders \ {w} : s4'[x].pc = "idle" \/ x \in s7'[w].over
    BY DEF Pkg!Lone, Pkg!AtPkg
  <2>2. w = u
    <3>1. w # u => q.pc = "idle" \/ u \in s7[w].over
      BY <1>5, <2>1
    <3> QED
      BY <1>6, <1>14, <3>1
  <2>3. Pkg!Differ(q, b, s3, s2)
    BY <1>4, <1>6 DEF Pkg!Differ
  <2> QED
    BY <1>2, <1>5, <2>2, <2>3
<1> QED
  BY <1>8, <1>9, <1>10, <1>11, <1>12, <1>13, <1>15, <1>16 DEF Pkg!PkgIInv

\* Every step of the requests.
LEMMA UploadsStep ==
  ASSUME Pkg!PkgIInv, Pkg!PkgNext
  PROVE  Pkg!PkgIInv'
BY UploadKeeps, PersistExistsKeeps, PersistGetKeeps, RemapAssetsKeeps, PersistSaveKeeps, PersistLookKeeps,
   PersistCreateKeeps, PersistAgainKeeps, UndoAssetsKeeps, UndoRowKeeps, UndoGetKeeps, UndoLookKeeps,
   UndoPackageKeeps DEF Pkg!PkgNext

\* The initial state.
LEMMA UploadsStart ==
  ASSUME Pkg!PkgInit
  PROVE  Pkg!PkgIInv
<1>1. /\ s1 = {} /\ s2 = [i \in PackageIds |-> "none"] /\ s3 = {} /\ s5 = 0 /\ s6 = FALSE
      /\ s4 = [u \in Uploaders |-> Pkg!Resting_]
      /\ s7 = [u \in Uploaders |-> [bucket |-> s2, declared |-> s3, twice |-> {}, over |-> {}]]
  BY DEF Pkg!PkgInit
<1> DEFINE r == Pkg!Resting_
<1>2. r = Request("idle", <<>>, <<>>, "none", "whole")
  BY DEF Pkg!Resting_, Request
<1>3. r.pc = "idle" /\ r.todo = <<>> /\ r.kept = <<>> /\ r.answer = "none" /\ r.undo = "whole"
  BY DEF Pkg!Resting_
<1>4. /\ Pkg!Members(<<>>) = {} /\ Len(<<>>) = 0
      /\ <<>> \in Seq(Pkg!PackageShape)
  BY Empties
<1>5. r \in Pkg!UploadShape
  BY <1>2, <1>4, RequestShaped
<1>6. Pkg!RequestKnows(r)
  <2>1. Len(r.todo) + Len(r.kept) <= 2
    BY <1>3, <1>4
  <2> HIDE DEF r
  <2>2. r = Pkg!Resting_
    BY DEF r
  <2> QED
    BY <1>3, <1>4, <2>1, <2>2 DEF Pkg!RequestKnows, Pkg!Persisting, Pkg!Undoing
<1> HIDE DEF r
<1>7. \A u \in Uploaders : s4[u] = r
  BY <1>1 DEF r
<1>8. Pkg!PkgShape
  <2>1. s4 \in [Uploaders -> Pkg!UploadShape]
    BY <1>1, <1>5 DEF r
  <2>2. s7 \in [Uploaders -> Pkg!BeforeShape]
    <3>1. [bucket |-> s2, declared |-> s3, twice |-> {}, over |-> {}] \in Pkg!BeforeShape
      BY <1>1 DEF Pkg!BeforeShape
    <3> QED
      BY <1>1, <3>1
  <2>3. s6 \in BOOLEAN
    BY <1>1, Zenon
  <2>4. s1 \subseteq Assets /\ s2 \in [PackageIds -> Builds \cup {"none"}] /\ s3 \subseteq PackageIds
        /\ s5 \in 0..MaxFaults
    BY <1>1, ServicesAssumption DEF Pkg!PackagesAssumption
  <2> QED
    BY <2>1, <2>2, <2>3, <2>4, Zenon DEF Pkg!PkgShape
<1>9. Pkg!Stands(r) = {} /\ ~Pkg!HasSaved(r)
  BY <1>3 DEF Pkg!Stands, Pkg!Persisting, Pkg!HasSaved
<1>10. Pkg!IconsKnown /\ Pkg!IconsServed
  BY <1>1, <1>3, <1>7 DEF Pkg!IconsKnown, Pkg!IconsServed, Pkg!Persisting
<1>11. Pkg!StoredKnown /\ Pkg!DeclaredIsStored
  BY <1>1, <1>3, <1>7 DEF Pkg!StoredKnown, Pkg!DeclaredIsStored
<1>12. Pkg!RowsKnown
  BY <1>7, <1>9 DEF Pkg!RowsKnown
<1>13. Pkg!OverlapKnown
  BY <1>7, <1>9 DEF Pkg!OverlapKnown
<1>14. Pkg!OverKnown
  BY <1>1 DEF Pkg!OverKnown
<1>15. Pkg!LoneKnows
  BY <1>3, <1>7 DEF Pkg!LoneKnows, Pkg!AtPkg
<1> QED
  BY <1>6, <1>7, <1>8, <1>10, <1>11, <1>12, <1>13, <1>14, <1>15 DEF Pkg!PkgIInv

\* What the invariant says of a request that is over.
LEMMA UploadsKept ==
  ASSUME Pkg!PkgIInv
  PROVE  /\ Pkg!PkgTypeOK /\ Pkg!FailedUploadLeavesNothing /\ Pkg!DeclaredIsStored
         /\ Pkg!SuccessIsDeclared /\ Pkg!IconsServed
<1>0. /\ Pkg!PkgShape /\ (\A w \in Uploaders : Pkg!RequestKnows(s4[w]))
      /\ Pkg!IconsServed /\ Pkg!DeclaredIsStored /\ Pkg!RowsKnown /\ Pkg!LoneKnows
  BY DEF Pkg!PkgIInv
<1>1. Pkg!PkgTypeOK
  <2>1. ASSUME NEW u \in Uploaders
        PROVE  /\ s4[u].pc \in {"idle", "exists", "get", "remap", "save", "look", "create", "again",
                                "undo_assets", "undo_row", "undo_get", "undo_look", "undo_package", "ended"}
               /\ s4[u].answer \in {"none", "success", "failure"}
               /\ Len(s4[u].todo) + Len(s4[u].kept) \in 0..2
    <3> DEFINE r == s4[u]
    <3>1. /\ r.pc \in {"idle", "ended"} \cup Pkg!Persisting \cup Pkg!Undoing
          /\ r.todo \in Seq(Pkg!PackageShape) /\ r.kept \in Seq(Pkg!PackageShape)
          /\ r.answer \in {"none", "success", "failure"}
      BY <1>0, RequestFields
    <3>2. Pkg!RequestKnows(r)
      BY <1>0
    <3> HIDE DEF r
    <3>3. Len(r.todo) + Len(r.kept) <= 2
      BY <3>2 DEF Pkg!RequestKnows
    <3>4. Len(r.todo) \in Nat /\ Len(r.kept) \in Nat
      <4>1. \A t \in Seq(Pkg!PackageShape) : Len(t) \in Nat
        BY MembersIn
      <4> QED
        BY <3>1, <4>1
    <3>5. Len(r.todo) + Len(r.kept) \in 0..2
      <4> DEFINE a == Len(r.todo)
                 b == Len(r.kept)
      <4>1. a \in Nat /\ b \in Nat /\ a + b <= 2
        BY <3>3, <3>4
      <4> HIDE DEF a, b
      <4>2. a + b \in 0..2
        BY <4>1
      <4> QED
        BY <4>2 DEF a, b
    <3> QED
      BY <3>1, <3>5 DEF r, Pkg!Persisting, Pkg!Undoing
  <2> QED
    BY <1>0, <2>1 DEF Pkg!PkgTypeOK, Pkg!PkgShape
<1>2. Pkg!SuccessIsDeclared
  <2> SUFFICES ASSUME NEW u \in Uploaders, s4[u].answer = "success", NEW k \in DOMAIN s4[u].kept
               PROVE  s4[u].kept[k].id \in s3 \/ Pkg!Raced
    BY DEF Pkg!SuccessIsDeclared
  <2>1. s4[u].kept[k] \in Pkg!Stands(s4[u])
    BY DEF Pkg!Stands, Pkg!Members
  <2> QED
    BY <1>0, <2>1 DEF Pkg!RowsKnown
<1>3. Pkg!FailedUploadLeavesNothing
  <2> SUFFICES ASSUME NEW u \in Uploaders, s4[u].pc = "ended", s4[u].answer = "failure",
                      s4[u].undo = "whole", Pkg!Lone(u)
               PROVE  /\ s3 = s7[u].declared
                      /\ \A i \in PackageIds \ Pkg!Exempt(s7[u]) : s2[i] = s7[u].bucket[i]
    BY DEF Pkg!FailedUploadLeavesNothing, Pkg!AtPkg
  <2> DEFINE r == s4[u]
  <2>1. Pkg!Differ(r, s7[u], s3, s2)
    BY <1>0 DEF Pkg!LoneKnows, Pkg!AtPkg
  <2>2. Pkg!RequestKnows(r) /\ r.pc = "ended" /\ r.answer = "failure"
    BY <1>0
  <2> HIDE DEF r
  <2>3. r.todo = <<>> /\ r.kept = <<>> /\ r.pc = "ended"
    BY <2>2 DEF Pkg!RequestKnows
  <2>4. Pkg!Members(r.todo) = {} /\ Pkg!Members(r.kept) = {}
    BY <2>3, Empties
  <2>5. Pkg!SavedOf(r) = {} /\ Pkg!RowsOf(r) = {}
    BY <2>3, <2>4 DEF Pkg!SavedOf, Pkg!RowsOf
  <2> QED
    BY <2>1, <2>5 DEF Pkg!Differ
<1> QED
  BY <1>0, <1>1, <1>2, <1>3

\* A stuttering step.
LEMMA UploadsStutter ==
  ASSUME Pkg!PkgIInv, UNCHANGED <<s1, s2, s3, s4, s5, s6, s7>>
  PROVE  Pkg!PkgIInv'
<1>0. /\ s1' = s1 /\ s2' = s2 /\ s3' = s3 /\ s4' = s4 /\ s5' = s5 /\ s6' = s6 /\ s7' = s7
      /\ Pkg!PkgShape /\ (\A w \in Uploaders : Pkg!RequestKnows(s4[w]))
      /\ Pkg!IconsKnown /\ Pkg!IconsServed /\ Pkg!StoredKnown /\ Pkg!DeclaredIsStored
      /\ Pkg!RowsKnown /\ Pkg!OverlapKnown /\ Pkg!OverKnown /\ Pkg!LoneKnows
  BY DEF Pkg!PkgIInv
<1>1. Pkg!PkgShape'
  BY <1>0, Zenon DEF Pkg!PkgShape
<1>2. Pkg!IconsKnown' /\ Pkg!IconsServed'
  BY <1>0 DEF Pkg!IconsKnown, Pkg!IconsServed, Pkg!Head_
<1>3. Pkg!StoredKnown' /\ Pkg!DeclaredIsStored' /\ Pkg!RowsKnown'
  BY <1>0 DEF Pkg!StoredKnown, Pkg!DeclaredIsStored, Pkg!RowsKnown, Pkg!Raced, Pkg!Head_, Pkg!Undone
<1>4. Pkg!OverlapKnown'
  <2> SUFFICES ASSUME NEW u \in Uploaders, NEW v \in Uploaders, u # v, ~s6
               PROVE  /\ ~(Pkg!HasSaved(s4[u]) /\ Pkg!HasSaved(s4[v]))
                      /\ s4[v].pc \notin {"idle", "ended"} =>
                           \A p \in Pkg!Stands(s4[u]), q \in Pkg!Members(s4[v].kept) :
                              "created" \in q.marks => p.id # q.id
    BY <1>0 DEF Pkg!OverlapKnown, Pkg!Serving
  <2> QED
    BY <1>0 DEF Pkg!OverlapKnown, Pkg!Serving
<1>5. Pkg!OverKnown' /\ Pkg!LoneKnows'
  BY <1>0 DEF Pkg!OverKnown, Pkg!LoneKnows, Pkg!Lone, Pkg!AtPkg
<1>6. \A w \in Uploaders : Pkg!RequestKnows(s4'[w])
  BY <1>0
<1> QED
  BY <1>1, <1>2, <1>3, <1>4, <1>5, <1>6 DEF Pkg!PkgIInv

\* A stuttering step of the package tools.
LEMMA PackageStutter ==
  ASSUME Dp!DpIInv, UNCHANGED <<s1, s2, s3, s4, s5>>
  PROVE  Dp!DpIInv'
<1>0. /\ s1' = s1 /\ s2' = s2 /\ s3' = s3 /\ s4' = s4 /\ s5' = s5
      /\ Dp!SourceKnows /\ Dp!ArchiveKnows /\ Dp!PackedKnows /\ Dp!SignatureKnows /\ Dp!OpenedKnows
  BY DEF Dp!DpIInv
<1>1. Dp!SourceKnows'
  BY <1>0, Zenon DEF Dp!SourceKnows
<1>2. Dp!ArchiveKnows'
  BY <1>0 DEF Dp!ArchiveKnows
<1>3. Dp!PackedKnows'
  BY <1>0 DEF Dp!PackedKnows, Dp!Pristine
<1>4. Dp!SignatureKnows'
  BY <1>0 DEF Dp!SignatureKnows, Dp!LastSign
<1>5. Dp!OpenedKnows'
  BY <1>0, Zenon DEF Dp!OpenedKnows
<1> QED
  BY <1>1, <1>2, <1>3, <1>4, <1>5 DEF Dp!DpIInv

------------------------------------------------------------------------------
(* The theorem *)

\* Uploads and packages (PackagesAreKept), for every number of requests, every set of
\* identifiers, builds and icons and any number of failing calls, and for every kind of
\* plugin, set of files, names an entry may be given, keys and signatures: a failed upload
\* that ran alone leaves the declarations as they were, and the bucket but for the plugins
\* declared before and those its bundle had twice; what is declared is stored, what was
\* answered with success is declared and its icons are there, the races of a rollback
\* apart; what Pack produced opens and says what the directory says, unless the manifest
\* names a file by a path that is not clean; what was signed with a trusted key is
\* verified; and the contents of what is verified were signed, in their order, and, as
\* long as no entry was renamed, under their names.
THEOREM PackagesStayKept == ServicesSpec => []PackagesAreKept
<1> DEFINE Inv == (unit = "upload" => Pkg!PkgIInv) /\ (unit = "package" => Dp!DpIInv)
<1>1. ServicesInit => Inv
  BY UploadsStart, PackageStarts DEF ServicesInit
<1>2. Inv /\ [ServicesNext]_servicesVars => Inv'
  <2> SUFFICES ASSUME Inv, [ServicesNext]_servicesVars
               PROVE  Inv'
    OBVIOUS
  <2>1. unit' = unit
    BY DEF ServicesNext, servicesVars
  <2>2. CASE unit = "upload"
    <3>1. Pkg!PkgNext \/ UNCHANGED <<s1, s2, s3, s4, s5, s6, s7>>
      BY <2>2 DEF ServicesNext, servicesVars, unitVars
    <3>2. Pkg!PkgIInv
      BY <2>2
    <3> QED
      BY <2>1, <2>2, <3>1, <3>2, UploadsStep, UploadsStutter
  <2>3. CASE unit = "package"
    <3>1. Dp!DpNext \/ UNCHANGED <<s1, s2, s3, s4, s5>>
      BY <2>3 DEF ServicesNext, servicesVars, unitVars
    <3>2. Dp!DpIInv
      BY <2>3
    <3> QED
      BY <2>1, <2>3, <3>1, <3>2, PackageStep, PackageStutter
  <2>4. CASE unit \notin {"upload", "package"}
    BY <2>1, <2>4
  <2> QED
    BY <2>2, <2>3, <2>4
<1>3. Inv => PackagesAreKept
  BY UploadsKept, PackageTyped, PackedOpensHolds, PackageAgreesHolds, SignedIsVerifiedHolds,
     VerifiedIsSignedHolds DEF PackagesAreKept
<1> QED
  BY <1>1, <1>2, <1>3, PTL DEF ServicesSpec

=============================================================================
