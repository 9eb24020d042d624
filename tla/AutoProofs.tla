----------------------------- MODULE AutoProofs -----------------------------
(* Proofs about AutoRun, for any number of postings, any caps and any        *)
(* crashes: a run that dies leaves what it had to handle pending, a search   *)
(* marks only what it hands on, a resumed run drops only what has a record.  *)
EXTENDS AutoRun, SequenceTheorems, FiniteSetTheorems, WellFoundedInduction, TLAPS

-----------------------------------------------------------------------------
(* Lists of postings.                                                       *)

NoneTwice(urls) == \A i, j \in 1..Len(urls) : urls[i] = urls[j] => i = j
IsList(urls) == urls \in Seq(Posting) /\ NoneTwice(urls)

(* A set of numbers up to n that is not empty has a least one: what is      *)
(* behind each induction below.                                             *)
LEMMA LeastNumber ==
    ASSUME NEW n \in Nat, NEW S, S \subseteq 0..n, S # {}
    PROVE  \E x \in S : \A y \in S : x <= y
<1> DEFINE R == StrictSubsetOrdering(0..n)
           T == {0..x : x \in S}
<1>1. IsFiniteSet(0..n)
  BY FS_Interval
<1>2. T \subseteq FiniteSubsetsOf(0..n) /\ T # {}
  <2>1. \A x \in S : 0..x \subseteq 0..n
    OBVIOUS
  <2>2. \A x \in S : IsFiniteSet(0..x)
    BY <1>1, <2>1, FS_Subset
  <2> QED  BY <2>1, <2>2 DEF FiniteSubsetsOf
<1>3. \E t \in T : \A u \in T : <<u, t>> \notin R
  <2>1. IsWellFoundedOn(R, FiniteSubsetsOf(0..n))
    BY FS_StrictSubsetOrderingWellFounded
  <2> QED  BY <1>2, <2>1, WFMin
<1>4. PICK x \in S : \A y \in S : <<0..y, 0..x>> \notin R
  BY <1>3
<1>5. ASSUME NEW y \in S, y < x PROVE FALSE
  <2>1. 0..y \subseteq 0..x /\ x \in 0..x /\ x \notin 0..y
    BY <1>5
  <2>2. 0..x \subseteq 0..n /\ 0..y \subseteq 0..n
    OBVIOUS
  <2> QED  BY <1>4, <1>5, <2>1, <2>2 DEF StrictSubsetOrdering
<1>6. \A y \in S : x <= y
  BY <1>5
<1> QED  BY <1>6

(* A fact about 0 that goes from each number to the next one holds up to n. *)
LEMMA UpTo ==
    ASSUME NEW n \in Nat, NEW S, S \subseteq 0..n, 0 \in S,
           \A i \in 1..n : i - 1 \in S => i \in S
    PROVE  S = 0..n
<1>1. SUFFICES ASSUME (0..n) \ S # {} PROVE FALSE
  OBVIOUS
<1>2. PICK x \in (0..n) \ S : \A y \in (0..n) \ S : x <= y
  BY <1>1, LeastNumber
<1>3. x \in 1..n /\ x - 1 \in 0..n /\ ~(x <= x - 1)
  BY <1>2
<1>4. x - 1 \in S
  BY <1>2, <1>3
<1> QED  BY <1>2, <1>3, <1>4

(* The function that Among is defined by exists.                            *)
AmongUpTo(g, n, urls, S) ==
    g = [i \in 0..n |->
           IF i = 0 THEN <<>>
           ELSE IF urls[i] \in S THEN Append(g[i - 1], urls[i])
           ELSE g[i - 1]]

LEMMA AmongExists ==
    ASSUME NEW urls, NEW S, NEW n \in Nat
    PROVE  \E g : AmongUpTo(g, n, urls, S)
<1> DEFINE T == {i \in 0..n : \E g : AmongUpTo(g, i, urls, S)}
<1>1. 0 \in T
  <2> DEFINE g == [i \in 0..0 |-> <<>>]
  <2>1. \A i \in 0..0 : i = 0
    OBVIOUS
  <2>2. AmongUpTo(g, 0, urls, S)
    BY <2>1 DEF AmongUpTo
  <2> QED  BY <2>2
<1>2. ASSUME NEW i \in 1..n, i - 1 \in T PROVE i \in T
  <2>1. PICK g : AmongUpTo(g, i - 1, urls, S)
    BY <1>2
  <2> DEFINE next == IF urls[i] \in S THEN Append(g[i - 1], urls[i]) ELSE g[i - 1]
             h == [j \in 0..i |-> IF j = i THEN next ELSE g[j]]
  <2>2. ASSUME NEW j \in 0..i
        PROVE  h[j] = IF j = 0 THEN <<>>
                      ELSE IF urls[j] \in S THEN Append(h[j - 1], urls[j])
                      ELSE h[j - 1]
    <3>1. CASE j = i
      <4>1. i - 1 \in 0..i /\ i - 1 # i /\ i # 0
        OBVIOUS
      <4>2. h[i - 1] = g[i - 1] /\ h[i] = next
        BY <4>1
      <4> QED  BY <3>1, <4>1, <4>2
    <3>2. CASE j # i
      <4>1. j \in 0..i - 1 /\ h[j] = g[j]
        BY <3>2
      <4>2. j # 0 => j - 1 \in 0..i /\ j - 1 # i
        BY <4>1
      <4>3. j # 0 => h[j - 1] = g[j - 1]
        BY <4>2
      <4> HIDE DEF h
      <4>4. g[j] = IF j = 0 THEN <<>>
                   ELSE IF urls[j] \in S THEN Append(g[j - 1], urls[j])
                   ELSE g[j - 1]
        BY <2>1, <4>1 DEF AmongUpTo
      <4> QED  BY <4>1, <4>3, <4>4
    <3> QED  BY <3>1, <3>2
  <2>3. h = [j \in 0..i |-> h[j]]
    OBVIOUS
  <2> HIDE DEF h
  <2>4. AmongUpTo(h, i, urls, S)
    BY <2>2, <2>3 DEF AmongUpTo
  <2> QED  BY <2>4
<1>3. T = 0..n
  <2> HIDE DEF T
  <2>1. T \subseteq 0..n
    BY DEF T
  <2> QED  BY <1>1, <1>2, <2>1, UpTo
<1> QED  BY <1>3

(* What Among returns: a list, of the URLs that are in S.                   *)
LEMMA AmongIsSelection ==
    ASSUME NEW urls, IsList(urls), NEW S
    PROVE  IsList(Among(urls, S)) /\ Listed(Among(urls, S)) = Listed(urls) \cap S
<1> DEFINE n == Len(urls)
           f == CHOOSE g : AmongUpTo(g, n, urls, S)
           Before(i) == {urls[j] : j \in 1..i} \cap S
           T == {i \in 0..n : IsList(f[i]) /\ Listed(f[i]) = Before(i)}
<1>1. urls \in Seq(Posting) /\ n \in Nat /\ \A i \in 1..n : urls[i] \in Posting
  BY DEF IsList
<1>2. AmongUpTo(f, n, urls, S)
  BY <1>1, AmongExists
<1>3. Among(urls, S) = f[n]
  BY DEF Among, AmongUpTo
<1> HIDE DEF f
<1>4. /\ f[0] = <<>>
      /\ \A i \in 1..n : f[i] = IF urls[i] \in S THEN Append(f[i - 1], urls[i]) ELSE f[i - 1]
  <2>1. \A i \in 0..n : f[i] = IF i = 0 THEN <<>>
                               ELSE IF urls[i] \in S THEN Append(f[i - 1], urls[i])
                               ELSE f[i - 1]
    BY <1>2 DEF AmongUpTo
  <2> QED  BY <1>1, <2>1
<1>5. 0 \in T
  <2>1. <<>> \in Seq(Posting) /\ Len(<<>>) = 0
    OBVIOUS
  <2>2. IsList(<<>>) /\ Listed(<<>>) = {}
    BY <2>1 DEF IsList, NoneTwice, Listed
  <2>3. Before(0) = {}
    OBVIOUS
  <2> QED  BY <1>1, <1>4, <2>2, <2>3
<1>6. ASSUME NEW i \in 1..n, i - 1 \in T PROVE i \in T
  <2> DEFINE g == f[i - 1]
  <2>1. IsList(g) /\ Listed(g) = Before(i - 1)
    BY <1>6
  <2>2. urls[i] \in Posting /\ 1..i = (1..i - 1) \cup {i} /\ i \notin 1..i - 1
        /\ \A j \in 1..i - 1 : j \in 1..n
    BY <1>1
  <2>3. {urls[j] : j \in 1..i} = {urls[j] : j \in 1..i - 1} \cup {urls[i]}
    BY <2>2
  <2> HIDE DEF g
  <2>4. CASE urls[i] \in S
    <3> DEFINE h == Append(g, urls[i])
    <3>1. /\ h \in Seq(Posting) /\ Len(g) \in Nat /\ Len(h) = Len(g) + 1
          /\ \A k \in 1..Len(g) : h[k] = g[k]
          /\ h[Len(g) + 1] = urls[i]
      BY <2>1, <2>2, AppendProperties DEF IsList
    <3> HIDE DEF h
    <3>2. \A k \in 1..Len(g) : h[k] \in Listed(g)
      BY <3>1 DEF Listed
    <3>3. urls[i] \notin Listed(g)
      BY <2>1, <2>2 DEF IsList, NoneTwice
    <3>4. 1..Len(h) = (1..Len(g)) \cup {Len(g) + 1}
      BY <3>1
    <3>5. NoneTwice(h)
      <4> SUFFICES ASSUME NEW k \in 1..Len(h), NEW l \in 1..Len(h), h[k] = h[l]
                   PROVE  k = l
        BY DEF NoneTwice
      <4>1. CASE k \in 1..Len(g) /\ l \in 1..Len(g)
        BY <2>1, <3>1, <4>1 DEF IsList, NoneTwice
      <4>2. CASE k = Len(g) + 1 \/ l = Len(g) + 1
        BY <3>1, <3>2, <3>3, <3>4, <4>2
      <4> QED  BY <3>4, <4>1, <4>2
    <3>6. Listed(h) = Listed(g) \cup {urls[i]}
      <4>1. Listed(h) = {h[k] : k \in (1..Len(g)) \cup {Len(g) + 1}}
        BY <3>4 DEF Listed
      <4> QED  BY <3>1, <4>1 DEF Listed
    <3>7. Before(i) = Before(i - 1) \cup {urls[i]}
      BY <2>3, <2>4
    <3>8. f[i] = h
      BY <1>4, <2>4 DEF h, g
    <3> QED  BY <1>6, <2>1, <3>1, <3>5, <3>6, <3>7, <3>8 DEF IsList
  <2>5. CASE urls[i] \notin S
    <3>1. f[i] = g
      BY <1>4, <2>5 DEF g
    <3>2. Before(i) = Before(i - 1)
      BY <2>3, <2>5
    <3> QED  BY <1>6, <2>1, <3>1, <3>2
  <2> QED  BY <2>4, <2>5
<1>7. n \in T
  <2> HIDE DEF T
  <2>1. T \subseteq 0..n
    BY DEF T
  <2>2. T = 0..n
    BY <1>1, <1>5, <1>6, <2>1, UpTo
  <2> QED  BY <1>1, <2>2
<1>8. Listed(urls) = {urls[j] : j \in 1..n}
  BY DEF Listed
<1> QED  BY <1>3, <1>7, <1>8

LEMMA EmptyList == IsList(<<>>) /\ Listed(<<>>) = {} /\ Len(<<>>) = 0
<1>1. <<>> \in Seq(Posting) /\ Len(<<>>) = 0
  OBVIOUS
<1> QED  BY <1>1 DEF IsList, NoneTwice, Listed

(* One list after another.                                                  *)
LEMMA Joined ==
    ASSUME NEW a \in Seq(Posting), NEW b \in Seq(Posting)
    PROVE  /\ a \o b \in Seq(Posting)
           /\ Listed(a \o b) = Listed(a) \cup Listed(b)
           /\ IsList(a) /\ IsList(b) /\ Listed(a) \cap Listed(b) = {} => IsList(a \o b)
           /\ IsList(a \o b) => IsList(a) /\ IsList(b) /\ Listed(a) \cap Listed(b) = {}
<1> DEFINE c == a \o b
           n == Len(a)
           m == Len(b)
<1>1. /\ n \in Nat /\ m \in Nat /\ c \in Seq(Posting) /\ Len(c) = n + m
      /\ \A i \in 1..n + m : c[i] = IF i <= n THEN a[i] ELSE b[i - n]
  BY ConcatProperties
<1> HIDE DEF c, n, m
<1>2. \A i \in 1..n : i \in 1..n + m /\ c[i] = a[i]
  BY <1>1
<1>3. ASSUME NEW i \in 1..m PROVE i + n \in 1..n + m /\ c[i + n] = b[i]
  <2>1. i + n \in 1..n + m /\ ~(i + n <= n) /\ (i + n) - n = i
    BY <1>1
  <2> QED  BY <1>1, <2>1
<1>4. ASSUME NEW i \in 1..n + m
      PROVE  \/ i \in 1..n /\ c[i] = a[i]
             \/ i - n \in 1..m /\ c[i] = b[i - n]
  <2>1. i <= n => i \in 1..n
    BY <1>1
  <2>2. ~(i <= n) => i - n \in 1..m
    BY <1>1
  <2> QED  BY <1>1, <2>1, <2>2
<1>5. Listed(c) = Listed(a) \cup Listed(b)
  <2>1. \A x \in Listed(c) : x \in Listed(a) \cup Listed(b)
    BY <1>1, <1>4 DEF Listed, n, m
  <2>2. \A x \in Listed(a) : x \in Listed(c)
    BY <1>1, <1>2 DEF Listed, n
  <2>3. \A x \in Listed(b) : x \in Listed(c)
    BY <1>1, <1>3 DEF Listed, m
  <2> QED  BY <2>1, <2>2, <2>3
<1>6. ASSUME NoneTwice(a), NoneTwice(b), Listed(a) \cap Listed(b) = {} PROVE NoneTwice(c)
  <2> SUFFICES ASSUME NEW i \in 1..n + m, NEW j \in 1..n + m, c[i] = c[j] PROVE i = j
    BY <1>1 DEF NoneTwice
  <2>1. CASE i \in 1..n /\ j \in 1..n
    BY <1>2, <1>6, <2>1 DEF NoneTwice, n
  <2>2. CASE i \notin 1..n /\ j \notin 1..n
    <3>1. i - n \in 1..m /\ j - n \in 1..m /\ b[i - n] = b[j - n]
      BY <1>4, <2>2
    <3>2. i - n = j - n
      BY <1>6, <3>1 DEF NoneTwice, m
    <3> QED  BY <1>1, <3>2
  <2>3. CASE i \in 1..n /\ j \notin 1..n
    <3>1. j - n \in 1..m /\ a[i] = b[j - n]
      BY <1>2, <1>4, <2>3
    <3>2. a[i] \in Listed(a) /\ a[i] \in Listed(b)
      BY <2>3, <3>1 DEF Listed, n, m
    <3> QED  BY <1>6, <3>2
  <2>4. CASE i \notin 1..n /\ j \in 1..n
    <3>1. i - n \in 1..m /\ a[j] = b[i - n]
      BY <1>2, <1>4, <2>4
    <3>2. a[j] \in Listed(a) /\ a[j] \in Listed(b)
      BY <2>4, <3>1 DEF Listed, n, m
    <3> QED  BY <1>6, <3>2
  <2> QED  BY <2>1, <2>2, <2>3, <2>4
<1>7. ASSUME NoneTwice(c) PROVE NoneTwice(a) /\ NoneTwice(b) /\ Listed(a) \cap Listed(b) = {}
  <2>1. NoneTwice(a)
    BY <1>1, <1>2, <1>7 DEF NoneTwice, n
  <2>2. NoneTwice(b)
    <3> SUFFICES ASSUME NEW i \in 1..m, NEW j \in 1..m, b[i] = b[j] PROVE i = j
      BY DEF NoneTwice, m
    <3>1. i + n = j + n
      BY <1>1, <1>3, <1>7 DEF NoneTwice
    <3> QED  BY <1>1, <3>1
  <2>3. ASSUME NEW x \in Listed(a) \cap Listed(b) PROVE FALSE
    <3>1. PICK i \in 1..n : x = a[i]
      BY <2>3 DEF Listed, n
    <3>2. PICK j \in 1..m : x = b[j]
      BY <2>3 DEF Listed, m
    <3>3. i \in 1..n + m /\ j + n \in 1..n + m /\ c[i] = c[j + n]
      BY <1>2, <1>3, <3>1, <3>2
    <3>4. i = j + n
      BY <1>1, <1>7, <3>3 DEF NoneTwice
    <3> QED  BY <1>1, <3>4
  <2> QED  BY <2>1, <2>2, <2>3
<1> QED  BY <1>1, <1>5, <1>6, <1>7 DEF IsList, c

(* A capped list and what the cap cuts off.                                 *)
LEMMA Capped ==
    ASSUME NEW n \in Nat, NEW urls, IsList(urls)
    PROVE  /\ First(n, urls) \in Seq(Posting) /\ Rest(n, urls) \in Seq(Posting)
           /\ First(n, urls) \o Rest(n, urls) = urls
           /\ IsList(First(n, urls)) /\ Listed(First(n, urls)) \subseteq Listed(urls)
<1>1. urls \in Seq(Posting) /\ Len(urls) \in Nat /\ \A i \in 1..Len(urls) : urls[i] \in Posting
  BY DEF IsList
<1> DEFINE k == IF n < Len(urls) THEN n ELSE Len(urls)
           first == SubSeq(urls, 1, k)
           rest == SubSeq(urls, k + 1, Len(urls))
<1>2. k \in 0..Len(urls)
  BY <1>1
<1>3. first \in Seq(Posting) /\ rest \in Seq(Posting)
  <2>1. \A i \in 1..k : urls[i] \in Posting
    BY <1>1, <1>2
  <2>2. \A i \in k + 1..Len(urls) : urls[i] \in Posting
    BY <1>1, <1>2
  <2> HIDE DEF k
  <2>3. k \in Int /\ k + 1 \in Int /\ 1 \in Int /\ Len(urls) \in Int
    BY <1>1, <1>2
  <2> QED  BY <2>1, <2>2, <2>3, SubSeqProperties
<1>4. first \o rest = urls
  <2> HIDE DEF k
  <2>1. /\ 1 \in 1..Len(urls) + 1 /\ k \in 1 - 1..Len(urls) /\ Len(urls) \in k..Len(urls)
    BY <1>1, <1>2
  <2>2. first \o rest = SubSeq(urls, 1, Len(urls))
    BY <1>1, <2>1, ConcatAdjacentSubSeq
  <2> QED  BY <1>1, <2>2, SubSeqFull
<1>5. First(n, urls) = first
  BY DEF First
<1>6. Rest(n, urls) = rest
  <2>1. CASE n < Len(urls)
    BY <2>1 DEF Rest
  <2>2. CASE ~(n < Len(urls))
    <3>1. Len(urls) < n + 1 /\ Len(urls) < k + 1 /\ n + 1 \in Int /\ k + 1 \in Int
          /\ Len(urls) \in Int
      BY <1>1, <2>2
    <3> QED  BY <3>1, SubSeqEmpty DEF Rest
  <2> QED  BY <2>1, <2>2
<1> HIDE DEF first, rest
<1>7. IsList(first \o rest)
  BY <1>4
<1>8. IsList(first) /\ Listed(first) \subseteq Listed(first \o rest)
  BY <1>3, <1>7, Joined
<1> QED  BY <1>3, <1>4, <1>5, <1>6, <1>8

(* The lists the runs are started with.                                     *)
LEMMA UrlListsAreLists == \A urls \in UrlList(Posting) : IsList(urls) /\ Len(urls) \in Nat
<1> SUFFICES ASSUME NEW urls \in UrlList(Posting) PROVE IsList(urls) /\ Len(urls) \in Nat
  OBVIOUS
<1>1. PICK n \in 0..Cardinality(Posting) :
         urls \in [1..n -> Posting] /\ \A i, j \in 1..n : urls[i] = urls[j] => i = j
  BY DEF UrlList
<1>2. n \in Nat
  BY <1>1
<1>3. urls \in Seq(Posting) /\ Len(urls) = n
  BY <1>1, <1>2, IsASeq, LenProperties
<1> QED  BY <1>1, <1>2, <1>3 DEF IsList, NoneTwice

LEMMA ListsAreUrlLists == \A urls : IsList(urls) => urls \in UrlList(Posting)
<1> SUFFICES ASSUME NEW urls, IsList(urls) PROVE urls \in UrlList(Posting)
  OBVIOUS
<1> DEFINE n == Len(urls)
<1>1. n \in Nat /\ urls \in [1..n -> Posting]
      /\ \A i, j \in 1..n : urls[i] = urls[j] => i = j
  BY DEF IsList, NoneTwice
<1>2. urls \in Injection(1..n, Posting)
  BY <1>1 DEF Injection, IsInjective
<1>3. Cardinality(1..n) <= Cardinality(Posting) /\ Cardinality(1..n) = n
  <2> HIDE DEF n
  <2>1. IsFiniteSet(Posting) /\ 1 \in Int /\ n \in Int
    BY <1>1, AutoAssumption
  <2>2. Cardinality(1..n) <= Cardinality(Posting)
    BY <1>2, <2>1, FS_Injection
  <2>3. Cardinality(1..n) = n
    BY <1>1, <2>1, FS_Interval
  <2> QED  BY <2>2, <2>3
<1>4. Cardinality(Posting) \in Nat
  BY AutoAssumption, FS_CardinalityType
<1>5. n \in 0..Cardinality(Posting)
  BY <1>1, <1>3, <1>4
<1> QED  BY <1>1, <1>5 DEF UrlList

-----------------------------------------------------------------------------
(* The invariant.                                                           *)

RunState ==
    [at : {"idle", "persist", "save", "extract", "screen", "complete"},
     mode : {"none", "search", "urls", "resume"}, only : BOOLEAN,
     urls : Seq(Posting), tail : Seq(Posting), marks : SUBSET Posting, k : Nat,
     failed : SUBSET Posting, got : SUBSET Posting, retry : SUBSET Posting]
Behind(r) == {r.urls[i] : i \in 1..r.k - 1}
RunTypeOK(r) ==
    /\ r \in RunState
    /\ IsList(r.urls \o r.tail)
    /\ r.k \in 1..Len(r.urls) + 1
    /\ r.failed \cup r.got \subseteq Listed(r.urls)
    /\ r.failed \cap r.got = {}
    /\ r.retry \subseteq r.got
    /\ r.at \in {"persist", "save"} => r.k = 1 /\ r.failed = {} /\ r.got = {}
    /\ r.at = "extract" => r.failed \cup r.got \subseteq Behind(r)

(* What is pending at each stage of a run.                                  *)
PendingOK(r, urls) ==
    /\ r.at \in {"extract", "screen", "complete"} => urls = r.urls \o r.tail
    /\ r.at = "save" /\ r.mode = "resume" => urls = r.urls \o r.tail
    /\ r.at = "persist" => r.mode = "search"
    /\ r.at = "idle" => r.mode = "none"

(* What a run did about the postings it has behind it.                      *)
Tried(r, rec, u) == u \in r.failed \/ rec[u] # "none"
Assessed(r, rec, u) == u \in r.got \ r.retry => rec[u] \in {"setaside", "screened"}
ProgressOK(r, rec) ==
    /\ r.at = "persist" => \A u \in r.marks : u \in Listed(r.urls) \/ rec[u] # "none"
    /\ r.at = "extract" => \A u \in Behind(r) : Tried(r, rec, u)
    /\ r.at \in {"screen", "complete"} => \A u \in Listed(r.urls) : Tried(r, rec, u)
    /\ r.at = "screen" => \A u \in Behind(r) : Assessed(r, rec, u)
    /\ r.at = "complete" => \A u \in Listed(r.urls) : Assessed(r, rec, u)

AutoInv ==
    /\ seen \subseteq Posting
    /\ IsList(pending)
    /\ record \in [Posting -> RecordState]
    /\ left \in [crashes : 0..MaxCrashes]
    /\ RunTypeOK(run)
    /\ PendingOK(run, pending)
    /\ ProgressOK(run, record)

(* A record never gets worse.                                               *)
GoesOn(rec, new) ==
    /\ new \in [Posting -> RecordState]
    /\ \A u \in Posting : /\ rec[u] # "none" => new[u] # "none"
                          /\ rec[u] \in {"setaside", "screened"} =>
                                new[u] \in {"setaside", "screened"}
LEMMA ProgressStays ==
    ASSUME NEW r, NEW rec, NEW new, RunTypeOK(r), ProgressOK(r, rec), GoesOn(rec, new)
    PROVE  ProgressOK(r, new)
<1>1. Listed(r.urls) \subseteq Posting /\ Behind(r) \subseteq Listed(r.urls)
      /\ r.marks \subseteq Posting
  BY DEF RunTypeOK, RunState, Listed, Behind
<1>2. \A u \in Posting : (Tried(r, rec, u) => Tried(r, new, u))
                         /\ (Assessed(r, rec, u) => Assessed(r, new, u))
  BY DEF Tried, Assessed, GoesOn
<1>3. \A u \in Posting : rec[u] # "none" => new[u] # "none"
  BY DEF GoesOn
<1> QED  BY <1>1, <1>2, <1>3 DEF ProgressOK

LEMMA IdleIsOK ==
    RunTypeOK(Idle) /\ (\A urls : PendingOK(Idle, urls)) /\ \A rec : ProgressOK(Idle, rec)
<1>1. /\ Idle \in RunState /\ Idle.urls = <<>> /\ Idle.tail = <<>> /\ Idle.k = 1
      /\ Idle.at = "idle" /\ Idle.mode = "none" /\ Idle.failed = {} /\ Idle.got = {}
      /\ Idle.retry = {}
  <2>1. <<>> \in Seq(Posting)
    OBVIOUS
  <2> QED  BY <2>1 DEF Idle, RunState
<1>2. <<>> \o <<>> = <<>>
  BY ConcatEmptySeq, EmptyList DEF IsList
<1>3. RunTypeOK(Idle)
  BY <1>1, <1>2, EmptyList DEF RunTypeOK
<1>4. \A urls : PendingOK(Idle, urls)
  BY <1>1 DEF PendingOK
<1>5. \A rec : ProgressOK(Idle, rec)
  BY <1>1 DEF ProgressOK
<1> QED  BY <1>3, <1>4, <1>5

(* A run begins with a list, or a list in two parts.                        *)
LEMMA Begins ==
    ASSUME NEW r, NEW at \in {"persist", "save"}, NEW mode \in {"search", "urls", "resume"},
           NEW only \in BOOLEAN, NEW first \in Seq(Posting), NEW rest \in Seq(Posting),
           IsList(first \o rest), NEW marks \in SUBSET Posting,
           r = [at |-> at, mode |-> mode, only |-> only, urls |-> first, tail |-> rest,
                marks |-> marks, k |-> 1, failed |-> {}, got |-> {}, retry |-> {}]
    PROVE  RunTypeOK(r)
<1>1. Len(first) \in Nat
  OBVIOUS
<1>2. r \in RunState
  BY DEF RunState
<1>3. r.k \in 1..Len(r.urls) + 1
  BY <1>1
<1> QED  BY <1>2, <1>3 DEF RunTypeOK

LEMMA Started ==
    ASSUME AutoInv, Search \/ FromUrls \/ Resume
    PROVE  RunTypeOK(run') /\ PendingOK(run', pending) /\ ProgressOK(run', record)
<1>1. \A c \in Cap : c \in Nat
  BY AutoAssumption
<1>2. <<>> \in Seq(Posting) /\ \A urls \in Seq(Posting) : urls \o <<>> = urls
  BY ConcatEmptySeq, EmptyList DEF IsList
<1>3. ASSUME NEW CONSTANT listing \in UrlList(Posting), NEW CONSTANT cap \in Cap \cup {MaxRun},
             StartSearch(listing, cap)
      PROVE  RunTypeOK(run') /\ PendingOK(run', pending) /\ ProgressOK(run', record)
  <2> DEFINE urls == First(cap, Found(listing))
             marks == Marks(listing, cap)
  <2>1. cap \in Nat /\ IsList(listing)
    BY <1>1, AutoAssumption, UrlListsAreLists
  <2>2. IsList(Found(listing)) /\ Listed(Found(listing)) \subseteq Posting
    BY <2>1, AmongIsSelection DEF Found
  <2>3. IsList(urls) /\ Listed(urls) \subseteq Posting /\ urls \in Seq(Posting)
    BY <2>1, <2>2, Capped DEF IsList
  <2>4. Listed(listing) \subseteq Posting
    BY <2>1 DEF IsList, Listed
  <2>5. marks \in SUBSET Posting /\ \A u \in marks : u \in Listed(urls) \/ record[u] # "none"
    BY <2>3, <2>4 DEF Marks
  <2> HIDE DEF urls, marks
  <2>6. run' = [at |-> "persist", mode |-> "search", only |-> FALSE, urls |-> urls, tail |-> <<>>,
                marks |-> marks, k |-> 1, failed |-> {}, got |-> {}, retry |-> {}]
    BY <1>3 DEF StartSearch, Idle, urls, marks
  <2>7. RunTypeOK(run')
    BY <1>2, <2>3, <2>5, <2>6, Begins
  <2> QED  BY <2>5, <2>6, <2>7 DEF PendingOK, ProgressOK
<1>4. ASSUME NEW CONSTANT list \in UrlList(Posting), NEW CONSTANT only \in BOOLEAN,
             NEW CONSTANT cap \in Cap \cup {Len(list)}, StartUrls(list, cap, only)
      PROVE  RunTypeOK(run') /\ PendingOK(run', pending) /\ ProgressOK(run', record)
  <2> DEFINE urls == First(cap, list)
  <2>1. cap \in Nat /\ IsList(list)
    BY <1>1, UrlListsAreLists
  <2>2. IsList(urls) /\ urls \in Seq(Posting)
    BY <2>1, Capped
  <2> HIDE DEF urls
  <2>3. run' = [at |-> "save", mode |-> "urls", only |-> only, urls |-> urls, tail |-> <<>>,
                marks |-> {}, k |-> 1, failed |-> {}, got |-> {}, retry |-> {}]
    BY <1>4 DEF StartUrls, Idle, urls
  <2>4. RunTypeOK(run')
    <3>1. {} \in SUBSET Posting /\ <<>> \in Seq(Posting) /\ IsList(urls \o <<>>)
      BY <1>2, <2>2
    <3> QED  BY <2>2, <2>3, <3>1, Begins
  <2> QED  BY <2>3, <2>4 DEF PendingOK, ProgressOK
<1>5. ASSUME NEW only \in BOOLEAN, NEW cap \in Cap \cup {Len(pending)},
             StartResume(cap, only)
      PROVE  RunTypeOK(run') /\ PendingOK(run', pending) /\ ProgressOK(run', record)
  <2> DEFINE urls == First(cap, pending)
             tail == Rest(cap, pending)
  <2>1. cap \in Nat /\ IsList(pending)
    BY <1>1 DEF AutoInv, IsList
  <2>2. urls \in Seq(Posting) /\ tail \in Seq(Posting) /\ urls \o tail = pending
    BY <2>1, Capped
  <2> HIDE DEF urls, tail
  <2>3. run' = [at |-> "save", mode |-> "resume", only |-> only, urls |-> urls, tail |-> tail,
                marks |-> {}, k |-> 1, failed |-> {}, got |-> {}, retry |-> {}]
    BY <1>5 DEF StartResume, Idle, urls, tail
  <2>4. RunTypeOK(run')
    <3>1. {} \in SUBSET Posting /\ IsList(urls \o tail)
      BY <2>1, <2>2
    <3> QED  BY <2>2, <2>3, <3>1, Begins
  <2> QED  BY <2>2, <2>3, <2>4 DEF PendingOK, ProgressOK
<1> QED  BY <1>3, <1>4, <1>5 DEF Search, FromUrls, Resume

(* The posting a stage is at, and the end of a stage.                       *)
LEMMA AtPosting ==
    ASSUME NEW r, RunTypeOK(r), r.k <= Len(r.urls)
    PROVE  /\ r.urls[r.k] \in Listed(r.urls) /\ r.urls[r.k] \in Posting
           /\ r.urls[r.k] \notin Behind(r)
           /\ r.k + 1 \in 1..Len(r.urls) + 1 /\ r.k + 1 \in Nat
           /\ \A s : s.urls = r.urls /\ s.k = r.k + 1 =>
                        Behind(s) = Behind(r) \cup {r.urls[r.k]}
<1> DEFINE k == r.k
           urls == r.urls
<1>1. /\ urls \in Seq(Posting) /\ r.tail \in Seq(Posting) /\ k \in 1..Len(urls)
      /\ Len(urls) \in Nat
  BY DEF RunTypeOK, RunState
<1>2. NoneTwice(urls)
  BY <1>1, Joined DEF RunTypeOK, IsList
<1> HIDE DEF k, urls
<1>3. urls[k] \in Listed(urls) /\ urls[k] \in Posting
  BY <1>1 DEF Listed
<1>4. ASSUME NEW i \in 1..k - 1 PROVE urls[i] # urls[k]
  <2>1. i \in 1..Len(urls) /\ i # k
    BY <1>1
  <2> QED  BY <1>1, <1>2, <2>1 DEF NoneTwice
<1>5. urls[k] \notin Behind(r)
  BY <1>4 DEF Behind, k, urls
<1>6. k + 1 \in 1..Len(urls) + 1 /\ k + 1 \in Nat
  BY <1>1
<1>7. ASSUME NEW s, s.urls = urls, s.k = k + 1 PROVE Behind(s) = Behind(r) \cup {urls[k]}
  <2>1. 1..s.k - 1 = (1..k - 1) \cup {k}
    BY <1>1, <1>7
  <2>2. Behind(s) = {urls[i] : i \in (1..k - 1) \cup {k}}
    BY <1>7, <2>1 DEF Behind
  <2>3. Behind(r) = {urls[i] : i \in 1..k - 1}
    BY DEF Behind, k, urls
  <2> QED  BY <2>2, <2>3
<1> QED  BY <1>3, <1>5, <1>6, <1>7 DEF k, urls

LEMMA StageOver ==
    ASSUME NEW r, RunTypeOK(r), r.k > Len(r.urls)
    PROVE  Behind(r) = Listed(r.urls)
<1>1. Len(r.urls) \in Nat /\ r.k = Len(r.urls) + 1
  BY DEF RunTypeOK, RunState
<1>2. r.k - 1 = Len(r.urls)
  BY <1>1
<1> QED  BY <1>2 DEF Behind, Listed

LEMMA BehindNothing ==
    ASSUME NEW r, r.k = 1
    PROVE  Behind(r) = {}
BY DEF Behind

(* The two steps before the stages.                                         *)
LEMMA PersistKeeps ==
    ASSUME AutoInv, Persist
    PROVE  AutoInv'
<1>1. run.at = "persist" /\ run \in RunState
  BY DEF AutoInv, RunTypeOK, Persist
<1>2. CASE run' = Idle
  <2>1. seen' \subseteq Posting
    BY <1>1 DEF AutoInv, Persist, RunState
  <2> QED  BY <1>2, <2>1, IdleIsOK DEF AutoInv, Persist
<1>3. CASE run' = [run EXCEPT !.at = "save"]
  <2>1. /\ run' \in RunState /\ run'.at = "save" /\ run'.mode = run.mode /\ run'.urls = run.urls
        /\ run'.tail = run.tail /\ run'.k = run.k /\ run'.failed = run.failed
        /\ run'.got = run.got /\ run'.retry = run.retry
    BY <1>1, <1>3 DEF RunState
  <2>2. RunTypeOK(run')
    BY <1>1, <2>1 DEF AutoInv, RunTypeOK
  <2>3. PendingOK(run', pending') /\ ProgressOK(run', record')
    BY <1>1, <2>1 DEF AutoInv, PendingOK, ProgressOK, Persist
  <2>4. seen' \subseteq Posting
    BY <1>1 DEF AutoInv, Persist, RunState
  <2> QED  BY <2>2, <2>3, <2>4 DEF AutoInv, Persist
<1> QED  BY <1>2, <1>3 DEF Persist

LEMMA SaveKeeps ==
    ASSUME AutoInv, SavePending
    PROVE  AutoInv'
<1>1. run.at = "save" /\ run \in RunState /\ run' = [run EXCEPT !.at = "extract"]
  BY DEF AutoInv, RunTypeOK, SavePending
<1>2. /\ run' \in RunState /\ run'.at = "extract" /\ run'.mode = run.mode
      /\ run'.urls = run.urls /\ run'.tail = run.tail /\ run'.k = run.k
      /\ run'.failed = run.failed /\ run'.got = run.got /\ run'.retry = run.retry
  BY <1>1 DEF RunState
<1>3. run.k = 1 /\ run.failed = {} /\ run.got = {} /\ Behind(run') = {}
  BY <1>1, <1>2, BehindNothing DEF AutoInv, RunTypeOK
<1>4. RunTypeOK(run')
  BY <1>1, <1>2, <1>3 DEF AutoInv, RunTypeOK
<1>5. pending' = run'.urls \o run'.tail /\ IsList(pending')
  BY <1>2, <1>4 DEF SavePending, RunTypeOK
<1>6. PendingOK(run', pending') /\ ProgressOK(run', record')
  BY <1>2, <1>3, <1>5 DEF PendingOK, ProgressOK
<1> QED  BY <1>4, <1>5, <1>6 DEF AutoInv, SavePending

(* A stage goes on to its next posting.                                     *)
LEMMA ExtractKeeps ==
    ASSUME AutoInv, Extract
    PROVE  AutoInv'
<1>1. run.at = "extract" /\ run \in RunState /\ run.k \in Nat
      /\ pending' = pending /\ seen' = seen /\ left' = left
      /\ run.failed \in SUBSET Posting /\ run.got \in SUBSET Posting
  BY DEF AutoInv, RunTypeOK, RunState, Extract, Duplicate, Extracted, ExtractFailed, InStage,
         NextStage
<1>2. CASE Duplicate \/ Extracted \/ ExtractFailed
  <2>1. run.k <= Len(run.urls)
    BY <1>2 DEF Duplicate, Extracted, ExtractFailed, InStage
  <2>2. /\ Url \in Listed(run.urls) /\ Url \in Posting /\ Url \notin Behind(run)
        /\ run.k + 1 \in 1..Len(run.urls) + 1 /\ run.k + 1 \in Nat
        /\ \A s : s.urls = run.urls /\ s.k = run.k + 1 => Behind(s) = Behind(run) \cup {Url}
    BY <2>1, AtPosting DEF AutoInv, Url
  <2>3. PICK failed \in SUBSET Posting, got \in SUBSET Posting :
           /\ run' = [run EXCEPT !.k = run.k + 1, !.failed = failed, !.got = got]
           /\ \/ failed = run.failed /\ got = run.got /\ record[Url] # "none"
              \/ failed = run.failed /\ got = run.got \cup {Url} /\ record'[Url] # "none"
              \/ failed = run.failed \cup {Url} /\ got = run.got
           /\ GoesOn(record, record')
    <3>1. CASE Duplicate
      <4>1. run' = [run EXCEPT !.k = run.k + 1, !.failed = run.failed, !.got = run.got]
        BY <1>1, <3>1 DEF Duplicate, RunState
      <4>2. record' = record /\ record[Url] # "none"
        BY <3>1 DEF Duplicate
      <4> QED  BY <1>1, <4>1, <4>2 DEF GoesOn, AutoInv
    <3>2. CASE Extracted
      <4>1. run' = [run EXCEPT !.k = run.k + 1, !.failed = run.failed, !.got = run.got \cup {Url}]
        BY <1>1, <3>2 DEF Extracted, RunState
      <4>2. PICK v \in RecordState \ {"none"} :
               record' = [record EXCEPT ![Url] = v] /\ (record[Url] # "none" => v = record[Url])
        <5>1. record[Url] \in RecordState
          BY <2>2 DEF AutoInv
        <5> QED  BY <3>2, <5>1 DEF Extracted, RecordState
      <4>3. GoesOn(record, record') /\ record'[Url] # "none"
        BY <2>2, <4>2 DEF GoesOn, AutoInv
      <4>4. run.got \cup {Url} \in SUBSET Posting
        BY <1>1, <2>2
      <4> QED  BY <1>1, <4>1, <4>3, <4>4
    <3>3. CASE ExtractFailed
      <4>1. run' = [run EXCEPT !.k = run.k + 1, !.failed = run.failed \cup {Url}, !.got = run.got]
        BY <1>1, <3>3 DEF ExtractFailed, RunState
      <4>2. record' = record
        BY <3>3 DEF ExtractFailed
      <4>3. run.failed \cup {Url} \in SUBSET Posting
        BY <1>1, <2>2
      <4> QED  BY <1>1, <4>1, <4>2, <4>3 DEF GoesOn, AutoInv
    <3> QED  BY <1>2, <3>1, <3>2, <3>3
  <2>4. /\ run' \in RunState /\ run'.at = "extract" /\ run'.mode = run.mode
        /\ run'.urls = run.urls /\ run'.tail = run.tail /\ run'.k = run.k + 1
        /\ run'.failed = failed /\ run'.got = got /\ run'.retry = run.retry
    BY <1>1, <2>2, <2>3 DEF RunState
  <2> HIDE DEF Url
  <2>5. Behind(run') = Behind(run) \cup {Url}
    BY <2>2, <2>4
  <2>6. RunTypeOK(run')
    <3>1. /\ run.failed \cup run.got \subseteq Behind(run) /\ run.failed \cap run.got = {}
          /\ run.failed \cup run.got \subseteq Listed(run.urls) /\ run.retry \subseteq run.got
          /\ IsList(run.urls \o run.tail)
      BY <1>1 DEF AutoInv, RunTypeOK
    <3>2. /\ failed \cup got \subseteq Behind(run) \cup {Url} /\ failed \cap got = {}
          /\ failed \cup got \subseteq Listed(run.urls) /\ run.retry \subseteq got
      BY <2>2, <2>3, <3>1
    <3> QED  BY <2>2, <2>4, <2>5, <3>1, <3>2 DEF RunTypeOK
  <2>7. PendingOK(run', pending')
    BY <1>1, <2>4 DEF AutoInv, PendingOK
  <2>8. ProgressOK(run', record')
    <3>1. \A u \in Behind(run) : Tried(run, record', u)
      BY <1>1, <2>3, ProgressStays DEF AutoInv, ProgressOK
    <3>2. \A u \in Behind(run) : Tried(run', record', u)
      BY <2>3, <2>4, <3>1 DEF Tried
    <3>3. Tried(run', record', Url)
      BY <2>2, <2>3, <2>4 DEF Tried, GoesOn
    <3> QED  BY <2>4, <2>5, <3>2, <3>3 DEF ProgressOK
  <2> QED  BY <1>1, <2>3, <2>6, <2>7, <2>8 DEF AutoInv, GoesOn
<1>3. CASE NextStage("extract", "screen")
  <2>1. run' = [run EXCEPT !.at = "screen", !.k = 1] /\ run.k > Len(run.urls) /\ record' = record
    BY <1>3 DEF NextStage
  <2>2. /\ run' \in RunState /\ run'.at = "screen" /\ run'.mode = run.mode
        /\ run'.urls = run.urls /\ run'.tail = run.tail /\ run'.k = 1
        /\ run'.failed = run.failed /\ run'.got = run.got /\ run'.retry = run.retry
    BY <1>1, <2>1 DEF RunState
  <2>3. Behind(run) = Listed(run.urls) /\ Behind(run') = {}
    BY <2>1, <2>2, StageOver, BehindNothing DEF AutoInv
  <2>4. RunTypeOK(run')
    BY <1>1, <2>2 DEF AutoInv, RunTypeOK, RunState
  <2>5. PendingOK(run', pending')
    BY <1>1, <2>2 DEF AutoInv, PendingOK
  <2>6. ProgressOK(run', record')
    BY <1>1, <2>1, <2>2, <2>3 DEF AutoInv, ProgressOK, Tried
  <2> QED  BY <1>1, <2>1, <2>4, <2>5, <2>6 DEF AutoInv
<1> QED  BY <1>2, <1>3 DEF Extract

LEMMA ScreenKeeps ==
    ASSUME AutoInv, Screen
    PROVE  AutoInv'
<1>1. run.at = "screen" /\ run \in RunState /\ run.k \in Nat
      /\ pending' = pending /\ seen' = seen /\ left' = left
      /\ run.retry \in SUBSET Posting /\ run.got \in SUBSET Posting
  BY DEF AutoInv, RunTypeOK, RunState, Screen, NotExtracted, ScreenFailed, SetAside, Screened,
         InStage, NextStage
<1>2. CASE \/ NotExtracted \/ ScreenFailed
           \/ \E warned \in BOOLEAN : SetAside(warned) \/ Screened(warned)
  <2>1. run.k <= Len(run.urls)
    BY <1>2 DEF NotExtracted, ScreenFailed, SetAside, Screened, InStage
  <2>2. /\ Url \in Listed(run.urls) /\ Url \in Posting
        /\ run.k + 1 \in 1..Len(run.urls) + 1 /\ run.k + 1 \in Nat
        /\ \A s : s.urls = run.urls /\ s.k = run.k + 1 => Behind(s) = Behind(run) \cup {Url}
    BY <2>1, AtPosting DEF AutoInv, Url
  <2>3. PICK retry \in SUBSET Posting :
           /\ run' = [run EXCEPT !.k = run.k + 1, !.retry = retry]
           /\ run.retry \subseteq retry /\ retry \subseteq run.got
           /\ Url \in run.got \ retry => record'[Url] \in {"setaside", "screened"}
           /\ GoesOn(record, record')
    <3>1. run.retry \subseteq run.got
      BY DEF AutoInv, RunTypeOK
    <3>2. CASE NotExtracted
      <4>1. run' = [run EXCEPT !.k = run.k + 1, !.retry = run.retry]
        BY <1>1, <3>2 DEF NotExtracted, RunState
      <4>2. record' = record /\ Url \notin run.got
        BY <3>2 DEF NotExtracted
      <4> QED  BY <1>1, <3>1, <4>1, <4>2 DEF GoesOn, AutoInv
    <3>3. CASE ScreenFailed
      <4>1. run' = [run EXCEPT !.k = run.k + 1, !.retry = run.retry \cup {Url}]
        BY <1>1, <3>3 DEF ScreenFailed, Warned, RunState
      <4>2. record' = record /\ Url \in run.got
        BY <3>3 DEF ScreenFailed
      <4>3. run.retry \cup {Url} \in SUBSET Posting /\ run.retry \cup {Url} \subseteq run.got
        BY <1>1, <2>2, <3>1, <4>2
      <4> QED  BY <4>1, <4>2, <4>3 DEF GoesOn, AutoInv
    <3>4. ASSUME NEW warned \in BOOLEAN, SetAside(warned) \/ Screened(warned)
          PROVE  \E retry \in SUBSET Posting :
                    /\ run' = [run EXCEPT !.k = run.k + 1, !.retry = retry]
                    /\ run.retry \subseteq retry /\ retry \subseteq run.got
                    /\ Url \in run.got \ retry => record'[Url] \in {"setaside", "screened"}
                    /\ GoesOn(record, record')
      <4>1. Url \in run.got
        BY <3>4 DEF SetAside, Screened
      <4>2. PICK retry \in {run.retry, run.retry \cup {Url}} :
               run' = [run EXCEPT !.k = run.k + 1, !.retry = retry]
        BY <1>1, <3>4 DEF SetAside, Screened, Warned, RunState
      <4>3. PICK v \in {"setaside", "screened"} : record' = [record EXCEPT ![Url] = v]
        BY <2>2, <3>4 DEF SetAside, Screened
      <4>4. GoesOn(record, record') /\ record'[Url] \in {"setaside", "screened"}
        BY <2>2, <4>3 DEF GoesOn, AutoInv, RecordState
      <4>5. retry \in SUBSET Posting /\ run.retry \subseteq retry /\ retry \subseteq run.got
        BY <1>1, <2>2, <3>1, <4>1, <4>2
      <4> QED  BY <4>2, <4>4, <4>5
    <3> QED  BY <1>2, <3>2, <3>3, <3>4
  <2>4. /\ run' \in RunState /\ run'.at = "screen" /\ run'.mode = run.mode
        /\ run'.urls = run.urls /\ run'.tail = run.tail /\ run'.k = run.k + 1
        /\ run'.failed = run.failed /\ run'.got = run.got /\ run'.retry = retry
    BY <1>1, <2>2, <2>3 DEF RunState
  <2> HIDE DEF Url
  <2>5. Behind(run') = Behind(run) \cup {Url}
    BY <2>2, <2>4
  <2>6. RunTypeOK(run')
    BY <1>1, <2>2, <2>3, <2>4 DEF AutoInv, RunTypeOK
  <2>7. PendingOK(run', pending')
    BY <1>1, <2>4 DEF AutoInv, PendingOK
  <2>8. ProgressOK(run', record')
    <3>1. ProgressOK(run, record')
      BY <2>3, ProgressStays DEF AutoInv
    <3>2. (\A u \in Listed(run.urls) : Tried(run', record', u))
          /\ (\A u \in Behind(run) : Assessed(run', record', u))
      BY <1>1, <2>3, <2>4, <3>1 DEF ProgressOK, Tried, Assessed
    <3>3. Assessed(run', record', Url)
      BY <2>3, <2>4 DEF Assessed
    <3> QED  BY <2>4, <2>5, <3>2, <3>3 DEF ProgressOK
  <2> QED  BY <1>1, <2>3, <2>6, <2>7, <2>8 DEF AutoInv, GoesOn
<1>3. CASE NextStage("screen", "complete")
  <2>1. run' = [run EXCEPT !.at = "complete", !.k = 1] /\ run.k > Len(run.urls)
        /\ record' = record
    BY <1>3 DEF NextStage
  <2>2. /\ run' \in RunState /\ run'.at = "complete" /\ run'.mode = run.mode
        /\ run'.urls = run.urls /\ run'.tail = run.tail /\ run'.k = 1
        /\ run'.failed = run.failed /\ run'.got = run.got /\ run'.retry = run.retry
    BY <1>1, <2>1 DEF RunState
  <2>3. Behind(run) = Listed(run.urls)
    BY <2>1, StageOver DEF AutoInv
  <2>4. RunTypeOK(run')
    BY <1>1, <2>2 DEF AutoInv, RunTypeOK, RunState
  <2>5. PendingOK(run', pending')
    BY <1>1, <2>2 DEF AutoInv, PendingOK
  <2>6. ProgressOK(run', record')
    BY <1>1, <2>1, <2>2, <2>3 DEF AutoInv, ProgressOK, Tried, Assessed
  <2> QED  BY <1>1, <2>1, <2>4, <2>5, <2>6 DEF AutoInv
<1> QED  BY <1>2, <1>3 DEF Screen

(* What a run leaves pending.                                               *)
LEMMA LeftPending ==
    ASSUME AutoInv, Complete
    PROVE  /\ IsList(pending')
           /\ Listed(pending') =
                run.failed \cup (run.got \cap run.retry) \cup Listed(run.tail)
<1> DEFINE a == Among(run.urls, run.failed)
           b == Among(run.urls, run.got \cap run.retry)
<1>1. /\ run.urls \in Seq(Posting) /\ run.tail \in Seq(Posting)
      /\ run.failed \cup run.got \subseteq Listed(run.urls) /\ run.failed \cap run.got = {}
      /\ IsList(run.urls \o run.tail)
  BY DEF AutoInv, RunTypeOK, RunState
<1>2. IsList(run.urls) /\ IsList(run.tail) /\ Listed(run.urls) \cap Listed(run.tail) = {}
  BY <1>1, Joined
<1>3. /\ IsList(a) /\ Listed(a) = Listed(run.urls) \cap run.failed
      /\ IsList(b) /\ Listed(b) = Listed(run.urls) \cap (run.got \cap run.retry)
  BY <1>2, AmongIsSelection
<1>4. pending' = (a \o b) \o run.tail
  BY DEF Complete
<1> HIDE DEF a, b
<1>5. Listed(a) = run.failed /\ Listed(b) = run.got \cap run.retry
      /\ Listed(a) \cap Listed(b) = {}
  BY <1>1, <1>3
<1>6. IsList(a \o b) /\ Listed(a \o b) = Listed(a) \cup Listed(b) /\ a \o b \in Seq(Posting)
  BY <1>3, <1>5, Joined DEF IsList
<1>7. Listed(a \o b) \cap Listed(run.tail) = {}
  BY <1>1, <1>2, <1>5, <1>6
<1> DEFINE c == a \o b
<1>8. c \in Seq(Posting) /\ IsList(c) /\ Listed(c) = Listed(a) \cup Listed(b)
      /\ Listed(c) \cap Listed(run.tail) = {} /\ pending' = c \o run.tail
  BY <1>4, <1>6, <1>7
<1> HIDE DEF c
<1>9. IsList(c \o run.tail) /\ Listed(c \o run.tail) = Listed(c) \cup Listed(run.tail)
  BY <1>1, <1>2, <1>8, Joined
<1> QED  BY <1>5, <1>8, <1>9

LEMMA CompleteKeeps ==
    ASSUME AutoInv, Complete
    PROVE  AutoInv'
<1>1. IsList(pending')
  BY LeftPending
<1>2. run' = Idle /\ UNCHANGED <<seen, record, left>>
  BY DEF Complete
<1> QED  BY <1>1, <1>2, IdleIsOK DEF AutoInv

LEMMA CollectKeeps ==
    ASSUME AutoInv, NEW u \in Posting, Collect(u)
    PROVE  AutoInv'
<1>1. PICK v \in RecordState : record' = [record EXCEPT ![u] = v]
                               /\ (record[u] = "none" \/ record[u] = "unscreened")
                               /\ v # "none"
  BY DEF Collect, RecordState
<1>2. GoesOn(record, record')
  BY <1>1 DEF GoesOn, AutoInv
<1>3. ProgressOK(run, record')
  BY <1>2, ProgressStays DEF AutoInv
<1> QED  BY <1>2, <1>3 DEF AutoInv, GoesOn, Collect

(* AutoInv is an invariant of runs of every kind, their crashes and what    *)
(* the browser collects meanwhile (automation.py, search.py).               *)
THEOREM AutoInvariant == Spec => []AutoInv
<1>1. Init => AutoInv
  <2> SUFFICES ASSUME Init PROVE AutoInv
    OBVIOUS
  <2>1. RunTypeOK(run) /\ PendingOK(run, pending) /\ ProgressOK(run, record)
    BY IdleIsOK DEF Init
  <2>2. record \in [Posting -> RecordState] /\ left \in [crashes : 0..MaxCrashes]
    BY AutoAssumption DEF Init, RecordState
  <2> QED  BY <2>1, <2>2, EmptyList DEF Init, AutoInv
<1>2. AutoInv /\ [Next]_vars => AutoInv'
  <2> SUFFICES ASSUME AutoInv, [Next]_vars PROVE AutoInv'
    OBVIOUS
  <2>1. CASE Search \/ FromUrls \/ Resume
    <3>1. UNCHANGED <<seen, pending, record, left>>
      BY <2>1 DEF Search, FromUrls, Resume, StartSearch, StartUrls, StartResume
    <3> QED  BY <2>1, <3>1, Started DEF AutoInv
  <2>2. CASE Work
    BY <2>2, PersistKeeps, SaveKeeps, ExtractKeeps, ScreenKeeps, CompleteKeeps DEF Work
  <2>3. CASE Crash
    <3>1. left' \in [crashes : 0..MaxCrashes]
      BY <2>3, AutoAssumption DEF Crash, AutoInv
    <3> QED  BY <2>3, <3>1, IdleIsOK DEF Crash, AutoInv
  <2>4. ASSUME NEW u \in Posting, Collect(u) PROVE AutoInv'
    BY <2>4, CollectKeeps
  <2>5. CASE ResetSearch
    BY <2>5 DEF ResetSearch, AutoInv
  <2>6. CASE UNCHANGED vars
    BY <2>6 DEF vars, AutoInv
  <2> QED  BY <2>1, <2>2, <2>3, <2>4, <2>5, <2>6 DEF Next
<1> QED  BY <1>1, <1>2, PTL DEF Spec

(* Every variable has its type; the lists name no posting twice.            *)
THEOREM AutoTypeCorrect == Spec => []TypeOK
<1>1. AutoInv => TypeOK
  <2> SUFFICES ASSUME AutoInv PROVE TypeOK
    OBVIOUS
  <2>1. pending \in UrlList(Posting) /\ run.urls \o run.tail \in UrlList(Posting)
    BY ListsAreUrlLists DEF AutoInv, RunTypeOK
  <2> QED  BY <2>1 DEF AutoInv, RunTypeOK, RunState, TypeOK
<1> QED  BY <1>1, AutoInvariant, PTL

(* Whenever a run dies in one of its stages, what it still had to handle is *)
(* pending, for any number of postings and any caps (automation.py:270).    *)
THEOREM RunsArePending == Spec => []RunIsPending
<1>1. AutoInv => RunIsPending
  <2> SUFFICES ASSUME AutoInv, run.at \in {"extract", "screen", "complete"}
               PROVE  Listed(run.urls) \cup Listed(run.tail) \subseteq Listed(pending)
    BY DEF RunIsPending
  <2>1. run.urls \in Seq(Posting) /\ run.tail \in Seq(Posting)
        /\ pending = run.urls \o run.tail
    BY DEF AutoInv, RunTypeOK, RunState, PendingOK
  <2> QED  BY <2>1, Joined
<1> QED  BY <1>1, AutoInvariant, PTL

(* Only what a search hands on, and what has a record, is marked as seen    *)
(* (search.py:288-318, automation.py:234).                                  *)
THEOREM MarkedIsHandedOn == Spec => SeenWasHandedOn
<1>1. AutoInv /\ [Next]_vars =>
        [\A u \in seen' \ seen : u \in Listed(run.urls) \/ record[u] # "none"]_vars
  <2> SUFFICES ASSUME AutoInv, Next, NEW u \in seen' \ seen
               PROVE  u \in Listed(run.urls) \/ record[u] # "none"
    OBVIOUS
  <2>1. Persist
    BY DEF Next, Search, FromUrls, Resume, StartSearch, StartUrls, StartResume, Work, SavePending,
           Extract, Duplicate, Extracted, ExtractFailed, Screen, NotExtracted, ScreenFailed,
           SetAside, Screened, NextStage, Complete, Crash, Collect, ResetSearch
  <2>2. run.at = "persist" /\ u \in run.marks
    BY <2>1 DEF Persist
  <2> QED  BY <2>2 DEF AutoInv, ProgressOK
<1> QED  BY <1>1, AutoInvariant, PTL DEF Spec, SeenWasHandedOn

LEMMA PendingChanges ==
    ASSUME Next, pending' # pending
    PROVE  SavePending \/ Complete
BY DEF Next, Search, FromUrls, Resume, StartSearch, StartUrls, StartResume, Work, Persist,
       Extract, Duplicate, Extracted, ExtractFailed, Screen, NotExtracted, ScreenFailed,
       SetAside, Screened, NextStage, Crash, Collect, ResetSearch

(* A resumed run drops only postings that have a record, whatever its cap   *)
(* and whatever fails (automation.py:323-346).                              *)
THEOREM ResumeDropsRecorded == Spec => ResumeKeepsUnrecorded
<1>1. AutoInv /\ [Next]_vars =>
        [run.mode = "resume" =>
           \A u \in Listed(pending) \ Listed(pending') : record'[u] # "none"]_vars
  <2> SUFFICES ASSUME AutoInv, Next, run.mode = "resume",
                      NEW u \in Listed(pending) \ Listed(pending')
               PROVE  record'[u] # "none"
    OBVIOUS
  <2>1. SavePending \/ Complete
    <3>1. pending' # pending
      OBVIOUS
    <3> QED  BY <3>1, PendingChanges
  <2>2. CASE SavePending
    <3>1. pending = run.urls \o run.tail /\ pending' = run.urls \o run.tail
      BY <2>2 DEF SavePending, AutoInv, PendingOK
    <3> QED  BY <3>1
  <2>3. CASE Complete
    <3>1. /\ run.at = "complete" /\ record' = record /\ pending = run.urls \o run.tail
          /\ run.urls \in Seq(Posting) /\ run.tail \in Seq(Posting)
          /\ \A w \in Listed(run.urls) : Tried(run, record, w)
      BY <2>3 DEF Complete, AutoInv, PendingOK, ProgressOK, RunTypeOK, RunState
    <3>2. Listed(pending) = Listed(run.urls) \cup Listed(run.tail)
      BY <3>1, Joined
    <3>3. u \in Listed(run.urls) /\ u \notin run.failed
      BY <2>3, <3>2, LeftPending
    <3> QED  BY <3>1, <3>3 DEF Tried
  <2> QED  BY <2>1, <2>2, <2>3
<1> QED  BY <1>1, AutoInvariant, PTL DEF Spec, ResumeKeepsUnrecorded

(* A run that ends in one of its stages, or in the middle of one, leaves    *)
(* each of its postings pending, assessed or recorded by someone else       *)
(* (automation.py:278-346, 992-1091).                                       *)
THEOREM RunsAccountForAll == Spec => RunAccountsForAll
<1>1. AutoInv /\ [Next]_vars =>
        [(run.at \in {"extract", "screen", "complete"} /\ run'.at = "idle") =>
           \A u \in Listed(run.urls \o run.tail) :
               \/ u \in Listed(pending')
               \/ record[u] \in {"setaside", "screened"}
               \/ u \notin run.got /\ record[u] # "none"]_vars
  <2> SUFFICES ASSUME AutoInv, Next, run.at \in {"extract", "screen", "complete"},
                      run'.at = "idle", NEW u \in Listed(run.urls \o run.tail)
               PROVE  \/ u \in Listed(pending')
                      \/ record[u] \in {"setaside", "screened"}
                      \/ u \notin run.got /\ record[u] # "none"
    OBVIOUS
  <2>1. CASE pending' = pending
    BY <2>1 DEF AutoInv, PendingOK
  <2>2. CASE Complete
    <3>1. /\ run.at = "complete"
          /\ run.urls \in Seq(Posting) /\ run.tail \in Seq(Posting)
          /\ \A w \in Listed(run.urls) : Tried(run, record, w) /\ Assessed(run, record, w)
      BY <2>2 DEF Complete, AutoInv, ProgressOK, RunTypeOK, RunState
    <3>2. u \in Listed(run.urls) \/ u \in Listed(run.tail)
      BY <3>1, Joined
    <3>3. u \in Listed(run.tail) \/ u \in run.failed \/ u \in run.got \cap run.retry
          => u \in Listed(pending')
      BY <2>2, LeftPending
    <3> QED  BY <3>1, <3>2, <3>3 DEF Tried, Assessed
  <2>3. ~SavePending
    BY DEF SavePending
  <2> QED  BY <2>1, <2>2, <2>3, PendingChanges
<1> QED  BY <1>1, AutoInvariant, PTL DEF Spec, RunAccountsForAll
=============================================================================
