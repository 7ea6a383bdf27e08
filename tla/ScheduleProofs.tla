--------------------------- MODULE ScheduleProofs ---------------------------
(***************************************************************************)
(* What the proofs about the scheduler use of its data, for any workers    *)
(* and problems: the keys of the Schedule map, sums over a finite set,     *)
(* counters that wrap, and the rounds of the packing of IslandPacking.     *)
(***************************************************************************)
EXTENDS PrelimScheduler, ScheduleKeys, SequenceTheorems, FiniteSetTheorems, TLAPS

-----------------------------------------------------------------------------
(* The keys of the Schedule.                                               *)

\* There is one place to cut at most.
LEMMA CutUnique ==
  ASSUME NEW S, NEW s \in Seq(S), NEW n \in Nat, NEW i, Cut(s, n, i)
  PROVE  After(s, n) = SubSeq(s, n + 1, i - 1)
<1>1. Len(s) \in Nat /\ i \in Int
  BY DEF Cut
<1>2. \A j \in Int : Cut(s, n, j) => j = i
  <2> SUFFICES ASSUME NEW j \in Int, Cut(s, n, j) PROVE j = i
    OBVIOUS
  <2>1. ~(j < i)
    BY <1>1 DEF Cut
  <2>2. ~(i < j)
    BY <1>1 DEF Cut
  <2> QED
    BY <1>1, <2>1, <2>2
<1>3. (CHOOSE j \in Int : Cut(s, n, j)) = i
  BY <1>1, <1>2
<1> QED
  BY <1>3 DEF After

\* The characters of a key.
Joined(k, w, p, S) ==
  /\ k \in Seq(S \cup {At})
  /\ Len(k) = Len(p) + 1 + Len(w)
  /\ \A i \in 1 .. Len(p) : k[i] = p[i]
  /\ k[Len(p) + 1] = At
  /\ \A i \in 1 .. Len(w) : k[Len(p) + 1 + i] = w[i]

\* Each of them is where the concatenation puts it.
LEMMA KeyParts ==
  ASSUME NEW S, NEW w \in Seq(S), NEW p \in Seq(S)
  PROVE  Joined(Key(w, p), w, p, S)
<1>1. /\ p \in Seq(S \cup {At}) /\ w \in Seq(S \cup {At})
      /\ <<At>> \in Seq(S \cup {At}) /\ Len(<<At>>) = 1 /\ <<At>>[1] = At
  OBVIOUS
<1> DEFINE q == p \o <<At>>
<1>2. /\ q \in Seq(S \cup {At}) /\ Len(q) = Len(p) + 1
      /\ \A i \in 1 .. Len(p) : q[i] = p[i]
      /\ q[Len(p) + 1] = At
  BY <1>1, AppendProperties, ConcatProperties
<1>3. Key(w, p) = q \o w
  BY <1>1 DEF Key
<1> HIDE DEF q
<1>4. /\ q \o w \in Seq(S \cup {At})
      /\ Len(q \o w) = Len(q) + Len(w)
      /\ \A i \in 1 .. Len(q) : (q \o w)[i] = q[i]
      /\ \A i \in 1 .. Len(w) : (q \o w)[Len(q) + i] = w[i]
  <2> q \in Seq(S \cup {At}) /\ w \in Seq(S \cup {At})
    BY <1>1, <1>2
  <2>0. Len(q) \in Nat /\ Len(w) \in Nat
    OBVIOUS
  <2>1. /\ q \o w \in Seq(S \cup {At})
        /\ Len(q \o w) = Len(q) + Len(w)
        /\ \A i \in 1 .. Len(q) + Len(w) :
             (q \o w)[i] = IF i <= Len(q) THEN q[i] ELSE w[i - Len(q)]
    BY ConcatProperties, Zenon
  <2>2. \A i \in 1 .. Len(q) : (q \o w)[i] = q[i]
    BY <2>0, <2>1
  <2>3. ASSUME NEW i \in 1 .. Len(w) PROVE (q \o w)[Len(q) + i] = w[i]
    <3>1. /\ Len(q) + i \in 1 .. Len(q) + Len(w)
          /\ ~(Len(q) + i <= Len(q)) /\ Len(q) + i - Len(q) = i
      BY <2>0
    <3> QED
      BY <2>1, <3>1
  <2> QED
    BY <2>1, <2>2, <2>3
<1> QED
  BY <1>2, <1>3, <1>4 DEF Joined

\* A part of a key is the string it was made of.
LEMMA PartOfKey ==
  ASSUME NEW S, NEW k \in Seq(S), NEW t \in Seq(S), NEW n \in Nat,
         n + Len(t) <= Len(k),
         \A i \in 1 .. Len(t) : k[n + i] = t[i]
  PROVE  SubSeq(k, n + 1, n + Len(t)) = t
<1> DEFINE u == SubSeq(k, n + 1, n + Len(t))
<1>1. Len(t) \in Nat /\ Len(k) \in Nat
  OBVIOUS
<1>2. /\ u \in Seq(S)
      /\ Len(u) = Len(t)
      /\ \A i \in 1 .. Len(t) : u[i] = k[n + i]
  BY <1>1, SubSeqProperties
<1> HIDE DEF u
<1>3. \A i \in 1 .. Len(t) : u[i] = t[i]
  BY <1>2
<1> QED
  BY <1>2, <1>3, SeqEqual DEF u

\* The problem's ID comes back if there is no separator in it.
LEMMA ProblemComesBack ==
  ASSUME NEW S, NEW w \in Seq(S), NEW p \in Seq(S),
         \A i \in 1 .. Len(p) : p[i] # At
  PROVE  ProblemOf(Key(w, p)) = p
<1> DEFINE k == Key(w, p)
<1>1. /\ k \in Seq(S \cup {At})
      /\ Len(k) = Len(p) + 1 + Len(w)
      /\ \A i \in 1 .. Len(p) : k[i] = p[i]
      /\ k[Len(p) + 1] = At
  <2>1. Joined(k, w, p, S)
    BY KeyParts, Zenon
  <2> HIDE DEF k
  <2> QED
    BY <2>1 DEF Joined
<1>2. Len(p) \in Nat /\ Len(w) \in Nat /\ p \in Seq(S \cup {At})
  OBVIOUS
<1> HIDE DEF k
<1>3. Cut(k, 0, Len(p) + 1)
  BY <1>1, <1>2 DEF Cut
<1>4. After(k, 0) = SubSeq(k, 0 + 1, Len(p) + 1 - 1)
  BY <1>1, <1>3, CutUnique
<1>5. SubSeq(k, 0 + 1, 0 + Len(p)) = p
  BY <1>1, <1>2, PartOfKey
<1> QED
  BY <1>2, <1>4, <1>5 DEF ProblemOf, k

\* Apply hands the problem and the worker on that Set was given, whatever their
\* IDs, as long as neither has the separator in it; PrelimScheduler's pairs are
\* what the map's strings stand for.
THEOREM KeysComeBack ==
  ASSUME NEW S, NEW w \in Seq(S), NEW p \in Seq(S),
         \A i \in 1 .. Len(p) : p[i] # At,
         \A i \in 1 .. Len(w) : w[i] # At
  PROVE  ProblemOf(Key(w, p)) = p /\ WorkerOf(Key(w, p)) = w
<1> DEFINE k == Key(w, p)
           n == Len(p) + 1
<1>1. /\ k \in Seq(S \cup {At})
      /\ Len(k) = n + Len(w)
      /\ \A i \in 1 .. Len(w) : k[n + i] = w[i]
  BY KeyParts DEF Joined
<1>2. n \in Nat /\ Len(w) \in Nat /\ w \in Seq(S \cup {At})
  OBVIOUS
<1>3. ProblemOf(k) = p
  BY ProblemComesBack
<1> HIDE DEF k, n
<1>4. Cut(k, n, Len(k) + 1)
  <2>1. ASSUME NEW j \in n + 1 .. Len(k) PROVE k[j] # At
    <3>1. j - n \in 1 .. Len(w) /\ n + (j - n) = j
      BY <1>1, <1>2
    <3>2. k[n + (j - n)] = w[j - n] /\ w[j - n] # At
      BY <1>1, <3>1
    <3> QED
      BY <3>1, <3>2
  <2>2. Len(k) \in Nat /\ n <= Len(k) /\ Len(k) + 1 - 1 = Len(k)
    BY <1>1, <1>2
  <2> QED
    BY <1>2, <2>1, <2>2 DEF Cut
<1>5. After(k, n) = SubSeq(k, n + 1, Len(k) + 1 - 1)
  BY <1>1, <1>2, <1>4, CutUnique
<1>6. SubSeq(k, n + 1, n + Len(w)) = w
  <2>1. n + Len(w) <= Len(k)
    BY <1>1, <1>2
  <2> QED
    BY <1>1, <1>2, <2>1, PartOfKey
<1>7. Len(k) + 1 - 1 = n + Len(w)
  BY <1>1, <1>2
<1> QED
  BY <1>3, <1>5, <1>6, <1>7 DEF WorkerOf, k, n

\* And so no two pairs share a key: Get, Set and FillSchedule never mix two of
\* them up.
THEOREM KeysDiffer ==
  ASSUME NEW S, NEW w \in Seq(S), NEW p \in Seq(S), NEW v \in Seq(S), NEW q \in Seq(S),
         \A i \in 1 .. Len(p) : p[i] # At,
         \A i \in 1 .. Len(w) : w[i] # At,
         \A i \in 1 .. Len(q) : q[i] # At,
         \A i \in 1 .. Len(v) : v[i] # At,
         Key(w, p) = Key(v, q)
  PROVE  w = v /\ p = q
<1>1. ProblemOf(Key(w, p)) = p /\ WorkerOf(Key(w, p)) = w
  BY KeysComeBack
<1>2. ProblemOf(Key(v, q)) = q /\ WorkerOf(Key(v, q)) = v
  BY KeysComeBack
<1> QED
  BY <1>1, <1>2

\* Nothing keeps the separator out of an ID.  A worker that has it is never
\* addressed: what is scheduled for it goes to the ID before the separator.
THEOREM WorkerMisaddressed ==
  ASSUME NEW S, NEW w \in Seq(S), NEW p \in Seq(S), NEW c \in 1 .. Len(w), w[c] = At,
         \A j \in 1 .. c - 1 : w[j] # At,
         \A j \in 1 .. Len(p) : p[j] # At
  PROVE  WorkerOf(Key(w, p)) = SubSeq(w, 1, c - 1)
<1> DEFINE k == Key(w, p)
           n == Len(p) + 1
           t == SubSeq(w, 1, c - 1)
<1>1. /\ k \in Seq(S \cup {At})
      /\ Len(k) = n + Len(w)
      /\ \A j \in 1 .. Len(w) : k[n + j] = w[j]
  <2>1. Joined(k, w, p, S)
    BY KeyParts, Zenon
  <2> HIDE DEF k
  <2> QED
    BY <2>1 DEF Joined
<1>2. n \in Nat /\ Len(w) \in Nat /\ c \in Nat /\ c <= Len(w)
  OBVIOUS
<1>3. ProblemOf(k) = p
  BY ProblemComesBack
<1>4. /\ t \in Seq(S \cup {At}) /\ Len(t) = c - 1
      /\ \A j \in 1 .. c - 1 : t[j] = w[j]
  BY <1>2, SubSeqProperties
<1> HIDE DEF k, n, t
<1>5. Cut(k, n, n + c)
  <2>1. ASSUME NEW j \in n + 1 .. n + c - 1 PROVE k[j] # At
    <3>1. j - n \in 1 .. c - 1 /\ j - n \in 1 .. Len(w) /\ n + (j - n) = j
      BY <1>2
    <3>2. k[n + (j - n)] = w[j - n] /\ w[j - n] # At
      BY <1>1, <3>1
    <3> QED
      BY <3>1, <3>2
  <2>2. n + c \in n + 1 .. Len(k) + 1 /\ k[n + c] = At
    BY <1>1, <1>2
  <2> QED
    BY <1>2, <2>1, <2>2 DEF Cut
<1>6. After(k, n) = SubSeq(k, n + 1, n + c - 1)
  <2> DEFINE m == n + c
  <2>1. Cut(k, n, m)
    BY <1>5
  <2> HIDE DEF m
  <2>2. After(k, n) = SubSeq(k, n + 1, m - 1)
    BY <1>1, <1>2, <2>1, CutUnique
  <2>3. n + c - 1 = m - 1
    BY <1>2 DEF m
  <2> QED
    BY <2>2, <2>3
<1>7. SubSeq(k, n + 1, n + Len(t)) = t
  <2>1. \A j \in 1 .. Len(t) : k[n + j] = t[j]
    BY <1>1, <1>2, <1>4
  <2>2. t \in Seq(S \cup {At}) /\ n + Len(t) <= Len(k)
    BY <1>1, <1>2, <1>4
  <2> QED
    BY <1>1, <1>2, <2>1, <2>2, PartOfKey
<1>8. n + c - 1 = n + Len(t)
  BY <1>2, <1>4
<1> QED
  BY <1>3, <1>6, <1>7, <1>8 DEF WorkerOf, k, n, t

-----------------------------------------------------------------------------
(* Induction, and sums over a finite set.                                  *)

\* A set of naturals with 0 and the successor of each of its elements has them
\* all: every induction below is over such a set.
LEMMA NatSet ==
  ASSUME NEW T \in SUBSET Nat, 0 \in T, \A n \in T : n + 1 \in T
  PROVE  T = Nat
<1> SUFFICES ASSUME Nat \ T # {} PROVE FALSE
  OBVIOUS
<1> DEFINE R == OpToRel(<, Nat)
<1>1. IsWellFoundedOn(R, Nat)
  BY NatLessThanWellFounded
<1>2. \A x, y \in Nat : x < y => <<x, y>> \in R
  BY DEF OpToRel
<1> HIDE DEF R
<1>3. PICK m \in Nat \ T : \A y \in Nat \ T : <<y, m>> \notin R
  BY <1>1, WFMin
<1>4. m # 0 /\ m - 1 \in Nat /\ m - 1 < m
  OBVIOUS
<1>5. m - 1 \in T
  BY <1>2, <1>3, <1>4
<1> QED
  BY <1>4, <1>5

\* The element SumFunction takes next, and the sums over the subsets of D.
Chosen(s) == CHOOSE x \in s : TRUE
SumsTo(f, g, D) ==
  /\ DOMAIN g = D
  /\ \A s \in D : g[s] = IF s = {} THEN 0 ELSE f[Chosen(s)] + g[s \ {Chosen(s)}]

\* A set that is not empty has its chosen element.
LEMMA ChosenIn ==
  ASSUME NEW s, s # {}
  PROVE  Chosen(s) \in s
BY DEF Chosen

UpTo(D, n) == {s \in SUBSET D : Cardinality(s) <= n}

\* Without it a finite set is smaller by one.
LEMMA Smaller ==
  ASSUME NEW D, IsFiniteSet(D), NEW s \in SUBSET D, NEW x \in s, NEW n \in Nat,
         Cardinality(s) <= n + 1
  PROVE  s \ {x} \in UpTo(D, n)
<1>1. IsFiniteSet(s)
  BY FS_Subset
<1>2. Cardinality(s) \in Nat /\ Cardinality(s \ {x}) = Cardinality(s) - 1
  BY <1>1, FS_RemoveElement, FS_CardinalityType
<1> QED
  BY <1>2 DEF UpTo

\* Induction on the subsets of a finite set.
LEMMA SubsetSet ==
  ASSUME NEW D, IsFiniteSet(D), NEW T \in SUBSET SUBSET D, {} \in T,
         \A s \in SUBSET D : s # {} /\ (\A x \in s : s \ {x} \in T) => s \in T
  PROVE  T = SUBSET D
<1> DEFINE N == {n \in Nat : UpTo(D, n) \subseteq T}
<1>1. 0 \in N
  <2> SUFFICES ASSUME NEW s \in UpTo(D, 0) PROVE s \in T
    OBVIOUS
  <2>1. IsFiniteSet(s) /\ Cardinality(s) \in Nat /\ Cardinality(s) <= 0
    BY FS_Subset, FS_CardinalityType DEF UpTo
  <2>2. s = {}
    BY <2>1, FS_EmptySet
  <2> QED
    BY <2>2
<1>2. ASSUME NEW n \in N PROVE n + 1 \in N
  <2>1. ASSUME NEW s \in UpTo(D, n + 1) PROVE s \in T
    <3>1. s \in SUBSET D /\ Cardinality(s) <= n + 1
      BY DEF UpTo
    <3>2. \A x \in s : s \ {x} \in UpTo(D, n)
      BY <3>1, Smaller
    <3> QED
      BY <3>1, <3>2
  <2> QED
    BY <2>1
<1>3. N = Nat
  <2>1. N \in SUBSET Nat
    OBVIOUS
  <2> HIDE DEF N
  <2> QED
    BY <1>1, <1>2, <2>1, NatSet
<1>4. Cardinality(D) \in Nat /\ UpTo(D, Cardinality(D)) = SUBSET D
  BY FS_Subset, FS_CardinalityType DEF UpTo
<1> QED
  BY <1>3, <1>4

\* Some function gives the sum over each subset.
LEMMA PartialSums ==
  ASSUME NEW f, IsFiniteSet(DOMAIN f), \A x \in DOMAIN f : f[x] \in Int, NEW n \in Nat
  PROVE  \E g : SumsTo(f, g, UpTo(DOMAIN f, n))
<1> DEFINE D == DOMAIN f
           T == {m \in Nat : \E g : SumsTo(f, g, UpTo(D, m))}
<1>1. 0 \in T
  <2> DEFINE g == [s \in UpTo(D, 0) |-> 0]
  <2>1. \A s \in UpTo(D, 0) : s = {}
    <3> SUFFICES ASSUME NEW s \in SUBSET D, Cardinality(s) <= 0 PROVE s = {}
      BY DEF UpTo
    <3>1. IsFiniteSet(s)
      BY FS_Subset
    <3>2. Cardinality(s) \in Nat
      BY <3>1, FS_CardinalityType
    <3>3. Cardinality(s) = 0
      BY <3>2
    <3> QED
      BY <3>1, <3>3, FS_EmptySet
  <2>2. SumsTo(f, g, UpTo(D, 0))
    BY <2>1 DEF SumsTo
  <2> QED
    BY <2>2
<1>2. ASSUME NEW m \in T PROVE m + 1 \in T
  <2>1. PICK g : SumsTo(f, g, UpTo(D, m))
    OBVIOUS
  <2> DEFINE h == [s \in UpTo(D, m + 1) |->
                     IF s = {} THEN 0 ELSE f[Chosen(s)] + g[s \ {Chosen(s)}]]
  <2>2. ASSUME NEW s \in UpTo(D, m) PROVE s \in UpTo(D, m + 1) /\ h[s] = g[s]
    <3>1. IsFiniteSet(s) /\ Cardinality(s) \in Nat
      BY FS_Subset, FS_CardinalityType DEF UpTo
    <3>2. s \in UpTo(D, m + 1)
      BY <3>1 DEF UpTo
    <3> QED
      BY <2>1, <3>2 DEF SumsTo
  <2>3. ASSUME NEW s \in UpTo(D, m + 1), s # {}
        PROVE  s \ {Chosen(s)} \in UpTo(D, m)
    BY <2>3, ChosenIn, Smaller DEF UpTo
  <2> HIDE DEF T
  <2>4. ASSUME NEW s \in UpTo(D, m + 1)
        PROVE  h[s] = IF s = {} THEN 0 ELSE f[Chosen(s)] + h[s \ {Chosen(s)}]
    <3>1. h[s] = IF s = {} THEN 0 ELSE f[Chosen(s)] + g[s \ {Chosen(s)}]
      OBVIOUS
    <3> HIDE DEF h
    <3> QED
      BY <2>2, <2>3, <3>1
  <2>5. SumsTo(f, h, UpTo(D, m + 1))
    BY <2>4 DEF SumsTo
  <2> HIDE DEF h
  <2> QED
    BY <2>5 DEF T
<1> HIDE DEF T
<1>3. T = Nat
  <2>1. T \in SUBSET Nat
    BY DEF T
  <2> QED
    BY <1>1, <1>2, <2>1, NatSet
<1> QED
  BY <1>3 DEF T

\* A finite sum is what its defining equation says.
LEMMA SumUnfolds ==
  ASSUME NEW f, IsFiniteSet(DOMAIN f), \A x \in DOMAIN f : f[x] \in Int
  PROVE  \E g : SumsTo(f, g, SUBSET DOMAIN f) /\ SumFunction(f) = g[DOMAIN f]
<1> DEFINE D == DOMAIN f
           G(g) == [s \in SUBSET D |-> IF s = {} THEN 0 ELSE f[Chosen(s)] + g[s \ {Chosen(s)}]]
<1>1. PICK g : SumsTo(f, g, SUBSET D)
  <2>1. Cardinality(D) \in Nat /\ UpTo(D, Cardinality(D)) = SUBSET D
    BY FS_Subset, FS_CardinalityType DEF UpTo
  <2>2. \E g : SumsTo(f, g, UpTo(D, Cardinality(D)))
    BY <2>1, PartialSums
  <2> QED
    BY <2>1, <2>2
<1> DEFINE h == [s \in SUBSET D |-> g[s]]
<1>2. h = G(h)
  <2>1. ASSUME NEW s \in SUBSET D PROVE h[s] = G(h)[s]
    <3>1. s \ {Chosen(s)} \in SUBSET D
      OBVIOUS
    <3> QED
      BY <1>1, <3>1 DEF SumsTo
  <2> QED
    BY <2>1
<1>3. SumFunction(f) = (CHOOSE i : i = G(i))[D]
  BY DEF Chosen, SumFunction, SumFunctionOnSet, FoldFunctionOnSet, MapThenFoldSet
<1> DEFINE i == CHOOSE j : j = G(j)
<1>4. i = G(i)
  BY <1>2
<1> HIDE DEF i
<1>5. SumsTo(f, i, SUBSET D)
  BY <1>4 DEF SumsTo
<1>6. SumFunction(f) = i[D]
  BY <1>3 DEF i
<1> QED
  BY <1>5, <1>6

\* Any element may be taken first.
LEMMA SumTakes ==
  ASSUME NEW f, NEW D, IsFiniteSet(D), \A x \in D : f[x] \in Int,
         NEW g, SumsTo(f, g, SUBSET D)
  PROVE  \A s \in SUBSET D : g[s] \in Int /\ \A x \in s : g[s] = f[x] + g[s \ {x}]
<1> DEFINE T == {s \in SUBSET D : g[s] \in Int}
           U == {s \in SUBSET D : \A x \in s : g[s] = f[x] + g[s \ {x}]}
<1>1. ASSUME NEW s \in SUBSET D, s # {}
      PROVE  Chosen(s) \in s /\ g[s] = f[Chosen(s)] + g[s \ {Chosen(s)}]
  BY <1>1, ChosenIn DEF SumsTo
<1>2. T = SUBSET D
  <2>1. {} \in T
    <3>1. g[{}] = 0
      BY DEF SumsTo
    <3> QED
      BY <3>1
  <2>2. ASSUME NEW s \in SUBSET D, s # {}, \A x \in s : s \ {x} \in T PROVE s \in T
    <3>1. PICK c \in s : g[s] = f[c] + g[s \ {c}]
      BY <1>1, <2>2
    <3>2. g[s \ {c}] \in Int /\ f[c] \in Int
      BY <2>2
    <3> QED
      BY <3>1, <3>2
  <2>3. T \in SUBSET SUBSET D
    OBVIOUS
  <2> HIDE DEF T
  <2> QED
    BY <2>1, <2>2, <2>3, SubsetSet
<1>3. \A s \in SUBSET D : g[s] \in Int
  BY <1>2
<1> HIDE DEF T
<1>4. U = SUBSET D
  <2>1. {} \in U
    OBVIOUS
  <2>2. ASSUME NEW s \in SUBSET D, s # {}, \A x \in s : s \ {x} \in U PROVE s \in U
    <3>1. PICK c \in s : g[s] = f[c] + g[s \ {c}]
      BY <1>1, <2>2
    <3>2. ASSUME NEW x \in s, x # c PROVE g[s] = f[x] + g[s \ {x}]
      <4> DEFINE r == (s \ {x}) \ {c}
      <4>1. (s \ {c}) \ {x} = r /\ r \in SUBSET D
        OBVIOUS
      <4>2. g[s \ {c}] = f[x] + g[r]
        BY <2>2, <3>2, <4>1
      <4>3. g[s \ {x}] = f[c] + g[r]
        BY <2>2, <3>2
      <4>4. g[r] \in Int /\ f[x] \in Int /\ f[c] \in Int
        BY <1>3, <4>1
      <4> HIDE DEF r
      <4> QED
        BY <3>1, <4>2, <4>3, <4>4
    <3> QED
      BY <3>1, <3>2
  <2>3. U \in SUBSET SUBSET D
    OBVIOUS
  <2> HIDE DEF U
  <2> QED
    BY <2>1, <2>2, <2>3, SubsetSet
<1> QED
  BY <1>3, <1>4

PartSums(f, g, D) ==
  /\ g[{}] = 0
  /\ \A s \in SUBSET D : g[s] \in Int /\ \A x \in s : g[s] = f[x] + g[s \ {x}]

Summable(f) == IsFiniteSet(DOMAIN f) /\ \A x \in DOMAIN f : f[x] \in Int

\* The sums over the subsets of a summable function are integers.
LEMMA SumParts ==
  ASSUME NEW f, Summable(f)
  PROVE  \E g : PartSums(f, g, DOMAIN f) /\ SumFunction(f) = g[DOMAIN f]
<1>1. PICK g : SumsTo(f, g, SUBSET DOMAIN f) /\ SumFunction(f) = g[DOMAIN f]
  BY SumUnfolds DEF Summable
<1>2. g[{}] = 0
  BY <1>1 DEF SumsTo
<1>3. \A s \in SUBSET DOMAIN f : g[s] \in Int /\ \A x \in s : g[s] = f[x] + g[s \ {x}]
  BY <1>1, SumTakes DEF Summable
<1> QED
  BY <1>1, <1>2, <1>3 DEF PartSums

\* Where two functions agree, so do their sums.
LEMMA PartsAgree ==
  ASSUME NEW D, IsFiniteSet(D), NEW f, NEW F, PartSums(f, F, D),
         NEW h, NEW H, PartSums(h, H, D), \A x \in D : f[x] = h[x]
  PROVE  F[D] = H[D]
<1> DEFINE T == {s \in SUBSET D : F[s] = H[s]}
<1>1. {} \in T
  BY DEF PartSums
<1>2. ASSUME NEW s \in SUBSET D, s # {}, \A x \in s : s \ {x} \in T PROVE s \in T
  <2>1. PICK x \in s : TRUE
    BY <1>2
  <2>2. F[s] = f[x] + F[s \ {x}] /\ H[s] = h[x] + H[s \ {x}]
    BY DEF PartSums
  <2>3. F[s \ {x}] = H[s \ {x}] /\ f[x] = h[x]
    BY <1>2
  <2> QED
    BY <2>2, <2>3
<1>3. T \in SUBSET SUBSET D
  OBVIOUS
<1>4. T = SUBSET D
  <2> HIDE DEF T
  <2> QED
    BY <1>1, <1>2, <1>3, SubsetSet
<1> QED
  BY <1>4

\* A change of one term, or one more term, changes the sum by the difference.
LEMMA SumChanges ==
  ASSUME NEW f, Summable(f), NEW h, Summable(h), NEW k,
         DOMAIN h = DOMAIN f \cup {k},
         \A x \in DOMAIN f : x # k => h[x] = f[x]
  PROVE  /\ SumFunction(f) \in Int
         /\ SumFunction(h) =
              SumFunction(f) + h[k] - (IF k \in DOMAIN f THEN f[k] ELSE 0)
<1> DEFINE D == DOMAIN f \ {k}
<1>1. PICK F : PartSums(f, F, DOMAIN f) /\ SumFunction(f) = F[DOMAIN f]
  BY SumParts
<1>2. PICK H : PartSums(h, H, DOMAIN h) /\ SumFunction(h) = H[DOMAIN h]
  BY SumParts
<1>3. PartSums(f, F, D) /\ PartSums(h, H, D)
  BY <1>1, <1>2 DEF PartSums
<1>4. IsFiniteSet(D)
  BY FS_Subset DEF Summable
<1>5. F[D] = H[D]
  BY <1>3, <1>4, PartsAgree
<1>6. H[DOMAIN h] = h[k] + H[D]
  <2>1. D = DOMAIN h \ {k} /\ k \in DOMAIN h
    OBVIOUS
  <2> HIDE DEF D
  <2> QED
    BY <1>2, <2>1 DEF PartSums
<1>7. F[D] \in Int /\ F[DOMAIN f] \in Int /\ h[k] \in Int
  BY <1>1 DEF PartSums, Summable
<1>8. CASE k \in DOMAIN f
  <2>1. F[DOMAIN f] = f[k] + F[D] /\ f[k] \in Int
    BY <1>1, <1>8 DEF PartSums, Summable
  <2> HIDE DEF D
  <2> QED
    BY <1>1, <1>2, <1>5, <1>6, <1>7, <1>8, <2>1
<1>9. CASE k \notin DOMAIN f
  <2>1. D = DOMAIN f
    BY <1>9
  <2> HIDE DEF D
  <2> QED
    BY <1>1, <1>2, <1>5, <1>6, <1>7, <1>9, <2>1
<1> QED
  BY <1>8, <1>9

\* A sum of naturals is one, and none of them exceeds it.
LEMMA SumOfNats ==
  ASSUME NEW f, IsFiniteSet(DOMAIN f), \A x \in DOMAIN f : f[x] \in Nat
  PROVE  SumFunction(f) \in Nat /\ \A k \in DOMAIN f : f[k] <= SumFunction(f)
<1>1. PICK F : PartSums(f, F, DOMAIN f) /\ SumFunction(f) = F[DOMAIN f]
  BY SumParts DEF Summable
<1> DEFINE T == {s \in SUBSET DOMAIN f : F[s] \in Nat}
<1>2. {} \in T
  BY <1>1 DEF PartSums
<1>3. ASSUME NEW s \in SUBSET DOMAIN f, s # {}, \A x \in s : s \ {x} \in T PROVE s \in T
  <2>1. PICK x \in s : TRUE
    BY <1>3
  <2>2. F[s] = f[x] + F[s \ {x}] /\ f[x] \in Nat /\ F[s \ {x}] \in Nat
    BY <1>1, <1>3 DEF PartSums
  <2> QED
    BY <2>2
<1>4. T \in SUBSET SUBSET DOMAIN f
  OBVIOUS
<1>5. T = SUBSET DOMAIN f
  <2> HIDE DEF T
  <2> QED
    BY <1>2, <1>3, <1>4, SubsetSet
<1>6. ASSUME NEW k \in DOMAIN f PROVE f[k] <= F[DOMAIN f]
  <2>1. F[DOMAIN f] = f[k] + F[DOMAIN f \ {k}]
    BY <1>1 DEF PartSums
  <2>2. F[DOMAIN f \ {k}] \in Nat /\ f[k] \in Nat
    BY <1>5
  <2> QED
    BY <2>1, <2>2
<1>7. F[DOMAIN f] \in Nat
  BY <1>5
<1> QED
  BY <1>1, <1>6, <1>7

\* A sum of zeros, or of nothing, is 0.
LEMMA SumOfZeros ==
  ASSUME NEW f, IsFiniteSet(DOMAIN f), \A x \in DOMAIN f : f[x] = 0
  PROVE  SumFunction(f) = 0
<1>1. PICK F : PartSums(f, F, DOMAIN f) /\ SumFunction(f) = F[DOMAIN f]
  BY SumParts DEF Summable
<1> DEFINE T == {s \in SUBSET DOMAIN f : F[s] = 0}
<1>2. {} \in T
  BY <1>1 DEF PartSums
<1>3. ASSUME NEW s \in SUBSET DOMAIN f, s # {}, \A x \in s : s \ {x} \in T PROVE s \in T
  <2>1. PICK x \in s : TRUE
    BY <1>3
  <2>2. F[s] = f[x] + F[s \ {x}] /\ f[x] = 0 /\ F[s \ {x}] = 0
    BY <1>1, <1>3 DEF PartSums
  <2> QED
    BY <2>2
<1>4. T \in SUBSET SUBSET DOMAIN f
  OBVIOUS
<1>5. T = SUBSET DOMAIN f
  <2> HIDE DEF T
  <2> QED
    BY <1>2, <1>3, <1>4, SubsetSet
<1> QED
  BY <1>1, <1>5

-----------------------------------------------------------------------------
(* Counters that wrap.                                                     *)

\* A number is a multiple of the range and what a counter shows of it.
LEMMA ModParts ==
  ASSUME NEW c \in Nat \ {0}, NEW x \in Int
  PROVE  /\ x = (x \div c) * c + (x % c)
         /\ x \div c \in Int
         /\ x % c \in 0 .. c - 1
  OBVIOUS

\* Only one remainder is in the range.
LEMMA ModUnique ==
  ASSUME NEW c \in Nat \ {0}, NEW q \in Int, NEW r \in 0 .. c - 1
  PROVE  (q * c + r) % c = r
  OBVIOUS

\* A counter counts on where it wraps.
LEMMA ModInc ==
  ASSUME NEW c \in Nat \ {0}, NEW x \in Int
  PROVE  ((x % c) + 1) % c = (x + 1) % c
<1> DEFINE q == x \div c
           r == x % c
<1>1. x = q * c + r /\ q \in Int /\ r \in 0 .. c - 1
  BY ModParts
<1> HIDE DEF q, r
<1>2. CASE r < c - 1
  <2>1. x + 1 = q * c + (r + 1) /\ r + 1 \in 0 .. c - 1
    BY <1>1, <1>2
  <2>2. (x + 1) % c = r + 1
    BY <1>1, <2>1, ModUnique
  <2>3. 0 * c + (r + 1) = r + 1
    BY <1>1
  <2>4. (r + 1) % c = r + 1
    BY <2>1, <2>3, ModUnique
  <2> QED
    BY <2>2, <2>4 DEF r
<1>3. CASE r = c - 1
  <2>1. x + 1 = (q + 1) * c + 0 /\ 0 \in 0 .. c - 1 /\ q + 1 \in Int
    BY <1>1, <1>3
  <2>2. (x + 1) % c = 0
    BY <2>1, ModUnique
  <2>3. r + 1 = 1 * c + 0
    BY <1>1, <1>3
  <2>4. (r + 1) % c = 0
    BY <2>1, <2>3, ModUnique
  <2> QED
    BY <2>2, <2>4 DEF r
<1> QED
  BY <1>1, <1>2, <1>3

\* A wider counter whose range is a multiple of c shows the same modulo c.
LEMMA ModMod ==
  ASSUME NEW c \in Nat \ {0}, NEW d \in Nat \ {0}, d % c = 0, NEW x \in Int
  PROVE  (x % d) % c = x % c
<1> DEFINE k == d \div c
           q == x \div d
           r == x % d
           s == r \div c
           t == r % c
<1>1. d = k * c + 0 /\ k \in Int
  BY ModParts
<1>2. x = q * d + r /\ q \in Int /\ r \in Int
  BY ModParts
<1>3. r = s * c + t /\ s \in Int /\ t \in 0 .. c - 1
  BY <1>2, ModParts
<1> HIDE DEF k, q, r, s, t
<1>4. q * (k * c) = (q * k) * c /\ q * k \in Int
  BY <1>1, <1>2
<1>5. x = (q * k) * c + (s * c + t)
  BY <1>1, <1>2, <1>3, <1>4
<1>6. (q * k) * c + (s * c + t) = (q * k + s) * c + t /\ q * k + s \in Int
  BY <1>3, <1>4
<1>7. ((q * k + s) * c + t) % c = t
  BY <1>3, <1>6, ModUnique
<1> QED
  BY <1>5, <1>6, <1>7 DEF r, t

\* A wider counter counts on alike.
LEMMA ModIncWide ==
  ASSUME NEW c \in Nat \ {0}, NEW d \in Nat \ {0}, d % c = 0, NEW x \in Int
  PROVE  ((x + 1) % d) % c = ((x % c) + 1) % c
<1> DEFINE y == x + 1
<1>1. y \in Int
  OBVIOUS
<1> HIDE DEF y
<1>2. (y % d) % c = y % c
  BY <1>1, ModMod
<1> QED
  BY <1>2, ModInc DEF y

\* Taking a full range off shows nothing.
LEMMA ModMinus ==
  ASSUME NEW c \in Nat \ {0}, NEW x \in Int
  PROVE  (x - c) % c = x % c
<1> DEFINE q == x \div c
           r == x % c
<1>1. x = q * c + r /\ q \in Int /\ r \in 0 .. c - 1
  BY ModParts
<1> HIDE DEF q, r
<1>2. x - c = (q - 1) * c + r /\ q - 1 \in Int
  BY <1>1
<1>3. ((q - 1) * c + r) % c = r
  BY <1>1, <1>2, ModUnique
<1> QED
  BY <1>2, <1>3 DEF r

\* A sum that takes a counter's step modulo the range counts one more.
LEMMA ModSum ==
  ASSUME NEW c \in Nat \ {0}, NEW x \in Int, NEW n \in 0 .. c - 1
  PROVE  (x + ((n + 1) % c) - n) % c = ((x % c) + 1) % c
<1>1. CASE n < c - 1
  <2>1. n + 1 = 0 * c + (n + 1) /\ n + 1 \in 0 .. c - 1
    BY <1>1
  <2>2. (n + 1) % c = n + 1
    BY <2>1, ModUnique
  <2>3. x + (n + 1) - n = x + 1
    OBVIOUS
  <2> QED
    BY <2>2, <2>3, ModInc
<1>2. CASE n = c - 1
  <2>1. n + 1 = 1 * c + 0 /\ 0 \in 0 .. c - 1
    BY <1>2
  <2>2. (n + 1) % c = 0
    BY <2>1, ModUnique
  <2> DEFINE y == x + 1
  <2>3. x + 0 - n = y - c /\ y \in Int
    BY <1>2
  <2> HIDE DEF y
  <2>4. (y - c) % c = y % c
    BY <2>3, ModMinus
  <2> QED
    BY <2>2, <2>3, <2>4, ModInc DEF y
<1> QED
  BY <1>1, <1>2

-----------------------------------------------------------------------------
(* The rounds of the one-step packing, offer by offer.                     *)

\* A function given step by step exists.
Follows(g, v, step) == g[0] = v /\ \A n \in Nat : g[n + 1] = step[n][g[n]]

LEMMA StepByStep ==
  ASSUME NEW V, NEW v \in V, NEW step \in [Nat -> [V -> V]]
  PROVE  \E g \in [Nat -> V] : Follows(g, v, step)
<1> DEFINE Upto(g, n) == /\ g \in [0 .. n -> V] /\ g[0] = v
                         /\ \A m \in 0 .. n - 1 : g[m + 1] = step[m][g[m]]
           T == {n \in Nat : \E g : Upto(g, n)}
<1>1. 0 \in T
  <2>1. Upto([i \in 0 .. 0 |-> v], 0)
    OBVIOUS
  <2> QED
    BY <2>1
<1>2. ASSUME NEW n \in T PROVE n + 1 \in T
  <2>1. PICK g : Upto(g, n)
    OBVIOUS
  <2> DEFINE h == [i \in 0 .. n + 1 |-> IF i <= n THEN g[i] ELSE step[n][g[n]]]
  <2>2. n \in Nat /\ g[n] \in V
    BY <2>1
  <2>3. h \in [0 .. n + 1 -> V] /\ h[0] = v
    BY <2>1, <2>2
  <2>4. ASSUME NEW m \in 0 .. n PROVE h[m + 1] = step[m][h[m]]
    <3>1. CASE m = n
      BY <2>2, <3>1
    <3>2. CASE m < n
      <4>1. m \in 0 .. n - 1 /\ m + 1 \in 0 .. n /\ m \in 0 .. n
        BY <2>2, <3>2
      <4> QED
        BY <2>1, <2>2, <4>1
    <3> QED
      BY <2>2, <3>1, <3>2
  <2> HIDE DEF h
  <2>5. Upto(h, n + 1)
    <3>1. (n + 1) - 1 = n
      BY <2>2
    <3> QED
      BY <2>3, <2>4, <3>1
  <2> HIDE DEF Upto
  <2> QED
    BY <2>2, <2>5
<1>3. T = Nat
  <2>1. T \in SUBSET Nat
    OBVIOUS
  <2> HIDE DEF T
  <2> QED
    BY <1>1, <1>2, <2>1, NatSet
<1> DEFINE part == [n \in Nat |-> CHOOSE g : Upto(g, n)]
<1>4. \A n \in Nat : Upto(part[n], n)
  <2> HIDE DEF Upto
  <2>1. \A n \in Nat : \E g : Upto(g, n)
    BY <1>3
  <2> QED
    BY <2>1
<1> DEFINE f == [n \in Nat |-> part[n][n]]
<1> HIDE DEF part
<1>5. ASSUME NEW n \in Nat, NEW m \in 0 .. n - 1 PROVE part[n][m + 1] = step[m][part[n][m]]
  BY <1>4
<1>6. \A m \in Nat : \A n \in Nat : m <= n => part[n][m] = part[m][m]
  <2> DEFINE U == {m \in Nat : \A n \in Nat : m <= n => part[n][m] = part[m][m]}
  <2>1. 0 \in U
    BY <1>4
  <2>2. ASSUME NEW m \in U PROVE m + 1 \in U
    <3> SUFFICES ASSUME NEW n \in Nat, m + 1 <= n PROVE part[n][m + 1] = part[m + 1][m + 1]
      OBVIOUS
    <3>1. part[n][m + 1] = step[m][part[n][m]] /\ part[n][m] = part[m][m]
      BY <1>5
    <3>2. part[m + 1][m + 1] = step[m][part[m + 1][m]] /\ part[m + 1][m] = part[m][m]
      <4>1. m + 1 \in Nat /\ m \in 0 .. (m + 1) - 1 /\ m <= m + 1
        OBVIOUS
      <4> QED
        BY <1>5, <4>1
    <3> QED
      BY <3>1, <3>2
  <2>3. U \in SUBSET Nat
    OBVIOUS
  <2>4. U = Nat
    <3> HIDE DEF U
    <3> QED
      BY <2>1, <2>2, <2>3, NatSet
  <2> QED
    BY <2>4
<1>7. f \in [Nat -> V] /\ f[0] = v
  BY <1>4
<1>8. ASSUME NEW n \in Nat PROVE f[n + 1] = step[n][f[n]]
  <2>1. n + 1 \in Nat /\ n \in 0 .. (n + 1) - 1 /\ n <= n + 1
    OBVIOUS
  <2>2. part[n + 1][n + 1] = step[n][part[n + 1][n]] /\ part[n + 1][n] = part[n][n]
    BY <1>5, <1>6, <2>1
  <2> QED
    BY <2>1, <2>2
<1> QED
  BY <1>7, <1>8 DEF Follows

\* AfterOffers is what its recursion says: an offer at a time.
LEMMA OffersUnfold ==
  ASSUME NEW order \in Seq(Problems), NEW m \in Nat
  PROVE  LET rest == Packing!AfterOffers(order, m)
         IN  /\ rest \in [0 .. Len(order) -> Nat]
             /\ rest[0] = m
             /\ \A i \in DOMAIN order :
                  rest[i] = IF rest[i - 1] >= order[i].mem
                              THEN rest[i - 1] - order[i].mem ELSE rest[i - 1]
<1> DEFINE E(g, i) == IF i = 0 THEN m
                      ELSE IF g[i - 1] >= order[i].mem
                             THEN g[i - 1] - order[i].mem ELSE g[i - 1]
           G(g) == [i \in 0 .. Len(order) |-> E(g, i)]
           fits(n, l) == n < Len(order) /\ l >= order[n + 1].mem
           step == [n \in Nat |-> [l \in Nat |->
                      IF fits(n, l) THEN l - order[n + 1].mem ELSE l]]
<1>0. Len(order) \in Nat
  OBVIOUS
<1>1. Len(order) \in Nat /\ DOMAIN order = 1 .. Len(order)
      /\ \A i \in 1 .. Len(order) : order[i].mem \in Nat
  BY PrelimSchedulerAssumption
<1>2. step \in [Nat -> [Nat -> Nat]]
  <2> SUFFICES ASSUME NEW n \in Nat, NEW l \in Nat
               PROVE  (IF fits(n, l) THEN l - order[n + 1].mem ELSE l) \in Nat
    OBVIOUS
  <2> QED
    BY <1>1
<1>3. PICK g \in [Nat -> Nat] : g[0] = m /\ \A n \in Nat : g[n + 1] = step[n][g[n]]
  <2>1. \E g \in [Nat -> Nat] : Follows(g, m, step)
    <3> HIDE DEF step
    <3> QED
      BY <1>2, StepByStep, Zenon
  <2> HIDE DEF step
  <2> QED
    BY <2>1 DEF Follows
<1> DEFINE h == [i \in 0 .. Len(order) |-> g[i]]
<1>4. ASSUME NEW i \in 1 .. Len(order)
      PROVE  g[i] = IF g[i - 1] >= order[i].mem THEN g[i - 1] - order[i].mem ELSE g[i - 1]
  <2>0. i - 1 \in Nat /\ (i - 1) + 1 = i /\ i - 1 < Len(order)
    BY <1>0
  <2>1. i - 1 \in Nat /\ (i - 1) + 1 = i /\ i - 1 < Len(order) /\ g[i - 1] \in Nat
    BY <1>3, <2>0
  <2> DEFINE n == i - 1
  <2>2. g[n + 1] = step[n][g[n]]
    <3> HIDE DEF n, step
    <3> QED
      BY <1>3, <2>1 DEF n
  <2>3. step[n][g[n]] = IF fits(n, g[n]) THEN g[n] - order[n + 1].mem ELSE g[n]
    <3> HIDE DEF n, fits
    <3> QED
      BY <2>1 DEF n
  <2>4. fits(n, g[n]) <=> g[n] >= order[i].mem
    <3> HIDE DEF step
    <3> QED
      BY <2>1
  <2>5. n + 1 = i /\ n = i - 1
    BY <2>1
  <2> HIDE DEF step, fits, n
  <2> QED
    BY <2>2, <2>3, <2>4, <2>5
<1>5. h = G(h)
  <2> SUFFICES ASSUME NEW i \in 0 .. Len(order) PROVE h[i] = E(h, i)
    OBVIOUS
  <2>1. CASE i = 0
    BY <1>1, <1>3, <2>1
  <2>2. CASE i # 0
    <3>1. i \in 1 .. Len(order) /\ i - 1 \in 0 .. Len(order)
      <4>1. Len(order) \in Nat
        OBVIOUS
      <4> QED
        BY <2>2, <4>1
    <3>2. h[i] = g[i] /\ h[i - 1] = g[i - 1]
      BY <3>1
    <3>3. h[i] = IF h[i - 1] >= order[i].mem THEN h[i - 1] - order[i].mem ELSE h[i - 1]
      <4> HIDE DEF h
      <4> QED
        BY <1>4, <3>1, <3>2
    <3> HIDE DEF h
    <3> QED
      BY <2>2, <3>3
  <2> QED
    BY <2>1, <2>2
<1> DEFINE rest == CHOOSE f : f = G(f)
<1>6. Packing!AfterOffers(order, m) = rest
  BY DEF Packing!AfterOffers
<1> HIDE DEF h
<1>7. rest = G(rest)
  BY <1>5
<1> HIDE DEF rest
<1>8. /\ DOMAIN rest = 0 .. Len(order)
      /\ rest[0] = m
      /\ \A i \in 1 .. Len(order) :
           rest[i] = IF rest[i - 1] >= order[i].mem
                       THEN rest[i - 1] - order[i].mem ELSE rest[i - 1]
  <2>1. DOMAIN rest = 0 .. Len(order) /\ \A i \in 0 .. Len(order) : rest[i] = E(rest, i)
    BY <1>7, Zenon
  <2>2. 0 \in 0 .. Len(order) /\ \A i \in 1 .. Len(order) : i \in 0 .. Len(order) /\ i # 0
    BY <1>0
  <2> QED
    BY <2>1, <2>2, Zenon
<1>9. \A n \in Nat : n <= Len(order) => rest[n] \in Nat
  <2> DEFINE T == {n \in Nat : n <= Len(order) => rest[n] \in Nat}
  <2>1. 0 \in T
    BY <1>8
  <2>2. ASSUME NEW n \in T PROVE n + 1 \in T
    <3> SUFFICES ASSUME n + 1 <= Len(order) PROVE rest[n + 1] \in Nat
      OBVIOUS
    <3> DEFINE i == n + 1
    <3>0. n \in Nat /\ n <= Len(order)
      BY <1>0
    <3>1. i \in 1 .. Len(order) /\ i - 1 = n /\ rest[n] \in Nat
      <4>1. i \in 1 .. Len(order) /\ i - 1 = n
        BY <1>0, <3>0
      <4>2. rest[n] \in Nat
        BY <3>0
      <4> QED
        BY <4>1, <4>2
    <3> HIDE DEF i
    <3>2. rest[i] = IF rest[n] >= order[i].mem THEN rest[n] - order[i].mem ELSE rest[n]
      BY <1>8, <3>1
    <3>3. order[i].mem \in Nat
      BY <1>1, <3>1
    <3>4. rest[n] >= order[i].mem => rest[n] - order[i].mem \in Nat
      <4>1. \A a, b \in Nat : a >= b => a - b \in Nat
        OBVIOUS
      <4> QED
        BY <3>1, <3>3, <4>1, Zenon
    <3>5. rest[i] \in Nat
      <4>1. CASE rest[n] >= order[i].mem
        <5>1. rest[i] = rest[n] - order[i].mem
          BY <3>2, <4>1
        <5> QED
          BY <3>4, <4>1, <5>1
      <4>2. CASE ~(rest[n] >= order[i].mem)
        <5>1. rest[i] = rest[n]
          BY <3>2, <4>2
        <5> QED
          BY <3>1, <5>1
      <4> QED
        BY <4>1, <4>2
    <3> QED
      BY <3>5 DEF i
  <2>3. T \in SUBSET Nat
    OBVIOUS
  <2>4. T = Nat
    <3> HIDE DEF T
    <3> QED
      BY <2>1, <2>2, <2>3, NatSet
  <2> QED
    BY <2>4
<1>10. rest \in [0 .. Len(order) -> Nat]
  <2>1. \A i \in 0 .. Len(order) : rest[i] \in Nat
    BY <1>1, <1>9
  <2>2. rest = [i \in 0 .. Len(order) |-> rest[i]]
    BY <1>7
  <2> QED
    BY <2>1, <2>2
<1> QED
  BY <1>1, <1>6, <1>8, <1>10

\* AfterRounds, a round at a time.
LEMMA RoundsUnfold ==
  ASSUME NEW order \in Seq(Problems), NEW mem \in Nat
  PROVE  LET rest == Packing!AfterRounds(order, mem)
         IN  /\ rest \in [Nat -> Nat]
             /\ rest[0] = mem
             /\ \A r \in Nat :
                  rest[r + 1] = Packing!AfterOffers(order, rest[r])[Len(order)]
<1> DEFINE G(g) == [r \in Nat |-> IF r = 0 THEN mem
                                  ELSE Packing!AfterOffers(order, g[r - 1])[Len(order)]]
           step == [n \in Nat |-> [l \in Nat |-> Packing!AfterOffers(order, l)[Len(order)]]]
<1>1. \A l \in Nat : Packing!AfterOffers(order, l)[Len(order)] \in Nat
  <2>1. Len(order) \in 0 .. Len(order)
    OBVIOUS
  <2> QED
    BY <2>1, OffersUnfold
<1>2. step \in [Nat -> [Nat -> Nat]]
  BY <1>1
<1>3. PICK g \in [Nat -> Nat] : g[0] = mem /\ \A n \in Nat : g[n + 1] = step[n][g[n]]
  <2>1. \E g \in [Nat -> Nat] : Follows(g, mem, step)
    <3> HIDE DEF step
    <3> QED
      BY <1>2, StepByStep, Zenon
  <2> HIDE DEF step
  <2> QED
    BY <2>1 DEF Follows
<1>4. \A n \in Nat : g[n + 1] = Packing!AfterOffers(order, g[n])[Len(order)]
  BY <1>3
<1>5. g = G(g)
  <2>1. ASSUME NEW r \in Nat PROVE g[r] = G(g)[r]
    <3>1. CASE r = 0
      BY <1>3, <3>1
    <3>2. CASE r # 0
      <4>1. r - 1 \in Nat /\ (r - 1) + 1 = r
        BY <3>2
      <4> QED
        BY <1>4, <3>2, <4>1
    <3> QED
      BY <3>1, <3>2
  <2> QED
    BY <2>1
<1> DEFINE rest == CHOOSE f : f = G(f)
<1>6. Packing!AfterRounds(order, mem) = rest
  BY DEF Packing!AfterRounds
<1>7. rest = G(rest)
  BY <1>5
<1> HIDE DEF rest
<1>8. rest[0] = mem /\ \A r \in Nat : rest[r + 1] = Packing!AfterOffers(order, rest[r])[Len(order)]
  <2>1. \A r \in Nat : rest[r] = IF r = 0 THEN mem
                                 ELSE Packing!AfterOffers(order, rest[r - 1])[Len(order)]
    BY <1>7, Zenon
  <2>2. \A r \in Nat : r + 1 \in Nat /\ r + 1 # 0 /\ (r + 1) - 1 = r
    OBVIOUS
  <2> QED
    BY <2>1, <2>2
<1>9. \A r \in Nat : rest[r] \in Nat
  <2> DEFINE T == {r \in Nat : rest[r] \in Nat}
  <2>1. 0 \in T
    BY <1>8
  <2>2. ASSUME NEW n \in T PROVE n + 1 \in T
    <3>1. n \in Nat /\ n + 1 \in Nat /\ rest[n] \in Nat
      OBVIOUS
    <3>2. rest[n + 1] \in Nat
      BY <1>1, <1>8, <3>1
    <3> QED
      BY <3>1, <3>2
  <2>3. T \in SUBSET Nat
    OBVIOUS
  <2>4. T = Nat
    <3> HIDE DEF T
    <3> QED
      BY <2>1, <2>2, <2>3, NatSet
  <2> QED
    BY <2>4
<1>10. rest \in [Nat -> Nat]
  <2>1. rest = [r \in Nat |-> rest[r]]
    BY <1>7
  <2> QED
    BY <1>9, <2>1
<1> QED
  BY <1>6, <1>8, <1>10

\* No offer of m is taken up, or only by problems that take no memory.
Still(order, m) == \A j \in DOMAIN order : order[j].mem > m \/ order[j].mem = 0

\* There is no memory, or too little for any problem.
Full(order, m) == m = 0 \/ \A j \in DOMAIN order : order[j].mem > m

\* Offers only ever take memory.
LEMMA OffersFall ==
  ASSUME NEW order \in Seq(Problems), NEW m \in Nat
  PROVE  LET rest == Packing!AfterOffers(order, m)
         IN  \A n \in 0 .. Len(order) : \A i \in 0 .. n : rest[n] <= rest[i]
<1> DEFINE rest == Packing!AfterOffers(order, m)
           L == Len(order)
           T == {n \in Nat : n <= L => \A i \in 0 .. n : rest[n] <= rest[i]}
<1>1. L \in Nat /\ DOMAIN order = 1 .. L /\ \A i \in 1 .. L : order[i].mem \in Nat
  <2>1. L \in Nat /\ DOMAIN order = 1 .. L
    OBVIOUS
  <2>2. \A i \in DOMAIN order : order[i].mem \in Nat
    BY PrelimSchedulerAssumption
  <2> QED
    BY <2>1, <2>2
<1>2. /\ \A i \in 0 .. L : rest[i] \in Nat
      /\ \A i \in 1 .. L : rest[i] = IF rest[i - 1] >= order[i].mem
                                       THEN rest[i - 1] - order[i].mem ELSE rest[i - 1]
  <2>1. rest \in [0 .. L -> Nat]
    BY OffersUnfold
  <2>2. \A i \in DOMAIN order : rest[i] = IF rest[i - 1] >= order[i].mem
                                             THEN rest[i - 1] - order[i].mem ELSE rest[i - 1]
    BY OffersUnfold
  <2> HIDE DEF rest
  <2> QED
    BY <1>1, <2>1, <2>2
<1> HIDE DEF rest, L
<1>3. 0 \in T
  BY <1>1, <1>2
<1>4. ASSUME NEW n \in T PROVE n + 1 \in T
  <2> SUFFICES ASSUME n + 1 <= L, NEW i \in 0 .. n + 1 PROVE rest[n + 1] <= rest[i]
    OBVIOUS
  <2> DEFINE k == n + 1
  <2>1. k \in 1 .. L /\ k \in 0 .. L /\ k - 1 = n /\ n \in 0 .. L
    BY <1>1
  <2>2. rest[n] \in Nat /\ rest[k] \in Nat /\ order[k].mem \in Nat
    BY <1>1, <1>2, <2>1
  <2>3. rest[k] = IF rest[n] >= order[k].mem THEN rest[n] - order[k].mem ELSE rest[n]
    BY <1>2, <2>1
  <2>4. rest[k] <= rest[n]
    BY <2>2, <2>3
  <2>5. i = k \/ (i \in 0 .. n /\ rest[n] <= rest[i] /\ rest[i] \in Nat)
    BY <1>1, <1>2
  <2> HIDE DEF k
  <2>6. rest[k] <= rest[i]
    BY <2>2, <2>4, <2>5
  <2> QED
    BY <2>6 DEF k
<1>5. T = Nat
  <2>1. T \in SUBSET Nat
    OBVIOUS
  <2> HIDE DEF T
  <2> QED
    BY <1>3, <1>4, <2>1, NatSet
<1>6. \A n \in 0 .. L : \A i \in 0 .. n : rest[n] <= rest[i]
  BY <1>1, <1>5
<1> QED
  BY <1>6 DEF rest, L

\* A round takes memory unless no offer does, and then changes nothing.
LEMMA RoundTakes ==
  ASSUME NEW order \in Seq(Problems), NEW m \in Nat
  PROVE  LET rest == Packing!AfterOffers(order, m)
         IN  /\ rest[Len(order)] \in Nat
             /\ Still(order, m) => \A i \in 0 .. Len(order) : rest[i] = m
             /\ ~Still(order, m) => rest[Len(order)] < m
<1> DEFINE rest == Packing!AfterOffers(order, m)
           L == Len(order)
           T == {n \in Nat : n <= L => rest[n] = m}
<1>1. L \in Nat /\ DOMAIN order = 1 .. L /\ \A i \in 1 .. L : order[i].mem \in Nat
  <2>1. L \in Nat /\ DOMAIN order = 1 .. L
    OBVIOUS
  <2>2. \A i \in DOMAIN order : order[i].mem \in Nat
    BY PrelimSchedulerAssumption
  <2> QED
    BY <2>1, <2>2
<1>2. /\ rest[0] = m
      /\ \A i \in 0 .. L : rest[i] \in Nat
      /\ \A i \in 1 .. L : rest[i] = IF rest[i - 1] >= order[i].mem
                                       THEN rest[i - 1] - order[i].mem ELSE rest[i - 1]
  <2>1. rest \in [0 .. L -> Nat] /\ rest[0] = m
    BY OffersUnfold
  <2>2. \A i \in DOMAIN order : rest[i] = IF rest[i - 1] >= order[i].mem
                                             THEN rest[i - 1] - order[i].mem ELSE rest[i - 1]
    BY OffersUnfold
  <2> HIDE DEF rest
  <2> QED
    BY <1>1, <2>1, <2>2
<1>3. \A n \in 0 .. L : \A i \in 0 .. n : rest[n] <= rest[i]
  BY OffersFall
<1> HIDE DEF rest, L
<1>4. rest[L] \in Nat /\ L \in 0 .. L
  BY <1>1, <1>2
<1>5. ASSUME Still(order, m) PROVE \A i \in 0 .. L : rest[i] = m
  <2>1. 0 \in T
    BY <1>2
  <2>2. ASSUME NEW n \in T PROVE n + 1 \in T
    <3> SUFFICES ASSUME n + 1 <= L PROVE rest[n + 1] = m
      OBVIOUS
    <3> DEFINE k == n + 1
    <3>1. k \in 1 .. L /\ k - 1 = n /\ n \in 0 .. L /\ rest[n] = m
      BY <1>1
    <3>2. order[k].mem \in Nat /\ (order[k].mem > m \/ order[k].mem = 0)
      BY <1>1, <1>5, <3>1 DEF Still
    <3>3. rest[k] = IF m >= order[k].mem THEN m - order[k].mem ELSE m
      BY <1>2, <3>1
    <3>4. rest[k] = m
      BY <3>2, <3>3
    <3> QED
      BY <3>4
  <2>3. T \in SUBSET Nat
    OBVIOUS
  <2>4. T = Nat
    <3> HIDE DEF T
    <3> QED
      BY <2>1, <2>2, <2>3, NatSet
  <2> QED
    BY <1>1, <2>4
<1>6. ASSUME ~Still(order, m) PROVE rest[L] < m
  <2>1. PICK j \in 1 .. L : ~(order[j].mem > m) /\ order[j].mem # 0
    BY <1>1, <1>6 DEF Still
  <2>2. order[j].mem \in Nat /\ j \in 0 .. L /\ j - 1 \in 0 .. L /\ j \in 0 .. L
    BY <1>1, <2>1
  <2>3. rest[j] \in Nat /\ rest[j - 1] \in Nat
    BY <1>2, <2>2
  <2>4. rest[j] = IF rest[j - 1] >= order[j].mem THEN rest[j - 1] - order[j].mem ELSE rest[j - 1]
    BY <1>2, <2>1
  <2>5. rest[j - 1] <= m /\ rest[L] <= rest[j]
    <3>1. 0 \in 0 .. j - 1 /\ j \in 0 .. L
      BY <1>1, <2>1
    <3> QED
      BY <1>2, <1>3, <1>4, <2>2, <3>1
  <2>6. rest[j] < m
    <3> DEFINE need == order[j].mem
               before == rest[j - 1]
               after == rest[j]
    <3>1. need \in Nat /\ before \in Nat /\ after \in Nat
      BY <2>2, <2>3
    <3>2. need <= m /\ need # 0 /\ before <= m
      BY <2>1, <2>5, <3>1
    <3>3. after = IF before >= need THEN before - need ELSE before
      BY <2>4
    <3> HIDE DEF need, before, after
    <3>4. after < m
      BY <3>1, <3>2, <3>3
    <3> QED
      BY <3>4 DEF after
  <2> QED
    BY <1>4, <2>3, <2>5, <2>6
<1> QED
  BY <1>4, <1>5, <1>6 DEF rest, L

\* A worker that no offer changes stays as it is.
LEMMA StillForEver ==
  ASSUME NEW order \in Seq(Problems), NEW mem \in Nat, NEW r \in Nat,
         Still(order, Packing!AfterRounds(order, mem)[r])
  PROVE  \A q \in Nat : q >= r =>
           Packing!AfterRounds(order, mem)[q] = Packing!AfterRounds(order, mem)[r]
<1> DEFINE rest == Packing!AfterRounds(order, mem)
           T == {k \in Nat : rest[r + k] = rest[r]}
<1>1. rest[r] \in Nat /\ \A q \in Nat : rest[q + 1] = Packing!AfterOffers(order, rest[q])[Len(order)]
  BY RoundsUnfold
<1> HIDE DEF rest
<1>2. 0 \in T
  OBVIOUS
<1>3. ASSUME NEW k \in T PROVE k + 1 \in T
  <2> DEFINE q == r + k
  <2>1. q \in Nat /\ rest[q] = rest[r] /\ k + 1 \in Nat /\ r + (k + 1) = q + 1
    OBVIOUS
  <2> HIDE DEF q
  <2>2. rest[q + 1] = Packing!AfterOffers(order, rest[r])[Len(order)]
    BY <1>1, <2>1
  <2>3. Len(order) \in 0 .. Len(order)
    OBVIOUS
  <2>4. Packing!AfterOffers(order, rest[r])[Len(order)] = rest[r]
    BY <1>1, <2>3, RoundTakes DEF rest
  <2> QED
    BY <2>1, <2>2, <2>4
<1>4. T = Nat
  <2>1. T \in SUBSET Nat
    OBVIOUS
  <2> HIDE DEF T
  <2> QED
    BY <1>2, <1>3, <2>1, NatSet
<1>5. ASSUME NEW q \in Nat, q >= r PROVE rest[q] = rest[r]
  <2>1. q - r \in T
    <3>1. q - r \in Nat
      BY <1>5
    <3> HIDE DEF T
    <3> QED
      BY <1>4, <3>1
  <2>2. r + (q - r) = q
    OBVIOUS
  <2> QED
    BY <2>1, <2>2
<1> QED
  BY <1>5 DEF rest

\* As many rounds as the worker has memory leave nothing to offer it.
LEMMA RoundsEnd ==
  ASSUME NEW order \in Seq(Problems), NEW mem \in Nat
  PROVE  Still(order, Packing!AfterRounds(order, mem)[mem])
<1> DEFINE rest == Packing!AfterRounds(order, mem)
           T == {r \in Nat : rest[r] + r <= mem \/ Still(order, rest[r])}
<1>1. /\ rest[0] = mem
      /\ \A r \in Nat : rest[r] \in Nat
      /\ \A r \in Nat : rest[r + 1] = Packing!AfterOffers(order, rest[r])[Len(order)]
  BY RoundsUnfold
<1> HIDE DEF rest
<1>2. 0 \in T
  BY <1>1
<1>3. ASSUME NEW r \in T PROVE r + 1 \in T
  <2>1. r \in Nat /\ r + 1 \in Nat
    OBVIOUS
  <2>4. rest[r] \in Nat /\ rest[r + 1] \in Nat
    BY <1>1, <2>1
  <2>2. CASE Still(order, rest[r])
    <3>1. Len(order) \in 0 .. Len(order)
      OBVIOUS
    <3>2. rest[r + 1] = rest[r]
      BY <1>1, <2>1, <2>2, <2>4, <3>1, RoundTakes
    <3> QED
      BY <2>1, <2>2, <3>2
  <2>3. CASE ~Still(order, rest[r])
    <3>1. rest[r] + r <= mem
      BY <2>3
    <3>2. rest[r + 1] < rest[r]
      BY <1>1, <2>1, <2>3, <2>4, RoundTakes
    <3>3. rest[r + 1] + (r + 1) <= mem
      BY <2>1, <2>4, <3>1, <3>2
    <3> QED
      BY <2>1, <3>3
  <2> QED
    BY <2>2, <2>3
<1>4. T = Nat
  <2>1. T \in SUBSET Nat
    OBVIOUS
  <2> HIDE DEF T
  <2> QED
    BY <1>2, <1>3, <2>1, NatSet
<1>5. rest[mem] + mem <= mem \/ Still(order, rest[mem])
  BY <1>4
<1>6. CASE rest[mem] + mem <= mem
  <2>1. rest[mem] = 0
    <3>1. rest[mem] \in Nat
      BY <1>1
    <3>2. \A n \in Nat : n + mem <= mem => n = 0
      OBVIOUS
    <3> QED
      BY <1>6, <3>1, <3>2, Zenon
  <2>2. \A j \in DOMAIN order : order[j].mem > 0 \/ order[j].mem = 0
    BY PrelimSchedulerAssumption
  <2> QED
    BY <2>1, <2>2 DEF Still, rest
<1> QED
  BY <1>5, <1>6 DEF rest

\* What the rounds up to r place of one ID.
PlacedBy(order, mem, r, id) ==
  {x \in (1 .. r) \X DOMAIN order :
     order[x[2]].id = id /\ Packing!Places(order, mem, x[1], x[2])}

\* Once a worker is full no later round places anything.
LEMMA FullPlacesNothing ==
  ASSUME NEW order \in Seq(Problems), NEW mem \in Nat, NEW r \in Nat,
         Full(order, Packing!AfterRounds(order, mem)[r]),
         NEW q \in Nat, q > r, NEW i \in DOMAIN order
  PROVE  ~Packing!Places(order, mem, q, i)
<1> DEFINE m == Packing!AfterRounds(order, mem)[r]
<1>1. m \in Nat
  BY RoundsUnfold
<1>2. Full(order, m)
  OBVIOUS
<1>3. Still(order, m)
  BY <1>1, <1>2, PrelimSchedulerAssumption DEF Full, Still
<1>4. q - 1 \in Nat /\ q - 1 >= r
  OBVIOUS
<1>5. Packing!AfterRounds(order, mem)[q - 1] = m
  BY <1>3, <1>4, StillForEver
<1>6. i - 1 \in 0 .. Len(order)
  OBVIOUS
<1> HIDE DEF m
<1>7. Packing!AfterOffers(order, m)[i - 1] = m
  BY <1>1, <1>3, <1>6, RoundTakes
<1>8. m > 0 => ~(m >= order[i].mem)
  BY <1>1, <1>2, PrelimSchedulerAssumption DEF Full
<1> QED
  BY <1>5, <1>7, <1>8 DEF Packing!Places

\* Any number of rounds that leaves the worker full places what mem of them do.
LEMMA RoundsSuffice ==
  ASSUME NEW order \in Seq(Problems), NEW mem \in Nat, NEW r \in Nat, NEW id,
         Full(order, Packing!AfterRounds(order, mem)[r])
  PROVE  Packing!Instances(order, mem, id) = Cardinality(PlacedBy(order, mem, r, id))
<1>1. ASSUME NEW a \in Nat, NEW b \in Nat, a <= b,
             Full(order, Packing!AfterRounds(order, mem)[a])
      PROVE  PlacedBy(order, mem, b, id) = PlacedBy(order, mem, a, id)
  <2>1. \A q \in 1 .. b : \A i \in DOMAIN order :
          Packing!Places(order, mem, q, i) => q \in 1 .. a
    <3> SUFFICES ASSUME NEW q \in 1 .. b, NEW i \in DOMAIN order,
                        Packing!Places(order, mem, q, i), ~(q \in 1 .. a)
                 PROVE  FALSE
      OBVIOUS
    <3>1. q \in Nat /\ q > a
      OBVIOUS
    <3> QED
      BY <1>1, <3>1, FullPlacesNothing
  <2>2. \A q \in 1 .. a : q \in 1 .. b
    BY <1>1
  <2> QED
    BY <2>1, <2>2 DEF PlacedBy
<1>2. PlacedBy(order, mem, mem, id) = PlacedBy(order, mem, r, id)
  <2>1. CASE r <= mem
    BY <1>1, <2>1
  <2>2. CASE ~(r <= mem)
    <3>1. Packing!AfterRounds(order, mem)[r] = Packing!AfterRounds(order, mem)[mem]
      BY <2>2, RoundsEnd, StillForEver
    <3>2. Full(order, Packing!AfterRounds(order, mem)[mem]) /\ mem <= r
      BY <2>2, <3>1
    <3> QED
      BY <1>1, <3>2
  <2> QED
    BY <2>1, <2>2
<1>3. Packing!Instances(order, mem, id) = Packing!Cardinality(PlacedBy(order, mem, mem, id))
  BY DEF Packing!Instances, PlacedBy
<1>4. \A S : Packing!Cardinality(S) = Cardinality(S)
  BY DEF Packing!Cardinality, Cardinality
<1> QED
  BY <1>2, <1>3, <1>4

-----------------------------------------------------------------------------
(* A worker during its rounds.                                             *)

\* The instances of one ID that r rounds and i offers of the next have placed.
SoFar(order, mem, r, i, id) ==
  {x \in (1 .. r + 1) \X DOMAIN order :
     /\ order[x[2]].id = id
     /\ Packing!Places(order, mem, x[1], x[2])
     /\ x[1] <= r \/ x[2] <= i}

\* Worker w has m left after r rounds and i offers of the next one, and the
\* Schedule s has what they placed.
Offered(order, mem, s, w, m, r, i) ==
  /\ m = Packing!AfterOffers(order, Packing!AfterRounds(order, mem)[r])[i]
  /\ \A id \in ProblemIDs :
       /\ Get(s, w, id) = Cardinality(SoFar(order, mem, r, i, id)) % CountRange
       /\ <<w, id>> \in DOMAIN s <=> SoFar(order, mem, r, i, id) # {}

\* Before the first offer of a round the earlier rounds have placed what there
\* is, and after the last one this round is one of them.
LEMMA SoFarRounds ==
  ASSUME NEW order \in Seq(Problems), NEW mem \in Nat, NEW r \in Nat, NEW id
  PROVE  /\ SoFar(order, mem, r, 0, id) = PlacedBy(order, mem, r, id)
         /\ SoFar(order, mem, r, Len(order), id) = PlacedBy(order, mem, r + 1, id)
<1>1. SoFar(order, mem, r, 0, id) \subseteq PlacedBy(order, mem, r, id)
  <2> SUFFICES ASSUME NEW x \in SoFar(order, mem, r, 0, id)
               PROVE  x \in PlacedBy(order, mem, r, id)
    OBVIOUS
  <2>1. /\ x = <<x[1], x[2]>> /\ x[1] \in 1 .. r + 1 /\ x[2] \in 1 .. Len(order)
        /\ x[1] <= r \/ x[2] <= 0
    BY DEF SoFar
  <2>2. x[1] \in 1 .. r
    BY <2>1
  <2> QED
    BY <2>1, <2>2 DEF SoFar, PlacedBy
<1>2. PlacedBy(order, mem, r, id) \subseteq SoFar(order, mem, r, 0, id)
  <2>1. \A q \in 1 .. r : q \in 1 .. r + 1 /\ q <= r
    OBVIOUS
  <2> QED
    BY <2>1 DEF SoFar, PlacedBy
<1>3. \A i \in DOMAIN order : i <= Len(order)
  OBVIOUS
<1>4. SoFar(order, mem, r, Len(order), id) = PlacedBy(order, mem, r + 1, id)
  BY <1>3 DEF SoFar, PlacedBy
<1> QED
  BY <1>1, <1>2, <1>4

\* There are finitely many instances.
LEMMA SoFarFinite ==
  ASSUME NEW order \in Seq(Problems), NEW mem \in Nat, NEW r \in Nat, NEW i, NEW id
  PROVE  IsFiniteSet(SoFar(order, mem, r, i, id))
<1>1. IsFiniteSet(1 .. r + 1) /\ IsFiniteSet(DOMAIN order)
  <2>1. 1 \in Int /\ r + 1 \in Int /\ Len(order) \in Int /\ DOMAIN order = 1 .. Len(order)
    OBVIOUS
  <2> QED
    BY <2>1, FS_Interval
<1>2. IsFiniteSet((1 .. r + 1) \X DOMAIN order)
  BY <1>1, FS_Product
<1>3. SoFar(order, mem, r, i, id) \subseteq (1 .. r + 1) \X DOMAIN order
  BY DEF SoFar
<1> QED
  BY <1>2, <1>3, FS_Subset

\* What an offer may add is the pair of its round and its place.
LEMMA SoFarOffer ==
  ASSUME NEW order \in Seq(Problems), NEW r \in Nat, NEW i \in DOMAIN order,
         NEW y \in (1 .. r + 1) \X DOMAIN order
  PROVE  y[1] <= r \/ y[2] <= i <=> (y[1] <= r \/ y[2] <= i - 1) \/ y = <<r + 1, i>>
<1>1. y = <<y[1], y[2]>> /\ y[1] \in 1 .. r + 1 /\ y[2] \in 1 .. Len(order) /\ i \in 1 .. Len(order)
  OBVIOUS
<1>2. y[1] <= r \/ y[1] = r + 1
  BY <1>1
<1>3. y[2] <= i <=> y[2] <= i - 1 \/ y[2] = i
  BY <1>1
<1>4. y = <<r + 1, i>> <=> y[1] = r + 1 /\ y[2] = i
  BY <1>1
<1> QED
  BY <1>2, <1>3, <1>4

\* One that is taken up adds an instance.
LEMMA SoFarTaken ==
  ASSUME NEW order \in Seq(Problems), NEW mem \in Nat, NEW r \in Nat,
         NEW i \in DOMAIN order, NEW id,
         Packing!Places(order, mem, r + 1, i), order[i].id = id
  PROVE  /\ SoFar(order, mem, r, i, id) # {}
         /\ Cardinality(SoFar(order, mem, r, i, id)) =
              Cardinality(SoFar(order, mem, r, i - 1, id)) + 1
<1> DEFINE old == SoFar(order, mem, r, i - 1, id)
           new == SoFar(order, mem, r, i, id)
           x == <<r + 1, i>>
<1>1. /\ r + 1 \in 1 .. r + 1 /\ ~(r + 1 <= r) /\ ~(i <= i - 1)
      /\ x \in (1 .. r + 1) \X DOMAIN order /\ x[1] = r + 1 /\ x[2] = i
  OBVIOUS
<1>2. \A y \in (1 .. r + 1) \X DOMAIN order :
        y[1] <= r \/ y[2] <= i <=> (y[1] <= r \/ y[2] <= i - 1) \/ y = x
  BY SoFarOffer
<1>3. IsFiniteSet(old)
  BY SoFarFinite
<1> HIDE DEF x
<1>4. new = old \cup {x} /\ x \notin old
  BY <1>1, <1>2 DEF SoFar
<1> HIDE DEF old, new
<1>5. new # {} /\ Cardinality(new) = Cardinality(old) + 1
  BY <1>3, <1>4, FS_AddElement
<1> QED
  BY <1>5 DEF old, new

\* One that is not, or is of another ID, adds none.
LEMMA SoFarKept ==
  ASSUME NEW order \in Seq(Problems), NEW mem \in Nat, NEW r \in Nat,
         NEW i \in DOMAIN order
  PROVE  \A id : ~Packing!Places(order, mem, r + 1, i) \/ order[i].id # id =>
           SoFar(order, mem, r, i, id) = SoFar(order, mem, r, i - 1, id)
  BY SoFarOffer DEF SoFar

\* A round starts with what is left.
LEMMA RoundStart ==
  ASSUME NEW order \in Seq(Problems), NEW mem \in Nat, NEW s, NEW w, NEW m,
         NEW r \in Nat, Offered(order, mem, s, w, m, r, 0)
  PROVE  Packing!AfterRounds(order, mem)[r] = m
<1> DEFINE base == Packing!AfterRounds(order, mem)[r]
<1>1. base \in Nat
  BY RoundsUnfold
<1> QED
  BY <1>1, OffersUnfold DEF Offered

\* A fill starts with nothing offered.
LEMMA NothingOffered ==
  ASSUME NEW order \in Seq(Problems), NEW mem \in Nat, NEW s, DOMAIN s = {}, NEW w
  PROVE  Offered(order, mem, s, w, mem, 0, 0)
<1>1. mem = Packing!AfterOffers(order, Packing!AfterRounds(order, mem)[0])[0]
  <2>1. Packing!AfterRounds(order, mem)[0] = mem
    BY RoundsUnfold
  <2> QED
    BY <2>1, OffersUnfold
<1>2. \A id : SoFar(order, mem, 0, 0, id) = {}
  <2>1. \A id : PlacedBy(order, mem, 0, id) = {}
    BY DEF PlacedBy
  <2> QED
    BY <2>1, SoFarRounds
<1>3. Cardinality({}) = 0 /\ 0 % CountRange = 0
  <2>1. 0 = 0 * CountRange + 0 /\ 0 \in 0 .. CountRange - 1
    BY PrelimSchedulerAssumption
  <2> QED
    BY <2>1, ModUnique, FS_EmptySet, PrelimSchedulerAssumption
<1> QED
  BY <1>1, <1>2, <1>3 DEF Offered, Get

\* What other workers are given changes nothing for this one.
LEMMA OthersOffered ==
  ASSUME NEW order, NEW mem, NEW s, NEW w, NEW m, NEW r, NEW i,
         Offered(order, mem, s, w, m, r, i), NEW v, v # w, NEW id, NEW n
  PROVE  Offered(order, mem, Set(s, v, id, n), w, m, r, i)
<1>1. \A p : /\ <<w, p>> \in DOMAIN Set(s, v, id, n) <=> <<w, p>> \in DOMAIN s
             /\ Get(Set(s, v, id, n), w, p) = Get(s, w, p)
  BY DEF Set, Get
<1> QED
  BY <1>1 DEF Offered

\* An offer that is taken up places an instance and takes its memory.
LEMMA OfferTaken ==
  ASSUME NEW order \in Seq(Problems), NEW mem \in Nat, NEW s, NEW w, NEW m \in Nat,
         NEW r \in Nat, NEW i \in DOMAIN order,
         Packing!AfterRounds(order, mem)[r] > 0,
         Offered(order, mem, s, w, m, r, i - 1),
         m >= order[i].mem
  PROVE  LET id == order[i].id
         IN  Offered(order, mem, Set(s, w, id, Inc(Get(s, w, id))), w, m - order[i].mem, r, i)
<1> DEFINE p == order[i].id
           n == Inc(Get(s, w, p))
           t == Set(s, w, p, n)
           base == Packing!AfterRounds(order, mem)[r]
<1>1. base \in Nat /\ i \in DOMAIN order
  BY RoundsUnfold
<1>2. m = Packing!AfterOffers(order, base)[i - 1]
  BY DEF Offered
<1>3. Packing!AfterOffers(order, base)[i] = m - order[i].mem
  BY <1>1, <1>2, OffersUnfold
<1>4. Packing!Places(order, mem, r + 1, i)
  <2>1. (r + 1) - 1 = r
    OBVIOUS
  <2> QED
    BY <1>2, <2>1 DEF Packing!Places
<1>5. \A id : order[i].id # id => SoFar(order, mem, r, i, id) = SoFar(order, mem, r, i - 1, id)
  BY SoFarKept
<1>6. ASSUME NEW id \in ProblemIDs
      PROVE  /\ Get(t, w, id) = Cardinality(SoFar(order, mem, r, i, id)) % CountRange
             /\ <<w, id>> \in DOMAIN t <=> SoFar(order, mem, r, i, id) # {}
  <2> DEFINE old == SoFar(order, mem, r, i - 1, id)
             new == SoFar(order, mem, r, i, id)
  <2>1. /\ Get(s, w, id) = Cardinality(old) % CountRange
        /\ <<w, id>> \in DOMAIN s <=> old # {}
    BY DEF Offered
  <2>2. CASE id = p
    <3>1. new # {} /\ Cardinality(new) = Cardinality(old) + 1
      BY <1>4, <2>2, SoFarTaken
    <3>2. Cardinality(old) \in Nat
      BY SoFarFinite, FS_CardinalityType
    <3> HIDE DEF old, new
    <3>4. Get(t, w, id) = Inc(Get(s, w, id)) /\ <<w, id>> \in DOMAIN t
      <4>1. n = Inc(Get(s, w, id))
        BY <2>2
      <4> HIDE DEF n
      <4> QED
        BY <2>2, <4>1 DEF Get, Set
    <3>5. Get(t, w, id) = ((Cardinality(old) % CountRange) + 1) % CountRange
      BY <2>1, <3>4 DEF Inc
    <3>6. ((Cardinality(old) % CountRange) + 1) % CountRange = (Cardinality(old) + 1) % CountRange
      <4> DEFINE c == Cardinality(old)
      <4>1. c \in Int /\ CountRange \in Nat \ {0}
        BY <3>2, PrelimSchedulerAssumption
      <4> HIDE DEF c
      <4>2. ((c % CountRange) + 1) % CountRange = (c + 1) % CountRange
        BY <4>1, ModInc
      <4> QED
        BY <4>2 DEF c
    <3> QED
      BY <3>1, <3>4, <3>5, <3>6 DEF new
  <2>3. CASE id # p
    <3>1. new = old
      BY <1>5, <2>3
    <3>2. Get(t, w, id) = Get(s, w, id) /\ (<<w, id>> \in DOMAIN t <=> <<w, id>> \in DOMAIN s)
      <4> HIDE DEF n
      <4> QED
        BY <2>3 DEF Get, Set
    <3> QED
      BY <2>1, <3>1, <3>2
  <2> QED
    BY <2>2, <2>3
<1> HIDE DEF t
<1>7. Offered(order, mem, t, w, m - order[i].mem, r, i)
  BY <1>3, <1>6 DEF Offered
<1> QED
  BY <1>7 DEF t

\* One that does not fit changes nothing.
LEMMA OfferRefused ==
  ASSUME NEW order \in Seq(Problems), NEW mem \in Nat, NEW s, NEW w, NEW m \in Nat,
         NEW r \in Nat, NEW i \in DOMAIN order,
         Offered(order, mem, s, w, m, r, i - 1),
         ~(m >= order[i].mem)
  PROVE  Offered(order, mem, s, w, m, r, i)
<1> DEFINE base == Packing!AfterRounds(order, mem)[r]
<1>1. base \in Nat /\ i \in DOMAIN order
  BY RoundsUnfold
<1>2. m = Packing!AfterOffers(order, base)[i - 1]
  BY DEF Offered
<1>3. Packing!AfterOffers(order, base)[i] = m
  BY <1>1, <1>2, OffersUnfold
<1>4. ~Packing!Places(order, mem, r + 1, i)
  <2>1. (r + 1) - 1 = r
    OBVIOUS
  <2> QED
    BY <1>2, <2>1 DEF Packing!Places
<1>5. \A id : SoFar(order, mem, r, i, id) = SoFar(order, mem, r, i - 1, id)
  BY <1>4, SoFarKept
<1> QED
  BY <1>3, <1>5 DEF Offered

\* After its last offer a round counts as one of those before.
LEMMA RoundOffered ==
  ASSUME NEW order \in Seq(Problems), NEW mem \in Nat, NEW s, NEW w, NEW m,
         NEW r \in Nat, Offered(order, mem, s, w, m, r, Len(order))
  PROVE  Offered(order, mem, s, w, m, r + 1, 0)
<1> DEFINE base == Packing!AfterRounds(order, mem)[r + 1]
<1>1. base \in Nat /\ base = m
  <2>1. r + 1 \in Nat
    OBVIOUS
  <2>2. base \in Nat
    BY <2>1, RoundsUnfold
  <2>3. base = Packing!AfterOffers(order, Packing!AfterRounds(order, mem)[r])[Len(order)]
    BY RoundsUnfold
  <2> QED
    BY <2>2, <2>3 DEF Offered
<1>2. Packing!AfterOffers(order, base)[0] = base
  BY <1>1, OffersUnfold
<1>3. \A id : SoFar(order, mem, r, Len(order), id) = SoFar(order, mem, r + 1, 0, id)
  BY SoFarRounds
<1> QED
  BY <1>1, <1>2, <1>3 DEF Offered

\* A worker that is full when a round starts has the instances of the packing.
LEMMA FullOffered ==
  ASSUME NEW order \in Seq(Problems), NEW mem \in Nat, NEW s, NEW w, NEW m,
         NEW r \in Nat, Offered(order, mem, s, w, m, r, 0), Full(order, m),
         NEW id \in ProblemIDs
  PROVE  /\ Packing!Instances(order, mem, id) \in Nat
         /\ Get(s, w, id) = Packing!Instances(order, mem, id) % CountRange
         /\ <<w, id>> \in DOMAIN s <=> Packing!Instances(order, mem, id) > 0
         /\ <<w, id>> \in DOMAIN s => \E i \in DOMAIN order : order[i].id = id
<1> DEFINE base == Packing!AfterRounds(order, mem)[r]
           P == PlacedBy(order, mem, r, id)
<1>2. base = m
  BY RoundStart
<1>3. Packing!Instances(order, mem, id) = Cardinality(P)
  BY <1>2, RoundsSuffice
<1>4. SoFar(order, mem, r, 0, id) = P
  BY SoFarRounds
<1>5. IsFiniteSet(P) /\ Cardinality(P) \in Nat /\ (Cardinality(P) = 0 <=> P = {})
  BY <1>4, SoFarFinite, FS_CardinalityType, FS_EmptySet
<1>6. Get(s, w, id) = Cardinality(P) % CountRange /\ (<<w, id>> \in DOMAIN s <=> P # {})
  BY <1>4 DEF Offered
<1>7. P # {} => \E i \in DOMAIN order : order[i].id = id
  BY DEF PlacedBy
<1> HIDE DEF P
<1> QED
  BY <1>3, <1>5, <1>6, <1>7
=============================================================================
