---------------------------- MODULE MemoryProofs ----------------------------
(***************************************************************************)
(* The memory of processes, for any number of processes and frames, and for*)
(* every program and every request below the stacks.  First what a page    *)
(* table maps: the stacks, and the pages of the image and of the heap up to*)
(* the break.  Then the frames: none is used for two things as long as no  *)
(* process gives memory back.                                              *)
(***************************************************************************)
EXTENDS Memory, FiniteSetTheorems, SequenceTheorems, WellFoundedInduction, TLAPS

(* The entries of a page table that are present.                            *)
Mapped(e) == {n \in DOMAIN e : e[n].present}

(* The pages of the heap of p, from the end of its image to its break.      *)
Heap(p) == {x \in 0 .. MaxBreak : /\ initial_data_segment[p] <= x * PAGE_SIZE
                                  /\ x * PAGE_SIZE < current_sbrk[p]}

(* The walk to page x, of the user or of the kernel, ends at a frame.       *)
Reaches(e, x, user) ==
  <<0, x>> \in Mapped(e) /\ e[<<0, x>>].us = user /\ e[<<0, x>>].address \in Nat \ {0}

(* The break of a process and the end of its image are below the stack, and *)
(* the break is not below the image unless memory was given back; a process *)
(* that has a page table has its stacks and its heap.                       *)
ProcessMapped(p) ==
  /\ initial_data_segment[p] \in Nat /\ current_sbrk[p] \in Nat
  /\ initial_data_segment[p] < USER_STACK * PAGE_SIZE
  /\ current_sbrk[p] < USER_STACK * PAGE_SIZE
  /\ ~scenario.shrinks => initial_data_segment[p] <= current_sbrk[p]
  /\ pagetables[p] # NULL =>
       /\ Reaches(ptes[p], USER_STACK, TRUE)
       /\ Reaches(ptes[p], INTSTACK, FALSE) /\ Reaches(ptes[p], SYSCALLSTACK, FALSE)
       /\ \A x \in Heap(p) : Reaches(ptes[p], x, TRUE)
       /\ ~scenario.shrinks => Mapped(ptes[p]) = Paths(image[p] \union Stacks \union Heap(p))

MapInv ==
  /\ scenario \in Scenarios
  /\ DOMAIN pagetables = Procs /\ DOMAIN ptes = Procs /\ DOMAIN image = Procs
  /\ DOMAIN initial_data_segment = Procs /\ DOMAIN current_sbrk = Procs
  /\ \A p \in Procs : ProcessMapped(p)

-----------------------------------------------------------------------------
(* A finite set of numbers has a greatest one: there is an element with the *)
(* smallest set of elements above it.                                       *)
LEMMA Greatest ==
  ASSUME NEW F, F \subseteq Nat, IsFiniteSet(F), F # {}
  PROVE  \E m \in F : \A j \in F : j <= m
<1> DEFINE Above(i) == {j \in F : j > i}
           T == {Above(i) : i \in F}
<1>1. IsWellFoundedOn(StrictSubsetOrdering(F), SUBSET F)
  BY FS_StrictSubsetOrderingWellFounded, FS_FiniteSubsetsOfFinite, Zenon
<1>2. T \subseteq SUBSET F /\ T # {}
  BY Zenon
<1>3. PICK x \in T : \A y \in T : ~(<<y, x>> \in StrictSubsetOrdering(F))
  <2> HIDE DEF T
  <2> QED
    BY <1>1, <1>2, WFMin, Zenon
<1>4. PICK m \in F : x = Above(m)
  BY Zenon
<1>5. ASSUME NEW j \in F, j > m PROVE FALSE
  <2>1. Above(j) \in T /\ Above(j) \subseteq F /\ Above(m) \subseteq F
    BY Zenon
  <2>2. j \in Nat /\ m \in Nat /\ ~(j > j)
    OBVIOUS
  <2>3. j \notin Above(j) /\ j \in Above(m)
    BY <1>5, <2>2, Zenon
  <2>4. ASSUME NEW k \in F, k > j PROVE k > m
    BY <1>5, <2>2, <2>4
  <2>5. Above(j) \subseteq Above(m)
    BY <2>4, Zenon
  <2>6. <<Above(j), Above(m)>> \in StrictSubsetOrdering(F)
    <3> HIDE DEF Above
    <3> QED
      BY <2>1, <2>3, <2>5, Zenon DEF StrictSubsetOrdering
  <2> QED
    BY <1>3, <1>4, <2>1, <2>6, Zenon
<1> QED
  BY <1>5

(* The end of an image is below the page of the stack.                      *)
LEMMA ImageTop ==
  ASSUME NEW pages \in Images
  PROVE  LET top == (1 + CHOOSE x \in pages : \A y \in pages : y <= x) * PAGE_SIZE
         IN top \in Nat /\ top < USER_STACK * PAGE_SIZE
<1> DEFINE m == CHOOSE x \in pages : \A y \in pages : y <= x
<1>1. pages # {} /\ pages \subseteq VA_MIN .. USER_STACK - 2
  BY MemoryAssumption, Zenon
<1>2. VA_MIN \in Nat /\ USER_STACK \in Nat /\ PAGE_SIZE \in Nat /\ PAGE_SIZE > 0
  BY MemoryAssumption
<1>3. pages \subseteq Nat /\ \A x \in pages : x <= USER_STACK
  BY <1>1, <1>2
<1>4. IsFiniteSet(pages)
  BY <1>2, <1>3, FS_BoundedSetOfNaturals, Zenon
<1>5. \E x \in pages : \A y \in pages : y <= x
  BY <1>1, <1>3, <1>4, Greatest, Zenon
<1>6. m \in pages
  BY <1>5, Zenon
<1> HIDE DEF m
<1>7. m \in Nat /\ m + 2 <= USER_STACK
  BY <1>1, <1>2, <1>6
<1>8. (1 + m) * PAGE_SIZE \in Nat /\ (1 + m) * PAGE_SIZE < USER_STACK * PAGE_SIZE
  BY <1>2, <1>7, SMTT(30)
<1> QED
  BY <1>8, Zenon DEF m

(* vmm_allocate makes the entries on the way to the pages present, and      *)
(* leaves the others alone.                                                 *)
LEMMA Allocates ==
  ASSUME NEW e, NEW pages, NEW s
  PROVE  Mapped(vmm_allocate(e, pages, s)) = Mapped(e) \union Paths(pages)
<1> DEFINE new == {n \in Paths(pages) : n \in DOMAIN e => ~e[n].present}
           a == vmm_allocate(e, pages, s)
<1>1. a = [n \in DOMAIN e \union new |-> IF n \in new THEN Fresh(new, s)[n] ELSE e[n]]
  BY ZenonT(30) DEF vmm_allocate
<1>2. \A n \in new : Fresh(new, s)[n].present
  BY Zenon DEF Fresh
<1>3. DOMAIN a = DOMAIN e \union new
  BY <1>1, Zenon
<1>4. \A n \in DOMAIN a : a[n] = IF n \in new THEN Fresh(new, s)[n] ELSE e[n]
  BY <1>1, Zenon
<1> HIDE DEF a
<1>5. \A n : n \in Mapped(a) <=> n \in new \/ (n \in DOMAIN e /\ e[n].present)
  BY <1>2, <1>3, <1>4, ZenonT(30) DEF Mapped
<1>6. \A n : n \in new <=> n \in Paths(pages) /\ (n \in DOMAIN e => ~e[n].present)
  BY Zenon
<1> HIDE DEF new
<1>7. Mapped(a) = Mapped(e) \union Paths(pages)
  BY <1>5, <1>6, Zenon DEF Mapped
<1> QED
  BY <1>7, Zenon DEF a

(* vmm_allocate keeps an entry that is present.                             *)
LEMMA EntryKept ==
  ASSUME NEW e, NEW pages, NEW s, NEW n \in Mapped(e)
  PROVE  vmm_allocate(e, pages, s)[n] = e[n]
<1> DEFINE new == {m \in Paths(pages) : m \in DOMAIN e => ~e[m].present}
           a == vmm_allocate(e, pages, s)
<1>1. a = [m \in DOMAIN e \union new |-> IF m \in new THEN Fresh(new, s)[m] ELSE e[m]]
  BY ZenonT(30) DEF vmm_allocate
<1>2. n \in DOMAIN e /\ n \notin new
  BY ZenonT(30) DEF Mapped
<1> HIDE DEF new, a
<1>3. a[n] = e[n]
  BY <1>1, <1>2, ZenonT(30)
<1> QED
  BY <1>3, Zenon DEF a

(* A new entry is for the user, unless it is one of the kernel's stacks.    *)
LEMMA EntryBit ==
  ASSUME NEW e, NEW pages, NEW s, NEW n \in Paths(pages), n \notin Mapped(e)
  PROVE  vmm_allocate(e, pages, s)[n].us = (n \notin {<<0, INTSTACK>>, <<0, SYSCALLSTACK>>})
<1> DEFINE new == {m \in Paths(pages) : m \in DOMAIN e => ~e[m].present}
           a == vmm_allocate(e, pages, s)
<1>1. a = [m \in DOMAIN e \union new |-> IF m \in new THEN Fresh(new, s)[m] ELSE e[m]]
  BY ZenonT(30) DEF vmm_allocate
<1>2. \A m \in new : Fresh(new, s)[m].us = (m \notin {<<0, INTSTACK>>, <<0, SYSCALLSTACK>>})
  BY Zenon DEF Fresh
<1>3. n \in new
  BY ZenonT(30) DEF Mapped
<1> HIDE DEF new, a
<1>4. a[n] = Fresh(new, s)[n]
  BY <1>1, <1>3, ZenonT(30)
<1>5. a[n].us = (n \notin {<<0, INTSTACK>>, <<0, SYSCALLSTACK>>})
  BY <1>2, <1>3, <1>4, Zenon
<1> QED
  BY <1>5, Zenon DEF a

(* A page table without entries maps nothing.                               *)
LEMMA NothingMapped == Mapped(NoEntries) = {}
BY Zenon DEF Mapped, NoEntries

(* The entries for two sets of pages are those for each of them.            *)
LEMMA PathsUnion ==
  ASSUME NEW P, NEW Q
  PROVE  Paths(P \union Q) = Paths(P) \union Paths(Q)
BY ZenonT(30) DEF Paths

(* The entry of a page is on the way to it.                                 *)
LEMMA OwnEntry ==
  ASSUME NEW P, NEW x \in P
  PROVE  <<0, x>> \in Paths(P)
BY Zenon DEF Paths, Path

-----------------------------------------------------------------------------
Nodes == Nat \X Nat

(* The frames of a process with a page table, and that they are distinct.   *)
Own(root, e) == {root} \union {e[n].address : n \in Mapped(e)}
Separate(root, e) ==
  /\ root \in Nat
  /\ Mapped(e) \in SUBSET Nodes /\ IsFiniteSet(Mapped(e))
  /\ \A n \in Mapped(e) : e[n].address \in Nat /\ e[n].address # root
  /\ \A m, n \in Mapped(e) : e[m].address = e[n].address => m = n

Mine(p) == IF pagetables[p] = NULL THEN {} ELSE Own(pagetables[p], ptes[p])

(* Without negative amounts: the free frames are usable and listed once,    *)
(* and no frame is of two processes, or of one and free.                    *)
FrameInv ==
  ~scenario.shrinks =>
    /\ freepages \in Seq(Nat) /\ IsInjective(freepages)
    /\ Range(freepages) \subseteq Frames /\ \A p \in Procs : Mine(p) \subseteq Frames
    /\ \A p \in Procs : /\ pagetables[p] # NULL => Separate(pagetables[p], ptes[p])
                        /\ Mine(p) \intersect Range(freepages) = {}
    /\ \A p, q \in Procs : p # q => Mine(p) \intersect Mine(q) = {}

-----------------------------------------------------------------------------
(* Elements that have distinct ranks below their number: every rank occurs. *)
LEMMA RanksOccur ==
  ASSUME NEW S, IsFiniteSet(S), NEW rank \in [S -> 1 .. Cardinality(S)],
         \A x, y \in S : rank[x] = rank[y] => x = y
  PROVE  \A k \in 1 .. Cardinality(S) : \E x \in S : rank[x] = k
<1> DEFINE T == 1 .. Cardinality(S)
<1>1. Cardinality(S) \in Nat
  BY FS_CardinalityType, Zenon
<1>2. IsFiniteSet(T) /\ Cardinality(T) = Cardinality(S)
  <2>1. /\ IsFiniteSet(1 .. Cardinality(S))
        /\ Cardinality(1 .. Cardinality(S)) =
             IF 1 > Cardinality(S) THEN 0 ELSE Cardinality(S) - 1 + 1
    BY <1>1, FS_Interval
  <2> QED
    BY <1>1, <2>1
<1>3. rank \in Injection(S, T)
  BY Zenon DEF Injection, IsInjective
<1> HIDE DEF T
<1>4. rank \in Surjection(S, T)
  BY <1>2, <1>3, FS_Injection, ZenonT(30)
<1> QED
  BY <1>4, Zenon DEF Surjection, T

(* A part of a set that lacks an element is smaller.                        *)
LEMMA PartIsSmaller ==
  ASSUME NEW T, IsFiniteSet(T), NEW S, S \subseteq T, NEW x \in T, x \notin S
  PROVE  Cardinality(S) \in Nat /\ Cardinality(T) \in Nat /\ Cardinality(S) < Cardinality(T)
<1>1. /\ IsFiniteSet(S) /\ Cardinality(S) <= Cardinality(T)
      /\ Cardinality(S) = Cardinality(T) => S = T
  BY FS_Subset, Zenon
<1>2. Cardinality(S) \in Nat /\ Cardinality(T) \in Nat
  BY <1>1, FS_CardinalityType, Zenon
<1> QED
  BY <1>1, <1>2

(* InOrder lists the entries, each of them once.                            *)
LEMMA InOrderLists ==
  ASSUME NEW nodes \in SUBSET Nodes, IsFiniteSet(nodes)
  PROVE  /\ InOrder(nodes) \in [1 .. Cardinality(nodes) -> nodes]
         /\ \A i, j \in 1 .. Cardinality(nodes) : InOrder(nodes)[i] = InOrder(nodes)[j] => i = j
         /\ \A n \in nodes : \E i \in 1 .. Cardinality(nodes) : InOrder(nodes)[i] = n
<1> DEFINE Below(n) == {m \in nodes : Before(m, n)}
           rank == [n \in nodes |-> Cardinality(Below(n)) + 1]
           size == Cardinality(nodes)
<1>1. size \in Nat
  BY FS_CardinalityType, Zenon
<1>2. ASSUME NEW n \in nodes
      PROVE  Cardinality(Below(n)) \in Nat /\ Cardinality(Below(n)) < size
  <2>1. n \notin Below(n)
    BY DEF Before, Nodes
  <2> QED
    BY <2>1, PartIsSmaller, ZenonT(30)
<1>3. ASSUME NEW n \in nodes, NEW m \in nodes, Before(m, n)
      PROVE  Cardinality(Below(m)) < Cardinality(Below(n))
  <2>1. m \in Below(n) /\ m \notin Below(m)
    BY <1>3 DEF Before, Nodes
  <2>2. ASSUME NEW k \in nodes, Before(k, m) PROVE Before(k, n)
    BY <1>3, <2>2 DEF Before, Nodes
  <2>3. Below(m) \subseteq Below(n)
    BY <2>2, Zenon
  <2>4. IsFiniteSet(Below(n))
    <3>1. Below(n) \subseteq nodes
      BY Zenon
    <3> QED
      BY <3>1, FS_Subset, ZenonT(30)
  <2> HIDE DEF Below
  <2> QED
    BY <2>1, <2>3, <2>4, PartIsSmaller, ZenonT(30)
<1>4. \A m, n \in nodes : m = n \/ Before(m, n) \/ Before(n, m)
  BY DEF Before, Nodes
<1>5. rank \in [nodes -> 1 .. size]
  BY <1>1, <1>2
<1>6. \A m, n \in nodes : rank[m] = rank[n] => m = n
  <2> HIDE DEF Below
  <2> QED
    BY <1>2, <1>3, <1>4
<1>7. \A k \in 1 .. size : \E n \in nodes : rank[n] = k
  <2> HIDE DEF rank
  <2> QED
    BY <1>5, <1>6, RanksOccur, ZenonT(30)
<1>8. \A n \in nodes, i \in 1 .. size : rank[n] = i <=> Cardinality(Below(n)) = i - 1
  <2> HIDE DEF Below
  <2> QED
    BY <1>1, <1>2
<1>9. ASSUME NEW i \in 1 .. size
      PROVE  InOrder(nodes)[i] \in nodes /\ rank[InOrder(nodes)[i]] = i
  <2>1. InOrder(nodes)[i] = CHOOSE n \in nodes : Cardinality(Below(n)) = i - 1
    BY Zenon DEF InOrder
  <2>2. \E n \in nodes : Cardinality(Below(n)) = i - 1
    BY <1>7, <1>8, Zenon
  <2> HIDE DEF Below, rank
  <2>3. InOrder(nodes)[i] \in nodes /\ Cardinality(Below(InOrder(nodes)[i])) = i - 1
    BY <2>1, <2>2, ZenonT(30)
  <2> QED
    BY <1>8, <2>3, Zenon
<1>10. InOrder(nodes) \in [1 .. size -> nodes]
  <2> DEFINE Nth(i) == CHOOSE n \in nodes : Cardinality(Below(n)) = i - 1
  <2>1. InOrder(nodes) = [i \in 1 .. size |-> Nth(i)]
    BY Zenon DEF InOrder
  <2> HIDE DEF Nth
  <2>2. \A i \in 1 .. size : Nth(i) \in nodes
    BY <1>9, <2>1, ZenonT(30)
  <2> QED
    BY <2>1, <2>2, Zenon
<1> HIDE DEF rank
<1>11. ASSUME NEW n \in nodes PROVE \E i \in 1 .. size : InOrder(nodes)[i] = n
  <2>1. rank[n] \in 1 .. size
    BY <1>5, Zenon
  <2>2. InOrder(nodes)[rank[n]] \in nodes /\ rank[InOrder(nodes)[rank[n]]] = rank[n]
    BY <1>9, <2>1, Zenon
  <2>3. InOrder(nodes)[rank[n]] = n
    BY <1>6, <2>2, ZenonT(30)
  <2> QED
    BY <2>1, <2>3, Zenon
<1>12. \A i, j \in 1 .. size : InOrder(nodes)[i] = InOrder(nodes)[j] => i = j
  BY <1>9, Zenon
<1> QED
  BY <1>10, <1>11, <1>12, Zenon

-----------------------------------------------------------------------------
(* Sorted keeps the frames of a list without duplicates.                    *)
LEMMA SortedKeeps ==
  ASSUME NEW s \in Seq(Nat), IsInjective(s)
  PROVE  /\ Sorted(s) \in Seq(Nat) /\ IsInjective(Sorted(s))
         /\ Range(Sorted(s)) = Range(s)
<1> DEFINE I == 1 .. Len(s)
           Below(i) == {j \in I : s[j] < s[i] \/ (s[j] = s[i] /\ j <= i)}
           rank == [i \in I |-> Cardinality(Below(i))]
           ranked == {<<rank[i], s[i]>> : i \in I}
<1>1. Len(s) \in Nat /\ DOMAIN s = I /\ \A i \in I : s[i] \in Nat
  BY LenProperties, Zenon
<1>2. IsFiniteSet(I) /\ Cardinality(I) = Len(s)
  <2>1. /\ IsFiniteSet(1 .. Len(s))
        /\ Cardinality(1 .. Len(s)) = IF 1 > Len(s) THEN 0 ELSE Len(s) - 1 + 1
    <3>1. 1 \in Int /\ Len(s) \in Int
      BY <1>1
    <3> QED
      BY <3>1, FS_Interval, Zenon
  <2> QED
    BY <1>1, <2>1
<1>3. Sorted(s) = [k \in I |-> (CHOOSE r \in ranked : r[1] = k)[2]]
  BY <1>1 DEF Sorted
<1>4. \A i, j \in I : s[i] = s[j] => i = j
  BY <1>1, Zenon DEF IsInjective
<1>5. ASSUME NEW i \in I PROVE Cardinality(Below(i)) \in I
  <2>1. Below(i) \subseteq I /\ i \in Below(i)
    BY <1>1
  <2>2. IsFiniteSet(Below(i)) /\ Cardinality(Below(i)) <= Cardinality(I)
    <3> HIDE DEF I, Below
    <3> QED
      BY <1>2, <2>1, FS_Subset, Zenon
  <2>3. Cardinality(Below(i)) \in Nat /\ (Cardinality(Below(i)) = 0 <=> Below(i) = {})
    <3> HIDE DEF Below
    <3> QED
      BY <2>2, FS_CardinalityType, FS_EmptySet, Zenon
  <2> HIDE DEF Below
  <2> QED
    BY <1>1, <1>2, <2>1, <2>2, <2>3
<1>6. ASSUME NEW i \in I, NEW j \in I, s[i] < s[j]
      PROVE  Cardinality(Below(i)) < Cardinality(Below(j))
  <2>1. j \in Below(j) /\ j \notin Below(i)
    BY <1>1, <1>6
  <2>2. Below(i) \subseteq Below(j)
    BY <1>1, <1>6
  <2>3. IsFiniteSet(Below(j))
    <3>1. Below(j) \subseteq I
      BY Zenon
    <3> HIDE DEF I, Below
    <3> QED
      BY <1>2, <3>1, FS_Subset, ZenonT(30)
  <2> HIDE DEF Below
  <2> QED
    BY <2>1, <2>2, <2>3, PartIsSmaller, ZenonT(30)
<1>7. rank \in [I -> 1 .. Cardinality(I)]
  <2> HIDE DEF Below
  <2> QED
    BY <1>2, <1>5, Zenon
<1>8. \A i, j \in I : rank[i] = rank[j] => i = j
  <2> SUFFICES ASSUME NEW i \in I, NEW j \in I, rank[i] = rank[j], i # j PROVE FALSE
    BY Zenon
  <2>1. s[i] < s[j] \/ s[j] < s[i]
    BY <1>1, <1>4
  <2>2. Cardinality(Below(i)) \in Nat /\ Cardinality(Below(j)) \in Nat
    BY <1>1, <1>5
  <2> HIDE DEF Below
  <2> QED
    BY <1>6, <2>1, <2>2
<1> HIDE DEF rank
<1>9. \A k \in I : \E i \in I : rank[i] = k
  <2>1. \A k \in 1 .. Cardinality(I) : \E i \in I : rank[i] = k
    <3> HIDE DEF I
    <3> QED
      BY <1>2, <1>7, <1>8, RanksOccur, ZenonT(30)
  <2> QED
    BY <1>2, <2>1, Zenon
<1>10. ASSUME NEW i \in I PROVE rank[i] \in I /\ Sorted(s)[rank[i]] = s[i]
  <2>1. rank[i] \in I
    BY <1>2, <1>7, ZenonT(30)
  <2>2. \A r \in ranked : r[1] = rank[i] => r[2] = s[i]
    BY <1>8
  <2>3. \E r \in ranked : r[1] = rank[i]
    <3>1. <<rank[i], s[i]>> \in ranked /\ <<rank[i], s[i]>>[1] = rank[i]
      BY Zenon
    <3> QED
      BY <3>1, ZenonT(30)
  <2> DEFINE c == CHOOSE r \in ranked : r[1] = rank[i]
  <2>4. c \in ranked /\ c[1] = rank[i]
    BY <2>3, ZenonT(30)
  <2>5. Sorted(s)[rank[i]] = c[2]
    BY <1>3, <2>1, ZenonT(30)
  <2> QED
    BY <2>1, <2>2, <2>4, <2>5, ZenonT(30)
<1>11. \A k \in I : \E i \in I : rank[i] = k /\ Sorted(s)[k] = s[i]
  <2> SUFFICES ASSUME NEW k \in I PROVE \E i \in I : rank[i] = k /\ Sorted(s)[k] = s[i]
    BY Zenon
  <2> HIDE DEF I, rank
  <2>1. PICK i \in I : rank[i] = k
    BY <1>9, Zenon
  <2>2. Sorted(s)[rank[i]] = s[i]
    BY <1>10, Zenon
  <2> QED
    BY <2>1, <2>2, Zenon
<1>12. DOMAIN Sorted(s) = I /\ Sorted(s) \in [I -> Nat]
  <2>1. \A k \in I : Sorted(s)[k] \in Nat
    BY <1>1, <1>11, ZenonT(30)
  <2> HIDE DEF I, ranked
  <2> QED
    BY <1>3, <2>1, Zenon
<1>13. Sorted(s) \in Seq(Nat)
  BY <1>1, <1>12, SeqDef, Zenon
<1>14. IsInjective(Sorted(s))
  <2> SUFFICES ASSUME NEW k \in I, NEW l \in I, Sorted(s)[k] = Sorted(s)[l] PROVE k = l
    BY <1>12, Zenon DEF IsInjective
  <2>1. PICK i \in I : rank[i] = k /\ Sorted(s)[k] = s[i]
    BY <1>11, ZenonT(30)
  <2>2. PICK j \in I : rank[j] = l /\ Sorted(s)[l] = s[j]
    BY <1>11, ZenonT(30)
  <2>3. i = j
    BY <1>4, <2>1, <2>2, ZenonT(30)
  <2> QED
    BY <2>1, <2>2, <2>3, Zenon
<1>15. Range(Sorted(s)) = Range(s)
  <2>1. Range(Sorted(s)) = {Sorted(s)[k] : k \in I} /\ Range(s) = {s[i] : i \in I}
    BY <1>1, <1>12, Zenon DEF Range
  <2> HIDE DEF I
  <2>2. {Sorted(s)[k] : k \in I} \subseteq {s[i] : i \in I}
    BY <1>11
  <2>3. {s[i] : i \in I} \subseteq {Sorted(s)[k] : k \in I}
    BY <1>10
  <2> QED
    BY <2>1, <2>2, <2>3, ZenonT(30)
<1> QED
  BY <1>13, <1>14, <1>15, Zenon

(* Two lists of different frames, one after the other.                      *)
LEMMA Joined ==
  ASSUME NEW s \in Seq(Nat), IsInjective(s), NEW t \in Seq(Nat), IsInjective(t),
         Range(s) \intersect Range(t) = {}
  PROVE  /\ s \o t \in Seq(Nat) /\ IsInjective(s \o t)
         /\ Range(s \o t) = Range(s) \union Range(t)
<1>1. /\ Len(s) \in Nat /\ DOMAIN s = 1 .. Len(s)
      /\ Len(t) \in Nat /\ DOMAIN t = 1 .. Len(t)
  BY LenProperties, Zenon
<1>2. /\ s \o t \in Seq(Nat) /\ Len(s \o t) = Len(s) + Len(t)
      /\ \A i \in 1 .. Len(s) + Len(t) :
           (s \o t)[i] = IF i <= Len(s) THEN s[i] ELSE t[i - Len(s)]
  BY ConcatProperties, Zenon
<1>3. PICK u \in Seq(Nat) : u = s \o t
  BY <1>2, ZenonT(30)
<1>4. DOMAIN u = 1 .. Len(s) + Len(t)
  BY <1>2, <1>3, LenProperties, ZenonT(30)
<1>5. /\ \A i \in 1 .. Len(s) : i \in DOMAIN u /\ u[i] = s[i]
      /\ \A i \in 1 .. Len(t) : Len(s) + i \in DOMAIN u /\ u[Len(s) + i] = t[i]
  <2>1. \A i \in 1 .. Len(s) : i \in 1 .. Len(s) + Len(t) /\ i <= Len(s)
    BY <1>1
  <2>2. \A i \in 1 .. Len(t) : /\ Len(s) + i \in 1 .. Len(s) + Len(t) /\ ~(Len(s) + i <= Len(s))
                               /\ (Len(s) + i) - Len(s) = i
    BY <1>1
  <2> QED
    BY <1>2, <1>3, <1>4, <2>1, <2>2, Zenon
<1>6. \A k \in DOMAIN u : \/ k \in 1 .. Len(s)
                          \/ \E i \in 1 .. Len(t) : k = Len(s) + i
  <2> SUFFICES ASSUME NEW k \in 1 .. Len(s) + Len(t), k \notin 1 .. Len(s)
               PROVE  \E i \in 1 .. Len(t) : k = Len(s) + i
    BY <1>4, Zenon
  <2>1. k - Len(s) \in 1 .. Len(t) /\ k = Len(s) + (k - Len(s))
    BY <1>1
  <2> QED
    BY <2>1, ZenonT(30)
<1>7. /\ \A i, j \in 1 .. Len(s) : s[i] = s[j] => i = j
      /\ \A i, j \in 1 .. Len(t) : t[i] = t[j] => i = j
      /\ \A i \in 1 .. Len(s), j \in 1 .. Len(t) : s[i] # t[j]
  <2>1. DOMAIN s = 1 .. Len(s) /\ DOMAIN t = 1 .. Len(t)
    BY LenProperties, Zenon
  <2>2. \A i \in 1 .. Len(s), j \in 1 .. Len(t) : s[i] # t[j]
    BY <1>1, <2>1, ZenonT(30) DEF Range
  <2> QED
    BY <1>1, <2>1, <2>2, ZenonT(30) DEF IsInjective
<1>8. IsInjective(u)
  <2> SUFFICES ASSUME NEW k \in DOMAIN u, NEW l \in DOMAIN u, u[k] = u[l] PROVE k = l
    BY ZenonT(30) DEF IsInjective
  <2>1. CASE k \in 1 .. Len(s) /\ l \in 1 .. Len(s)
    BY <1>5, <1>7, <2>1, ZenonT(30)
  <2>2. CASE k \in 1 .. Len(s) /\ \E j \in 1 .. Len(t) : l = Len(s) + j
    <3>1. PICK j \in 1 .. Len(t) : l = Len(s) + j
      BY <2>2, Zenon
    <3>2. u[k] = s[k] /\ u[l] = t[j]
      BY <1>5, <2>2, <3>1, ZenonT(30)
    <3> QED
      BY <1>7, <2>2, <3>2, ZenonT(30)
  <2>3. CASE l \in 1 .. Len(s) /\ \E j \in 1 .. Len(t) : k = Len(s) + j
    <3>1. PICK j \in 1 .. Len(t) : k = Len(s) + j
      BY <2>3, Zenon
    <3>2. u[l] = s[l] /\ u[k] = t[j]
      BY <1>5, <2>3, <3>1, ZenonT(30)
    <3> QED
      BY <1>7, <2>3, <3>2, ZenonT(30)
  <2>4. CASE \E i, j \in 1 .. Len(t) : k = Len(s) + i /\ l = Len(s) + j
    <3>1. PICK i \in 1 .. Len(t), j \in 1 .. Len(t) : k = Len(s) + i /\ l = Len(s) + j
      BY <2>4, Zenon
    <3>2. u[k] = t[i] /\ u[l] = t[j]
      BY <1>5, <3>1, Zenon
    <3> QED
      BY <1>7, <3>1, <3>2, Zenon
  <2> QED
    BY <1>6, <2>1, <2>2, <2>3, <2>4, ZenonT(30)
<1>9. Range(u) = Range(s) \union Range(t)
  <2>1. ASSUME NEW k \in DOMAIN u PROVE u[k] \in Range(s) \union Range(t)
    <3>1. CASE k \in 1 .. Len(s)
      BY <1>1, <1>5, <3>1, Zenon DEF Range
    <3>2. CASE \E i \in 1 .. Len(t) : k = Len(s) + i
      BY <1>1, <1>5, <3>2, ZenonT(30) DEF Range
    <3> QED
      BY <1>6, <3>1, <3>2, ZenonT(30)
  <2>2. \A x \in Range(s) : x \in Range(u)
    BY <1>1, <1>5, Zenon DEF Range
  <2>3. \A x \in Range(t) : x \in Range(u)
    BY <1>1, <1>5, Zenon DEF Range
  <2>4. Range(u) \subseteq Range(s) \union Range(t)
    BY <2>1, Zenon DEF Range
  <2> QED
    BY <2>2, <2>3, <2>4, Zenon
<1> QED
  BY <1>3, <1>8, <1>9, Zenon

(* The test on addresses leaves the entries of the kernel out.              *)
LEMMA KernelOutside == \A n \in KernelNodes : n[1] # 0 /\ Outside(n)
<1> DEFINE C == PAGETABLE_PTE_COUNT * PAGETABLE_PTE_COUNT * PAGETABLE_PTE_COUNT
<1>1. C \in Nat /\ VA_MAX \in Nat /\ KernelHalf \subseteq Nat
  BY MemoryAssumption
<1>2. \A x \in KernelHalf : VA_MAX <= x * C
  BY MemoryAssumption, Zenon
<1>3. ASSUME NEW n \in KernelNodes PROVE n[1] # 0 /\ Outside(n)
  <2>1. PICK x \in KernelHalf : n = <<3, x>>
    BY Zenon DEF KernelNodes
  <2>2. Outside(n) <=> \/ (x + 1) * C >= VA_MAX /\ x * C >= VA_MAX
                       \/ (x + 1) * C < VA_MIN /\ x * C < VA_MIN
    BY <2>1 DEF Outside
  <2> HIDE DEF C
  <2>3. x \in Nat /\ x * C >= VA_MAX
    BY <1>1, <1>2
  <2>4. (x + 1) * C = x * C + C /\ x * C \in Nat
    BY <1>1, <2>3
  <2>5. (x + 1) * C >= VA_MAX
    BY <1>1, <2>3, <2>4
  <2> QED
    BY <2>1, <2>2, <2>3, <2>5
<1> QED
  BY <1>3, Zenon

(* vmm_user_pagetable_free gives back frames of the process only, each of   *)
(* them once.                                                               *)
LEMMA Freed ==
  ASSUME NEW root, NEW e, Separate(root, e), NEW free \in Seq(Nat), IsInjective(free),
         Own(root, e) \intersect Range(free) = {}
  PROVE  /\ kfree(vmm_user_pagetable_free(root, e), free) \in Seq(Nat)
         /\ IsInjective(kfree(vmm_user_pagetable_free(root, e), free))
         /\ Range(kfree(vmm_user_pagetable_free(root, e), free))
              \subseteq Range(free) \union Own(root, e)
<1> DEFINE all == WithKernel(e)
           X == {n \in DOMAIN all : /\ all[n].present
                                    /\ IF n[1] = 0 THEN n[2] \in Stacks ELSE ~Outside(n)}
           order == InOrder(X)
           size == Cardinality(X)
           A == Addresses(all, X)
<1>0. /\ DOMAIN all = DOMAIN e \union KernelNodes
      /\ \A n \in DOMAIN e \ KernelNodes : all[n] = e[n]
  BY Zenon DEF WithKernel
<1>a. \A n \in X : n \in DOMAIN e /\ n \notin KernelNodes /\ all[n].present
  <2>1. ASSUME NEW n \in KernelNodes, n \in X PROVE FALSE
    <3>1. n[1] # 0 /\ Outside(n)
      BY KernelOutside, Zenon
    <3> HIDE DEF all
    <3> QED
      BY <2>1, <3>1, Zenon
  <2> HIDE DEF all
  <2> QED
    BY <1>0, <2>1, ZenonT(30)
<1> HIDE DEF all
<1>1. X \subseteq Mapped(e) /\ \A n \in X : all[n] = e[n]
  <2> HIDE DEF X
  <2> QED
    BY <1>0, <1>a, Zenon DEF Mapped
<1>2. X \in SUBSET Nodes /\ IsFiniteSet(X)
  <2> HIDE DEF X
  <2> QED
    BY <1>1, FS_Subset, Zenon DEF Separate
<1>3. size \in Nat
  <2> HIDE DEF X
  <2> QED
    BY <1>2, FS_CardinalityType, Zenon
<1>4. /\ order \in [1 .. size -> X]
      /\ \A i, j \in 1 .. size : order[i] = order[j] => i = j
  <2> HIDE DEF X
  <2> QED
    BY <1>2, InOrderLists, ZenonT(30)
<1>5. A = [i \in 1 .. size |-> e[order[i]].address]
  <2>1. DOMAIN order = 1 .. size
    BY <1>4, Zenon
  <2> HIDE DEF X
  <2>2. A = [i \in 1 .. size |-> all[order[i]].address]
    BY <2>1, ZenonT(30) DEF Addresses
  <2>3. \A i \in 1 .. size : all[order[i]].address = e[order[i]].address
    BY <1>1, <1>4, Zenon
  <2> HIDE DEF order, size, A
  <2> QED
    BY <2>2, <2>3
<1> HIDE DEF X, order, size, A
<1>6. \A i \in 1 .. size : /\ order[i] \in Mapped(e) /\ e[order[i]].address \in Nat
                        /\ e[order[i]].address # root
  BY <1>1, <1>4, Zenon DEF Separate
<1>7. A \in [1 .. size -> Nat] /\ DOMAIN A = 1 .. size
  BY <1>5, <1>6, Zenon
<1>8. A \in Seq(Nat)
  BY <1>3, <1>7, SeqDef, ZenonT(30)
<1>9. IsInjective(A)
  <2> SUFFICES ASSUME NEW i \in 1 .. size, NEW j \in 1 .. size, A[i] = A[j] PROVE i = j
    BY <1>7, Zenon DEF IsInjective
  <2>1. e[order[i]].address = e[order[j]].address
    BY <1>5, Zenon
  <2>2. order[i] = order[j]
    BY <1>6, <2>1, Zenon DEF Separate
  <2> QED
    BY <1>4, <2>2, Zenon
<1>10. Range(A) \subseteq Own(root, e) \ {root}
  BY <1>5, <1>6, <1>7, Zenon DEF Range, Own
<1>11. <<root>> \in Seq(Nat) /\ IsInjective(<<root>>) /\ Range(<<root>>) = {root}
  BY DEF Separate, IsInjective, Range
<1>12. /\ A \o <<root>> \in Seq(Nat) /\ IsInjective(A \o <<root>>)
       /\ Range(A \o <<root>>) = Range(A) \union Range(<<root>>)
  <2>1. Range(A) \intersect Range(<<root>>) = {}
    BY <1>10, <1>11, Zenon
  <2> QED
    BY <1>8, <1>9, <1>11, <2>1, Joined, ZenonT(30)
<1>13. PICK L \in Seq(Nat) : L = A \o <<root>>
  BY <1>12, ZenonT(30)
<1>14. Range(L) \subseteq Own(root, e) /\ IsInjective(L)
  BY <1>10, <1>11, <1>12, <1>13, ZenonT(30) DEF Own
<1>15. Range(L) \intersect Range(free) = {}
  BY <1>14, Zenon
<1>16. /\ L \o free \in Seq(Nat) /\ IsInjective(L \o free)
       /\ Range(L \o free) = Range(L) \union Range(free)
  BY <1>14, <1>15, Joined, Zenon
<1>17. /\ Sorted(L \o free) \in Seq(Nat) /\ IsInjective(Sorted(L \o free))
       /\ Range(Sorted(L \o free)) = Range(L \o free)
  BY <1>16, SortedKeeps, ZenonT(30)
<1>18. kfree(vmm_user_pagetable_free(root, e), free) = Sorted(L \o free)
  BY <1>13, ZenonT(30) DEF kfree, vmm_user_pagetable_free, A, X, all
<1> QED
  BY <1>14, <1>16, <1>17, <1>18, Zenon

-----------------------------------------------------------------------------
(* The free frames after the first n of them.                               *)
LEMMA Dropped ==
  ASSUME freepages \in Seq(Nat), IsInjective(freepages), NEW n \in Nat, n <= Len(freepages)
  PROVE  /\ Drop(n) \in Seq(Nat) /\ Len(Drop(n)) = Len(freepages) - n
         /\ IsInjective(Drop(n))
         /\ \A i \in 1 .. Len(freepages) - n :
              n + i \in 1 .. Len(freepages) /\ Drop(n)[i] = freepages[n + i]
         /\ Range(Drop(n)) \subseteq Range(freepages)
         /\ \A i \in 1 .. n : freepages[i] \notin Range(Drop(n))
<1> DEFINE size == Len(freepages)
<1>1. size \in Nat /\ DOMAIN freepages = 1 .. size /\ \A i \in 1 .. size : freepages[i] \in Nat
  BY LenProperties, Zenon
<1>2. n + 1 \in Int /\ size \in Int /\ \A i \in n + 1 .. size : freepages[i] \in Nat
  BY <1>1
<1>3. /\ Drop(n) \in Seq(Nat)
      /\ Len(Drop(n)) = IF n + 1 <= size THEN size - (n + 1) + 1 ELSE 0
      /\ \A i \in 1 .. size - (n + 1) + 1 : Drop(n)[i] = freepages[(n + 1) + i - 1]
  BY <1>2, SubSeqProperties DEF Drop
<1>4. PICK t \in Seq(Nat) : t = Drop(n)
  BY <1>3, Zenon
<1>0. n <= size
  BY Zenon
<1> HIDE DEF size
<1>5. Len(t) = size - n /\ size - (n + 1) + 1 = size - n
  <2>1. Len(t) = IF n + 1 <= size THEN size - (n + 1) + 1 ELSE 0
    BY <1>3, <1>4, Zenon
  <2> QED
    BY <1>0, <1>1, <2>1
<1>6. \A i \in 1 .. size - n : n + i \in 1 .. size /\ (n + 1) + i - 1 = n + i
  BY <1>1
<1>7. \A i \in 1 .. size - n : t[i] = freepages[n + i]
  BY <1>3, <1>4, <1>5, <1>6, ZenonT(30)
<1>8. DOMAIN t = 1 .. size - n
  BY <1>5, LenProperties, Zenon
<1>9. \A i, j \in 1 .. size : freepages[i] = freepages[j] => i = j
  BY <1>1, ZenonT(30) DEF IsInjective
<1>10. IsInjective(t)
  <2> SUFFICES ASSUME NEW i \in 1 .. size - n, NEW j \in 1 .. size - n, t[i] = t[j] PROVE i = j
    BY <1>8, Zenon DEF IsInjective
  <2>1. n + i = n + j
    BY <1>6, <1>7, <1>9, ZenonT(30)
  <2> QED
    BY <1>1, <2>1
<1>11. Range(t) \subseteq Range(freepages)
  <2>1. DOMAIN freepages = 1 .. size
    BY <1>1, LenProperties, Zenon DEF size
  <2> SUFFICES ASSUME NEW x \in Range(t) PROVE x \in Range(freepages)
    BY Zenon
  <2>2. PICK i \in 1 .. size - n : x = t[i]
    BY <1>8, Zenon DEF Range
  <2>3. n + i \in 1 .. size /\ x = freepages[n + i]
    BY <1>6, <1>7, <2>2, Zenon
  <2> QED
    BY <2>1, <2>3, Zenon DEF Range
<1>12. ASSUME NEW i \in 1 .. n PROVE freepages[i] \notin Range(t)
  <2>1. i \in 1 .. size
    BY <1>1 DEF size
  <2>2. \A j \in 1 .. size - n : n + j # i
    BY <1>1
  <2>3. \A j \in 1 .. size - n : t[j] # freepages[i]
    BY <1>6, <1>7, <1>9, <2>1, <2>2, ZenonT(30)
  <2> QED
    BY <1>8, <2>3, Zenon DEF Range
<1>13. Len(Drop(n)) = Len(freepages) - n
  BY <1>4, <1>5, Zenon DEF size
<1>14. \A i \in 1 .. Len(freepages) - n :
         n + i \in 1 .. Len(freepages) /\ Drop(n)[i] = freepages[n + i]
  BY <1>4, <1>6, <1>7, ZenonT(30) DEF size
<1> QED
  BY <1>4, <1>10, <1>11, <1>12, <1>13, <1>14, ZenonT(30)

(* The entries on the way to finitely many pages.                           *)
LEMMA PathNodes ==
  ASSUME NEW P \in SUBSET Nat, IsFiniteSet(P)
  PROVE  Paths(P) \in SUBSET Nodes /\ IsFiniteSet(Paths(P))
<1> DEFINE C == PAGETABLE_PTE_COUNT
<1>1. C \in Nat \ {0} /\ C * C \in Nat \ {0} /\ C * C * C \in Nat \ {0}
  BY MemoryAssumption
<1>2. ASSUME NEW x \in Nat PROVE Path(x) \in SUBSET Nodes
  <2>1. x \div C \in Nat /\ x \div (C * C) \in Nat /\ x \div (C * C * C) \in Nat
    <3>1. \A d \in Nat \ {0} : x \div d \in Nat
      OBVIOUS
    <3> HIDE DEF C
    <3> QED
      BY <1>1, <3>1, Zenon
  <2> QED
    BY <2>1 DEF Path, Nodes
<1>3. Paths(P) \in SUBSET Nodes
  BY <1>2, Zenon DEF Paths
<1>4. ASSUME NEW x \in Nat PROVE IsFiniteSet(Path(x))
  <2>1. ASSUME NEW a, NEW b, NEW c, NEW d PROVE IsFiniteSet({a, b, c, d})
    <3>1. IsFiniteSet({a}) /\ IsFiniteSet({b}) /\ IsFiniteSet({c}) /\ IsFiniteSet({d})
      BY FS_Singleton, ZenonT(30)
    <3>2. IsFiniteSet({a} \union {b}) /\ IsFiniteSet({c} \union {d})
      BY <3>1, FS_Union, ZenonT(30)
    <3>3. IsFiniteSet(({a} \union {b}) \union ({c} \union {d}))
      BY <3>2, FS_Union, ZenonT(30)
    <3>4. ({a} \union {b}) \union ({c} \union {d}) = {a, b, c, d}
      BY Zenon
    <3> QED
      BY <3>3, <3>4, Zenon
  <2> QED
    BY <2>1, ZenonT(30) DEF Path
<1> DEFINE f == [x \in P |-> Path(x)]
           T == {Path(x) : x \in P}
<1>5. f \in Surjection(P, T)
  BY Zenon DEF Surjection
<1>6. IsFiniteSet(T)
  <2> HIDE DEF f, T
  <2> QED
    BY <1>5, FS_Surjection, Zenon
<1>7. \A S \in T : IsFiniteSet(S)
  BY <1>4, Zenon
<1>8. IsFiniteSet(UNION T)
  <2> HIDE DEF T
  <2> QED
    BY <1>6, <1>7, FS_UNION, Zenon
<1> QED
  BY <1>3, <1>8, Zenon DEF Paths

(* New entries have different frames, all of them among the first of s.     *)
LEMMA Takes ==
  ASSUME NEW new \in SUBSET Nodes, IsFiniteSet(new),
         NEW s \in Seq(Nat), IsInjective(s), Cardinality(new) <= Len(s)
  PROVE  /\ \A n \in new : \E i \in 1 .. Cardinality(new) : Fresh(new, s)[n].address = s[i]
         /\ \A m, n \in new : Fresh(new, s)[m].address = Fresh(new, s)[n].address => m = n
<1> DEFINE order == InOrder(new)
           size == Cardinality(new)
           at(n) == CHOOSE i \in DOMAIN order : order[i] = n
<1>1. /\ order \in [1 .. size -> new]
      /\ \A n \in new : \E i \in 1 .. size : order[i] = n
  BY InOrderLists, Zenon
<1>2. DOMAIN order = 1 .. size
  BY <1>1, Zenon
<1>3. size \in Nat /\ Len(s) \in Nat /\ DOMAIN s = 1 .. Len(s)
  BY FS_CardinalityType, LenProperties, Zenon
<1> HIDE DEF order, size
<1>4. \A n \in new : at(n) \in 1 .. size /\ order[at(n)] = n
  BY <1>1, <1>2, Zenon
<1>5. \A n \in new : Fresh(new, s)[n].address = s[at(n)]
  BY Zenon DEF Fresh, order
<1> HIDE DEF at
<1>6. \A n \in new : at(n) \in DOMAIN s
  BY <1>3, <1>4 DEF size
<1>7. \A m, n \in new : s[at(m)] = s[at(n)] => m = n
  BY <1>4, <1>6, ZenonT(30) DEF IsInjective
<1>8. \A n \in new : \E i \in 1 .. Cardinality(new) : Fresh(new, s)[n].address = s[i]
  BY <1>4, <1>5, Zenon DEF size
<1>9. \A m, n \in new : Fresh(new, s)[m].address = Fresh(new, s)[n].address => m = n
  BY <1>5, <1>7, ZenonT(30)
<1> QED
  BY <1>8, <1>9, Zenon

(* What vmm_allocate adds to a page table has frames from s.                *)
LEMMA AllocFrames ==
  ASSUME NEW e, NEW P \in SUBSET Nat, IsFiniteSet(P),
         NEW s \in Seq(Nat), IsInjective(s), Allocated(e, P) <= Len(s),
         NEW a, a = vmm_allocate(e, P, s)
  PROVE  /\ \A n \in Mapped(e) : a[n] = e[n]
         /\ \A n \in Mapped(a) \ Mapped(e) : \E i \in 1 .. Allocated(e, P) : a[n].address = s[i]
         /\ \A m, n \in Mapped(a) \ Mapped(e) : a[m].address = a[n].address => m = n
<1> DEFINE new == {n \in Paths(P) : n \in DOMAIN e => ~e[n].present}
<1>1. a = [n \in DOMAIN e \union new |-> IF n \in new THEN Fresh(new, s)[n] ELSE e[n]]
  BY ZenonT(30) DEF vmm_allocate
<1>2. Allocated(e, P) = Cardinality(new)
  BY ZenonT(30) DEF Allocated
<1>3. new \in SUBSET Nodes /\ IsFiniteSet(new)
  <2>1. new \subseteq Paths(P)
    BY Zenon
  <2> HIDE DEF new
  <2> QED
    BY <2>1, PathNodes, FS_Subset, Zenon
<1>4. \A n \in Mapped(e) : n \in DOMAIN e /\ n \notin new
  BY ZenonT(30) DEF Mapped
<1> HIDE DEF new
<1>5. /\ \A n \in new : \E i \in 1 .. Cardinality(new) : Fresh(new, s)[n].address = s[i]
      /\ \A m, n \in new : Fresh(new, s)[m].address = Fresh(new, s)[n].address => m = n
  BY <1>2, <1>3, Takes
<1>6. /\ \A n \in Mapped(e) : a[n] = e[n]
      /\ \A n \in new : a[n] = Fresh(new, s)[n]
      /\ DOMAIN a = DOMAIN e \union new
  BY <1>1, <1>4, Zenon
<1>7. \A n \in DOMAIN a \ new : n \in DOMAIN e /\ a[n] = e[n]
  BY <1>1, Zenon
<1>8. \A n \in Mapped(a) \ Mapped(e) : n \in new
  BY <1>6, <1>7, ZenonT(30) DEF Mapped
<1>9. \A n \in Mapped(a) \ Mapped(e) : \E i \in 1 .. Allocated(e, P) : a[n].address = s[i]
  <2> SUFFICES ASSUME NEW n \in Mapped(a) \ Mapped(e)
               PROVE  \E i \in 1 .. Allocated(e, P) : a[n].address = s[i]
    BY Zenon
  <2>1. n \in new /\ a[n] = Fresh(new, s)[n]
    BY <1>6, <1>8, Zenon
  <2> QED
    BY <1>2, <1>5, <2>1, Zenon
<1>10. \A m, n \in Mapped(a) \ Mapped(e) : a[m].address = a[n].address => m = n
  <2> SUFFICES ASSUME NEW m \in Mapped(a) \ Mapped(e), NEW n \in Mapped(a) \ Mapped(e),
                      a[m].address = a[n].address
               PROVE  m = n
    BY Zenon
  <2>1. /\ m \in new /\ a[m] = Fresh(new, s)[m]
        /\ n \in new /\ a[n] = Fresh(new, s)[n]
    BY <1>6, <1>8, Zenon
  <2> QED
    BY <1>5, <2>1, Zenon
<1> QED
  BY <1>6, <1>9, <1>10, ZenonT(30)

(* Finitely many pages take finitely many frames.                           *)
LEMMA AllocatedNat ==
  ASSUME NEW e, NEW P \in SUBSET Nat, IsFiniteSet(P)
  PROVE  Allocated(e, P) \in Nat
<1> DEFINE new == {n \in Paths(P) : n \in DOMAIN e => ~e[n].present}
<1>1. new \subseteq Paths(P)
  BY Zenon
<1>2. Allocated(e, P) = Cardinality(new)
  BY ZenonT(30) DEF Allocated
<1>3. IsFiniteSet(Paths(P))
  BY PathNodes, Zenon
<1> HIDE DEF new
<1> QED
  BY <1>1, <1>2, <1>3, FS_Subset, FS_CardinalityType, Zenon

(* A page table whose frames are not in s keeps them distinct when it grows *)
(* by frames from s.                                                        *)
LEMMA Grown ==
  ASSUME NEW root, NEW e, Separate(root, e), NEW P \in SUBSET Nat, IsFiniteSet(P),
         NEW s \in Seq(Nat), IsInjective(s), Allocated(e, P) <= Len(s),
         Own(root, e) \intersect Range(s) = {}
  PROVE  /\ Separate(root, vmm_allocate(e, P, s))
         /\ Allocated(e, P) \in Nat
         /\ Own(root, vmm_allocate(e, P, s)) \subseteq
              Own(root, e) \union {s[i] : i \in 1 .. Allocated(e, P)}
<1>1. PICK a : a = vmm_allocate(e, P, s)
  BY Zenon
<1>2. /\ \A n \in Mapped(e) : a[n] = e[n]
      /\ \A n \in Mapped(a) \ Mapped(e) : \E i \in 1 .. Allocated(e, P) : a[n].address = s[i]
      /\ \A m, n \in Mapped(a) \ Mapped(e) : a[m].address = a[n].address => m = n
  BY <1>1, AllocFrames
<1>3. Paths(P) \in SUBSET Nodes /\ IsFiniteSet(Paths(P))
  BY PathNodes, Zenon
<1>4. Mapped(a) = Mapped(e) \union Paths(P)
  BY <1>1, Allocates, Zenon
<1>0. /\ Mapped(e) \in SUBSET Nodes /\ IsFiniteSet(Mapped(e))
      /\ \A n \in Mapped(e) : e[n].address \in Nat /\ e[n].address # root
      /\ \A m, n \in Mapped(e) : e[m].address = e[n].address => m = n
  BY Zenon DEF Separate
<1>5. Mapped(a) \in SUBSET Nodes /\ IsFiniteSet(Mapped(a))
  <2>1. IsFiniteSet(Mapped(e) \union Paths(P))
    BY <1>0, <1>3, FS_Union, ZenonT(30)
  <2> QED
    BY <1>0, <1>3, <1>4, <2>1, Zenon
<1>6. Allocated(e, P) \in Nat
  BY AllocatedNat, Zenon
<1>7. Len(s) \in Nat /\ DOMAIN s = 1 .. Len(s) /\ \A i \in 1 .. Len(s) : s[i] \in Nat
  BY LenProperties, Zenon
<1>8. \A i \in 1 .. Allocated(e, P) : s[i] \in Nat /\ s[i] \in Range(s)
  BY <1>6, <1>7 DEF Range
<1>9. \A i \in 1 .. Allocated(e, P) : s[i] # root /\ \A n \in Mapped(e) : s[i] # e[n].address
  BY <1>8, Zenon DEF Own
<1>10. \A n \in Mapped(a) : a[n].address \in Nat /\ a[n].address # root
  <2> SUFFICES ASSUME NEW n \in Mapped(a)
               PROVE  a[n].address \in Nat /\ a[n].address # root
    BY Zenon
  <2>1. CASE n \in Mapped(e)
    BY <1>0, <1>2, <2>1, Zenon
  <2>2. CASE n \notin Mapped(e)
    BY <1>2, <1>8, <1>9, <2>2, ZenonT(30)
  <2> QED
    BY <2>1, <2>2, Zenon
<1>11. \A m, n \in Mapped(a) : a[m].address = a[n].address => m = n
  <2> SUFFICES ASSUME NEW m \in Mapped(a), NEW n \in Mapped(a), a[m].address = a[n].address
               PROVE  m = n
    BY Zenon
  <2>1. CASE m \in Mapped(e) /\ n \in Mapped(e)
    BY <1>0, <1>2, <2>1, Zenon
  <2>2. CASE m \in Mapped(e) /\ n \notin Mapped(e)
    <3>1. PICK i \in 1 .. Allocated(e, P) : a[n].address = s[i]
      BY <1>2, <2>2, ZenonT(30)
    <3> QED
      BY <1>2, <1>9, <2>2, <3>1, ZenonT(30)
  <2>3. CASE m \notin Mapped(e) /\ n \in Mapped(e)
    <3>1. PICK i \in 1 .. Allocated(e, P) : a[m].address = s[i]
      BY <1>2, <2>3, Zenon
    <3> QED
      BY <1>2, <1>9, <2>3, <3>1, ZenonT(30)
  <2>4. CASE m \notin Mapped(e) /\ n \notin Mapped(e)
    BY <1>2, <2>4, ZenonT(30)
  <2> QED
    BY <2>1, <2>2, <2>3, <2>4, Zenon
<1>12. Separate(root, a)
  BY <1>5, <1>10, <1>11, ZenonT(30) DEF Separate
<1>13. ASSUME NEW n \in Mapped(a)
       PROVE  a[n].address \in Own(root, e) \union {s[i] : i \in 1 .. Allocated(e, P)}
  <2>1. CASE n \in Mapped(e)
    BY <1>2, <2>1, ZenonT(30) DEF Own
  <2>2. CASE n \notin Mapped(e)
    BY <1>2, <2>2, ZenonT(30)
  <2> QED
    BY <2>1, <2>2, ZenonT(30)
<1>14. Own(root, a) \subseteq Own(root, e) \union {s[i] : i \in 1 .. Allocated(e, P)}
  BY <1>13, ZenonT(30) DEF Own
<1> QED
  BY <1>1, <1>6, <1>12, <1>14, Zenon

-----------------------------------------------------------------------------
(* A step of p that moves frames only between the free list and p.          *)
LEMMA FramesMove ==
  ASSUME FrameInv, scenario' = scenario, ~scenario.shrinks, NEW p \in Procs,
         \A q \in Procs \ {p} : pagetables'[q] = pagetables[q] /\ ptes'[q] = ptes[q],
         freepages' \in Seq(Nat), IsInjective(freepages'),
         pagetables'[p] # NULL => Separate(pagetables'[p], ptes'[p]),
         Mine(p)' \intersect Range(freepages') = {},
         Mine(p)' \subseteq Mine(p) \union Range(freepages),
         Range(freepages') \subseteq Mine(p) \union Range(freepages)
  PROVE  FrameInv'
<1>1. /\ \A q \in Procs : pagetables[q] # NULL => Separate(pagetables[q], ptes[q])
      /\ \A q \in Procs : Mine(q) \intersect Range(freepages) = {}
      /\ \A q, r \in Procs : q # r => Mine(q) \intersect Mine(r) = {}
      /\ Range(freepages) \subseteq Frames /\ \A q \in Procs : Mine(q) \subseteq Frames
  BY ZenonT(30) DEF FrameInv
<1>0. Frames' = Frames
  BY Zenon DEF Frames
<1>2. \A q \in Procs \ {p} : Mine(q)' = Mine(q)
  BY ZenonT(30) DEF Mine
<1>3. ASSUME NEW q \in Procs
      PROVE  /\ pagetables'[q] # NULL => Separate(pagetables'[q], ptes'[q])
             /\ Mine(q)' \intersect Range(freepages') = {}
  <2>1. CASE q = p
    BY <2>1, Zenon
  <2>2. CASE q # p
    <3>1. Mine(q) \intersect Mine(p) = {} /\ Mine(q) \intersect Range(freepages) = {}
      BY <1>1, <2>2, ZenonT(30)
    <3>2. Mine(q)' \intersect Range(freepages') = {}
      BY <1>2, <2>2, <3>1, Zenon
    <3>3. pagetables'[q] # NULL => Separate(pagetables'[q], ptes'[q])
      BY <1>1, <2>2, ZenonT(30)
    <3> QED
      BY <3>2, <3>3, Zenon
  <2> QED
    BY <2>1, <2>2, Zenon
<1>4. ASSUME NEW q \in Procs, NEW r \in Procs, q # r
      PROVE  Mine(q)' \intersect Mine(r)' = {}
  <2>1. CASE q = p
    <3>1. Mine(r) \intersect Mine(p) = {} /\ Mine(r) \intersect Range(freepages) = {}
      BY <1>1, <1>4, <2>1, Zenon
    <3> QED
      BY <1>2, <1>4, <2>1, <3>1, ZenonT(30)
  <2>2. CASE r = p
    <3>1. Mine(q) \intersect Mine(p) = {} /\ Mine(q) \intersect Range(freepages) = {}
      BY <1>1, <1>4, <2>2, Zenon
    <3> QED
      BY <1>2, <1>4, <2>2, <3>1, ZenonT(30)
  <2>3. CASE q # p /\ r # p
    BY <1>1, <1>2, <1>4, <2>3, ZenonT(30)
  <2> QED
    BY <2>1, <2>2, <2>3, Zenon
<1>5. Range(freepages') \subseteq Frames /\ Mine(p)' \subseteq Frames
  BY <1>1, Zenon
<1>6. Range(freepages)' \subseteq Frames' /\ \A q \in Procs : Mine(q)' \subseteq Frames'
  <2>1. ASSUME NEW q \in Procs PROVE Mine(q)' \subseteq Frames
    <3>1. CASE q = p
      BY <1>5, <3>1, Zenon
    <3>2. CASE q # p
      <4>1. Mine(q)' = Mine(q) /\ Mine(q) \subseteq Frames
        BY <1>1, <1>2, <3>2, Zenon
      <4> QED
        BY <4>1, Zenon
    <3> QED
      BY <3>1, <3>2, Zenon
  <2> QED
    BY <1>0, <1>5, <2>1, Zenon
<1> QED
  BY <1>3, <1>4, <1>6, ZenonT(30) DEF FrameInv

(* vmm_user_pagetable_new and the loading of the segments take the root,    *)
(* the copies of the tables of the kernel and the frames of the entries     *)
(* from the list, one after the other: what they take is no longer free.    *)
LEMMA NewTable ==
  ASSUME freepages \in Seq(Nat), IsInjective(freepages), NEW pages \in Images,
         UserFrames(pages) <= Len(freepages)
  PROVE  /\ Separate(UserRoot, UserEntries(pages))
         /\ UserFrames(pages) \in Nat
         /\ Own(UserRoot, UserEntries(pages)) \subseteq Range(freepages)
         /\ Own(UserRoot, UserEntries(pages)) \intersect Range(Drop(UserFrames(pages))) = {}
<1> DEFINE k == 1 + KernelTables
<1>1. PICK P : P = pages \union Stacks
  BY Zenon
<1>2. P \in SUBSET Nat /\ IsFiniteSet(P)
  <2>1. pages \subseteq VA_MIN .. USER_STACK - 2 /\ VA_MIN \in Nat /\ USER_STACK \in Nat
    BY MemoryAssumption, Zenon
  <2>2. IsFiniteSet(VA_MIN .. USER_STACK - 2)
    BY <2>1, FS_Interval
  <2>3. IsFiniteSet(pages)
    BY <2>1, <2>2, FS_Subset, ZenonT(30)
  <2>4. IsFiniteSet(Stacks)
    <3>1. IsFiniteSet({})
      BY FS_EmptySet, Zenon
    <3>2. IsFiniteSet({} \union {USER_STACK})
      BY <3>1, FS_AddElement, ZenonT(30)
    <3>3. IsFiniteSet(({} \union {USER_STACK}) \union {INTSTACK})
      BY <3>2, FS_AddElement, ZenonT(30)
    <3>4. IsFiniteSet((({} \union {USER_STACK}) \union {INTSTACK}) \union {SYSCALLSTACK})
      BY <3>3, FS_AddElement, ZenonT(30)
    <3>5. Stacks = (({} \union {USER_STACK}) \union {INTSTACK}) \union {SYSCALLSTACK}
      BY Zenon DEF Stacks
    <3> QED
      BY <3>4, <3>5, ZenonT(30)
  <2>5. IsFiniteSet(P)
    BY <1>1, <2>3, <2>4, FS_Union, ZenonT(30)
  <2>6. pages \subseteq Nat
    BY <2>1
  <2>7. Stacks \subseteq Nat
    BY MemoryAssumption, Zenon DEF Stacks
  <2> QED
    BY <1>1, <2>5, <2>6, <2>7, Zenon
<1>3. PICK a : a = Allocated(NoEntries, P)
  BY ZenonT(30)
<1>4. a \in Nat
  BY <1>2, <1>3, AllocatedNat, Zenon
<1>5. KernelTables \in Nat /\ k \in Nat /\ Len(freepages) \in Nat
  BY MemoryAssumption, LenProperties
<1>6. UserFrames(pages) = k + a
  BY <1>1, <1>3, <1>5, Zenon DEF UserFrames
<1>7. k <= Len(freepages) /\ k + a <= Len(freepages) /\ 1 \in 1 .. k /\ 1 \in 1 .. k + a
      /\ 1 \in 1 .. Len(freepages) /\ k + a \in Nat
  BY <1>4, <1>5, <1>6
<1> HIDE DEF k
<1>8. PICK s \in Seq(Nat) : s = Drop(k)
  BY <1>5, <1>7, Dropped, Zenon
<1>9. /\ Len(s) = Len(freepages) - k /\ IsInjective(s)
      /\ \A i \in 1 .. Len(freepages) - k :
           k + i \in 1 .. Len(freepages) /\ s[i] = freepages[k + i]
      /\ \A i \in 1 .. k : freepages[i] \notin Range(s)
  BY <1>5, <1>7, <1>8, Dropped, ZenonT(30)
<1>10. UserRoot \notin Range(s) /\ UserRoot \in Nat /\ UserRoot \in Range(freepages)
  <2>1. UserRoot = freepages[1] /\ UserRoot \notin Range(s)
    BY <1>7, <1>9, Zenon DEF UserRoot
  <2>2. DOMAIN freepages = 1 .. Len(freepages) /\ freepages[1] \in Nat
    BY <1>7, LenProperties, Zenon
  <2> QED
    BY <1>7, <2>1, <2>2, Zenon DEF Range
<1>11. Separate(UserRoot, NoEntries) /\ Own(UserRoot, NoEntries) = {UserRoot}
  BY <1>10, NothingMapped, FS_EmptySet, Zenon DEF Separate, Own
<1>12. a <= Len(s)
  BY <1>4, <1>5, <1>7, <1>9
<1>13. Own(UserRoot, NoEntries) \intersect Range(s) = {}
  BY <1>10, <1>11, Zenon
<1>14. /\ Separate(UserRoot, vmm_allocate(NoEntries, P, s))
       /\ Own(UserRoot, vmm_allocate(NoEntries, P, s)) \subseteq
            Own(UserRoot, NoEntries) \union {s[i] : i \in 1 .. Allocated(NoEntries, P)}
  <2>1. P \in SUBSET Nat /\ IsFiniteSet(P) /\ Allocated(NoEntries, P) <= Len(s)
    BY <1>2, <1>3, <1>12, Zenon
  <2>2. /\ Separate(UserRoot, NoEntries) /\ IsInjective(s)
        /\ Own(UserRoot, NoEntries) \intersect Range(s) = {}
    BY <1>9, <1>11, <1>13, Zenon
  <2> QED
    BY <2>1, <2>2, Grown, SMTT(30)
<1>15. UserEntries(pages) = vmm_allocate(NoEntries, P, s)
  BY <1>1, <1>8, ZenonT(30) DEF UserEntries, k
<1>16. /\ Separate(UserRoot, UserEntries(pages))
       /\ Own(UserRoot, UserEntries(pages)) \subseteq
            {UserRoot} \union {s[i] : i \in 1 .. a}
  BY <1>3, <1>11, <1>14, <1>15, ZenonT(30)
<1>17. ASSUME NEW i \in 1 .. a
       PROVE  s[i] \in Range(freepages) /\ s[i] \notin Range(Drop(k + a))
  <2>1. i \in 1 .. Len(freepages) - k /\ k + i \in 1 .. k + a
    BY <1>4, <1>5, <1>7
  <2>2. s[i] = freepages[k + i] /\ k + i \in 1 .. Len(freepages)
    BY <1>9, <2>1, Zenon
  <2>3. s[i] \in Range(freepages)
    BY <2>2 DEF Range
  <2>4. freepages[k + i] \notin Range(Drop(k + a))
    BY <1>7, <2>1, Dropped, Zenon
  <2> QED
    BY <2>2, <2>3, <2>4, Zenon
<1>18. UserRoot \notin Range(Drop(k + a))
  BY <1>7, Dropped, ZenonT(30) DEF UserRoot
<1>19. {UserRoot} \union {s[i] : i \in 1 .. a} \subseteq Range(freepages)
  BY <1>10, <1>17, ZenonT(30)
<1>20. ({UserRoot} \union {s[i] : i \in 1 .. a}) \intersect Range(Drop(k + a)) = {}
  BY <1>17, <1>18, Zenon
<1> QED
  BY <1>6, <1>7, <1>16, <1>19, <1>20, Zenon

(* Frames that are used once make a list without repetitions.               *)
LEMMA UsableList ==
  ASSUME scenario \in Scenarios, NoFrameShared
  PROVE  /\ freepages \in Seq(Nat) /\ IsInjective(freepages)
         /\ Range(freepages) \subseteq Frames /\ Frames \subseteq Nat \ {0}
<1> DEFINE I == 1 .. Len(freepages)
<1>1. scenario.frames \in Nat
  BY MemoryAssumption, Zenon
<1>2. Frames \subseteq Nat \ {0}
  BY <1>1 DEF Frames
<1>3. freepages \in Seq(Frames) /\ Cardinality(Range(freepages)) = Len(freepages)
  BY Zenon DEF NoFrameShared
<1>4. Len(freepages) \in Nat /\ DOMAIN freepages = I /\ freepages \in [I -> Frames]
  BY <1>3, LenProperties, Zenon
<1>5. freepages \in Seq(Nat)
  <2>1. freepages \in [I -> Nat]
    BY <1>2, <1>4, Zenon
  <2> HIDE DEF I
  <2> QED
    BY <1>4, <2>1, SeqDef, ZenonT(30) DEF I
<1>6. Range(freepages) \subseteq Frames
  BY <1>4, Zenon DEF Range
<1>7. IsFiniteSet(I) /\ Cardinality(I) = Len(freepages)
  <2>1. /\ IsFiniteSet(1 .. Len(freepages))
        /\ Cardinality(1 .. Len(freepages)) =
             IF 1 > Len(freepages) THEN 0 ELSE Len(freepages) - 1 + 1
    <3>1. 1 \in Int /\ Len(freepages) \in Int
      BY <1>4
    <3> QED
      BY <3>1, FS_Interval, Zenon
  <2> QED
    BY <1>4, <2>1
<1>8. PICK T : T = Range(freepages)
  BY Zenon
<1> HIDE DEF I
<1>9. freepages \in Surjection(I, T)
  BY <1>4, <1>8, ZenonT(30) DEF Surjection, Range
<1>10. freepages \in Injection(I, T)
  BY <1>3, <1>7, <1>8, <1>9, FS_Surjection, Zenon
<1>11. IsInjective(freepages)
  BY <1>10, Zenon DEF Injection
<1> QED
  BY <1>2, <1>5, <1>6, <1>11, Zenon

-----------------------------------------------------------------------------
(* Initially no process has a page table.                                   *)
LEMMA MapInit == MemoryInit => MapInv
<1> SUFFICES ASSUME MemoryInit PROVE MapInv
  BY Zenon
<1>1. 0 < USER_STACK * PAGE_SIZE
  BY MemoryAssumption
<1>2. ASSUME NEW p \in Procs PROVE ProcessMapped(p)
  BY <1>1 DEF ProcessMapped, MemoryInit
<1> QED
  BY <1>2, Zenon DEF MapInv, MemoryInit

(* A step that concerns one process leaves the others as they are.          *)
LEMMA OthersStay ==
  ASSUME MapInv, scenario' = scenario, NEW p \in Procs,
         DOMAIN pagetables' = Procs, DOMAIN ptes' = Procs, DOMAIN image' = Procs,
         DOMAIN initial_data_segment' = Procs, DOMAIN current_sbrk' = Procs,
         \A q \in Procs \ {p} :
           /\ pagetables'[q] = pagetables[q] /\ ptes'[q] = ptes[q] /\ image'[q] = image[q]
           /\ initial_data_segment'[q] = initial_data_segment[q]
           /\ current_sbrk'[q] = current_sbrk[q],
         ProcessMapped(p)'
  PROVE  MapInv'
<1>1. ASSUME NEW q \in Procs \ {p} PROVE ProcessMapped(q)'
  <2>1. Heap(q)' = Heap(q)
    BY ZenonT(30) DEF Heap
  <2>2. ProcessMapped(q)
    BY Zenon DEF MapInv
  <2> QED
    BY <2>1, <2>2, ZenonT(30) DEF ProcessMapped
<1> QED
  BY <1>1, ZenonT(30) DEF MapInv

(* proc_exec maps the image and the stacks, and no heap.                    *)
LEMMA ExecMaps ==
  ASSUME MapInv, NoFrameShared, scenario' = scenario, NEW p \in Procs, NEW pages \in Images,
         proc_exec(p, pages)
  PROVE  MapInv'
<1> DEFINE top == (1 + CHOOSE x \in pages : \A y \in pages : y <= x) * PAGE_SIZE
<1>1. top \in Nat /\ top < USER_STACK * PAGE_SIZE
  BY ImageTop, ZenonT(30)
<1>2. /\ initial_data_segment' = [initial_data_segment EXCEPT ![p] = top]
      /\ current_sbrk' = [current_sbrk EXCEPT ![p] = top]
      /\ pagetables' = [pagetables EXCEPT ![p] = UserRoot]
      /\ ptes' = [ptes EXCEPT ![p] = UserEntries(pages)]
      /\ image' = [image EXCEPT ![p] = pages]
  BY ZenonT(30) DEF proc_exec
<1> HIDE DEF top
<1>3. /\ initial_data_segment'[p] = top /\ current_sbrk'[p] = top
      /\ ptes'[p] = UserEntries(pages) /\ image'[p] = pages
  BY <1>2, Zenon DEF MapInv
<1>4. Mapped(UserEntries(pages)) = Paths(pages \union Stacks)
  <2>1. Mapped(UserEntries(pages)) = Mapped(NoEntries) \union Paths(pages \union Stacks)
    BY Allocates, Zenon DEF UserEntries
  <2> QED
    BY <2>1, NothingMapped, Zenon
<1>5. Heap(p)' = {}
  <2>1. ASSUME NEW x \in 0 .. MaxBreak, top <= x * PAGE_SIZE, x * PAGE_SIZE < top PROVE FALSE
    BY <1>1, <2>1, MemoryAssumption
  <2>2. ASSUME NEW x \in Heap(p)' PROVE FALSE
    <3>1. /\ x \in 0 .. MaxBreak /\ initial_data_segment'[p] <= x * PAGE_SIZE
          /\ x * PAGE_SIZE < current_sbrk'[p]
      BY ZenonT(30) DEF Heap
    <3> QED
      BY <1>3, <2>1, <3>1, ZenonT(30)
  <2> QED
    BY <2>2, ZenonT(30)
<1>6. pages \union Stacks \union {} = pages \union Stacks
  BY Zenon
<1>7. ASSUME NEW x \in Stacks
      PROVE  Reaches(UserEntries(pages), x, x \notin {INTSTACK, SYSCALLSTACK})
  <2>1. <<0, x>> \in Paths(pages \union Stacks)
    BY OwnEntry, ZenonT(30)
  <2>2. <<0, x>> \notin Mapped(NoEntries)
    BY NothingMapped, Zenon
  <2>4. UserEntries(pages)[<<0, x>>].us = (<<0, x>> \notin {<<0, INTSTACK>>, <<0, SYSCALLSTACK>>})
    BY <2>1, <2>2, EntryBit, ZenonT(30) DEF UserEntries
  <2>5. UserEntries(pages)[<<0, x>>].us = (x \notin {INTSTACK, SYSCALLSTACK})
    BY <2>4
  <2>6. UserEntries(pages)[<<0, x>>].address \in Nat \ {0}
    <3>1. scenario \in Scenarios
      BY Zenon DEF MapInv
    <3>2. /\ freepages \in Seq(Nat) /\ IsInjective(freepages)
          /\ Range(freepages) \subseteq Frames /\ Frames \subseteq Nat \ {0}
      BY <3>1, UsableList, Zenon
    <3>3. UserFrames(pages) <= Len(freepages)
      BY Zenon DEF proc_exec
    <3>4. Own(UserRoot, UserEntries(pages)) \subseteq Range(freepages)
      BY <3>2, <3>3, NewTable, Zenon
    <3>5. UserEntries(pages)[<<0, x>>].address \in Own(UserRoot, UserEntries(pages))
      BY <1>4, <2>1, Zenon DEF Own
    <3> QED
      BY <3>2, <3>4, <3>5, Zenon
  <2> QED
    BY <1>4, <2>1, <2>5, <2>6, Zenon DEF Reaches
<1>8. ProcessMapped(p)'
  <2>1. top <= top
    BY <1>1, SMTT(30)
  <2>2. Mapped(ptes'[p]) = Paths(image'[p] \union Stacks \union Heap(p)')
    BY <1>3, <1>4, <1>5, <1>6, Zenon
  <2>3. /\ (USER_STACK \notin {INTSTACK, SYSCALLSTACK}) = TRUE
        /\ (INTSTACK \notin {INTSTACK, SYSCALLSTACK}) = FALSE
        /\ (SYSCALLSTACK \notin {INTSTACK, SYSCALLSTACK}) = FALSE
    BY MemoryAssumption
  <2>4. USER_STACK \in Stacks /\ INTSTACK \in Stacks /\ SYSCALLSTACK \in Stacks
    BY Zenon DEF Stacks
  <2>5. /\ Reaches(ptes'[p], USER_STACK, TRUE)
        /\ Reaches(ptes'[p], INTSTACK, FALSE) /\ Reaches(ptes'[p], SYSCALLSTACK, FALSE)
    BY <1>3, <1>7, <2>3, <2>4, ZenonT(30)
  <2> QED
    BY <1>1, <1>3, <1>5, <2>1, <2>2, <2>5, ZenonT(30) DEF ProcessMapped, Stacks
<1>9. \A q \in Procs \ {p} :
        /\ pagetables'[q] = pagetables[q] /\ ptes'[q] = ptes[q] /\ image'[q] = image[q]
        /\ initial_data_segment'[q] = initial_data_segment[q]
        /\ current_sbrk'[q] = current_sbrk[q]
  BY <1>2, Zenon DEF MapInv
<1>10. /\ DOMAIN pagetables' = Procs /\ DOMAIN ptes' = Procs /\ DOMAIN image' = Procs
       /\ DOMAIN initial_data_segment' = Procs /\ DOMAIN current_sbrk' = Procs
  BY <1>2, Zenon DEF MapInv
<1> QED
  BY <1>8, <1>9, <1>10, OthersStay, ZenonT(30)

(* A reaped process has nothing.                                            *)
LEMMA ReapMaps ==
  ASSUME MapInv, scenario' = scenario, NEW p \in Procs, Reap(p)
  PROVE  MapInv'
<1>1. /\ initial_data_segment' = [initial_data_segment EXCEPT ![p] = 0]
      /\ current_sbrk' = [current_sbrk EXCEPT ![p] = 0]
      /\ pagetables' = [pagetables EXCEPT ![p] = NULL]
      /\ ptes' = [ptes EXCEPT ![p] = NoEntries]
      /\ image' = [image EXCEPT ![p] = {}]
  BY Zenon DEF Reap
<1>2. 0 < USER_STACK * PAGE_SIZE
  BY MemoryAssumption
<1>3. ProcessMapped(p)'
  BY <1>1, <1>2 DEF ProcessMapped, MapInv
<1>4. \A q \in Procs \ {p} :
        /\ pagetables'[q] = pagetables[q] /\ ptes'[q] = ptes[q] /\ image'[q] = image[q]
        /\ initial_data_segment'[q] = initial_data_segment[q]
        /\ current_sbrk'[q] = current_sbrk[q]
  BY <1>1, Zenon DEF MapInv
<1>5. /\ DOMAIN pagetables' = Procs /\ DOMAIN ptes' = Procs /\ DOMAIN image' = Procs
      /\ DOMAIN initial_data_segment' = Procs /\ DOMAIN current_sbrk' = Procs
  BY <1>1, Zenon DEF MapInv
<1> QED
  BY <1>3, <1>4, <1>5, OthersStay, ZenonT(30)

-----------------------------------------------------------------------------
(* Rounding an address up to a page.                                        *)
LEMMA Rounding ==
  ASSUME NEW a \in Nat, NEW x \in Nat
  PROVE  /\ RoundUp(a) \in Nat /\ RoundDown(a) \in Nat
         /\ RoundUp(a) <= x <=> a <= x * PAGE_SIZE
         /\ x <= RoundDown(a) <=> x * PAGE_SIZE <= a
<1>0. PAGE_SIZE \in Nat /\ PAGE_SIZE > 0
  BY MemoryAssumption
<1> DEFINE u == (a + PAGE_SIZE - 1) \div PAGE_SIZE
           d == a \div PAGE_SIZE
<1>1. u \in Nat /\ u * PAGE_SIZE <= a + PAGE_SIZE - 1 /\ a + PAGE_SIZE - 1 < u * PAGE_SIZE + PAGE_SIZE
  BY <1>0, SMTT(30)
<1>2. d \in Nat /\ d * PAGE_SIZE <= a /\ a < d * PAGE_SIZE + PAGE_SIZE
  BY <1>0, SMTT(30)
<1> HIDE DEF u, d
<1>3. ASSUME NEW k \in Nat, NEW m \in Nat, k < m PROVE k * PAGE_SIZE + PAGE_SIZE <= m * PAGE_SIZE
  BY <1>0, <1>3, SMTT(30)
<1>4. ASSUME NEW k \in Nat, NEW m \in Nat, k <= m PROVE k * PAGE_SIZE <= m * PAGE_SIZE
  BY <1>0, <1>4, SMTT(30)
<1>5. u <= x <=> a <= x * PAGE_SIZE
  BY <1>0, <1>1, <1>3, <1>4, SMTT(30)
<1>6. x <= d <=> x * PAGE_SIZE <= a
  BY <1>0, <1>2, <1>3, <1>4, SMTT(30)
<1> QED
  BY <1>1, <1>2, <1>5, <1>6, Zenon DEF u, d, RoundUp, RoundDown

(* sbrk adds the pages between the old break and the new one, those that    *)
(* the old break has reached into apart.                                    *)
LEMMA SbrkMaps ==
  ASSUME MapInv, NoFrameShared, scenario' = scenario, NEW p \in Procs, NEW delta \in Requests,
         proc_sbrk(p, delta)
  PROVE  MapInv'
<1> DEFINE old == current_sbrk[p]
           new == current_sbrk[p] + delta
           pages == Added(old, new)
<1>1. /\ pagetables[p] # NULL /\ new <= MaxBreak
      /\ Allocated(ptes[p], pages) <= Len(freepages)
      /\ \A x \in pages : ~Present(p, x)
      /\ ptes' = [ptes EXCEPT ![p] = vmm_allocate(ptes[p], pages, freepages)]
      /\ current_sbrk' = [current_sbrk EXCEPT ![p] = new]
      /\ UNCHANGED <<pagetables, image, initial_data_segment>>
  BY ZenonT(30) DEF proc_sbrk
<1>2. /\ MaxBreak \in Nat /\ PAGE_SIZE \in Nat /\ USER_STACK \in Nat /\ delta \in Nat
      /\ USER_STACK * PAGE_SIZE \in Nat /\ MaxBreak < USER_STACK * PAGE_SIZE
  BY MemoryAssumption
<1>3. /\ ProcessMapped(p) /\ old \in Nat /\ initial_data_segment[p] \in Nat
      /\ ~scenario.shrinks => initial_data_segment[p] <= old
  BY ZenonT(30) DEF MapInv, ProcessMapped
<1>4. new \in Nat /\ old <= new /\ new < USER_STACK * PAGE_SIZE
  BY <1>1, <1>2, <1>3, SMTT(30)
<1>5. /\ ptes'[p] = vmm_allocate(ptes[p], pages, freepages) /\ current_sbrk'[p] = new
      /\ image'[p] = image[p] /\ initial_data_segment'[p] = initial_data_segment[p]
      /\ pagetables'[p] = pagetables[p]
  BY <1>1, ZenonT(30) DEF MapInv
<1>6. Mapped(ptes'[p]) = Mapped(ptes[p]) \union Paths(pages)
  <2> HIDE DEF pages
  <2>1. Mapped(vmm_allocate(ptes[p], pages, freepages)) = Mapped(ptes[p]) \union Paths(pages)
    BY Allocates, ZenonT(30)
  <2> QED
    BY <1>5, <2>1, ZenonT(30)
<1>7. /\ Heap(p)' \subseteq Heap(p) \union pages
      /\ ~scenario.shrinks => Heap(p)' = Heap(p) \union pages
      /\ \A x \in pages : x < USER_STACK /\ x \in Nat
  <2>1. ASSUME NEW x \in 0 .. MaxBreak
        PROVE  /\ initial_data_segment[p] <= x * PAGE_SIZE /\ x * PAGE_SIZE < new =>
                    \/ initial_data_segment[p] <= x * PAGE_SIZE /\ x * PAGE_SIZE < old
                    \/ RoundUp(old) <= x /\ x * PAGE_SIZE < new
               /\ /\ ~scenario.shrinks
                  /\ \/ initial_data_segment[p] <= x * PAGE_SIZE /\ x * PAGE_SIZE < old
                     \/ RoundUp(old) <= x /\ x * PAGE_SIZE < new
                  => initial_data_segment[p] <= x * PAGE_SIZE /\ x * PAGE_SIZE < new
    <3>1. x \in Nat /\ x * PAGE_SIZE \in Nat
      BY <1>2
    <3>2. RoundUp(old) <= x <=> old <= x * PAGE_SIZE
      BY <1>3, <3>1, Rounding, Zenon
    <3> HIDE DEF old, new
    <3> QED
      BY <1>3, <1>4, <3>1, <3>2
  <2>2. \A x : x \in pages <=> x \in 0 .. MaxBreak /\ RoundUp(old) <= x /\ x * PAGE_SIZE < new
    <3>1. RoundUp(old) \in Nat
      BY <1>3, Rounding, Zenon
    <3> QED
      BY <1>2, <3>1 DEF Added
  <2>3. \A x : x \in Heap(p)' <=> /\ x \in 0 .. MaxBreak /\ initial_data_segment[p] <= x * PAGE_SIZE
                                  /\ x * PAGE_SIZE < new
    BY <1>5, ZenonT(30) DEF Heap
  <2>4. \A x : x \in Heap(p) <=> /\ x \in 0 .. MaxBreak /\ initial_data_segment[p] <= x * PAGE_SIZE
                                 /\ x * PAGE_SIZE < old
    BY ZenonT(30) DEF Heap
  <2>5. ASSUME NEW x \in Nat, x * PAGE_SIZE < new PROVE x < USER_STACK
    <3>1. x * PAGE_SIZE < USER_STACK * PAGE_SIZE
      BY <1>2, <1>4, <2>5
    <3> QED
      BY <1>2, <3>1, SMTT(30)
  <2>6. \A x \in pages : x < USER_STACK /\ x \in Nat
    <3>1. \A x \in 0 .. MaxBreak : x \in Nat
      BY <1>2
    <3> QED
      BY <2>2, <2>5, <3>1, Zenon
  <2> HIDE DEF old, new, pages
  <2>7. Heap(p)' \subseteq Heap(p) \union pages
    BY <2>1, <2>2, <2>3, <2>4, ZenonT(30)
  <2>8. ~scenario.shrinks => Heap(p) \union pages \subseteq Heap(p)'
    BY <2>1, <2>2, <2>3, <2>4, ZenonT(30)
  <2> QED
    BY <2>6, <2>7, <2>8, Zenon
<1>a. pages \in SUBSET Nat /\ IsFiniteSet(pages)
  <2>1. RoundUp(old) \in Nat
    BY <1>3, Rounding, Zenon
  <2>2. IsFiniteSet(RoundUp(old) .. MaxBreak)
    BY <1>2, <2>1, FS_Interval
  <2>3. pages \subseteq RoundUp(old) .. MaxBreak
    BY Zenon DEF Added
  <2>4. RoundUp(old) .. MaxBreak \subseteq Nat
    BY <1>2, <2>1, SMTT(30)
  <2> HIDE DEF pages
  <2> QED
    BY <2>2, <2>3, <2>4, FS_Subset, ZenonT(30)
<1> HIDE DEF old, new, pages
<1>b. ASSUME NEW x, NEW user, Reaches(ptes[p], x, user) PROVE Reaches(ptes'[p], x, user)
  <2>1. ASSUME NEW n \in Mapped(ptes[p])
        PROVE  vmm_allocate(ptes[p], pages, freepages)[n] = ptes[p][n]
    BY EntryKept, SMT
  <2> QED
    BY <1>5, <1>6, <1>b, <2>1, ZenonT(30) DEF Reaches
<1>c. ASSUME NEW x \in pages PROVE Reaches(ptes'[p], x, TRUE)
  <2>1. PICK a : a = vmm_allocate(ptes[p], pages, freepages)
    BY Zenon
  <2>2. <<0, x>> \in Paths(pages)
    BY OwnEntry, Zenon
  <2>3. <<0, x>> \notin Mapped(ptes[p])
    BY <1>1, Zenon DEF Present, Mapped
  <2>4. <<0, x>> \in Mapped(a)
    BY <1>5, <1>6, <2>1, <2>2, Zenon
  <2>5. /\ freepages \in Seq(Nat) /\ IsInjective(freepages)
        /\ Range(freepages) \subseteq Frames /\ Frames \subseteq Nat \ {0}
    BY UsableList, Zenon DEF MapInv
  <2>6. PICK i \in 1 .. Allocated(ptes[p], pages) : a[<<0, x>>].address = freepages[i]
    <3>1. \A n \in Mapped(a) \ Mapped(ptes[p]) :
            \E i \in 1 .. Allocated(ptes[p], pages) : a[n].address = freepages[i]
      BY <1>1, <1>a, <2>1, <2>5, AllocFrames
    <3> QED
      BY <2>3, <2>4, <3>1, Zenon
  <2>7. a[<<0, x>>].address \in Nat \ {0}
    <3>1. Len(freepages) \in Nat /\ DOMAIN freepages = 1 .. Len(freepages)
      BY <2>5, LenProperties, Zenon
    <3>2. Allocated(ptes[p], pages) \in Nat
      BY <1>a, AllocatedNat, Zenon
    <3>3. i \in 1 .. Len(freepages)
      BY <1>1, <3>1, <3>2
    <3>4. freepages[i] \in Range(freepages)
      BY <3>1, <3>3, Zenon DEF Range
    <3> QED
      BY <2>5, <2>6, <3>4, Zenon
  <2>8. a[<<0, x>>].us = (<<0, x>> \notin {<<0, INTSTACK>>, <<0, SYSCALLSTACK>>})
    <3>1. vmm_allocate(ptes[p], pages, freepages)[<<0, x>>].us =
            (<<0, x>> \notin {<<0, INTSTACK>>, <<0, SYSCALLSTACK>>})
      BY <2>2, <2>3, EntryBit, ZenonT(30)
    <3> QED
      BY <2>1, <3>1, Zenon
  <2>9. x # INTSTACK /\ x # SYSCALLSTACK
    BY <1>7, MemoryAssumption
  <2>10. a[<<0, x>>].us = TRUE
    BY <2>8, <2>9, Zenon
  <2> QED
    BY <1>5, <2>1, <2>4, <2>7, <2>10, Zenon DEF Reaches
<1>8. ASSUME ~scenario.shrinks
      PROVE  Mapped(ptes'[p]) = Paths(image'[p] \union Stacks \union Heap(p)')
  <2>1. Mapped(ptes[p]) = Paths(image[p] \union Stacks \union Heap(p))
    BY <1>1, <1>3, <1>8, ZenonT(30) DEF ProcessMapped
  <2>2. image[p] \union Stacks \union (Heap(p) \union pages)
          = (image[p] \union Stacks \union Heap(p)) \union pages
    BY Zenon
  <2>3. Paths((image[p] \union Stacks \union Heap(p)) \union pages)
          = Paths(image[p] \union Stacks \union Heap(p)) \union Paths(pages)
    BY PathsUnion, ZenonT(30)
  <2> QED
    BY <1>5, <1>6, <1>7, <1>8, <2>1, <2>2, <2>3, ZenonT(30)
<1>9. /\ Reaches(ptes'[p], USER_STACK, TRUE)
      /\ Reaches(ptes'[p], INTSTACK, FALSE) /\ Reaches(ptes'[p], SYSCALLSTACK, FALSE)
      /\ \A x \in Heap(p)' : Reaches(ptes'[p], x, TRUE)
  <2>1. /\ Reaches(ptes[p], USER_STACK, TRUE)
        /\ Reaches(ptes[p], INTSTACK, FALSE) /\ Reaches(ptes[p], SYSCALLSTACK, FALSE)
        /\ \A x \in Heap(p) : Reaches(ptes[p], x, TRUE)
    BY <1>1, <1>3, ZenonT(30) DEF ProcessMapped
  <2> QED
    BY <1>7, <1>b, <1>c, <2>1, ZenonT(30)
<1>10. ~scenario.shrinks => initial_data_segment[p] <= new
  BY <1>3, <1>4
<1>11. ProcessMapped(p)'
  BY <1>3, <1>4, <1>5, <1>8, <1>9, <1>10, ZenonT(30) DEF ProcessMapped, Stacks
<1>12. \A q \in Procs \ {p} :
        /\ pagetables'[q] = pagetables[q] /\ ptes'[q] = ptes[q] /\ image'[q] = image[q]
        /\ initial_data_segment'[q] = initial_data_segment[q]
        /\ current_sbrk'[q] = current_sbrk[q]
  BY <1>1, ZenonT(30) DEF MapInv
<1>13. /\ DOMAIN pagetables' = Procs /\ DOMAIN ptes' = Procs /\ DOMAIN image' = Procs
       /\ DOMAIN initial_data_segment' = Procs /\ DOMAIN current_sbrk' = Procs
  BY <1>1, Zenon DEF MapInv
<1> QED
  BY <1>11, <1>12, <1>13, OthersStay, ZenonT(30)

(* A negative amount takes away pages up to the one of the old break: none  *)
(* of the stacks.                                                           *)
LEMMA ShrinkMaps ==
  ASSUME MapInv, scenario' = scenario, NEW p \in Procs, NEW delta \in Requests,
         proc_sbrk_shrinks(p, delta)
  PROVE  MapInv'
<1> DEFINE old == current_sbrk[p]
           new == Break(p, delta)
           gone == {<<0, x>> : x \in Removed(old, new)}
           entry(n) == IF n \in DOMAIN ptes[p] THEN [ptes[p][n] EXCEPT !.present = FALSE]
                       ELSE Unused
           entries == [n \in DOMAIN ptes[p] \union gone |->
                         IF n \in gone THEN entry(n) ELSE ptes[p][n]]
<1>1. /\ scenario.shrinks /\ pagetables[p] # NULL
      /\ ptes' = [ptes EXCEPT ![p] = entries]
      /\ current_sbrk' = [current_sbrk EXCEPT ![p] = new]
      /\ UNCHANGED <<pagetables, image, initial_data_segment>>
  BY ZenonT(30) DEF proc_sbrk_shrinks
<1>2. /\ ProcessMapped(p) /\ old \in Nat /\ initial_data_segment[p] \in Nat
      /\ old < USER_STACK * PAGE_SIZE /\ initial_data_segment[p] < USER_STACK * PAGE_SIZE
  BY ZenonT(30) DEF MapInv, ProcessMapped
<1>3. /\ PAGE_SIZE \in Nat /\ USER_STACK \in Nat /\ USER_STACK * PAGE_SIZE \in Nat /\ delta \in Nat
      /\ INTSTACK \in Nat /\ SYSCALLSTACK \in Nat
      /\ USER_STACK < INTSTACK /\ USER_STACK < SYSCALLSTACK
  BY MemoryAssumption
<1>4. /\ new \in Nat /\ new < USER_STACK * PAGE_SIZE
      /\ new <= initial_data_segment[p] \/ new <= old
  BY <1>1, <1>2, <1>3, SMTT(30) DEF Break
<1>5. ASSUME NEW x \in Stacks PROVE <<0, x>> \notin gone
  <2>1. x \in Nat /\ USER_STACK <= x
    BY <1>3, SMTT(30) DEF Stacks
  <2>2. ~(USER_STACK <= RoundDown(old)) /\ RoundDown(old) \in Nat
    BY <1>2, <1>3, Rounding
  <2>3. x \notin 0 .. RoundDown(old)
    BY <1>3, <2>1, <2>2
  <2> QED
    BY <2>3, Zenon DEF Removed
<1>6. /\ ptes'[p] = entries /\ current_sbrk'[p] = new /\ pagetables'[p] = pagetables[p]
      /\ initial_data_segment'[p] = initial_data_segment[p]
  BY <1>1, Zenon DEF MapInv
<1>a. \A x \in Heap(p)' : x \in Heap(p) /\ <<0, x>> \notin gone
  <2>1. ASSUME NEW x \in 0 .. MaxBreak, initial_data_segment[p] <= x * PAGE_SIZE,
               x * PAGE_SIZE < new
        PROVE  x * PAGE_SIZE < old /\ ~(x * PAGE_SIZE > new)
    <3>1. x * PAGE_SIZE \in Nat
      BY <1>3, MemoryAssumption
    <3> HIDE DEF old, new
    <3> QED
      BY <1>2, <1>4, <2>1, <3>1
  <2>2. \A x : x \in Heap(p)' <=> /\ x \in 0 .. MaxBreak /\ initial_data_segment[p] <= x * PAGE_SIZE
                                  /\ x * PAGE_SIZE < new
    BY <1>6, ZenonT(30) DEF Heap
  <2>3. \A x : x \in Heap(p) <=> /\ x \in 0 .. MaxBreak /\ initial_data_segment[p] <= x * PAGE_SIZE
                                 /\ x * PAGE_SIZE < old
    BY ZenonT(30) DEF Heap
  <2>4. \A x : <<0, x>> \in gone => x * PAGE_SIZE > new
    BY DEF Removed
  <2> HIDE DEF old, new, gone
  <2> QED
    BY <2>1, <2>2, <2>3, <2>4, ZenonT(30)
<1>b. ASSUME NEW x, NEW user, Reaches(ptes[p], x, user), <<0, x>> \notin gone
      PROVE  Reaches(ptes'[p], x, user)
  <2> HIDE DEF gone, entry
  <2>1. <<0, x>> \in DOMAIN ptes[p]
    BY <1>b, Zenon DEF Reaches, Mapped
  <2>2. <<0, x>> \in DOMAIN entries /\ entries[<<0, x>>] = ptes[p][<<0, x>>]
    BY <1>b, <2>1, Zenon
  <2> HIDE DEF entries
  <2> QED
    BY <1>6, <1>b, <2>1, <2>2, ZenonT(30) DEF Reaches, Mapped
<1>7. /\ Reaches(ptes'[p], USER_STACK, TRUE)
      /\ Reaches(ptes'[p], INTSTACK, FALSE) /\ Reaches(ptes'[p], SYSCALLSTACK, FALSE)
      /\ \A x \in Heap(p)' : Reaches(ptes'[p], x, TRUE)
  <2>1. /\ Reaches(ptes[p], USER_STACK, TRUE)
        /\ Reaches(ptes[p], INTSTACK, FALSE) /\ Reaches(ptes[p], SYSCALLSTACK, FALSE)
        /\ \A x \in Heap(p) : Reaches(ptes[p], x, TRUE)
    BY <1>1, <1>2, ZenonT(30) DEF ProcessMapped
  <2>2. /\ <<0, USER_STACK>> \notin gone
        /\ <<0, INTSTACK>> \notin gone /\ <<0, SYSCALLSTACK>> \notin gone
    <3> HIDE DEF gone
    <3> QED
      BY <1>5, Zenon DEF Stacks
  <2> HIDE DEF gone
  <2> QED
    BY <1>a, <1>b, <2>1, <2>2, ZenonT(30)
<1> HIDE DEF old, new, entries
<1>8. ProcessMapped(p)'
  BY <1>1, <1>2, <1>4, <1>6, <1>7, ZenonT(30) DEF ProcessMapped, Stacks
<1>9. \A q \in Procs \ {p} :
        /\ pagetables'[q] = pagetables[q] /\ ptes'[q] = ptes[q] /\ image'[q] = image[q]
        /\ initial_data_segment'[q] = initial_data_segment[q]
        /\ current_sbrk'[q] = current_sbrk[q]
  BY <1>1, ZenonT(30) DEF MapInv
<1>10. /\ DOMAIN pagetables' = Procs /\ DOMAIN ptes' = Procs /\ DOMAIN image' = Procs
       /\ DOMAIN initial_data_segment' = Procs /\ DOMAIN current_sbrk' = Procs
  BY <1>1, ZenonT(30) DEF MapInv
<1> QED
  BY <1>8, <1>9, <1>10, OthersStay, ZenonT(30)

(* No step of a process breaks it.                                          *)
LEMMA MapStep == MapInv /\ [MemoryNext]_memoryVars => MapInv'
<1> SUFFICES ASSUME MapInv, [MemoryNext]_memoryVars PROVE MapInv'
  BY Zenon
<1>1. ASSUME UNCHANGED <<pagetables, ptes, image, initial_data_segment, current_sbrk, scenario>>
      PROVE  MapInv'
  <2>1. \A p \in Procs : Heap(p)' = Heap(p)
    BY <1>1, ZenonT(30) DEF Heap
  <2>2. \A p \in Procs : ProcessMapped(p)'
    BY <1>1, <2>1, ZenonT(30) DEF MapInv, ProcessMapped
  <2> QED
    BY <1>1, <2>2, ZenonT(30) DEF MapInv
<1>2. CASE UNCHANGED memoryVars
  BY <1>1, <1>2, Zenon DEF memoryVars
<1>3. CASE MemoryNext
  <2>1. PICK p \in scenario.procs :
          \/ \E pages \in Images : proc_exec(p, pages) \/ proc_exec_fails(p, pages)
          \/ Reap(p)
          \/ \E delta \in Requests :
               \/ proc_sbrk(p, delta) \/ proc_sbrk_remaps(p, delta)
               \/ proc_sbrk_shrinks(p, delta) \/ proc_sbrk_misses(p, delta)
    BY <1>3, ZenonT(30) DEF MemoryNext
  <2>2. scenario' = scenario /\ NoFrameShared
    BY <1>3, ZenonT(30) DEF MemoryNext, Corrupted
  <2>3. p \in Procs
    BY <2>1, MemoryAssumption, ZenonT(30) DEF MapInv
  <2>4. CASE \E pages \in Images : proc_exec(p, pages)
    BY <2>2, <2>3, <2>4, ExecMaps, ZenonT(30)
  <2>5. CASE \E pages \in Images : proc_exec_fails(p, pages)
    BY <1>1, <2>2, <2>5, ZenonT(30) DEF proc_exec_fails
  <2>6. CASE Reap(p)
    BY <2>2, <2>3, <2>6, ReapMaps, ZenonT(30)
  <2>7. CASE \E delta \in Requests : proc_sbrk(p, delta)
    BY <2>2, <2>3, <2>7, SbrkMaps, ZenonT(30)
  <2>8. CASE \E delta \in Requests : proc_sbrk_remaps(p, delta)
    BY <1>1, <2>2, <2>8, ZenonT(30) DEF proc_sbrk_remaps
  <2>9. CASE \E delta \in Requests : proc_sbrk_shrinks(p, delta)
    BY <2>2, <2>3, <2>9, ShrinkMaps, ZenonT(30)
  <2>10. CASE \E delta \in Requests : proc_sbrk_misses(p, delta)
    BY <1>1, <2>2, <2>10, ZenonT(30) DEF proc_sbrk_misses
  <2> QED
    BY <2>1, <2>4, <2>5, <2>6, <2>7, <2>8, <2>9, <2>10, ZenonT(30)
<1> QED
  BY <1>2, <1>3, Zenon

(* What a process has mapped follows its image and its break, always.       *)
THEOREM MapInvariance == MemorySpec => []MapInv
BY MapInit, MapStep, PTL DEF MemorySpec

(* As long as no frame has two uses, the memory of a process up to its      *)
(* break and its stacks are mapped: vmm_user_pagetable_free does not panic. *)
THEOREM BreakStaysMapped == MemorySpec => []BreakIsMapped
<1>1. ASSUME MapInv PROVE BreakIsMapped
  <2>1. ASSUME NEW p \in Procs, NEW x, NEW user, Reaches(ptes[p], x, user)
        PROVE  vmm_walkaddr(p, x, user) # 0
    <3>1. Present(p, x) /\ ptes[p][<<0, x>>].us = user
      BY <2>1, Zenon DEF Reaches, Mapped, Present
    <3>2. vmm_walkaddr(p, x, user) = ptes[p][<<0, x>>].address
      BY <3>1, Zenon DEF vmm_walkaddr
    <3> QED
      BY <2>1, <3>2, Zenon DEF Reaches
  <2>2. ASSUME NEW p \in Started
        PROVE  /\ p \in Procs
               /\ Reaches(ptes[p], USER_STACK, TRUE)
               /\ Reaches(ptes[p], INTSTACK, FALSE) /\ Reaches(ptes[p], SYSCALLSTACK, FALSE)
               /\ \A x \in Heap(p) : Reaches(ptes[p], x, TRUE)
    BY <1>1, ZenonT(30) DEF Started, MapInv, ProcessMapped
  <2>3. ASSUME NEW p \in Started, NEW x \in 0 .. MaxBreak,
               initial_data_segment[p] <= x * PAGE_SIZE /\ x * PAGE_SIZE < current_sbrk[p]
        PROVE  x \in Heap(p)
    BY <2>3, Zenon DEF Heap
  <2> QED
    BY <2>1, <2>2, <2>3, ZenonT(30) DEF BreakIsMapped
<1> QED
  BY <1>1, MapInvariance, PTL

(* Between exec and exit, and over any calls of sbrk with positive amounts, *)
(* the page table of a process has its image, its stacks and the pages      *)
(* below its break, the tables on the way to them, and nothing else.        *)
THEOREM HeapIsBreak == MemorySpec => []HeapMatchesBreak
<1>1. MapInv => HeapMatchesBreak
  BY ZenonT(30) DEF MapInv, ProcessMapped, HeapMatchesBreak, Started, Entries, Mapped, Heap
<1> QED
  BY <1>1, MapInvariance, PTL

-----------------------------------------------------------------------------
(* proc_exec: frames go from the list to the process.                       *)
LEMMA ExecFrames ==
  ASSUME MapInv, FrameInv, scenario' = scenario, ~scenario.shrinks,
         NEW p \in Procs, NEW pages \in Images, proc_exec(p, pages)
  PROVE  FrameInv'
<1>1. /\ pagetables[p] = NULL /\ UserFrames(pages) <= Len(freepages)
      /\ freepages' = Drop(UserFrames(pages))
      /\ pagetables' = [pagetables EXCEPT ![p] = UserRoot]
      /\ ptes' = [ptes EXCEPT ![p] = UserEntries(pages)]
  BY ZenonT(30) DEF proc_exec
<1>2. freepages \in Seq(Nat) /\ IsInjective(freepages)
  BY ZenonT(30) DEF FrameInv
<1>3. /\ Separate(UserRoot, UserEntries(pages))
      /\ UserFrames(pages) \in Nat
      /\ Own(UserRoot, UserEntries(pages)) \subseteq Range(freepages)
      /\ Own(UserRoot, UserEntries(pages)) \intersect Range(Drop(UserFrames(pages))) = {}
  BY <1>1, <1>2, NewTable, Zenon
<1>4. /\ freepages' \in Seq(Nat) /\ IsInjective(freepages')
      /\ Range(freepages') \subseteq Range(freepages)
  BY <1>1, <1>2, <1>3, Dropped, Zenon
<1>5. pagetables'[p] = UserRoot /\ ptes'[p] = UserEntries(pages)
  BY <1>1, Zenon DEF MapInv
<1>6. \A q \in Procs \ {p} : pagetables'[q] = pagetables[q] /\ ptes'[q] = ptes[q]
  BY <1>1, ZenonT(30) DEF MapInv
<1>7. Mine(p)' \subseteq Own(UserRoot, UserEntries(pages))
  BY <1>5, Zenon DEF Mine
<1> QED
  BY <1>1, <1>3, <1>4, <1>5, <1>6, <1>7, FramesMove, ZenonT(30)

(* proc_exec_fails: they come back, or are lost.                            *)
LEMMA FailedFrames ==
  ASSUME FrameInv, scenario' = scenario, ~scenario.shrinks,
         NEW p \in Procs, NEW pages \in Images, proc_exec_fails(p, pages)
  PROVE  FrameInv'
<1>1. /\ pagetables[p] = NULL /\ UserFrames(pages) <= Len(freepages)
      /\ freepages' = kfree(vmm_user_pagetable_free(UserRoot, UserEntries(pages)),
                            Drop(UserFrames(pages)))
      /\ pagetables' = pagetables /\ ptes' = ptes
  BY ZenonT(30) DEF proc_exec_fails
<1>2. freepages \in Seq(Nat) /\ IsInjective(freepages)
  BY ZenonT(30) DEF FrameInv
<1>3. /\ Separate(UserRoot, UserEntries(pages))
      /\ UserFrames(pages) \in Nat
      /\ Own(UserRoot, UserEntries(pages)) \subseteq Range(freepages)
      /\ Own(UserRoot, UserEntries(pages)) \intersect Range(Drop(UserFrames(pages))) = {}
  BY <1>1, <1>2, NewTable, Zenon
<1>4. PICK rest \in Seq(Nat) : rest = Drop(UserFrames(pages))
  BY <1>1, <1>2, <1>3, Dropped, ZenonT(30)
<1>5. IsInjective(rest) /\ Range(rest) \subseteq Range(freepages)
  BY <1>1, <1>2, <1>3, <1>4, Dropped, Zenon
<1>6. /\ freepages' \in Seq(Nat) /\ IsInjective(freepages')
      /\ Range(freepages') \subseteq Range(rest) \union Own(UserRoot, UserEntries(pages))
  BY <1>1, <1>3, <1>4, <1>5, Freed, ZenonT(30)
<1>7. Mine(p)' = {}
  BY <1>1, ZenonT(30) DEF Mine
<1> QED
  BY <1>1, <1>3, <1>5, <1>6, <1>7, FramesMove, ZenonT(30)

(* Reap: frames of the process go to the list, once each.                   *)
LEMMA ReapFrames ==
  ASSUME MapInv, FrameInv, scenario' = scenario, ~scenario.shrinks,
         NEW p \in Procs, Reap(p)
  PROVE  FrameInv'
<1>1. /\ pagetables[p] # NULL
      /\ freepages' = kfree(vmm_user_pagetable_free(pagetables[p], ptes[p]), freepages)
      /\ pagetables' = [pagetables EXCEPT ![p] = NULL]
      /\ ptes' = [ptes EXCEPT ![p] = NoEntries]
  BY ZenonT(30) DEF Reap
<1>2. /\ freepages \in Seq(Nat) /\ IsInjective(freepages)
      /\ Separate(pagetables[p], ptes[p]) /\ Mine(p) \intersect Range(freepages) = {}
  BY <1>1, ZenonT(30) DEF FrameInv
<1>3. Mine(p) = Own(pagetables[p], ptes[p])
  BY <1>1, Zenon DEF Mine
<1>4. /\ freepages' \in Seq(Nat) /\ IsInjective(freepages')
      /\ Range(freepages') \subseteq Range(freepages) \union Mine(p)
  BY <1>1, <1>2, <1>3, Freed, ZenonT(30)
<1>5. pagetables'[p] = NULL
  BY <1>1, Zenon DEF MapInv
<1>6. \A q \in Procs \ {p} : pagetables'[q] = pagetables[q] /\ ptes'[q] = ptes[q]
  BY <1>1, ZenonT(30) DEF MapInv
<1>7. Mine(p)' = {}
  BY <1>5, Zenon DEF Mine
<1> QED
  BY <1>4, <1>5, <1>6, <1>7, FramesMove, ZenonT(30)

(* proc_sbrk: frames go from the list to the process.                       *)
LEMMA SbrkFrames ==
  ASSUME MapInv, FrameInv, scenario' = scenario, ~scenario.shrinks,
         NEW p \in Procs, NEW delta \in Requests, proc_sbrk(p, delta)
  PROVE  FrameInv'
<1> DEFINE new == current_sbrk[p] + delta
           pages == Added(current_sbrk[p], new)
           needed == Allocated(ptes[p], pages)
<1>1. /\ pagetables[p] # NULL /\ needed <= Len(freepages)
      /\ freepages' = Drop(needed)
      /\ ptes' = [ptes EXCEPT ![p] = vmm_allocate(ptes[p], pages, freepages)]
      /\ pagetables' = pagetables
  BY ZenonT(30) DEF proc_sbrk
<1>2. /\ freepages \in Seq(Nat) /\ IsInjective(freepages)
      /\ Separate(pagetables[p], ptes[p]) /\ Mine(p) \intersect Range(freepages) = {}
  BY <1>1, ZenonT(30) DEF FrameInv
<1>3. pages \in SUBSET Nat /\ IsFiniteSet(pages)
  <2>1. current_sbrk[p] \in Nat
    BY ZenonT(30) DEF MapInv, ProcessMapped
  <2>2. RoundUp(current_sbrk[p]) \in Nat
    BY <2>1, Rounding, Zenon
  <2>3. MaxBreak \in Nat
    BY MemoryAssumption, ZenonT(30)
  <2>4. IsFiniteSet(RoundUp(current_sbrk[p]) .. MaxBreak)
    BY <2>2, <2>3, FS_Interval
  <2>5. pages \subseteq RoundUp(current_sbrk[p]) .. MaxBreak
    BY Zenon DEF Added
  <2>6. RoundUp(current_sbrk[p]) .. MaxBreak \subseteq Nat
    BY <2>2, <2>3, SMTT(30)
  <2> HIDE DEF pages
  <2> QED
    BY <2>4, <2>5, <2>6, FS_Subset, ZenonT(30)
<1>4. Mine(p) = Own(pagetables[p], ptes[p])
  BY <1>1, Zenon DEF Mine
<1> HIDE DEF pages
<1>5. /\ Separate(pagetables[p], vmm_allocate(ptes[p], pages, freepages))
      /\ needed \in Nat
      /\ Own(pagetables[p], vmm_allocate(ptes[p], pages, freepages)) \subseteq
           Own(pagetables[p], ptes[p]) \union {freepages[i] : i \in 1 .. needed}
  <2>1. /\ needed <= Len(freepages)
        /\ Own(pagetables[p], ptes[p]) \intersect Range(freepages) = {}
    BY <1>1, <1>2, <1>4, ZenonT(30)
  <2> QED
    BY <1>2, <1>3, <2>1, Grown, SMTT(30)
<1> HIDE DEF needed
<1>6. /\ freepages' \in Seq(Nat) /\ IsInjective(freepages')
      /\ Range(freepages') \subseteq Range(freepages)
      /\ \A i \in 1 .. needed : freepages[i] \notin Range(freepages')
  BY <1>1, <1>2, <1>5, Dropped, ZenonT(30)
<1>7. \A i \in 1 .. needed : freepages[i] \in Range(freepages)
  <2>1. Len(freepages) \in Nat /\ DOMAIN freepages = 1 .. Len(freepages)
    BY <1>2, LenProperties, ZenonT(30)
  <2> QED
    <3>1. needed \in Nat /\ needed <= Len(freepages)
      BY <1>1, <1>5, ZenonT(30)
    <3>2. \A i \in 1 .. needed : i \in 1 .. Len(freepages)
      BY <2>1, <3>1
    <3> QED
      BY <2>1, <3>2, ZenonT(30) DEF Range
<1>8. ptes'[p] = vmm_allocate(ptes[p], pages, freepages) /\ pagetables'[p] = pagetables[p]
  BY <1>1, ZenonT(30) DEF MapInv
<1>9. \A q \in Procs \ {p} : pagetables'[q] = pagetables[q] /\ ptes'[q] = ptes[q]
  BY <1>1, ZenonT(30) DEF MapInv
<1>10. Mine(p)' \subseteq Mine(p) \union {freepages[i] : i \in 1 .. needed}
  BY <1>1, <1>4, <1>5, <1>8, ZenonT(30) DEF Mine
<1>11. Mine(p)' \intersect Range(freepages') = {}
  BY <1>2, <1>6, <1>10, ZenonT(30)
<1>12. Mine(p)' \subseteq Mine(p) \union Range(freepages)
  BY <1>7, <1>10, Zenon
<1> QED
  BY <1>5, <1>6, <1>8, <1>9, <1>11, <1>12, FramesMove, ZenonT(30)

(* At boot every usable frame is on the list once.                          *)
LEMMA FrameInit == MemoryInit => FrameInv
<1> SUFFICES ASSUME MemoryInit PROVE FrameInv
  BY Zenon
<1>1. scenario.frames \in Nat
  BY MemoryAssumption, Zenon DEF MemoryInit
<1>2. freepages = [i \in 1 .. scenario.frames |-> i]
  BY Zenon DEF MemoryInit, Frames
<1>3. freepages \in Seq(Nat) /\ IsInjective(freepages)
  BY <1>1, <1>2 DEF IsInjective
<1>4. \A p \in Procs : pagetables[p] = NULL
  BY Zenon DEF MemoryInit
<1>5. \A p \in Procs : Mine(p) = {}
  BY <1>4, ZenonT(30) DEF Mine
<1>6. Range(freepages) \subseteq Frames
  BY <1>2, Zenon DEF Range, Frames
<1> QED
  BY <1>3, <1>4, <1>5, <1>6, ZenonT(30) DEF FrameInv

(* No step breaks it.                                                       *)
LEMMA FrameStep == MapInv /\ FrameInv /\ [MemoryNext]_memoryVars => FrameInv'
<1> SUFFICES ASSUME MapInv, FrameInv, [MemoryNext]_memoryVars PROVE FrameInv'
  BY Zenon
<1>1. scenario' = scenario
  BY Zenon DEF MemoryNext, memoryVars
<1>2. ASSUME UNCHANGED <<freepages, pagetables, ptes>> PROVE FrameInv'
  <2>1. \A p \in Procs : Mine(p)' = Mine(p)
    BY <1>2, ZenonT(30) DEF Mine
  <2>2. Frames' = Frames
    BY <1>1, Zenon DEF Frames
  <2> QED
    BY <1>1, <1>2, <2>1, <2>2, ZenonT(30) DEF FrameInv
<1>3. CASE UNCHANGED memoryVars
  BY <1>2, <1>3, ZenonT(30) DEF memoryVars
<1>4. CASE scenario.shrinks
  BY <1>1, <1>4, ZenonT(30) DEF FrameInv
<1>5. CASE MemoryNext /\ ~scenario.shrinks
  <2>1. PICK p \in scenario.procs :
          \/ \E pages \in Images : proc_exec(p, pages) \/ proc_exec_fails(p, pages)
          \/ Reap(p)
          \/ \E delta \in Requests :
               \/ proc_sbrk(p, delta) \/ proc_sbrk_remaps(p, delta)
               \/ proc_sbrk_shrinks(p, delta) \/ proc_sbrk_misses(p, delta)
    BY <1>5, ZenonT(30) DEF MemoryNext
  <2>2. p \in Procs
    BY <2>1, MemoryAssumption, Zenon DEF MapInv
  <2>3. CASE \E pages \in Images : proc_exec(p, pages)
    BY <1>1, <1>5, <2>2, <2>3, ExecFrames, ZenonT(30)
  <2>4. CASE \E pages \in Images : proc_exec_fails(p, pages)
    BY <1>1, <1>5, <2>2, <2>4, FailedFrames, ZenonT(30)
  <2>5. CASE Reap(p)
    BY <1>1, <1>5, <2>2, <2>5, ReapFrames, ZenonT(30)
  <2>6. CASE \E delta \in Requests : proc_sbrk(p, delta)
    BY <1>1, <1>5, <2>2, <2>6, SbrkFrames, ZenonT(30)
  <2>7. CASE \E delta \in Requests : proc_sbrk_remaps(p, delta)
    BY <1>2, <2>7, ZenonT(30) DEF proc_sbrk_remaps
  <2>8. CASE \E delta \in Requests : proc_sbrk_shrinks(p, delta)
    BY <1>5, <2>8, ZenonT(30) DEF proc_sbrk_shrinks
  <2>9. CASE \E delta \in Requests : proc_sbrk_misses(p, delta)
    BY <1>5, <2>9, ZenonT(30) DEF proc_sbrk_misses
  <2> QED
    BY <2>1, <2>3, <2>4, <2>5, <2>6, <2>7, <2>8, <2>9, ZenonT(30)
<1> QED
  BY <1>3, <1>4, <1>5, Zenon

(* A list without repetitions is as long as the set of its elements.        *)
LEMMA AsManyAsListed ==
  ASSUME NEW s \in Seq(Nat), IsInjective(s)
  PROVE  Cardinality(Range(s)) = Len(s)
<1> DEFINE I == 1 .. Len(s)
<1>1. Len(s) \in Nat /\ DOMAIN s = I /\ s \in [I -> Nat]
  BY LenProperties, ZenonT(30)
<1>2. IsFiniteSet(I) /\ Cardinality(I) = Len(s)
  <2>1. /\ IsFiniteSet(1 .. Len(s))
        /\ Cardinality(1 .. Len(s)) = IF 1 > Len(s) THEN 0 ELSE Len(s) - 1 + 1
    BY <1>1, FS_Interval
  <2> QED
    BY <1>1, <2>1
<1>3. s \in [I -> Range(s)] /\ \A x \in Range(s) : \E i \in I : s[i] = x
  BY <1>1, Zenon DEF Range
<1>4. \A i, j \in I : s[i] = s[j] => i = j
  BY <1>1, Zenon DEF IsInjective
<1>5. PICK T : T = Range(s)
  BY Zenon
<1>6. s \in Surjection(I, T) /\ s \in Injection(I, T)
  BY <1>3, <1>4, <1>5, ZenonT(30) DEF Surjection, Injection, IsInjective
<1>7. Cardinality(T) = Cardinality(I)
  BY <1>2, <1>6, FS_Surjection, Zenon
<1> QED
  BY <1>2, <1>5, <1>7, Zenon

(* Every frame is free once, of one process, or lost.                       *)
THEOREM FrameInvariance == MemorySpec => []FrameInv
<1>1. MapInv /\ FrameInv /\ [MemoryNext]_memoryVars => FrameInv'
  BY FrameStep, Zenon
<1> QED
  BY <1>1, FrameInit, MapInvariance, PTL DEF MemorySpec

(* As long as no process calls sbrk with a negative amount, no frame is a   *)
(* root, a table or a page twice, of one process or of two, or still on     *)
(* the list that kalloc takes frames from: for any number of processes and  *)
(* frames, and over failed execs and reaped processes.                      *)
THEOREM FramesUsedOnce == MemorySpec => []FrameHasOneUse
<1>1. ASSUME FrameInv, ~scenario.shrinks PROVE NoFrameShared
  <2>1. /\ freepages \in Seq(Nat) /\ IsInjective(freepages)
        /\ \A p \in Procs : pagetables[p] # NULL => Separate(pagetables[p], ptes[p])
        /\ \A p \in Procs : Mine(p) \intersect Range(freepages) = {}
        /\ \A p, q \in Procs : p # q => Mine(p) \intersect Mine(q) = {}
        /\ Range(freepages) \subseteq Frames
    BY <1>1, ZenonT(30) DEF FrameInv
  <2>a. freepages \in Seq(Frames)
    <3>1. Len(freepages) \in Nat /\ freepages \in [1 .. Len(freepages) -> Nat]
      BY <2>1, LenProperties, Zenon
    <3>2. freepages \in [1 .. Len(freepages) -> Frames]
      BY <2>1, <3>1, ZenonT(30) DEF Range
    <3> QED
      BY <3>1, <3>2, SeqDef, Zenon
  <2>2. Cardinality(Range(freepages)) = Len(freepages)
    BY <2>1, AsManyAsListed, ZenonT(30)
  <2>3. ASSUME NEW p \in Started
        PROVE  /\ p \in Procs /\ Mine(p) = Own(pagetables[p], ptes[p])
               /\ Separate(pagetables[p], ptes[p]) /\ pagetables[p] \in Mine(p)
               /\ \A n \in Entries(p) : n \in Mapped(ptes[p]) /\ ptes[p][n].address \in Mine(p)
    <3>1. p \in Procs /\ pagetables[p] # NULL
      BY Zenon DEF Started
    <3>2. Mine(p) = Own(pagetables[p], ptes[p])
      BY <3>1, Zenon DEF Mine
    <3>3. Entries(p) = Mapped(ptes[p])
      BY ZenonT(30) DEF Entries, Mapped
    <3> QED
      BY <2>1, <3>1, <3>2, <3>3, Zenon DEF Own
  <2>4. ASSUME NEW p \in Started, NEW q \in Started \ {p}
        PROVE  pagetables[p] # pagetables[q]
    BY <2>1, <2>3, Zenon
  <2>5. ASSUME NEW p \in Started, NEW n \in Entries(p), NEW q \in Started
        PROVE  ptes[p][n].address # pagetables[q]
    <3>1. CASE p = q
      BY <2>3, <3>1, Zenon DEF Separate
    <3>2. CASE p # q
      BY <2>1, <2>3, <3>2, ZenonT(30)
    <3> QED
      BY <3>1, <3>2, Zenon
  <2>6. ASSUME NEW p \in Started, NEW n \in Entries(p), NEW q \in Started, NEW m \in Entries(q),
               ptes[p][n].address = ptes[q][m].address
        PROVE  p = q /\ m = n
    <3>1. p = q
      BY <2>1, <2>3, <2>6, SMTT(30)
    <3>2. m = n
      BY <2>3, <2>6, <3>1, Zenon DEF Separate
    <3> QED
      BY <3>1, <3>2, Zenon
  <2>7. ASSUME NEW p \in Started
        PROVE  /\ pagetables[p] \notin Range(freepages)
               /\ \A n \in Entries(p) : ptes[p][n].address \notin Range(freepages)
    BY <2>1, <2>3
  <2> QED
    BY <2>2, <2>a, <2>4, <2>5, <2>6, <2>7, ZenonT(30) DEF NoFrameShared
<1>2. FrameInv => FrameHasOneUse
  BY <1>1, Zenon DEF FrameHasOneUse
<1> QED
  BY <1>2, FrameInvariance, PTL
=============================================================================
