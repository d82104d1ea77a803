--------------------------- MODULE PageCacheProofs ---------------------------
(***************************************************************************)
(* For any number of frames, any blocks and lists of entries of any length: *)
(* frames have one owner, and the file system sees a block store.          *)
(***************************************************************************)
EXTENDS PageCache, FiniteSetTheorems, SequenceTheorems, TLAPS

Entry == [valid : BOOLEAN, disk_block : Nat, cache : Frames \union {Other}, dirty : BOOLEAN]

Types ==
  /\ disk \in [Sectors -> Values]
  /\ freepages \in Seq(Frames) /\ lists \in Seq(Frames) /\ held \subseteq Frames
  /\ mem \in [Frames -> Pages \union {Other}]
  /\ entries \in Seq(Entry)
  /\ \A i \in Caches : entries[i].cache \in Frames

(* OneEntryPerBlock makes "the" entry of a block well-defined; ownership of *)
(* frames keeps a write to one page from changing another.                  *)
IInv == Types /\ FrameHasOneOwner /\ OneEntryPerBlock /\ CleanIsOnDisk

(* A call is for a block of the partition.                                  *)
Asked == request = None \/ request \in Requests

-----------------------------------------------------------------------------
(* Different blocks start at different sectors.                             *)
LEMMA LbaFacts ==
  ASSUME NEW b \in Blocks
  PROVE  /\ Lba(b) \in Nat
         /\ \A c \in Blocks : Lba(b) = Lba(c) => b = c
<1>1. b \in Nat /\ SectorsPerBlock \in Nat /\ SectorsPerBlock > 0 /\ PARTITION_OFFSET \in Nat
  BY PageCacheAssumption
<1>2. b * SectorsPerBlock \in Nat
  BY <1>1
<1>3. ASSUME NEW x \in Nat, NEW y \in Nat, x < y
      PROVE  x * SectorsPerBlock < y * SectorsPerBlock
  BY <1>1, <1>3
<1>4. ASSUME NEW c \in Blocks, Lba(b) = Lba(c) PROVE b = c
  <2>1. c \in Nat
    BY PageCacheAssumption, Zenon
  <2>2. c * SectorsPerBlock \in Nat
    BY <1>1, <2>1
  <2>3. b * SectorsPerBlock = c * SectorsPerBlock
    BY <1>1, <1>2, <1>4, <2>2 DEF Lba
  <2> QED
    BY <1>1, <1>2, <1>3, <2>1, <2>2, <2>3
<1> QED
  BY <1>1, <1>2, <1>4 DEF Lba

(* A page read from the disk is a page.                                     *)
LEMMA DiskPage ==
  ASSUME disk \in [Sectors -> Values], NEW b \in Blocks
  PROVE  OnDisk(Lba(b)) \in Pages
<1>1. \A k \in 0 .. SectorsPerBlock - 1 : Lba(b) + k \in Lba(b) .. Lba(b) + SectorsPerBlock - 1
  BY LbaFacts, PageCacheAssumption
<1>2. \A k \in 0 .. SectorsPerBlock - 1 : Lba(b) + k \in Sectors
  BY <1>1, Zenon DEF Sectors
<1> QED
  BY <1>2, Zenon DEF OnDisk, Pages

(* A finite set of numbers has a greatest one: there is an element with the *)
(* smallest set of elements above it.                                       *)
LEMMA Greatest ==
  ASSUME NEW F, F \subseteq Nat, IsFiniteSet(F), F # {}
  PROVE  \E m \in F : \A j \in F : j <= m
<1> DEFINE Above(i) == {j \in F : j > i}
           T == {Above(i) : i \in F}
<1>1. IsWellFoundedOn(StrictSubsetOrdering(F), SUBSET F)
  BY FS_StrictSubsetOrderingWellFounded, FS_FiniteSubsetsOfFinite, Zenon
<1>2. T \subseteq SUBSET F /\ T # {}
  BY Zenon
<1>3. PICK x \in T : \A y \in T : ~(<<y, x>> \in StrictSubsetOrdering(F))
  <2> HIDE DEF T
  <2> QED
    BY <1>1, <1>2, WFMin, Zenon
<1>4. PICK m \in F : x = Above(m)
  BY Zenon
<1>5. ASSUME NEW j \in F, j > m PROVE FALSE
  <2>1. Above(j) \in T /\ Above(j) \subseteq F /\ Above(m) \subseteq F
    BY Zenon
  <2>2. j \in Nat /\ m \in Nat /\ ~(j > j)
    OBVIOUS
  <2>3. j \notin Above(j) /\ j \in Above(m)
    BY <1>5, <2>2, Zenon
  <2>4. ASSUME NEW k \in F, k > j PROVE k > m
    BY <1>5, <2>2, <2>4
  <2>5. Above(j) \subseteq Above(m)
    BY <2>4, Zenon
  <2>6. <<Above(j), Above(m)>> \in StrictSubsetOrdering(F)
    <3> HIDE DEF Above
    <3> QED
      BY <2>1, <2>3, <2>5, Zenon DEF StrictSubsetOrdering
  <2> QED
    BY <1>3, <1>4, <2>1, <2>6, Zenon
<1> QED
  BY <1>5

(* The last free entry of the walk over the lists exists.                   *)
LEMMA FreeEntryFacts ==
  ASSUME entries \in Seq(Entry)
  PROVE  IF FreeEntries = {} THEN FreeEntry = Len(entries) + 1
         ELSE FreeEntry \in DOMAIN entries /\ ~entries[FreeEntry].valid
<1> SUFFICES ASSUME FreeEntries # {} PROVE FreeEntry \in FreeEntries
  BY ZenonT(30) DEF FreeEntry, FreeEntries
<1>1. Len(entries) \in Nat /\ DOMAIN entries = 1 .. Len(entries)
  BY LenProperties, Zenon
<1>2. FreeEntries \in SUBSET Nat /\ \A i \in FreeEntries : i <= Len(entries)
  BY <1>1 DEF FreeEntries
<1>3. IsFiniteSet(FreeEntries)
  BY <1>1, <1>2, FS_BoundedSetOfNaturals, Zenon
<1>4. \E m \in FreeEntries : \A j \in FreeEntries : j <= m
  BY <1>2, <1>3, Greatest, Zenon
<1> QED
  BY <1>4, Zenon DEF FreeEntry

-----------------------------------------------------------------------------
(* Lists of frames: taking the first ones, putting one in front or behind.  *)
LEMMA ShiftedList ==
  ASSUME NEW s \in Seq(Frames), NEW n \in Nat, n <= Len(s)
  PROVE  \E t \in Seq(Frames) :
           /\ t = SubSeq(s, n + 1, Len(s)) /\ Len(t) = Len(s) - n
           /\ \A i \in 1 .. Len(s) - n : t[i] = s[n + i]
<1>1. Len(s) \in Nat /\ \A i \in n + 1 .. Len(s) : s[i] \in Frames
  <2>1. Len(s) \in Nat
    BY LenProperties, Zenon
  <2>2. \A i \in n + 1 .. Len(s) : i \in 1 .. Len(s)
    BY <2>1
  <2> QED
    BY <2>1, <2>2, ElementOfSeq, Zenon
<1>2. n + 1 \in Int /\ Len(s) \in Int
  BY <1>1
<1> DEFINE t == SubSeq(s, n + 1, Len(s))
<1>3. /\ t \in Seq(Frames)
      /\ Len(t) = IF n + 1 <= Len(s) THEN Len(s) - (n + 1) + 1 ELSE 0
      /\ \A i \in 1 .. Len(s) - (n + 1) + 1 : t[i] = s[(n + 1) + i - 1]
  BY <1>1, <1>2, SubSeqProperties
<1> HIDE DEF t
<1>4. Len(t) = Len(s) - n /\ Len(s) - (n + 1) + 1 = Len(s) - n
  BY <1>1, <1>3
<1>5. \A i \in 1 .. Len(s) - n : (n + 1) + i - 1 = n + i
  BY <1>1
<1>6. \A i \in 1 .. Len(s) - n : t[i] = s[n + i]
  BY <1>3, <1>4, <1>5, Zenon
<1> QED
  BY <1>3, <1>4, <1>6, Zenon DEF t

(* What kalloc takes from the list is no longer on it.                      *)
LEMMA TakeFrames ==
  ASSUME NEW s \in Seq(Frames), IsInjective(s), NEW n \in Nat, 0 < n, n <= Len(s),
         NEW t \in Seq(Frames), Len(t) = Len(s) - n,
         \A i \in 1 .. Len(s) - n : t[i] = s[n + i]
  PROVE  /\ IsInjective(t)
         /\ Range(s) = Range(t) \union {s[i] : i \in 1 .. n}
         /\ \A i \in 1 .. n : s[i] \notin Range(t) /\ s[i] \in Frames
<1>1. Len(s) \in Nat /\ DOMAIN s = 1 .. Len(s) /\ \A i \in 1 .. Len(s) : s[i] \in Frames
  BY LenProperties, Zenon
<1>2. DOMAIN t = 1 .. Len(s) - n
  BY LenProperties, Zenon
<1>3. \A i \in 1 .. Len(s) - n : n + i \in 1 .. Len(s) /\ n + i > n
  BY <1>1
<1>4. \A i, j \in 1 .. Len(s) : s[i] = s[j] => i = j
  BY <1>1, Zenon DEF IsInjective
<1>5. IsInjective(t)
  <2>1. SUFFICES ASSUME NEW i \in 1 .. Len(s) - n, NEW j \in 1 .. Len(s) - n, t[i] = t[j]
                 PROVE  i = j
    BY <1>2, Zenon DEF IsInjective
  <2>2. s[n + i] = s[n + j] /\ n + i \in 1 .. Len(s) /\ n + j \in 1 .. Len(s)
    BY <1>3, <2>1, Zenon
  <2>3. n + i = n + j
    BY <1>4, <2>2, Zenon
  <2>4. i \in Nat /\ j \in Nat
    BY <1>1
  <2> QED
    BY <2>3, <2>4
<1>6. ASSUME NEW i \in 1 .. n PROVE s[i] \notin Range(t)
  <2>1. i \in 1 .. Len(s)
    BY <1>1
  <2>2. \A j \in 1 .. Len(s) - n : t[j] # s[i]
    BY <1>1, <1>3, <1>4, <2>1
  <2> QED
    BY <1>2, <2>2, Zenon DEF Range
<1>7. Range(t) \subseteq Range(s)
  BY <1>1, <1>2, <1>3, Zenon DEF Range
<1>8. ASSUME NEW f \in Range(s) PROVE f \in Range(t) \union {s[i] : i \in 1 .. n}
  <2>1. PICK k \in 1 .. Len(s) : f = s[k]
    BY <1>1, Zenon DEF Range
  <2>2. CASE k > n
    <3>1. k - n \in 1 .. Len(s) - n /\ n + (k - n) = k
      BY <1>1, <2>2
    <3>2. f = t[k - n]
      BY <2>1, <3>1, Zenon
    <3> QED
      BY <1>2, <3>1, <3>2, Zenon DEF Range
  <2>3. CASE k <= n
    BY <2>1, <2>3
  <2> QED
    BY <1>1, <2>2, <2>3
<1>9. {s[i] : i \in 1 .. n} \subseteq Range(s)
  BY <1>1 DEF Range
<1> QED
  BY <1>1, <1>5, <1>6, <1>7, <1>8, <1>9, SMTT(30)

(* A frame put at the end of a list without it.                             *)
LEMMA AppendFrame ==
  ASSUME NEW s \in Seq(Frames), IsInjective(s), NEW f \in Frames, f \notin Range(s)
  PROVE  /\ Append(s, f) \in Seq(Frames) /\ IsInjective(Append(s, f))
         /\ Range(Append(s, f)) = Range(s) \union {f}
<1>1. Len(s) \in Nat /\ DOMAIN s = 1 .. Len(s)
  BY LenProperties, Zenon
<1>2. /\ Append(s, f) \in Seq(Frames) /\ Len(Append(s, f)) = Len(s) + 1
      /\ \A i \in 1 .. Len(s) : Append(s, f)[i] = s[i]
      /\ Append(s, f)[Len(s) + 1] = f
  BY AppendProperties
<1>3. DOMAIN Append(s, f) = 1 .. Len(s) + 1
  BY <1>2, LenProperties, Zenon
<1>4. IsInjective(Append(s, f))
  BY <1>1, <1>2, <1>3 DEF IsInjective, Range
<1>5. Range(Append(s, f)) = Range(s) \union {f}
  BY <1>1, <1>2, <1>3 DEF Range
<1> QED
  BY <1>2, <1>4, <1>5, Zenon

(* A list with one frame in front.                                          *)
LEMMA PrependedList ==
  ASSUME NEW s \in Seq(Frames), NEW f \in Frames
  PROVE  \E t \in Seq(Frames) :
           /\ t = <<f>> \o s /\ Len(t) = Len(s) + 1 /\ t[1] = f
           /\ \A i \in 2 .. Len(s) + 1 : t[i] = s[i - 1]
<1>1. Len(s) \in Nat
  BY LenProperties, Zenon
<1>2. <<f>> \in Seq(Frames) /\ Len(<<f>>) = 1 /\ <<f>>[1] = f
  OBVIOUS
<1> DEFINE t == <<f>> \o s
<1>3. /\ t \in Seq(Frames) /\ Len(t) = 1 + Len(s)
      /\ \A i \in 1 .. 1 + Len(s) : t[i] = IF i <= 1 THEN <<f>>[i] ELSE s[i - 1]
  BY <1>2, ConcatProperties, Zenon
<1> HIDE DEF t
<1>4. t[1] = f /\ \A i \in 2 .. Len(s) + 1 : t[i] = s[i - 1]
  BY <1>1, <1>2, <1>3
<1>5. Len(t) = Len(s) + 1
  BY <1>1, <1>3
<1>6. t = <<f>> \o s
  BY Zenon DEF t
<1> QED
  BY <1>3, <1>4, <1>5, <1>6, Zenon

(* A frame put in front of a list without it.                               *)
LEMMA PrependFrame ==
  ASSUME NEW s \in Seq(Frames), IsInjective(s), NEW f \in Frames, f \notin Range(s),
         NEW t \in Seq(Frames), Len(t) = Len(s) + 1, t[1] = f,
         \A i \in 2 .. Len(s) + 1 : t[i] = s[i - 1]
  PROVE  IsInjective(t) /\ Range(t) = Range(s) \union {f}
<1>1. Len(s) \in Nat /\ DOMAIN s = 1 .. Len(s) /\ DOMAIN t = 1 .. Len(s) + 1
  BY LenProperties, Zenon
<1>2. \A k \in 2 .. Len(s) + 1 : k - 1 \in 1 .. Len(s) /\ t[k] # f
  BY <1>1 DEF Range
<1>3. \A i, j \in 1 .. Len(s) : s[i] = s[j] => i = j
  BY <1>1, Zenon DEF IsInjective
<1>4. IsInjective(t)
  <2> SUFFICES ASSUME NEW i \in 1 .. Len(s) + 1, NEW j \in 1 .. Len(s) + 1, t[i] = t[j]
               PROVE  i = j
    BY <1>1, Zenon DEF IsInjective
  <2>1. CASE i = 1 \/ j = 1
    BY <1>1, <1>2, <2>1
  <2>2. CASE i # 1 /\ j # 1
    <3>1. i \in 2 .. Len(s) + 1 /\ j \in 2 .. Len(s) + 1
      BY <1>1, <2>2
    <3>2. i - 1 = j - 1
      BY <1>2, <1>3, <3>1
    <3> QED
      BY <1>1, <3>1, <3>2
  <2> QED
    BY <2>1, <2>2, Zenon
<1>5. Range(t) \subseteq Range(s) \union {f}
  BY <1>1, <1>2 DEF Range
<1>6. ASSUME NEW i \in 1 .. Len(s) PROVE s[i] \in Range(t)
  <2>1. i + 1 \in 2 .. Len(s) + 1 /\ i + 1 \in 1 .. Len(s) + 1 /\ (i + 1) - 1 = i
    BY <1>1
  <2>2. t[i + 1] = s[i]
    BY <2>1, Zenon
  <2> QED
    BY <1>1, <2>1, <2>2, Zenon DEF Range
<1>7. f \in Range(t)
  BY <1>1 DEF Range
<1>8. Range(s) \subseteq Range(t)
  BY <1>1, <1>6, ZenonT(30) DEF Range
<1> QED
  BY <1>4, <1>5, <1>7, <1>8, Zenon

-----------------------------------------------------------------------------
(* The lists of entries, after another list when none is free: the old      *)
(* entries are there, and the new ones are invalid.                         *)
AllEntries == IF FreeEntries = {} THEN entries \o EmptyList ELSE entries

(* The entries, with one that caches nothing among them.                    *)
LEMMA AllEntriesFacts ==
  ASSUME entries \in Seq(Entry)
  PROVE  /\ AllEntries \in Seq(Entry) /\ FreeEntry \in 1 .. Len(AllEntries)
         /\ FreeEntry \notin Caches
         /\ \A i \in Caches : i \in 1 .. Len(AllEntries) /\ AllEntries[i] = entries[i]
         /\ \A i \in 1 .. Len(AllEntries) : AllEntries[i].valid => i \in Caches
<1>1. Len(entries) \in Nat /\ DOMAIN entries = 1 .. Len(entries)
  BY LenProperties, Zenon
<1>2. CASE FreeEntries # {}
  BY <1>1, <1>2, FreeEntryFacts, Zenon DEF AllEntries, Caches
<1>3. CASE FreeEntries = {}
  <2>1. FreeEntry = Len(entries) + 1
    BY <1>3, FreeEntryFacts, Zenon
  <2>2. Invalid \in Entry /\ ~Invalid.valid
    BY Zenon DEF Invalid, Entry
  <2>3. PAGECACHE_ENTRY_COUNT \in Nat /\ PAGECACHE_ENTRY_COUNT > 0
    BY PageCacheAssumption
  <2>4. EmptyList \in Seq(Entry) /\ Len(EmptyList) = PAGECACHE_ENTRY_COUNT
    BY <2>2, <2>3 DEF EmptyList
  <2>5. \A i \in 1 .. PAGECACHE_ENTRY_COUNT : EmptyList[i] = Invalid
    BY Zenon DEF EmptyList
  <2> DEFINE w == AllEntries
             n == PAGECACHE_ENTRY_COUNT
  <2>6. /\ w \in Seq(Entry) /\ Len(w) = Len(entries) + n
        /\ \A i \in 1 .. Len(entries) + n :
             w[i] = IF i <= Len(entries) THEN entries[i] ELSE EmptyList[i - Len(entries)]
    BY <1>3, <2>4, ConcatProperties, Zenon DEF AllEntries
  <2> HIDE DEF w, n
  <2>7. n \in Nat /\ n > 0 /\ \A i \in 1 .. n : EmptyList[i] = Invalid
    BY <2>3, <2>5, Zenon DEF n
  <2>8. \A i \in 1 .. Len(entries) : i \in 1 .. Len(w) /\ w[i] = entries[i]
    BY <1>1, <2>6, <2>7
  <2>9. ASSUME NEW i \in 1 .. Len(w), i \notin 1 .. Len(entries)
        PROVE  ~w[i].valid
    <3>1. i - Len(entries) \in 1 .. n /\ ~(i <= Len(entries)) /\ i \in 1 .. Len(entries) + n
      BY <1>1, <2>6, <2>7, <2>9
    <3>2. w[i] = Invalid
      BY <2>6, <2>7, <3>1, Zenon
    <3> QED
      BY <2>2, <3>2, Zenon
  <2>10. FreeEntry \in 1 .. Len(w) /\ FreeEntry \notin 1 .. Len(entries)
    BY <1>1, <2>1, <2>6, <2>7
  <2> QED
    BY <1>1, <2>6, <2>8, <2>9, <2>10, Zenon DEF w, Caches
<1> QED
  BY <1>2, <1>3, Zenon

(* A function on an interval from one is a sequence.                        *)
LEMMA FunctionIsSeq ==
  ASSUME NEW S, NEW n \in Nat, NEW f \in [1 .. n -> S]
  PROVE  f \in Seq(S) /\ Len(f) = n
OBVIOUS

(* The entry that a block gets.                                             *)
LEMMA NewEntry ==
  ASSUME entries \in Seq(Entry), NEW r \in Entry, r.valid,
         entries' = [AllEntries EXCEPT ![FreeEntry] = r]
  PROVE  /\ entries' \in Seq(Entry) /\ entries'[FreeEntry] = r
         /\ Caches' = Caches \union {FreeEntry} /\ FreeEntry \notin Caches
         /\ \A i \in Caches : entries'[i] = entries[i]
<1> DEFINE w == AllEntries
           k == FreeEntry
<1>1. /\ w \in Seq(Entry) /\ k \in 1 .. Len(w) /\ k \notin Caches
      /\ \A i \in Caches : i \in 1 .. Len(w) /\ w[i] = entries[i]
      /\ \A i \in 1 .. Len(w) : w[i].valid => i \in Caches
  BY AllEntriesFacts, Zenon
<1>2. \A i \in Caches : entries[i].valid
  BY Zenon DEF Caches
<1>3. entries' = [w EXCEPT ![k] = r]
  BY Zenon
<1> HIDE DEF w, k
<1>4. /\ entries' \in Seq(Entry) /\ Len(entries') = Len(w)
      /\ \A j \in 1 .. Len(w) : entries'[j] = IF j = k THEN r ELSE w[j]
  <2>1. Len(w) \in Nat /\ w \in [1 .. Len(w) -> Entry]
    BY <1>1, LenProperties, Zenon
  <2>2. /\ entries' \in [1 .. Len(w) -> Entry]
        /\ \A j \in 1 .. Len(w) : entries'[j] = IF j = k THEN r ELSE w[j]
    BY <1>1, <1>3, <2>1, Zenon
  <2>3. entries' \in Seq(Entry) /\ Len(entries') = Len(w)
    BY <2>1, <2>2, FunctionIsSeq, Zenon
  <2> QED
    BY <2>2, <2>3, Zenon
<1>5. DOMAIN entries' = 1 .. Len(w)
  BY <1>4, LenProperties, Zenon
<1>6. Caches' = Caches \union {k}
  BY <1>1, <1>2, <1>4, <1>5, ZenonT(30) DEF Caches
<1> QED
  BY <1>1, <1>4, <1>6, Zenon DEF k

(* A miss moves one frame from the free list to the cached pages, and       *)
(* another to the lists of entries if it needs a new one.                   *)
Added(lba, page, d, cache) ==
  /\ cache \notin CachedFrames
  /\ mem' = [mem EXCEPT ![cache] = page]
  /\ entries'[FreeEntry] = [valid |-> TRUE, disk_block |-> lba, cache |-> cache, dirty |-> d]
  /\ Caches' = Caches \union {FreeEntry} /\ FreeEntry \notin Caches
  /\ \A i \in Caches : entries'[i] = entries[i]
  /\ Types' /\ FrameHasOneOwner'

(* AddEntry changes that entry and takes frames for it.                     *)
LEMMA AddEntryFacts ==
  ASSUME Types, FrameHasOneOwner, NEW lba \in Nat, NEW page \in Pages \union {Other},
         NEW d \in BOOLEAN,
         AddEntry(lba, page, d), disk' = disk, held' = held
  PROVE  \E cache \in Frames : Added(lba, page, d, cache)
<1> DEFINE n == Needed
           cache == freepages[n]
           r == [valid |-> TRUE, disk_block |-> lba, cache |-> cache, dirty |-> d]
<1>1. n \in Nat /\ 0 < n /\ n <= Len(freepages) /\ n \in 1 .. n
  BY DEF AddEntry, Needed
<1>2. freepages \in Seq(Frames) /\ IsInjective(freepages)
  BY Zenon DEF Types, FrameHasOneOwner
<1>3. /\ freepages' \in Seq(Frames) /\ IsInjective(freepages')
      /\ Range(freepages) = Range(freepages') \union {freepages[i] : i \in 1 .. n}
      /\ \A i \in 1 .. n : freepages[i] \notin Range(freepages') /\ freepages[i] \in Frames
  <2>1. freepages' = SubSeq(freepages, n + 1, Len(freepages))
    BY Zenon DEF AddEntry
  <2> HIDE DEF n
  <2>2. PICK t \in Seq(Frames) :
          /\ t = SubSeq(freepages, n + 1, Len(freepages)) /\ Len(t) = Len(freepages) - n
          /\ \A i \in 1 .. Len(freepages) - n : t[i] = freepages[n + i]
    BY <1>1, <1>2, ShiftedList, Zenon
  <2>3. freepages' = t
    BY <2>1, <2>2, Zenon
  <2>4. /\ IsInjective(t)
        /\ Range(freepages) = Range(t) \union {freepages[i] : i \in 1 .. n}
        /\ \A i \in 1 .. n : freepages[i] \notin Range(t) /\ freepages[i] \in Frames
    <3>1. Len(t) = Len(freepages) - n /\ \A i \in 1 .. Len(freepages) - n : t[i] = freepages[n + i]
      BY <2>2, Zenon
    <3> QED
      BY <1>1, <1>2, <3>1, TakeFrames, Zenon
  <2> QED
    BY <2>3, <2>4, Zenon
<1>4. cache \in Frames /\ cache \in Range(freepages) /\ cache \notin Range(freepages')
  <2> HIDE DEF n
  <2> QED
    BY <1>1, <1>3, Zenon
<1>5. cache \notin CachedFrames \union held \union Range(lists)
  BY <1>4, Zenon DEF FrameHasOneOwner
<1>6. r \in Entry /\ r.valid /\ r.cache = cache /\ r.disk_block = lba
  BY <1>4, Zenon DEF Entry
<1>7. entries' = [AllEntries EXCEPT ![FreeEntry] = r]
  BY Zenon DEF AddEntry, AllEntries
<1>8. entries \in Seq(Entry)
  BY Zenon DEF Types
<1> HIDE DEF r, cache
<1>9. /\ entries' \in Seq(Entry) /\ entries'[FreeEntry] = r
      /\ Caches' = Caches \union {FreeEntry} /\ FreeEntry \notin Caches
      /\ \A i \in Caches : entries'[i] = entries[i]
  BY <1>6, <1>7, <1>8, NewEntry, Zenon
<1>10. mem' = [mem EXCEPT ![cache] = page]
  BY Zenon DEF AddEntry, cache
<1>11. CachedFrames' = CachedFrames \union {cache}
  <2>1. CachedFrames' = {entries'[i].cache : i \in Caches'}
    BY Zenon DEF CachedFrames
  <2>2. CachedFrames = {entries[i].cache : i \in Caches}
    BY Zenon DEF CachedFrames
  <2> QED
    BY <1>6, <1>9, <2>1, <2>2, Zenon
<1>12. /\ lists' \in Seq(Frames) /\ IsInjective(lists')
       /\ Range(freepages') \union Range(lists') \union {cache} = Range(freepages) \union Range(lists)
       /\ Range(freepages') \intersect Range(lists') = {} /\ cache \notin Range(lists')
       /\ Range(lists) \subseteq Range(lists') /\ Range(lists') \subseteq Range(lists) \union Range(freepages)
       /\ Range(freepages') \subseteq Range(freepages)
  <2>1. lists \in Seq(Frames) /\ IsInjective(lists) /\ Range(freepages) \intersect Range(lists) = {}
    BY ZenonT(30) DEF Types, FrameHasOneOwner
  <2>2. CASE FreeEntries # {}
    <3>1. n = 1 /\ lists' = lists
      BY <2>2, Zenon DEF Needed, AddEntry
    <3>2. {freepages[i] : i \in 1 .. n} = {cache}
      BY <3>1 DEF cache
    <3> QED
      BY <1>3, <1>4, <1>5, <2>1, <3>1, <3>2, Zenon
  <2>3. CASE FreeEntries = {}
    <3> DEFINE first == freepages[1]
    <3>1. n = 2 /\ lists' = Append(lists, Head(freepages))
      BY <2>3, Zenon DEF Needed, AddEntry
    <3>2. {freepages[i] : i \in 1 .. n} = {first, cache} /\ 1 \in 1 .. n
      BY <3>1 DEF cache
    <3>3. DOMAIN freepages = 1 .. Len(freepages) /\ Len(freepages) \in Nat
      BY <1>2, LenProperties, Zenon
    <3>4. first # cache
      BY <1>1, <1>2, <3>1, <3>3 DEF IsInjective, cache
    <3>5. Head(freepages) = first /\ first \in Frames /\ first \in Range(freepages)
      BY <1>2, <1>3, <3>2
    <3>6. lists' \in Seq(Frames) /\ IsInjective(lists') /\ Range(lists') = Range(lists) \union {first}
      BY <2>1, <3>1, <3>5, AppendFrame, Zenon
    <3>7. first \notin Range(freepages')
      BY <1>3, <3>2, Zenon
    <3> QED
      BY <1>3, <1>4, <1>5, <2>1, <3>2, <3>4, <3>5, <3>6, <3>7, ZenonT(30)
  <2> QED
    BY <2>2, <2>3, Zenon
<1>13. Types'
  BY <1>3, <1>4, <1>6, <1>9, <1>10, <1>12, Zenon DEF Types
<1>14. FrameHasOneOwner'
  <2>1. ASSUME NEW i \in Caches', NEW j \in Caches', entries'[i].cache = entries'[j].cache
        PROVE  i = j
    BY <1>5, <1>6, <1>9, <2>1 DEF FrameHasOneOwner, CachedFrames
  <2>2. Frames = Range(freepages') \union Range(lists') \union held' \union CachedFrames'
    BY <1>11, <1>12, Zenon DEF FrameHasOneOwner
  <2>3. Range(freepages') \intersect (Range(lists') \union held' \union CachedFrames') = {}
    <3>1. Range(freepages) \intersect (held \union CachedFrames) = {}
      BY Zenon DEF FrameHasOneOwner
    <3>2. Range(freepages') \intersect (held \union CachedFrames) = {}
      BY <1>12, <3>1, Zenon
    <3>3. Range(freepages') \intersect Range(lists') = {} /\ cache \notin Range(freepages')
      BY <1>4, <1>12, Zenon
    <3>4. held' = held /\ CachedFrames' = CachedFrames \union {cache}
      BY <1>11, Zenon
    <3> QED
      BY <3>2, <3>3, <3>4, Zenon
  <2>4. Range(lists') \intersect (held' \union CachedFrames') = {}
    BY <1>11, <1>12, ZenonT(30) DEF FrameHasOneOwner
  <2>5. held' \intersect CachedFrames' = {}
    BY <1>5, <1>11, Zenon DEF FrameHasOneOwner
  <2> QED
    BY <1>3, <1>12, <2>1, <2>2, <2>3, <2>4, <2>5, ZenonT(30) DEF FrameHasOneOwner
<1> QED
  BY <1>4, <1>5, <1>9, <1>10, <1>13, <1>14, ZenonT(30) DEF r, Added

-----------------------------------------------------------------------------
(* A block is on its dirty entry, or on the disk; now and after a step.     *)
LEMMA ContentsAt ==
  ASSUME OneEntryPerBlock, NEW b \in Blocks
  PROVE  /\ DirtyHits(b) = {} => Contents[b] = OnDisk(Lba(b))
         /\ \A i \in DirtyHits(b) : Contents[b] = mem[entries[i].cache]
<1>1. ASSUME NEW i \in DirtyHits(b) PROVE (CHOOSE k \in DirtyHits(b) : TRUE) = i
  <2>1. \A j \in DirtyHits(b) : j = i
    BY Zenon DEF DirtyHits, Hits, OneEntryPerBlock, Caches
  <2> QED
    BY <2>1, Zenon
<1> QED
  BY <1>1, Zenon DEF Contents

(* What a block holds after a step: its dirty page, or its sectors.         *)
LEMMA ContentsAtNext ==
  ASSUME OneEntryPerBlock', NEW b \in Blocks
  PROVE  /\ DirtyHits(b)' = {} => Contents'[b] = OnDisk(Lba(b))'
         /\ \A i \in DirtyHits(b)' : Contents'[b] = mem'[entries'[i].cache]
<1>1. ASSUME NEW i \in DirtyHits(b)' PROVE (CHOOSE k \in DirtyHits(b)' : TRUE) = i
  <2>1. \A j \in DirtyHits(b)' : j = i
    BY Zenon DEF DirtyHits, Hits, OneEntryPerBlock, Caches
  <2> QED
    BY <2>1, Zenon
<1> QED
  BY <1>1, Zenon DEF Contents

(* A block whose dirty entries, and their pages, stay what they are.        *)
LEMMA ContentsStay ==
  ASSUME OneEntryPerBlock, OneEntryPerBlock', NEW b \in Blocks, disk' = disk,
         DirtyHits(b)' = DirtyHits(b),
         \A i \in DirtyHits(b) : mem'[entries'[i].cache] = mem[entries[i].cache]
  PROVE  Contents'[b] = Contents[b]
<1>1. OnDisk(Lba(b))' = OnDisk(Lba(b))
  BY Zenon DEF OnDisk, Lba
<1>2. CASE DirtyHits(b) = {}
  <2>1. Contents[b] = OnDisk(Lba(b))
    BY <1>2, ContentsAt, Zenon
  <2>2. Contents'[b] = OnDisk(Lba(b))'
    BY <1>2, ContentsAtNext, Zenon
  <2> QED
    BY <1>1, <2>1, <2>2, Zenon
<1>3. CASE DirtyHits(b) # {}
  <2>1. PICK i \in DirtyHits(b) : TRUE
    BY <1>3, Zenon
  <2>2. Contents[b] = mem[entries[i].cache]
    BY ContentsAt, Zenon
  <2>3. Contents'[b] = mem'[entries'[i].cache]
    BY ContentsAtNext, Zenon
  <2> QED
    BY <2>2, <2>3, Zenon
<1> QED
  BY <1>2, <1>3, Zenon

(* Every block holds something.                                             *)
LEMMA ContentsIsFunction ==
  /\ Contents = [b \in Blocks |-> Contents[b]]
  /\ Contents' = [b \in Blocks |-> Contents'[b]]
BY DEF Contents

(* A miss adds the block to the cache with the given contents.              *)
LEMMA MissStep ==
  ASSUME IInv, NEW b \in Blocks, NEW page \in Pages \union {Other}, NEW d \in BOOLEAN,
         Hits(Lba(b)) = {}, AddEntry(Lba(b), page, d),
         disk' = disk, held' = held, faulty' = faulty,
         d \/ page = OnDisk(Lba(b)) \/ (faulty /\ page = Other)
  PROVE  /\ IInv'
         /\ d => Contents' = [Contents EXCEPT ![b] = page]
         /\ ~d => Contents' = Contents
<1> DEFINE k == FreeEntry
           lba == Lba(b)
<1>1. Types /\ FrameHasOneOwner /\ OneEntryPerBlock /\ CleanIsOnDisk /\ lba \in Nat
  BY LbaFacts, Zenon DEF IInv
<1>2. PICK cache \in Frames :
        /\ cache \notin CachedFrames
        /\ mem' = [mem EXCEPT ![cache] = page]
        /\ entries'[k] = [valid |-> TRUE, disk_block |-> lba, cache |-> cache, dirty |-> d]
        /\ Caches' = Caches \union {k} /\ k \notin Caches
        /\ \A i \in Caches : entries'[i] = entries[i]
        /\ Types' /\ FrameHasOneOwner'
  <2>1. PICK cache \in Frames : Added(Lba(b), page, d, cache)
    BY <1>1, AddEntryFacts, Zenon
  <2> QED
    BY <2>1, Zenon DEF Added
<1> HIDE DEF k
<1>3. \A i \in Caches : entries[i].disk_block # lba
  BY Zenon DEF Hits, Caches
<1>4. OneEntryPerBlock'
  BY <1>1, <1>2, <1>3 DEF OneEntryPerBlock
<1>5. /\ \A i \in Caches : mem'[entries'[i].cache] = mem[entries[i].cache]
      /\ mem'[entries'[k].cache] = page
  BY <1>1, <1>2 DEF Types, CachedFrames
<1>6. \A l : OnDisk(l)' = OnDisk(l)
  BY Zenon DEF OnDisk
<1>7. CleanIsOnDisk'
  <2> SUFFICES ASSUME NEW i \in Caches', ~entries'[i].dirty
               PROVE  \/ mem'[entries'[i].cache] = OnDisk(entries'[i].disk_block)
                      \/ faulty /\ mem'[entries'[i].cache] = Other
    BY <1>6, Zenon DEF CleanIsOnDisk, OnDisk
  <2>1. CASE i = k
    BY <1>2, <1>5, <2>1
  <2>2. CASE i # k
    BY <1>1, <1>2, <1>5, <2>2, Zenon DEF CleanIsOnDisk
  <2> QED
    BY <2>1, <2>2, Zenon
<1>8. \A c \in Blocks :
        /\ DirtyHits(c) = {i \in Caches : entries[i].disk_block = Lba(c) /\ entries[i].dirty}
        /\ DirtyHits(c)' = {i \in Caches' : entries'[i].disk_block = Lba(c) /\ entries'[i].dirty}
  BY ZenonT(30) DEF DirtyHits, Hits, Caches, Lba
<1>9. ASSUME d PROVE Contents'[b] = page
  <2>1. k \in DirtyHits(b)'
    BY <1>2, <1>8, <1>9
  <2> QED
    BY <1>4, <1>5, <2>1, ContentsAtNext, ZenonT(30)
<1>10. ASSUME NEW c \in Blocks, c # b \/ ~d PROVE Contents'[c] = Contents[c]
  <2>1. entries'[k].disk_block # Lba(c) \/ ~entries'[k].dirty
    <3>1. Lba(c) # lba \/ ~d
      BY <1>10, LbaFacts, Zenon
    <3> QED
      BY <1>2, <3>1
  <2>2. DirtyHits(c)' = DirtyHits(c) /\ DirtyHits(c) \subseteq Caches
    <3>1. /\ DirtyHits(c) = {i \in Caches : entries[i].disk_block = Lba(c) /\ entries[i].dirty}
          /\ DirtyHits(c)' = {i \in Caches' : entries'[i].disk_block = Lba(c) /\ entries'[i].dirty}
      BY <1>8, Zenon
    <3> QED
      BY <1>2, <2>1, <3>1, Zenon
  <2> QED
    BY <1>1, <1>4, <1>5, <2>2, ContentsStay, ZenonT(30)
<1>11. d => Contents' = [Contents EXCEPT ![b] = page]
  BY <1>9, <1>10, ContentsIsFunction, Zenon
<1>12. ~d => Contents' = Contents
  BY <1>10, ContentsIsFunction, Zenon
<1> QED
  BY <1>2, <1>4, <1>7, <1>11, <1>12, Zenon DEF IInv

(* A hit of pagecache_write changes the page of that entry only.            *)
LEMMA WriteHitStep ==
  ASSUME IInv, NEW b \in Blocks, NEW page \in Pages, NEW h \in Hits(Lba(b)),
         mem' = [mem EXCEPT ![entries[h].cache] = page],
         entries' = [entries EXCEPT ![h].dirty = TRUE],
         UNCHANGED <<disk, held, freepages, lists, faulty>>
  PROVE  IInv' /\ Contents' = [Contents EXCEPT ![b] = page]
<1>1. /\ Types /\ FrameHasOneOwner /\ OneEntryPerBlock /\ CleanIsOnDisk
      /\ h \in Caches /\ entries[h].disk_block = Lba(b)
  BY Zenon DEF IInv, Hits, Caches
<1>2. Len(entries) \in Nat /\ entries \in [1 .. Len(entries) -> Entry] /\ h \in 1 .. Len(entries)
  BY <1>1, LenProperties, Zenon DEF Types, Caches
<1>3. /\ entries' \in [1 .. Len(entries) -> Entry] /\ entries'[h].dirty
      /\ \A i \in 1 .. Len(entries) :
           /\ entries'[i].valid = entries[i].valid /\ entries'[i].cache = entries[i].cache
           /\ entries'[i].disk_block = entries[i].disk_block
           /\ i # h => entries'[i] = entries[i]
  BY <1>2, Zenon DEF Entry
<1>4. entries' \in Seq(Entry)
  BY <1>2, <1>3, FunctionIsSeq, Zenon
<1>5. Caches \subseteq 1 .. Len(entries) /\ Caches' = Caches
  BY <1>2, <1>3, ZenonT(30) DEF Caches
<1>6. CachedFrames' = CachedFrames
  BY <1>3, <1>5 DEF CachedFrames
<1>7. \A i \in Caches : mem'[entries'[i].cache] = IF i = h THEN page ELSE mem[entries[i].cache]
  BY <1>1, <1>3, <1>5 DEF Types, FrameHasOneOwner
<1>8. Types'
  BY <1>1, <1>3, <1>4, <1>5, Zenon DEF Types
<1>9. FrameHasOneOwner' /\ OneEntryPerBlock'
  BY <1>1, <1>3, <1>5, <1>6 DEF FrameHasOneOwner, OneEntryPerBlock
<1>10. \A l : OnDisk(l)' = OnDisk(l)
  BY Zenon DEF OnDisk
<1>11. CleanIsOnDisk'
  <2> SUFFICES ASSUME NEW i \in Caches', ~entries'[i].dirty
               PROVE  \/ mem'[entries'[i].cache] = OnDisk(entries'[i].disk_block)
                      \/ faulty /\ mem'[entries'[i].cache] = Other
    BY <1>10, Zenon DEF CleanIsOnDisk, OnDisk
  <2>1. i # h /\ i \in Caches /\ entries'[i] = entries[i] /\ ~entries[i].dirty
    BY <1>3, <1>5, Zenon
  <2> QED
    BY <1>1, <1>7, <2>1, Zenon DEF CleanIsOnDisk
<1>12. \A c \in Blocks :
         /\ DirtyHits(c) = {i \in Caches : entries[i].disk_block = Lba(c) /\ entries[i].dirty}
         /\ DirtyHits(c)' = {i \in Caches' : entries'[i].disk_block = Lba(c) /\ entries'[i].dirty}
  BY ZenonT(30) DEF DirtyHits, Hits, Caches, Lba
<1>13. Contents'[b] = page
  <2>1. h \in Caches' /\ entries'[h].disk_block = Lba(b) /\ entries'[h].dirty
    BY <1>1, <1>2, <1>3, <1>5, Zenon
  <2>2. DirtyHits(b)' = {i \in Caches' : entries'[i].disk_block = Lba(b) /\ entries'[i].dirty}
    BY <1>12, Zenon
  <2>3. h \in DirtyHits(b)'
    BY <2>1, <2>2, Zenon
  <2> QED
    BY <1>1, <1>7, <1>9, <2>3, ContentsAtNext, Zenon
<1>14. ASSUME NEW c \in Blocks, c # b PROVE Contents'[c] = Contents[c]
  <2>1. entries[h].disk_block # Lba(c) /\ entries'[h].disk_block # Lba(c)
    <3>1. Lba(b) # Lba(c)
      BY <1>14, LbaFacts, Zenon
    <3>2. entries'[h].disk_block = entries[h].disk_block
      BY <1>2, <1>3, Zenon
    <3> QED
      BY <1>1, <3>1, <3>2, Zenon
  <2>2. DirtyHits(c)' = DirtyHits(c) /\ DirtyHits(c) \subseteq Caches \ {h}
    <3>1. /\ DirtyHits(c) = {i \in Caches : entries[i].disk_block = Lba(c) /\ entries[i].dirty}
          /\ DirtyHits(c)' = {i \in Caches' : entries'[i].disk_block = Lba(c) /\ entries'[i].dirty}
      BY <1>12, Zenon
    <3>2. \A i \in Caches : i # h => entries'[i] = entries[i]
      BY <1>3, <1>5, Zenon
    <3>3. \A i \in DirtyHits(c) : i \in Caches \ {h}
      BY <2>1, <3>1, Zenon
    <3>4. \A i \in DirtyHits(c)' : i \in Caches \ {h}
      BY <1>5, <2>1, <3>1, Zenon
    <3>5. \A i \in Caches \ {h} : i \in DirtyHits(c)' <=> i \in DirtyHits(c)
      BY <1>5, <3>1, <3>2, Zenon
    <3> QED
      BY <3>3, <3>4, <3>5, Zenon
  <2>3. \A i \in DirtyHits(c) : mem'[entries'[i].cache] = mem[entries[i].cache]
    BY <1>7, <2>2, Zenon
  <2> QED
    BY <1>1, <1>9, <2>2, <2>3, ContentsStay, ZenonT(30)
<1>15. Contents' = [Contents EXCEPT ![b] = page]
  BY <1>13, <1>14, ContentsIsFunction, Zenon
<1> QED
  BY <1>8, <1>9, <1>11, <1>15, Zenon DEF IInv

(* A frame moves between the free list and the rest of the kernel.          *)
LEMMA MovedFrame ==
  ASSUME IInv, UNCHANGED <<disk, entries, lists, faulty>>,
         NEW f \in Frames, f \notin CachedFrames, mem' = [mem EXCEPT ![f] = Other],
         freepages' \in Seq(Frames), IsInjective(freepages'), held' \subseteq Frames,
         Range(freepages') \union held' = Range(freepages) \union held,
         Range(freepages') \intersect held' = {}
  PROVE  IInv' /\ Contents' = Contents
<1>1. Types /\ FrameHasOneOwner /\ OneEntryPerBlock /\ CleanIsOnDisk
  BY Zenon DEF IInv
<1>2. Caches' = Caches
  BY Zenon DEF Caches
<1>3. CachedFrames' = CachedFrames
  BY <1>2, Zenon DEF CachedFrames
<1>4. Types'
  BY <1>1, <1>2, Zenon DEF Types
<1>5. FrameHasOneOwner'
  BY <1>1, <1>2, <1>3, Zenon DEF FrameHasOneOwner
<1>6. OneEntryPerBlock'
  BY <1>1, <1>2, Zenon DEF OneEntryPerBlock
<1>7. \A i \in Caches : mem'[entries[i].cache] = mem[entries[i].cache]
  BY <1>1, Zenon DEF Types, CachedFrames
<1>8. \A l : OnDisk(l)' = OnDisk(l)
  BY Zenon DEF OnDisk
<1>9. CleanIsOnDisk'
  <2> SUFFICES ASSUME NEW i \in Caches', ~entries'[i].dirty
               PROVE  \/ mem'[entries'[i].cache] = OnDisk(entries'[i].disk_block)
                      \/ faulty /\ mem'[entries'[i].cache] = Other
    BY <1>8, Zenon DEF CleanIsOnDisk, OnDisk
  <2> QED
    BY <1>1, <1>2, <1>7, Zenon DEF CleanIsOnDisk
<1>10. ASSUME NEW b \in Blocks PROVE Contents'[b] = Contents[b]
  <2>1. DirtyHits(b)' = DirtyHits(b) /\ DirtyHits(b) \subseteq Caches
    BY ZenonT(30) DEF DirtyHits, Hits, Caches, Lba
  <2>2. \A i \in DirtyHits(b) : mem'[entries'[i].cache] = mem[entries[i].cache]
    BY <1>7, <2>1, Zenon
  <2> QED
    BY <1>1, <1>6, <2>1, <2>2, ContentsStay, ZenonT(30)
<1>11. Contents' = Contents
  BY <1>10, ContentsIsFunction, Zenon
<1> QED
  BY <1>4, <1>5, <1>6, <1>9, <1>11, Zenon DEF IInv

(* kalloc.                                                                  *)
LEMMA KallocStep ==
  ASSUME IInv, kalloc
  PROVE  IInv' /\ Contents' = Contents
<1> DEFINE f == freepages[1]
<1>1. freepages \in Seq(Frames) /\ IsInjective(freepages) /\ freepages # <<>> /\ held \subseteq Frames
  BY Zenon DEF IInv, Types, FrameHasOneOwner, kalloc
<1>2. Len(freepages) \in Nat /\ Len(freepages) > 0
  BY <1>1, EmptySeq
<1>3. Head(freepages) = f
  BY <1>1, <1>2
<1>4. /\ IsInjective(freepages') /\ freepages' \in Seq(Frames)
      /\ Range(freepages) = Range(freepages') \union {f}
      /\ f \notin Range(freepages') /\ f \in Frames
  <2>1. PICK t : t = Tail(freepages)
    BY Zenon
  <2>2. t \in Seq(Frames) /\ Len(t) = Len(freepages) - 1 /\ \A i \in 1 .. Len(t) : t[i] = freepages[i + 1]
    BY <1>1, <2>1, HeadTailProperties, Zenon
  <2>3. freepages' = t
    BY <2>1, Zenon DEF kalloc
  <2>4. \A i \in 1 .. Len(freepages) - 1 : t[i] = freepages[1 + i]
    BY <1>2, <2>2
  <2>5. /\ IsInjective(t) /\ Range(freepages) = Range(t) \union {freepages[i] : i \in 1 .. 1}
        /\ \A i \in 1 .. 1 : freepages[i] \notin Range(t) /\ freepages[i] \in Frames
    <3>1. 1 \in Nat /\ 0 < 1 /\ 1 <= Len(freepages)
      BY <1>2
    <3> QED
      BY <1>1, <2>2, <2>4, <3>1, TakeFrames, ZenonT(30)
  <2> QED
    BY <2>2, <2>3, <2>5
<1> HIDE DEF f
<1>5. UNCHANGED <<disk, entries, lists, faulty>> /\ held' = held \union {f} /\ mem' = [mem EXCEPT ![f] = Other]
  <2>1. /\ UNCHANGED <<disk, entries, lists, faulty>> /\ held' = held \union {Head(freepages)}
        /\ mem' = [mem EXCEPT ![Head(freepages)] = Other]
    BY Zenon DEF kalloc
  <2> QED
    BY <1>3, <2>1, Zenon
<1>6. /\ f \notin CachedFrames /\ held' \subseteq Frames
      /\ Range(freepages') \union held' = Range(freepages) \union held
      /\ Range(freepages') \intersect held' = {}
  BY <1>1, <1>4, <1>5, ZenonT(30) DEF IInv, FrameHasOneOwner
<1> QED
  BY <1>4, <1>5, <1>6, MovedFrame, Zenon

(* kfree.                                                                   *)
LEMMA KfreeStep ==
  ASSUME IInv, NEW f \in held, kfree(f)
  PROVE  IInv' /\ Contents' = Contents
<1>1. /\ freepages \in Seq(Frames) /\ IsInjective(freepages) /\ held \subseteq Frames
      /\ f \in Frames /\ f \notin Range(freepages) /\ f \notin CachedFrames
  BY Zenon DEF IInv, Types, FrameHasOneOwner
<1>2. IsInjective(freepages') /\ freepages' \in Seq(Frames) /\ Range(freepages') = Range(freepages) \union {f}
  <2>1. PICK t \in Seq(Frames) :
          /\ t = <<f>> \o freepages /\ Len(t) = Len(freepages) + 1 /\ t[1] = f
          /\ \A i \in 2 .. Len(freepages) + 1 : t[i] = freepages[i - 1]
    BY <1>1, PrependedList, Zenon
  <2>2. freepages' = t
    BY <2>1, Zenon DEF kfree
  <2>3. IsInjective(t) /\ Range(t) = Range(freepages) \union {f}
    <3>1. /\ Len(t) = Len(freepages) + 1 /\ t[1] = f
          /\ \A i \in 2 .. Len(freepages) + 1 : t[i] = freepages[i - 1]
      BY <2>1, Zenon
    <3> QED
      BY <1>1, <3>1, PrependFrame, Zenon
  <2> QED
    BY <2>2, <2>3, Zenon
<1>3. UNCHANGED <<disk, entries, lists, faulty>> /\ held' = held \ {f} /\ mem' = [mem EXCEPT ![f] = Other]
  BY Zenon DEF kfree
<1>4. /\ held' \subseteq Frames
      /\ Range(freepages') \union held' = Range(freepages) \union held
      /\ Range(freepages') \intersect held' = {}
  BY <1>1, <1>2, <1>3, ZenonT(30) DEF IInv, FrameHasOneOwner
<1> QED
  BY <1>1, <1>2, <1>3, <1>4, MovedFrame, ZenonT(30)

(* A step that changes nothing.                                             *)
LEMMA Unmoved ==
  ASSUME IInv, UNCHANGED <<disk, memory, faulty>>
  PROVE  IInv' /\ Contents' = Contents
<1> USE DEF memory
<1>1. Caches' = Caches /\ CachedFrames' = CachedFrames
  BY Zenon DEF Caches, CachedFrames
<1>2. Types' /\ FrameHasOneOwner' /\ OneEntryPerBlock'
  BY <1>1, ZenonT(30) DEF IInv, Types, FrameHasOneOwner, OneEntryPerBlock
<1>3. CleanIsOnDisk'
  BY <1>1, ZenonT(30) DEF IInv, CleanIsOnDisk, OnDisk
<1>4. Contents' = Contents
  BY DEF Contents, DirtyHits, Hits, OnDisk, Lba
<1> QED
  BY <1>2, <1>3, <1>4, Zenon DEF IInv

-----------------------------------------------------------------------------
(* The free list holds every frame of the memory map once.                  *)
LEMMA AllFrames ==
  /\ MemoryMap \in Seq(Frames) /\ IsInjective(MemoryMap)
  /\ Range(MemoryMap) = Frames
<1> DEFINE n == Cardinality(Frames)
           s == MemoryMap
<1>1. IsFiniteSet(Frames)
  BY PageCacheAssumption, Zenon
<1>2. n \in Nat /\ ExistsBijection(1 .. n, Frames)
  BY <1>1, FS_CardinalityType, Zenon
<1>3. \E f \in [1 .. n -> Frames] : IsInjective(f)
  <2> HIDE DEF n
  <2> QED
    BY <1>2, Zenon DEF ExistsBijection, Bijection, Injection
<1>4. s \in [1 .. n -> Frames] /\ IsInjective(s)
  BY <1>3, Zenon DEF MemoryMap
<1> HIDE DEF s
<1>5. Cardinality(1 .. n) = n
  <2> HIDE DEF n
  <2> QED
    BY <1>2, FS_Interval
<1>6. s \in Injection(1 .. n, Frames)
  BY <1>4, Zenon DEF Injection
<1>7. s \in Surjection(1 .. n, Frames)
  BY <1>1, <1>5, <1>6, FS_Injection, Zenon
<1> HIDE DEF n
<1>8. \A f \in Frames : \E i \in 1 .. n : s[i] = f
  BY <1>7, Zenon DEF Surjection
<1>9. s \in Seq(Frames) /\ DOMAIN s = 1 .. n
  BY <1>2, <1>4, FunctionIsSeq, Zenon
<1>10. Range(s) = Frames
  BY <1>4, <1>8, <1>9, ZenonT(30) DEF Range
<1> QED
  BY <1>4, <1>9, <1>10, Zenon DEF s

(* At boot nothing is cached.                                               *)
LEMMA Initially ==
  ASSUME Init
  PROVE  IInv /\ Contents \in [Blocks -> Pages]
<1>1. PAGECACHE_ENTRY_COUNT \in Nat
  BY PageCacheAssumption, Zenon
<1>2. Invalid \in Entry /\ ~Invalid.valid
  BY Zenon DEF Invalid, Entry
<1>3. EmptyList \in Seq(Entry) /\ \A i \in DOMAIN EmptyList : EmptyList[i] = Invalid
  BY <1>1, <1>2 DEF EmptyList
<1>4. entries = EmptyList /\ lists = <<>> /\ held = {} /\ disk \in [Sectors -> Values]
  BY Zenon DEF Init
<1>5. Caches = {} /\ CachedFrames = {} /\ \A l : Hits(l) = {}
  BY <1>2, <1>3, <1>4, Zenon DEF Caches, CachedFrames, Hits
<1>6. freepages \in Seq(Frames) /\ IsInjective(freepages) /\ Range(freepages) = Frames
  BY AllFrames, Zenon DEF Init
<1>7. Range(lists) = {} /\ IsInjective(lists) /\ lists \in Seq(Frames)
  BY <1>4 DEF Range, IsInjective
<1>8. mem \in [Frames -> Pages \union {Other}]
  BY Zenon DEF Init
<1>9. Types
  BY <1>3, <1>4, <1>5, <1>6, <1>7, <1>8, Zenon DEF Types
<1>10. FrameHasOneOwner
  BY <1>4, <1>5, <1>6, <1>7, Zenon DEF FrameHasOneOwner
<1>11. OneEntryPerBlock /\ CleanIsOnDisk
  BY <1>5, Zenon DEF OneEntryPerBlock, CleanIsOnDisk
<1>12. Contents \in [Blocks -> Pages]
  <2>1. \A b \in Blocks : OnDisk(Lba(b)) \in Pages
    BY <1>4, DiskPage, Zenon
  <2>2. Contents = [b \in Blocks |-> OnDisk(Lba(b))]
    BY <1>5, Zenon DEF Contents, DirtyHits
  <2> QED
    BY <2>1, <2>2, Zenon
<1> QED
  BY <1>9, <1>10, <1>11, <1>12, Zenon DEF IInv

(* What a call does to the cache, and to the blocks as the file system sees *)
(* them.                                                                    *)
LEMMA ReadStep ==
  ASSUME IInv, Asked, read_block
  PROVE  /\ IInv' /\ Contents' = Contents /\ faulty' = faulty
         /\ result' = Contents[request.block] \/ (faulty /\ result' = Other)
<1> DEFINE b == request.block
<1>1. /\ OneEntryPerBlock /\ CleanIsOnDisk /\ disk \in [Sectors -> Values]
      /\ disk' = disk /\ held' = held /\ faulty' = faulty
  BY Zenon DEF IInv, Types, read_block
<1>2. b \in Blocks
  BY DEF read_block, Asked, Requests
<1>3. pagecache_read(Lba(b))
  BY Zenon DEF read_block
<1> HIDE DEF b
<1>4. ASSUME NEW i \in Hits(Lba(b)), result' = mem[entries[i].cache],
             UNCHANGED <<freepages, mem, entries, lists>>
      PROVE  /\ IInv' /\ Contents' = Contents
             /\ result' = Contents[b] \/ (faulty /\ result' = Other)
  <2>1. IInv' /\ Contents' = Contents
    BY <1>1, <1>4, Unmoved, Zenon DEF memory
  <2>2. i \in Caches /\ entries[i].disk_block = Lba(b)
    BY <1>4, Zenon DEF Hits, Caches
  <2>3. CASE entries[i].dirty
    <3>1. i \in DirtyHits(b)
      BY <1>4, <2>3, Zenon DEF DirtyHits
    <3> QED
      BY <1>1, <1>2, <1>4, <2>1, <3>1, ContentsAt, Zenon
  <2>4. CASE ~entries[i].dirty
    <3>1. DirtyHits(b) = {}
      BY <1>1, <2>2, <2>4, ZenonT(30) DEF DirtyHits, Hits, Caches, OneEntryPerBlock
    <3>2. Contents[b] = OnDisk(Lba(b))
      BY <1>1, <1>2, <3>1, ContentsAt, Zenon
    <3>3. result' = OnDisk(Lba(b)) \/ (faulty /\ result' = Other)
      BY <1>1, <1>4, <2>2, <2>4, Zenon DEF CleanIsOnDisk
    <3> QED
      BY <2>1, <3>2, <3>3, Zenon
  <2> QED
    BY <2>3, <2>4, Zenon
<1>5. ASSUME Hits(Lba(b)) = {}, NEW page \in pagecache_nvme_read(Lba(b)),
             AddEntry(Lba(b), page, FALSE), result' = page
      PROVE  /\ IInv' /\ Contents' = Contents
             /\ result' = Contents[b] \/ (faulty /\ result' = Other)
  <2>1. page = OnDisk(Lba(b)) \/ (faulty /\ page = Other)
    BY Zenon DEF pagecache_nvme_read
  <2>2. page \in Pages \union {Other}
    BY <1>1, <1>2, <2>1, DiskPage, Zenon
  <2>3. Contents[b] = OnDisk(Lba(b))
    <3>1. DirtyHits(b) = {}
      BY <1>5, Zenon DEF DirtyHits
    <3> QED
      BY <1>1, <1>2, <3>1, ContentsAt, Zenon
  <2>4. IInv' /\ Contents' = Contents
    <3>1. FALSE \in BOOLEAN /\ ~FALSE
      BY Zenon
    <3> QED
      BY <1>1, <1>2, <1>5, <2>1, <2>2, <3>1, MissStep, Zenon
  <2> QED
    BY <1>5, <2>1, <2>3, <2>4, Zenon
<1> QED
  BY <1>1, <1>3, <1>4, <1>5, Zenon DEF pagecache_read, b

(* pagecache_write.                                                         *)
LEMMA WriteStep ==
  ASSUME IInv, Asked, write_block
  PROVE  /\ IInv' /\ result' = result /\ faulty' = faulty
         /\ Contents' = [Contents EXCEPT ![request.block] = request.page]
<1> DEFINE b == request.block
           page == request.page
<1>1. disk' = disk /\ held' = held /\ result' = result /\ faulty' = faulty
  BY Zenon DEF write_block, pagecache_write
<1>2. b \in Blocks /\ page \in Pages
  BY DEF write_block, Asked, Requests
<1>3. pagecache_write(Lba(b), page)
  BY Zenon DEF write_block
<1> HIDE DEF b, page
<1>4. CASE Hits(Lba(b)) = {} /\ AddEntry(Lba(b), page, TRUE)
  <2>1. TRUE \in BOOLEAN /\ page \in Pages \union {Other}
    BY <1>2, Zenon
  <2>2. IInv' /\ Contents' = [Contents EXCEPT ![b] = page]
    BY <1>1, <1>2, <1>4, <2>1, MissStep, Zenon
  <2> QED
    BY <1>1, <2>2, Zenon DEF b, page
<1>5. ASSUME NEW h \in Hits(Lba(b)), mem' = [mem EXCEPT ![entries[h].cache] = page],
             entries' = [entries EXCEPT ![h].dirty = TRUE], UNCHANGED <<freepages, lists>>
      PROVE  IInv' /\ Contents' = [Contents EXCEPT ![b] = page]
  <2>1. UNCHANGED <<disk, held, freepages, lists, faulty>>
    BY <1>1, <1>5, Zenon
  <2> QED
    BY <1>2, <1>5, <2>1, WriteHitStep, Zenon
<1> QED
  BY <1>1, <1>3, <1>4, <1>5, Zenon DEF pagecache_write, b, page

(* pagecache_do_steal, and a call that is only made.                        *)
LEMMA StealStep ==
  ASSUME IInv, Call \/ pagecache_do_steal \/ UNCHANGED vars
  PROVE  IInv' /\ Contents' = Contents /\ result' = result /\ faulty' = faulty
BY Unmoved, Zenon DEF Call, pagecache_do_steal, vars

(* Cache, free list and disk agree through every step.                      *)
THEOREM InvariantHolds == Spec => [](IInv /\ Asked)
<1>1. ASSUME Init PROVE IInv /\ Asked
  BY <1>1, Initially, Zenon DEF Init, Asked
<1>2. ASSUME IInv, Asked, [Next]_vars PROVE IInv'
  BY <1>2, ReadStep, WriteStep, KallocStep, KfreeStep, StealStep, Zenon DEF Next
<1>3. ASSUME Asked, [Next]_vars PROVE Asked'
  <2>1. request' \in {request, None} \union Requests
    BY <1>3, Zenon DEF Next, Call, read_block, write_block, kalloc, kfree, pagecache_do_steal, vars
  <2>2. Requests' = Requests
    BY Zenon
  <2> QED
    BY <1>3, <2>1, <2>2, Zenon DEF Asked
<1> QED
  BY <1>1, <1>2, <1>3, PTL DEF Spec

(* With any number of frames and lists of entries of any length, a frame of *)
(* mem.c is free, a list of entries, a cached page or allocated by the rest *)
(* of the kernel, never two of these and never none.                        *)
THEOREM FramesHaveOneOwner == Spec => []FrameHasOneOwner
<1>1. IInv => FrameHasOneOwner
  BY Zenon DEF IInv
<1> QED
  BY <1>1, InvariantHolds, PTL

(* A page that pagecache_write did not mark dirty is the one on the disk,   *)
(* or the junk of a read that failed.                                       *)
THEOREM CleanPagesAreOnDisk == Spec => []CleanIsOnDisk
<1>1. IInv => CleanIsOnDisk
  BY Zenon DEF IInv
<1> QED
  BY <1>1, InvariantHolds, PTL

(* The page cache over the disk is a block store: read_block returns what   *)
(* the last write_block to the same block wrote, unless the device failed.  *)
THEOREM CacheIsBlockStore == Spec => StorageSpec
<1>1. ASSUME Init PROVE Storage!Init
  <2>1. result \in Pages /\ request = None /\ faulty \in BOOLEAN
    BY <1>1, ZenonT(30) DEF Init
  <2> QED
    BY <1>1, <2>1, Initially, Zenon DEF Storage!Init
<1>2. ASSUME IInv, Asked, [Next]_vars PROVE Storage!Next \/ UNCHANGED Storage!vars
  <2>1. CASE Call
    <3>1. Contents' = Contents /\ result' = result /\ faulty' = faulty
      BY <1>2, <2>1, StealStep, Zenon
    <3>2. request = None /\ request' \in Storage!Requests
      BY <2>1, Zenon DEF Call, Requests, Storage!Requests
    <3> QED
      BY <3>1, <3>2, Zenon DEF Storage!Next, Storage!Call
  <2>2. CASE read_block
    <3>1. request # None /\ request.op = "read" /\ request' = None
      BY <2>2, Zenon DEF read_block
    <3>2. /\ Contents' = Contents /\ faulty' = faulty
          /\ result' = Contents[request.block] \/ (faulty /\ result' = Other)
      BY <1>2, <2>2, ReadStep, Zenon
    <3> QED
      BY <3>1, <3>2, Zenon DEF Storage!Next, Storage!ReturnRead
  <2>3. CASE write_block
    <3>1. request # None /\ request.op = "write" /\ request' = None
      BY <2>3, Zenon DEF write_block
    <3>2. /\ Contents' = [Contents EXCEPT ![request.block] = request.page]
          /\ result' = result /\ faulty' = faulty
      BY <1>2, <2>3, WriteStep, Zenon
    <3> QED
      BY <3>1, <3>2, Zenon DEF Storage!Next, Storage!ReturnWrite, Storage!Written
  <2>4. CASE kalloc
    <3>1. result' = result /\ request' = request /\ faulty' = faulty
      BY <2>4, Zenon DEF kalloc
    <3> QED
      BY <1>2, <2>4, <3>1, KallocStep, Zenon DEF Storage!vars
  <2>5. ASSUME NEW f \in held, kfree(f) PROVE UNCHANGED Storage!vars
    <3>1. result' = result /\ request' = request /\ faulty' = faulty
      BY <2>5, Zenon DEF kfree
    <3> QED
      BY <1>2, <2>5, <3>1, KfreeStep, Zenon DEF Storage!vars
  <2>6. CASE pagecache_do_steal \/ UNCHANGED vars
    <3>1. request' = request
      BY <2>6, Zenon DEF pagecache_do_steal, vars
    <3> QED
      BY <1>2, <2>6, <3>1, StealStep, Zenon DEF Storage!vars
  <2> QED
    BY <1>2, <2>1, <2>2, <2>3, <2>4, <2>5, <2>6, Zenon DEF Next
<1> QED
  BY <1>1, <1>2, InvariantHolds, PTL DEF Spec, StorageSpec, Storage!Spec
=============================================================================
