--------------------------- MODULE ResourceProofs ----------------------------
(***************************************************************************)
(* What is given out and taken back: frames and heap blocks, for any       *)
(* memory maps whose usable entries do not overlap, any page size that     *)
(* divides the word and any table sizes, and the drivers' locks and        *)
(* doorbell, for any nesting of interrupts, tree size, number of calls and *)
(* payload sizes above the ids in use.                                     *)
(***************************************************************************)
EXTENDS Memory, Devices, FiniteSetTheorems, TLAPS

-----------------------------------------------------------------------------
\* Rounding down gives a multiple that is at most one step away.
LEMMA AlignDown ==
  ASSUME NEW v \in Nat, NEW a \in Nat \ {0}
  PROVE  /\ align_down(v, a) \in Nat
         /\ align_down(v, a) <= v /\ v < align_down(v, a) + a
         /\ align_down(v, a) = a * (v \div a)
<1>1. v % a \in 0 .. a - 1 /\ v = a * (v \div a) + (v % a) /\ v \div a \in Nat
  OBVIOUS
<1>2. a * (v \div a) \in Nat
  BY <1>1
<1> QED
  BY <1>1, <1>2 DEF align_down

\* Two multiples that are less than one step apart are in order.
LEMMA Multiples ==
  ASSUME NEW a \in Nat \ {0}, NEW m \in Nat, NEW n \in Nat, a * m < a * n + a
  PROVE  a * m <= a * n
<1>1. a * n + a = a * (n + 1)
  OBVIOUS
<1>2. m < n + 1
  BY <1>1
<1>3. m <= n
  BY <1>2
<1> QED
  BY <1>3

\* Rounding up does not go below the value, unless it met the end of the word.
LEMMA AlignUp ==
  ASSUME NEW v \in 0 .. WordMax, NEW a \in Nat \ {0}
  PROVE  /\ align_up(v, a) \in 0 .. WordMax
         /\ v + a - 1 <= WordMax => v <= align_up(v, a)
         /\ v + a - 1 > WordMax => align_up(v, a) = align_down(WordMax, a)
<1>1. WordMax \in Nat
  BY WordAssumption
<1>2. saturating_add(v, a - 1) = (IF v + a - 1 > WordMax THEN WordMax ELSE v + a - 1)
  BY <1>1 DEF saturating_add
<1>3. saturating_add(v, a - 1) \in 0 .. WordMax
  BY <1>1, <1>2
<1>4. /\ align_up(v, a) \in Nat /\ align_up(v, a) <= saturating_add(v, a - 1)
      /\ saturating_add(v, a - 1) < align_up(v, a) + a
  BY <1>3, AlignDown DEF align_up
<1>5. v + a - 1 > WordMax => align_up(v, a) = align_down(WordMax, a)
  BY <1>1, <1>2 DEF align_up
<1> QED
  BY <1>1, <1>2, <1>3, <1>4, <1>5

\* A region that initialize keeps lies inside its entry and above the reserved
\* part: where rounding up meets the end of the word no region is kept.
LEMMA KeptRegion ==
  ASSUME NEW e \in Entry, region_end(e) > region_start(e)
  PROVE  /\ region_start(e) \in 0 .. WordMax /\ region_end(e) \in 0 .. WordMax
         /\ e.base <= region_start(e) /\ ReservedEnd <= region_start(e)
         /\ region_end(e) <= EntryEnd(e) /\ region_end(e) + PageSize <= WordMax + 1
<1> DEFINE low == IF e.base > ReservedEnd THEN e.base ELSE ReservedEnd
<1>1. /\ WordMax \in Nat /\ PageSize \in Nat \ {0} /\ ReservedEnd \in 0 .. WordMax
      /\ (WordMax + 1) % PageSize = 0
  BY WordAssumption
<1>2. e.base \in 0 .. WordMax /\ e.length \in 0 .. WordMax
  BY DEF Entry
<1>3. EntryEnd(e) \in 0 .. WordMax
  BY <1>1, <1>2 DEF EntryEnd, saturating_add
<1>4. low \in 0 .. WordMax /\ e.base <= low /\ ReservedEnd <= low
  BY <1>1, <1>2
<1>5. region_end(e) \in Nat /\ region_end(e) <= EntryEnd(e) /\ region_end(e) = PageSize * (EntryEnd(e) \div PageSize)
  <2>1. EntryEnd(e) \in Nat /\ region_end(e) = align_down(EntryEnd(e), PageSize)
    BY <1>3 DEF region_end
  <2> QED
    BY Zenon, <1>1, <2>1, AlignDown
<1>6. region_start(e) = align_up(low, PageSize)
  BY DEF region_start
<1> HIDE DEF low
<1>7. low + PageSize - 1 <= WordMax
  <2> SUFFICES ASSUME low + PageSize - 1 > WordMax PROVE FALSE
    BY <1>1, <1>4
  <2>1. region_start(e) = align_down(WordMax, PageSize)
    BY <1>1, <1>4, <1>6, AlignUp
  <2>2. /\ align_down(WordMax, PageSize) = PageSize * (WordMax \div PageSize)
        /\ WordMax < align_down(WordMax, PageSize) + PageSize
    BY Zenon, <1>1, AlignDown
  <2>3. WordMax \div PageSize \in Nat /\ EntryEnd(e) \div PageSize \in Nat
    BY <1>1, <1>3
  <2>4. region_end(e) < align_down(WordMax, PageSize) + PageSize
    BY <1>1, <1>3, <1>5, <2>2, <2>3
  <2>5. region_end(e) <= align_down(WordMax, PageSize)
    BY <1>1, <1>5, <2>2, <2>3, <2>4, Multiples
  <2> QED
    BY <1>5, <2>1, <2>2, <2>3, <2>5, <1>1
<1>8. region_start(e) \in 0 .. WordMax /\ low <= region_start(e)
  BY <1>1, <1>4, <1>6, <1>7, AlignUp
<1>9. region_end(e) + PageSize <= WordMax + 1
  <2> DEFINE q == EntryEnd(e) \div PageSize
             Q == (WordMax + 1) \div PageSize
  <2>1. q \in Nat /\ Q \in Nat /\ WordMax + 1 = PageSize * Q
    BY <1>1, <1>3
  <2>2. region_end(e) = PageSize * q /\ PageSize * q < PageSize * Q
    BY <1>1, <1>3, <1>5, <2>1
  <2> HIDE DEF q, Q
  <2>3. q < Q
    BY <1>1, <2>1, <2>2
  <2>4. q + 1 <= Q
    BY <2>1, <2>3
  <2>5. PageSize * (q + 1) <= PageSize * Q
    BY <1>1, <2>1, <2>4
  <2> QED
    BY <1>1, <2>1, <2>2, <2>5
<1> QED
  BY <1>1, <1>2, <1>3, <1>4, <1>5, <1>8, <1>9

-----------------------------------------------------------------------------
\* Where the regions come from: each from an entry of its own that is usable,
\* inside which its pointer moves.
RegionsSound ==
    /\ \A i \in DOMAIN regions :
          LET r == regions[i]
          IN  /\ r.entry \in 1 .. entry - 1 /\ r.entry \in DOMAIN memory_map
              /\ memory_map[r.entry].usable
              /\ memory_map[r.entry].base <= r.start /\ ReservedEnd <= r.start
              /\ r.start <= r.next /\ r.next <= r.end
              /\ r.end <= EntryEnd(memory_map[r.entry]) /\ r.end + PageSize <= WordMax + 1
    /\ \A i, j \in DOMAIN regions : regions[i].entry = regions[j].entry => i = j

\* A range handed out lies below the pointer of its region.
GrantsSound ==
    \A g \in DOMAIN grants :
        /\ grants[g].region \in DOMAIN regions
        /\ regions[grants[g].region].start <= grants[g].from
        /\ grants[g].from <= grants[g].to
        /\ grants[g].to <= regions[grants[g].region].next

\* The heap's pointer is above every block in use.
HeapBounds ==
    /\ phase # "run" => live = {} /\ heap = NoHeap
    /\ phase = "run" => heap.end + PageSize <= WordMax + 1
    /\ heap.start <= heap.next /\ heap.next <= heap.end
    /\ \A b \in live : b.to <= heap.next
    /\ IsFiniteSet(live)

FramesInv == RegionsSound /\ GrantsSound /\ GrantsDisjoint
MemoryInv == TypeOK /\ FramesInv /\ HeapBounds /\ HeapSound /\ HeapCounted

\* The fields of a region and of a grant are addresses.
LEMMA AddressFields ==
  /\ \A r \in Region : r.start \in Int /\ r.end \in Int /\ r.next \in Int
                      /\ 0 <= r.start /\ 0 <= r.next /\ r.end <= WordMax
  /\ \A g \in Grant : g.from \in Int /\ g.to \in Int
  BY WordAssumption DEF Region, Grant

\* Different regions are apart, because their entries are.
LEMMA RegionsApart ==
  ASSUME TypeOK, RegionsSound, NEW i \in DOMAIN regions, NEW j \in DOMAIN regions, i # j
  PROVE  Apart(regions[i].start, regions[i].end, regions[j].start, regions[j].end)
<1> DEFINE k == regions[i].entry
           l == regions[j].entry
<1>1. /\ k \in DOMAIN memory_map /\ l \in DOMAIN memory_map /\ k # l
      /\ memory_map[k].usable /\ memory_map[l].usable
      /\ memory_map[k].base <= regions[i].start /\ memory_map[l].base <= regions[j].start
      /\ regions[i].end <= EntryEnd(memory_map[k]) /\ regions[j].end <= EntryEnd(memory_map[l])
  BY DEF RegionsSound
<1>2. /\ memory_map \in Seq(Entry)
      /\ Apart(memory_map[k].base, EntryEnd(memory_map[k]), memory_map[l].base, EntryEnd(memory_map[l]))
  BY <1>1, MapAssumption DEF TypeOK
<1>3. /\ memory_map[k] \in Entry /\ memory_map[l] \in Entry
      /\ regions[i] \in Region /\ regions[j] \in Region
  BY <1>1, <1>2 DEF TypeOK
<1>4. \A e \in Entry : e.base \in Nat /\ EntryEnd(e) \in Nat
  BY WordAssumption DEF Entry, EntryEnd, saturating_add
<1>5. \A r \in Region : r.start \in Int /\ r.end \in Int
  BY AddressFields
<1> DEFINE b1 == memory_map[k].base
           t1 == EntryEnd(memory_map[k])
           b2 == memory_map[l].base
           t2 == EntryEnd(memory_map[l])
<1>6. b1 \in Nat /\ t1 \in Nat /\ b2 \in Nat /\ t2 \in Nat
  BY <1>3, <1>4
<1>7. /\ regions[i].start \in Int /\ regions[i].end \in Int
      /\ regions[j].start \in Int /\ regions[j].end \in Int
  BY <1>3, <1>5
<1>8. b1 <= regions[i].start /\ b2 <= regions[j].start /\ regions[i].end <= t1 /\ regions[j].end <= t2
  BY <1>1
<1>9. t1 =< b2 \/ t2 =< b1
  BY <1>2 DEF Apart
<1> HIDE DEF b1, t1, b2, t2
<1> QED
  BY <1>6, <1>7, <1>8, <1>9 DEF Apart

\* allocate_contiguous keeps the frame invariant: the new range starts where the
\* region's pointer was, above all earlier ranges of that region.
LEMMA AllocateKeeps ==
  ASSUME TypeOK, FramesInv, NEW count \in Nat, allocate_contiguous(count),
         UNCHANGED <<memory_map, entry>>
  PROVE  /\ regions' \in Seq(Region) /\ Len(regions') = Len(regions)
         /\ grants' \in Seq(Grant) /\ Len(grants') = Len(grants) + 1
         /\ allocated_frames' \in Nat /\ allocatable_bytes' = allocatable_bytes
         /\ \A g \in DOMAIN grants : grants'[g] = grants[g]
         /\ grants'[Len(grants')].to = grants'[Len(grants')].from + count * PageSize
         /\ grants'[Len(grants')].to + PageSize <= WordMax + 1
         /\ FramesInv'
<1> DEFINE bytes == count * PageSize
<1>0. /\ regions \in Seq(Region) /\ grants \in Seq(Grant) /\ allocated_frames \in Nat
      /\ WordMax \in Nat /\ bytes \in Nat
      /\ RegionsSound /\ GrantsSound /\ GrantsDisjoint
  BY WordAssumption DEF TypeOK, FramesInv
<1>1. PICK i \in WithRoom(bytes) :
        /\ regions' = [regions EXCEPT ![i] = Advanced(@, bytes)]
        /\ allocated_frames' = allocated_frames + count
        /\ grants' = Append(grants, [from   |-> regions[i].next,
                                    to     |-> regions[i].next + bytes,
                                    region |-> i])
        /\ allocatable_bytes' = allocatable_bytes
  BY Zenon DEF allocate_contiguous
<1> HIDE DEF bytes
<1> DEFINE r == regions[i]
           n == [from |-> r.next, to |-> r.next + bytes, region |-> i]
<1>2. /\ i \in DOMAIN regions /\ r \in Region /\ r.end - r.next >= bytes
      /\ i \in Nat
  BY <1>0, <1>1 DEF WithRoom
<1>3. /\ r.next \in 0 .. WordMax /\ r.end \in 0 .. WordMax /\ r.start \in 0 .. WordMax
      /\ r.next + bytes \in 0 .. WordMax /\ r.next + bytes <= r.end
  <2>1. r.next \in 0 .. WordMax /\ r.end \in 0 .. WordMax /\ r.start \in 0 .. WordMax
    BY <1>2 DEF Region
  <2> HIDE DEF r
  <2> QED
    BY <1>0, <1>2, <2>1
<1>4. Advanced(r, bytes) = [r EXCEPT !.next = r.next + bytes]
  BY SMTT(30), <1>0, <1>3 DEF Advanced, saturating_add
<1>5. /\ Advanced(r, bytes) \in Region /\ Advanced(r, bytes).next = r.next + bytes
      /\ Advanced(r, bytes).start = r.start /\ Advanced(r, bytes).end = r.end
      /\ Advanced(r, bytes).entry = r.entry
  BY <1>2, <1>3, <1>4 DEF Region
<1>6. /\ regions' \in Seq(Region) /\ Len(regions') = Len(regions) /\ DOMAIN regions' = DOMAIN regions
      /\ \A j \in DOMAIN regions : regions'[j] = IF j = i THEN Advanced(r, bytes) ELSE regions[j]
  BY <1>0, <1>1, <1>2, <1>5
<1>7. n \in Grant /\ n.from = r.next /\ n.to = r.next + bytes /\ n.region = i
  BY <1>2, <1>3 DEF Grant
<1> HIDE DEF n
<1>8. /\ grants' \in Seq(Grant) /\ Len(grants') = Len(grants) + 1
      /\ \A g \in DOMAIN grants : grants'[g] = grants[g]
      /\ grants'[Len(grants) + 1] = n
      /\ DOMAIN grants' = DOMAIN grants \cup {Len(grants) + 1}
      /\ Len(grants) + 1 \notin DOMAIN grants
  BY <1>0, <1>1, <1>7 DEF n
<1>9. RegionsSound'
  <2>1. \A j \in DOMAIN regions :
          /\ regions'[j].entry = regions[j].entry /\ regions'[j].start = regions[j].start
          /\ regions'[j].end = regions[j].end
    BY <1>5, <1>6
  <2>2. \A j \in DOMAIN regions : regions[j].start <= regions'[j].next /\ regions'[j].next <= regions[j].end
    <3> SUFFICES ASSUME NEW j \in DOMAIN regions
                 PROVE  regions[j].start <= regions'[j].next /\ regions'[j].next <= regions[j].end
      OBVIOUS
    <3>1. regions[j].start <= regions[j].next /\ regions[j].next <= regions[j].end
      BY <1>0 DEF RegionsSound
    <3> QED
      BY SMTT(30), <1>0, <1>3, <1>5, <1>6, <3>1
  <2> QED
    BY Zenon, <1>0, <1>6, <2>1, <2>2 DEF RegionsSound
<1>10. GrantsSound'
  <2>1. ASSUME NEW g \in DOMAIN grants
        PROVE  /\ grants[g].region \in DOMAIN regions
               /\ regions'[grants[g].region].start <= grants[g].from
               /\ grants[g].from <= grants[g].to
               /\ grants[g].to <= regions'[grants[g].region].next
    <3>1. /\ grants[g].region \in DOMAIN regions
          /\ regions[grants[g].region].start <= grants[g].from
          /\ grants[g].from <= grants[g].to
          /\ grants[g].to <= regions[grants[g].region].next
      BY <1>0 DEF GrantsSound
    <3>2. grants[g] \in Grant
      BY <1>0
    <3>3. grants[g].to \in Int
      BY <3>2, AddressFields
    <3>4. CASE grants[g].region = i
      BY SMTT(30), <1>0, <1>3, <1>5, <1>6, <3>1, <3>3, <3>4
    <3>5. CASE grants[g].region # i
      BY <1>6, <3>1, <3>5
    <3> QED
      BY <3>4, <3>5
  <2>2. r.start <= r.next
    BY <1>0, <1>2 DEF RegionsSound
  <2>3. /\ n.region \in DOMAIN regions /\ regions'[n.region].start <= n.from
        /\ n.from <= n.to /\ n.to <= regions'[n.region].next
    BY <1>0, <1>2, <1>3, <1>5, <1>6, <1>7, <2>2
  <2> QED
    BY <1>6, <1>8, <2>1, <2>3 DEF GrantsSound
<1>11. GrantsDisjoint'
  <2>1. ASSUME NEW g \in DOMAIN grants
        PROVE  grants[g].to <= n.from \/ n.to <= grants[g].from
    <3> DEFINE q == grants[g].region
    <3>1. /\ q \in DOMAIN regions /\ regions[q].start <= grants[g].from
          /\ grants[g].from <= grants[g].to /\ grants[g].to <= regions[q].next
          /\ regions[q].next <= regions[q].end
      BY <1>0 DEF GrantsSound, RegionsSound
    <3>2. /\ grants[g].to \in Int /\ grants[g].from \in Int
      <4>1. grants[g] \in Grant
        BY <1>0
      <4> QED
        BY <4>1, AddressFields
    <3>3. regions[q].start \in Int /\ regions[q].next \in Int /\ regions[q].end \in Int
      <4>1. regions[q] \in Region
        BY <1>0, <3>1
      <4> QED
        BY <4>1, AddressFields
    <3>4. CASE q = i
      BY <1>7, <3>1, <3>4
    <3>5. CASE q # i
      <4>1. Apart(regions[q].start, regions[q].end, r.start, r.end)
        BY <1>0, <1>2, <3>1, <3>5, RegionsApart
      <4>2. r.start <= r.next
        BY <1>0, <1>2 DEF RegionsSound
      <4> HIDE DEF q, r
      <4> QED
        BY <1>3, <1>7, <3>1, <3>2, <3>3, <4>1, <4>2 DEF Apart
    <3> QED
      BY <3>4, <3>5
  <2> QED
    BY Zenon, <1>0, <1>8, <2>1 DEF GrantsDisjoint, Apart
<1>12. n.to + PageSize <= WordMax + 1
  <2>1. r.end + PageSize <= WordMax + 1
    BY <1>0, <1>2 DEF RegionsSound
  <2> HIDE DEF r
  <2> QED
    BY SMTT(30), <1>0, <1>3, <1>7, <2>1, WordAssumption
<1> QED
  BY <1>0, <1>1, <1>6, <1>7, <1>8, <1>9, <1>10, <1>11, <1>12 DEF FramesInv, bytes

\* The frame invariant does not look at anything but its variables.
LEMMA FramesSame ==
  ASSUME FramesInv, UNCHANGED <<memory_map, entry, frameVars>>
  PROVE  FramesInv'
  BY DEF FramesInv, RegionsSound, GrantsSound, GrantsDisjoint, frameVars

\* One round of the loop in initialize adds no region or a sound one.
LEMMA ScanKeeps ==
  ASSUME TypeOK, FramesInv, ScanEntry
  PROVE  FramesInv' /\ TypeOK'
<1> DEFINE e == memory_map[entry]
           r == [start |-> region_start(e), end |-> region_end(e), next |-> region_start(e), entry |-> entry]
<1>0. /\ memory_map \in Seq(Entry) /\ memory_map' = memory_map /\ entry \in DOMAIN memory_map
      /\ entry' = entry + 1 /\ grants' = grants /\ allocated_frames' = allocated_frames
      /\ heap' = heap /\ live' = live /\ e \in Entry /\ entry \in Nat
      /\ entry' \in 1 .. Len(memory_map) + 1
  BY MapAssumption DEF ScanEntry, TypeOK
<1>1. CASE UNCHANGED <<regions, allocatable_bytes>> /\ phase' \in {phase, "halted"}
  <2>1. FramesInv'
    <3>1. RegionsSound'
      BY <1>0, <1>1 DEF RegionsSound, FramesInv
    <3> QED
      BY <1>0, <1>1, <3>1 DEF FramesInv, GrantsSound, GrantsDisjoint
  <2>2. TypeOK'
    BY <1>0, <1>1 DEF TypeOK
  <2> QED
    BY <2>1, <2>2
<1>2. CASE /\ e.usable /\ region_end(e) > region_start(e) /\ Len(regions) < MaxRegions
           /\ regions' = Append(regions, r)
           /\ allocatable_bytes' = saturating_add(allocatable_bytes, r.end - r.start)
           /\ phase' = phase
  <2>1. /\ region_start(e) \in 0 .. WordMax /\ region_end(e) \in 0 .. WordMax
        /\ e.base <= region_start(e) /\ ReservedEnd <= region_start(e)
        /\ region_end(e) <= EntryEnd(e) /\ region_end(e) + PageSize <= WordMax + 1
    BY <1>0, <1>2, KeptRegion
  <2>2. r \in Region /\ r.start = region_start(e) /\ r.end = region_end(e)
        /\ r.next = region_start(e) /\ r.entry = entry
    BY <1>0, <2>1 DEF Region
  <2> HIDE DEF r
  <2>3. /\ regions \in Seq(Region) /\ regions' \in Seq(Region) /\ Len(regions') = Len(regions) + 1
        /\ \A j \in DOMAIN regions : regions'[j] = regions[j]
        /\ regions'[Len(regions) + 1] = r
        /\ DOMAIN regions' = DOMAIN regions \cup {Len(regions) + 1}
    BY <1>2, <2>2 DEF TypeOK
  <2>4. TypeOK'
    <3>1. allocatable_bytes' \in 0 .. WordMax
      <4>1. allocatable_bytes \in 0 .. WordMax /\ WordMax \in Nat
        BY WordAssumption DEF TypeOK
      <4>2. r.end - r.start \in Nat
        BY <1>2, <2>1, <2>2, <4>1
      <4> QED
        BY <1>2, <4>1, <4>2 DEF saturating_add
    <3>2. Len(regions') <= MaxRegions
      BY <1>2, <2>3, WordAssumption
    <3> QED
      BY <1>0, <1>2, <2>3, <3>1, <3>2 DEF TypeOK
  <2>5. RegionsSound'
    <3>1. \A j \in DOMAIN regions : regions[j].entry \in 1 .. entry - 1
      BY DEF FramesInv, RegionsSound
    <3>2. \A i, j \in DOMAIN regions' : regions'[i].entry = regions'[j].entry => i = j
      <4>1. \A j \in DOMAIN regions : regions[j].entry # entry
        BY <1>0, <3>1
      <4>2. \A i, j \in DOMAIN regions : regions[i].entry = regions[j].entry => i = j
        BY DEF FramesInv, RegionsSound
      <4>3. /\ \A j \in DOMAIN regions : regions'[j].entry = regions[j].entry
            /\ regions'[Len(regions) + 1].entry = entry
        BY <2>2, <2>3
      <4> QED
        BY <2>3, <4>1, <4>2, <4>3
    <3>3. ASSUME NEW j \in DOMAIN regions
          PROVE  /\ regions[j].entry \in 1 .. entry' - 1 /\ regions[j].entry \in DOMAIN memory_map
                 /\ memory_map[regions[j].entry].usable
                 /\ memory_map[regions[j].entry].base <= regions[j].start /\ ReservedEnd <= regions[j].start
                 /\ regions[j].start <= regions[j].next /\ regions[j].next <= regions[j].end
                 /\ regions[j].end <= EntryEnd(memory_map[regions[j].entry])
                 /\ regions[j].end + PageSize <= WordMax + 1
      BY <1>0 DEF FramesInv, RegionsSound
    <3>4. /\ r.entry \in 1 .. entry' - 1 /\ r.entry \in DOMAIN memory_map
          /\ memory_map[r.entry].usable
          /\ memory_map[r.entry].base <= r.start /\ ReservedEnd <= r.start
          /\ r.start <= r.next /\ r.next <= r.end
          /\ r.end <= EntryEnd(memory_map[r.entry]) /\ r.end + PageSize <= WordMax + 1
      BY <1>0, <1>2, <2>1, <2>2
    <3> QED
      BY Zenon, <1>0, <2>3, <3>2, <3>3, <3>4 DEF RegionsSound
  <2>6. GrantsSound' /\ GrantsDisjoint'
    BY <1>0, <2>3 DEF FramesInv, GrantsSound, GrantsDisjoint
  <2> QED
    BY <2>4, <2>5, <2>6 DEF FramesInv
<1> QED
  BY <1>1, <1>2 DEF ScanEntry

-----------------------------------------------------------------------------
HeapType == [start : 0 .. WordMax, end : 0 .. WordMax, next : 0 .. WordMax, allocations : Nat]

\* What is known of the heap once it runs, in numbers.
LEMMA HeapNumbers ==
  ASSUME MemoryInv
  PROVE  /\ heap \in HeapType
         /\ heap.start \in Nat /\ heap.end \in Nat /\ heap.next \in 0 .. WordMax /\ heap.allocations \in Nat
         /\ heap.start <= heap.next /\ heap.next <= heap.end
         /\ phase = "run" => heap.end + PageSize <= WordMax + 1
         /\ \A b \in live : /\ b.from \in Nat /\ b.to \in Nat
                            /\ heap.start <= b.from /\ b.from < b.to /\ b.to <= heap.next
         /\ WordMax \in Nat /\ PageSize \in Nat \ {0}
<1>1. heap \in HeapType /\ live \subseteq Block
  BY DEF MemoryInv, TypeOK, HeapType
<1>2. /\ heap.start \in Nat /\ heap.end \in Nat /\ heap.next \in 0 .. WordMax /\ heap.allocations \in Nat
  BY <1>1, WordAssumption DEF HeapType
<1>3. \A b \in live : b.from \in Nat /\ b.to \in Nat
  BY <1>1 DEF Block
<1> QED
  BY <1>1, <1>2, <1>3, WordAssumption DEF MemoryInv, HeapBounds, HeapSound

\* alloc puts the new block above all blocks in use: rounding up cannot wrap,
\* because the heap ends a page below the end of the word.
LEMMA AllocKeeps ==
  ASSUME MemoryInv, NEW size \in Sizes, NEW align \in Aligns, alloc(size, align)
  PROVE  MemoryInv'
<1> DEFINE from == align_up(heap.next, align)
           to   == saturating_add(from, size)
           new  == [from |-> from, to |-> to]
<1>0. /\ size \in Nat \ {0} /\ align \in Nat \ {0} /\ align <= PageSize
  BY WordAssumption
<1>1. /\ phase = "run" /\ to <= heap.end
      /\ heap' = [heap EXCEPT !.next = to, !.allocations = @ + 1]
      /\ live' = live \cup {new}
      /\ UNCHANGED <<memory_map, phase, entry, frameVars>>
  BY DEF alloc
<1>2. from \in 0 .. WordMax /\ heap.next <= from
  <2>1. heap.next + align - 1 <= WordMax
    BY <1>0, <1>1, HeapNumbers
  <2> QED
    BY <1>0, <2>1, HeapNumbers, AlignUp
<1> HIDE DEF from
<1>3. to \in 0 .. WordMax /\ from < to
  <2>1. heap.end < WordMax /\ heap.end \in Nat /\ WordMax \in Nat
    <3>1. heap.end + PageSize <= WordMax + 1 /\ heap.end \in Nat
      BY <1>1, HeapNumbers
    <3> QED
      BY <3>1, WordAssumption
  <2>2. to = IF from + size > WordMax THEN WordMax ELSE from + size
    BY DEF saturating_add
  <2>3. to # WordMax
    BY <1>1, <2>1
  <2> QED
    BY <1>0, <1>2, <2>1, <2>2, <2>3
<1> HIDE DEF to
<1>4. /\ heap' \in HeapType /\ heap'.start = heap.start /\ heap'.end = heap.end
      /\ heap'.next = to /\ heap'.allocations = heap.allocations + 1
  <2>1. heap \in HeapType
    BY HeapNumbers
  <2>2. heap.allocations + 1 \in Nat
    BY HeapNumbers
  <2> QED
    BY Zenon, <1>1, <1>3, <2>1, <2>2 DEF HeapType
<1>5. new \in Block /\ new.from = from /\ new.to = to
  BY <1>2, <1>3 DEF Block
<1> HIDE DEF new
<1>6. \A b \in live : b.to <= new.from /\ b.to <= to
  BY <1>2, <1>3, <1>5, HeapNumbers
<1>7. new \notin live
  BY <1>2, <1>3, <1>5, <1>6
<1>8. TypeOK'
  BY <1>1, <1>4, <1>5 DEF MemoryInv, TypeOK, HeapType, frameVars
<1>9. FramesInv'
  BY <1>1, FramesSame DEF MemoryInv
<1>10. IsFiniteSet(live') /\ Cardinality(live') = Cardinality(live) + 1
  BY <1>1, <1>7, FS_AddElement DEF MemoryInv, HeapBounds
<1>11. HeapBounds'
  <2>1. heap'.start <= heap'.next /\ heap'.next <= heap'.end
    BY <1>1, <1>2, <1>3, <1>4, HeapNumbers
  <2>2. \A b \in live' : b.to <= heap'.next
    BY <1>1, <1>3, <1>4, <1>5, <1>6
  <2>3. heap'.end + PageSize <= WordMax + 1
    BY <1>1, <1>4, HeapNumbers
  <2> QED
    BY <1>1, <1>10, <2>1, <2>2, <2>3 DEF HeapBounds
<1>12. HeapSound'
  <2>1. \A a, b \in live' : a # b => Apart(a.from, a.to, b.from, b.to)
    BY <1>1, <1>6 DEF MemoryInv, HeapSound, Apart
  <2>2. \A b \in live' : heap'.start <= b.from /\ b.from < b.to /\ b.to <= heap'.end
    <3>1. \A b \in live : heap.start <= b.from /\ b.from < b.to /\ b.to <= heap.end
      BY DEF MemoryInv, HeapSound
    <3>2. heap.start <= new.from /\ new.from < new.to /\ new.to <= heap.end
      BY <1>1, <1>2, <1>3, <1>5, HeapNumbers
    <3> QED
      BY <1>1, <1>4, <3>1, <3>2
  <2>3. \E g \in DOMAIN grants' : grants'[g].from = heap'.start /\ grants'[g].to = heap'.end
    BY <1>1, <1>4 DEF MemoryInv, HeapSound, frameVars
  <2> QED
    BY <2>1, <2>2, <2>3 DEF HeapSound
<1>13. HeapCounted'
  BY <1>1, <1>4, <1>10 DEF MemoryInv, HeapCounted
<1> QED
  BY <1>8, <1>9, <1>11, <1>12, <1>13 DEF MemoryInv

\* dealloc moves the pointer back only when the block was the last one.
LEMMA DeallocKeeps ==
  ASSUME MemoryInv, NEW block \in live, dealloc(block)
  PROVE  MemoryInv'
<1>1. /\ phase = "run" /\ live' = live \ {block}
      /\ UNCHANGED <<memory_map, phase, entry, frameVars>>
  BY DEF dealloc
<1>2. /\ IsFiniteSet(live) /\ heap.allocations = Cardinality(live)
      /\ IsFiniteSet(live') /\ Cardinality(live') = Cardinality(live) - 1
      /\ Cardinality(live') \in Nat /\ (Cardinality(live') = 0 => live' = {})
  <2>1. IsFiniteSet(live) /\ heap.allocations = Cardinality(live)
    BY DEF MemoryInv, HeapBounds, HeapCounted
  <2> QED
    BY <1>1, <2>1, FS_RemoveElement, FS_CardinalityType, FS_EmptySet
<1>3. heap \in HeapType /\ heap.allocations \in Nat /\ heap.allocations > 0
  BY <1>2, HeapNumbers
<1>4. heap' = Returned(heap)
  BY <1>3 DEF dealloc
<1>5. /\ heap' \in HeapType /\ heap'.start = heap.start /\ heap'.end = heap.end
      /\ heap'.allocations = heap.allocations - 1
      /\ heap'.next = IF heap.allocations = 1 THEN heap.start ELSE heap.next
  <2>1. heap.allocations - 1 \in Nat
    BY <1>3
  <2> QED
    BY Zenon, <1>3, <1>4, <2>1 DEF Returned, HeapType
<1>6. live' = {} <=> heap.allocations = 1
  BY <1>2, <1>3, FS_EmptySet
<1>7. TypeOK'
  BY <1>1, <1>5 DEF MemoryInv, TypeOK, HeapType, frameVars
<1>8. FramesInv'
  BY <1>1, FramesSame DEF MemoryInv
<1>9. HeapBounds'
  <2>1. heap'.start <= heap'.next /\ heap'.next <= heap'.end
    BY <1>5, HeapNumbers
  <2>2. \A b \in live' : b.to <= heap'.next
    BY <1>1, <1>5, <1>6, HeapNumbers
  <2>3. heap'.end + PageSize <= WordMax + 1
    BY <1>1, <1>5, HeapNumbers
  <2> QED
    BY <1>1, <1>2, <2>1, <2>2, <2>3 DEF HeapBounds
<1>10. HeapSound'
  BY <1>1, <1>5 DEF MemoryInv, HeapSound, Apart, frameVars
<1>11. HeapCounted'
  BY <1>2, <1>5, <1>6 DEF HeapCounted
<1> QED
  BY <1>7, <1>8, <1>9, <1>10, <1>11 DEF MemoryInv

\* A step that hands out frames and leaves heap and blocks alone.
LEMMA FrameStep ==
  ASSUME MemoryInv, allocate_contiguous(1), UNCHANGED <<memory_map, entry, heap, live>>,
         phase' \in {"heap", "run"}, phase' = "run" <=> phase = "run"
  PROVE  MemoryInv'
<1>1. /\ regions' \in Seq(Region) /\ Len(regions') = Len(regions)
      /\ grants' \in Seq(Grant) /\ Len(grants') = Len(grants) + 1
      /\ allocated_frames' \in Nat /\ allocatable_bytes' = allocatable_bytes
      /\ \A g \in DOMAIN grants : grants'[g] = grants[g]
      /\ FramesInv'
  BY AllocateKeeps DEF MemoryInv
<1>2. TypeOK'
  BY <1>1 DEF MemoryInv, TypeOK
<1>3. HeapBounds' /\ HeapCounted'
  BY DEF MemoryInv, HeapBounds, HeapCounted
<1>4. HeapSound'
  <2>1. DOMAIN grants \subseteq DOMAIN grants'
    BY <1>1 DEF MemoryInv, TypeOK
  <2> QED
    BY <1>1, <2>1 DEF MemoryInv, HeapSound, Apart
<1> QED
  BY <1>1, <1>2, <1>3, <1>4 DEF MemoryInv

\* heap::initialize gives the heap the range it was granted.
LEMMA InitHeapKeeps ==
  ASSUME MemoryInv, InitHeap
  PROVE  MemoryInv'
<1>0. phase = "heap" /\ live = {} /\ heap = NoHeap /\ live' = live /\ UNCHANGED <<memory_map, entry>>
  BY DEF InitHeap, MemoryInv, HeapBounds
<1>1. CASE phase' = "halted" /\ UNCHANGED <<frameVars, heap>>
  <2>1. FramesInv'
    BY <1>0, <1>1, FramesSame DEF MemoryInv
  <2>2. TypeOK'
    BY <1>0, <1>1 DEF MemoryInv, TypeOK, frameVars
  <2>3. HeapBounds' /\ HeapSound' /\ HeapCounted'
    BY <1>0, <1>1 DEF MemoryInv, HeapBounds, HeapSound, HeapCounted
  <2> QED
    BY <2>1, <2>2, <2>3 DEF MemoryInv
<1>2. CASE /\ allocate_contiguous(HeapPages) /\ phase' = "run"
           /\ heap' = HeapAt(grants'[Len(grants')].from, HeapPages * PageSize)
  <2> DEFINE g     == Len(grants')
             start == grants'[g].from
  <2>1. /\ regions' \in Seq(Region) /\ Len(regions') = Len(regions)
        /\ grants' \in Seq(Grant) /\ g = Len(grants) + 1
        /\ allocated_frames' \in Nat /\ allocatable_bytes' = allocatable_bytes
        /\ grants'[g].to = start + HeapPages * PageSize
        /\ grants'[g].to + PageSize <= WordMax + 1
        /\ FramesInv'
    BY <1>0, <1>2, AllocateKeeps, WordAssumption DEF MemoryInv
  <2>2. g \in DOMAIN grants' /\ grants'[g] \in Grant
    <3>1. Len(grants) \in Nat
      BY DEF MemoryInv, TypeOK
    <3> QED
      BY <2>1, <3>1
  <2>3. start \in 0 .. WordMax /\ grants'[g].to \in 0 .. WordMax
    BY <2>2 DEF Grant
  <2>4. HeapPages * PageSize \in Nat /\ WordMax \in Nat
    BY WordAssumption
  <2> HIDE DEF start, g
  <2>5. saturating_add(start, HeapPages * PageSize) = grants'[g].to
    BY <2>1, <2>3, <2>4 DEF saturating_add
  <2>6. heap' = [start |-> start, end |-> grants'[g].to, next |-> start, allocations |-> 0]
    BY <1>2, <2>5 DEF HeapAt, start, g
  <2>7. /\ heap' \in HeapType /\ heap'.start = start /\ heap'.end = grants'[g].to
        /\ heap'.next = start /\ heap'.allocations = 0
    BY <2>3, <2>6 DEF HeapType
  <2>8. TypeOK'
    BY <1>0, <1>2, <2>1, <2>7 DEF MemoryInv, TypeOK, HeapType
  <2>9. start <= start /\ start <= grants'[g].to
    BY <2>1, <2>3, <2>4
  <2>10. HeapBounds'
    BY <1>0, <1>2, <2>1, <2>7, <2>9, FS_EmptySet DEF HeapBounds
  <2>11. HeapSound'
    <3>1. live' = {}
      BY <1>0
    <3>2. \E k \in DOMAIN grants' : grants'[k].from = heap'.start /\ grants'[k].to = heap'.end
      BY <2>2, <2>7 DEF start
    <3> QED
      BY <3>1, <3>2 DEF HeapSound
  <2>12. HeapCounted'
    BY <1>0, <2>7, FS_EmptySet DEF HeapCounted
  <2> QED
    BY <2>1, <2>8, <2>10, <2>11, <2>12 DEF MemoryInv
<1> QED
  BY <1>1, <1>2 DEF InitHeap

\* Before the first entry nothing is allocated.
LEMMA MemoryInit ==
  Init => MemoryInv
<1> SUFFICES ASSUME Init PROVE MemoryInv
  OBVIOUS
<1>1. WordMax \in Nat /\ MaxRegions \in Nat
  BY WordAssumption
<1>2. memory_map \in Seq(Entry)
  BY MapAssumption DEF Init
<1>3. TypeOK
  BY <1>1, <1>2 DEF Init, TypeOK, NoHeap
<1>4. FramesInv
  BY DEF Init, FramesInv, RegionsSound, GrantsSound, GrantsDisjoint
<1>5. HeapBounds /\ HeapSound /\ HeapCounted
  BY FS_EmptySet DEF Init, HeapBounds, HeapSound, HeapCounted, NoHeap
<1> QED
  BY <1>3, <1>4, <1>5 DEF MemoryInv

\* Every step keeps the invariant.
LEMMA MemoryKept ==
  ASSUME MemoryInv, [Next]_vars
  PROVE  MemoryInv'
<1>1. CASE ScanEntry
  <2>1. TypeOK' /\ FramesInv'
    BY <1>1, ScanKeeps DEF MemoryInv
  <2>2. UNCHANGED <<heap, live, grants>> /\ phase = "scan" /\ phase' \in {"scan", "halted"}
    BY <1>1 DEF ScanEntry
  <2>3. HeapBounds' /\ HeapSound' /\ HeapCounted'
    BY <2>2 DEF MemoryInv, HeapBounds, HeapSound, HeapCounted, Apart
  <2> QED
    BY <2>1, <2>3 DEF MemoryInv
<1>2. CASE EndScan
  <2>1. /\ UNCHANGED <<memory_map, entry, frameVars, heap, live>>
        /\ phase = "scan" /\ phase' \in {"halted", "bootstrap_frame"}
    BY <1>2 DEF EndScan
  <2>2. FramesInv'
    BY <2>1, FramesSame DEF MemoryInv
  <2>3. TypeOK'
    BY <2>1 DEF MemoryInv, TypeOK, frameVars
  <2>4. HeapBounds' /\ HeapSound' /\ HeapCounted'
    BY <2>1 DEF MemoryInv, HeapBounds, HeapSound, HeapCounted, Apart
  <2> QED
    BY <2>2, <2>3, <2>4 DEF MemoryInv
<1>3. CASE BootstrapFrame
  <2>1. CASE allocate_contiguous(1) /\ phase' = "heap"
    BY <1>3, <2>1, FrameStep DEF BootstrapFrame
  <2>2. CASE UNCHANGED frameVars /\ phase' = "no_frame"
    <3>1. UNCHANGED <<memory_map, entry, frameVars, heap, live>> /\ phase # "run"
      BY <1>3, <2>2 DEF BootstrapFrame
    <3>2. FramesInv'
      BY <3>1, FramesSame DEF MemoryInv
    <3>3. TypeOK'
      BY <2>2, <3>1 DEF MemoryInv, TypeOK, frameVars
    <3>4. HeapBounds' /\ HeapSound' /\ HeapCounted'
      BY <2>2, <3>1 DEF MemoryInv, HeapBounds, HeapSound, HeapCounted, Apart
    <3> QED
      BY <3>2, <3>3, <3>4 DEF MemoryInv
  <2> QED
    BY <1>3, <2>1, <2>2 DEF BootstrapFrame
<1>4. CASE InitHeap
  BY <1>4, InitHeapKeeps
<1>5. CASE AllocateFrame
  BY <1>5, FrameStep DEF AllocateFrame
<1>6. ASSUME NEW size \in Sizes, NEW align \in Aligns, alloc(size, align)
      PROVE  MemoryInv'
  BY <1>6, AllocKeeps
<1>7. ASSUME NEW block \in live, dealloc(block)
      PROVE  MemoryInv'
  BY <1>7, DeallocKeeps
<1>8. CASE UNCHANGED vars
  <2>1. UNCHANGED <<memory_map, phase, entry, frameVars, heap, live>>
    BY <1>8 DEF vars
  <2>2. FramesInv'
    BY <2>1, FramesSame DEF MemoryInv
  <2>3. TypeOK'
    BY <2>1 DEF MemoryInv, TypeOK, frameVars
  <2>4. HeapBounds' /\ HeapSound' /\ HeapCounted'
    BY <2>1 DEF MemoryInv, HeapBounds, HeapSound, HeapCounted, Apart, frameVars
  <2> QED
    BY <2>2, <2>3, <2>4 DEF MemoryInv
<1> QED
  BY <1>1, <1>2, <1>3, <1>4, <1>5, <1>6, <1>7, <1>8 DEF Next

\* Frames and heap stay sound for ever.
THEOREM MemoryInvariant ==
  Spec => []MemoryInv
  BY MemoryInit, MemoryKept, PTL DEF Spec

\* No byte of memory is handed out twice.
THEOREM FramesAreDisjoint ==
  Spec => []GrantsDisjoint
<1>1. MemoryInv => GrantsDisjoint
  BY DEF MemoryInv, FramesInv
<1> QED
  BY <1>1, MemoryInvariant, PTL

\* What is handed out is usable memory above the reserved part.
THEOREM FramesAreUsable ==
  Spec => []GrantsUsable
<1>1. MemoryInv => GrantsUsable
  <2> SUFFICES ASSUME MemoryInv, NEW g \in DOMAIN grants
               PROVE  /\ grants[g].from >= ReservedEnd
                      /\ \E k \in DOMAIN memory_map :
                             /\ memory_map[k].usable
                             /\ memory_map[k].base <= grants[g].from
                             /\ grants[g].to <= EntryEnd(memory_map[k])
    BY DEF GrantsUsable
  <2> DEFINE r == regions[grants[g].region]
             e == memory_map[r.entry]
  <2>1. /\ grants[g].region \in DOMAIN regions
        /\ r.start <= grants[g].from /\ grants[g].from <= grants[g].to /\ grants[g].to <= r.next
    BY DEF MemoryInv, FramesInv, GrantsSound
  <2>2. /\ r.entry \in DOMAIN memory_map /\ e.usable /\ e.base <= r.start /\ ReservedEnd <= r.start
        /\ r.next <= r.end /\ r.end <= EntryEnd(e)
    BY <2>1 DEF MemoryInv, FramesInv, RegionsSound
  <2>3. grants[g] \in Grant /\ r \in Region /\ e \in Entry
    BY <2>1, <2>2, MapAssumption DEF MemoryInv, TypeOK
  <2>4. /\ grants[g].from \in Int /\ grants[g].to \in Int
        /\ r.start \in Int /\ r.next \in Int /\ r.end \in Int
    BY <2>3, AddressFields
  <2>5. e.base \in Int /\ EntryEnd(e) \in Int /\ ReservedEnd \in Int
    BY <2>3, WordAssumption DEF Entry, EntryEnd, saturating_add
  <2>6. r.entry \in DOMAIN memory_map /\ e.usable
    BY <2>2
  <2> HIDE DEF r, e
  <2>7. grants[g].from >= ReservedEnd /\ e.base <= grants[g].from /\ grants[g].to <= EntryEnd(e)
    BY <2>1, <2>2, <2>4, <2>5
  <2> QED
    BY <2>6, <2>7 DEF e
<1> QED
  BY <1>1, MemoryInvariant, PTL

\* Blocks of the heap do not overlap and lie in its own memory.
THEOREM HeapIsSound ==
  Spec => [](HeapSound /\ HeapCounted)
<1>1. MemoryInv => HeapSound /\ HeapCounted
  BY DEF MemoryInv
<1> QED
  BY <1>1, MemoryInvariant, PTL

-----------------------------------------------------------------------------
(* The drivers' locks and synchronize: a lock is held only by the code on  *)
(* top of the stack, whose interrupts are off, so everything below it, and *)
(* everyone who could ring the doorbell, waits outside a locked section.   *)

\* The first k of a sequence.
LEMMA SubSeqFront ==
  ASSUME NEW S, NEW q \in Seq(S), NEW k \in 0 .. Len(q)
  PROVE  /\ SubSeq(q, 1, k) \in Seq(S) /\ Len(SubSeq(q, 1, k)) = k
         /\ \A i \in 1 .. k : SubSeq(q, 1, k)[i] = q[i]
<1>1. \A i \in 1 .. k : q[i] \in S
  OBVIOUS
<1>2. SubSeq(q, 1, k) = [i \in 1 .. k |-> q[i]]
  BY DEF SubSeq
<1> QED BY <1>1, <1>2

Ops == {"sync", "route", "init", "inject"}
Places == {"cli", "spin", "body", "wait", "unlock", "sti", "return"}
Contexts == {c \in [op : Ops, at : Places, id : Nat] : c.op = "route" => c.id \in RouteSizes}

Locked(c) == c.at \in {"body", "wait", "unlock"}

DevTyped ==
  /\ contexts \in Seq(Contexts)
  /\ irq_on \in BOOLEAN
  /\ lock_held \in [Drivers -> BOOLEAN]
  /\ seq_tracker \in 0 .. MaxSyncs
  /\ doorbell \in 0 .. seq_tracker \cup RouteSizes
  /\ completion \in 0 .. seq_tracker \cup RouteSizes

\* Interrupted code holds no lock and is not about to take one with interrupts off.
LockSound ==
  /\ \A i \in 1 .. Len(contexts) - 1 : contexts[i].at \in {"cli", "return"}
  /\ \A i \in 2 .. Len(contexts) : contexts[i].op = "inject"
  /\ irq_on /\ contexts # <<>> => Top.at \in {"cli", "return"}
  /\ ~ irq_on => contexts # <<>>
  /\ \A d \in Drivers :
        lock_held[d] <=> contexts # <<>> /\ Locked(Top) /\ DriverOf(Top.op) = d

\* synchronize in its steps: an id is free when it starts, the doorbell holds
\* it while it waits, and its completion is the GSP's answer to it.
SyncSound ==
  contexts # <<>> =>
    /\ contexts[1].op = "sync" /\ contexts[1].at \in {"cli", "spin", "body"} =>
          seq_tracker < MaxSyncs
    /\ Top.at = "wait" =>
          /\ Top.op = "sync" /\ Top.id = seq_tracker
          /\ rung => doorbell = Top.id
          /\ completion = Top.id => Top.id \in served
    /\ Top.op = "sync" /\ Top.at = "unlock" => Top.id \in served

DevInv == DevTyped /\ LockSound /\ SyncSound

\* The top of the stack of contexts is one of them.
LEMMA TopType ==
  ASSUME contexts \in Seq(Contexts), contexts # <<>>
  PROVE  Len(contexts) \in Nat /\ Len(contexts) >= 1 /\ Top \in Contexts
BY DEF Top

\* No one spins and no acknowledgement is early in a state of the invariant.
LEMMA DevInvMeans == DevInv => NeverSpins /\ SyncWaits
<1> SUFFICES ASSUME DevInv PROVE NeverSpins /\ SyncWaits
  OBVIOUS
<1>1. contexts \in Seq(Contexts)
  BY DEF DevInv, DevTyped
<1>2. ASSUME Running("spin") PROVE ~ lock_held[DriverOf(Top.op)]
  <2>1. DriverOf(Top.op) \in Drivers
    BY DEF DriverOf, Drivers
  <2>2. ~ Locked(Top)
    BY <1>2 DEF Running, Locked
  <2> QED
    BY <2>1, <2>2 DEF DevInv, LockSound
<1>3. ASSUME Running("unlock"), Top.op = "sync" PROVE Top.id \in served
  BY <1>3 DEF Running, DevInv, SyncSound
<1> QED
  BY <1>2, <1>3 DEF NeverSpins, SyncWaits

\* Nothing runs at first and no lock is held.
LEMMA DevInitInv == DevInit => DevInv
<1> SUFFICES ASSUME DevInit PROVE DevInv
  OBVIOUS
<1>1. contexts = <<>> /\ contexts \in Seq(Contexts) /\ Len(contexts) = 0
  BY DEF DevInit
<1>2. DevTyped
  BY <1>1, DeviceAssumption DEF DevInit, DevTyped
<1>3. LockSound
  BY <1>1 DEF DevInit, LockSound
<1>4. SyncSound
  BY <1>1 DEF SyncSound
<1> QED
  BY <1>2, <1>3, <1>4 DEF DevInv

\* What a step that only moves the running code to another place does.
LEMMA GotoMoves ==
  ASSUME contexts \in Seq(Contexts), contexts # <<>>, NEW at \in Places, Goto(at)
  PROVE  /\ contexts' \in Seq(Contexts) /\ contexts' # <<>> /\ Len(contexts') = Len(contexts)
         /\ Top'.at = at /\ Top'.op = Top.op /\ Top'.id = Top.id
         /\ \A i \in 1 .. Len(contexts) - 1 : contexts'[i] = contexts[i]
         /\ \A i \in 1 .. Len(contexts) : contexts'[i].op = contexts[i].op
<1>1. Len(contexts) \in Nat /\ Len(contexts) >= 1 /\ Top \in Contexts
  BY TopType
<1>2. contexts' = [contexts EXCEPT ![Len(contexts)] = [Top EXCEPT !.at = at]]
  BY DEF Goto, Top
<1>3. [Top EXCEPT !.at = at] \in Contexts
  BY <1>1 DEF Contexts
<1> DEFINE c == [Top EXCEPT !.at = at]
<1>4. c.at = at /\ c.op = Top.op /\ c.id = Top.id
  BY <1>1 DEF Contexts
<1> HIDE DEF c
<1>5. /\ contexts' \in Seq(Contexts) /\ Len(contexts') = Len(contexts)
      /\ contexts'[Len(contexts)] = c
      /\ \A i \in 1 .. Len(contexts) - 1 : contexts'[i] = contexts[i]
  BY <1>1, <1>2, <1>3 DEF c
<1>6. Top' = c /\ contexts' # <<>>
  BY <1>1, <1>5 DEF Top
<1>7. \A i \in 1 .. Len(contexts) : contexts'[i].op = contexts[i].op
  <2> SUFFICES ASSUME NEW i \in 1 .. Len(contexts) PROVE contexts'[i].op = contexts[i].op
    OBVIOUS
  <2>1. CASE i = Len(contexts)
    BY <1>4, <1>5, <2>1 DEF Top
  <2>2. CASE i # Len(contexts)
    BY <1>1, <1>5, <2>2
  <2> QED
    BY <2>1, <2>2
<1> QED
  BY <1>4, <1>5, <1>6, <1>7

\* Moving the running code keeps LockSound when the flag of its lock and the
\* interrupt flag follow the place it moves to.
LEMMA GotoLock ==
  ASSUME DevInv, contexts # <<>>, NEW at \in Places, Goto(at),
         irq_on' => at \in {"cli", "return"},
         \A d \in Drivers : lock_held'[d] <=> /\ at \in {"body", "wait", "unlock"}
                                              /\ DriverOf(Top.op) = d
  PROVE  LockSound'
<1>1. contexts \in Seq(Contexts)
  BY DEF DevInv, DevTyped
<1>2. /\ contexts' # <<>> /\ Len(contexts') = Len(contexts)
      /\ Top'.at = at /\ Top'.op = Top.op
      /\ \A i \in 1 .. Len(contexts) - 1 : contexts'[i] = contexts[i]
      /\ \A i \in 1 .. Len(contexts) : contexts'[i].op = contexts[i].op
  BY Zenon, <1>1, GotoMoves
<1>3. \A i \in 1 .. Len(contexts') - 1 : contexts'[i].at \in {"cli", "return"}
  BY <1>2 DEF DevInv, LockSound
<1>4. \A i \in 2 .. Len(contexts') : contexts'[i].op = "inject"
  <2> SUFFICES ASSUME NEW i \in 2 .. Len(contexts') PROVE contexts'[i].op = "inject"
    OBVIOUS
  <2>1. Len(contexts) \in Nat /\ Len(contexts') = Len(contexts)
    BY <1>1, <1>2
  <2>2. i \in 2 .. Len(contexts) /\ i \in 1 .. Len(contexts)
    BY ONLY <2>1, i \in 2 .. Len(contexts')
  <2> QED
    BY <1>2, <2>2 DEF DevInv, LockSound
<1>5. \A d \in Drivers : lock_held'[d] <=> contexts' # <<>> /\ Locked(Top') /\ DriverOf(Top'.op) = d
  BY <1>2 DEF Locked
<1> QED
  BY <1>2, <1>3, <1>4, <1>5 DEF LockSound

\* Moving the running code, outside a wait, keeps SyncSound when it does not
\* restart a call and reaches "unlock" with its task served.
LEMMA GotoSync ==
  ASSUME DevInv, contexts # <<>>, NEW at \in Places \ {"wait"}, Goto(at),
         seq_tracker' = seq_tracker,
         at \in {"cli", "spin", "body"} => Top.at \in {"cli", "spin", "body"},
         Top.op = "sync" /\ at = "unlock" => Top.id \in served'
  PROVE  SyncSound'
<1>1. contexts \in Seq(Contexts)
  BY DEF DevInv, DevTyped
<1>2. /\ contexts' # <<>> /\ Len(contexts') = Len(contexts)
      /\ Top'.at = at /\ Top'.op = Top.op /\ Top'.id = Top.id
      /\ \A i \in 1 .. Len(contexts) - 1 : contexts'[i] = contexts[i]
  BY <1>1, GotoMoves
<1>3. Len(contexts) \in Nat /\ Len(contexts) >= 1
  BY <1>1, TopType
<1>4. contexts'[1].op = "sync" /\ contexts'[1].at \in {"cli", "spin", "body"} =>
        seq_tracker' < MaxSyncs
  <2>1. CASE Len(contexts) = 1
    BY <1>2, <2>1 DEF Top, DevInv, SyncSound
  <2>2. CASE Len(contexts) # 1
    <3>1. contexts'[1] = contexts[1]
      BY <1>2, <1>3, <2>2
    <3> QED
      BY <3>1 DEF DevInv, SyncSound
  <2> QED
    BY <2>1, <2>2
<1> QED
  BY <1>2, <1>4 DEF SyncSound

\* The steps of the running code, one place after the other.
LEMMA StepsKeepInv ==
  DevInv /\ (Mask \/ Acquire \/ ActivateTree \/ InjectNode \/ Route \/ SyncAck
             \/ Release \/ Unmask) => DevInv'
<1> USE DEF DevInv
<1>1. ASSUME DevInv, contexts # <<>>
      PROVE  \A d \in Drivers : lock_held[d] <=> Locked(Top) /\ DriverOf(Top.op) = d
  BY <1>1 DEF LockSound
<1>2. ASSUME DevInv, contexts # <<>>
      PROVE  /\ Locked(Top) \/ Top.at \in {"spin", "sti"} => ~ irq_on
             /\ DriverOf(Top.op) \in Drivers
  BY <1>2 DEF LockSound, Locked, DriverOf, Drivers
<1>3. ASSUME DevInv, NEW at \in Places, contexts # <<>>, Goto(at)
      PROVE  contexts' \in Seq(Contexts)
  BY <1>3, GotoMoves DEF DevTyped
<1>4. ASSUME DevInv, Mask PROVE DevInv'
  <2>1. contexts # <<>> /\ Top.at = "cli" /\ Goto("spin") /\ irq_on' = FALSE
        /\ UNCHANGED lock_held /\ UNCHANGED regs
    BY <1>4 DEF Mask, Running
  <2>2. DevTyped'
    BY Zenon, <1>3, <1>4, <2>1 DEF DevTyped, Places, regs
  <2>3. LockSound'
    BY <1>1, <1>4, <2>1, GotoLock DEF Places, Locked
  <2>4. SyncSound'
    BY <1>4, <2>1, GotoSync DEF Places, regs
  <2> QED
    BY <2>2, <2>3, <2>4
<1>5. ASSUME DevInv, Acquire PROVE DevInv'
  <2>1. contexts # <<>> /\ Top.at = "spin" /\ Goto("body") /\ UNCHANGED <<irq_on, regs>>
        /\ lock_held' = [lock_held EXCEPT ![DriverOf(Top.op)] = TRUE]
    BY <1>5 DEF Acquire, Running
  <2>2. DevTyped'
    BY Zenon, <1>3, <1>5, <2>1 DEF DevTyped, Places, regs
  <2>3. ~ irq_on /\ \A d \in Drivers : ~ lock_held[d]
    BY <1>1, <1>2, <1>5, <2>1 DEF Locked
  <2>4. \A d \in Drivers : lock_held'[d] <=> DriverOf(Top.op) = d
    BY <1>5, <2>1, <2>3 DEF DevTyped
  <2>5. LockSound'
    BY <1>5, <2>1, <2>3, <2>4, GotoLock DEF Places
  <2>6. SyncSound'
    BY <1>5, <2>1, GotoSync DEF Places, regs
  <2> QED
    BY <2>2, <2>5, <2>6
<1>6. ASSUME DevInv, ActivateTree \/ InjectNode PROVE DevInv'
  <2>1. contexts # <<>> /\ Top.at = "body" /\ Top.op # "sync" /\ Goto("unlock")
        /\ UNCHANGED <<irq_on, lock_held, regs>>
    BY <1>6 DEF ActivateTree, InjectNode, Running
  <2>2. DevTyped'
    BY <1>3, <1>6, <2>1 DEF DevTyped, Places, regs
  <2>3. LockSound'
    BY <1>1, <1>2, <1>6, <2>1, GotoLock DEF Places, Locked
  <2>4. SyncSound'
    BY <1>6, <2>1, GotoSync DEF Places, regs
  <2> QED
    BY <2>2, <2>3, <2>4
<1>7. ASSUME DevInv, Route PROVE DevInv'
  <2>1. contexts # <<>> /\ Top.at = "body" /\ Top.op = "route" /\ Goto("unlock")
        /\ UNCHANGED <<irq_on, lock_held, seq_tracker, completion>> /\ doorbell' \in {Top.id, doorbell}
    BY <1>7 DEF Route, Running, Ring
  <2>2. Top.id \in RouteSizes
    BY <1>7, <2>1, TopType DEF DevTyped, Contexts
  <2>3. DevTyped'
    BY <1>3, <1>7, <2>1, <2>2 DEF DevTyped, Places
  <2>4. LockSound'
    BY <1>1, <1>2, <1>7, <2>1, GotoLock DEF Places, Locked
  <2>5. SyncSound'
    BY <1>7, <2>1, GotoSync DEF Places
  <2> QED
    BY <2>3, <2>4, <2>5
<1>8. ASSUME DevInv, SyncAck PROVE DevInv'
  <2>1. contexts # <<>> /\ Top.at = "wait" /\ completion = Top.id /\ Goto("unlock")
        /\ UNCHANGED <<irq_on, lock_held, seq_tracker, doorbell, completion, served>>
    BY <1>8 DEF SyncAck, Running
  <2>2. Top.id \in served
    BY <1>8, <2>1 DEF SyncSound
  <2>3. DevTyped'
    BY <1>3, <1>8, <2>1 DEF DevTyped, Places
  <2>4. LockSound'
    BY <1>1, <1>2, <1>8, <2>1, GotoLock DEF Places, Locked
  <2>5. SyncSound'
    BY <1>8, <2>1, <2>2, GotoSync DEF Places
  <2> QED
    BY <2>3, <2>4, <2>5
<1>9. ASSUME DevInv, Release PROVE DevInv'
  <2>1. contexts # <<>> /\ Top.at = "unlock" /\ Goto("sti") /\ UNCHANGED <<irq_on, regs>>
        /\ lock_held' = [lock_held EXCEPT ![DriverOf(Top.op)] = FALSE]
    BY <1>9 DEF Release, Running
  <2>2. DevTyped'
    BY Zenon, <1>3, <1>9, <2>1 DEF DevTyped, Places, regs
  <2>3. ~ irq_on /\ \A d \in Drivers : lock_held[d] => DriverOf(Top.op) = d
    BY <1>1, <1>2, <1>9, <2>1 DEF Locked
  <2>4. \A d \in Drivers : ~ lock_held'[d]
    BY <1>9, <2>1, <2>3 DEF DevTyped
  <2>5. LockSound'
    BY <1>9, <2>1, <2>3, <2>4, GotoLock DEF Places
  <2>6. SyncSound'
    BY <1>9, <2>1, GotoSync DEF Places, regs
  <2> QED
    BY <2>2, <2>5, <2>6
<1>10. ASSUME DevInv, Unmask PROVE DevInv'
  <2>1. contexts # <<>> /\ Top.at = "sti" /\ Goto("return") /\ irq_on' = TRUE
        /\ UNCHANGED lock_held /\ UNCHANGED regs
    BY <1>10 DEF Unmask, Running
  <2>2. DevTyped'
    BY <1>3, <1>10, <2>1 DEF DevTyped, Places, regs
  <2>3. LockSound'
    BY <1>1, <1>10, <2>1, GotoLock DEF Places, Locked
  <2>4. SyncSound'
    BY <1>10, <2>1, GotoSync DEF Places, regs
  <2> QED
    BY <2>2, <2>3, <2>4
<1> QED
  BY <1>4, <1>5, <1>6, <1>7, <1>8, <1>9, <1>10

\* synchronize takes the next id: it is alone on the stack, and no completion
\* left in the register, of an earlier task or of a route, can be that id.
LEMMA SyncRingKeepsInv == DevInv /\ SyncRing => DevInv'
<1> SUFFICES ASSUME DevInv, SyncRing PROVE DevInv'
  OBVIOUS
<1> USE DEF DevInv
<1>0. contexts \in Seq(Contexts)
  BY DEF DevTyped
<1>1. /\ contexts \in Seq(Contexts) /\ contexts # <<>> /\ Top.op = "sync" /\ Top.at = "body"
      /\ UNCHANGED <<irq_on, lock_held, completion>>
      /\ seq_tracker' = seq_tracker + 1 /\ doorbell' = seq_tracker + 1
      /\ contexts' = [contexts EXCEPT ![Len(contexts)].at = "wait",
                                      ![Len(contexts)].id = seq_tracker + 1]
  BY DEF SyncRing, Running, Ring, DevTyped
<1>2. Len(contexts) \in Nat /\ Len(contexts) >= 1 /\ Top \in Contexts
  BY <1>1, TopType
<1>3. Len(contexts) = 1
  <2> SUFFICES ASSUME Len(contexts) # 1 PROVE FALSE
    OBVIOUS
  <2> DEFINE n == Len(contexts)
  <2>0. n \in Nat /\ n >= 1 /\ n # 1
    BY <1>2
  <2> HIDE DEF n
  <2>3. n \in 2 .. n
    BY <2>0
  <2>1. Len(contexts) \in 2 .. Len(contexts)
    BY <2>3 DEF n
  <2>2. Top.op = "inject"
    BY <2>1 DEF LockSound, Top
  <2> QED
    BY <1>1, <2>2
<1>4. seq_tracker \in Nat /\ seq_tracker < MaxSyncs /\ MaxSyncs \in Nat
  BY <1>1, <1>3, DeviceAssumption DEF DevTyped, SyncSound, Top
<1> DEFINE c == [Top EXCEPT !.at = "wait", !.id = seq_tracker + 1]
<1>5. contexts' = [contexts EXCEPT ![Len(contexts)] = c]
  BY Zenon, <1>1, <1>2 DEF Top
<1>6. c \in Contexts /\ c.op = "sync" /\ c.at = "wait" /\ c.id = seq_tracker + 1
  <2>1. Top \in [op : Ops, at : Places, id : Nat]
    BY <1>2 DEF Contexts
  <2>2. "wait" \in Places /\ seq_tracker + 1 \in Nat
    BY <1>4 DEF Places
  <2>3. c \in [op : Ops, at : Places, id : Nat]
    BY Zenon, <2>1, <2>2
  <2>4. c.op = "sync" /\ c.at = "wait" /\ c.id = seq_tracker + 1
    BY <1>1, <2>1
  <2> QED
    BY Zenon, <2>3, <2>4 DEF Contexts
<1> HIDE DEF c
<1>8. contexts' \in Seq(Contexts) /\ contexts' # <<>> /\ Len(contexts') = 1 /\ Top' = c
      /\ contexts'[1] = c
  <2>1. contexts' \in Seq(Contexts) /\ Len(contexts') = Len(contexts) /\ contexts'[Len(contexts)] = c
    BY <1>0, <1>2, <1>5, <1>6
  <2> QED
    BY <1>3, <2>1 DEF Top
<1>9. DevTyped'
  BY <1>1, <1>4, <1>8 DEF DevTyped
<1>10. LockSound'
  <2>1. \A d \in Drivers : lock_held[d] <=> DriverOf("sync") = d
    BY <1>1 DEF LockSound, Locked
  <2>2. ~ irq_on
    BY <1>1 DEF LockSound
  <2> QED
    BY <1>1, <1>6, <1>8, <2>1, <2>2 DEF LockSound, Locked
<1>11. completion # seq_tracker + 1
  BY <1>4, DeviceAssumption DEF DevTyped
<1>12. SyncSound'
  BY <1>1, <1>4, <1>6, <1>8, <1>11 DEF SyncSound
<1> QED
  BY <1>9, <1>10, <1>12

\* A call, an interrupt, a return and the coprocessor's step.
LEMMA StackKeepsInv ==
  DevInv /\ ((\E op \in {"sync", "init"} : CallDriver(op, 0))
             \/ (\E n \in RouteSizes : CallDriver("route", n))
             \/ HotPlug \/ Return \/ Gsp) => DevInv'
<1> USE DEF DevInv
<1>1. ASSUME DevInv PROVE contexts \in Seq(Contexts) /\ Len(contexts) \in Nat
  BY <1>1 DEF DevTyped
<1>2. ASSUME DevInv, contexts # <<>>
      PROVE  Len(contexts) \in Nat /\ Len(contexts) >= 1 /\ Top \in Contexts
  BY <1>1, <1>2, TopType
<1>3. ASSUME NEW op \in Ops, NEW x \in Nat, op = "route" => x \in RouteSizes
      PROVE  Call(op, x) \in Contexts /\ Call(op, x).op = op /\ Call(op, x).at = "cli"
  BY <1>3 DEF Call, Contexts, Places
<1>4. ASSUME DevInv, NEW op \in {"sync", "init", "route"}, NEW x \in Nat,
             op = "route" => x \in RouteSizes, CallDriver(op, x)
      PROVE  DevInv'
  <2> DEFINE c == Call(op, x)
  <2>1. c \in Contexts /\ c.op = op /\ c.at = "cli"
    BY <1>3, <1>4 DEF Ops
  <2> HIDE DEF c
  <2>2. /\ contexts = <<>> /\ contexts' = <<c>>
        /\ op = "sync" => seq_tracker < MaxSyncs
        /\ UNCHANGED <<irq_on, lock_held>> /\ UNCHANGED regs
    BY <1>4 DEF CallDriver, c
  <2>3. contexts' \in Seq(Contexts) /\ contexts' # <<>> /\ Len(contexts') = 1
        /\ contexts'[1] = c /\ Top' = c
    BY <2>1, <2>2 DEF Top
  <2>4. DevTyped'
    BY <1>4, <2>2, <2>3 DEF DevTyped, regs
  <2>5. irq_on /\ \A d \in Drivers : ~ lock_held[d]
    BY <1>4, <2>2 DEF LockSound
  <2>6. LockSound'
    BY <2>1, <2>2, <2>3, <2>5 DEF LockSound, Locked
  <2>7. SyncSound'
    BY <2>1, <2>2, <2>3 DEF SyncSound, regs
  <2> QED
    BY <2>4, <2>6, <2>7
<1>5. ASSUME DevInv, HotPlug PROVE DevInv'
  <2> DEFINE c == Call("inject", 0)
              n == Len(contexts)
  <2>1. c \in Contexts /\ c.op = "inject" /\ c.at = "cli"
    BY <1>3 DEF Ops
  <2> HIDE DEF c
  <2>2. irq_on /\ contexts' = Append(contexts, c) /\ irq_on' = FALSE
        /\ UNCHANGED lock_held /\ UNCHANGED regs
    BY <1>5 DEF HotPlug, c
  <2>3. /\ contexts' \in Seq(Contexts) /\ Len(contexts') = n + 1 /\ contexts'[n + 1] = c
        /\ \A i \in 1 .. n : contexts'[i] = contexts[i]
    BY <1>1, <1>5, <2>1, <2>2
  <2>4. contexts' # <<>> /\ Top' = c
    BY <1>1, <1>5, <2>3 DEF Top
  <2>5. DevTyped'
    BY Zenon, <1>5, <2>2, <2>3 DEF DevTyped, regs
  <2>6. \A d \in Drivers : ~ lock_held[d]
    BY <1>5, <2>2 DEF LockSound, Locked
  <2>7. \A i \in 1 .. n : contexts[i].at \in {"cli", "return"}
    <3> SUFFICES ASSUME NEW i \in 1 .. n PROVE contexts[i].at \in {"cli", "return"}
      OBVIOUS
    <3>1. CASE i = n
      <4>1. contexts # <<>> /\ contexts[i] = Top
        BY <1>1, <1>5, <3>1 DEF Top
      <4> QED
        BY <1>5, <2>2, <4>1 DEF LockSound
    <3>2. CASE i # n
      <4>1. i \in 1 .. Len(contexts) - 1
        BY <1>1, <1>5, <3>2
      <4> QED
        BY <1>5, <4>1 DEF LockSound
    <3> QED
      BY <3>1, <3>2
  <2>8. \A i \in 2 .. n + 1 : contexts'[i].op = "inject"
    <3> SUFFICES ASSUME NEW i \in 2 .. n + 1 PROVE contexts'[i].op = "inject"
      OBVIOUS
    <3>1. CASE i = n + 1
      BY <2>1, <2>3, <3>1
    <3>2. CASE i # n + 1
      <4>1. i \in 1 .. n /\ i \in 2 .. Len(contexts)
        BY <1>1, <1>5, <3>2
      <4> QED
        BY <1>5, <2>3, <4>1 DEF LockSound
    <3> QED
      BY <3>1, <3>2
  <2>9. LockSound'
    <3>1. \A i \in 1 .. Len(contexts') - 1 : contexts'[i].at \in {"cli", "return"}
      BY <1>1, <1>5, <2>3, <2>7
    <3> QED
      BY <2>1, <2>2, <2>3, <2>4, <2>6, <2>8, <3>1 DEF LockSound, Locked
  <2>10. contexts'[1].op = "sync" /\ contexts'[1].at \in {"cli", "spin", "body"} =>
           seq_tracker' < MaxSyncs
    <3>1. CASE n = 0
      BY <2>1, <2>3, <3>1
    <3>2. CASE n # 0
      <4>1. contexts # <<>> /\ contexts'[1] = contexts[1]
        BY <1>1, <1>5, <2>3, <3>2
      <4> QED
        BY <1>5, <2>2, <4>1 DEF SyncSound, regs
    <3> QED
      BY <3>1, <3>2
  <2>11. SyncSound'
    BY <2>1, <2>4, <2>10 DEF SyncSound
  <2> QED
    BY <2>5, <2>9, <2>11
<1>6. ASSUME DevInv, Return PROVE DevInv'
  <2> DEFINE n == Len(contexts)
  <2>1. contexts # <<>> /\ Top.at = "return" /\ contexts' = SubSeq(contexts, 1, n - 1)
        /\ irq_on' = TRUE /\ UNCHANGED lock_held /\ UNCHANGED regs
    BY <1>6 DEF Return, Running
  <2>2. n \in Nat /\ n >= 1 /\ contexts \in Seq(Contexts)
    BY <1>1, <1>2, <1>6, <2>1
  <2>3. /\ contexts' \in Seq(Contexts) /\ Len(contexts') = n - 1
        /\ \A i \in 1 .. n - 1 : contexts'[i] = contexts[i]
    <3> HIDE DEF n
    <3>1. n - 1 \in 0 .. Len(contexts)
      BY <2>2 DEF n
    <3> QED
      BY <2>1, <2>2, <3>1, SubSeqFront
  <2>4. DevTyped'
    BY <1>6, <2>1, <2>3 DEF DevTyped, regs
  <2>5. \A d \in Drivers : ~ lock_held[d]
    BY Zenon, <1>6, <2>1 DEF LockSound, Locked
  <2>6. \A i \in 1 .. n - 1 : contexts'[i].at \in {"cli", "return"}
    BY <1>6, <2>3 DEF LockSound
  <2>7. contexts' # <<>> => n - 1 \in 1 .. n - 1 /\ Top' = contexts'[n - 1]
    BY <2>2, <2>3 DEF Top
  <2>8. contexts' # <<>> => Top'.at \in {"cli", "return"}
    BY <2>6, <2>7
  <2>9. \A i \in 2 .. n - 1 : contexts'[i].op = "inject"
    <3> SUFFICES ASSUME NEW i \in 2 .. n - 1 PROVE contexts'[i].op = "inject"
      OBVIOUS
    <3>1. i \in 1 .. n - 1 /\ i \in 2 .. Len(contexts)
      BY <2>2
    <3> QED
      BY <1>6, <2>3, <3>1 DEF LockSound
  <2>10. \A i \in 1 .. n - 2 : contexts'[i].at \in {"cli", "return"}
    BY <2>2, <2>6
  <2>11. LockSound'
    <3>1. \A i \in 1 .. Len(contexts') - 1 : contexts'[i].at \in {"cli", "return"}
      BY <2>2, <2>3, <2>10
    <3> QED
      BY Zenon, <2>1, <2>3, <2>5, <2>8, <2>9, <3>1 DEF LockSound, Locked
  <2>12. contexts' # <<>> => contexts'[1] = contexts[1]
    BY <2>2, <2>3, <2>7
  <2>13. SyncSound'
    BY <1>6, <2>1, <2>8, <2>12 DEF SyncSound, regs
  <2> QED
    BY <2>4, <2>11, <2>13
<1>7. ASSUME DevInv, Gsp PROVE DevInv'
  <2>1. rung /\ completion' = doorbell /\ served' = served \cup {doorbell}
        /\ UNCHANGED <<contexts, irq_on, lock_held, seq_tracker, doorbell>> /\ rung' = FALSE
    BY <1>7 DEF Gsp
  <2>2. Top' = Top
    BY <2>1 DEF Top
  <2>3. DevTyped'
    BY <1>7, <2>1 DEF DevTyped
  <2>4. LockSound'
    BY <1>7, <2>1, <2>2 DEF LockSound
  <2>5. SyncSound'
    BY <1>7, <2>1, <2>2 DEF SyncSound
  <2> QED
    BY <2>3, <2>4, <2>5
<1>8. RouteSizes \subseteq Nat /\ 0 \in Nat
  BY DeviceAssumption
<1> QED
  BY <1>4, <1>5, <1>6, <1>7, <1>8

\* The drivers' locks and the doorbell, for every nesting of interrupts: no
\* context ever waits for a lock (the spin loops of lock_tree and lock never
\* turn), and synchronize acknowledges only a task the GSP has worked on since
\* it rang, never an earlier completion it finds in the register.
THEOREM DriversSound == DevSpec => [](NeverSpins /\ SyncWaits)
<1>1. DevInv /\ [DevNext]_devVars => DevInv'
  <2> SUFFICES ASSUME DevInv, [DevNext]_devVars PROVE DevInv'
    OBVIOUS
  <2>1. CASE UNCHANGED devVars
    BY Zenon, <2>1 DEF devVars, DevInv, DevTyped, LockSound, SyncSound, Top
  <2> QED
    BY <2>1, StepsKeepInv, SyncRingKeepsInv, StackKeepsInv DEF DevNext
<1> QED
  BY <1>1, DevInitInv, DevInvMeans, PTL DEF DevSpec

\* When synchronize acknowledges a task, the coprocessor has worked on it.
THEOREM SyncIsHonest == DevSpec => []SyncWaits
  BY DriversSound, PTL
=============================================================================
