--------------------------- MODULE PageStoreProofs ---------------------------
(***************************************************************************)
(* Proofs about module PageStore, for any capacity, ids, pages and codec   *)
(* that decodes what it encodes.                                           *)
(***************************************************************************)
EXTENDS PageStore, FiniteSetTheorems, TLAPS

\* The inductive invariant: slots, class gauges and layers together.
StoreInv == TypeOK /\ SlotsSound /\ ClassCountsAgree /\ PagerSound

\* Addition modulo the capacity, for a turn that is in range (next_evict).
LEMMA TurnWraps ==
  ASSUME next_evict \in Slots
  PROVE  NextTurn = IF next_evict + 1 = Capacity THEN 0 ELSE next_evict + 1
  BY CapacityAssumption DEF NextTurn, Slots

\* The slot store_page chooses: the one that holds the id, else the first
\* behind those in use, else the one whose turn it is.
LEMMA TargetCases ==
  ASSUME TypeOK, SlotsSound, NEW id
  PROVE  LET t == Target(id)
         IN  /\ t \in Slots
             /\ \/ /\ t \in Occupied /\ slots[t].page_id = id
                   /\ ~Evicts(id)
                \/ /\ find_slot(id) = {}
                   /\ stored_pages < Capacity /\ t = stored_pages
                   /\ t \notin Occupied /\ ~Evicts(id)
                \/ /\ find_slot(id) = {}
                   /\ stored_pages = Capacity /\ t = next_evict
                   /\ t \in Occupied /\ Evicts(id)
<1> DEFINE t == Target(id)
<1>0. stored_pages \in 0 .. Capacity /\ Capacity \in Nat /\ next_evict \in Slots
  BY CapacityAssumption DEF TypeOK
<1>1. CASE find_slot(id) # {}
  <2>1. PICK i \in Occupied : slots[i].page_id = id
    BY <1>1 DEF find_slot
  <2>2. find_slot(id) = {i}
    BY <2>1 DEF find_slot, SlotsSound
  <2>3. i \in Slots /\ i =< i
    BY <2>1 DEF Occupied, Slots
  <2>4. Min(find_slot(id)) = i
    BY <2>2, <2>3 DEF Min
  <2> QED
    BY <1>1, <2>1, <2>3, <2>4 DEF Target, Evicts
<1>2. CASE find_slot(id) = {} /\ stored_pages < Capacity
  <2>1. find_empty_slot = stored_pages .. Capacity - 1
    BY <1>0 DEF find_empty_slot, SlotsSound, Slots
  <2>2. /\ stored_pages \in find_empty_slot
        /\ \A y \in find_empty_slot : stored_pages =< y /\ y \in Int
        /\ stored_pages \in Int
    BY <1>0, <1>2, <2>1
  <2>3. \A x \in find_empty_slot :
          (\A y \in find_empty_slot : x =< y) <=> x = stored_pages
    BY <2>2
  <2>4. Min(find_empty_slot) = stored_pages
    BY Zenon, <2>2, <2>3 DEF Min
  <2> QED
    BY <1>0, <1>2, <2>2, <2>4 DEF Target, Evicts, find_empty_slot
<1>3. CASE find_slot(id) = {} /\ stored_pages = Capacity
  <2>1. find_empty_slot = {} /\ Occupied = Slots
    BY <1>0, <1>3 DEF find_empty_slot, SlotsSound, Slots
  <2> QED
    BY <1>0, <1>3, <2>1 DEF Target, Evicts
<1> QED
  BY <1>0, <1>1, <1>2, <1>3

\* load_page delivers what the one slot with the id decodes to.
LEMMA LoadsFrom ==
  ASSUME NEW table, NEW id, NEW i \in Slots,
         table[i].occupied, table[i].page_id = id,
         \A j \in Slots : table[j].occupied /\ table[j].page_id = id => j = i
  PROVE  load_page(table, id) = Decode(table[i].encoded)
<1> DEFINE found == {j \in Slots : table[j].occupied /\ table[j].page_id = id}
<1>1. found = {i} /\ i =< i
  BY DEF Slots
<1>2. Min(found) = i
  BY <1>1 DEF Min
<1> QED
  BY <1>1, <1>2 DEF load_page

\* What a new entry is, given the type of its page (StoreSlot).
LEMMA EntryFields ==
  ASSUME NEW id \in Ids, NEW page \in Pages
  PROVE  LET e == Entry(id, Encode(page))
         IN  /\ e \in Entries
             /\ e.occupied /\ e.page_id = id
             /\ e.class = Class(Encode(page)) /\ e.class \in Classes
             /\ Decode(e.encoded) = page /\ e.encoded = Encode(page)
<1> DEFINE e == Entry(id, Encode(page))
<1>1. e \in Entries
  BY DEF Entries
<1>2. /\ e.occupied = TRUE /\ e.page_id = id
      /\ e.class = Class(Encode(page)) /\ e.encoded = Encode(page)
  BY DEF Entry
<1> HIDE DEF e
<1>3. e.class \in Classes /\ Decode(e.encoded) = page
  BY <1>2, CodecAssumption
<1> QED
  BY <1>1, <1>2, <1>3 DEF e

\* Every slot is free or holds an entry made by store_page.
LEMMA SlotFields ==
  ASSUME TypeOK, NEW i \in Slots
  PROVE  /\ slots[i].occupied \in BOOLEAN
         /\ slots[i].occupied => /\ slots[i].page_id \in Ids
                                 /\ slots[i].class \in Classes
                                 /\ Decode(slots[i].encoded) \in Pages
                                 /\ Size(slots[i].encoded) \in Nat
<1>1. slots[i] = Vacant \/ \E id \in Ids, page \in Pages : slots[i] = Entry(id, Encode(page))
  BY DEF TypeOK, Entries
<1>2. CASE slots[i] = Vacant
  BY <1>2 DEF Vacant
<1>3. ASSUME NEW id \in Ids, NEW page \in Pages, slots[i] = Entry(id, Encode(page))
      PROVE  /\ slots[i].occupied = TRUE
             /\ slots[i].page_id \in Ids
             /\ slots[i].class \in Classes
             /\ Decode(slots[i].encoded) \in Pages
             /\ Size(slots[i].encoded) \in Nat
  BY <1>3, CodecAssumption DEF Entry
<1> QED
  BY Zenon, <1>1, <1>2, <1>3

\* Storing keeps the slots sound: a second slot for an id is never made.
LEMMA StoreSlots ==
  ASSUME TypeOK, SlotsSound, NEW id \in Ids, NEW page \in Pages, store_page(id, page)
  PROVE  /\ slots' \in [Slots -> {Vacant} \cup Entries]
         /\ next_evict' \in Slots
         /\ stored_pages' \in 0 .. Capacity
         /\ Occupied' = Occupied \cup {Target(id)}
         /\ SlotsSound'
<1> DEFINE t == Target(id)
           e == Entry(id, Encode(page))
<1>0. /\ stored_pages \in 0 .. Capacity /\ Capacity \in Nat \ {0} /\ next_evict \in Slots
      /\ slots \in [Slots -> {Vacant} \cup Entries]
  BY CapacityAssumption DEF TypeOK
<1>1. /\ e \in Entries /\ e.occupied /\ e.page_id = id
  BY EntryFields
<1>2. /\ slots' = [slots EXCEPT ![t] = e]
      /\ next_evict' = IF Evicts(id) THEN NextTurn ELSE next_evict
      /\ stored_pages' = IF slots[t].occupied THEN stored_pages ELSE stored_pages + 1
  BY DEF store_page
<1> HIDE DEF t, e
<1>3. /\ t \in Slots
      /\ \/ t \in Occupied /\ slots[t].page_id = id /\ ~Evicts(id)
         \/ find_slot(id) = {} /\ stored_pages < Capacity /\ t = stored_pages /\ t \notin Occupied /\ ~Evicts(id)
         \/ find_slot(id) = {} /\ stored_pages = Capacity /\ t = next_evict /\ t \in Occupied /\ Evicts(id)
  BY TargetCases DEF t
<1>4. slots' \in [Slots -> {Vacant} \cup Entries]
  BY <1>0, <1>1, <1>2, <1>3
<1>5. Occupied' = Occupied \cup {t}
  BY <1>0, <1>1, <1>2, <1>3 DEF Occupied
<1>6. NextTurn \in Slots
  BY <1>0, TurnWraps DEF Slots
<1>7. next_evict' \in Slots
  BY <1>0, <1>2, <1>6
<1>8. /\ stored_pages' \in 0 .. Capacity
      /\ Occupied' = 0 .. stored_pages' - 1
      /\ stored_pages' < Capacity => next_evict' = 0
  <2>1. slots[t].occupied <=> t \in Occupied
    BY <1>3 DEF Occupied
  <2>2. CASE t \in Occupied
    <3>1. stored_pages' = stored_pages /\ Occupied' = Occupied
      BY <1>2, <1>5, <2>1, <2>2
    <3>2. stored_pages < Capacity => next_evict' = next_evict
      BY <1>0, <1>2, <1>3, <2>2
    <3> QED
      BY <1>0, <3>1, <3>2 DEF SlotsSound
  <2>3. CASE t \notin Occupied
    <3>1. stored_pages' = stored_pages + 1 /\ stored_pages < Capacity /\ t = stored_pages
          /\ next_evict' = next_evict
      BY <1>2, <1>3, <2>1, <2>3
    <3> QED
      BY <1>0, <1>5, <3>1 DEF SlotsSound
  <2> QED
    BY <2>2, <2>3
<1>9. \A i, j \in Occupied' : slots'[i].page_id = slots'[j].page_id => i = j
  <2>1. \A i \in Occupied : i # t => slots[i].page_id # id
    BY <1>3 DEF find_slot, SlotsSound
  <2>2. \A i \in Occupied' : slots'[i].page_id = IF i = t THEN id ELSE slots[i].page_id
    BY <1>0, <1>1, <1>2, <1>3, <1>5 DEF Occupied
  <2> QED
    BY <1>5, <2>1, <2>2 DEF SlotsSound
<1> QED
  BY <1>4, <1>5, <1>7, <1>8, <1>9 DEF SlotsSound, t

\* The gauges after one entry took the place of another, or of none
\* (account_removed, account_added).
LEMMA CountsAt ==
  ASSUME NEW counts \in [Classes -> Nat], NEW old, NEW class \in Classes,
         old.occupied \in BOOLEAN, old.occupied => old.class \in Classes
  PROVE  /\ Counts(counts, old, class) \in [Classes -> Nat]
         /\ \A c \in Classes : Counts(counts, old, class)[c] =
               (IF old.occupied /\ old.class = c THEN saturating_sub(counts[c], 1) ELSE counts[c])
               + (IF c = class THEN 1 ELSE 0)
<1> DEFINE removed == IF old.occupied
                      THEN [counts EXCEPT ![old.class] = saturating_sub(@, 1)]
                      ELSE counts
<1>1. \A n \in Nat : saturating_sub(n, 1) \in Nat
  BY DEF saturating_sub
<1>2. removed \in [Classes -> Nat]
  BY <1>1
<1>3. \A c \in Classes : removed[c] = IF old.occupied /\ old.class = c
                                      THEN saturating_sub(counts[c], 1) ELSE counts[c]
  OBVIOUS
<1>4. Counts(counts, old, class) = [removed EXCEPT ![class] = @ + 1]
  BY DEF Counts
<1> HIDE DEF removed
<1>5. \A c \in Classes : [removed EXCEPT ![class] = @ + 1][c] = removed[c] + (IF c = class THEN 1 ELSE 0)
  BY <1>2
<1> QED
  BY <1>2, <1>3, <1>4, <1>5

\* Storing keeps the gauge of every class exact: the entry that is overwritten
\* leaves its class, and the subtraction never saturates.
LEMMA StoreCounts ==
  ASSUME TypeOK, SlotsSound, ClassCountsAgree,
         NEW id \in Ids, NEW page \in Pages, store_page(id, page)
  PROVE  stored_class' \in [Classes -> Nat] /\ ClassCountsAgree'
<1> DEFINE t     == Target(id)
           e     == Entry(id, Encode(page))
           In(c) == {i \in Occupied : slots[i].class = c}
           base(c) == In(c) \ {t}
<1>1. /\ slots' = [slots EXCEPT ![t] = e]
      /\ stored_class' = Counts(stored_class, slots[t], e.class)
  BY EntryFields DEF store_page
<1>2. e.class \in Classes
  BY EntryFields
<1>3. t \in Slots /\ Occupied' = Occupied \cup {t}
  BY TargetCases, StoreSlots
<1>4. stored_class \in [Classes -> Nat] /\ slots \in [Slots -> {Vacant} \cup Entries]
  BY DEF TypeOK
<1>5. slots[t].occupied \in BOOLEAN /\ (slots[t].occupied => slots[t].class \in Classes)
  BY <1>3, SlotFields
<1> HIDE DEF t, e
<1>6. ASSUME NEW c \in Classes
      PROVE  /\ IsFiniteSet(In(c)) /\ stored_class[c] = Cardinality(In(c))
             /\ t \in In(c) <=> slots[t].occupied /\ slots[t].class = c
             /\ (In(c))' = base(c) \cup (IF c = e.class THEN {t} ELSE {})
  <2>1. IsFiniteSet(Slots)
    BY FS_Interval, CapacityAssumption DEF Slots
  <2>2. IsFiniteSet(In(c))
    BY <2>1, FS_Subset DEF Occupied
  <2>3. stored_class[c] = Cardinality(In(c))
    BY DEF ClassCountsAgree
  <2>4. t \in In(c) <=> slots[t].occupied /\ slots[t].class = c
    BY <1>3 DEF Occupied
  <2>5. \A i \in Occupied' : slots'[i].class = IF i = t THEN e.class ELSE slots[i].class
    BY <1>1, <1>3, <1>4 DEF Occupied
  <2>6. (In(c))' = base(c) \cup (IF c = e.class THEN {t} ELSE {})
    BY <1>3, <2>5
  <2> QED
    BY <2>2, <2>3, <2>4, <2>6
<1>7. ASSUME NEW c \in Classes
      PROVE  stored_class'[c] \in Nat /\ stored_class'[c] = Cardinality((In(c))')
  <2>1. /\ IsFiniteSet(base(c)) /\ Cardinality(base(c)) \in Nat
        /\ Cardinality(base(c)) = IF t \in In(c) THEN stored_class[c] - 1 ELSE stored_class[c]
    <3>1. stored_class[c] \in Nat
      BY <1>4
    <3>2. IsFiniteSet(In(c)) /\ stored_class[c] = Cardinality(In(c))
      BY <1>6
    <3> HIDE DEF In
    <3> QED
      BY <3>1, <3>2, FS_RemoveElement, FS_CardinalityType
  <2>2. Cardinality((In(c))') = IF c = e.class THEN Cardinality(base(c)) + 1 ELSE Cardinality(base(c))
    <3>1. (In(c))' = base(c) \cup (IF c = e.class THEN {t} ELSE {}) /\ t \notin base(c)
      BY Zenon, <1>6
    <3> HIDE DEF In, base
    <3> QED
      BY Zenon, <2>1, <3>1, FS_AddElement
  <2>3. stored_class'[c] = (IF slots[t].occupied /\ slots[t].class = c
                            THEN saturating_sub(stored_class[c], 1) ELSE stored_class[c])
                           + (IF c = e.class THEN 1 ELSE 0)
    BY <1>1, <1>2, <1>4, <1>5, CountsAt
  <2>4. t \in In(c) <=> slots[t].occupied /\ slots[t].class = c
    BY Zenon, <1>6
  <2>5. stored_class[c] \in Nat
    BY <1>4
  <2> HIDE DEF In, base
  <2>6. t \in In(c) => saturating_sub(stored_class[c], 1) = stored_class[c] - 1
    BY <2>1, <2>5 DEF saturating_sub
  <2>7. stored_class'[c] = Cardinality(base(c)) + (IF c = e.class THEN 1 ELSE 0)
    BY <2>1, <2>3, <2>4, <2>6
  <2> QED
    BY <2>1, <2>2, <2>7
<1>8. stored_class' \in [Classes -> Nat]
  BY <1>1, <1>2, <1>4, <1>5, CountsAt
<1> QED
  BY <1>7, <1>8 DEF ClassCountsAgree

\* A page just stored is the one load_page delivers.
LEMMA StoredIsLoaded ==
  ASSUME TypeOK, SlotsSound, NEW id \in Ids, NEW page \in Pages, store_page(id, page)
  PROVE  load_page(slots', id) = page
<1> DEFINE t == Target(id)
           e == Entry(id, Encode(page))
<1>1. t \in Slots /\ SlotsSound' /\ Occupied' = Occupied \cup {t}
  BY TargetCases, StoreSlots
<1>2. slots' = [slots EXCEPT ![t] = e] /\ slots \in [Slots -> {Vacant} \cup Entries]
  BY DEF store_page, TypeOK
<1>3. e.occupied /\ e.page_id = id /\ Decode(e.encoded) = page
  BY EntryFields
<1> HIDE DEF t, e
<1>4. slots'[t] = e
  BY <1>1, <1>2
<1>5. \A j \in Slots : slots'[j].occupied /\ slots'[j].page_id = id => j = t
  <2>1. \A j \in Slots : slots'[j].occupied => j \in Occupied'
    BY DEF Occupied
  <2> QED
    BY <1>1, <1>3, <1>4, <2>1 DEF SlotsSound
<1> QED
  BY <1>1, <1>3, <1>4, <1>5, LoadsFrom

\* What load_page delivers is a page or a miss.
LEMMA LoadType ==
  ASSUME TypeOK, SlotsSound, NEW id \in Ids
  PROVE  \/ load_page(slots, id) = Miss /\ \A i \in Occupied : slots[i].page_id # id
         \/ \E i \in Occupied : /\ slots[i].page_id = id
                               /\ load_page(slots, id) = Decode(slots[i].encoded)
                               /\ load_page(slots, id) \in Pages
<1>1. CASE \A i \in Occupied : slots[i].page_id # id
  <2>1. {i \in Slots : slots[i].occupied /\ slots[i].page_id = id} = {}
    BY <1>1 DEF Occupied
  <2> QED
    BY <1>1, <2>1 DEF load_page
<1>2. ASSUME NEW i \in Occupied, slots[i].page_id = id
      PROVE  load_page(slots, id) = Decode(slots[i].encoded) /\ load_page(slots, id) \in Pages
  <2>1. i \in Slots /\ slots[i].occupied
    BY DEF Occupied
  <2>2. \A j \in Slots : slots[j].occupied /\ slots[j].page_id = id => j = i
    BY <1>2 DEF SlotsSound, Occupied
  <2>3. load_page(slots, id) = Decode(slots[i].encoded)
    BY <1>2, <2>1, <2>2, LoadsFrom
  <2> QED
    BY <2>1, <2>3, SlotFields
<1> QED
  BY <1>1, <1>2

\* The byte gauge stays a natural number.
LEMMA StoreBytes ==
  ASSUME TypeOK, SlotsSound, NEW id \in Ids, NEW page \in Pages, store_page(id, page)
  PROVE  current_encoded_bytes' \in Nat
<1> DEFINE t == Target(id)
<1>1. t \in Slots
  BY TargetCases
<1>2. /\ slots[t].occupied \in BOOLEAN
      /\ slots[t].occupied => Size(slots[t].encoded) \in Nat
      /\ Size(Encode(page)) \in Nat
      /\ current_encoded_bytes \in Nat
  BY <1>1, SlotFields, CodecAssumption DEF TypeOK
<1>3. current_encoded_bytes' = Bytes(current_encoded_bytes, slots[t], Encode(page))
  BY DEF store_page
<1> HIDE DEF t
<1> QED
  BY <1>2, <1>3 DEF Bytes, saturating_sub

\* The pages of the smoke test are taken in turn.
LEMMA SmokeTurn ==
  ASSUME smoke \in 0 .. Len(SmokePages) - 1
  PROVE  /\ SmokePages[smoke + 1][1] \in Ids
         /\ SmokePages[smoke + 1][2] \in Pages
         /\ (smoke + 1) % Len(SmokePages) \in 0 .. Len(SmokePages) - 1
         /\ 0 \in 0 .. Len(SmokePages) - 1
<1>1. Len(SmokePages) \in Nat /\ Len(SmokePages) > 0
  BY SmokeAssumption
<1>2. SmokePages[smoke + 1] \in Ids \X Pages
  BY <1>1, SmokeAssumption
<1> QED
  BY <1>1, <1>2

\* store_page keeps the inductive invariant.
LEMMA StoreStep ==
  ASSUME StoreInv, NEW id \in Ids, NEW page \in Pages, store_page(id, page)
  PROVE  /\ slots' \in [Slots -> {Vacant} \cup Entries]
         /\ next_evict' \in Slots
         /\ stored_pages' \in 0 .. Capacity
         /\ stored_class' \in [Classes -> Nat]
         /\ current_encoded_bytes' \in Nat
         /\ SlotsSound' /\ ClassCountsAgree'
  BY StoreSlots, StoreCounts, StoreBytes DEF StoreInv

\* The invariant is inductive: every step of the pager and of the
\* initialisation of its layers keeps it.
LEMMA StoreInvKept ==
  ASSUME StoreInv, [Next]_vars
  PROVE  StoreInv'
<1>0. TypeOK /\ SlotsSound /\ ClassCountsAgree /\ PagerSound
  BY DEF StoreInv
<1>1. UNCHANGED storeVars => SlotsSound' /\ ClassCountsAgree'
  BY <1>0 DEF SlotsSound, ClassCountsAgree, Occupied, storeVars
<1>2. CASE Initialize
  BY Zenon, <1>0, <1>1, <1>2 DEF StoreInv, TypeOK, PagerSound, Initialize, initialize, storeVars
<1>3. ASSUME NEW id \in Ids, NEW page \in Pages, reclaim_page(id, page)
      PROVE  StoreInv'
  <2>1. store_page(id, page) /\ UNCHANGED <<ready, verify_failures, smoke, answer>>
    BY <1>3 DEF reclaim_page
  <2> QED
    BY <1>0, <2>1, StoreStep DEF StoreInv, TypeOK, PagerSound
<1>4. ASSUME NEW id \in Ids, restore_page(id)
      PROVE  StoreInv'
  <2>1. load_page(slots, id) \in Pages \cup {Miss}
    BY <1>0, LoadType
  <2> QED
    BY <1>0, <1>1, <1>4, <2>1 DEF StoreInv, TypeOK, PagerSound, restore_page, storeVars
<1>5. CASE verify_roundtrip
  <2> DEFINE id   == SmokePages[smoke + 1][1]
             page == SmokePages[smoke + 1][2]
  <2>1. id \in Ids /\ page \in Pages /\ (smoke + 1) % Len(SmokePages) \in 0 .. Len(SmokePages) - 1
    BY <1>0, SmokeTurn DEF TypeOK
  <2>2. store_page(id, page) /\ answer' = load_page(slots', id) /\ ready' = ready
    BY <1>5 DEF verify_roundtrip
  <2>3. answer' = page
    BY <1>0, <2>1, <2>2, StoredIsLoaded
  <2>4. smoke' = (smoke + 1) % Len(SmokePages) /\ verify_failures' = verify_failures
    BY <1>5, <2>3 DEF verify_roundtrip
  <2> HIDE DEF id, page
  <2> QED
    BY <1>0, <2>1, <2>2, <2>3, <2>4, StoreStep DEF StoreInv, TypeOK, PagerSound
<1>6. CASE UNCHANGED vars
  BY <1>0, <1>1, <1>6 DEF StoreInv, TypeOK, PagerSound, vars, storeVars
<1> QED
  BY <1>2, <1>3, <1>4, <1>5, <1>6 DEF Next

\* At the start nothing is stored and no layer is up.
LEMMA StoreInvInit ==
  Init => StoreInv
<1> SUFFICES ASSUME Init PROVE StoreInv
  OBVIOUS
<1>1. Occupied = {}
  BY DEF Init, Occupied, Vacant
<1>2. Capacity \in Nat \ {0} /\ Len(SmokePages) \in Nat /\ Len(SmokePages) > 0
  BY CapacityAssumption, SmokeAssumption
<1>3. TypeOK
  BY <1>2 DEF Init, TypeOK, Slots
<1>4. SlotsSound
  BY <1>1 DEF Init, SlotsSound
<1>5. ClassCountsAgree
  BY <1>1, FS_EmptySet DEF Init, ClassCountsAgree
<1> QED
  BY <1>3, <1>4, <1>5 DEF Init, StoreInv, PagerSound

\* The slots, the class gauges and the pager stay sound for ever.
THEOREM StoreInvariant ==
  Spec => []StoreInv
  BY StoreInvInit, StoreInvKept, PTL DEF Spec

\* An id never has two slots, and the slots in use are the first ones.
THEOREM SlotsAreSound ==
  Spec => []SlotsSound
<1>1. StoreInv => SlotsSound
  BY DEF StoreInv
<1> QED
  BY <1>1, StoreInvariant, PTL

\* The gauge of each class is the number of slots of that class.
THEOREM ClassCountsAreExact ==
  Spec => []ClassCountsAgree
<1>1. StoreInv => ClassCountsAgree
  BY DEF StoreInv
<1> QED
  BY <1>1, StoreInvariant, PTL

\* The smoke test never finds a page changed, and no layer is missing.
THEOREM PagerIsSound ==
  Spec => []PagerSound
<1>1. StoreInv => PagerSound
  BY DEF StoreInv
<1> QED
  BY <1>1, StoreInvariant, PTL

-----------------------------------------------------------------------------
\* Two sequences of one length with the same elements are one sequence; here
\* for a sequence and what Append makes of a shorter one.
LEMMA AppendIs ==
  ASSUME NEW S, NEW s \in Seq(S), NEW r \in Seq(S), NEW e \in S,
         Len(r) = Len(s) + 1, r[Len(r)] = e,
         \A k \in 1 .. Len(s) : r[k] = s[k]
  PROVE  r = Append(s, e)
<1>1. Append(s, e) \in Seq(S) /\ Len(Append(s, e)) = Len(r)
  OBVIOUS
<1>2. \A k \in 1 .. Len(r) : r[k] = Append(s, e)[k]
  OBVIOUS
<1> QED
  BY <1>1, <1>2

\* Reading the slots in a circle from next_evict meets each slot in use once.
LEMMA PositionFacts ==
  ASSUME TypeOK, SlotsSound
  PROVE  /\ \A k \in 1 .. stored_pages : Position(k) \in Occupied
         /\ \A i \in Occupied : \E k \in 1 .. stored_pages : Position(k) = i
<1>1. /\ stored_pages \in 0 .. Capacity /\ Capacity \in Nat \ {0} /\ next_evict \in 0 .. Capacity - 1
      /\ Occupied = 0 .. stored_pages - 1
      /\ stored_pages < Capacity => next_evict = 0
  BY CapacityAssumption DEF TypeOK, Slots, SlotsSound
<1>2. \A k \in 1 .. stored_pages : Position(k) \in Occupied
  BY <1>1 DEF Position
<1>3. ASSUME NEW i \in Occupied
      PROVE  \E k \in 1 .. stored_pages : Position(k) = i
  <2>1. CASE i >= next_evict
    <3>1. i - next_evict + 1 \in 1 .. stored_pages /\ Position(i - next_evict + 1) = i
      BY <1>1, <2>1 DEF Position
    <3> QED
      BY <3>1
  <2>2. CASE i < next_evict
    <3>1. /\ i - next_evict + 1 + Capacity \in 1 .. stored_pages
          /\ Position(i - next_evict + 1 + Capacity) = i
      BY <1>1, <2>2 DEF Position
    <3> QED
      BY <3>1
  <2> QED
    BY <1>1, <2>1, <2>2
<1> QED
  BY <1>2, <1>3

Pairs == [id : Ids, page : Pages]

ContentsTyped ==
    /\ Contents \in Seq(Pairs) /\ Len(Contents) = stored_pages
    /\ DOMAIN Contents = 1 .. stored_pages
    /\ \A k \in 1 .. stored_pages :
          /\ Contents[k].id = slots[Position(k)].page_id
          /\ Contents[k].page = Decode(slots[Position(k)].encoded)

\* The abstract cache that the slots stand for.
LEMMA ContentsFacts ==
  TypeOK /\ SlotsSound => ContentsTyped
<1> SUFFICES ASSUME TypeOK, SlotsSound PROVE ContentsTyped
  OBVIOUS
<1>1. stored_pages \in Nat
  BY CapacityAssumption DEF TypeOK
<1>2. \A k \in 1 .. stored_pages : /\ slots[Position(k)].page_id \in Ids
                                   /\ Decode(slots[Position(k)].encoded) \in Pages
  BY PositionFacts, SlotFields DEF Occupied
<1>3. \A k \in 1 .. stored_pages :
         Contents[k] = [id |-> slots[Position(k)].page_id, page |-> Decode(slots[Position(k)].encoded)]
  BY DEF Contents
<1>4. Contents \in [1 .. stored_pages -> Pairs]
  BY <1>2 DEF Contents, Pairs
<1> QED
  BY <1>1, <1>3, <1>4 DEF ContentsTyped

\* store_page is a Keep of the cache, in each of its three cases.
LEMMA StoreIsKeep ==
  ASSUME TypeOK, SlotsSound, TypeOK', NEW id \in Ids, NEW page \in Pages, store_page(id, page)
  PROVE  Cache!Keep(id, page)
<1> DEFINE t   == Target(id)
           e   == Entry(id, Encode(page))
           new == [id |-> id, page |-> page]
<1>0. /\ stored_pages \in 0 .. Capacity /\ Capacity \in Nat \ {0} /\ next_evict \in 0 .. Capacity - 1
      /\ Occupied = 0 .. stored_pages - 1
      /\ stored_pages < Capacity => next_evict = 0
      /\ slots \in [Slots -> {Vacant} \cup Entries]
  BY CapacityAssumption DEF TypeOK, Slots, SlotsSound
<1>1. e.page_id = id /\ Decode(e.encoded) = page /\ new \in Pairs
  BY EntryFields DEF Pairs
<1>2. /\ slots' = [slots EXCEPT ![t] = e]
      /\ next_evict' = IF Evicts(id) THEN NextTurn ELSE next_evict
      /\ stored_pages' = IF slots[t].occupied THEN stored_pages ELSE stored_pages + 1
  BY DEF store_page
<1>3. /\ t \in Slots
      /\ \/ t \in Occupied /\ slots[t].page_id = id /\ ~Evicts(id)
         \/ find_slot(id) = {} /\ stored_pages < Capacity /\ t = stored_pages /\ t \notin Occupied /\ ~Evicts(id)
         \/ find_slot(id) = {} /\ stored_pages = Capacity /\ t = next_evict /\ t \in Occupied /\ Evicts(id)
  BY TargetCases
<1>4. SlotsSound' /\ (slots[t].occupied <=> t \in Occupied)
  BY <1>3, StoreSlots DEF Occupied
<1>5. /\ Contents \in Seq(Pairs) /\ Len(Contents) = stored_pages /\ DOMAIN Contents = 1 .. stored_pages
      /\ \A k \in 1 .. stored_pages : /\ Position(k) \in Occupied
                                      /\ Contents[k].id = slots[Position(k)].page_id
  BY ContentsFacts, PositionFacts DEF ContentsTyped
<1>6. Contents' \in Seq(Pairs) /\ Len(Contents') = stored_pages'
  <2>1. ContentsTyped'
    BY <1>4, ContentsFacts, PTL
  <2> QED
    BY <2>1 DEF ContentsTyped, Pairs
<1> HIDE DEF t, e, new
<1>7. \A i \in Slots : slots'[i] = IF i = t THEN e ELSE slots[i]
  BY <1>0, <1>2, <1>3
<1>8. \A k \in 1 .. stored_pages' :
         Contents'[k] = [id   |-> slots'[Position(k)'].page_id,
                         page |-> Decode(slots'[Position(k)'].encoded)]
  BY DEF Contents
<1>9. Cache!Present(id) <=> find_slot(id) # {}
  BY <1>5, PositionFacts DEF Cache!Present, find_slot
<1>10. CASE t \in Occupied /\ slots[t].page_id = id /\ ~Evicts(id)
  <2>1. stored_pages' = stored_pages /\ next_evict' = next_evict
    BY <1>2, <1>4, <1>10
  <2>2. \A k \in 1 .. stored_pages : Position(k)' = Position(k) /\ Position(k) \in Slots
    BY <1>5, <2>1 DEF Position, Occupied
  <2>3. ASSUME NEW k \in 1 .. stored_pages
        PROVE  Contents'[k] = IF Contents[k].id = id THEN new ELSE Contents[k]
    <3>1. Contents[k].id = id <=> Position(k) = t
      BY <1>5, <1>10 DEF SlotsSound
    <3>2. CASE Position(k) = t
      BY <1>1, <1>7, <1>8, <2>1, <2>2, <3>1, <3>2 DEF new
    <3>3. CASE Position(k) # t
      BY <1>7, <1>8, <2>1, <2>2, <3>1, <3>3 DEF Contents
    <3> QED
      BY <3>2, <3>3
  <2>4. Contents' = [k \in 1 .. stored_pages |-> IF Contents[k].id = id THEN new ELSE Contents[k]]
    BY <2>1, <2>3 DEF Contents
  <2>5. Cache!Present(id)
    BY <1>9, <1>10 DEF find_slot
  <2> QED
    BY <1>5, <2>4, <2>5 DEF Cache!Keep, new
<1>11. CASE find_slot(id) = {} /\ stored_pages < Capacity /\ t = stored_pages /\ t \notin Occupied /\ ~Evicts(id)
  <2>1. stored_pages' = stored_pages + 1 /\ next_evict' = 0 /\ next_evict = 0
    BY <1>0, <1>2, <1>4, <1>11
  <2>2. \A k \in 1 .. stored_pages + 1 : Position(k)' = k - 1 /\ k - 1 \in Slots
    BY <1>0, <1>11, <2>1 DEF Position, Slots
  <2>3. \A k \in 1 .. stored_pages : Contents'[k] = Contents[k]
    <3> SUFFICES ASSUME NEW k \in 1 .. stored_pages PROVE Contents'[k] = Contents[k]
      OBVIOUS
    <3>1. Position(k) = k - 1 /\ k - 1 # t /\ k \in 1 .. stored_pages'
      BY <1>0, <1>11, <2>1 DEF Position
    <3> QED
      BY <1>0, <1>7, <1>8, <2>2, <3>1 DEF Contents
  <2>4. ASSUME NEW k, k = stored_pages + 1
        PROVE  Contents'[k] = new
    <3>1. k \in 1 .. stored_pages' /\ k \in 1 .. stored_pages + 1 /\ k - 1 = t
      BY <1>0, <1>11, <2>1, <2>4
    <3>2. Position(k)' = t
      BY <2>2, <3>1
    <3> QED
      BY <1>1, <1>3, <1>7, <1>8, <3>1, <3>2 DEF new
  <2>5. Contents' = Append(Contents, new)
    BY <1>0, <1>1, <1>5, <1>6, <2>1, <2>3, <2>4, AppendIs
  <2> QED
    BY <1>5, <1>9, <1>11, <2>5 DEF Cache!Keep, new
<1>12. CASE find_slot(id) = {} /\ stored_pages = Capacity /\ t = next_evict /\ t \in Occupied /\ Evicts(id)
  <2>1. /\ stored_pages' = Capacity
        /\ next_evict' = IF next_evict + 1 = Capacity THEN 0 ELSE next_evict + 1
    BY <1>0, <1>2, <1>4, <1>12, TurnWraps DEF Slots
  <2>2. Tail(Contents) \in Seq(Pairs) /\ Len(Tail(Contents)) = Capacity - 1
        /\ \A k \in 1 .. Capacity - 1 : Tail(Contents)[k] = Contents[k + 1]
    BY <1>0, <1>5, <1>12
  <2>3. \A k \in 1 .. Capacity - 1 : Contents'[k] = Contents[k + 1]
    <3> SUFFICES ASSUME NEW k \in 1 .. Capacity - 1 PROVE Contents'[k] = Contents[k + 1]
      OBVIOUS
    <3>1. /\ Position(k)' = Position(k + 1) /\ Position(k + 1) # t /\ Position(k + 1) \in Slots
          /\ k \in 1 .. stored_pages' /\ k + 1 \in 1 .. stored_pages
      BY <1>0, <1>12, <2>1 DEF Position, Slots
    <3> QED
      BY <1>7, <1>8, <3>1 DEF Contents
  <2>4. Contents'[Capacity] = new
    <3>1. Capacity \in 1 .. stored_pages' /\ Position(Capacity)' = t
      BY <1>0, <1>12, <2>1 DEF Position
    <3> QED
      BY <1>1, <1>3, <1>7, <1>8, <3>1 DEF new
  <2>5. Contents' = Append(Tail(Contents), new)
    BY <1>0, <1>1, <1>6, <2>1, <2>2, <2>3, <2>4, AppendIs
  <2> QED
    BY <1>0, <1>5, <1>9, <1>12, <2>5 DEF Cache!Keep, new
<1> QED
  BY <1>3, <1>10, <1>11, <1>12

\* A step of the store is a step of the cache or leaves it alone.
LEMMA StoreStepRefines ==
  ASSUME StoreInv, StoreInv', [Next]_vars
  PROVE  [Cache!CacheNext]_(Cache!cacheVars)
<1>0. TypeOK /\ SlotsSound /\ TypeOK'
  BY DEF StoreInv
<1>1. UNCHANGED storeVars => Contents' = Contents
  BY DEF storeVars, Contents, Position
<1>2. CASE Initialize
  BY <1>1, <1>2 DEF Initialize, initialize, Cache!cacheVars
<1>3. ASSUME NEW id \in Ids, NEW page \in Pages, reclaim_page(id, page)
      PROVE  Cache!CacheNext
  <2>1. store_page(id, page) /\ answer' = answer
    BY <1>3 DEF reclaim_page
  <2>2. Cache!Keep(id, page)
    BY <1>0, <2>1, StoreIsKeep
  <2> QED
    BY <2>1, <2>2 DEF Cache!CacheNext, Cache!Put
<1>4. ASSUME NEW id \in Ids, restore_page(id)
      PROVE  Cache!CacheNext
  <2>1. answer' = load_page(slots, id) /\ Contents' = Contents
    BY <1>1, <1>4 DEF restore_page
  <2>2. ContentsTyped
    BY <1>0, ContentsFacts
  <2>3. CASE \A i \in Occupied : slots[i].page_id # id
    <3>1. ~Cache!Present(id)
      BY <1>0, <2>2, <2>3, PositionFacts DEF Cache!Present, ContentsTyped
    <3>2. answer' = Miss
      BY <1>0, <2>1, <2>3, LoadType
    <3> QED
      BY <2>1, <3>1, <3>2 DEF Cache!CacheNext, Cache!Get
  <2>4. ASSUME NEW i \in Occupied, slots[i].page_id = id
        PROVE  Cache!CacheNext
    <3>1. answer' = Decode(slots[i].encoded)
      BY <1>0, <2>1, <2>4, LoadType DEF SlotsSound
    <3>2. PICK k \in 1 .. stored_pages : Position(k) = i
      BY <1>0, PositionFacts
    <3>3. k \in DOMAIN Contents /\ Contents[k].id = id /\ answer' = Contents[k].page
      BY <2>2, <2>4, <3>1, <3>2 DEF ContentsTyped
    <3>4. Cache!Present(id)
      BY <3>3 DEF Cache!Present
    <3>5. Cache!Get(id)
      BY <2>1, <3>3, <3>4 DEF Cache!Get
    <3> QED
      BY <3>5 DEF Cache!CacheNext
  <2> QED
    BY <2>3, <2>4
<1>5. CASE verify_roundtrip
  <2> DEFINE id   == SmokePages[smoke + 1][1]
             page == SmokePages[smoke + 1][2]
  <2>1. id \in Ids /\ page \in Pages
    BY <1>0, SmokeTurn DEF TypeOK
  <2>2. store_page(id, page) /\ answer' = load_page(slots', id)
    BY <1>5 DEF verify_roundtrip
  <2> HIDE DEF id, page
  <2>3. answer' = page
    BY <1>0, <2>1, <2>2, StoredIsLoaded
  <2>4. Cache!Keep(id, page)
    BY <1>0, <2>1, <2>2, StoreIsKeep
  <2>5. Cache!PutGet(id, page)
    BY <2>3, <2>4 DEF Cache!PutGet
  <2> QED
    BY <2>1, <2>5 DEF Cache!CacheNext
<1>6. CASE UNCHANGED vars
  BY <1>1, <1>6 DEF vars, Cache!cacheVars
<1> QED
  BY <1>2, <1>3, <1>4, <1>5, <1>6 DEF Next

\* The store implements the cache: it returns the page last stored under an id
\* and drops the oldest id first, for every capacity.
THEOREM StoreImplementsCache ==
  Spec => StoreIsCache
<1>1. Init => Cache!CacheInit
  BY DEF Init, Cache!CacheInit, Contents
<1> QED
  BY <1>1, StoreInvariant, StoreStepRefines, PTL DEF Spec, StoreIsCache, Cache!CacheSpec
=============================================================================
