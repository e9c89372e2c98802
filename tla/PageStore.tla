----------------------------- MODULE PageStore -----------------------------
(***************************************************************************)
(* The compressed page store (mm/compress/store.rs) under the pager        *)
(* (mm/pager.rs).  A call runs to its end before the next one starts: the  *)
(* states are statics without a lock, used from one thread.  The codec     *)
(* comes in through its interface; counters of requests are left out,      *)
(* gauges of what is stored are kept.                                      *)
(***************************************************************************)
EXTENDS Integers, Sequences, FiniteSets, FiniteSetsExt

CONSTANTS
    Ids, Pages, Miss,
    Capacity,           \* STORE_CAPACITY_PAGES, 64 in the code
    SmokePages,         \* what run_bootstrap_smoke verifies: <<id, page>> in turn
    Encode(_),          \* encode_page of a page
    Decode(_),          \* decode_page of an encoded page
    Class(_),           \* EncodedPage::class
    Size(_)             \* the length of EncodedPage::bytes

Classes == {"Zero", "Same", "Sxrc", "Raw"}

ASSUME CapacityAssumption == Capacity \in Nat \ {0} /\ Miss \notin Pages
ASSUME SmokeAssumption == SmokePages # <<>> /\ SmokePages \in Seq(Ids \X Pages)
ASSUME CodecAssumption ==
    \A page \in Pages :
        /\ Decode(Encode(page)) = page
        /\ Class(Encode(page)) \in Classes
        /\ Size(Encode(page)) \in Nat

VARIABLES
    ready,                      \* the layers whose initialized flag is set
    slots,                      \* StoreState.slots
    next_evict,
    stored_pages,               \* the gauges of StoreStats
    stored_class,               \* stored_zero_pages, stored_same_pages, ...
    current_encoded_bytes,
    verify_failures,            \* PagerStats
    smoke,                      \* how many pages the running smoke test has verified
    answer                      \* the page the last restore_page delivered, or Miss

storeVars == <<slots, next_evict, stored_pages, stored_class, current_encoded_bytes>>
vars == <<ready, storeVars, verify_failures, smoke, answer>>

Slots == 0 .. Capacity - 1
Vacant == [occupied |-> FALSE]
Entry(page_id, encoded) ==
    [occupied |-> TRUE, page_id |-> page_id, class |-> Class(encoded), encoded |-> encoded]
Entries == {Entry(id, Encode(page)) : id \in Ids, page \in Pages}

Init ==
    /\ ready = {}
    /\ slots = [i \in Slots |-> Vacant]
    /\ next_evict = 0
    /\ stored_pages = 0
    /\ stored_class = [c \in Classes |-> 0]
    /\ current_encoded_bytes = 0
    /\ verify_failures = 0
    /\ smoke = 0
    /\ answer = Miss

-----------------------------------------------------------------------------
Occupied == {i \in Slots : slots[i].occupied}
find_slot(page_id) == {i \in Occupied : slots[i].page_id = page_id}
find_empty_slot == Slots \ Occupied

\* The slot a page goes to: its own, the first that is free, the next in turn.
Target(page_id) ==
    IF find_slot(page_id) # {} THEN Min(find_slot(page_id))
    ELSE IF find_empty_slot # {} THEN Min(find_empty_slot)
    ELSE next_evict

\* Mutant: the turn also moves when a page is replaced in a full store.
EvictsOften(page_id) == find_empty_slot = {}

Evicts(page_id) == find_slot(page_id) = {} /\ find_empty_slot = {}

NextTurn == (next_evict + 1) % Capacity

saturating_sub(a, b) == IF a < b THEN 0 ELSE a - b

\* account_removed of the old entry, if there was one, then account_added.
Counts(counts, old, class) ==
    LET removed == IF old.occupied
                   THEN [counts EXCEPT ![old.class] = saturating_sub(@, 1)]
                   ELSE counts
    IN  [removed EXCEPT ![class] = @ + 1]

\* Mutant: the bytes of the old entry are not taken off.
BytesKept(bytes, old, encoded) == bytes + Size(encoded)

Bytes(bytes, old, encoded) ==
    (IF old.occupied THEN saturating_sub(bytes, Size(old.encoded)) ELSE bytes) + Size(encoded)

store_page(page_id, page) ==
    LET encoded == Encode(page)
        target  == Target(page_id)
        old     == slots[target]
    IN  /\ {"store", "compress"} \subseteq ready
        /\ slots' = [slots EXCEPT ![target] = Entry(page_id, encoded)]
        /\ next_evict' = IF Evicts(page_id) THEN NextTurn ELSE next_evict
        /\ stored_pages' = IF old.occupied THEN stored_pages ELSE stored_pages + 1
        /\ stored_class' = Counts(stored_class, old, Class(encoded))
        /\ current_encoded_bytes' = Bytes(current_encoded_bytes, old, encoded)

\* load_page in a given table: the first slot with the id.
load_page(table, page_id) ==
    LET found == {i \in Slots : table[i].occupied /\ table[i].page_id = page_id}
    IN  IF found = {} THEN Miss ELSE Decode(table[Min(found)].encoded)

-----------------------------------------------------------------------------
\* Each layer is initialised once, after the one below it.
initialize(layer, below) ==
    /\ layer \notin ready
    /\ below \subseteq ready
    /\ ready' = ready \cup {layer}
    /\ UNCHANGED <<storeVars, verify_failures, smoke, answer>>

Initialize ==
    \/ initialize("compress", {})
    \/ initialize("store", {"compress"})
    \/ initialize("pager", {"store"})

reclaim_page(page_id, page) ==
    /\ "pager" \in ready /\ smoke = 0
    /\ store_page(page_id, page)
    /\ UNCHANGED <<ready, verify_failures, smoke, answer>>

restore_page(page_id) ==
    /\ {"pager", "store"} \subseteq ready /\ smoke = 0
    /\ answer' = load_page(slots, page_id)
    /\ UNCHANGED <<ready, storeVars, verify_failures, smoke>>

\* One verify_roundtrip of run_bootstrap_smoke: reclaim, restore, compare.
verify_roundtrip ==
    LET id   == SmokePages[smoke + 1][1]
        page == SmokePages[smoke + 1][2]
    IN  /\ "pager" \in ready
        /\ store_page(id, page)
        /\ answer' = load_page(slots', id)
        /\ IF answer' = page
           THEN /\ smoke' = (smoke + 1) % Len(SmokePages)
                /\ UNCHANGED verify_failures
           ELSE /\ smoke' = 0
                /\ verify_failures' = verify_failures + 1
        /\ UNCHANGED ready

Next ==
    \/ Initialize
    \/ \E id \in Ids, page \in Pages : reclaim_page(id, page)
    \/ \E id \in Ids : restore_page(id)
    \/ verify_roundtrip

Spec == Init /\ [][Next]_vars

-----------------------------------------------------------------------------
TypeOK ==
    /\ ready \subseteq {"compress", "store", "pager"}
    /\ slots \in [Slots -> {Vacant} \cup Entries]
    /\ next_evict \in Slots
    /\ stored_pages \in 0 .. Capacity
    /\ stored_class \in [Classes -> Nat]
    /\ current_encoded_bytes \in Nat
    /\ verify_failures \in Nat
    /\ smoke \in 0 .. Len(SmokePages) - 1
    /\ answer \in Pages \cup {Miss}

\* The store from the oldest entry on: slots are filled in order and
\* overwritten in turn, so they are read in a circle from next_evict.
Position(k) ==
    IF next_evict + k <= Capacity THEN next_evict + k - 1 ELSE next_evict + k - 1 - Capacity
Contents ==
    [k \in 1 .. stored_pages |-> [id   |-> slots[Position(k)].page_id,
                                  page |-> Decode(slots[Position(k)].encoded)]]

Cache == INSTANCE PageCache WITH cache <- Contents

\* store_page and load_page make a cache that returns the page last put under
\* an id and drops the oldest id first, whatever replacements came between.
StoreIsCache == Cache!CacheSpec

\* An id has one slot, slots fill from the front, and the turn moves only once
\* all are taken (find_slot, find_empty_slot, next_evict).
SlotsSound ==
    /\ \A i, j \in Occupied : slots[i].page_id = slots[j].page_id => i = j
    /\ Occupied = 0 .. stored_pages - 1
    /\ stored_pages < Capacity => next_evict = 0

\* The gauges of each class say how many slots hold a page of it, after any
\* number of replacements and evictions (account_added, account_removed).
ClassCountsAgree ==
    \A c \in Classes : stored_class[c] = Cardinality({i \in Occupied : slots[i].class = c})

\* The gauges of what is stored, each lowered and raised with every page that is
\* replaced or evicted, are exact: the counts of each class and the bytes in use.
GaugesAgree ==
    /\ ClassCountsAgree
    /\ current_encoded_bytes = MapThenSumSet(LAMBDA i : Size(slots[i].encoded), Occupied)

\* run_bootstrap_smoke never finds a page changed, and a layer that is up has
\* all layers below it, so no call of the pager fails for want of one.
PagerSound ==
    /\ verify_failures = 0
    /\ "pager" \in ready => "store" \in ready
    /\ "store" \in ready => "compress" \in ready
=============================================================================
