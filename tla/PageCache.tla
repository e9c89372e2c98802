----------------------------- MODULE PageCache -----------------------------
(***************************************************************************)
(* What the compressed page store promises: a cache of Capacity pages in   *)
(* which a page that is asked for is the one last put under its id, and    *)
(* which drops the id that came first when a new one finds it full.        *)
(* Putting an id that is present changes its page and not its turn.        *)
(***************************************************************************)
EXTENDS Integers, Sequences

CONSTANTS Ids, Pages, Capacity, Miss

VARIABLES
    cache,      \* the ids present, the oldest first, each with its page
    answer      \* what the last request for a page returned

cacheVars == <<cache, answer>>

CacheInit == cache = <<>> /\ answer = Miss

Present(id) == \E k \in DOMAIN cache : cache[k].id = id

Keep(id, page) ==
    LET new  == [id |-> id, page |-> page]
        rest == IF Len(cache) < Capacity THEN cache ELSE Tail(cache)
    IN  cache' = IF Present(id)
                 THEN [k \in DOMAIN cache |-> IF cache[k].id = id THEN new ELSE cache[k]]
                 ELSE Append(rest, new)

Put(id, page) == Keep(id, page) /\ answer' = answer

Get(id) ==
    /\ IF Present(id)
       THEN \E k \in DOMAIN cache : cache[k].id = id /\ answer' = cache[k].page
       ELSE answer' = Miss
    /\ cache' = cache

PutGet(id, page) == Keep(id, page) /\ answer' = page

CacheNext ==
    \/ \E id \in Ids, page \in Pages : Put(id, page) \/ PutGet(id, page)
    \/ \E id \in Ids : Get(id)

CacheSpec == CacheInit /\ [][CacheNext]_cacheVars
=============================================================================
