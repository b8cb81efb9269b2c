------------------------------- MODULE MapTools -------------------------------
(* One task of a research run (backend/src/execution/tool_runner.py): the    *)
(* arguments it takes from its plan and from the tasks it depends on, the    *)
(* request its tool makes of them, the cache and the retries behind it       *)
(* (tools/cache.py, tools/maps/client.py), and the evidence it leaves.       *)
(*                                                                           *)
(* A place has an id, a name and a position; "" is none.  Latitude and       *)
(* longitude are given together.                                             *)
EXTENDS Naturals, SequencesExt, FiniteSetsExt

CONSTANTS Ttl,          \* 0: an entry of the disk does not expire
          LruSize, MaxAttempts, MaxDestinations

Place(id, name, at) == [id |-> id, name |-> name, at |-> at]
PlaceRef(place) ==
    IF place.name \notin {"", "unnamed"} THEN place.name
    ELSE IF place.at # "" THEN place.at
    ELSE IF place.name = "" THEN "unknown" ELSE place.name

-----------------------------------------------------------------------------
(* nodes is a function from the tasks of the plan to records of tool, deps,  *)
(* status, query, the arguments given and the places found.  The arguments   *)
(* are a position, and lists of origins and destinations.                    *)

Found(nodes, n, statuses) ==
    SelectSeq(nodes[n].deps,
              LAMBDA d : d \in DOMAIN nodes /\ nodes[d].status \in statuses /\ nodes[d].places # <<>>)
OrElse(given, hint) == IF given # <<>> THEN given ELSE hint

\* The position of the first place that a completed dependency has found.
Positioned(nodes, n) ==
    LET deps == Found(nodes, n, {"completed"})
        args == nodes[n].args
    IN  IF args.at # "" \/ deps = <<>> THEN args ELSE [args EXCEPT !.at = nodes[deps[1]].places[1].at]

\* A dependency with one place is the origin, the longest one has the candidates.
Candidates(groups) == CHOOSE g \in ToSet(groups) :
    LET i == Min({j \in DOMAIN groups : groups[j] = g})
    IN  \A j \in DOMAIN groups : Len(groups[j]) < Len(g) \/ (Len(groups[j]) = Len(g) /\ i <= j)
Anchor(groups) ==
    LET single == SelectSeq(groups, LAMBDA g : Len(g) = 1)
    IN  IF single # <<>> THEN single[1][1] ELSE groups[1][1]
References(places) == [i \in DOMAIN places |-> PlaceRef(places[i])]
AtMost(refs) == SubSeq(refs, 1, IF Len(refs) < MaxDestinations THEN Len(refs) ELSE MaxDestinations)
Matched(nodes, n, args) ==
    LET deps == Found(nodes, n, {"completed"})
        groups == [i \in DOMAIN deps |-> nodes[deps[i]].places]
        others == SelectSeq(Candidates(groups), LAMBDA p : p.id # Anchor(groups).id)
    IN  IF groups = <<>> THEN args
        ELSE [args EXCEPT !.origins = OrElse(@, <<PlaceRef(Anchor(groups))>>),
                          !.destinations = OrElse(@, AtMost(References(OrElse(others, Candidates(groups)))))]

\* The way goes between the first two places of whatever the dependencies found.
Statuses == {"pending", "in_progress", "completed", "skipped", "failed"}
Routed(nodes, n) ==
    LET deps == Found(nodes, n, Statuses)
        places == FlattenSeq([i \in DOMAIN deps |-> nodes[deps[i]].places])
        args == nodes[n].args
    IN  [args EXCEPT !.origins = OrElse(@, References(SubSeq(places, 1, Min({1, Len(places)})))),
                     !.destinations = OrElse(@, IF Len(places) > 1 THEN <<PlaceRef(places[2])>> ELSE <<>>)]

MergeDependencyHints(nodes, n) ==
    CASE nodes[n].tool = "places" -> Positioned(nodes, n)
      [] nodes[n].tool = "distance_matrix" -> Matched(nodes, n, Positioned(nodes, n))
      [] nodes[n].tool = "directions" -> Routed(nodes, n)
      [] nodes[n].tool = "geocoding" -> nodes[n].args

-----------------------------------------------------------------------------
(* What the tool asks for, or the error of arguments that do not do.         *)
BadArgs == [endpoint |-> "none", from |-> <<>>, to |-> <<>>]
Asks(endpoint, from, to) == [endpoint |-> endpoint, from |-> from, to |-> to]
RunTool(tool, query, args) ==
    IF tool \in {"directions", "distance_matrix"}
    THEN IF args.origins = <<>> \/ args.destinations = <<>> THEN BadArgs
         ELSE Asks(tool, args.origins, args.destinations)
    ELSE IF tool = "places" /\ args.at # "" THEN Asks("nearby", <<args.at>>, <<>>)
    ELSE IF query = "" THEN BadArgs
    ELSE Asks(IF tool = "places" THEN "text" ELSE "geocoding", <<query>>, <<>>)

\* Distances leave a note only.
ToEvidence(tool, found) == [places |-> IF tool \in {"places", "geocoding"} THEN found ELSE <<>>,
                            routes |-> IF tool = "directions" THEN found ELSE <<>>,
                            notes |-> IF tool = "distance_matrix" THEN <<found>> ELSE <<>>]
Status(evidence) == IF evidence.places # <<>> \/ evidence.routes # <<>> THEN "completed" ELSE "skipped"

-----------------------------------------------------------------------------
(* The cache: lru is in the order of use, the latest last; disk is a         *)
(* function from keys to values with the time they expire at.                *)
\* What is found is a sequence of one value, or of none.
EmptyCache == [lru |-> <<>>, disk |-> <<>>, hits |-> 0, misses |-> 0]

Use(lru, key, value) ==
    LET used == Append(SelectSeq(lru, LAMBDA e : e.key # key), [key |-> key, value |-> value])
    IN  IF Len(used) > LruSize THEN Tail(used) ELSE used

Expired(entry, now) == entry.exp # 0 /\ entry.exp <= now
Get(cache, key, now) ==
    LET held == SelectSeq(cache.lru, LAMBDA e : e.key = key)
        hit(value, disk) == [found |-> <<value>>, cache |->
            [cache EXCEPT !.lru = Use(@, key, value), !.disk = disk, !.hits = @ + 1]]
        miss(disk) == [found |-> <<>>, cache |-> [cache EXCEPT !.disk = disk, !.misses = @ + 1]]
    IN  IF held # <<>> THEN hit(held[1].value, cache.disk)
        ELSE IF key \notin DOMAIN cache.disk THEN miss(cache.disk)
        ELSE IF Expired(cache.disk[key], now) THEN miss([k \in DOMAIN cache.disk \ {key} |-> cache.disk[k]])
        ELSE hit(cache.disk[key].value, cache.disk)
Set(cache, key, value, now) ==
    LET entry == [value |-> value, exp |-> IF Ttl > 0 THEN now + Ttl ELSE 0]
    IN  [cache EXCEPT !.lru = Use(@, key, value),
                      !.disk = [k \in DOMAIN @ \cup {key} |-> IF k = key THEN entry ELSE @[k]]]
Restarted(cache) == [EmptyCache EXCEPT !.disk = cache.disk]

(* replies: what the service does at each attempt, "http" an error of the    *)
(* connection or the status, "garbled" a body that is not JSON, else a body. *)
CachedRequest(cache, key, now, replies) ==
    LET got == Get(cache, key, now)
        final == {i \in 1..MaxAttempts : replies[i] # "http"}
        last == IF final = {} THEN MaxAttempts ELSE Min(final)
        works == replies[last] \notin {"http", "garbled"}
    IN  IF got.found # <<>> THEN [value |-> got.found[1], cache |-> got.cache, calls |-> 0]
        ELSE [value |-> IF works THEN replies[last] ELSE "error", calls |-> last,
              cache |-> IF works THEN Set(got.cache, key, replies[last], now) ELSE got.cache]
=============================================================================
