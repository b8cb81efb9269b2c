------------------------------- MODULE MCResearch -------------------------------
EXTENDS ResearchRun
P == INSTANCE ResearchPlan

\* Answers of the planner: three items with or without ids, one dependency or two.
Items == [id : {0, 1, 2}, deps : {<<>>, <<1>>, <<2>>, <<3>>, <<2, 1>>}]
Answers == {<<>>} \cup [1..2 -> Items] \cup [1..3 -> Items]
ASSUME PlansAreSound == \A items \in Answers : P!IsPlan(P!Parse(items, 3)) /\ P!IsPlan(P!Parse(items, 1))

\* Only what a plan cannot keep is dropped from it (see KeepsKnownDependencies).
PlanKeepsKnownDependencies == \A items \in Answers : P!KeepsKnownDependencies(items)

\* The colouring on its own, on graphs with any edges.
Graphs == [1..3 -> {<<>>, <<1>>, <<2>>, <<3>>, <<1, 2>>, <<2, 3>>, <<3, 1>>, <<2, 2>>}]
ASSUME CyclesAreCut == \A g \in Graphs :
    P!IsPlan(P!EnsureTopologicallyValid([i \in 1..3 |-> [id |-> i, deps |-> g[i]]]))

\* Plans of three tasks, all of them among those that the planner's answers give.
MCPlans == {<<<<>>, two, three>> : two \in {<<>>, <<1>>, <<1, 1>>}, three \in {<<>>, <<1>>, <<2>>, <<2, 1>>}}
ASSUME PlansArise == MCPlans \subseteq
    {[i \in DOMAIN p |-> p[i].deps] : p \in
        {P!Parse(items, 3) : items \in [1..3 -> [id : {0}, deps : {<<>>, <<1>>, <<2>>, <<1, 1>>, <<2, 1>>}]]}}

-----------------------------------------------------------------------------
T == INSTANCE MapTools WITH Ttl <- 2, LruSize <- 2, MaxAttempts <- 2, MaxDestinations <- 2

\* Task 3 depends on tasks 1 and 2; two of the places have the same name.
Spots == {T!Place("a", "x", "p"), T!Place("b", "x", "q"), T!Place("c", "", "r"), T!Place("d", "", "")}
Finds == {<<>>} \cup {<<p>> : p \in Spots} \cup {pair \in Spots \X Spots : pair[1] # pair[2]}
NoArgs == [at |-> "", origins |-> <<>>, destinations |-> <<>>]
Given == {NoArgs, [NoArgs EXCEPT !.at = "s"], [NoArgs EXCEPT !.origins = <<"s">>], [NoArgs EXCEPT !.destinations = <<"t">>]}
Before == [status : {"completed", "skipped", "failed"}, places : Finds]
Task(tool, d, args, one, two) ==
    LET Node(b) == [tool |-> "places", deps |-> <<>>, args |-> NoArgs, status |-> b.status, places |-> b.places]
    IN  <<Node(one), Node(two), [tool |-> tool, deps |-> d, args |-> args, status |-> "in_progress", places |-> <<>>]>>
Hint(tool, d, args, one, two) == T!MergeDependencyHints(Task(tool, d, args, one, two), 3)
Useless(before) == before.status # "completed" \/ before.places = <<>>
Origins(before) == {T!PlaceRef(before.places[i]) : i \in {j \in DOMAIN before.places : before.status = "completed"}}

\* What the plan says stays, and one completed dependency that found a place is
\* enough to ask for distances, from it or another, to as many as are allowed.
HintsAreEnough ==
    \A args \in Given, one, two \in Before : \A d \in {<<1>>, <<1, 2>>, <<2, 1>>} :
        LET hint == Hint("distance_matrix", d, args, one, two)
        IN  /\ \A field \in DOMAIN args : args[field] # NoArgs[field] => hint[field] = args[field]
            /\ ~Useless(one) =>
                 /\ T!RunTool("distance_matrix", "", hint) # T!BadArgs
                 /\ Len(hint.destinations) \in 1..2
                 /\ ToSet(hint.origins) \subseteq ToSet(args.origins) \cup Origins(one) \cup Origins(two)
ASSUME HintsAreEnough

\* Places and distances are asked for about completed dependencies only.
Blank == [status |-> "skipped", places |-> <<>>]
OnlyCompleted(tool) ==
    \A args \in Given, one, two \in Before : Useless(one) =>
        Hint(tool, <<1, 2>>, args, one, two) = Hint(tool, <<1, 2>>, args, Blank, two)
ASSUME FailedIsIgnored == OnlyCompleted("places") /\ OnlyCompleted("distance_matrix")

\* Not true.  Directions take no places from a dependency that did not complete.
DirectionsIgnoreFailed == OnlyCompleted("directions")
\* Not true.  The origin is not one of the destinations.
OriginIsNoDestination ==
    \A one, two \in Before : LET hint == Hint("distance_matrix", <<1, 2>>, NoArgs, one, two)
                             IN  Len(hint.destinations) > 1 => ToSet(hint.origins) \cap ToSet(hint.destinations) = {}
\* Not true.  What a task looks for is asked: with a position, all that is near is.
QueryIsAsked == \A args \in Given : T!RunTool("places", "query", args).from = <<"query">>
\* Not true.  A task that got its distances is completed.
DistancesComplete == T!Status(T!ToEvidence("distance_matrix", "1 x 2")) = "completed"

\* The cache in any sequence of operations; values are numbered as they are set.
Ops == [op : {"set", "get"}, key : 1..3] \cup [op : {"tick", "restart"}, key : {1}]
Step(s, o) ==
    LET got == T!Get(s.cache, o.key, s.now)
    IN  CASE o.op = "tick" -> [s EXCEPT !.now = @ + 1]
          [] o.op = "restart" -> [s EXCEPT !.cache = T!Restarted(@)]
          [] o.op = "set" -> [s EXCEPT !.cache = T!Set(@, o.key, s.count, s.now), !.count = @ + 1,
                                       !.last[o.key] = [value |-> s.count, at |-> s.now]]
          [] o.op = "get" -> [s EXCEPT !.cache = got.cache,
                !.told = @ /\ (got.found = <<>> => s.last[o.key].at + 2 <= s.now)
                           /\ (got.found # <<>> => got.found = <<s.last[o.key].value>>),
                !.fresh = @ /\ (got.found # <<>> => s.last[o.key].at + 2 > s.now)]
Ran(ops) == FoldLeft(Step, [cache |-> T!EmptyCache, now |-> 2, count |-> 1, told |-> TRUE, fresh |-> TRUE,
                            last |-> [k \in 1..3 |-> [value |-> 0, at |-> 0]]], ops)
\* What was put in is found until it expires, and nothing else ever is.
ASSUME CacheTells == \A ops \in [1..5 -> Ops] : LET end == Ran(ops)
                                                IN  end.told /\ Len(end.cache.lru) <= 2
\* Not true.  What is found has not expired.
CacheIsFresh == \A ops \in [1..4 -> Ops] : Ran(ops).fresh

\* A request is tried a few times, its failure is not kept, and its answer is
\* there for the next.
Replies == [1..2 -> {"http", "garbled", "denied", "body"}]
Asked(replies) == T!CachedRequest(T!EmptyCache, 1, 2, replies)
ASSUME RequestsEnd ==
    \A replies, later \in Replies :
        LET one == Asked(replies)
            two == T!CachedRequest(one.cache, 1, 3, later)
        IN  /\ one.calls \in 1..2 /\ (one.value = "error" \/ \E i \in 1..2 : one.value = replies[i])
            /\ IF one.value = "error" THEN two.value = Asked(later).value
               ELSE two.calls = 0 /\ two.value = one.value
\* Not true.  A body that tells of an error is not kept.
DeniedIsNotKept == \A replies \in Replies : T!Get(Asked(replies).cache, 1, 2).found # <<"denied">>
=============================================================================
