----------------------------- MODULE ResearchProofs -----------------------------
(***************************************************************************)
(* Proof that the scheduler of a research run implements TaskOrder, for    *)
(* any finite set of tasks, any plans, any number of slots and of runs:    *)
(* a task is taken up at most once, and after the tasks it depends on have *)
(* ended unless a stall has let it go.                                     *)
(***************************************************************************)
EXTENDS ResearchRun, FiniteSetTheorems, TLAPS

-----------------------------------------------------------------------------
(* A set of tasks in order.                                                  *)

\* The rank of a task in a set is where it comes in the order.
LEMMA Enumeration ==
    ASSUME NEW S \in SUBSET Nodes
    PROVE  /\ IsFiniteSet(S) /\ Cardinality(S) \in Nat
           /\ \E s \in [1..Cardinality(S) -> S] :
                 \A i, j \in 1..Cardinality(S) : i < j => s[i] < s[j]
  <1> DEFINE N == Cardinality(S)
             Upto(x) == {y \in S : y <= x}
             rank == [x \in S |-> Cardinality(Upto(x))]
  <1>1. IsFiniteSet(S) /\ N \in Nat /\ S \subseteq Nat
    BY SchedulerAssumption, FS_Subset, FS_CardinalityType
  <1>2. \A x \in S : IsFiniteSet(Upto(x)) /\ Cardinality(Upto(x)) \in 1..N
    <2> SUFFICES ASSUME NEW x \in S PROVE IsFiniteSet(Upto(x)) /\ Cardinality(Upto(x)) \in 1..N
      OBVIOUS
    <2>1. IsFiniteSet(Upto(x)) /\ Cardinality(Upto(x)) <= N /\ Cardinality(Upto(x)) \in Nat
      BY <1>1, FS_Subset, FS_CardinalityType
    <2>2. x \in Upto(x)
      BY <1>1
    <2>3. Cardinality(Upto(x)) # 0
      BY <2>1, <2>2, FS_EmptySet
    <2> QED BY <1>1, <2>1, <2>3
  <1>3. \A x, y \in S : x < y => rank[x] < rank[y]
    <2> SUFFICES ASSUME NEW x \in S, NEW y \in S, x < y PROVE rank[x] < rank[y]
      OBVIOUS
    <2>1. Upto(x) \in SUBSET Upto(y) /\ y \in Upto(y) /\ y \notin Upto(x)
      <3>1. x \in Nat /\ y \in Nat /\ \A z \in S : z <= x => z <= y
        BY <1>1
      <3>2. y <= y /\ ~(y <= x)
        BY <3>1
      <3> QED BY <3>1, <3>2
    <2>2. Cardinality(Upto(x)) <= Cardinality(Upto(y)) /\ Cardinality(Upto(x)) # Cardinality(Upto(y))
      BY <1>2, <2>1, FS_Subset
    <2> QED BY <1>1, <1>2, <2>2
  <1>4. rank \in Injection(S, 1..N)
    <2>1. rank \in [S -> 1..N]
      BY <1>2
    <2>2. \A x, y \in S : rank[x] = rank[y] => x = y
      <3> SUFFICES ASSUME NEW x \in S, NEW y \in S, rank[x] = rank[y], x # y PROVE FALSE
        OBVIOUS
      <3>1. x < y \/ y < x
        BY <1>1
      <3>2. rank[x] \in Nat /\ rank[y] \in Nat
        BY <1>1, <2>1
      <3> QED BY <1>3, <3>1, <3>2
    <2> QED BY <2>1, <2>2 DEF Injection, IsInjective
  <1>5. rank \in Surjection(S, 1..N)
    <2>1. IsFiniteSet(1..N) /\ Cardinality(1..N) = N
      BY <1>1, FS_Interval
    <2> QED BY <1>4, <2>1, FS_Injection
  <1> DEFINE s == [i \in 1..N |-> CHOOSE x \in S : rank[x] = i]
  <1>6. s \in [1..N -> S] /\ \A i \in 1..N : rank[s[i]] = i
    <2>1. \A i \in 1..N : \E x \in S : rank[x] = i
      BY <1>5 DEF Surjection
    <2> HIDE DEF rank
    <2>2. \A i \in 1..N : (CHOOSE x \in S : rank[x] = i) \in S /\ rank[CHOOSE x \in S : rank[x] = i] = i
      BY <2>1
    <2> QED BY <2>2
  <1>7. \A i, j \in 1..N : i < j => s[i] < s[j]
    <2> HIDE DEF rank, s
    <2> SUFFICES ASSUME NEW i \in 1..N, NEW j \in 1..N, i < j PROVE s[i] < s[j]
      OBVIOUS
    <2>1. s[i] \in S /\ s[j] \in S /\ rank[s[i]] = i /\ rank[s[j]] = j
      BY <1>6
    <2>2. s[i] \in Nat /\ s[j] \in Nat
      BY <1>1, <2>1
    <2>3. s[j] < s[i] => j < i
      BY <1>3, <2>1
    <2>4. s[i] # s[j] /\ ~(j < i)
      BY <1>1, <2>1
    <2> QED BY <2>2, <2>3, <2>4
  <1> QED BY <1>1, <1>6, <1>7

\* InOrder lists exactly the tasks of a set, each once.
LEMMA InOrderLists ==
    ASSUME NEW S \in SUBSET Nodes
    PROVE  /\ InOrder(S) \in Seq(S)
           /\ IsInjective(InOrder(S))
           /\ ToSet(InOrder(S)) = S
  <1> DEFINE s == InOrder(S)
             N == Cardinality(S)
  <1>1. IsFiniteSet(S) /\ N \in Nat /\ S \subseteq Nat
    BY Enumeration, SchedulerAssumption
  <1>2. s \in [1..N -> S] /\ \A i, j \in 1..N : i < j => s[i] < s[j]
    BY Enumeration DEF InOrder
  <1> HIDE DEF s
  <1>3. \A i, j \in 1..N : s[i] = s[j] => i = j
    <2> SUFFICES ASSUME NEW i \in 1..N, NEW j \in 1..N, s[i] = s[j], i # j PROVE FALSE
      OBVIOUS
    <2>1. s[i] \in Nat /\ s[j] \in Nat
      BY <1>1, <1>2
    <2>2. i < j \/ j < i
      BY <1>1
    <2> QED BY <1>2, <2>1, <2>2
  <1>4. s \in Surjection(1..N, S)
    <2>1. s \in Injection(1..N, S)
      BY <1>2, <1>3 DEF Injection, IsInjective
    <2>2. Cardinality(1..N) = N
      BY <1>1, FS_Interval
    <2> QED BY <1>1, <2>1, <2>2, FS_Injection
  <1>5. s \in Seq(S) /\ DOMAIN s = 1..N
    BY <1>1, <1>2
  <1>6. ToSet(s) = S
    BY <1>2, <1>4, <1>5 DEF ToSet, Surjection
  <1> QED BY <1>3, <1>5, <1>6 DEF s, IsInjective

-----------------------------------------------------------------------------
(* Lists without repetition.                                                 *)

LEMMA TakeFirst ==
    ASSUME NEW s \in Seq(Nodes), s # <<>>, IsInjective(s)
    PROVE  /\ Head(s) \in Nodes /\ Head(s) \in ToSet(s)
           /\ Tail(s) \in Seq(Nodes) /\ IsInjective(Tail(s))
           /\ ToSet(Tail(s)) \subseteq ToSet(s) /\ Head(s) \notin ToSet(Tail(s))
  <1>1. /\ Len(s) \in Nat /\ Len(s) >= 1 /\ DOMAIN s = 1..Len(s)
        /\ Head(s) = s[1] /\ \A i \in 1..Len(s) : s[i] \in Nodes
    OBVIOUS
  <1>2. /\ Tail(s) \in Seq(Nodes) /\ DOMAIN Tail(s) = 1..(Len(s) - 1)
        /\ \A i \in 1..(Len(s) - 1) : Tail(s)[i] = s[i + 1]
    BY <1>1
  <1>3. \A i \in 1..(Len(s) - 1) : i + 1 \in 1..Len(s) /\ i + 1 # 1
    BY <1>1
  <1>4. 1 \in DOMAIN s
    BY <1>1
  <1>5. \A i, j \in DOMAIN s : s[i] = s[j] => i = j
    BY DEF IsInjective
  <1>6. IsInjective(Tail(s))
    <2> SUFFICES ASSUME NEW i \in 1..(Len(s) - 1), NEW j \in 1..(Len(s) - 1), Tail(s)[i] = Tail(s)[j]
                 PROVE  i = j
      BY <1>2 DEF IsInjective
    <2>1. i + 1 = j + 1
      BY <1>1, <1>2, <1>3, <1>5
    <2> QED BY <1>1, <2>1
  <1>7. ToSet(Tail(s)) \subseteq ToSet(s)
    BY <1>1, <1>2, <1>3 DEF ToSet
  <1>8. Head(s) \notin ToSet(Tail(s))
    BY <1>1, <1>2, <1>3, <1>4, <1>5 DEF ToSet
  <1>9. Head(s) \in Nodes /\ Head(s) \in ToSet(s)
    BY <1>1, <1>4 DEF ToSet
  <1> QED BY <1>2, <1>6, <1>7, <1>8, <1>9

LEMMA AddLast ==
    ASSUME NEW s \in Seq(Nodes), IsInjective(s), NEW t \in Seq(Nodes), IsInjective(t),
           ToSet(s) \cap ToSet(t) = {}
    PROVE  /\ s \o t \in Seq(Nodes) /\ IsInjective(s \o t)
           /\ ToSet(s \o t) = ToSet(s) \cup ToSet(t)
  <1>1. /\ Len(s) \in Nat /\ Len(t) \in Nat /\ DOMAIN s = 1..Len(s) /\ DOMAIN t = 1..Len(t)
        /\ s \o t \in Seq(Nodes) /\ DOMAIN (s \o t) = 1..(Len(s) + Len(t))
        /\ \A i \in 1..(Len(s) + Len(t)) : (s \o t)[i] = IF i <= Len(s) THEN s[i] ELSE t[i - Len(s)]
    OBVIOUS
  <1>2. \A i \in 1..(Len(s) + Len(t)) :
           \/ i \in DOMAIN s /\ (s \o t)[i] = s[i]
           \/ i - Len(s) \in DOMAIN t /\ (s \o t)[i] = t[i - Len(s)]
    BY <1>1
  <1>3. \A i \in DOMAIN s : \A j \in DOMAIN t : s[i] # t[j]
    BY DEF ToSet
  <1>4. IsInjective(s \o t)
    <2> SUFFICES ASSUME NEW i \in 1..(Len(s) + Len(t)), NEW j \in 1..(Len(s) + Len(t)), (s \o t)[i] = (s \o t)[j]
                 PROVE  i = j
      BY <1>1 DEF IsInjective
    <2>1. \/ i \in DOMAIN s /\ j \in DOMAIN s /\ s[i] = s[j]
          \/ i - Len(s) \in DOMAIN t /\ j - Len(s) \in DOMAIN t /\ t[i - Len(s)] = t[j - Len(s)]
      BY <1>2, <1>3
    <2>2. i = j \/ i - Len(s) = j - Len(s)
      BY <2>1 DEF IsInjective
    <2> QED BY <1>1, <2>2
  <1>5. ToSet(s \o t) \subseteq ToSet(s) \cup ToSet(t)
    BY <1>1, <1>2 DEF ToSet
  <1>6. ToSet(s) \subseteq ToSet(s \o t)
    BY <1>1 DEF ToSet
  <1>7. ToSet(t) \subseteq ToSet(s \o t)
    <2>1. \A j \in 1..Len(t) : /\ Len(s) + j \in 1..(Len(s) + Len(t)) /\ ~(Len(s) + j <= Len(s))
                               /\ (Len(s) + j) - Len(s) = j
      BY <1>1
    <2>2. \A j \in DOMAIN t : (s \o t)[Len(s) + j] = t[j]
      BY <1>1, <2>1
    <2> QED BY <1>1, <2>1, <2>2 DEF ToSet
  <1> QED BY <1>1, <1>4, <1>5, <1>6, <1>7

LEMMA One == ASSUME NEW n \in Nodes
             PROVE <<n>> \in Seq(Nodes) /\ IsInjective(<<n>>) /\ ToSet(<<n>>) = {n}
  BY DEF IsInjective, ToSet

-----------------------------------------------------------------------------
(* The scheduler.                                                            *)

Phases == {"pending", "tool", "summary", "raised"} \cup Ended

ScheduleTypeOK ==
    /\ deps \in [Nodes -> Seq(Nodes)] /\ remainingDeps \in [Nodes -> Int]
    /\ ready \in Seq(Nodes) /\ queued \in Seq(Nodes) /\ phase \in [Nodes -> Phases]

\* A counter that has not come down counts the dependencies that have not ended, of a
\* task that has not begun; a task that was launched, or is ready to be, has none left
\* to count, has not begun either, and is there once.
ScheduleInv ==
    /\ ScheduleTypeOK
    /\ \A n \in Nodes : remainingDeps[n] > 0 => phase[n] = "pending" /\ remainingDeps[n] = Outstanding(n)
    /\ \A n \in ToSet(ready) \cup ToSet(queued) : phase[n] = "pending" /\ remainingDeps[n] <= 0
    /\ ToSet(ready) \cap ToSet(queued) = {}
    /\ IsInjective(ready) /\ IsInjective(queued)

-----------------------------------------------------------------------------
(* Counting.                                                                 *)

LEMMA Counts ==
    ASSUME ScheduleTypeOK, NEW c \in Nodes
    PROVE  /\ Outstanding(c) \in Nat
           /\ Outstanding(c) = 0 => \A d \in ToSet(deps[c]) : phase[d] \in Ended
           /\ \A n \in Nodes : Times(n, deps[c]) \in Nat
  <1> DEFINE Open == {i \in DOMAIN deps[c] : phase[deps[c][i]] \notin Ended}
  <1>1. deps[c] \in Seq(Nodes)
    BY DEF ScheduleTypeOK
  <1>2. IsFiniteSet(DOMAIN deps[c])
    <2>1. DOMAIN deps[c] = 1..Len(deps[c]) /\ Len(deps[c]) \in Nat
      BY <1>1
    <2> QED BY <2>1, FS_Interval
  <1>3. IsFiniteSet(Open) /\ Cardinality(Open) \in Nat
    BY <1>2, FS_Subset, FS_CardinalityType
  <1>4. Cardinality(Open) = 0 => \A d \in ToSet(deps[c]) : phase[d] \in Ended
    <2>1. Cardinality(Open) = 0 => Open = {}
      BY <1>3, FS_EmptySet
    <2> QED BY <2>1 DEF ToSet
  <1>5. ASSUME NEW n \in Nodes PROVE Times(n, deps[c]) \in Nat
    <2>1. {i \in DOMAIN deps[c] : deps[c][i] = n} \in SUBSET DOMAIN deps[c]
      OBVIOUS
    <2> QED BY <1>2, <2>1, FS_Subset, FS_CardinalityType DEF Times
  <1> QED BY <1>3, <1>4, <1>5 DEF Outstanding

\* As long as the same tasks have ended the same dependencies are outstanding.
LEMMA CountsStay ==
    ASSUME ScheduleTypeOK, deps' = deps,
           \A n \in Nodes : phase'[n] \in Ended <=> phase[n] \in Ended
    PROVE  \A c \in Nodes : Outstanding(c)' = Outstanding(c)
  <1> SUFFICES ASSUME NEW c \in Nodes PROVE Outstanding(c)' = Outstanding(c)
    OBVIOUS
  <1>1. \A i \in DOMAIN deps[c] : deps[c][i] \in Nodes
    BY DEF ScheduleTypeOK
  <1>2. {i \in DOMAIN deps'[c] : phase'[deps'[c][i]] \notin Ended}
          = {i \in DOMAIN deps[c] : phase[deps[c][i]] \notin Ended}
    BY <1>1
  <1> QED BY <1>2 DEF Outstanding

\* When a task ends its children have as many fewer outstanding as they name it.
LEMMA CountsDrop ==
    ASSUME ScheduleTypeOK, deps' = deps, NEW n \in Nodes, phase[n] \notin Ended,
           NEW as \in Ended, phase' = [phase EXCEPT ![n] = as]
    PROVE  \A c \in Nodes : Outstanding(c)' = Outstanding(c) - Times(n, deps[c])
  <1> SUFFICES ASSUME NEW c \in Nodes PROVE Outstanding(c)' = Outstanding(c) - Times(n, deps[c])
    OBVIOUS
  <1> DEFINE Open == {i \in DOMAIN deps[c] : phase[deps[c][i]] \notin Ended}
             Named == {i \in DOMAIN deps[c] : deps[c][i] = n}
  <1>1. deps[c] \in Seq(Nodes) /\ \A i \in DOMAIN deps[c] : deps[c][i] \in Nodes
    BY DEF ScheduleTypeOK
  <1>2. \A d \in Nodes : phase'[d] = IF d = n THEN as ELSE phase[d]
    BY DEF ScheduleTypeOK
  <1>3. {i \in DOMAIN deps'[c] : phase'[deps'[c][i]] \notin Ended} = Open \ Named
    BY <1>1, <1>2
  <1>4. Open \cap Named = Named
    <2>1. Named \subseteq Open
      BY <1>1
    <2> QED BY <2>1
  <1>5. IsFiniteSet(Open)
    <2>1. DOMAIN deps[c] = 1..Len(deps[c]) /\ Len(deps[c]) \in Nat
      BY <1>1
    <2>2. IsFiniteSet(DOMAIN deps[c])
      BY <2>1, FS_Interval
    <2> QED BY <2>2, FS_Subset
  <1>6. Cardinality(Open \ Named) = Cardinality(Open) - Cardinality(Named)
    <2> HIDE DEF Open, Named
    <2> QED BY <1>4, <1>5, FS_Difference, ZenonT(60)
  <1> QED BY <1>3, <1>6 DEF Outstanding, Times

-----------------------------------------------------------------------------
(* The steps of the scheduler.                                               *)

LEMMA InitSchedule == Init => ScheduleInv /\ Order!Init
  <1> SUFFICES ASSUME Init PROVE ScheduleInv /\ Order!Init
    OBVIOUS
  <1>1. /\ deps = [n \in Nodes |-> <<>>] /\ remainingDeps = [n \in Nodes |-> 0]
        /\ ready = <<>> /\ queued = <<>> /\ phase = [n \in Nodes |-> "pending"]
    BY DEF Init, SchedulerInit, NoTasks
  <1>2. ScheduleTypeOK
    BY <1>1 DEF ScheduleTypeOK, Phases
  <1>3. ToSet(<<>>) = {} /\ IsInjective(<<>>)
    BY DEF ToSet, IsInjective
  <1>4. ScheduleInv
    BY <1>1, <1>2, <1>3 DEF ScheduleInv
  <1>5. \A n \in Nodes : Outstanding(n) = 0
    <2> SUFFICES ASSUME NEW n \in Nodes PROVE Outstanding(n) = 0
      OBVIOUS
    <2>1. {i \in DOMAIN deps[n] : phase[deps[n][i]] \notin Ended} = {}
      BY <1>1
    <2> QED BY <2>1, FS_EmptySet DEF Outstanding
  <1>6. Released = {}
    BY <1>1, <1>5 DEF Released
  <1>7. DependsOn = [n \in Nodes |-> {}] /\ TaskState = [n \in Nodes |-> "waiting"]
    BY <1>1, <1>3 DEF DependsOn, TaskState
  <1> QED BY <1>4, <1>6, <1>7 DEF Order!Init, Order!NoPlan, Order!Fresh

LEMMA SameSchedule ==
    ASSUME ScheduleInv, UNCHANGED scheduler
    PROVE  ScheduleInv' /\ UNCHANGED Order!vars
  <1>1. UNCHANGED <<deps, remainingDeps, ready, queued, phase>>
    BY DEF scheduler
  <1>2. ScheduleTypeOK'
    BY <1>1 DEF ScheduleInv, ScheduleTypeOK
  <1>3. \A n \in Nodes : Outstanding(n)' = Outstanding(n)
    BY <1>1, CountsStay DEF ScheduleInv
  <1>4. ScheduleInv'
    BY <1>1, <1>2, <1>3 DEF ScheduleInv
  <1>5. UNCHANGED <<DependsOn, TaskState, Released>>
    BY <1>1, <1>3 DEF DependsOn, TaskState, Released
  <1> QED BY <1>4, <1>5 DEF Order!vars

\* A new plan: what waits for nothing is ready.
LEMMA LoadStep ==
    ASSUME NEW p \in Plans, Load(p)
    PROVE  ScheduleInv' /\ Order!NewPlan
  <1> DEFINE S == {n \in Nodes : p[n] = <<>>}
  <1>1. p \in [Nodes -> Seq(Nodes)]
    BY PlansAssumption
  <1>2. /\ deps' = p /\ remainingDeps' = [n \in Nodes |-> Len(p[n])]
        /\ ready' = InOrder(S) /\ queued' = <<>> /\ phase' = [n \in Nodes |-> "pending"]
    BY DEF Load
  <1>3. ready' \in Seq(S) /\ IsInjective(ready') /\ ToSet(ready') = S
    BY <1>2, InOrderLists
  <1>4. ToSet(<<>>) = {} /\ IsInjective(<<>>)
    BY DEF ToSet, IsInjective
  <1>5. \A n \in Nodes : Len(p[n]) \in Nat /\ Outstanding(n)' = Len(p[n])
    <2> SUFFICES ASSUME NEW n \in Nodes PROVE Len(p[n]) \in Nat /\ Outstanding(n)' = Len(p[n])
      OBVIOUS
    <2>1. p[n] \in Seq(Nodes) /\ Len(p[n]) \in Nat /\ DOMAIN p[n] = 1..Len(p[n])
      BY <1>1
    <2>2. {i \in DOMAIN deps'[n] : phase'[deps'[n][i]] \notin Ended} = 1..Len(p[n])
      BY <1>2, <2>1 DEF Ended
    <2>3. Cardinality(1..Len(p[n])) = Len(p[n])
      BY <2>1, FS_Interval
    <2> QED BY <2>1, <2>2, <2>3 DEF Outstanding
  <1>6. ScheduleTypeOK'
    <2>1. ready' \in Seq(Nodes)
      BY <1>3
    <2>2. remainingDeps' \in [Nodes -> Int]
      BY <1>2, <1>5
    <2> QED BY <1>1, <1>2, <2>1, <2>2 DEF ScheduleTypeOK, Phases
  <1>7. \A n \in S : remainingDeps'[n] <= 0
    BY <1>2
  <1>8. ScheduleInv'
    BY <1>2, <1>3, <1>4, <1>5, <1>6, <1>7 DEF ScheduleInv
  <1>9. DependsOn' \in [Nodes -> SUBSET Nodes]
    <2>1. \A n \in Nodes : ToSet(deps'[n]) \subseteq Nodes
      BY <1>1, <1>2 DEF ToSet
    <2> QED BY <2>1 DEF DependsOn
  <1>10. TaskState' = [n \in Nodes |-> "waiting"]
    BY <1>2 DEF TaskState
  <1>11. Released' = {}
    BY <1>2, <1>5 DEF Released
  <1> QED BY <1>8, <1>9, <1>10, <1>11 DEF Order!NewPlan

LEMMA LaunchStep ==
    ASSUME ScheduleInv, Launch
    PROVE  ScheduleInv' /\ UNCHANGED Order!vars
  <1> DEFINE n == Head(ready)
  <1>1. /\ ready # <<>> /\ ready' = Tail(ready) /\ queued' = Append(queued, n)
        /\ UNCHANGED <<deps, remainingDeps, phase>>
    BY DEF Launch
  <1>2. /\ ready \in Seq(Nodes) /\ queued \in Seq(Nodes) /\ IsInjective(ready) /\ IsInjective(queued)
        /\ ToSet(ready) \cap ToSet(queued) = {}
    BY DEF ScheduleInv, ScheduleTypeOK
  <1>3. /\ n \in Nodes /\ n \in ToSet(ready) /\ ready' \in Seq(Nodes) /\ IsInjective(ready')
        /\ ToSet(ready') \subseteq ToSet(ready) /\ n \notin ToSet(ready')
    BY <1>1, <1>2, TakeFirst
  <1>4. <<n>> \in Seq(Nodes) /\ IsInjective(<<n>>) /\ ToSet(<<n>>) = {n}
    BY <1>3, One
  <1>5. queued' = queued \o <<n>>
    BY <1>1, <1>2, <1>3
  <1>6. ToSet(queued) \cap ToSet(<<n>>) = {}
    BY <1>2, <1>3, <1>4
  <1>7. /\ queued' \in Seq(Nodes) /\ IsInjective(queued') /\ ToSet(queued') = ToSet(queued) \cup {n}
    BY <1>2, <1>4, <1>5, <1>6, AddLast
  <1>8. ScheduleTypeOK'
    BY <1>1, <1>3, <1>7 DEF ScheduleInv, ScheduleTypeOK
  <1>9. \A c \in Nodes : Outstanding(c)' = Outstanding(c)
    BY <1>1, CountsStay DEF ScheduleInv
  <1>10. ScheduleInv'
    <2> HIDE DEF n
    <2> QED BY <1>1, <1>2, <1>3, <1>7, <1>8, <1>9 DEF ScheduleInv
  <1>11. UNCHANGED <<DependsOn, TaskState, Released>>
    BY <1>1, <1>9 DEF DependsOn, TaskState, Released
  <1> QED BY <1>10, <1>11 DEF Order!vars

\* A stall gives up on the dependencies of those that wait, and of no others.
LEMMA StallStep ==
    ASSUME ScheduleInv, Stall
    PROVE  ScheduleInv' /\ Order!GiveUp
  <1> DEFINE S == {n \in Nodes : remainingDeps[n] > 0}
  <1>1. /\ ready = <<>> /\ ready' = InOrder(S)
        /\ remainingDeps' = [n \in Nodes |-> IF remainingDeps[n] > 0 THEN 0 ELSE remainingDeps[n]]
        /\ UNCHANGED <<deps, queued, phase>>
    BY DEF Stall
  <1>2. ready' \in Seq(S) /\ IsInjective(ready') /\ ToSet(ready') = S
    BY <1>1, InOrderLists
  <1>3. \A n \in Nodes : remainingDeps[n] \in Int
    BY DEF ScheduleInv, ScheduleTypeOK
  <1>4. \A n \in Nodes : remainingDeps'[n] <= 0 /\ (n \notin S => remainingDeps'[n] = remainingDeps[n])
                         /\ (n \in S => remainingDeps'[n] = 0)
    BY <1>1, <1>3
  <1>5. ScheduleTypeOK'
    <2>1. ready' \in Seq(Nodes)
      BY <1>2
    <2>2. remainingDeps' \in [Nodes -> Int]
      BY <1>1, <1>3
    <2> QED BY <1>1, <2>1, <2>2 DEF ScheduleInv, ScheduleTypeOK
  <1>6. \A c \in Nodes : Outstanding(c)' = Outstanding(c)
    BY <1>1, CountsStay DEF ScheduleInv
  <1>7. \A n \in S : phase[n] = "pending" /\ remainingDeps[n] = Outstanding(n) /\ n \notin ToSet(queued)
    BY <1>3 DEF ScheduleInv
  <1>8. ToSet(queued) \subseteq Nodes
    BY DEF ScheduleInv, ScheduleTypeOK, ToSet
  <1>9. ScheduleInv'
    <2>1. \A n \in Nodes : ~(remainingDeps'[n] > 0)
      BY <1>4, <1>5 DEF ScheduleTypeOK
    <2>2. \A n \in ToSet(ready') \cup ToSet(queued') : phase'[n] = "pending" /\ remainingDeps'[n] <= 0
      BY <1>1, <1>2, <1>4, <1>7, <1>8 DEF ScheduleInv
    <2>3. ToSet(ready') \cap ToSet(queued') = {}
      BY <1>1, <1>2, <1>7
    <2> QED BY <1>1, <1>2, <1>5, <2>1, <2>2, <2>3 DEF ScheduleInv
  <1>10. UNCHANGED <<DependsOn, TaskState>>
    BY <1>1 DEF DependsOn, TaskState
  <1>11. S \in SUBSET {n \in Nodes : TaskState[n] = "waiting"}
    BY <1>7 DEF TaskState
  <1>12. Released' = Released \cup S
    BY <1>1, <1>4, <1>6, <1>7 DEF Released
  <1> QED BY <1>9, <1>10, <1>11, <1>12 DEF Order!GiveUp

\* A task whose runner gets a slot has nothing left to wait for, or was let go.
LEMMA AcquireStep ==
    ASSUME ScheduleInv, Acquire
    PROVE  ScheduleInv' /\ \E n \in Nodes : Order!Start(n)
  <1> DEFINE n == Head(queued)
  <1>1. /\ queued # <<>> /\ queued' = Tail(queued) /\ phase' = [phase EXCEPT ![n] = "tool"]
        /\ UNCHANGED <<deps, remainingDeps, ready>>
    BY DEF Acquire
  <1>2. queued \in Seq(Nodes) /\ IsInjective(queued)
    BY DEF ScheduleInv, ScheduleTypeOK
  <1>3. /\ n \in Nodes /\ n \in ToSet(queued) /\ queued' \in Seq(Nodes) /\ IsInjective(queued')
        /\ ToSet(queued') \subseteq ToSet(queued) /\ n \notin ToSet(queued')
    BY <1>1, <1>2, TakeFirst
  <1> HIDE DEF n
  <1>4. phase[n] = "pending" /\ remainingDeps[n] <= 0 /\ n \notin ToSet(ready)
    BY <1>3 DEF ScheduleInv
  <1>5. \A c \in Nodes : phase'[c] = IF c = n THEN "tool" ELSE phase[c]
    BY <1>1 DEF ScheduleInv, ScheduleTypeOK
  <1>6. ScheduleTypeOK'
    BY <1>1, <1>3 DEF ScheduleInv, ScheduleTypeOK, Phases
  <1>7. \A c \in Nodes : Outstanding(c)' = Outstanding(c)
    <2>1. \A c \in Nodes : phase'[c] \in Ended <=> phase[c] \in Ended
      BY <1>4, <1>5 DEF Ended
    <2> QED BY <1>1, <2>1, CountsStay DEF ScheduleInv
  <1>8. remainingDeps[n] \in Int
    BY <1>3 DEF ScheduleInv, ScheduleTypeOK
  <1>9. ScheduleInv'
    <2>1. ToSet(ready) \subseteq Nodes /\ ToSet(queued) \subseteq Nodes
      BY DEF ScheduleInv, ScheduleTypeOK, ToSet
    <2>2. \A c \in Nodes : remainingDeps'[c] > 0 => phase'[c] = "pending" /\ remainingDeps'[c] = Outstanding(c)'
      BY <1>1, <1>4, <1>5, <1>7, <1>8 DEF ScheduleInv
    <2>3. \A c \in ToSet(ready') \cup ToSet(queued') : phase'[c] = "pending" /\ remainingDeps'[c] <= 0
      BY <1>1, <1>3, <1>4, <1>5, <2>1 DEF ScheduleInv
    <2> QED BY <1>1, <1>3, <1>6, <2>2, <2>3 DEF ScheduleInv
  <1>10. UNCHANGED <<DependsOn, Released>>
    BY <1>1, <1>7 DEF DependsOn, Released
  <1>11. TaskState[n] = "waiting" /\ TaskState' = [TaskState EXCEPT ![n] = "started"]
    BY <1>3, <1>4, <1>5 DEF TaskState
  <1>12. n \in Released \/ \A d \in DependsOn[n] : TaskState[d] = "ended"
    <2> SUFFICES ASSUME remainingDeps[n] = Outstanding(n) PROVE \A d \in DependsOn[n] : TaskState[d] = "ended"
      BY <1>3 DEF Released
    <2>1. Outstanding(n) = 0
      BY <1>3, <1>4, Counts DEF ScheduleInv
    <2>2. \A d \in ToSet(deps[n]) : phase[d] \in Ended
      BY <1>3, <2>1, Counts DEF ScheduleInv
    <2>3. ToSet(deps[n]) \subseteq Nodes
      BY <1>3 DEF ScheduleInv, ScheduleTypeOK, ToSet
    <2>4. \A d \in ToSet(deps[n]) : TaskState[d] = "ended"
      BY <2>2, <2>3 DEF TaskState, Ended
    <2> QED BY <1>3, <2>4 DEF DependsOn
  <1> QED BY <1>3, <1>9, <1>10, <1>11, <1>12 DEF Order!Start

\* A task that ends lowers the counters of its children by what was outstanding of it.
LEMMA DoneStep ==
    ASSUME ScheduleInv, NEW n \in Nodes, phase[n] \in {"tool", "summary"}, NEW as \in Ended, Done(n, as)
    PROVE  ScheduleInv' /\ Order!Finish(n)
  <1> DEFINE S == {c \in Nodes : remainingDeps[c] > 0 /\ remainingDeps[c] - Times(n, deps[c]) = 0}
  <1>1. /\ remainingDeps' = [c \in Nodes |-> remainingDeps[c] - Times(n, deps[c])]
        /\ ready' = ready \o InOrder(S) /\ phase' = [phase EXCEPT ![n] = as]
        /\ UNCHANGED <<deps, queued>>
    BY DEF Done
  <1>2. ScheduleTypeOK /\ phase[n] \notin Ended
    BY DEF ScheduleInv, Ended
  <1>3. \A c \in Nodes : Times(n, deps[c]) \in Nat /\ remainingDeps[c] \in Int
    BY <1>2, Counts DEF ScheduleTypeOK
  <1>4. \A c \in Nodes : Outstanding(c) \in Nat /\ Outstanding(c)' = Outstanding(c) - Times(n, deps[c])
    BY <1>1, <1>2, Counts, CountsDrop
  <1>5. InOrder(S) \in Seq(S) /\ IsInjective(InOrder(S)) /\ ToSet(InOrder(S)) = S
    BY InOrderLists
  <1>6. ToSet(ready) \subseteq Nodes /\ ToSet(queued) \subseteq Nodes
    BY <1>2 DEF ScheduleTypeOK, ToSet
  <1>7. \A c \in S : c \in Nodes /\ remainingDeps[c] > 0 /\ remainingDeps'[c] = 0
    BY <1>1
  <1>8. \A c \in ToSet(ready) \cup ToSet(queued) : phase[c] = "pending" /\ remainingDeps[c] <= 0
    BY DEF ScheduleInv
  <1>9. S \cap (ToSet(ready) \cup ToSet(queued)) = {}
    BY <1>3, <1>6, <1>7, <1>8
  <1>10. \A c \in S : phase[c] = "pending"
    BY <1>7 DEF ScheduleInv
  <1>11. \A c \in Nodes : phase'[c] = IF c = n THEN as ELSE phase[c]
    BY <1>1, <1>2 DEF ScheduleTypeOK
  <1>12. InOrder(S) \in Seq(Nodes)
    BY <1>5
  <1>13. \A c \in Nodes : remainingDeps'[c] = remainingDeps[c] - Times(n, deps[c])
    BY <1>1
  <1> HIDE DEF S
  <1>14. ready' \in Seq(Nodes) /\ IsInjective(ready') /\ ToSet(ready') = ToSet(ready) \cup S
    BY <1>1, <1>2, <1>5, <1>9, <1>12, AddLast DEF ScheduleInv, ScheduleTypeOK
  <1>15. ScheduleTypeOK'
    <2>1. remainingDeps' \in [Nodes -> Int]
      BY <1>1, <1>3
    <2>2. phase' \in [Nodes -> Phases]
      BY <1>1, <1>2 DEF ScheduleTypeOK, Phases
    <2> QED BY <1>1, <1>2, <1>14, <2>1, <2>2 DEF ScheduleTypeOK
  <1>16. ScheduleInv'
    <2>1. \A c \in Nodes : remainingDeps'[c] > 0 => phase'[c] = "pending" /\ remainingDeps'[c] = Outstanding(c)'
      <3> SUFFICES ASSUME NEW c \in Nodes, remainingDeps'[c] > 0
                   PROVE  phase'[c] = "pending" /\ remainingDeps'[c] = Outstanding(c)'
        OBVIOUS
      <3>1. remainingDeps[c] > 0
        BY <1>3, <1>13
      <3>2. phase[c] = "pending" /\ remainingDeps[c] = Outstanding(c)
        BY <3>1 DEF ScheduleInv
      <3> QED BY <1>4, <1>11, <1>13, <3>2
    <2>2. \A c \in ToSet(ready') \cup ToSet(queued') : phase'[c] = "pending" /\ remainingDeps'[c] <= 0
      <3> SUFFICES ASSUME NEW c \in ToSet(ready) \cup S \cup ToSet(queued)
                   PROVE  phase'[c] = "pending" /\ remainingDeps'[c] <= 0
        BY <1>1, <1>14
      <3>1. c \in Nodes /\ phase[c] = "pending" /\ c # n
        BY <1>6, <1>7, <1>8, <1>10
      <3>2. remainingDeps'[c] <= 0
        <4>1. CASE c \in S
          BY <1>7, <4>1
        <4>2. CASE c \notin S
          BY <1>3, <1>8, <1>13, <3>1, <4>2
        <4> QED BY <4>1, <4>2
      <3> QED BY <1>11, <3>1, <3>2
    <2>3. ToSet(ready') \cap ToSet(queued') = {}
      BY <1>1, <1>9, <1>14 DEF ScheduleInv
    <2> QED BY <1>1, <1>14, <1>15, <2>1, <2>2, <2>3 DEF ScheduleInv
  <1>17. Released' = Released
    BY <1>3, <1>4, <1>13 DEF Released
  <1>18. DependsOn' = DependsOn
    BY <1>1 DEF DependsOn
  <1>19. TaskState[n] = "started" /\ TaskState' = [TaskState EXCEPT ![n] = "ended"]
    BY <1>11 DEF TaskState, Ended
  <1> QED BY <1>16, <1>17, <1>18, <1>19 DEF Order!Finish

\* A task that goes on to its summary, or breaks, tells nobody.
LEMMA QuietStep ==
    ASSUME ScheduleInv, NEW n \in Nodes, phase[n] = "tool", NEW as \in {"summary", "raised"},
           phase' = [phase EXCEPT ![n] = as], UNCHANGED <<deps, remainingDeps, ready, queued>>
    PROVE  /\ ScheduleInv'
           /\ as = "raised" => Order!Finish(n)
           /\ as = "summary" => UNCHANGED Order!vars
  <1>1. \A c \in Nodes : phase'[c] = IF c = n THEN as ELSE phase[c]
    BY DEF ScheduleInv, ScheduleTypeOK
  <1>2. \A c \in Nodes : Outstanding(c)' = Outstanding(c)
    <2>1. \A c \in Nodes : phase'[c] \in Ended <=> phase[c] \in Ended
      BY <1>1 DEF Ended
    <2> QED BY <2>1, CountsStay DEF ScheduleInv
  <1>3. ScheduleTypeOK'
    BY DEF ScheduleInv, ScheduleTypeOK, Phases
  <1>4. ScheduleInv'
    <2>1. ToSet(ready) \subseteq Nodes /\ ToSet(queued) \subseteq Nodes
      BY DEF ScheduleInv, ScheduleTypeOK, ToSet
    <2> QED BY <1>1, <1>2, <1>3, <2>1 DEF ScheduleInv
  <1>5. UNCHANGED <<DependsOn, Released>>
    BY <1>2 DEF DependsOn, Released
  <1>6. as = "summary" => UNCHANGED TaskState
    BY <1>1 DEF TaskState
  <1>7. as = "raised" => TaskState[n] = "started" /\ TaskState' = [TaskState EXCEPT ![n] = "broken"]
    BY <1>1 DEF TaskState
  <1> QED BY <1>4, <1>5, <1>6, <1>7 DEF Order!Finish, Order!vars

-----------------------------------------------------------------------------
(* The run.                                                                  *)

\* A step of a run is a step of the order of tasks, or none.
LEMMA RunStep == ScheduleInv /\ [Next]_vars => ScheduleInv' /\ [Order!Next]_Order!vars
  <1> SUFFICES ASSUME ScheduleInv, [Next]_vars PROVE ScheduleInv' /\ [Order!Next]_Order!vars
    OBVIOUS
  <1>1. CASE UNCHANGED scheduler
    BY <1>1, SameSchedule
  <1>2. CASE MainLoop
    BY <1>2, LaunchStep, StallStep DEF MainLoop, Order!Next
  <1>3. CASE Slots
    BY <1>3, AcquireStep DEF Slots, Order!Next
  <1>4. CASE Stages
    <2>1. CASE PlanReady
      BY <2>1, LoadStep DEF PlanReady, Order!Next
    <2> QED BY <1>1, <1>4, <2>1 DEF Stages, StageFails, ExecuteEnds, Compose, RunDone
  <1>5. CASE User
    BY <1>1, <1>5 DEF User, OnSubmit, StopRun, StreamBreaks, RestoreSnapshot
  <1>6. ASSUME NEW n \in Nodes, TaskStep(n) PROVE ScheduleInv' /\ [Order!Next]_Order!vars
    <2>1. ASSUME NEW as \in Ended, phase[n] \in {"tool", "summary"}, Done(n, as)
          PROVE  ScheduleInv' /\ [Order!Next]_Order!vars
      BY <2>1, DoneStep DEF Order!Next
    <2>2. CASE phase[n] = "tool" /\ Raise(n)
      <3>1. ScheduleInv' /\ Order!Finish(n)
        BY <2>2, QuietStep DEF Raise
      <3> QED BY <3>1 DEF Order!Next
    <2>3. CASE /\ phase[n] = "tool" /\ phase' = [phase EXCEPT ![n] = "summary"]
               /\ UNCHANGED <<deps, remainingDeps, ready, pending, queued>>
      BY <2>3, QuietStep
    <2>4. CASE RunTool(n)
      BY <2>1, <2>2, <2>3, <2>4 DEF RunTool, Ended
    <2>5. CASE Summarize(n)
      BY <2>1, <2>5 DEF Summarize, Ended
    <2> QED BY <1>6, <2>4, <2>5 DEF TaskStep
  <1>7. CASE UNCHANGED vars
    BY <1>1, <1>7 DEF vars, scheduler
  <1> QED BY <1>2, <1>3, <1>4, <1>5, <1>6, <1>7 DEF Next

\* The counters of the scheduler are what they should be, and no task is launched twice.
THEOREM ScheduleCorrect == Spec => []ScheduleInv
  BY InitSchedule, RunStep, PTL DEF Spec

\* The pipeline implements the order of tasks: a task is taken up at most once, and after
\* the tasks it depends on have ended, unless a stall has let it go.
THEOREM ImplementsOrder == Spec => KeepsOrder
  BY InitSchedule, RunStep, PTL DEF Spec, KeepsOrder, Order!Spec
=============================================================================
