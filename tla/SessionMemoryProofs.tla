------------------------ MODULE SessionMemoryProofs ------------------------
(***************************************************************************)
(* Proofs about the index of transcripts, for any number of sessions and   *)
(* of overlapping runs, any bounds, rewrites, rebuilds, prunes and deaths. *)
(***************************************************************************)
EXTENDS SessionMemory, FiniteSetTheorems, WellFoundedInduction, TLAPS

-----------------------------------------------------------------------------
(* Numbers.                                                                  *)

\* Every set of numbers has a least one.
LEMMA LeastNumber ==
    ASSUME NEW T \in SUBSET Nat, T # {}
    PROVE  \E x \in T : \A y \in T : x <= y
  <1> DEFINE R == {ss \in Nat \X Nat : ss[1] < ss[2]}
  <1>1. IsWellFoundedOn(R, Nat)
    BY NatLessThanWellFounded DEF OpToRel
  <1>2. PICK x \in T : \A y \in T : ~ (<<y, x>> \in R)
    <2> HIDE DEF R
    <2> QED BY <1>1, WFMin
  <1>3. ASSUME NEW y \in T PROVE x <= y
    <2>1. <<y, x>> \in Nat \X Nat /\ <<y, x>>[1] = y /\ <<y, x>>[2] = x
      BY <1>3
    <2>2. ~(y < x)
      BY <1>2, <1>3, <2>1
    <2> QED BY <2>1, <2>2
  <1> QED BY <1>3

\* A set of numbers below a bound has a greatest one.
LEMMA GreatestNumber ==
    ASSUME NEW m \in Nat, NEW T \in SUBSET (0 .. m), T # {}
    PROVE  \E x \in T : \A y \in T : y <= x
  <1> DEFINE D == {m - x : x \in T}
  <1>0. PICK z \in T : TRUE
    OBVIOUS
  <1>1. D \in SUBSET Nat /\ m - z \in D
    BY <1>0
  <1>2. PICK d \in D : \A y \in D : d <= y
    <2> HIDE DEF D
    <2> QED BY <1>1, LeastNumber
  <1>3. PICK x \in T : d = m - x
    OBVIOUS
  <1>4. ASSUME NEW y \in T PROVE y <= x
    <2>1. m - y \in D
      OBVIOUS
    <2>2. m - x <= m - y /\ x \in 0 .. m /\ y \in 0 .. m
      BY <1>2, <1>3, <2>1
    <2> QED BY <2>2
  <1> QED BY <1>4

\* Numbers below a bound are finitely many.
LEMMA BoundedCount ==
    ASSUME NEW m \in Nat, NEW T \in SUBSET (0 .. m)
    PROVE  IsFiniteSet(T) /\ Cardinality(T) \in Nat /\ Cardinality(T) \in 0 .. m + 1
  <1>1. IsFiniteSet(0 .. m) /\ Cardinality(0 .. m) = m + 1
    <2>1. 0 \in Int /\ m \in Int /\ ~(0 > m)
      OBVIOUS
    <2> QED BY <2>1, FS_Interval
  <1>2. IsFiniteSet(T) /\ Cardinality(T) <= Cardinality(0 .. m)
    BY <1>1, FS_Subset
  <1>3. Cardinality(T) \in Nat
    BY <1>2, FS_CardinalityType
  <1> QED BY <1>1, <1>2, <1>3

-----------------------------------------------------------------------------
(* Transcripts.                                                              *)

Row == [gen : Nat, size : Nat, lines : Nat, turns : Nat]
Chunk == [turn : Nat, user : Nat, text : Nat, gen : Nat, part : Nat]
Transcript == [lines : Seq(Kinds), half : BOOLEAN, gen : Nat]

\* The whole lines are the first ones, all but perhaps the last.
LEMMA WholeLines ==
    ASSUME NEW t \in Transcript
    PROVE  /\ Len(t.lines) \in Nat /\ Whole(t) \subseteq 1 .. Len(t.lines)
           /\ \A q \in Whole(t) : 1 .. q \subseteq Whole(t)
           /\ \A p \in Whole(t) : t.lines[p] \in Kinds
  BY DEF Transcript, Whole

\* The lines that open a turn of the whole transcript, and how many have opened one up to a line.
Opens(t) == {p \in Whole(t) : t.lines[p] # "asst" \/ p = 1}
Upto(t, q) == Cardinality({o \in Opens(t) : o <= q})

\* The lines that open a turn, up to any line, are finitely many.
LEMMA UptoType ==
    ASSUME NEW t \in Transcript, NEW q \in Nat
    PROVE  /\ IsFiniteSet({o \in Opens(t) : o <= q}) /\ Upto(t, q) \in Nat
           /\ Upto(t, 0) = 0
           /\ 1 \in Whole(t) /\ q > 0 => Upto(t, q) > 0
  <1> DEFINE T(n) == {o \in Opens(t) : o <= n}
  <1>1. T(q) \subseteq 0 .. q /\ T(0) = {}
    BY WholeLines DEF Opens
  <1>2. IsFiniteSet(T(q)) /\ Cardinality(T(q)) \in Nat
    BY <1>1, BoundedCount
  <1>3. ASSUME 1 \in Whole(t), q > 0 PROVE Cardinality(T(q)) > 0
    <2>1. 1 \in T(q)
      BY <1>3 DEF Opens
    <2>2. Cardinality(T(q)) # 0
      BY <1>2, <2>1, FS_EmptySet
    <2> QED BY <1>2, <2>2
  <1> QED BY <1>1, <1>2, <1>3, FS_EmptySet DEF Upto

\* A transcript that only grows keeps its lines, and with them its turns.
Grown(t, u) ==
    /\ u.gen = t.gen /\ Size(u) >= Size(t) /\ Len(u.lines) >= Len(t.lines)
    /\ Whole(t) \subseteq Whole(u)
    /\ \A p \in Whole(t) : u.lines[p] = t.lines[p]

\* A transcript that grows opens no other turns in its whole lines.
LEMMA GrownUpto ==
    ASSUME NEW t \in Transcript, NEW u \in Transcript, Grown(t, u), NEW n \in Nat, 1 .. n \subseteq Whole(t)
    PROVE  Upto(u, n) = Upto(t, n)
  <1>1. ASSUME NEW o PROVE o \in Opens(u) /\ o <= n <=> o \in Opens(t) /\ o <= n
    <2>1. o \in Opens(u) \/ o \in Opens(t) => o \in Nat /\ o > 0
      BY WholeLines DEF Opens
    <2>2. o \in Nat /\ o > 0 /\ o <= n => o \in 1 .. n /\ o \in Whole(t) /\ o \in Whole(u) /\ u.lines[o] = t.lines[o]
      BY DEF Grown
    <2> QED BY <2>1, <2>2 DEF Opens
  <1>2. {o \in Opens(u) : o <= n} = {o \in Opens(t) : o <= n}
    BY <1>1
  <1> QED BY <1>2 DEF Upto

-----------------------------------------------------------------------------
(* Parsing.                                                                  *)

From(t, start) == {p \in Whole(t) : p > start}
OpensFrom(t, start) == {p \in From(t, start) : t.lines[p] # "asst" \/ p = start + 1}
TurnAt(t, start, turn, p) ==
    [idx |-> turn + Cardinality({q \in OpensFrom(t, start) : q < p}),
     user |-> IF t.lines[p] = "asst" THEN 0 ELSE p,
     texts |-> {q \in From(t, start) : /\ q >= p
                                       /\ t.lines[q] = "asst"
                                       /\ \A o \in OpensFrom(t, start) : o > p => q < o}]

\* The first line that is read opens a turn whatever it is.
LEMMA FirstLine ==
    ASSUME NEW t \in Transcript, NEW start \in Nat, From(t, start) # {}
    PROVE  start + 1 \in OpensFrom(t, start)
  <1>1. PICK q \in Whole(t) : q > start
    BY DEF From
  <1>2. q \in Nat /\ start + 1 \in 1 .. q
    BY <1>1, WholeLines
  <1>3. start + 1 \in Whole(t)
    BY <1>2, WholeLines
  <1> QED BY <1>3 DEF From, OpensFrom

\* A reading has one turn for each line that opens one in it.
LEMMA Parsed ==
    ASSUME NEW t \in Transcript, NEW start \in Nat, NEW turn
    PROVE  ParseTurns(t, start, turn) = {TurnAt(t, start, turn, p) : p \in OpensFrom(t, start)}
  <1>1. ASSUME NEW p \in From(t, start)
        PROVE  (\A q \in From(t, start) : q >= p) <=> p = start + 1
    <2>1. start + 1 \in From(t, start)
      BY <1>1, FirstLine DEF OpensFrom
    <2>2. \A q \in From(t, start) : q \in Nat /\ q >= start + 1
      BY WholeLines DEF From
    <2> QED BY <1>1, <2>1, <2>2
  <1>2. OpensFrom(t, start) =
            {p \in From(t, start) : t.lines[p] # "asst" \/ \A q \in From(t, start) : q >= p}
    BY <1>1 DEF OpensFrom
  <1> QED BY <1>2 DEF ParseTurns, TurnAt, From

\* A line that opens a turn has one in the reading.
LEMMA SomeTurn ==
    ASSUME NEW t \in Transcript, NEW start \in Nat, NEW turn, NEW p \in OpensFrom(t, start)
    PROVE  /\ TurnAt(t, start, turn, p) \in ParseTurns(t, start, turn)
           /\ ParseTurns(t, start, turn) # {}
  <1>1. ParseTurns(t, start, turn) = {TurnAt(t, start, turn, q) : q \in OpensFrom(t, start)}
    BY Parsed
  <1>2. TurnAt(t, start, turn, p) \in {TurnAt(t, start, turn, q) : q \in OpensFrom(t, start)}
    OBVIOUS
  <1> QED BY <1>1, <1>2

\* The turns opened before some line of those read are finitely many.
LEMMA OpensFinite ==
    ASSUME NEW t \in Transcript, NEW start \in Nat
    PROVE  /\ IsFiniteSet(OpensFrom(t, start))
           /\ \A q \in Nat : /\ IsFiniteSet({o \in OpensFrom(t, start) : o < q})
                             /\ Cardinality({o \in OpensFrom(t, start) : o < q}) \in Nat
                             /\ IsFiniteSet({o \in OpensFrom(t, start) : o <= q})
                             /\ Cardinality({o \in OpensFrom(t, start) : o <= q}) \in Nat
  <1>1. OpensFrom(t, start) \subseteq 0 .. Len(t.lines) /\ Len(t.lines) \in Nat
    BY WholeLines DEF OpensFrom, From
  <1>2. ASSUME NEW q \in Nat
        PROVE  /\ {o \in OpensFrom(t, start) : o < q} \subseteq 0 .. Len(t.lines)
               /\ {o \in OpensFrom(t, start) : o <= q} \subseteq 0 .. Len(t.lines)
    BY <1>1
  <1> QED BY <1>1, <1>2, BoundedCount

\* Between the line that opens a turn and a line of that turn no other one opens.
Belongs(t, start, p, q) ==
    /\ p \in OpensFrom(t, start) /\ q \in From(t, start) /\ q >= p
    /\ \A o \in OpensFrom(t, start) : o > p => q < o

\* Every line that is read belongs to a turn: it is its prompt or one of its texts.
LEMMA LineHasTurn ==
    ASSUME NEW t \in Transcript, NEW start \in Nat, NEW q \in From(t, start), NEW turn
    PROVE  \E p \in OpensFrom(t, start) :
              /\ Belongs(t, start, p, q)
              /\ \/ q = TurnAt(t, start, turn, p).user
                 \/ q \in TurnAt(t, start, turn, p).texts
  <1> DEFINE T == {o \in OpensFrom(t, start) : o <= q}
  <1>1. q \in Nat /\ q >= start + 1
    BY WholeLines DEF From
  <1>2. start + 1 \in T
    BY <1>1, FirstLine
  <1>3. T \subseteq 0 .. q
    BY <1>1, WholeLines DEF OpensFrom, From
  <1>4. PICK p \in T : \A o \in T : o <= p
    <2> HIDE DEF T
    <2> QED BY <1>1, <1>2, <1>3, GreatestNumber
  <1>5. \A o \in OpensFrom(t, start) : o \in Nat
    BY WholeLines DEF OpensFrom, From
  <1>6. Belongs(t, start, p, q)
    BY <1>1, <1>4, <1>5 DEF Belongs
  <1>7. CASE t.lines[q] = "asst"
    BY <1>6, <1>7 DEF Belongs, TurnAt
  <1>8. CASE t.lines[q] # "asst"
    <2>1. q \in T
      BY <1>1, <1>8 DEF OpensFrom
    <2>2. q = p
      BY <1>1, <1>4, <1>5, <2>1
    <2> QED BY <1>6, <1>8, <2>2 DEF TurnAt
  <1> QED BY <1>6, <1>7, <1>8

\* The lines of a turn belong to it.
LEMMA TurnLines ==
    ASSUME NEW t \in Transcript, NEW start \in Nat, NEW p \in OpensFrom(t, start), NEW turn
    PROVE  /\ Belongs(t, start, p, p)
           /\ TurnAt(t, start, turn, p).user \in {0, p}
           /\ TurnAt(t, start, turn, p).user = 0 <=> t.lines[p] = "asst"
           /\ t.lines[p] = "asst" => p \in TurnAt(t, start, turn, p).texts
           /\ \A q \in TurnAt(t, start, turn, p).texts : Belongs(t, start, p, q)
  <1>1. p \in From(t, start) /\ p \in Nat /\ p > 0
    BY WholeLines DEF OpensFrom, From
  <1>2. \A o \in OpensFrom(t, start) : o \in Nat
    BY WholeLines DEF OpensFrom, From
  <1> QED BY <1>1, <1>2 DEF TurnAt, Belongs

\* A line has behind it the turns opened before its own, and its own.
LEMMA OwnTurnLast ==
    ASSUME NEW t \in Transcript, NEW start \in Nat, NEW p, NEW q, Belongs(t, start, p, q)
    PROVE  Cardinality({o \in OpensFrom(t, start) : o <= q}) =
               Cardinality({o \in OpensFrom(t, start) : o < p}) + 1
  <1> DEFINE before == {o \in OpensFrom(t, start) : o < p}
  <1>1. \A o \in OpensFrom(t, start) \cup {p, q} : o \in Nat
    BY WholeLines DEF Belongs, OpensFrom, From
  <1>2. {o \in OpensFrom(t, start) : o <= q} = before \cup {p} /\ p \notin before
    BY <1>1 DEF Belongs
  <1>3. IsFiniteSet(before)
    BY <1>1, OpensFinite
  <1> QED BY <1>2, <1>3, FS_AddElement

\* Reading goes on in the middle of a turn when the next line opens none of the whole transcript.
Middle(t, start) == start > 0 /\ t.lines[start + 1] = "asst"

\* The turns opened up to a line are those before the reading and those in it; when the
\* reading begins in the middle of a turn, that turn is opened twice.
LEMMA Counting ==
    ASSUME NEW t \in Transcript, NEW start \in Nat, NEW q \in From(t, start)
    PROVE  Upto(t, q) + (IF Middle(t, start) THEN 1 ELSE 0) =
               Upto(t, start) + Cardinality({o \in OpensFrom(t, start) : o <= q})
  <1> DEFINE A == {o \in Opens(t) : o <= start}
             B == {o \in OpensFrom(t, start) : o <= q}
             C == {o \in Opens(t) : o <= q}
  <1>1. q \in Nat /\ q >= start + 1
    BY WholeLines DEF From
  <1>2. \A o \in Whole(t) : o \in Nat /\ o > 0
    BY WholeLines
  <1>3. start + 1 \in From(t, start) /\ start + 1 \in Whole(t) /\ start + 1 \in B
    BY <1>1, FirstLine DEF OpensFrom, From
  <1>4. IsFiniteSet(A) /\ IsFiniteSet(B) /\ IsFiniteSet(C) /\ Cardinality(A) \in Nat /\ Cardinality(B) \in Nat
        /\ Cardinality(C) \in Nat
    BY <1>1, UptoType, OpensFinite DEF Upto
  <1>5. A \cap B = {}
    BY <1>2 DEF Opens, OpensFrom, From
  <1>6. Cardinality(A \cup B) = Cardinality(A) + Cardinality(B)
    <2> HIDE DEF A, B
    <2>1. Cardinality(A \cap B) = 0
      BY <1>5, FS_EmptySet
    <2>2. Cardinality(A \cup B) = Cardinality(A) + Cardinality(B) - Cardinality(A \cap B)
      BY <1>4, FS_Union
    <2> QED BY <1>4, <2>1, <2>2
  <1>7. \A o : /\ o \in A <=> o \in Whole(t) /\ (t.lines[o] # "asst" \/ o = 1) /\ o <= start
               /\ o \in C <=> o \in Whole(t) /\ (t.lines[o] # "asst" \/ o = 1) /\ o <= q
               /\ o \in B <=> o \in Whole(t) /\ o > start /\ (t.lines[o] # "asst" \/ o = start + 1) /\ o <= q
    BY DEF Opens, OpensFrom, From
  <1>8. Upto(t, q) = Cardinality(C) /\ Upto(t, start) = Cardinality(A)
    BY DEF Upto
  <1> HIDE DEF A, B, C
  <1>9. CASE Middle(t, start)
    <2>1. start + 1 \notin C
      BY <1>7, <1>9 DEF Middle
    <2>2. A \cup B = C \cup {start + 1}
      <3>1. t.lines[start + 1] = "asst" /\ start > 0
        BY <1>9 DEF Middle
      <3>2. ASSUME NEW o \in Whole(t) PROVE o \in A \cup B <=> o \in C \cup {start + 1}
        <4>1. o \in Nat
          BY <1>2
        <4>2. /\ o \in A <=> (t.lines[o] # "asst" \/ o = 1) /\ o <= start
              /\ o \in C <=> (t.lines[o] # "asst" \/ o = 1) /\ o <= q
              /\ o \in B <=> o > start /\ (t.lines[o] # "asst" \/ o = start + 1) /\ o <= q
          BY <1>7
        <4>3. CASE o <= start
          BY <1>1, <4>1, <4>2, <4>3
        <4>4. CASE o = start + 1
          BY <1>1, <3>1, <4>1, <4>2, <4>4
        <4>5. CASE o > start /\ o # start + 1
          BY <1>1, <3>1, <4>1, <4>2, <4>5
        <4> QED BY <4>1, <4>3, <4>4, <4>5
      <3>3. A \subseteq Whole(t) /\ B \subseteq Whole(t) /\ C \subseteq Whole(t)
        BY <1>7
      <3> QED BY <1>3, <3>2, <3>3
    <2>3. Cardinality(C \cup {start + 1}) = Cardinality(C) + 1
      BY <1>4, <2>1, FS_AddElement
    <2>4. Cardinality(C) + 1 = Cardinality(A) + Cardinality(B)
      BY <1>6, <2>2, <2>3
    <2> QED BY <1>8, <1>9, <2>4 DEF B
  <1>10. CASE ~Middle(t, start)
    <2>1. A \cup B = C
      <3>1. start = 0 \/ t.lines[start + 1] # "asst"
        BY <1>10 DEF Middle
      <3>2. ASSUME NEW o \in Whole(t) PROVE o \in A \cup B <=> o \in C
        <4>1. o \in Nat
          BY <1>2
        <4>2. /\ o \in A <=> (t.lines[o] # "asst" \/ o = 1) /\ o <= start
              /\ o \in C <=> (t.lines[o] # "asst" \/ o = 1) /\ o <= q
              /\ o \in B <=> o > start /\ (t.lines[o] # "asst" \/ o = start + 1) /\ o <= q
          BY <1>7
        <4>3. CASE o <= start
          BY <1>1, <4>1, <4>2, <4>3
        <4>4. CASE o = start + 1
          BY <1>1, <3>1, <4>1, <4>2, <4>4
        <4>5. CASE o > start /\ o # start + 1
          BY <1>1, <3>1, <4>1, <4>2, <4>5
        <4> QED BY <4>1, <4>3, <4>4, <4>5
      <3>3. A \subseteq Whole(t) /\ B \subseteq Whole(t) /\ C \subseteq Whole(t)
        BY <1>7
      <3> QED BY <3>2, <3>3
    <2>2. Cardinality(C) = Cardinality(A) + Cardinality(B)
      BY <1>6, <2>1
    <2>3. Cardinality(C) + 0 = Cardinality(C)
      BY <1>4
    <2>4. Upto(t, start) + Cardinality({o \in OpensFrom(t, start) : o <= q}) = Cardinality(A) + Cardinality(B)
      BY <1>8 DEF B
    <2> QED BY <1>8, <1>10, <2>2, <2>3, <2>4
  <1> QED BY <1>9, <1>10

\* What parsing finds: numbers from that of the first turn on, lines of the transcript.
LEMMA TurnTypes ==
    ASSUME NEW t \in Transcript, NEW start \in Nat, NEW turn \in Nat, NEW p \in OpensFrom(t, start)
    PROVE  /\ TurnAt(t, start, turn, p).idx \in Nat /\ TurnAt(t, start, turn, p).idx >= turn
           /\ TurnAt(t, start, turn, p).user \in Nat
           /\ TurnAt(t, start, turn, p).texts \subseteq From(t, start)
           /\ IsFiniteSet(TurnAt(t, start, turn, p).texts)
           /\ \A q \in Nat : Cardinality({x \in TurnAt(t, start, turn, p).texts : x < q}) \in 0 .. Len(t.lines) + 1
  <1>1. p \in Nat /\ From(t, start) \subseteq 0 .. Len(t.lines) /\ Len(t.lines) \in Nat
    BY WholeLines DEF OpensFrom, From
  <1>2. Cardinality({q \in OpensFrom(t, start) : q < p}) \in Nat
    BY <1>1, OpensFinite
  <1>3. TurnAt(t, start, turn, p).texts \subseteq From(t, start)
    BY DEF TurnAt
  <1>4. IsFiniteSet(TurnAt(t, start, turn, p).texts)
    BY <1>1, <1>3, BoundedCount
  <1>5. ASSUME NEW q \in Nat
        PROVE  Cardinality({x \in TurnAt(t, start, turn, p).texts : x < q}) \in 0 .. Len(t.lines) + 1
    <2> DEFINE T == {x \in TurnAt(t, start, turn, p).texts : x < q}
    <2>1. T \subseteq 0 .. Len(t.lines)
      BY <1>1, <1>3
    <2> HIDE DEF T
    <2>2. Cardinality(T) \in 0 .. Len(t.lines) + 1
      BY <1>1, <2>1, BoundedCount
    <2> QED BY <2>2 DEF T
  <1>6. TurnAt(t, start, turn, p).idx = turn + Cardinality({q \in OpensFrom(t, start) : q < p})
        /\ TurnAt(t, start, turn, p).user \in {0, p}
    BY DEF TurnAt
  <1>7. TurnAt(t, start, turn, p).idx \in Nat /\ TurnAt(t, start, turn, p).idx >= turn
        /\ TurnAt(t, start, turn, p).user \in Nat
    BY <1>1, <1>2, <1>6
  <1> QED BY <1>3, <1>4, <1>5, <1>7

\* The first turn is the one that the first line opens.
LEMMA FirstTurnRead ==
    ASSUME NEW t \in Transcript, NEW start \in Nat, NEW turn \in Nat, ParseTurns(t, start, turn) # {}
    PROVE  /\ FirstTurn(ParseTurns(t, start, turn)) = TurnAt(t, start, turn, start + 1)
           /\ start + 1 \in OpensFrom(t, start)
           /\ TurnAt(t, start, turn, start + 1).idx = turn
  <1> DEFINE turns == ParseTurns(t, start, turn)
             x0 == TurnAt(t, start, turn, start + 1)
  <1>1. turns = {TurnAt(t, start, turn, p) : p \in OpensFrom(t, start)}
    BY Parsed
  <1>2. start + 1 \in OpensFrom(t, start)
    BY <1>1, FirstLine DEF OpensFrom
  <1>3. \A p \in OpensFrom(t, start) : p \in Nat /\ p >= start + 1
    BY WholeLines DEF OpensFrom, From
  <1>4. {q \in OpensFrom(t, start) : q < start + 1} = {}
    BY <1>3
  <1>5. x0.idx = turn
    <2>1. x0.idx = turn + Cardinality({q \in OpensFrom(t, start) : q < start + 1})
      BY DEF TurnAt
    <2> QED BY <1>4, <2>1, FS_EmptySet
  <1>6. \A y \in turns : y.idx \in Nat /\ y.idx >= turn
    BY <1>1, TurnTypes
  <1>7. x0 \in turns /\ \A y \in turns : x0.idx <= y.idx
    BY <1>1, <1>2, <1>5, <1>6
  <1>8. FirstTurn(turns) \in turns /\ \A y \in turns : FirstTurn(turns).idx <= y.idx
    <2> HIDE DEF turns, x0
    <2> QED BY <1>7 DEF FirstTurn
  <1>9. FirstTurn(turns).idx = turn
    BY <1>5, <1>6, <1>7, <1>8
  <1>10. PICK p \in OpensFrom(t, start) : FirstTurn(turns) = TurnAt(t, start, turn, p)
    BY <1>1, <1>8
  <1>11. Cardinality({q \in OpensFrom(t, start) : q < p}) = 0
    <2>1. Cardinality({q \in OpensFrom(t, start) : q < p}) \in Nat
      BY <1>3, OpensFinite
    <2>2. turn + Cardinality({q \in OpensFrom(t, start) : q < p}) = turn
      BY <1>9, <1>10 DEF TurnAt
    <2> QED BY <2>1, <2>2
  <1>12. {q \in OpensFrom(t, start) : q < p} = {}
    BY <1>3, <1>11, OpensFinite, FS_EmptySet
  <1>13. p = start + 1
    BY <1>2, <1>3, <1>12
  <1> QED BY <1>2, <1>5, <1>10, <1>13

\* As many turns are found as lines open one.
LEMMA TurnsCounted ==
    ASSUME NEW t \in Transcript, NEW start \in Nat, NEW turn \in Nat
    PROVE  /\ IsFiniteSet(ParseTurns(t, start, turn))
           /\ Cardinality(ParseTurns(t, start, turn)) = Cardinality(OpensFrom(t, start))
  <1> DEFINE O == OpensFrom(t, start)
             before(p) == {q \in O : q < p}
             f == [p \in O |-> TurnAt(t, start, turn, p)]
             turns == {TurnAt(t, start, turn, p) : p \in O}
  <1>1. IsFiniteSet(O) /\ \A p \in O : p \in Nat
    <2>1. IsFiniteSet(O)
      BY OpensFinite
    <2>2. \A p \in O : p \in Whole(t)
      BY DEF OpensFrom, From
    <2>3. \A p \in Whole(t) : p \in Nat
      BY WholeLines
    <2> HIDE DEF O
    <2> QED BY <2>1, <2>2, <2>3
  <1>2. ASSUME NEW p \in O, NEW q \in O, p < q PROVE f[p] # f[q]
    <2>1. IsFiniteSet(before(p)) /\ IsFiniteSet(before(q))
          /\ Cardinality(before(p)) \in Nat /\ Cardinality(before(q)) \in Nat
      BY <1>1, OpensFinite
    <2>2. before(p) \subseteq before(q) /\ p \in before(q) /\ p \notin before(p)
      BY <1>1, <1>2
    <2>3. Cardinality(before(p)) # Cardinality(before(q))
      <3> HIDE DEF before
      <3> QED BY <2>1, <2>2, FS_Subset
    <2>4. f[p].idx = turn + Cardinality(before(p)) /\ f[q].idx = turn + Cardinality(before(q))
      BY DEF TurnAt
    <2> QED BY <2>1, <2>3, <2>4
  <1>3. \A p, q \in O : f[p] = f[q] => p = q
    <2> HIDE DEF f, O
    <2>1. \A p, q \in O : p # q => p < q \/ q < p
      BY <1>1
    <2> QED BY <1>2, <2>1
  <1>4. f \in [O -> turns] /\ \A x \in turns : \E p \in O : f[p] = x
    OBVIOUS
  <1>5. f \in Bijection(O, turns)
    <2> HIDE DEF f, O, turns
    <2> QED BY <1>3, <1>4 DEF Bijection, Injection, Surjection, IsInjective
  <1>6. IsFiniteSet(turns) /\ Cardinality(turns) = Cardinality(O)
    <2> HIDE DEF f, O, turns
    <2> QED BY <1>1, <1>5, FS_Bijection DEF ExistsBijection
  <1>7. turns = ParseTurns(t, start, turn)
    BY Parsed
  <1> QED BY <1>6, <1>7

\* The count of turns after everything was read.
LEMMA CountedOn ==
    ASSUME NEW t \in Transcript, NEW start \in Nat, NEW turn \in Nat, start <= Len(t.lines),
           Whole(t) = 1 .. Len(t.lines), turn = Upto(t, start)
    PROVE  NextTurn(ParseTurns(t, start, turn), turn, From(t, start) # {} /\ Middle(t, start)) = Upto(t, Len(t.lines))
  <1> DEFINE n == Len(t.lines)
  <1>1. n \in Nat /\ turn \in Nat
    BY WholeLines
  <1>2. Cardinality(ParseTurns(t, start, turn)) = Cardinality(OpensFrom(t, start))
    BY TurnsCounted
  <1>3. CASE From(t, start) = {}
    <2>1. start = n
      <3>1. ASSUME start < n PROVE FALSE
        <4>1. n \in Whole(t)
          BY <1>1, <3>1
        <4> QED BY <1>3, <3>1, <4>1 DEF From
      <3> QED BY <1>1, <3>1
    <2>2. OpensFrom(t, start) = {}
      BY <1>3 DEF OpensFrom
    <2>3. Cardinality(OpensFrom(t, start)) = 0
      BY <2>2, FS_EmptySet
    <2> QED BY <1>1, <1>2, <1>3, <2>1, <2>3 DEF NextTurn
  <1>4. CASE From(t, start) # {}
    <2>1. n \in From(t, start)
      <3>1. PICK q \in From(t, start) : TRUE
        BY <1>4
      <3>2. q \in 1 .. n /\ q > start
        BY <3>1 DEF From
      <3> QED BY <1>1, <3>2 DEF From
    <2>2. {o \in OpensFrom(t, start) : o <= n} = OpensFrom(t, start)
      BY <1>1 DEF OpensFrom, From
    <2>3. Upto(t, n) + (IF Middle(t, start) THEN 1 ELSE 0) = turn + Cardinality(OpensFrom(t, start))
      BY <2>1, <2>2, Counting
    <2>4. Upto(t, n) \in Nat /\ Cardinality(OpensFrom(t, start)) \in Nat
      BY <1>1, UptoType, OpensFinite, FS_CardinalityType
    <2> QED BY <1>1, <1>2, <1>4, <2>3, <2>4 DEF NextTurn
  <1> QED BY <1>3, <1>4

-----------------------------------------------------------------------------
(* What a reading adds.                                                      *)

\* The parts of a set of chunks are bounded, so that one of them is the last.
PartsEnd(cs) == cs # {} => \E c \in cs : \A d \in cs : d.part <= c.part

\* A set of chunks with bounded parts ends, whichever of them is taken.
LEMMA BoundedParts ==
    ASSUME NEW cs \in SUBSET Chunk, NEW m \in Nat, \A c \in cs : c.part <= m
    PROVE  PartsEnd(cs)
  <1> DEFINE T == {c.part : c \in cs}
  <1>1. T \subseteq 0 .. m
    BY DEF Chunk
  <1>2. ASSUME cs # {} PROVE \E c \in cs : \A d \in cs : d.part <= c.part
    <2>1. T # {}
      BY <1>2
    <2>2. PICK x \in T : \A y \in T : y <= x
      <3> HIDE DEF T
      <3> QED BY <1>1, <2>1, GreatestNumber
    <2> QED BY <2>2
  <1> QED BY <1>2 DEF PartsEnd

\* So does each of its subsets, and LastPart is in it.
LEMMA PartsOfSome ==
    ASSUME NEW cs \in SUBSET Chunk, PartsEnd(cs), NEW ds \in SUBSET cs
    PROVE  /\ PartsEnd(ds)
           /\ ds # {} => LastPart(ds) \in ds
  <1>1. CASE ds = {}
    BY <1>1 DEF PartsEnd
  <1>2. CASE ds # {}
    <2>1. PICK c \in cs : \A d \in cs : d.part <= c.part
      BY <1>2 DEF PartsEnd
    <2>2. c.part \in Nat /\ \A d \in ds : d.part <= c.part
      BY <2>1 DEF Chunk
    <2>3. PartsEnd(ds)
      BY <2>2, BoundedParts
    <2>4. PICK x \in ds : \A d \in ds : d.part <= x.part
      BY <1>2, <2>3 DEF PartsEnd
    <2>5. \A d \in ds : x.part >= d.part
      BY <2>4 DEF Chunk
    <2>6. \E y \in ds : \A d \in ds : y.part >= d.part
      BY <2>5
    <2>7. LastPart(ds) \in ds
      BY <2>6 DEF LastPart
    <2> QED BY <2>3, <2>7
  <1> QED BY <1>1, <1>2

\* A turn as it is written: the number one less when the first is joined, and that one with the
\* prompt of the turn before.
PlacedAt(t, row, cs, p) ==
    LET x == TurnAt(t, row.lines, row.turns, p)
    IN  [idx |-> IF Joins(t, row, cs) THEN x.idx - 1 ELSE x.idx,
         user |-> IF Joins(t, row, cs) /\ p = row.lines + 1 THEN LastPart(TurnBefore(row, cs)).user
                  ELSE x.user,
         texts |-> x.texts]

\* A reading joins when it goes on from a turn and the first line it meets is a text.
LEMMA Joining ==
    ASSUME NEW t \in Transcript, NEW row \in Row, Ownerless(t, row)
    PROVE  /\ row.turns > 0 /\ row.lines + 1 \in OpensFrom(t, row.lines)
           /\ t.lines[row.lines + 1] = "asst"
           /\ FirstTurn(TurnsRead(t, row)) = TurnAt(t, row.lines, row.turns, row.lines + 1)
           /\ row.lines + 1 \in TurnAt(t, row.lines, row.turns, row.lines + 1).texts
  <1> DEFINE p == row.lines + 1
  <1>1. row.lines \in Nat /\ row.turns \in Nat
    BY DEF Row
  <1>2. ParseTurns(t, row.lines, row.turns) # {} /\ row.turns > 0
        /\ FirstTurn(ParseTurns(t, row.lines, row.turns)).user = 0
    BY DEF Ownerless, TurnsRead
  <1>3. /\ FirstTurn(ParseTurns(t, row.lines, row.turns)) = TurnAt(t, row.lines, row.turns, p)
        /\ p \in OpensFrom(t, row.lines)
    BY <1>1, <1>2, FirstTurnRead
  <1>4. t.lines[p] = "asst" /\ p \in TurnAt(t, row.lines, row.turns, p).texts
    BY <1>1, <1>2, <1>3, TurnLines
  <1> QED BY <1>2, <1>3, <1>4 DEF TurnsRead

\* The turns of a reading in their places: one for each line that opens one.
LEMMA PlacedTurns ==
    ASSUME NEW t \in Transcript, NEW row \in Row, NEW cs \in SUBSET Chunk
    PROVE  Placed(t, row, cs) = {PlacedAt(t, row, cs, p) : p \in OpensFrom(t, row.lines)}
  <1> DEFINE T(p) == TurnAt(t, row.lines, row.turns, p)
             u == LastPart(TurnBefore(row, cs)).user
             O == OpensFrom(t, row.lines)
  <1>1. row.lines \in Nat /\ row.turns \in Nat
    BY DEF Row
  <1>2. TurnsRead(t, row) = {T(p) : p \in O}
    BY <1>1, Parsed DEF TurnsRead
  <1>3. CASE ~Joins(t, row, cs)
    <2>1. \A p \in O : PlacedAt(t, row, cs, p) = T(p)
      BY <1>3 DEF PlacedAt, TurnAt
    <2>2. Placed(t, row, cs) = TurnsRead(t, row)
      BY <1>3 DEF Placed
    <2> QED BY <1>2, <2>1, <2>2
  <1>4. CASE Joins(t, row, cs)
    <2>1. FirstTurn(TurnsRead(t, row)) = T(row.lines + 1) /\ row.lines + 1 \in T(row.lines + 1).texts
      BY <1>4, Joining DEF Joins
    <2>2. ASSUME NEW p \in O PROVE T(p) = FirstTurn(TurnsRead(t, row)) <=> p = row.lines + 1
      <3>1. p \in Nat /\ p >= row.lines + 1
        BY <1>1, WholeLines DEF OpensFrom, From
      <3>2. \A q \in T(p).texts : q >= p
        BY DEF TurnAt
      <3>3. T(p) = T(row.lines + 1) => row.lines + 1 >= p
        BY <2>1, <3>2
      <3> QED BY <1>1, <2>1, <3>1, <3>3
    <2> DEFINE g(x) == [idx |-> x.idx - 1, texts |-> x.texts,
                        user |-> IF x = FirstTurn(TurnsRead(t, row)) THEN u ELSE x.user]
    <2>3. ASSUME NEW p \in O
          PROVE  g(T(p)) = PlacedAt(t, row, cs, p)
      <3>1. PlacedAt(t, row, cs, p) = [idx |-> T(p).idx - 1, texts |-> T(p).texts,
                                       user |-> IF p = row.lines + 1 THEN u ELSE T(p).user]
        BY <1>4 DEF PlacedAt
      <3>2. T(p) = FirstTurn(TurnsRead(t, row)) <=> p = row.lines + 1
        BY <2>2
      <3> HIDE DEF T, u
      <3> QED BY <3>1, <3>2
    <2>4. Placed(t, row, cs) = {g(x) : x \in TurnsRead(t, row)}
      BY <1>4 DEF Placed
    <2> HIDE DEF T, u, g
    <2>5. {g(x) : x \in TurnsRead(t, row)} = {PlacedAt(t, row, cs, p) : p \in O}
      BY <1>2, <2>3
    <2> QED BY <2>4, <2>5
  <1> QED BY <1>3, <1>4

\* What a placed turn is made of.
LEMMA PlacedTypes ==
    ASSUME NEW t \in Transcript, NEW row \in Row, NEW cs \in SUBSET Chunk, PartsEnd(cs),
           NEW p \in OpensFrom(t, row.lines)
    PROVE  /\ PlacedAt(t, row, cs, p).idx \in Nat /\ PlacedAt(t, row, cs, p).user \in Nat
           /\ PlacedAt(t, row, cs, p).texts \subseteq From(t, row.lines)
           /\ PlacedAt(t, row, cs, p).texts = {} => PlacedAt(t, row, cs, p).user = p /\ t.lines[p] # "asst"
           /\ \A q \in Nat : Cardinality({x \in PlacedAt(t, row, cs, p).texts : x < q}) \in 0 .. Len(t.lines) + 1
           /\ Offset(t, row, cs, PlacedAt(t, row, cs, p)) \in Nat
           /\ \E m \in Nat : m + 1 >= Offset(t, row, cs, PlacedAt(t, row, cs, p)) /\ (m = 0 \/ \E c \in cs : c.part = m)
  <1> DEFINE x == TurnAt(t, row.lines, row.turns, p)
             c == LastPart(TurnBefore(row, cs))
             y == PlacedAt(t, row, cs, p)
  <1>1. row.lines \in Nat /\ row.turns \in Nat
    BY DEF Row
  <1>2. x.idx \in Nat /\ x.idx >= row.turns /\ x.user \in Nat /\ x.texts \subseteq From(t, row.lines)
        /\ \A q \in Nat : Cardinality({z \in x.texts : z < q}) \in 0 .. Len(t.lines) + 1
    BY <1>1, TurnTypes
  <1>3. x.texts = {} => x.user = p /\ t.lines[p] # "asst"
    BY <1>1, TurnLines DEF TurnAt
  <1>4. ASSUME Joins(t, row, cs)
        PROVE  /\ c \in cs /\ c.user \in Nat /\ c.part \in Nat /\ row.turns > 0
               /\ p = row.lines + 1 => x.texts # {}
    <2>1. TurnBefore(row, cs) # {} /\ TurnBefore(row, cs) \in SUBSET cs /\ Ownerless(t, row)
      BY <1>4 DEF Joins, TurnBefore
    <2>2. c \in cs
      BY <2>1, PartsOfSome
    <2>3. row.turns > 0 /\ row.lines + 1 \in TurnAt(t, row.lines, row.turns, row.lines + 1).texts
      BY <2>1, Joining
    <2> QED BY <2>2, <2>3 DEF Chunk
  <1>5. y.idx = (IF Joins(t, row, cs) THEN x.idx - 1 ELSE x.idx) /\ y.texts = x.texts
        /\ y.user = IF Joins(t, row, cs) /\ p = row.lines + 1 THEN c.user ELSE x.user
    BY DEF PlacedAt
  <1>6. Offset(t, row, cs, y) \in {0} \cup (IF Joins(t, row, cs) THEN {c.part + 1} ELSE {})
    BY DEF Offset
  <1> HIDE DEF x, y, c
  <1>7. y.idx \in Nat /\ y.user \in Nat
    BY <1>1, <1>2, <1>4, <1>5
  <1>8. y.texts = {} => y.user = p /\ t.lines[p] # "asst"
    BY <1>3, <1>4, <1>5
  <1>9. Offset(t, row, cs, y) \in Nat
    BY <1>4, <1>6
  <1>10. \E m \in Nat : m + 1 >= Offset(t, row, cs, y) /\ (m = 0 \/ \E d \in cs : d.part = m)
    <2>1. CASE Offset(t, row, cs, y) = 0
      BY <2>1
    <2>2. CASE Offset(t, row, cs, y) # 0
      <3>1. Offset(t, row, cs, y) = c.part + 1 /\ c \in cs /\ c.part \in Nat
        BY <1>4, <1>6, <2>2
      <3> QED BY <3>1
    <2> QED BY <2>1, <2>2
  <1> QED BY <1>2, <1>5, <1>7, <1>8, <1>9, <1>10 DEF y

\* A chunk that is added shows a turn that was read: its prompt, and one of its texts if it has any.
LEMMA AddedFrom ==
    ASSUME NEW t \in Transcript, NEW row \in Row, NEW cs \in SUBSET Chunk,
           NEW c \in Added(t, row, cs)
    PROVE  \E p \in OpensFrom(t, row.lines) :
              LET y == PlacedAt(t, row, cs, p)
              IN  /\ c.text \in IF y.texts = {} THEN {0} ELSE y.texts
                  /\ c = [turn |-> y.idx, user |-> y.user, text |-> c.text, gen |-> t.gen,
                          part |-> Offset(t, row, cs, y) + Cardinality({q \in y.texts : q < c.text})]
  <1>1. PICK y \in Placed(t, row, cs) : c \in ChunksOf(t, y, Offset(t, row, cs, y))
    BY DEF Added
  <1>2. PICK p \in OpensFrom(t, row.lines) : y = PlacedAt(t, row, cs, p)
    BY <1>1, PlacedTurns
  <1>3. PICK x \in (IF y.texts = {} THEN {0} ELSE y.texts) :
            c = [turn |-> y.idx, user |-> y.user, text |-> x, gen |-> t.gen,
                 part |-> Offset(t, row, cs, y) + Cardinality({q \in y.texts : q < x})]
    BY <1>1 DEF ChunksOf
  <1>4. c.text = x
    BY <1>3
  <1> QED BY <1>2, <1>3, <1>4

\* The chunks keep their types, and their parts an end.
LEMMA AddedTypes ==
    ASSUME NEW t \in Transcript, NEW row \in Row, NEW cs \in SUBSET Chunk, PartsEnd(cs)
    PROVE  /\ Added(t, row, cs) \in SUBSET Chunk
           /\ \A c \in Added(t, row, cs) : c.gen = t.gen
           /\ PartsEnd(cs \cup Added(t, row, cs))
  <1>1. t.gen \in Nat /\ Len(t.lines) \in Nat
    BY WholeLines DEF Transcript
  <1>2. PICK m \in Nat : \A d \in cs : d.part <= m
    <2>1. CASE cs = {}
      BY <2>1
    <2>2. CASE cs # {}
      BY <2>2 DEF PartsEnd, Chunk
    <2> QED BY <2>1, <2>2
  <1>3. ASSUME NEW c \in Added(t, row, cs)
        PROVE  c \in Chunk /\ c.gen = t.gen /\ c.part <= m + Len(t.lines) + 2
    <2>1. PICK p \in OpensFrom(t, row.lines) :
              LET y == PlacedAt(t, row, cs, p)
              IN  /\ c.text \in IF y.texts = {} THEN {0} ELSE y.texts
                  /\ c = [turn |-> y.idx, user |-> y.user, text |-> c.text, gen |-> t.gen,
                          part |-> Offset(t, row, cs, y) + Cardinality({q \in y.texts : q < c.text})]
      BY AddedFrom
    <2> DEFINE y == PlacedAt(t, row, cs, p)
               n == Cardinality({q \in y.texts : q < c.text})
    <2>2. c.text \in IF y.texts = {} THEN {0} ELSE y.texts
      BY <2>1
    <2>3. c = [turn |-> y.idx, user |-> y.user, text |-> c.text, gen |-> t.gen, part |-> Offset(t, row, cs, y) + n]
      BY <2>1
    <2>4. y.idx \in Nat /\ y.user \in Nat /\ y.texts \subseteq From(t, row.lines)
          /\ Offset(t, row, cs, y) \in Nat
      BY PlacedTypes
    <2>5. PICK k \in Nat : k + 1 >= Offset(t, row, cs, y) /\ (k = 0 \/ \E d \in cs : d.part = k)
      BY PlacedTypes
    <2>6. c.text \in Nat
      BY <2>2, <2>4, WholeLines DEF From
    <2>7. n \in 0 .. Len(t.lines) + 1
      <3> DEFINE T == {q \in y.texts : q < c.text}
      <3>1. T \subseteq 0 .. Len(t.lines)
        BY <2>4, WholeLines DEF From
      <3> HIDE DEF T
      <3>2. Cardinality(T) \in 0 .. Len(t.lines) + 1
        BY <1>1, <3>1, BoundedCount
      <3> QED BY <3>2 DEF T
    <2>8. Offset(t, row, cs, y) <= m + 1
      BY <1>2, <2>4, <2>5
    <2> HIDE DEF y, n
    <2>9. Offset(t, row, cs, y) + n \in Nat /\ Offset(t, row, cs, y) + n <= m + Len(t.lines) + 2
      BY <1>1, <1>2, <2>4, <2>7, <2>8
    <2> QED BY <1>1, <2>3, <2>4, <2>6, <2>9 DEF Chunk
  <1>4. \A d \in cs \cup Added(t, row, cs) : d.part <= m + Len(t.lines) + 2
    BY <1>1, <1>2, <1>3 DEF Chunk
  <1>5. cs \cup Added(t, row, cs) \in SUBSET Chunk /\ m + Len(t.lines) + 2 \in Nat
    BY <1>1, <1>2, <1>3
  <1>6. PartsEnd(cs \cup Added(t, row, cs))
    BY <1>4, <1>5, BoundedParts
  <1> QED BY <1>3, <1>6

\* A line is shown by some chunk.
Shows(t, cs, p) == \E c \in cs : c.gen = t.gen /\ p \in {c.user, c.text}

\* Every line that is read can be found, or is passed over.
LEMMA AddedCovers ==
    ASSUME NEW t \in Transcript, NEW row \in Row, NEW cs \in SUBSET Chunk, PartsEnd(cs),
           NEW p \in 1 .. Len(t.lines), p > row.lines
    PROVE  Shows(t, Added(t, row, cs), p) \/ p \in Skipped(t, row, cs)
  <1>1. row.lines \in Nat /\ row.turns \in Nat /\ p # 0
    BY DEF Row
  <1>2. CASE p \notin Whole(t)
    BY <1>2 DEF Skipped, HalfRead
  <1>3. CASE p \in Whole(t)
    <2>1. p \in From(t, row.lines)
      BY <1>3 DEF From
    <2>2. PICK o \in OpensFrom(t, row.lines) :
              \/ p = TurnAt(t, row.lines, row.turns, o).user
              \/ p \in TurnAt(t, row.lines, row.turns, o).texts
      BY <1>1, <2>1, LineHasTurn
    <2> DEFINE x == TurnAt(t, row.lines, row.turns, o)
               y == PlacedAt(t, row, cs, o)
               chunk(q) == [turn |-> y.idx, user |-> y.user, text |-> q, gen |-> t.gen,
                            part |-> Offset(t, row, cs, y) + Cardinality({z \in y.texts : z < q})]
    <2>3. y \in Placed(t, row, cs)
      BY PlacedTurns
    <2>4. y.texts = x.texts /\ ((Joins(t, row, cs) /\ o = row.lines + 1) \/ y.user = x.user)
      BY DEF PlacedAt
    <2>5. ASSUME ~TooShort(t, y), NEW q \in (IF y.texts = {} THEN {0} ELSE y.texts)
          PROVE  chunk(q) \in Added(t, row, cs)
      <3>1. chunk(q) \in ChunksOf(t, y, Offset(t, row, cs, y))
        BY <2>5 DEF ChunksOf
      <3> QED BY <2>3, <3>1 DEF Added
    <2>6. CASE p \in x.texts
      <3>1. ~TooShort(t, y)
        BY <2>4, <2>6 DEF TooShort
      <3>2. p \in IF y.texts = {} THEN {0} ELSE y.texts
        BY <2>4, <2>6
      <3>3. chunk(p) \in Added(t, row, cs)
        BY <2>5, <3>1, <3>2
      <3>4. chunk(p).gen = t.gen /\ chunk(p).text = p
        OBVIOUS
      <3> QED BY <3>3, <3>4 DEF Shows
    <2>7. CASE p = x.user
      <3>1. o = p /\ t.lines[p] # "asst"
        BY <1>1, <2>7 DEF TurnAt
      <3>2. ~(Joins(t, row, cs) /\ o = row.lines + 1)
        BY <3>1, Joining DEF Joins
      <3>3. y.user = p
        BY <2>4, <2>7, <3>2
      <3>4. CASE TooShort(t, y)
        <4>1. p \in {z.user : z \in {w \in Placed(t, row, cs) : TooShort(t, w)}}
          BY <2>3, <3>3, <3>4
        <4> QED BY <4>1 DEF Skipped
      <3>5. CASE ~TooShort(t, y)
        <4>1. PICK q \in (IF y.texts = {} THEN {0} ELSE y.texts) : TRUE
          OBVIOUS
        <4>2. chunk(q) \in Added(t, row, cs)
          BY <2>5, <3>5, <4>1
        <4>3. chunk(q).gen = t.gen /\ chunk(q).user = p
          BY <3>3
        <4> QED BY <4>2, <4>3 DEF Shows
      <3> QED BY <3>4, <3>5
    <2> QED BY <2>2, <2>6, <2>7
  <1> QED BY <1>2, <1>3

-----------------------------------------------------------------------------
(* Turn numbers.                                                             *)

\* A row counts the turns of whole lines; a chunk has the number of the turn of its lines.
Counted(t, row) == 1 .. row.lines \subseteq Whole(t) /\ row.turns = Upto(t, row.lines)
ChunkFits(t, c) ==
    /\ c.user # 0 \/ c.text # 0
    /\ \A q \in {c.user, c.text} \ {0} : q \in Whole(t) /\ Upto(t, q) = c.turn + 1

\* A line of the turn that opens at p is a line of the turn with that number.
LEMMA PlacedLine ==
    ASSUME NEW t \in Transcript, NEW row \in Row, NEW cs \in SUBSET Chunk, Counted(t, row),
           Joins(t, row, cs) <=> Middle(t, row.lines),
           NEW p, NEW q, Belongs(t, row.lines, p, q)
    PROVE  q \in Whole(t) /\ Upto(t, q) = PlacedAt(t, row, cs, p).idx + 1
  <1> DEFINE n == Cardinality({o \in OpensFrom(t, row.lines) : o < p})
             k == Cardinality({o \in OpensFrom(t, row.lines) : o <= q})
  <1>1. row.lines \in Nat /\ row.turns \in Nat /\ q \in From(t, row.lines) /\ q \in Whole(t)
        /\ p \in OpensFrom(t, row.lines) /\ p \in Nat /\ q \in Nat
    BY WholeLines DEF Row, Belongs, From, OpensFrom
  <1>2. Upto(t, q) + (IF Middle(t, row.lines) THEN 1 ELSE 0) = Upto(t, row.lines) + k
    BY <1>1, Counting
  <1>3. k = n + 1
    BY <1>1, OwnTurnLast
  <1>4. Upto(t, row.lines) = row.turns /\ Upto(t, q) \in Nat /\ n \in Nat /\ k \in Nat
    BY <1>1, UptoType, OpensFinite DEF Counted
  <1>5. PlacedAt(t, row, cs, p).idx = IF Joins(t, row, cs) THEN (row.turns + n) - 1 ELSE row.turns + n
    BY DEF PlacedAt, TurnAt
  <1> HIDE DEF n, k
  <1>6. CASE Middle(t, row.lines)
    <2>1. Upto(t, q) + 1 = row.turns + k
      BY <1>2, <1>4, <1>6
    <2>2. PlacedAt(t, row, cs, p).idx = (row.turns + n) - 1
      BY <1>5, <1>6
    <2> QED BY <1>1, <1>3, <1>4, <2>1, <2>2
  <1>7. CASE ~Middle(t, row.lines)
    <2>1. Upto(t, q) + 0 = row.turns + k
      BY <1>2, <1>4, <1>7
    <2>2. PlacedAt(t, row, cs, p).idx = row.turns + n
      BY <1>5, <1>7
    <2> QED BY <1>1, <1>3, <1>4, <2>1, <2>2
  <1> QED BY <1>6, <1>7

\* What is added has the numbers of the transcript, if the row had them and the turn before too.
LEMMA AddedFits ==
    ASSUME NEW t \in Transcript, NEW row \in Row, NEW cs \in SUBSET Chunk, PartsEnd(cs),
           Counted(t, row), row.lines <= Len(t.lines), HalfRead(t, row) = {},
           Ownerless(t, row) => Joins(t, row, cs),
           row.lines > 0 => \A c \in cs : ChunkFits(t, c)
    PROVE  /\ \A c \in Added(t, row, cs) : ChunkFits(t, c)
           /\ 1 .. Len(t.lines) \subseteq Whole(t)
           /\ NextTurn(TurnsRead(t, row), row.turns, Joins(t, row, cs)) = Upto(t, Len(t.lines))
  <1> DEFINE n == row.lines
  <1>1. n \in Nat /\ row.turns \in Nat /\ Len(t.lines) \in Nat
    BY WholeLines DEF Row
  <1>2. Whole(t) = 1 .. Len(t.lines)
    <2>1. ASSUME NEW p \in 1 .. Len(t.lines) PROVE p \in Whole(t)
      <3>1. CASE p > n
        BY <3>1 DEF HalfRead
      <3>2. CASE ~(p > n)
        BY <1>1, <3>2 DEF Counted
      <3> QED BY <3>1, <3>2
    <2> QED BY <2>1, WholeLines
  <1>3. n = 0 => row.turns = 0
    BY UptoType DEF Counted
  <1>4. From(t, n) # {} /\ Middle(t, n) <=> Joins(t, row, cs)
    <2>1. ASSUME Joins(t, row, cs) PROVE From(t, n) # {} /\ Middle(t, n)
      <3>1. row.turns > 0 /\ n + 1 \in OpensFrom(t, n) /\ t.lines[n + 1] = "asst"
        BY <2>1, Joining DEF Joins
      <3> QED BY <1>1, <1>3, <3>1 DEF OpensFrom, Middle
    <2>2. ASSUME From(t, n) # {}, Middle(t, n) PROVE Joins(t, row, cs)
      <3>1. n + 1 \in OpensFrom(t, n) /\ n > 0 /\ t.lines[n + 1] = "asst"
        BY <1>1, <2>2, FirstLine DEF Middle
      <3>2. 1 \in Whole(t)
        BY <1>1, <3>1 DEF Counted
      <3>3. row.turns > 0
        BY <1>1, <3>1, <3>2, UptoType DEF Counted
      <3>4. ParseTurns(t, n, row.turns) # {}
        BY <1>1, <3>1, SomeTurn
      <3>5. FirstTurn(ParseTurns(t, n, row.turns)).user = 0
        BY <1>1, <3>1, <3>4, FirstTurnRead, TurnLines
      <3> QED BY <3>3, <3>4, <3>5 DEF Ownerless, TurnsRead
    <2> QED BY <2>1, <2>2
  <1>5. NextTurn(TurnsRead(t, row), row.turns, Joins(t, row, cs)) = Upto(t, Len(t.lines))
    <2>1. row.turns = Upto(t, n)
      BY DEF Counted
    <2>2. NextTurn(ParseTurns(t, n, row.turns), row.turns, From(t, n) # {} /\ Middle(t, n)) = Upto(t, Len(t.lines))
      BY <1>1, <1>2, <2>1, CountedOn
    <2> QED BY <1>4, <2>2 DEF TurnsRead, NextTurn
  <1>6. ASSUME NEW c \in Added(t, row, cs) PROVE ChunkFits(t, c)
    <2>1. PICK p \in OpensFrom(t, n) :
              LET y == PlacedAt(t, row, cs, p)
              IN  /\ c.text \in IF y.texts = {} THEN {0} ELSE y.texts
                  /\ c = [turn |-> y.idx, user |-> y.user, text |-> c.text, gen |-> t.gen,
                          part |-> Offset(t, row, cs, y) + Cardinality({q \in y.texts : q < c.text})]
      BY AddedFrom
    <2> DEFINE x == TurnAt(t, n, row.turns, p)
               y == PlacedAt(t, row, cs, p)
    <2>2. c.text \in (IF y.texts = {} THEN {0} ELSE y.texts) /\ c.turn = y.idx /\ c.user = y.user
      BY <2>1
    <2>3. p \in From(t, n) /\ p \in Nat /\ p > 0 /\ From(t, n) # {}
      BY <1>1, WholeLines DEF OpensFrom, From
    <2>4. Joins(t, row, cs) <=> Middle(t, n)
      BY <1>4, <2>3
    <2>5. y.texts = x.texts /\ y.user = IF Joins(t, row, cs) /\ p = n + 1 THEN LastPart(TurnBefore(row, cs)).user
                                        ELSE x.user
      BY DEF PlacedAt
    <2>6. x.user \in {0, p} /\ (x.user = 0 => p \in x.texts) /\ \A q \in x.texts : q > 0
      BY <1>1, <2>3, TurnLines DEF TurnAt, From
    <2>7. \A q \in x.texts \cup {p} : Belongs(t, n, p, q)
      BY <1>1, TurnLines
    <2>8. \A q \in x.texts \cup {p} : q \in Whole(t) /\ Upto(t, q) = y.idx + 1
      BY <2>4, <2>7, PlacedLine
    <2>9. CASE Joins(t, row, cs) /\ p = n + 1
      <3> DEFINE d == LastPart(TurnBefore(row, cs))
      <3>1. Ownerless(t, row) /\ TurnBefore(row, cs) # {}
        BY <2>9 DEF Joins
      <3>2. d \in TurnBefore(row, cs)
        BY <3>1, PartsOfSome DEF TurnBefore
      <3>3. d \in cs /\ d.turn = row.turns - 1 /\ row.turns > 0 /\ n > 0
        BY <1>1, <1>3, <3>1, <3>2, Joining DEF TurnBefore
      <3>4. ChunkFits(t, d)
        BY <3>3
      <3>5. y.idx = row.turns - 1
        <4>1. x.idx = row.turns
          <5>1. ParseTurns(t, n, row.turns) # {}
            BY <1>1, SomeTurn
          <5>2. TurnAt(t, n, row.turns, n + 1).idx = row.turns
            BY <1>1, <5>1, FirstTurnRead
          <5> QED BY <2>9, <5>2
        <4> QED BY <2>9, <4>1 DEF PlacedAt
      <3>6. p \in x.texts
        BY <2>9, <3>1, Joining
      <3>7. y.user = d.user /\ c.text \in x.texts
        BY <2>2, <2>5, <2>9, <3>6
      <3>8. \A q \in {d.user} \ {0} : q \in Whole(t) /\ Upto(t, q) = y.idx + 1
        BY <3>3, <3>4, <3>5 DEF ChunkFits
      <3> HIDE DEF d, x, y
      <3> QED BY <2>2, <2>6, <2>8, <3>7, <3>8 DEF ChunkFits
    <2>10. CASE ~(Joins(t, row, cs) /\ p = n + 1)
      <3>1. c.user = x.user /\ c.text \in IF x.texts = {} THEN {0} ELSE x.texts
        BY <2>2, <2>5, <2>10
      <3> HIDE DEF x, y
      <3> QED BY <2>2, <2>3, <2>6, <2>8, <3>1 DEF ChunkFits
    <2> QED BY <2>9, <2>10
  <1> QED BY <1>2, <1>5, <1>6

\* The turn of a chunk that fits is one that `show` finds, with the lines of the chunk.
LEMMA FitsShown ==
    ASSUME NEW t \in Transcript, NEW c \in Chunk, ChunkFits(t, c)
    PROVE  \E x \in ParseTurns(t, 0, 0) :
              x.idx = c.turn /\ {c.user, c.text} \subseteq {x.user, 0} \cup x.texts
  <1> DEFINE n(q) == Cardinality({o \in OpensFrom(t, 0) : o <= q})
             b(p) == Cardinality({o \in OpensFrom(t, 0) : o < p})
             T(p) == TurnAt(t, 0, 0, p)
  <1>1. PICK q0 \in {c.user, c.text} : q0 # 0
    BY DEF ChunkFits
  <1>2. ASSUME NEW q \in {c.user, c.text}, q # 0
        PROVE  /\ q \in From(t, 0)
               /\ \E p \in OpensFrom(t, 0) : /\ Belongs(t, 0, p, q) /\ q \in {T(p).user} \cup T(p).texts
                                             /\ b(p) = c.turn /\ b(p) \in Nat /\ p \in Nat
    <2>1. q \in Whole(t) /\ Upto(t, q) = c.turn + 1 /\ q \in From(t, 0)
      BY <1>2, WholeLines DEF ChunkFits, From
    <2>2. PICK p \in OpensFrom(t, 0) : Belongs(t, 0, p, q) /\ (q = T(p).user \/ q \in T(p).texts)
      BY <2>1, LineHasTurn
    <2>3. p \in Nat /\ q \in Nat
      BY <2>1, WholeLines DEF OpensFrom, From
    <2>4. n(q) = b(p) + 1
      BY <2>2, OwnTurnLast
    <2>5. Upto(t, q) + (IF Middle(t, 0) THEN 1 ELSE 0) = Upto(t, 0) + n(q)
      BY <2>1, Counting
    <2>6. Upto(t, 0) = 0 /\ Upto(t, q) \in Nat /\ ~Middle(t, 0) /\ n(q) \in Nat /\ b(p) \in Nat
      <3>1. Upto(t, 0) = 0 /\ Upto(t, q) \in Nat
        BY <2>3, UptoType
      <3>2. n(q) \in Nat /\ b(p) \in Nat
        BY <2>3, OpensFinite
      <3>3. ~Middle(t, 0)
        BY DEF Middle
      <3> QED BY <3>1, <3>2, <3>3
    <2> HIDE DEF n, b
    <2>7. Upto(t, q) = n(q)
      BY <2>5, <2>6
    <2>8. b(p) = c.turn
      BY <2>1, <2>4, <2>6, <2>7 DEF Chunk
    <2> QED BY <2>1, <2>2, <2>3, <2>6, <2>8
  <1>3. PICK p0 \in OpensFrom(t, 0) : b(p0) = c.turn /\ p0 \in Nat
    BY <1>1, <1>2
  <1>4. ASSUME NEW p \in OpensFrom(t, 0), b(p) = c.turn, p \in Nat PROVE p = p0
    <2> DEFINE S(r) == {o \in OpensFrom(t, 0) : o < r}
    <2>1. IsFiniteSet(S(p)) /\ IsFiniteSet(S(p0))
      BY <1>3, <1>4, OpensFinite
    <2>2. Cardinality(S(p)) = Cardinality(S(p0))
      BY <1>3, <1>4
    <2>3. \A o \in OpensFrom(t, 0) : o \in Nat
      BY WholeLines DEF OpensFrom, From
    <2>0. \A i, j \in OpensFrom(t, 0) : i < j => S(i) \subseteq S(j) /\ i \in S(j) /\ i \notin S(i)
      BY <2>3
    <2>4. p < p0 => S(p) \subseteq S(p0) /\ p \in S(p0) /\ p \notin S(p)
      <3> HIDE DEF S
      <3> QED BY <2>0
    <2>5. p0 < p => S(p0) \subseteq S(p) /\ p0 \in S(p) /\ p0 \notin S(p0)
      <3> HIDE DEF S
      <3> QED BY <2>0
    <2> HIDE DEF S
    <2>6. ~(p < p0) /\ ~(p0 < p)
      BY <2>1, <2>2, <2>4, <2>5, FS_Subset
    <2> QED BY <1>3, <1>4, <2>6
  <1>5. ASSUME NEW q \in {c.user, c.text}, q # 0 PROVE q \in {T(p0).user} \cup T(p0).texts
    <2>1. PICK p \in OpensFrom(t, 0) : /\ q \in {T(p).user} \cup T(p).texts
                                       /\ b(p) = c.turn /\ p \in Nat
      BY <1>2, <1>5
    <2>2. p = p0
      BY <1>4, <2>1
    <2> QED BY <2>1, <2>2
  <1>6. T(p0).idx = c.turn
    <2>1. b(p0) \in Nat /\ T(p0).idx = 0 + b(p0)
      BY <1>3, OpensFinite DEF TurnAt
    <2> QED BY <1>3, <2>1
  <1>7. T(p0) \in ParseTurns(t, 0, 0)
    BY SomeTurn
  <1>8. {c.user, c.text} \subseteq {T(p0).user, 0} \cup T(p0).texts
    BY <1>5
  <1> HIDE DEF T
  <1> QED BY <1>6, <1>7, <1>8

-----------------------------------------------------------------------------
(* The inductive invariant.                                                  *)

IndexRun == [step : {"idle", "look", "write"}, full : BOOLEAN, todo : SUBSET Sessions,
             at : SUBSET Sessions, row : Row, stale : BOOLEAN, late : SUBSET Sessions]

MemoryTypeOK ==
    /\ transcript \in [Sessions -> Transcript]
    /\ files \in [Sessions -> Row]
    /\ chunks \in [Sessions -> SUBSET Chunk]
    /\ run \in [Runs -> IndexRun]
    /\ excused \in [Sessions -> SUBSET Nat]
    /\ excluded \subseteq Sessions /\ shifted \subseteq Sessions /\ current \in BOOLEAN

\* A run that is to write holds one session; what it has before it has lines, and a session that
\* was pruned was before it when it was.
RunFits(r) ==
    /\ run[r].step = "idle" => run[r].todo = {} /\ run[r].late = {}
    /\ run[r].step # "write" => run[r].at = {}
    /\ run[r].step = "write" => \E s \in Sessions : run[r].at = {s}
    /\ \A s \in run[r].todo \cup run[r].at : transcript[s].lines # <<>>
    /\ (run[r].todo \cup run[r].at) \cap excluded \subseteq run[r].late

\* A row is of this transcript, and then up to some line of it, or of an older one.
RowFits(t, row) ==
    /\ row.gen <= t.gen
    /\ row.gen = t.gen => row.size <= Size(t)
    /\ row.lines = 0 => row.turns = 0

\* The lines of a row can be found, or are excused.
Covered(t, row, cs, ex) == \A p \in 1 .. row.lines : Shows(t, cs, p) \/ p \in ex

TranscriptFits(t) == t.gen > 0 /\ (t.half => t.lines # <<>>)
ChunksFit(t, cs) == PartsEnd(cs) /\ \A c \in cs : c.gen <= t.gen

\* The row of the table of files, and the row in the hands of a run.
FileFits(t, row, cs, ex) ==
    /\ RowFits(t, row)
    /\ row.gen = t.gen => row.lines <= Len(t.lines) /\ Covered(t, row, cs, ex)
    /\ row.gen = 0 => row = NoRow /\ cs = {}
    /\ row.gen # 0 => row.lines > 0

HeldFits(t, state, cs, ex) ==
    /\ state.row.gen > 0 /\ RowFits(t, state.row)
    /\ ~state.stale /\ state.row.gen = t.gen =>
          state.row.lines <= Len(t.lines) /\ Covered(t, state.row, cs, ex)

\* The same for the numbers of the turns.  Where chunks of an older transcript are left no row
\* goes on from them.
FileNumbered(t, row, cs) ==
    /\ \A c \in cs : c.gen = t.gen => ChunkFits(t, c)
    /\ row.gen = t.gen => Counted(t, row)
    /\ (\E c \in cs : c.gen # t.gen) => row.gen # t.gen

HeldNumbered(t, state, cs) ==
    /\ ~state.stale /\ state.row.gen = t.gen => Counted(t, state.row)
    /\ (\E c \in cs : c.gen # t.gen) /\ state.row.gen = t.gen => state.stale /\ state.row.lines > 0

SessionFits(s) ==
    /\ TranscriptFits(transcript[s])
    /\ ChunksFit(transcript[s], chunks[s])
    /\ FileFits(transcript[s], files[s], chunks[s], excused[s])
    /\ s \notin shifted => FileNumbered(transcript[s], files[s], chunks[s])
    /\ \A r \in Runs : run[r].at = {s} =>
          /\ HeldFits(transcript[s], run[r], chunks[s], excused[s])
          /\ s \notin shifted => HeldNumbered(transcript[s], run[r], chunks[s])

MemoryInv ==
    /\ MemoryTypeOK
    /\ \A r \in Runs : RunFits(r)
    /\ \A s \in Sessions : SessionFits(s)

-----------------------------------------------------------------------------
(* The first state.                                                          *)

\* Nothing is indexed in the beginning.
LEMMA InitMemory == Init => MemoryInv
  <1> SUFFICES ASSUME Init PROVE MemoryInv
    OBVIOUS
  <1>1. NoRow \in Row
    BY DEF NoRow, Row
  <1>2. Idle \in IndexRun
    BY <1>1 DEF Idle, IndexRun
  <1>3. [lines |-> <<>>, half |-> FALSE, gen |-> 1] \in Transcript
    BY DEF Transcript
  <1>4. MemoryTypeOK
    BY <1>1, <1>2, <1>3 DEF Init, MemoryTypeOK
  <1>5. ASSUME NEW r \in Runs PROVE RunFits(r)
    BY DEF Init, Idle, RunFits
  <1>6. ASSUME NEW s \in Sessions PROVE SessionFits(s)
    <2>1. transcript[s].gen = 1 /\ ~transcript[s].half /\ files[s] = NoRow /\ chunks[s] = {}
      BY DEF Init
    <2>2. \A r \in Runs : run[r].at # {s}
      BY DEF Init, Idle
    <2> QED BY <2>1, <2>2 DEF SessionFits, TranscriptFits, ChunksFit, PartsEnd, FileFits, RowFits,
                              FileNumbered, NoRow
  <1> QED BY <1>4, <1>5, <1>6 DEF MemoryInv

-----------------------------------------------------------------------------
(* What keeps a session.                                                     *)

\* Nothing of the session changes, but that runs let go of it or learn that their row is stale.
LEMMA SessionKept ==
    ASSUME NEW s \in Sessions, SessionFits(s),
           transcript'[s] = transcript[s], files'[s] = files[s], chunks'[s] = chunks[s],
           excused'[s] = excused[s], s \in shifted => s \in shifted',
           \A r \in Runs : run'[r].at = {s} =>
               run[r].at = {s} /\ run'[r].row = run[r].row /\ (run[r].stale => run'[r].stale)
    PROVE  SessionFits(s)'
  <1>1. /\ TranscriptFits(transcript'[s]) /\ ChunksFit(transcript'[s], chunks'[s])
        /\ FileFits(transcript'[s], files'[s], chunks'[s], excused'[s])
        /\ s \notin shifted' => FileNumbered(transcript'[s], files'[s], chunks'[s])
    BY DEF SessionFits
  <1>2. ASSUME NEW r \in Runs, run'[r].at = {s}
        PROVE  /\ HeldFits(transcript'[s], run'[r], chunks'[s], excused'[s])
               /\ s \notin shifted' => HeldNumbered(transcript'[s], run'[r], chunks'[s])
    <2>1. run[r].at = {s} /\ run'[r].row = run[r].row /\ (run[r].stale => run'[r].stale)
      BY <1>2
    <2>2. /\ HeldFits(transcript[s], run[r], chunks[s], excused[s])
          /\ s \notin shifted => HeldNumbered(transcript[s], run[r], chunks[s])
      BY <2>1 DEF SessionFits
    <2> QED BY <2>1, <2>2 DEF HeldFits, HeldNumbered
  <1> QED BY <1>1, <1>2 DEF SessionFits

\* The transcript grows.
LEMMA GrownFile ==
    ASSUME NEW t \in Transcript, NEW u \in Transcript, Grown(t, u), TranscriptFits(t), NEW row \in Row,
           NEW cs \in SUBSET Chunk, NEW ex
    PROVE  /\ ChunksFit(t, cs) => ChunksFit(u, cs)
           /\ RowFits(t, row) => RowFits(u, row)
           /\ row.lines <= Len(t.lines) /\ Covered(t, row, cs, ex)
                  => row.lines <= Len(u.lines) /\ Covered(u, row, cs, ex)
           /\ Counted(t, row) => Counted(u, row)
           /\ \A c \in cs : ChunkFits(t, c) => ChunkFits(u, c)
  <1>1. u.gen = t.gen /\ Size(u) >= Size(t) /\ Len(u.lines) >= Len(t.lines) /\ Whole(t) \subseteq Whole(u)
    BY DEF Grown
  <1>2. Len(t.lines) \in Nat /\ Len(u.lines) \in Nat /\ Size(t) \in Int /\ Size(u) \in Int
        /\ row.lines \in Nat /\ row.size \in Nat
    BY WholeLines DEF Size, Row
  <1>3. \A n \in Nat : 1 .. n \subseteq Whole(t) => Upto(u, n) = Upto(t, n)
    BY GrownUpto
  <1>4. ChunksFit(t, cs) => ChunksFit(u, cs)
    BY <1>1 DEF ChunksFit
  <1>5. RowFits(t, row) => RowFits(u, row)
    BY <1>1, <1>2 DEF RowFits
  <1>6. Covered(t, row, cs, ex) => Covered(u, row, cs, ex)
    BY <1>1 DEF Covered, Shows
  <1>7. Counted(t, row) => Counted(u, row)
    BY <1>1, <1>2, <1>3 DEF Counted
  <1>8. ASSUME NEW c \in cs, ChunkFits(t, c) PROVE ChunkFits(u, c)
    <2>1. ASSUME NEW q \in {c.user, c.text} \ {0} PROVE q \in Whole(u) /\ Upto(u, q) = c.turn + 1
      <3>1. q \in Whole(t) /\ Upto(t, q) = c.turn + 1
        BY <1>8, <2>1 DEF ChunkFits
      <3>2. q \in Nat /\ 1 .. q \subseteq Whole(t)
        BY <3>1, WholeLines
      <3> QED BY <1>1, <1>3, <3>1, <3>2
    <2> QED BY <1>8, <2>1 DEF ChunkFits
  <1> QED BY <1>1, <1>2, <1>4, <1>5, <1>6, <1>7, <1>8

\* A session fits its transcript when that has grown.
LEMMA SessionGrows ==
    ASSUME MemoryTypeOK, NEW s \in Sessions, SessionFits(s),
           transcript'[s] \in Transcript, Grown(transcript[s], transcript'[s]), TranscriptFits(transcript'[s]),
           UNCHANGED <<files, chunks, run, excused, shifted>>
    PROVE  SessionFits(s)'
  <1> DEFINE t == transcript[s]
             u == transcript'[s]
             cs == chunks[s]
             ex == excused[s]
  <1>1. t \in Transcript /\ u \in Transcript /\ cs \in SUBSET Chunk /\ files[s] \in Row
        /\ \A r \in Runs : run[r].row \in Row
    BY DEF MemoryTypeOK, IndexRun
  <1>2. TranscriptFits(t) /\ u.gen = t.gen
    BY DEF SessionFits, Grown
  <1> HIDE DEF t, u, cs, ex
  <1>3. ASSUME NEW row \in Row
        PROVE  /\ ChunksFit(t, cs) => ChunksFit(u, cs)
               /\ RowFits(t, row) => RowFits(u, row)
               /\ row.lines <= Len(t.lines) /\ Covered(t, row, cs, ex)
                     => row.lines <= Len(u.lines) /\ Covered(u, row, cs, ex)
               /\ Counted(t, row) => Counted(u, row)
               /\ \A c \in cs : ChunkFits(t, c) => ChunkFits(u, c)
    <2>1. Grown(t, u)
      BY DEF t, u
    <2> QED BY <1>1, <1>2, <2>1, GrownFile
  <1>4. /\ ChunksFit(t, cs) /\ FileFits(t, files[s], cs, ex)
        /\ s \notin shifted => FileNumbered(t, files[s], cs)
    BY DEF SessionFits, t, cs, ex
  <1>5. ChunksFit(u, cs) /\ FileFits(u, files[s], cs, ex)
    BY <1>1, <1>2, <1>3, <1>4 DEF FileFits
  <1>6. s \notin shifted => FileNumbered(u, files[s], cs)
    BY <1>1, <1>2, <1>3, <1>4 DEF FileNumbered
  <1>7. ASSUME NEW r \in Runs, run[r].at = {s}
        PROVE  HeldFits(u, run[r], cs, ex) /\ (s \notin shifted => HeldNumbered(u, run[r], cs))
    <2>1. HeldFits(t, run[r], cs, ex) /\ (s \notin shifted => HeldNumbered(t, run[r], cs))
      BY <1>7 DEF SessionFits, t, cs, ex
    <2>2. run[r].row \in Row
      BY <1>1
    <2>3. HeldFits(u, run[r], cs, ex)
      BY <1>2, <1>3, <2>1, <2>2 DEF HeldFits
    <2>4. s \notin shifted => HeldNumbered(u, run[r], cs)
      BY <1>2, <1>3, <2>1, <2>2 DEF HeldNumbered
    <2> QED BY <2>3, <2>4
  <1> QED BY <1>5, <1>6, <1>7 DEF SessionFits, u, cs, ex

\* Chunks of the session are deleted by prune, their lines excused, and the row with the last of them.
LEMMA SessionPruned ==
    ASSUME MemoryTypeOK, NEW s \in Sessions, SessionFits(s),
           transcript'[s] = transcript[s], chunks'[s] \subseteq chunks[s],
           files'[s] = (IF chunks'[s] = {} THEN NoRow ELSE files[s]),
           excused[s] \cup LinesOf(chunks[s] \ chunks'[s]) \subseteq excused'[s], shifted' = shifted,
           \A r \in Runs : /\ run'[r].at = run[r].at /\ run'[r].row = run[r].row
                           /\ run'[r].stale = run[r].stale
    PROVE  SessionFits(s)'
  <1> DEFINE t == transcript[s]
             cs == chunks[s]
             ds == chunks'[s]
             ex == excused[s]
             fx == excused'[s]
  <1>1. t \in Transcript /\ cs \in SUBSET Chunk /\ files[s] \in Row /\ t.gen > 0 /\ t.gen \in Nat
    BY DEF MemoryTypeOK, SessionFits, TranscriptFits, Transcript
  <1>2. ASSUME NEW p, Shows(t, cs, p) \/ p \in ex PROVE Shows(t, ds, p) \/ p \in fx
    BY <1>2 DEF Shows, LinesOf
  <1>3. ChunksFit(t, cs) /\ FileFits(t, files[s], cs, ex) /\ TranscriptFits(t)
        /\ (s \notin shifted => FileNumbered(t, files[s], cs))
    BY DEF SessionFits
  <1>4. ds \subseteq cs /\ files'[s] = (IF ds = {} THEN NoRow ELSE files[s])
    OBVIOUS
  <1> HIDE DEF ds, cs, ex, fx, t
  <1>5. ChunksFit(t, ds)
    BY <1>1, <1>3, <1>4, PartsOfSome DEF ChunksFit
  <1>6. FileFits(t, files'[s], ds, fx)
    <2>1. CASE ds = {}
      BY <1>1, <1>4, <2>1 DEF FileFits, RowFits, NoRow
    <2>2. CASE ds # {}
      BY <1>2, <1>3, <1>4, <2>2 DEF FileFits, Covered
    <2> QED BY <2>1, <2>2
  <1>7. ASSUME s \notin shifted PROVE FileNumbered(t, files'[s], ds)
    <2>1. CASE ds = {}
      BY <1>1, <1>4, <2>1 DEF FileNumbered, NoRow
    <2>2. CASE ds # {}
      BY <1>3, <1>4, <1>7, <2>2 DEF FileNumbered
    <2> QED BY <2>1, <2>2
  <1>8. ASSUME NEW r \in Runs, run'[r].at = {s}
        PROVE  HeldFits(t, run'[r], ds, fx) /\ (s \notin shifted => HeldNumbered(t, run'[r], ds))
    <2>1. HeldFits(t, run[r], cs, ex) /\ (s \notin shifted => HeldNumbered(t, run[r], cs))
      BY <1>8 DEF SessionFits, t, cs, ex
    <2>2. run'[r].row = run[r].row /\ run'[r].stale = run[r].stale
      OBVIOUS
    <2>3. HeldFits(t, run'[r], ds, fx)
      BY <1>2, <2>1, <2>2 DEF HeldFits, Covered
    <2>4. s \notin shifted => HeldNumbered(t, run'[r], ds)
      BY <1>4, <2>1, <2>2 DEF HeldNumbered
    <2> QED BY <2>3, <2>4
  <1> QED BY <1>3, <1>5, <1>6, <1>7, <1>8 DEF SessionFits, t, ds, fx

-----------------------------------------------------------------------------
(* Transcripts are written.                                                  *)

\* The fields of a transcript that is changed.
LEMMA RecordChanged ==
    ASSUME NEW L, NEW t \in [lines : L, half : BOOLEAN, gen : Nat], NEW lines \in L, NEW half \in BOOLEAN
    PROVE  /\ [t EXCEPT !.lines = lines, !.half = half] \in [lines : L, half : BOOLEAN, gen : Nat]
           /\ [t EXCEPT !.lines = lines, !.half = half].lines = lines
           /\ [t EXCEPT !.lines = lines, !.half = half].half = half
           /\ [t EXCEPT !.lines = lines, !.half = half].gen = t.gen
           /\ [t EXCEPT !.half = half] \in [lines : L, half : BOOLEAN, gen : Nat]
           /\ [t EXCEPT !.half = half].lines = t.lines
           /\ [t EXCEPT !.half = half].half = half
           /\ [t EXCEPT !.half = half].gen = t.gen
  OBVIOUS

\* A line more, or the rest of a line.
LEMMA AppendGrows ==
    ASSUME NEW t \in Transcript, ~t.half, NEW kind \in Kinds, NEW half \in BOOLEAN, NEW u \in Transcript,
           u.lines = Append(t.lines, kind), u.half = half, u.gen = t.gen
    PROVE  Grown(t, u) /\ u.lines # <<>>
  <1>1. t.lines \in Seq(Kinds)
    BY DEF Transcript
  <1>2. Len(u.lines) = Len(t.lines) + 1 /\ Len(t.lines) \in Nat /\ u.lines # <<>>
        /\ \A p \in 1 .. Len(t.lines) : u.lines[p] = t.lines[p]
    BY <1>1
  <1>3. Size(u) >= Size(t)
    <2>1. Size(t) = 2 * Len(t.lines) - 0
      BY DEF Size
    <2>2. Size(u) = 2 * Len(u.lines) - 1 \/ Size(u) = 2 * Len(u.lines) - 0
      BY DEF Size
    <2> QED BY <1>2, <2>1, <2>2
  <1>4. Whole(t) \subseteq 1 .. Len(t.lines) /\ Whole(t) \subseteq Whole(u)
    BY <1>2 DEF Whole
  <1> QED BY <1>2, <1>3, <1>4 DEF Grown

\* A half-written line that is completed makes the transcript grow.
LEMMA CompleteGrows ==
    ASSUME NEW t \in Transcript, t.half, NEW u \in Transcript, u.lines = t.lines, u.half = FALSE, u.gen = t.gen
    PROVE  Grown(t, u)
  <1>1. Len(t.lines) \in Nat /\ Len(u.lines) = Len(t.lines)
    BY DEF Transcript
  <1>2. Size(u) >= Size(t)
    BY <1>1 DEF Size
  <1>3. Whole(t) \subseteq Whole(u)
    BY <1>1 DEF Whole
  <1> QED BY <1>1, <1>2, <1>3 DEF Grown

\* A run has what it had, while no line is lost.
LEMMA RunKept ==
    ASSUME NEW r \in Runs, RunFits(r), run'[r] = run[r], excluded' = excluded,
           \A s \in Sessions : transcript[s].lines # <<>> => transcript'[s].lines # <<>>,
           run[r] \in IndexRun
    PROVE  RunFits(r)'
  BY DEF RunFits, IndexRun

\* A line is appended, or completed.
LEMMA NextAppend ==
    ASSUME MemoryInv, NEW s \in Sessions, Append1(s) \/ CompleteLine(s)
    PROVE  MemoryInv'
  <1>1. MemoryTypeOK /\ transcript \in [Sessions -> Transcript] /\ run \in [Runs -> IndexRun]
    BY DEF MemoryInv, MemoryTypeOK
  <1>2. UNCHANGED <<files, chunks, excluded, current, run, excused, shifted>>
    BY DEF Append1, CompleteLine
  <1>3. PICK u \in Transcript : /\ transcript' = [transcript EXCEPT ![s] = u]
                                /\ Grown(transcript[s], u) /\ TranscriptFits(u)
                                /\ u.lines # <<>>
    <2>1. TranscriptFits(transcript[s]) /\ transcript[s] \in Transcript
      BY <1>1 DEF MemoryInv, SessionFits
    <2>2. CASE Append1(s)
      <3>1. PICK kind \in Kinds, half \in BOOLEAN :
                transcript' = [transcript EXCEPT ![s].lines = Append(@, kind), ![s].half = half]
        BY <2>2 DEF Append1
      <3> DEFINE u == [transcript[s] EXCEPT !.lines = Append(@, kind), !.half = half]
      <3>2. transcript' = [transcript EXCEPT ![s] = u]
        BY <1>1, <3>1
      <3>3. ~transcript[s].half
        BY <2>2 DEF Append1
      <3>6. /\ u \in Transcript /\ u.lines = Append(transcript[s].lines, kind) /\ u.half = half
            /\ u.gen = transcript[s].gen
        <4>1. Append(transcript[s].lines, kind) \in Seq(Kinds)
          BY <2>1 DEF Transcript
        <4> QED BY <2>1, <4>1, RecordChanged DEF Transcript
      <3> HIDE DEF u
      <3>4. u \in Transcript /\ Grown(transcript[s], u) /\ u.lines # <<>>
        BY <2>1, <3>3, <3>6, AppendGrows
      <3>5. TranscriptFits(u)
        BY <2>1, <3>4 DEF TranscriptFits, Grown
      <3> QED BY <3>2, <3>4, <3>5
    <2>3. CASE CompleteLine(s)
      <3> DEFINE u == [transcript[s] EXCEPT !.half = FALSE]
      <3>1. transcript' = [transcript EXCEPT ![s] = u] /\ transcript[s].half
        BY <1>1, <2>3 DEF CompleteLine
      <3>4. /\ u \in Transcript /\ u.lines = transcript[s].lines /\ u.half = FALSE
            /\ u.gen = transcript[s].gen
        BY <2>1, RecordChanged DEF Transcript
      <3> HIDE DEF u
      <3>2. u \in Transcript /\ Grown(transcript[s], u) /\ u.lines = transcript[s].lines
        BY <2>1, <3>1, <3>4, CompleteGrows
      <3>3. TranscriptFits(u) /\ u.lines # <<>>
        BY <2>1, <3>1, <3>2 DEF TranscriptFits, Grown
      <3> QED BY <3>1, <3>2, <3>3
    <2> QED BY <2>2, <2>3
  <1>4. MemoryTypeOK'
    BY <1>1, <1>2, <1>3 DEF MemoryTypeOK
  <1>5. ASSUME NEW r \in Runs PROVE RunFits(r)'
    <2>1. \A q \in Sessions : transcript[q].lines # <<>> => transcript'[q].lines # <<>>
      BY <1>1, <1>3
    <2>2. RunFits(r) /\ run[r] \in IndexRun
      BY <1>1 DEF MemoryInv
    <2> QED BY <1>2, <2>1, <2>2, RunKept
  <1>6. ASSUME NEW q \in Sessions PROVE SessionFits(q)'
    <2>1. SessionFits(q)
      BY DEF MemoryInv
    <2>2. CASE q = s
      <3>1. transcript'[q] = u
        BY <1>1, <1>3, <2>2
      <3> QED BY <1>1, <1>2, <1>3, <2>1, <2>2, <3>1, SessionGrows
    <2>3. CASE q # s
      <3>1. transcript'[q] = transcript[q]
        BY <1>1, <1>3, <2>3
      <3> QED BY <1>2, <2>1, <3>1, SessionKept
    <2> QED BY <2>2, <2>3
  <1> QED BY <1>4, <1>5, <1>6 DEF MemoryInv

\* A transcript is replaced: no row and no chunk of the old one speaks of the new one.
LEMMA NextRewrite ==
    ASSUME MemoryInv, NEW s \in Sessions, Rewrite(s)
    PROVE  MemoryInv'
  <1>1. MemoryTypeOK /\ transcript \in [Sessions -> Transcript] /\ run \in [Runs -> IndexRun]
        /\ excused \in [Sessions -> SUBSET Nat] /\ files \in [Sessions -> Row]
        /\ chunks \in [Sessions -> SUBSET Chunk]
    BY DEF MemoryInv, MemoryTypeOK
  <1>2. UNCHANGED <<files, chunks, excluded, current, run, shifted>>
        /\ excused' = [excused EXCEPT ![s] = {}]
    BY DEF Rewrite
  <1>3. PICK kind \in Kinds :
            transcript' = [transcript EXCEPT ![s] = [lines |-> <<kind>>, half |-> FALSE, gen |-> @.gen + 1]]
    BY DEF Rewrite
  <1> DEFINE t == transcript[s]
             u == [lines |-> <<kind>>, half |-> FALSE, gen |-> t.gen + 1]
  <1>4. u \in Transcript /\ u.gen = t.gen + 1 /\ t.gen \in Nat /\ u.lines # <<>> /\ u.half = FALSE
    BY <1>1 DEF Transcript
  <1>5. transcript' \in [Sessions -> Transcript] /\ transcript'[s] = u
        /\ \A q \in Sessions \ {s} : transcript'[q] = transcript[q]
    BY <1>1, <1>3, <1>4
  <1> HIDE DEF u
  <1>6. MemoryTypeOK'
    <2>1. excused' \in [Sessions -> SUBSET Nat]
      BY <1>1, <1>2
    <2>2. run' = run /\ files' = files /\ chunks' = chunks /\ excluded' = excluded /\ current' = current
          /\ shifted' = shifted
      BY <1>2
    <2> QED BY <1>1, <1>5, <2>1, <2>2 DEF MemoryTypeOK
  <1>7. ASSUME NEW r \in Runs PROVE RunFits(r)'
    <2>1. \A q \in Sessions : transcript[q].lines # <<>> => transcript'[q].lines # <<>>
      BY <1>4, <1>5
    <2>2. RunFits(r) /\ run[r] \in IndexRun
      BY <1>1 DEF MemoryInv
    <2> QED BY <1>2, <2>1, <2>2, RunKept
  <1>8. ASSUME NEW q \in Sessions PROVE SessionFits(q)'
    <2>1. SessionFits(q)
      BY DEF MemoryInv
    <2>2. CASE q = s
      <3>1. ChunksFit(t, chunks[s]) /\ FileFits(t, files[s], chunks[s], excused[s])
        BY <2>1, <2>2 DEF SessionFits
      <3>2. files[s].gen \in Nat /\ files[s].gen < u.gen /\ \A c \in chunks[s] : c.gen \in Nat /\ c.gen < u.gen
        <4>1. files[s].gen \in Nat /\ \A c \in chunks[s] : c.gen \in Nat
          BY <1>1 DEF Row, Chunk
        <4>2. files[s].gen <= t.gen /\ \A c \in chunks[s] : c.gen <= t.gen
          BY <3>1 DEF FileFits, RowFits, ChunksFit
        <4> QED BY <1>4, <4>1, <4>2
      <3>3. TranscriptFits(u)
        BY <1>4 DEF TranscriptFits
      <3>4. ChunksFit(u, chunks[s])
        BY <1>4, <3>1, <3>2 DEF ChunksFit
      <3>5. FileFits(u, files[s], chunks[s], {})
        BY <1>4, <3>1, <3>2 DEF FileFits, RowFits
      <3>6. FileNumbered(u, files[s], chunks[s])
        BY <1>4, <3>2 DEF FileNumbered
      <3>7. ASSUME NEW r \in Runs, run[r].at = {s}
            PROVE  HeldFits(u, run[r], chunks[s], {}) /\ HeldNumbered(u, run[r], chunks[s])
        <4>1. HeldFits(t, run[r], chunks[s], excused[s])
          BY <2>1, <2>2, <3>7 DEF SessionFits
        <4>2. run[r].row.gen \in Nat /\ run[r].row.gen < u.gen
          BY <1>1, <1>4, <4>1 DEF HeldFits, RowFits, IndexRun, Row
        <4> QED BY <1>4, <4>1, <4>2 DEF HeldFits, HeldNumbered, RowFits
      <3>8. excused'[s] = {} /\ files'[s] = files[s] /\ chunks'[s] = chunks[s] /\ run' = run /\ shifted' = shifted
        BY <1>1, <1>2
      <3> QED BY <1>5, <2>2, <3>3, <3>4, <3>5, <3>6, <3>7, <3>8 DEF SessionFits
    <2>3. CASE q # s
      <3>1. transcript'[q] = transcript[q] /\ excused'[q] = excused[q]
        BY <1>1, <1>2, <1>5, <2>3
      <3> QED BY <1>2, <2>1, <3>1, SessionKept
    <2> QED BY <2>2, <2>3
  <1> QED BY <1>6, <1>7, <1>8 DEF MemoryInv

-----------------------------------------------------------------------------
(* Runs start, end and die.                                                  *)

\* A run that goes on holds no session.
LEMMA OnwardFits ==
    ASSUME NEW state \in IndexRun, state.at = {}
    PROVE  /\ Onward(state) \in IndexRun /\ Onward(state).at = {} /\ Onward(state).todo = state.todo
           /\ Onward(state).step \in {"idle", "look"}
           /\ Onward(state).step = "idle" => Onward(state).todo = {} /\ Onward(state).late = {}
           /\ Onward(state).todo # {} => Onward(state).late = state.late
  <1>1. Idle \in IndexRun /\ Idle.at = {} /\ Idle.todo = {} /\ Idle.late = {} /\ Idle.step = "idle"
    BY DEF Idle, IndexRun, NoRow, Row
  <1> QED BY <1>1 DEF Onward, IndexRun

\* A run takes up a state in which it holds no session.
LEMMA LetsGo ==
    ASSUME MemoryInv, NEW r \in Runs, NEW state \in IndexRun, state.at = {},
           state.step \in {"idle", "look"}, state.step = "idle" => state.todo = {} /\ state.late = {},
           \A s \in state.todo : transcript[s].lines # <<>>, state.todo \cap excluded \subseteq state.late,
           run' = [run EXCEPT ![r] = state], current' \in BOOLEAN,
           UNCHANGED <<transcript, files, chunks, excluded, excused, shifted>>
    PROVE  MemoryInv'
  <1>1. MemoryTypeOK /\ run \in [Runs -> IndexRun]
    BY DEF MemoryInv, MemoryTypeOK
  <1>2. run' \in [Runs -> IndexRun] /\ run'[r] = state /\ \A q \in Runs \ {r} : run'[q] = run[q]
    BY <1>1
  <1>3. MemoryTypeOK'
    BY <1>1, <1>2 DEF MemoryTypeOK
  <1>4. ASSUME NEW q \in Runs PROVE RunFits(q)'
    <2>1. CASE q = r
      BY <1>2, <2>1 DEF RunFits
    <2>2. CASE q # r
      <3>1. RunFits(q) /\ run[q] \in IndexRun /\ run'[q] = run[q]
        BY <1>1, <1>2, <2>2 DEF MemoryInv
      <3> QED BY <3>1, RunKept
    <2> QED BY <2>1, <2>2
  <1>5. ASSUME NEW s \in Sessions PROVE SessionFits(s)'
    <2>1. SessionFits(s)
      BY DEF MemoryInv
    <2>2. \A q \in Runs : run'[q].at = {s} => q # r /\ run'[q] = run[q]
      BY <1>2
    <2> QED BY <2>1, <2>2, SessionKept
  <1> QED BY <1>3, <1>4, <1>5 DEF MemoryInv

\* A run that has chosen its files and looked at none.
LEMMA ListedFits ==
    ASSUME MemoryInv, NEW full \in BOOLEAN, NEW S \in SUBSET Listed
    PROVE  /\ LET state == [Idle EXCEPT !.todo = S, !.full = full]
              IN  state \in IndexRun /\ state.at = {} /\ state.todo = S /\ state.late = {}
           /\ LET state == [Idle EXCEPT !.todo = S]
              IN  state \in IndexRun /\ state.at = {} /\ state.todo = S /\ state.late = {}
  BY DEF Listed, Idle, IndexRun, NoRow, Row

\* A run begins or ends.
LEMMA NextStarts ==
    ASSUME MemoryInv, NEW r \in Runs, NEW s,
           (StartHook(r, s) /\ s \in Sessions) \/ StartIndex(r) \/ Finish(r) \/ Die(r)
    PROVE  MemoryInv'
  <1>1. UNCHANGED <<transcript, files, chunks, excluded, excused, shifted>>
    BY DEF StartHook, StartIndex, Finish, Die
  <1>2. current' \in BOOLEAN
    <2>1. current \in BOOLEAN /\ run[r].full \in BOOLEAN
      BY DEF MemoryInv, MemoryTypeOK, IndexRun
    <2> QED BY <2>1 DEF StartHook, StartIndex, Finish, Die
  <1>3. \A q \in Listed : q \in Sessions /\ q \notin excluded /\ transcript[q].lines # <<>>
    BY DEF Listed, Exists
  <1>4. CASE (StartHook(r, s) /\ s \in Sessions) \/ StartIndex(r)
    <2>1. PICK state \in IndexRun : /\ state.at = {} /\ state.todo \in SUBSET Listed /\ state.late = {}
                                    /\ run' = [run EXCEPT ![r] = Onward(state)]
      <3>1. CASE StartHook(r, s) /\ s \in Sessions
        <4> DEFINE S == IF s \in excluded THEN Listed ELSE {s}
        <4>1. S \in SUBSET Listed
          BY <3>1 DEF StartHook, Listed
        <4>2. run' = [run EXCEPT ![r] = Onward([Idle EXCEPT !.todo = S])]
          BY <3>1 DEF StartHook, Become
        <4> HIDE DEF S
        <4> DEFINE state == [Idle EXCEPT !.todo = S]
        <4>3. state \in IndexRun /\ state.at = {} /\ state.todo = S /\ state.late = {}
          BY <4>1, ListedFits
        <4> HIDE DEF state
        <4> QED BY <4>1, <4>2, <4>3 DEF state
      <3>2. CASE StartIndex(r)
        <4> DEFINE state == [Idle EXCEPT !.todo = Listed, !.full = TRUE]
        <4>1. state \in IndexRun /\ state.at = {} /\ state.todo = Listed /\ state.late = {}
          BY ListedFits
        <4>2. run' = [run EXCEPT ![r] = Onward(state)]
          BY <3>2 DEF StartIndex, Become
        <4> HIDE DEF state
        <4> QED BY <4>1, <4>2
      <3> QED BY <1>4, <3>1, <3>2
    <2> DEFINE S == state.todo
    <2>4. /\ Onward(state) \in IndexRun /\ Onward(state).at = {} /\ Onward(state).todo = S
          /\ Onward(state).step \in {"idle", "look"}
          /\ Onward(state).step = "idle" => Onward(state).todo = {} /\ Onward(state).late = {}
      BY <2>1, OnwardFits
    <2>5. /\ \A q \in Onward(state).todo : transcript[q].lines # <<>>
          /\ Onward(state).todo \cap excluded \subseteq Onward(state).late
      BY <1>3, <2>1, <2>4
    <2> QED BY <1>1, <1>2, <2>1, <2>4, <2>5, LetsGo
  <1>5. CASE Finish(r) \/ Die(r)
    <2>1. Idle \in IndexRun /\ Idle.at = {} /\ Idle.todo = {} /\ Idle.late = {} /\ Idle.step = "idle"
      BY DEF Idle, IndexRun, NoRow, Row
    <2>2. run' = [run EXCEPT ![r] = Idle]
      BY <1>5 DEF Finish, Die, Become
    <2> QED BY <1>1, <1>2, <2>1, <2>2, LetsGo
  <1> QED BY <1>4, <1>5

\* A rebuild: everything is read again, and what runs hold is stale.
LEMMA NextRebuild ==
    ASSUME MemoryInv, NEW r \in Runs, StartRebuild(r)
    PROVE  MemoryInv'
  <1> DEFINE state == [Idle EXCEPT !.todo = Listed, !.full = TRUE]
  <1>1. MemoryTypeOK /\ run \in [Runs -> IndexRun]
    BY DEF MemoryInv, MemoryTypeOK
  <1>2. /\ run' = [q \in Runs |-> IF q = r THEN Onward(state)
                                  ELSE [run[q] EXCEPT !.stale = (run[q].step = "write")]]
        /\ files' = [s \in Sessions |-> NoRow] /\ chunks' = [s \in Sessions |-> {}] /\ current' = FALSE
        /\ excused' = [s \in Sessions |-> {}] /\ shifted' = {}
        /\ UNCHANGED <<transcript, excluded>>
    BY DEF StartRebuild
  <1>3. state \in IndexRun /\ state.at = {} /\ state.todo = Listed /\ state.late = {}
    BY ListedFits
  <1> HIDE DEF state
  <1>4. /\ Onward(state) \in IndexRun /\ Onward(state).at = {} /\ Onward(state).todo = Listed
        /\ Onward(state).step \in {"idle", "look"}
        /\ Onward(state).step = "idle" => Onward(state).todo = {} /\ Onward(state).late = {}
    BY <1>3, OnwardFits
  <1>5. /\ run'[r] = Onward(state)
        /\ \A q \in Runs \ {r} : /\ run'[q] \in IndexRun
                                 /\ run'[q].step = run[q].step /\ run'[q].todo = run[q].todo
                                 /\ run'[q].at = run[q].at /\ run'[q].late = run[q].late
                                 /\ run'[q].row = run[q].row
                                 /\ run'[q].stale = (run[q].step = "write")
    BY <1>1, <1>2 DEF IndexRun
  <1>6. NoRow \in Row
    BY DEF NoRow, Row
  <1>7. MemoryTypeOK'
    BY <1>1, <1>2, <1>4, <1>5, <1>6 DEF MemoryTypeOK
  <1>8. ASSUME NEW q \in Runs PROVE RunFits(q)'
    <2>1. CASE q = r
      BY <1>2, <1>4, <1>5, <2>1 DEF RunFits, Listed, Exists
    <2>2. CASE q # r
      BY <1>2, <1>5, <2>2 DEF MemoryInv, RunFits
    <2> QED BY <2>1, <2>2
  <1>9. ASSUME NEW s \in Sessions PROVE SessionFits(s)'
    <2>1. SessionFits(s) /\ transcript[s].gen > 0 /\ transcript[s].gen \in Nat
      BY <1>1 DEF MemoryInv, MemoryTypeOK, SessionFits, TranscriptFits, Transcript
    <2>2. files'[s] = NoRow /\ chunks'[s] = {} /\ transcript'[s] = transcript[s] /\ excused'[s] = {}
      BY <1>2
    <2>3. /\ TranscriptFits(transcript[s]) /\ ChunksFit(transcript[s], {})
          /\ FileFits(transcript[s], NoRow, {}, {}) /\ FileNumbered(transcript[s], NoRow, {})
      BY <2>1 DEF SessionFits, ChunksFit, PartsEnd, FileFits, RowFits, FileNumbered, NoRow
    <2>4. ASSUME NEW q \in Runs, run'[q].at = {s}
          PROVE  HeldFits(transcript[s], run'[q], {}, {}) /\ HeldNumbered(transcript[s], run'[q], {})
      <3>1. q # r /\ run[q].at = {s}
        BY <1>4, <1>5, <2>4
      <3>2. run'[q].stale /\ run'[q].row = run[q].row
        BY <1>5, <3>1 DEF MemoryInv, RunFits
      <3>3. HeldFits(transcript[s], run[q], chunks[s], excused[s])
        BY <2>1, <3>1 DEF SessionFits
      <3> QED BY <3>2, <3>3 DEF HeldFits, HeldNumbered
    <2> QED BY <2>2, <2>3, <2>4 DEF SessionFits
  <1> QED BY <1>7, <1>8, <1>9 DEF MemoryInv

-----------------------------------------------------------------------------
(* A run looks at a file.                                                    *)

\* A row that counts no line as read fits any transcript.
LEMMA NothingCounted ==
    ASSUME NEW t \in Transcript, NEW row, row.lines = 0, row.turns = 0, NEW cs, NEW ex
    PROVE  Covered(t, row, cs, ex) /\ row.lines <= Len(t.lines) /\ Counted(t, row)
  <1>1. Len(t.lines) \in Nat /\ Upto(t, 0) = 0
    BY WholeLines, UptoType
  <1>2. Covered(t, row, cs, ex)
    BY DEF Covered
  <1>3. 1 .. row.lines = {} /\ row.turns = Upto(t, row.lines)
    BY <1>1
  <1> QED BY <1>1, <1>2, <1>3 DEF Counted

\* The file is unchanged.
LEMMA LookPasses ==
    ASSUME MemoryInv, NEW r \in Runs, NEW s \in Sessions, Look(r, s),
           files[s].gen = transcript[s].gen, files[s].size = Size(transcript[s])
    PROVE  MemoryInv'
  <1> DEFINE state == [run[r] EXCEPT !.todo = @ \ {s}]
  <1>1. run[r].step = "look" /\ run' = [run EXCEPT ![r] = Onward(state)]
        /\ UNCHANGED <<transcript, files, chunks, excluded, current, excused, shifted>>
    BY DEF Look, Become
  <1>2. run[r] \in IndexRun /\ RunFits(r) /\ current \in BOOLEAN
    BY DEF MemoryInv, MemoryTypeOK
  <1>3. state \in IndexRun /\ state.at = {} /\ state.todo = run[r].todo \ {s} /\ state.late = run[r].late
    BY <1>1, <1>2 DEF IndexRun, RunFits
  <1> HIDE DEF state
  <1>4. /\ Onward(state) \in IndexRun /\ Onward(state).at = {} /\ Onward(state).todo = state.todo
        /\ Onward(state).step \in {"idle", "look"}
        /\ Onward(state).step = "idle" => Onward(state).todo = {} /\ Onward(state).late = {}
        /\ Onward(state).todo # {} => Onward(state).late = state.late
    BY <1>3, OnwardFits
  <1>5. \A q \in Onward(state).todo : transcript[q].lines # <<>>
    BY <1>2, <1>3, <1>4 DEF RunFits
  <1>6. Onward(state).todo \cap excluded \subseteq Onward(state).late
    BY <1>2, <1>3, <1>4 DEF RunFits
  <1> QED BY <1>1, <1>2, <1>4, <1>5, <1>6, LetsGo

\* The run takes the file up, with the row it goes on from.
LEMMA LookTakes ==
    ASSUME MemoryInv, NEW r \in Runs, NEW s \in Sessions, Look(r, s),
           ~(files[s].gen = transcript[s].gen /\ files[s].size = Size(transcript[s]))
    PROVE  MemoryInv'
  <1> DEFINE t == transcript[s]
             row == files[s]
             smaller == Size(t) < row.size
             from == IF Size(t) >= row.size THEN row ELSE NoRow
             held == [from EXCEPT !.gen = t.gen, !.size = Size(t)]
             stale == row.gen \notin {0, t.gen} /\ ~smaller
  <1>1. /\ run[r].step = "look" /\ s \in run[r].todo
        /\ run' = [q \in Runs |->
                    IF q # r THEN [run[q] EXCEPT !.stale = @ \/ (smaller /\ run[q].at = {s})]
                    ELSE [run[r] EXCEPT !.todo = @ \ {s}, !.step = "write", !.at = {s},
                                        !.row = held, !.stale = stale]]
        /\ chunks' = (IF smaller THEN [chunks EXCEPT ![s] = {}] ELSE chunks)
        /\ shifted' = shifted \ (IF smaller THEN {s} ELSE {})
        /\ UNCHANGED <<transcript, files, excluded, current, used, excused>>
    BY DEF Look, StartOf
  <1>2. /\ transcript \in [Sessions -> Transcript] /\ files \in [Sessions -> Row]
        /\ chunks \in [Sessions -> SUBSET Chunk] /\ run \in [Runs -> IndexRun]
        /\ shifted \subseteq Sessions /\ MemoryTypeOK /\ SessionFits(s)
    BY DEF MemoryInv, MemoryTypeOK
  <1>3. t \in Transcript /\ row \in Row /\ t.gen \in Nat /\ t.gen > 0
    BY <1>2 DEF SessionFits, TranscriptFits, Transcript
  <1>4. Size(t) \in Nat
    <2>1. t.lines \in Seq(Kinds) /\ (t.half => t.lines # <<>>)
      BY <1>2 DEF SessionFits, TranscriptFits, Transcript
    <2>2. Len(t.lines) \in Nat /\ (t.half => Len(t.lines) > 0)
      BY <2>1
    <2> QED BY <2>2 DEF Size
  <1>5. from \in Row /\ from.lines \in Nat
    BY <1>3 DEF NoRow, Row
  <1>6. held \in Row /\ held.gen = t.gen /\ held.size = Size(t) /\ held.lines = from.lines /\ held.turns = from.turns
    <2> HIDE DEF from, t
    <2> QED BY <1>3, <1>4, <1>5 DEF Row
  <1>7. stale \in BOOLEAN /\ smaller \in BOOLEAN
    OBVIOUS
  <1> HIDE DEF held, stale
  <1>8. /\ run'[r] \in IndexRun
        /\ run'[r].step = "write" /\ run'[r].at = {s} /\ run'[r].todo = run[r].todo \ {s}
        /\ run'[r].row = held /\ run'[r].stale = stale /\ run'[r].late = run[r].late
    <2>1. run[r] \in IndexRun
      BY <1>2
    <2> DEFINE new == [run[r] EXCEPT !.todo = @ \ {s}, !.step = "write", !.at = {s}, !.row = held,
                                     !.stale = stale]
    <2>2. run'[r] = new
      BY <1>1
    <2>3. /\ new \in IndexRun
          /\ new.step = "write" /\ new.at = {s} /\ new.todo = run[r].todo \ {s} /\ new.row = held
          /\ new.stale = stale /\ new.late = run[r].late
      <3> HIDE DEF t, row, from, smaller
      <3>1. new.step = "write" /\ new.at = {s} /\ new.todo = run[r].todo \ {s}
        BY <2>1 DEF IndexRun
      <3>2. new.row = held /\ new.stale = stale /\ new.late = run[r].late
        BY <2>1 DEF IndexRun
      <3>3. new \in IndexRun
        BY <1>6, <1>7, <2>1 DEF IndexRun
      <3> QED BY <3>1, <3>2, <3>3
    <2> HIDE DEF new
    <2> QED BY <2>2, <2>3
  <1>9. ASSUME NEW q \in Runs \ {r}
        PROVE  /\ run'[q] \in IndexRun /\ run'[q].step = run[q].step /\ run'[q].at = run[q].at
               /\ run'[q].todo = run[q].todo /\ run'[q].row = run[q].row /\ run'[q].late = run[q].late
               /\ run'[q].stale = (run[q].stale \/ (smaller /\ run[q].at = {s}))
    <2>1. run[q] \in IndexRun
      BY <1>2
    <2>2. run'[q] = [run[q] EXCEPT !.stale = @ \/ (smaller /\ run[q].at = {s})]
      BY <1>1, <1>9
    <2> HIDE DEF smaller
    <2> QED BY <1>7, <2>1, <2>2 DEF IndexRun
  <1>10. run' \in [Runs -> IndexRun]
    <2>1. \A q \in Runs : run'[q] \in IndexRun
      BY <1>8, <1>9
    <2> QED BY <1>1, <2>1
  <1>11. chunks' \in [Sessions -> SUBSET Chunk] /\ shifted' \subseteq Sessions
         /\ chunks'[s] = (IF smaller THEN {} ELSE chunks[s])
         /\ \A q \in Sessions \ {s} : chunks'[q] = chunks[q] /\ (q \in shifted => q \in shifted')
    BY <1>1, <1>2
  <1>12. MemoryTypeOK'
    BY <1>1, <1>2, <1>10, <1>11 DEF MemoryTypeOK
  <1>13. ASSUME NEW q \in Runs PROVE RunFits(q)'
    <2>1. RunFits(q) /\ run[q] \in IndexRun
      BY <1>2 DEF MemoryInv
    <2>2. CASE q = r
      <3>1. run[r].todo \cup run[r].at = run'[r].todo \cup run'[r].at
        BY <1>1, <1>8, <2>1, <2>2 DEF RunFits
      <3>2. \A p \in run'[r].todo \cup run'[r].at : transcript'[p].lines # <<>>
        BY <1>1, <2>1, <2>2, <3>1 DEF RunFits
      <3>3. (run'[r].todo \cup run'[r].at) \cap excluded' \subseteq run'[r].late
        BY <1>1, <1>8, <2>1, <2>2, <3>1 DEF RunFits
      <3> QED BY <1>8, <2>2, <3>2, <3>3 DEF RunFits
    <2>3. CASE q # r
      BY <1>1, <1>9, <2>1, <2>3 DEF RunFits
    <2> QED BY <2>2, <2>3
  <1>14. ASSUME NEW q \in Sessions, q # s PROVE SessionFits(q)'
    <2>1. SessionFits(q)
      BY DEF MemoryInv
    <2>2. ASSUME NEW p \in Runs, run'[p].at = {q}
          PROVE  run[p].at = {q} /\ run'[p].row = run[p].row /\ (run[p].stale => run'[p].stale)
      <3>1. p # r
        BY <1>8, <1>14, <2>2
      <3> QED BY <1>9, <2>2, <3>1
    <2>3. chunks'[q] = chunks[q] /\ (q \in shifted => q \in shifted')
      BY <1>11, <1>14
    <2> HIDE DEF smaller
    <2> QED BY <1>1, <2>1, <2>2, <2>3, SessionKept
  <1>15. SessionFits(s)'
    <2> DEFINE cs == chunks[s]
               ex == excused[s]
    <2>1. /\ TranscriptFits(t) /\ ChunksFit(t, cs) /\ FileFits(t, row, cs, ex)
          /\ s \notin shifted => FileNumbered(t, row, cs)
          /\ row.gen \in Nat /\ row.lines \in Nat /\ row.size \in Nat
      BY <1>2, <1>3 DEF SessionFits, Row
    <2>2. transcript'[s] = t /\ files'[s] = row /\ excused'[s] = ex
      BY <1>1
    <2>3. CASE smaller
      <3>1. chunks'[s] = {} /\ ~stale /\ from = NoRow /\ row.gen # t.gen /\ row.gen # 0
        <4>1. from = NoRow
          BY <1>4, <2>1, <2>3
        <4>2. row.gen # t.gen
          BY <1>4, <2>1, <2>3 DEF FileFits, RowFits
        <4>3. row.gen # 0
          BY <1>4, <2>1, <2>3 DEF FileFits, NoRow
        <4> QED BY <1>11, <2>3, <4>1, <4>2, <4>3 DEF stale
      <3>2. ChunksFit(t, {}) /\ FileFits(t, row, {}, ex) /\ FileNumbered(t, row, {})
        BY <2>1, <3>1 DEF ChunksFit, PartsEnd, FileFits, FileNumbered
      <3>3. ASSUME NEW p \in Runs, run'[p].at = {s}
            PROVE  HeldFits(t, run'[p], {}, ex) /\ HeldNumbered(t, run'[p], {})
        <4>1. CASE p = r
          <5>1. run'[p].row = held /\ held.lines = 0 /\ held.turns = 0 /\ held.gen = t.gen /\ held.size = Size(t)
            BY <1>6, <1>8, <3>1, <4>1 DEF NoRow
          <5>2. RowFits(t, held) /\ Covered(t, held, {}, ex) /\ held.lines <= Len(t.lines)
            BY <1>3, <1>4, <5>1, WholeLines DEF RowFits, Covered
          <5>3. Counted(t, held)
            BY <1>3, <5>1, NothingCounted
          <5> HIDE DEF t
          <5> QED BY <1>3, <5>1, <5>2, <5>3 DEF HeldFits, HeldNumbered
        <4>2. CASE p # r
          <5>1. run'[p].stale /\ run'[p].row = run[p].row /\ run[p].at = {s}
            BY <1>9, <2>3, <3>3, <4>2
          <5>2. HeldFits(t, run[p], cs, ex)
            BY <1>2, <5>1 DEF SessionFits
          <5> QED BY <5>1, <5>2 DEF HeldFits, HeldNumbered
        <4> QED BY <4>1, <4>2
      <3> HIDE DEF t, row, cs, ex, smaller, from
      <3> QED BY <2>1, <2>2, <3>1, <3>2, <3>3 DEF SessionFits
    <2>4. CASE ~smaller
      <3>1. chunks'[s] = cs /\ from = row /\ shifted' = shifted /\ (stale <=> row.gen \notin {0, t.gen})
        BY <1>1, <1>4, <1>11, <2>1, <2>4 DEF stale
      <3>2. ASSUME NEW p \in Runs, run'[p].at = {s}
            PROVE  HeldFits(t, run'[p], cs, ex) /\ (s \notin shifted => HeldNumbered(t, run'[p], cs))
        <4>1. CASE p = r
          <5>1. /\ run'[p].row = held /\ held.lines = row.lines /\ held.turns = row.turns /\ held.gen = t.gen
                /\ held.size = Size(t) /\ (run'[p].stale <=> row.gen \notin {0, t.gen})
            BY <1>6, <1>8, <3>1, <4>1
          <5> HIDE DEF t, row, cs, ex, from, smaller
          <5>2. RowFits(t, held)
            BY <1>3, <1>4, <2>1, <5>1 DEF RowFits, FileFits
          <5>3. CASE row.gen = 0
            <6>1. held.lines = 0 /\ held.turns = 0 /\ cs = {}
              BY <2>1, <5>1, <5>3 DEF FileFits, NoRow
            <6>2. Covered(t, held, cs, ex) /\ held.lines <= Len(t.lines) /\ Counted(t, held)
              BY <1>3, <6>1, NothingCounted
            <6> QED BY <1>3, <5>1, <5>2, <6>1, <6>2 DEF HeldFits, HeldNumbered
          <5>4. CASE row.gen = t.gen
            <6>1. row.lines <= Len(t.lines) /\ Covered(t, row, cs, ex)
              BY <2>1, <5>4 DEF FileFits
            <6>2. Covered(t, held, cs, ex) /\ held.lines <= Len(t.lines)
              BY <5>1, <6>1 DEF Covered
            <6>3. s \notin shifted => Counted(t, held) /\ ~\E c \in cs : c.gen # t.gen
              BY <2>1, <5>1, <5>4 DEF FileNumbered, Counted
            <6> QED BY <1>3, <5>1, <5>2, <6>2, <6>3 DEF HeldFits, HeldNumbered
          <5>5. CASE row.gen \notin {0, t.gen}
            <6>1. run'[p].stale /\ held.lines > 0
              BY <2>1, <5>1, <5>5 DEF FileFits
            <6> QED BY <1>3, <5>1, <5>2, <6>1 DEF HeldFits, HeldNumbered
          <5> QED BY <5>3, <5>4, <5>5
        <4>2. CASE p # r
          <5>1. run'[p].stale = run[p].stale /\ run'[p].row = run[p].row /\ run[p].at = {s}
            BY <1>9, <2>4, <3>2, <4>2, <1>2 DEF IndexRun
          <5>2. HeldFits(t, run[p], cs, ex) /\ (s \notin shifted => HeldNumbered(t, run[p], cs))
            BY <1>2, <5>1 DEF SessionFits
          <5> QED BY <5>1, <5>2 DEF HeldFits, HeldNumbered
        <4> QED BY <4>1, <4>2
      <3> HIDE DEF t, row, cs, ex, smaller, from
      <3> QED BY <2>1, <2>2, <3>1, <3>2 DEF SessionFits
    <2> QED BY <2>3, <2>4
  <1> QED BY <1>12, <1>13, <1>14, <1>15 DEF MemoryInv

-----------------------------------------------------------------------------
(* A run writes what it has read.                                            *)

\* What a write puts into the row and among the excused lines.
LEMMA WrittenTypes ==
    ASSUME NEW t \in Transcript, NEW row \in Row, NEW cs \in SUBSET Chunk, PartsEnd(cs)
    PROVE  /\ NextTurn(TurnsRead(t, row), row.turns, Joins(t, row, cs)) \in Nat
           /\ Skipped(t, row, cs) \subseteq Nat
  <1>1. row.lines \in Nat /\ row.turns \in Nat /\ Len(t.lines) \in Nat
    BY WholeLines DEF Row
  <1>2. IsFiniteSet(ParseTurns(t, row.lines, row.turns))
    BY <1>1, TurnsCounted
  <1>3. Cardinality(TurnsRead(t, row)) \in Nat
    BY <1>2, FS_CardinalityType DEF TurnsRead
  <1>4. Joins(t, row, cs) => row.turns > 0
    BY DEF Joins, Ownerless
  <1>5. NextTurn(TurnsRead(t, row), row.turns, Joins(t, row, cs)) \in Nat
    <2> DEFINE n == Cardinality(TurnsRead(t, row))
    <2>1. NextTurn(TurnsRead(t, row), row.turns, Joins(t, row, cs)) =
              row.turns + n - (IF Joins(t, row, cs) THEN 1 ELSE 0)
      BY DEF NextTurn
    <2> HIDE DEF n
    <2>2. n \in Nat
      BY <1>3 DEF n
    <2> QED BY <1>1, <1>4, <2>1, <2>2
  <1>6. \A y \in Placed(t, row, cs) : y.user \in Nat
    BY PlacedTurns, PlacedTypes
  <1>7. Skipped(t, row, cs) \subseteq Nat
    BY <1>1, <1>6 DEF Skipped, HalfRead
  <1> QED BY <1>5, <1>7

\* What could be found or was excused still is, and what was read now.
LEMMA WrittenCovers ==
    ASSUME NEW t \in Transcript, NEW row \in Row, NEW cs \in SUBSET Chunk, PartsEnd(cs),
           NEW old \in Row, old.lines <= Len(t.lines), NEW fx, Skipped(t, row, cs) \subseteq fx,
           \A p \in 1 .. old.lines : p <= row.lines => Shows(t, cs, p) \/ p \in fx
    PROVE  Covered(t, old, cs \cup Added(t, row, cs), fx)
  <1>1. old.lines \in Nat /\ row.lines \in Nat /\ Len(t.lines) \in Nat
    BY WholeLines DEF Row
  <1>2. ASSUME NEW p \in 1 .. old.lines
        PROVE  Shows(t, cs \cup Added(t, row, cs), p) \/ p \in fx
    <2>1. CASE p > row.lines
      <3>1. p \in 1 .. Len(t.lines)
        BY <1>1
      <3>2. Shows(t, Added(t, row, cs), p) \/ p \in Skipped(t, row, cs)
        BY <2>1, <3>1, AddedCovers
      <3> QED BY <3>2 DEF Shows
    <2>2. CASE ~(p > row.lines)
      <3>1. p <= row.lines
        BY <1>1, <2>2
      <3>2. Shows(t, cs, p) \/ p \in fx
        BY <3>1
      <3> QED BY <3>2 DEF Shows
    <2> QED BY <2>1, <2>2
  <1> QED BY <1>2 DEF Covered

\* The numbers stay right where the reading is of the row's own transcript and loses no turn.
LEMMA WrittenNumbers ==
    ASSUME NEW t \in Transcript, NEW state \in IndexRun, NEW cs \in SUBSET Chunk, PartsEnd(cs),
           NEW file, NEW ex,
           HeldFits(t, state, cs, ex), HeldNumbered(t, state, cs), FileNumbered(t, file, cs),
           HalfRead(t, state.row) = {}, Ownerless(t, state.row) => Joins(t, state.row, cs),
           state.row.lines > 0 => ~state.stale /\ state.row.gen = t.gen,
           NEW row \in Row, row.gen = state.row.gen, row.lines = Len(t.lines),
           row.turns = NextTurn(TurnsRead(t, state.row), state.row.turns, Joins(t, state.row, cs))
    PROVE  FileNumbered(t, row, cs \cup Added(t, state.row, cs))
  <1> DEFINE held == state.row
             added == Added(t, state.row, cs)
  <1>1. held \in Row /\ held.lines \in Nat /\ held.turns \in Nat /\ Len(t.lines) \in Nat
    BY WholeLines DEF IndexRun, Row
  <1>2. Counted(t, held) /\ held.lines <= Len(t.lines)
    <2>1. CASE held.lines = 0
      <3>1. held.turns = 0
        BY <2>1 DEF HeldFits, RowFits
      <3> QED BY <2>1, <3>1, NothingCounted
    <2>2. CASE held.lines > 0
      BY <2>2 DEF HeldFits, HeldNumbered
    <2> QED BY <1>1, <2>1, <2>2
  <1>3. held.gen = t.gen => \A c \in cs : c.gen = t.gen
    BY DEF HeldNumbered
  <1>4. held.lines > 0 => \A c \in cs : ChunkFits(t, c)
    BY <1>3 DEF FileNumbered
  <1>5. /\ \A c \in added : ChunkFits(t, c)
        /\ 1 .. Len(t.lines) \subseteq Whole(t)
        /\ NextTurn(TurnsRead(t, held), held.turns, Joins(t, held, cs)) = Upto(t, Len(t.lines))
    BY <1>1, <1>2, <1>4, AddedFits
  <1>6. Counted(t, row)
    BY <1>5 DEF Counted
  <1>7. \A c \in added : c.gen = t.gen
    BY <1>1, AddedTypes
  <1> HIDE DEF added
  <1>8. \A c \in cs \cup added : c.gen = t.gen => ChunkFits(t, c)
    BY <1>5 DEF FileNumbered
  <1>9. (\E c \in cs \cup added : c.gen # t.gen) => row.gen # t.gen
    BY <1>3, <1>7
  <1> QED BY <1>6, <1>8, <1>9 DEF FileNumbered, added

\* The chunks of a reading and its row are committed.
LEMMA NextWrite ==
    ASSUME MemoryInv, NEW r \in Runs, NEW s \in Sessions, Write(r, s)
    PROVE  MemoryInv'
  <1> DEFINE t == transcript[s]
             row == run[r].row
             cs == chunks[s]
             ex == excused[s]
             added == Added(t, row, cs)
             joined == Joins(t, row, cs)
             next == NextTurn(TurnsRead(t, row), row.turns, joined)
             written == [row EXCEPT !.lines = Len(t.lines), !.turns = next]
             state == [run[r] EXCEPT !.at = {}, !.row = NoRow, !.stale = FALSE]
             astray == row.lines > 0 /\ (run[r].stale \/ row.gen # t.gen)
             fx == Skipped(t, row, cs) \cup (IF row.lines = 0 THEN {} ELSE ex)
                                       \cup (IF astray THEN 1 .. row.lines ELSE {})
  <1>1. /\ run[r].step = "write" /\ run[r].at = {s}
        /\ chunks' = [chunks EXCEPT ![s] = @ \cup added]
        /\ files' = [files EXCEPT ![s] = written]
        /\ run' = [run EXCEPT ![r] = Onward(state)]
        /\ excused' = [excused EXCEPT ![s] = fx]
        /\ shifted' = IF HalfRead(t, row) # {} \/ (Ownerless(t, row) /\ ~joined) \/ astray
                      THEN shifted \cup {s} ELSE shifted
        /\ UNCHANGED <<transcript, excluded, current>>
    BY DEF Write, Become
  <1>2. /\ transcript \in [Sessions -> Transcript] /\ files \in [Sessions -> Row]
        /\ chunks \in [Sessions -> SUBSET Chunk] /\ run \in [Runs -> IndexRun]
        /\ excused \in [Sessions -> SUBSET Nat]
        /\ shifted \subseteq Sessions /\ MemoryTypeOK /\ SessionFits(s) /\ RunFits(r)
    BY DEF MemoryInv, MemoryTypeOK
  <1>3. t \in Transcript /\ row \in Row /\ cs \in SUBSET Chunk /\ run[r] \in IndexRun
        /\ row.lines \in Nat /\ row.gen \in Nat /\ Len(t.lines) \in Nat
    BY <1>2, WholeLines DEF IndexRun, Row
  <1>4. /\ TranscriptFits(t) /\ ChunksFit(t, cs) /\ PartsEnd(cs)
        /\ HeldFits(t, run[r], cs, ex)
        /\ s \notin shifted => FileNumbered(t, files[s], cs) /\ HeldNumbered(t, run[r], cs)
    BY <1>1, <1>2 DEF SessionFits, ChunksFit
  <1>5. t.lines # <<>> /\ Len(t.lines) > 0
    <2>1. t.lines # <<>> /\ t.lines \in Seq(Kinds)
      BY <1>1, <1>2, <1>3 DEF RunFits, Transcript
    <2> QED BY <2>1
  <1>6. /\ added \in SUBSET Chunk /\ \A c \in added : c.gen = t.gen
    <2> HIDE DEF t, row, cs
    <2> QED BY <1>3, <1>4, AddedTypes
  <1>7. PartsEnd(cs \cup added)
    BY <1>3, <1>4, AddedTypes
  <1>8. next \in Nat /\ Skipped(t, row, cs) \subseteq Nat
    BY <1>3, <1>4, WrittenTypes
  <1>9. fx \in SUBSET Nat /\ Skipped(t, row, cs) \subseteq fx
    <2>1. ex \in SUBSET Nat /\ 1 .. row.lines \subseteq Nat
      BY <1>2, <1>3
    <2> QED BY <1>8, <2>1
  <1>10. row.lines # 0 => ex \subseteq fx
    OBVIOUS
  <1>11. astray => 1 .. row.lines \subseteq fx
    OBVIOUS
  <1> HIDE DEF next, fx
  <1>12. /\ written \in Row /\ written.lines = Len(t.lines) /\ written.turns = next
         /\ written.gen = row.gen /\ written.size = row.size
    <2> HIDE DEF row, t
    <2> QED BY <1>3, <1>8 DEF Row
  <1>13. state \in IndexRun /\ state.at = {} /\ state.todo = run[r].todo /\ state.late = run[r].late
    <2>1. NoRow \in Row
      BY DEF NoRow, Row
    <2> QED BY <1>3, <2>1 DEF IndexRun
  <1> HIDE DEF written, state, added
  <1>14. /\ Onward(state) \in IndexRun /\ Onward(state).at = {} /\ Onward(state).todo = state.todo
         /\ Onward(state).step \in {"idle", "look"}
         /\ Onward(state).step = "idle" => Onward(state).todo = {} /\ Onward(state).late = {}
         /\ Onward(state).todo # {} => Onward(state).late = state.late
    BY <1>13, OnwardFits
  <1>15. run'[r] = Onward(state) /\ run' \in [Runs -> IndexRun] /\ \A q \in Runs \ {r} : run'[q] = run[q]
    BY <1>1, <1>2, <1>14
  <1>16. /\ chunks' \in [Sessions -> SUBSET Chunk] /\ files' \in [Sessions -> Row]
         /\ excused' \in [Sessions -> SUBSET Nat] /\ shifted' \subseteq Sessions
         /\ chunks'[s] = cs \cup added /\ files'[s] = written /\ excused'[s] = fx
         /\ \A q \in Sessions \ {s} : /\ chunks'[q] = chunks[q] /\ files'[q] = files[q]
                                      /\ excused'[q] = excused[q] /\ (q \in shifted => q \in shifted')
    <2>1. chunks' \in [Sessions -> SUBSET Chunk] /\ chunks'[s] = cs \cup added
      BY <1>1, <1>2, <1>6
    <2>2. files' \in [Sessions -> Row] /\ files'[s] = written
      BY <1>1, <1>2, <1>12
    <2>3. excused' \in [Sessions -> SUBSET Nat] /\ excused'[s] = fx
      BY <1>1, <1>2, <1>9
    <2>4. shifted' \subseteq Sessions /\ shifted \subseteq shifted'
      BY <1>1, <1>2
    <2>5. \A q \in Sessions \ {s} : chunks'[q] = chunks[q] /\ files'[q] = files[q] /\ excused'[q] = excused[q]
      BY <1>1, <1>2
    <2> QED BY <2>1, <2>2, <2>3, <2>4, <2>5
  <1>17. MemoryTypeOK'
    BY <1>1, <1>2, <1>15, <1>16 DEF MemoryTypeOK
  <1>18. ASSUME NEW q \in Runs PROVE RunFits(q)'
    <2>1. CASE q = r
      <3>1. \A p \in run'[r].todo \cup run'[r].at : transcript'[p].lines # <<>>
        BY <1>1, <1>2, <1>13, <1>14, <1>15 DEF RunFits
      <3>2. (run'[r].todo \cup run'[r].at) \cap excluded' \subseteq run'[r].late
        BY <1>1, <1>2, <1>13, <1>14, <1>15 DEF RunFits
      <3> QED BY <1>14, <1>15, <2>1, <3>1, <3>2 DEF RunFits
    <2>2. CASE q # r
      <3>1. RunFits(q) /\ run[q] \in IndexRun /\ run'[q] = run[q]
        BY <1>2, <1>15, <2>2 DEF MemoryInv
      <3> QED BY <1>1, <3>1, RunKept
    <2> QED BY <2>1, <2>2
  <1>19. ASSUME NEW q \in Sessions, q # s PROVE SessionFits(q)'
    <2>1. SessionFits(q)
      BY DEF MemoryInv
    <2>2. \A p \in Runs : run'[p].at = {q} => run'[p] = run[p]
      BY <1>14, <1>15
    <2> QED BY <1>1, <1>16, <1>19, <2>1, <2>2, SessionKept
  <1>20. SessionFits(s)'
    <2>1. transcript'[s] = t /\ chunks'[s] = cs \cup added /\ files'[s] = written /\ excused'[s] = fx
      BY <1>1, <1>16
    <2>2. ChunksFit(t, cs \cup added)
      <3>1. t.gen \in Nat
        BY <1>3 DEF Transcript
      <3> QED BY <1>4, <1>6, <1>7, <3>1 DEF ChunksFit
    <2>3. ASSUME row.gen = t.gen PROVE Covered(t, written, cs \cup added, fx)
      <3>1. ASSUME NEW p \in 1 .. written.lines, p <= row.lines PROVE Shows(t, cs, p) \/ p \in fx
        <4>1. p \in 1 .. row.lines /\ row.lines > 0
          BY <1>3, <1>12, <3>1
        <4>2. CASE astray
          BY <1>11, <4>1, <4>2
        <4>3. CASE ~astray
          <5>1. Covered(t, row, cs, ex)
            BY <1>4, <2>3, <4>1, <4>3 DEF HeldFits
          <5> QED BY <1>10, <4>1, <5>1 DEF Covered
        <4> QED BY <4>2, <4>3
      <3>2. written.lines <= Len(t.lines)
        BY <1>3, <1>12
      <3> HIDE DEF t, row, cs
      <3> QED BY <1>3, <1>4, <1>9, <1>12, <3>1, <3>2, WrittenCovers DEF added
    <2>4. FileFits(t, written, cs \cup added, fx)
      BY <1>3, <1>4, <1>5, <1>12, <2>3 DEF FileFits, HeldFits, RowFits
    <2>5. ASSUME NEW q \in Runs, run'[q].at = {s}
          PROVE  /\ HeldFits(t, run'[q], cs \cup added, fx)
                 /\ s \notin shifted' => HeldNumbered(t, run'[q], cs \cup added)
      <3>1. q # r /\ run'[q] = run[q] /\ run[q].at = {s} /\ run[q].row \in Row
        BY <1>2, <1>14, <1>15, <2>5 DEF IndexRun
      <3>2. HeldFits(t, run[q], cs, ex) /\ (s \notin shifted => HeldNumbered(t, run[q], cs))
        BY <1>2, <3>1 DEF SessionFits
      <3>3. ASSUME ~run[q].stale, run[q].row.gen = t.gen
            PROVE  Covered(t, run[q].row, cs \cup added, fx)
        <4>1. run[q].row.lines <= Len(t.lines) /\ Covered(t, run[q].row, cs, ex)
          BY <3>2, <3>3 DEF HeldFits
        <4>2. ASSUME NEW p \in 1 .. run[q].row.lines, p <= row.lines PROVE Shows(t, cs, p) \/ p \in fx
          <5>1. row.lines # 0
            BY <1>3, <3>1, <4>2 DEF Row
          <5> QED BY <1>10, <4>1, <5>1 DEF Covered
        <4> HIDE DEF t, row, cs
        <4> QED BY <1>3, <1>4, <1>9, <3>1, <4>1, <4>2, WrittenCovers DEF added
      <3>4. HeldFits(t, run[q], cs \cup added, fx)
        BY <3>2, <3>3 DEF HeldFits
      <3>5. s \notin shifted' => HeldNumbered(t, run[q], cs \cup added)
        <4>1. s \notin shifted' => s \notin shifted
          BY <1>1
        <4> QED BY <1>6, <3>2, <4>1 DEF HeldNumbered
      <3> QED BY <3>1, <3>4, <3>5
    <2>6. ASSUME s \notin shifted' PROVE FileNumbered(t, written, cs \cup added)
      <3>1. s \notin shifted /\ HalfRead(t, row) = {} /\ (Ownerless(t, row) => joined) /\ ~astray
        BY <1>1, <2>6
      <3>2. row.lines > 0 => ~run[r].stale /\ row.gen = t.gen
        BY <3>1
      <3>3. written.turns = NextTurn(TurnsRead(t, row), row.turns, joined)
        BY <1>12 DEF next
      <3> HIDE DEF t, cs, ex, astray
      <3> QED BY <1>3, <1>4, <1>12, <3>1, <3>2, <3>3, WrittenNumbers DEF added
    <2> HIDE DEF t, row, cs, ex
    <2> QED BY <1>4, <2>1, <2>2, <2>4, <2>5, <2>6 DEF SessionFits
  <1> QED BY <1>17, <1>18, <1>19, <1>20 DEF MemoryInv

-----------------------------------------------------------------------------
(* Prune.                                                                    *)

\* What a prune leaves fits, the pruned lines being excused.
LEMMA PruneKeeps ==
    ASSUME MemoryInv, NEW s \in Sessions, NEW ds \in SUBSET chunks[s],
           Pruned([chunks EXCEPT ![s] = ds]),
           excused' = [excused EXCEPT ![s] = @ \cup LinesOf(chunks[s] \ ds)],
           excluded' = excluded \/ excluded' = excluded \cup {s},
           run' \in [Runs -> IndexRun],
           \A r \in Runs :
              /\ run'[r].step = run[r].step /\ run'[r].todo = run[r].todo /\ run'[r].at = run[r].at
              /\ run'[r].row = run[r].row /\ run'[r].stale = run[r].stale
              /\ run[r].late \cup ((excluded' \ excluded) \cap (run[r].todo \cup run[r].at)) \subseteq run'[r].late
              /\ run'[r].late \subseteq run[r].late \cup run[r].todo \cup run[r].at,
           UNCHANGED <<transcript, current, shifted>>
    PROVE  MemoryInv'
  <1>1. /\ files \in [Sessions -> Row] /\ chunks \in [Sessions -> SUBSET Chunk]
        /\ excused \in [Sessions -> SUBSET Nat] /\ MemoryTypeOK
    BY DEF MemoryInv, MemoryTypeOK
  <1>2. chunks' \in [Sessions -> SUBSET Chunk] /\ chunks'[s] = ds
        /\ \A q \in Sessions \ {s} : chunks'[q] = chunks[q]
    BY <1>1 DEF Pruned
  <1>3. files' = [q \in Sessions |-> IF chunks'[q] = {} THEN NoRow ELSE files[q]]
    BY DEF Pruned
  <1>4. files' \in [Sessions -> Row]
    BY <1>1, <1>3 DEF NoRow, Row
  <1>5. LinesOf(chunks[s] \ ds) \subseteq Nat
    BY <1>1 DEF LinesOf, Chunk
  <1>6. excused' \in [Sessions -> SUBSET Nat] /\ excused'[s] = excused[s] \cup LinesOf(chunks[s] \ ds)
        /\ \A q \in Sessions \ {s} : excused'[q] = excused[q]
    BY <1>1, <1>5
  <1>7. MemoryTypeOK'
    BY <1>1, <1>2, <1>4, <1>6 DEF MemoryTypeOK
  <1>8. ASSUME NEW r \in Runs PROVE RunFits(r)'
    <2>1. RunFits(r)
      BY DEF MemoryInv
    <2> QED BY <2>1 DEF RunFits
  <1>9. ASSUME NEW q \in Sessions PROVE SessionFits(q)'
    <2>1. SessionFits(q)
      BY DEF MemoryInv
    <2>2. chunks'[q] \subseteq chunks[q] /\ files'[q] = (IF chunks'[q] = {} THEN NoRow ELSE files[q])
      BY <1>2, <1>3
    <2>3. excused[q] \cup LinesOf(chunks[q] \ chunks'[q]) \subseteq excused'[q]
      <3>1. CASE q = s
        BY <1>2, <1>6, <3>1
      <3>2. CASE q # s
        BY <1>2, <1>6, <3>2 DEF LinesOf
      <3> QED BY <3>1, <3>2
    <2>4. \A r \in Runs : /\ run'[r].at = run[r].at /\ run'[r].row = run[r].row
                          /\ run'[r].stale = run[r].stale
      OBVIOUS
    <2> QED BY <1>1, <2>1, <2>2, <2>3, <2>4, SessionPruned
  <1> QED BY <1>7, <1>8, <1>9 DEF MemoryInv

\* The two kinds of prune.
LEMMA NextPrune ==
    ASSUME MemoryInv, NEW s \in Sessions, PruneSession(s) \/ PruneOlder(s)
    PROVE  MemoryInv'
  <1>1. run \in [Runs -> IndexRun] /\ chunks \in [Sessions -> SUBSET Chunk]
    BY DEF MemoryInv, MemoryTypeOK
  <1>2. CASE PruneSession(s)
    <2>1. /\ excluded' = excluded \cup {s} /\ Pruned([chunks EXCEPT ![s] = {}])
          /\ run' = [r \in Runs |-> [run[r] EXCEPT !.late = @ \cup ({s} \cap (run[r].todo \cup run[r].at))]]
          /\ excused' = [excused EXCEPT ![s] = @ \cup LinesOf(chunks[s])]
          /\ UNCHANGED <<transcript, current, shifted>>
      BY <1>2 DEF PruneSession
    <2>2. ASSUME NEW r \in Runs
          PROVE  /\ run'[r] \in IndexRun
                 /\ run'[r].step = run[r].step /\ run'[r].todo = run[r].todo /\ run'[r].at = run[r].at
                 /\ run'[r].row = run[r].row /\ run'[r].stale = run[r].stale
                 /\ run'[r].late = run[r].late \cup ({s} \cap (run[r].todo \cup run[r].at))
      <3>1. run[r] \in IndexRun
        BY <1>1
      <3>2. run'[r] = [run[r] EXCEPT !.late = @ \cup ({s} \cap (run[r].todo \cup run[r].at))]
        BY <2>1
      <3> QED BY <3>1, <3>2 DEF IndexRun
    <2>3. run' \in [Runs -> IndexRun]
      BY <2>1, <2>2
    <2>4. chunks[s] \ {} = chunks[s] /\ {} \in SUBSET chunks[s]
      OBVIOUS
    <2>5. /\ excused' = [excused EXCEPT ![s] = @ \cup LinesOf(chunks[s] \ {})]
          /\ excluded' = excluded \/ excluded' = excluded \cup {s}
      BY <2>1, <2>4
    <2>6. ASSUME NEW r \in Runs
          PROVE  /\ run[r].late \cup ((excluded' \ excluded) \cap (run[r].todo \cup run[r].at)) \subseteq run'[r].late
                 /\ run'[r].late \subseteq run[r].late \cup run[r].todo \cup run[r].at
      BY <2>1, <2>2
    <2> QED BY <2>1, <2>2, <2>3, <2>4, <2>5, <2>6, PruneKeeps
  <1>3. CASE PruneOlder(s)
    <2>1. PICK old \in SUBSET chunks[s] :
              /\ Pruned([chunks EXCEPT ![s] = @ \ old])
              /\ excused' = [excused EXCEPT ![s] = @ \cup LinesOf(old)]
      BY <1>3 DEF PruneOlder
    <2>2. UNCHANGED <<transcript, excluded, current, run, shifted>>
      BY <1>3 DEF PruneOlder
    <2> DEFINE ds == chunks[s] \ old
    <2>3. ds \in SUBSET chunks[s] /\ chunks[s] \ ds = old /\ Pruned([chunks EXCEPT ![s] = ds])
      BY <1>1, <2>1
    <2> HIDE DEF ds
    <2> QED BY <1>1, <2>1, <2>2, <2>3, PruneKeeps
  <1> QED BY <1>2, <1>3

-----------------------------------------------------------------------------
(* Every step, and what follows.                                             *)

\* Every step keeps the invariant.
LEMMA NextMemory == MemoryInv /\ [Next]_vars => MemoryInv'
  <1> SUFFICES ASSUME MemoryInv, [Next]_vars PROVE MemoryInv'
    OBVIOUS
  <1>1. ASSUME UNCHANGED vars PROVE MemoryInv'
    <2>1. UNCHANGED <<transcript, files, chunks, excluded, current, run, excused, shifted>>
      BY <1>1 DEF vars
    <2>2. MemoryTypeOK'
      BY <2>1 DEF MemoryInv, MemoryTypeOK
    <2>3. ASSUME NEW r \in Runs PROVE RunFits(r)'
      BY <2>1 DEF MemoryInv, RunFits
    <2>4. ASSUME NEW s \in Sessions PROVE SessionFits(s)'
      <3>1. SessionFits(s)
        BY DEF MemoryInv
      <3> QED BY <2>1, <3>1, SessionKept
    <2> QED BY <2>2, <2>3, <2>4 DEF MemoryInv
  <1>2. ASSUME NEW s \in Sessions, Append1(s) \/ CompleteLine(s) PROVE MemoryInv'
    BY <1>2, NextAppend
  <1>3. ASSUME NEW s \in Sessions, Rewrite(s) PROVE MemoryInv'
    BY <1>3, NextRewrite
  <1>4. ASSUME NEW s \in Sessions, PruneSession(s) \/ PruneOlder(s) PROVE MemoryInv'
    BY <1>4, NextPrune
  <1>5. ASSUME NEW r \in Runs, NEW s \in Sessions, StartHook(r, s) PROVE MemoryInv'
    BY <1>5, NextStarts
  <1>6. ASSUME NEW r \in Runs, StartIndex(r) \/ Finish(r) \/ Die(r) PROVE MemoryInv'
    BY <1>6, NextStarts
  <1>7. ASSUME NEW r \in Runs, StartRebuild(r) PROVE MemoryInv'
    BY <1>7, NextRebuild
  <1>8. ASSUME NEW r \in Runs, NEW s \in Sessions, Look(r, s) PROVE MemoryInv'
    BY <1>8, LookPasses, LookTakes
  <1>9. ASSUME NEW r \in Runs, NEW s \in Sessions, Write(r, s) PROVE MemoryInv'
    BY <1>9, NextWrite
  <1> QED BY <1>1, <1>2, <1>3, <1>4, <1>5, <1>6, <1>7, <1>8, <1>9 DEF Next

\* The index, the rows in the hands of its runs and the transcripts stay in their types, and fit
\* each other, whatever overlaps (index_file).
THEOREM IndexFits == Spec => []MemoryInv
  <1>1. Init => MemoryInv
    BY InitMemory
  <1>2. MemoryInv /\ [Next]_vars => MemoryInv'
    BY NextMemory
  <1> QED BY <1>1, <1>2, PTL DEF Spec

\* A line the index counts as read can be found, unless it was half-written when read, too short,
\* pruned, or read under a row that a rewrite or a rebuild had made stale (index_file).
THEOREM NothingIsForgotten == Spec => []NothingForgotten
  <1>1. MemoryInv => NothingForgotten
    <2> SUFFICES ASSUME MemoryInv, NEW s \in Sessions, files[s].gen = transcript[s].gen,
                        NEW p \in (1 .. files[s].lines) \cap Whole(transcript[s])
                 PROVE  Found(s, p) \/ p \in excused[s]
      BY DEF NothingForgotten
    <2>1. Covered(transcript[s], files[s], chunks[s], excused[s])
      BY DEF MemoryInv, SessionFits, FileFits
    <2> QED BY <2>1 DEF Covered, Shows, Found
  <1> QED BY <1>1, IndexFits, PTL

\* Where a session has not shifted, `show` finds the lines of a chunk under the chunk's turn
\* (parse_turns, cmd_show).
THEOREM TurnNumbersAgree == Spec => []TurnsAgree
  <1>1. MemoryInv => TurnsAgree
    <2> SUFFICES ASSUME MemoryInv, NEW s \in Sessions \ shifted, NEW c \in chunks[s],
                        c.gen = transcript[s].gen
                 PROVE  \E x \in Show(s, c.turn) :
                            x.idx = c.turn /\ {c.user, c.text} \subseteq {x.user, 0} \cup x.texts
      BY DEF TurnsAgree
    <2>1. transcript[s] \in Transcript /\ c \in Chunk /\ ChunkFits(transcript[s], c)
      BY DEF MemoryInv, MemoryTypeOK, SessionFits, FileNumbered
    <2>2. PICK x \in ParseTurns(transcript[s], 0, 0) :
              x.idx = c.turn /\ {c.user, c.text} \subseteq {x.user, 0} \cup x.texts
      BY <2>1, FitsShown
    <2>3. x.idx + 2 >= c.turn /\ x.idx <= c.turn + 2
      BY <2>1, <2>2 DEF Chunk
    <2> QED BY <2>2, <2>3 DEF Show
  <1> QED BY <1>1, IndexFits, PTL

\* What every step leaves of the chunks of a pruned session.
LEMMA PrunedChunks ==
    ASSUME MemoryInv, [Next]_vars, NEW s \in excluded
    PROVE  \/ chunks'[s] \subseteq chunks[s]
           \/ \E r \in Runs : s \in run[r].late
  <1>1. s \in Sessions /\ chunks \in [Sessions -> SUBSET Chunk]
    BY DEF MemoryInv, MemoryTypeOK
  <1>2. ASSUME NEW r \in Runs, NEW q \in Sessions, Write(r, q)
        PROVE  chunks'[s] \subseteq chunks[s] \/ \E p \in Runs : s \in run[p].late
    <2>1. CASE q = s
      BY <1>2, <2>1 DEF Write, MemoryInv, RunFits
    <2>2. CASE q # s
      BY <1>1, <1>2, <2>2 DEF Write
    <2> QED BY <2>1, <2>2
  <1>3. ASSUME NEW r \in Runs, NEW q \in Sessions, Look(r, q)
        PROVE  chunks'[s] \subseteq chunks[s]
    BY <1>1, <1>3 DEF Look
  <1>4. ASSUME NEW q \in Sessions, PruneSession(q) \/ PruneOlder(q)
        PROVE  chunks'[s] \subseteq chunks[s]
    BY <1>1, <1>4 DEF PruneSession, PruneOlder, Pruned
  <1>5. ASSUME NEW r \in Runs, StartRebuild(r) PROVE chunks'[s] \subseteq chunks[s]
    BY <1>1, <1>5 DEF StartRebuild
  <1>6. ASSUME NEW q \in Sessions, Append1(q) \/ CompleteLine(q) \/ Rewrite(q) PROVE chunks' = chunks
    BY <1>6 DEF Append1, CompleteLine, Rewrite
  <1>7. ASSUME NEW r \in Runs, NEW q \in Sessions, StartHook(r, q) PROVE chunks' = chunks
    BY <1>7 DEF StartHook
  <1>8. ASSUME NEW r \in Runs, StartIndex(r) \/ Finish(r) \/ Die(r) PROVE chunks' = chunks
    BY <1>8 DEF StartIndex, Finish, Die
  <1>9. CASE UNCHANGED vars
    BY <1>9 DEF vars
  <1> QED BY <1>2, <1>3, <1>4, <1>5, <1>6, <1>7, <1>8, <1>9 DEF Next

\* Chunks of a session pruned by name come only from a run that had chosen its files before
\* (cmd_prune, index_all).
THEOREM PrunedStaysAway == Spec => ForgottenStays
  <1>1. MemoryInv /\ [Next]_vars =>
            [\A s \in excluded : chunks'[s] \subseteq chunks[s]
                \/ \E r \in Runs : s \in run[r].late]_vars
    BY PrunedChunks
  <1>2. Spec => []MemoryInv
    BY IndexFits
  <1> QED BY <1>1, <1>2, PTL DEF Spec, ForgottenStays
=============================================================================
