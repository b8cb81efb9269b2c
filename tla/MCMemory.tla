------------------------------ MODULE MCMemory ------------------------------
(* Two sessions, two overlapping index runs and one upset; texts of a few   *)
(* characters and four rows.                                                *)
EXTENDS SessionMemory, MemorySearch, TLC

Symmetry == Permutations(Runs)
TwoSessions == {"s1", "s2"}
ThreeLinesAndOne == [s1 |-> 3, s2 |-> 1]

TextsOver(S, n) == UNION {[1..m -> S] : m \in 0..n}

(* A query of CJK text finds every text that contains it, of one character  *)
(* every text where another CJK character follows (tokenize, build_match:   *)
(* "the index and the queries share this one function").                    *)
ASSUME QueriesFindText ==
    \A text \in TextsOver(CJK \cup {"a", " "}, 4) : \A from, to \in 1..Len(text) :
        LET query == SubSeq(text, from, to)
            alone == Len(query) = 1 /\ from > 1 /\ text[from - 1] \in CJK
                         /\ (to = Len(text) \/ text[to + 1] \notin CJK)
        IN  from <= to /\ ToSet(query) \subseteq CJK /\ ~alone =>
                \A q \in ToSet(Tokenize(query)) : \E t \in ToSet(Tokenize(text)) : Matches(q, t)

(* The tokens that are looked for are some of the query's, and no token     *)
(* left out is rarer unless the index does not know it.                     *)
ASSUME RareTokensFirst ==
    LET T == {<<"a">>, <<"s">>, <<"x", "y">>}
    IN  \A df \in [T -> {0, 1, 3, 60}] : \A cutoff \in {2, 50} :
            LET tokens == SetToSeq(T)
                chosen == SelectQueryTokens(tokens, df, cutoff)
            IN  /\ chosen # <<>> /\ ToSet(chosen) \subseteq T
                /\ \A t \in T \ ToSet(chosen) : df[t] = 0 \/ \A c \in ToSet(chosen) : df[c] <= df[t]

(* Nothing of an answer is lost in its parts but line ends, and no part is  *)
(* longer than the limit.                                                   *)
Joined(texts) == SelectSeq(FlattenSeq(texts), LAMBDA c : c # NL)
ASSUME PartsKeepText ==
    \A one \in TextsOver({"a", NL}, 6) \ {<<>>}, two \in {<<"b">>, <<"b", "c">>} : \A limit \in {2, 3} :
        LET parts == SplitParts(<<one, two>>, limit)
        IN  /\ Joined(parts) = Joined(<<one, two>>)
            /\ \A i \in DOMAIN parts : Len(parts[i]) \in 1..limit

ASSUME ClipsFit ==
    \A n \in 1..9, limit \in 0..9 :
        LET text == [i \in 1..n |-> i]
            clip == ClipHeadTail(text, limit, <<"m", "m">>)
        IN  Len(clip) <= limit /\ (n > limit /\ limit > 2 => Last(clip) = n)

(* Four chunks of two or three sessions, the fourth a copy of the first.    *)
Row(i, s, p, f, r, a) ==
    [id |-> i, session |-> s, path |-> s, project |-> p, fp |-> f, rank |-> r, age |-> a]
RowSets == {{Row(1, "s", "p", "f", a, 0), Row(2, "s", "q", "g", b, 90),
             Row(3, "t", "q", "h", 3, c), Row(4, d, "p", "f", e, 0)} :
               a, b, e \in {1, 3, 9}, c \in {0, 45, 400}, d \in {"s", "t", "u"}}
(* The session that asks sees nothing of its own, no session and no content *)
(* twice, and a candidate is left out for one that is as good: of its       *)
(* session, of its content, or because TOP_K better ones were found.        *)
ASSUME RecallIsOfOthers ==
    \A rows \in RowSets : \A session \in {"s", "t", "x"} :
        LET found == Recall(rows, {"p"}, session, session, [r \in rows |-> 5], 12)
            all == Search(rows, {"p"}, session, session, OwnFingerprints(rows, session), TOP_K)
            own == OwnFingerprints(rows, session)
        IN  /\ IsPrefix(found, all) /\ Len(found) <= 2
            /\ \A i, j \in DOMAIN all :
                  i < j => /\ all[i].session # all[j].session /\ all[i].fp # all[j].fp
                           /\ Score(all[i], {"p"}) >= Score(all[j], {"p"})
            /\ \A r \in ToSet(all) : r.session # session /\ r.fp \notin own
            /\ \A r \in Candidates(rows, {"p"}) \ ToSet(all) :
                  \/ r.session = session \/ r.fp \in own
                  \/ \E o \in ToSet(all) : Score(o, {"p"}) >= Score(r, {"p"})
                        /\ (o.session = r.session \/ o.fp = r.fp \/ Len(all) = TOP_K)

(* Not true: a word and its plural meet in one token (fold_latin).          *)
PluralsMeet ==
    \A w \in TextsOver({"s", "e", "a"}, 4) : Len(w) >= 3 => FoldLatin(w \o <<"s">>) = FoldLatin(w)

(* Not true: a row is left out of the answer only for another row of the    *)
(* answer's own top: rows of the caller's session fill the pool first.      *)
PoolIsOfOthers ==
    \A rows \in RowSets :
        Search(rows, {}, "s", "s", {}, TOP_K) = <<>> => \A r \in rows : r.session = "s"
=============================================================================
