---------------------------- MODULE MemorySearch ----------------------------
(* What ccmem does with texts and with what the index returned              *)
(* (src/ccmem): tokens, parts, the ranking and the text that is injected.   *)
(* A text is a sequence of characters.  Scores are integers: a row's bm25   *)
(* (negated) is its `rank`, weights are in tenths and decay is in parts of  *)
(* a thousand.                                                              *)
EXTENDS Integers, SequencesExt, FiniteSetsExt

CONSTANTS CJK, Letters,       \* the classes of characters; all others separate
          MAX_QUERY_TOKENS, QUERY_RARE_TOKENS, CANDIDATE_POOL, TOP_K

---------------------------------------------------------------------------
(* Tokens *)

FoldLatin(w) ==
    LET Ends(suffix) == IsSuffix(suffix, w)
        Cut(n) == SubSeq(w, 1, Len(w) - n)
    IN  CASE Len(w) >= 5 /\ Ends(<<"i", "e", "s">>) -> Cut(3) \o <<"y">>
          [] Len(w) >= 5 /\ Ends(<<"e", "s">>) /\ ~Ends(<<"s", "e", "s">>) /\ ~Ends(<<"i", "e", "s">>) -> Cut(2)
          [] Len(w) >= 4 /\ Ends(<<"s">>) /\ ~Ends(<<"s", "s">>)
                /\ ~(Len(w) >= 5 /\ Ends(<<"e", "s">>) /\ ~Ends(<<"s", "e", "s">>)) -> Cut(1)
          [] OTHER -> w

(* A run of CJK characters gives its pairs, or the only one it has. *)
Bigrams(cjk) == IF Len(cjk) = 1 THEN <<cjk>>
                ELSE [i \in 1..(Len(cjk) - 1) |-> <<cjk[i], cjk[i + 1]>>]

IsCjk(ch) == ch \in CJK

Tokenize(text) ==
    LET FlushLatin(st) == IF st.latin = <<>> THEN st
                          ELSE [st EXCEPT !.tokens = Append(@, FoldLatin(st.latin)), !.latin = <<>>]
        FlushCjk(st) == IF st.cjk = <<>> THEN st
                        ELSE [st EXCEPT !.tokens = @ \o Bigrams(st.cjk), !.cjk = <<>>]
        Take(st, ch) ==
            IF IsCjk(ch) THEN [FlushLatin(st) EXCEPT !.cjk = Append(@, ch)]
            ELSE IF ch \in Letters THEN [FlushCjk(st) EXCEPT !.latin = Append(@, ch)]
            ELSE FlushCjk(FlushLatin(st))
    IN  FlushCjk(FlushLatin(
            FoldLeft(Take, [tokens |-> <<>>, latin |-> <<>>, cjk |-> <<>>], text))).tokens

(* A single CJK character matches every token that begins with it. *)
Matches(query, token) ==
    IF Len(query) = 1 /\ IsCjk(query[1]) THEN IsPrefix(query, token) ELSE token = query

(* The distinct tokens of a query, the first MAX_QUERY_TOKENS of them. *)
QueryTokens(text) ==
    LET Fresh(out, t) == IF Contains(out, t) \/ Len(out) >= MAX_QUERY_TOKENS THEN out ELSE Append(out, t)
    IN  FoldLeft(Fresh, <<>>, Tokenize(text))

(* The rarest of the tokens the index knows, without those that most chunks *)
(* have; all of them when it knows none.                                    *)
SelectQueryTokens(tokens, df, cutoff) ==
    LET known == SelectSeq(tokens, LAMBDA t : df[t] > 0)
        order == SetToSortSeq(DOMAIN known, LAMBDA i, j :
                     df[known[i]] < df[known[j]] \/ (df[known[i]] = df[known[j]] /\ i < j))
        sorted == [i \in DOMAIN known |-> known[order[i]]]
        pruned == SelectSeq(sorted, LAMBDA t : df[t] <= cutoff)
        First(s, n) == SubSeq(s, 1, IF Len(s) < n THEN Len(s) ELSE n)
    IN  IF known = <<>> THEN First(tokens, MAX_QUERY_TOKENS)
        ELSE First(IF pruned = <<>> THEN sorted ELSE pruned, QUERY_RARE_TOKENS)

---------------------------------------------------------------------------
(* Texts cut to size *)

NL == "nl"
(* A text longer than the limit keeps two fifths of the room from its head  *)
(* and the rest from its tail.                                              *)
ClipHeadTail(text, limit, marker) ==
    LET room == limit - Len(marker)
        head == (room * 2) \div 5
    IN  IF Len(text) <= limit THEN text
        ELSE IF room <= 0 THEN SubSeq(text, 1, limit)
        ELSE SubSeq(text, 1, head) \o marker \o SubSeq(text, Len(text) - (room - head) + 1, Len(text))

(* The lines of a text, each with its end. *)
LinesOfText(text) ==
    LET Take(st, ch) == IF ch = NL THEN [done |-> Append(st.done, Append(st.open, ch)), open |-> <<>>]
                        ELSE [st EXCEPT !.open = Append(@, ch)]
        end == FoldLeft(Take, [done |-> <<>>, open |-> <<>>], text)
    IN  end.done \o (IF end.open = <<>> THEN <<>> ELSE <<end.open>>)

Held(st) == IF st.cur = <<>> THEN st.out ELSE Append(st.out, st.cur)

HardSplit(seg, limit) ==
    LET Take(st, line) ==
            LET full == IF Len(line) > limit THEN (Len(line) - 1) \div limit ELSE 0
                rest == SubSeq(line, full * limit + 1, Len(line))
                flushed == IF full = 0 THEN st
                           ELSE [out |-> Held(st) \o [i \in 1..full |->
                                     SubSeq(line, (i - 1) * limit + 1, i * limit)], cur |-> <<>>]
            IN  IF flushed.cur # <<>> /\ Len(flushed.cur) + Len(rest) > limit
                THEN [out |-> Held(flushed), cur |-> rest]
                ELSE [flushed EXCEPT !.cur = @ \o rest]
    IN  IF Len(seg) <= limit THEN <<seg>>
        ELSE Held(FoldLeft(Take, [out |-> <<>>, cur |-> <<>>], LinesOfText(seg)))

(* The texts of one answer, put together while they fit. *)
SplitParts(segments, limit) ==
    LET Take(st, piece) ==
            IF st.cur # <<>> /\ Len(st.cur) + 1 + Len(piece) > limit
            THEN [out |-> Held(st), cur |-> piece]
            ELSE [st EXCEPT !.cur = IF @ = <<>> THEN piece ELSE @ \o <<NL>> \o piece]
        pieces == FlattenSeq([i \in DOMAIN segments |-> HardSplit(segments[i], limit)])
    IN  Held(FoldLeft(Take, [out |-> <<>>, cur |-> <<>>], pieces))

---------------------------------------------------------------------------
(* Ranking *)

Score(row, projects) ==
    (row.rank * (IF row.project \in projects THEN 16 ELSE 10) * 1000 * 45) \div (45 + row.age)

ByRank(rows) ==
    LET sorted == SetToSortSeq(rows, LAMBDA a, b : a.rank > b.rank \/ (a.rank = b.rank /\ a.id < b.id))
    IN  SubSeq(sorted, 1, IF Len(sorted) < CANDIDATE_POOL THEN Len(sorted) ELSE CANDIDATE_POOL)

(* The best of the caller's projects and the best of all. *)
Candidates(rows, projects) ==
    ToSet(ByRank({r \in rows : r.project \in projects})) \cup ToSet(ByRank(rows))

(* What the search returns: neither the session that asks, nor its file,    *)
(* nor a content it has itself; one row of a session and of a content.      *)
Search(rows, projects, session, path, fps, top) ==
    LET left == {r \in Candidates(rows, projects) :
                    r.session # session /\ r.path # path /\ r.fp \notin fps}
        scored == SetToSortSeq(left, LAMBDA a, b :
                      Score(a, projects) > Score(b, projects)
                      \/ (Score(a, projects) = Score(b, projects) /\ a.id < b.id))
        Take(out, r) == IF Len(out) >= top \/ \E o \in ToSet(out) : o.session = r.session \/ o.fp = r.fp
                        THEN out ELSE Append(out, r)
    IN  FoldLeft(Take, <<>>, scored)

OwnFingerprints(rows, session) == {r.fp : r \in {x \in rows : x.session = session}}

(* The hook of a prompt: what it finds is injected, as many whole entries   *)
(* as there is room for, in their order; chars: the length of each.         *)
Injected(results, chars, budget) ==
    LET Sum(n) == FoldLeft(LAMBDA a, r : a + chars[r], 0, SubSeq(results, 1, n))
    IN  SubSeq(results, 1, Max({n \in 0..Len(results) : Sum(n) <= budget}))

Recall(rows, projects, session, path, chars, budget) ==
    Injected(Search(rows, projects, session, path, OwnFingerprints(rows, session), TOP_K), chars, budget)
=============================================================================
