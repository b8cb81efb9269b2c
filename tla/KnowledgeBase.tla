---------------------------- MODULE KnowledgeBase ----------------------------
(***************************************************************************)
(* The knowledge base of the desktop assistant                             *)
(* (src/agent/mcp_servers/rag): how a text is cut into chunks, how the     *)
(* lists of several searches are fused and ranked, and what a search and a *)
(* question return.                                                        *)
(*                                                                         *)
(* A character is a value, a text a sequence of paragraphs of sentences; a *)
(* ranked list is a sequence of contents, best first.  What the two indexes find and   *)
(* what the models say (scores, in percent, and queries) is given.         *)
(***************************************************************************)
EXTENDS Integers, FiniteSets, SequencesExt

CONSTANTS
    CHUNK_SIZE, CHUNK_OVERLAP,
    RRF_K,                      \* k of the fusion
    RETRIEVAL_TOP_K, RERANK_CANDIDATES,
    HYDE_MAX_SUB,
    MAX_CHARS                   \* of the context window
ASSUME KnowledgeAssumption ==
    /\ CHUNK_SIZE \in Nat /\ CHUNK_OVERLAP \in Nat /\ CHUNK_OVERLAP < CHUNK_SIZE
    /\ RRF_K \in Nat /\ {RETRIEVAL_TOP_K, RERANK_CANDIDATES} \subseteq Nat /\ HYDE_MAX_SUB \in Nat
ASSUME TrimAssumption == MAX_CHARS \in Nat

RERANK_THRESHOLD == 10
LOW_RELEVANCE_THRESHOLD == 35
RETRY_THRESHOLD == 40
Newline == <<"newline">>

Take(s, n) == SubSeq(s, 1, IF n < Len(s) THEN n ELSE Len(s))
LastOf(s, n) == SubSeq(s, IF Len(s) > n THEN Len(s) - n + 1 ELSE 1, Len(s))
AddTo(s, e) == IF e = <<>> THEN s ELSE Append(s, e)
NoQuery == ""
AddQuery(s, q) == IF q = NoQuery \/ Contains(s, q) THEN s ELSE Append(s, q)

-----------------------------------------------------------------------------
\* A sentence that is too long is cut every CHUNK_SIZE - CHUNK_OVERLAP characters.
Stride == CHUNK_SIZE - CHUNK_OVERLAP
Pieces(sent) == [i \in 1 .. (Len(sent) + Stride - 1) \div Stride |->
                   Take(SubSeq(sent, (i - 1) * Stride + 1, Len(sent)), CHUNK_SIZE)]

\* The next sentence joins the chunk at hand, or starts one with the end of that.
AddSentence(text, sent) ==
    IF Len(sent) > CHUNK_SIZE
    THEN [chunks |-> AddTo(text.chunks, text.current) \o Pieces(sent), current |-> <<>>]
    ELSE IF text.current = <<>> THEN [text EXCEPT !.current = sent]
    ELSE IF Len(text.current) + Len(sent) + 1 <= CHUNK_SIZE
    THEN [text EXCEPT !.current = @ \o <<Newline>> \o sent]
    ELSE [chunks |-> Append(text.chunks, text.current),
          current |-> LastOf(text.current, CHUNK_OVERLAP) \o <<Newline>> \o sent]
\* A paragraph is kept whole if it fits.
Sentences(paragraphs) ==
    FlattenSeq([i \in DOMAIN paragraphs |->
        LET whole == FlattenSeq(paragraphs[i]) IN IF Len(whole) <= CHUNK_SIZE THEN <<whole>> ELSE paragraphs[i]])
Chunks(paragraphs) ==
    LET text == FoldLeft(AddSentence, [chunks |-> <<>>, current |-> <<>>], Sentences(paragraphs))
    IN  AddTo(text.chunks, text.current)

\* A file that is read anew replaces its chunks, one without a text keeps them; the chunks go before
\* the new ones come, so that a failure leaves none.
Ingest(base, file, paragraphs, fails) ==
    IF paragraphs = <<>> THEN base
    ELSE {c \in base : c.source # file} \cup
         IF fails THEN {}
         ELSE {[source |-> file, chunk |-> i, content |-> Chunks(paragraphs)[i]] : i \in DOMAIN Chunks(paragraphs)}
\* A name deletes every file whose path contains it.
Delete(base, matching) == {c \in base : c.source \notin matching}
\* The list shows a file with the number of its chunks.
Listed(base) == [f \in {c.source : c \in base} |-> Cardinality({c \in base : c.source = f})]

-----------------------------------------------------------------------------
\* 1 / (k + rank), summed over the lists, in units of a common denominator.
Denominator(n) == FoldLeft(LAMBDA p, i : p * (RRF_K + i), 1, [i \in 1 .. n |-> i])
Score(lists, doc) ==
    LET n == FoldLeft(LAMBDA m, l : IF Len(l) > m THEN Len(l) ELSE m, 0, lists)
        Part(sum, l) == FoldLeft(LAMBDA s, i : IF l[i] = doc THEN s + Denominator(n) \div (RRF_K + i) ELSE s,
                                 sum, [i \in DOMAIN l |-> i])
    IN  FoldLeft(Part, 0, lists)

\* Best first; what has the same score stays in the order in which it came.
Ranked(docs, ScoreOf(_)) ==
    LET Better(i, j) == \/ ScoreOf(docs[i]) > ScoreOf(docs[j])
                        \/ ScoreOf(docs[i]) = ScoreOf(docs[j]) /\ i < j
    IN  [n \in DOMAIN docs |-> docs[CHOOSE i \in DOMAIN docs :
            Cardinality({j \in DOMAIN docs : Better(j, i)}) = n - 1]]
Fused(lists) ==
    LET found == FoldLeft(LAMBDA all, doc : IF Contains(all, doc) THEN all ELSE Append(all, doc),
                          <<>>, FlattenSeq(lists))
    IN  Ranked(found, LAMBDA doc : Score(lists, doc))

\* Vectors find something in a base that is not empty, keywords may find nothing.
CoarseSearch(vectors, keywords) ==
    IF vectors = <<>> THEN <<>>
    ELSE Take(Fused(IF keywords = <<>> THEN <<vectors>> ELSE <<vectors, keywords>>), RETRIEVAL_TOP_K)

\* Few candidates are ranked by relevance; those below the threshold are dropped.
Rerank(docs, relevance) ==
    SelectSeq(Ranked(Take(docs, RERANK_CANDIDATES), LAMBDA doc : relevance[doc]),
              LAMBDA doc : relevance[doc] >= RERANK_THRESHOLD)
MaxRelevance(docs, relevance) == IF docs = <<>> THEN 0 ELSE relevance[docs[1]]

\* A round searches with every query and fuses what they found.
Round(found, relevance, topK) ==
    LET lists == SelectSeq(found, LAMBDA l : l # <<>>)
    IN  IF lists = <<>> THEN <<>> ELSE Take(Rerank(Fused(lists), relevance), topK)

\* count is the number of results, or -1 when the result has no such field.
Answered(docs, relevance) ==
    IF docs = <<>> \/ MaxRelevance(docs, relevance) < LOW_RELEVANCE_THRESHOLD
    THEN [count |-> 0, results |-> <<>>] ELSE [count |-> Len(docs), results |-> docs]
EmptyBase == [count |-> 0 - 1, results |-> <<>>]

RagSearch(base, vectors, keywords, relevance, topK) ==
    IF base = {} THEN EmptyBase
    ELSE Answered(Take(Rerank(CoarseSearch(vectors, keywords), relevance), topK), relevance)

\* A second round, with other queries and more results, is run when the first found little of
\* relevance, and counts when it found better.
RagAsk(base, first, second, relevance, topK) ==
    LET one == Round(first, relevance, topK)
        two == Round(second, relevance, (topK * 3) \div 2)
        retried == MaxRelevance(one, relevance) < RETRY_THRESHOLD
        better == MaxRelevance(two, relevance) > MaxRelevance(one, relevance)
    IN  IF base = {} THEN EmptyBase ELSE Answered(IF retried /\ better THEN two ELSE one, relevance)

\* What the hook of the loop takes for an empty result.
RagEmpty(result) == result.count = 0

-----------------------------------------------------------------------------
\* What the model proposes: a passage, if it is one, and questions of their own, up to the limit.
HydeQueries(passage, questions, asked) ==
    LET own == SelectSeq(questions, LAMBDA q : q # asked)
    IN  Take((IF passage = NoQuery THEN <<>> ELSE <<passage>>) \o own, HYDE_MAX_SUB + 1)
\* By rule: the question, its statement, its parts and its keywords, each once.
ExpandQueries(asked, statement, parts, keywords) ==
    Take(FoldLeft(AddQuery, <<asked>>, <<statement>> \o parts \o <<keywords>>), 5)
RetryQueries(expanded) == LastOf(expanded, 2)

-----------------------------------------------------------------------------
(* How the desktop assistant keeps a conversation within the context window  *)
(* (src/agent/core/context_trim.py).  A message is a role and a length.      *)
EstimateChars(messages) == FoldLeft(LAMBDA n, m : n + m.chars, 0, messages)
Fits(messages) == EstimateChars(messages) <= MAX_CHARS

\* Whole rounds are dropped, oldest first, until the rest fits: a user's message and all that
\* follows up to the next one.  What does not begin with a user's message is left alone.
TrimMessages(messages) ==
    LET system == SelectSeq(messages, LAMBDA m : m.role = "system")
        history == SelectSeq(messages, LAMBDA m : m.role # "system")
        From(i) == SubSeq(history, i, Len(history))
        begins == {i \in DOMAIN history : history[i].role = "user"} \cup {Len(history) + 1}
        enough == {i \in begins : Fits(system \o From(i))}
    IN  IF Fits(messages) THEN messages
        ELSE IF history = <<>> \/ history[1].role # "user" THEN system \o history
        ELSE IF enough = {} THEN system
        ELSE system \o From(CHOOSE i \in enough : \A j \in enough : i <= j)
=============================================================================
