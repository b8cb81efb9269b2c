------------------------------- MODULE MCAgent -------------------------------
EXTENDS AgentChat, KnowledgeBase

\* Texts of one or two paragraphs of up to three sentences, none longer than two chunks.
Text(lengths) ==
    [p \in DOMAIN lengths |-> [s \in DOMAIN lengths[p] |-> [c \in 1 .. lengths[p][s] |-> <<p, s, c>>]]]
Paragraphs == {<<a, b, c>> : a, b, c \in {1, 3, 5, 8}} \cup {<<a>> : a \in 1 .. 8}
Texts == {Text(<<p>>) : p \in Paragraphs} \cup {Text(<<p, <<3>>>>) : p \in Paragraphs}

\* Every two characters that follow each other in a sentence do so in a chunk, except where one
\* chunk begins, and every chunk is as long as a chunk may be with the end of the one before.
FollowIn(s, a, b) == \E i \in 1 .. Len(s) - 1 : s[i] = a /\ s[i + 1] = b
ASSUME ChunksKeepTheText == \A text \in Texts :
    LET chunks == Chunks(text)
        sentences == Sentences(text)
    IN  /\ \A i \in DOMAIN chunks : Len(chunks[i]) <= CHUNK_SIZE + CHUNK_OVERLAP + 1
        /\ \A i \in DOMAIN sentences : \A j \in 1 .. Len(sentences[i]) - 1 :
              LET a == sentences[i][j]
                  b == sentences[i][j + 1]
              IN  \E n \in DOMAIN chunks : FollowIn(chunks[n], a, b)

\* Two lists of up to three documents.
Docs == {"a", "b", "c"}
Lists == {l \in UNION {[1 .. n -> Docs] : n \in 0 .. 3} : IsInjective(l)}
Before(l, x, y) == \E i, j \in DOMAIN l : i < j /\ l[i] = x /\ l[j] = y
\* Every document once, and what both lists prefer is preferred.
ASSUME FusionIsFair == \A one, two \in Lists :
    LET both == Fused(<<one, two>>)
    IN  /\ IsInjective(both) /\ ToSet(both) = ToSet(one) \cup ToSet(two)
        /\ \A x, y \in Docs : Before(one, x, y) /\ (Before(two, x, y) \/ y \notin ToSet(two)) => Before(both, x, y)

Scores == [Docs -> {5, 20, 38, 60}]
AList == {<<>>, <<"a", "b">>, <<"c", "b", "a">>, <<"b", "c">>}
\* What is returned is relevant, enough and ranked, and the second round only ever helps.
ASSUME AnswersAreRelevant == \A one, two \in AList, relevance \in Scores :
    LET answer == RagAsk({"chunk"}, <<one>>, <<two, one>>, relevance, 2)
        best == MaxRelevance(Round(<<one>>, relevance, 2), relevance)
    IN  /\ answer.count = Len(answer.results) /\ answer.count <= 3
        /\ answer.count > 0 => MaxRelevance(answer.results, relevance) >= best
        /\ \A i \in DOMAIN answer.results : relevance[answer.results[i]] >= RERANK_THRESHOLD
        /\ RagEmpty(answer) => best < LOW_RELEVANCE_THRESHOLD
        /\ ~RagEmpty(RagSearch({"chunk"}, one, two, relevance, 2))
              => \E d \in ToSet(one \o two) : relevance[d] >= LOW_RELEVANCE_THRESHOLD
\* Never more queries than the limit, and none twice.
ASSUME QueriesAreFew == \A questions \in Lists, passage \in {NoQuery, "p"} :
    /\ Len(HydeQueries(passage, questions, "a")) <= HYDE_MAX_SUB + 1
    /\ \A statement \in {NoQuery, "q", "s"} :
         LET all == ExpandQueries("q", statement, questions, "k") IN IsInjective(all) /\ Len(RetryQueries(all)) = 2

\* Not true: the loop takes a search of an empty base for an empty one (_NO_RESULT_INSTRUCTION).
EmptyBaseIsEmpty == \A relevance \in Scores : RagEmpty(RagAsk({}, <<>>, <<>>, relevance, 2))

Messages == {[role |-> r, chars |-> n] : r \in {"user", "assistant", "tool"}, n \in {1, 4}}
Conversations == {<<[role |-> "system", chars |-> 1]>> \o c : c \in UNION {[1 .. n -> Messages] : n \in 0 .. 4}}
\* What is left is the end of the conversation, it begins with a user's message if the conversation
\* did and anything is left, and no shorter trim would have fitted.
ASSUME TrimKeepsRounds == \A c \in Conversations :
    LET left == TrimMessages(c)
    IN  /\ left = <<c[1]>> \o SubSeq(c, Len(c) - Len(left) + 2, Len(c))
        /\ Fits(left) \/ c[2].role # "user"
        /\ Len(left) > 1 => left[2].role = "user" \/ left = c
        /\ \A i \in 2 .. Len(c) - Len(left) + 1 :
              c[i].role = "user" => ~Fits(<<c[1]>> \o SubSeq(c, i, Len(c)))
\* Not true: what is left always begins with a user's message (trim_messages).
TrimKeepsQuestion == \A c \in Conversations :
    Len(c) > 1 /\ c[2].role = "user" => \E i \in DOMAIN TrimMessages(c) : TrimMessages(c)[i].role = "user"
=============================================================================
