---------------------------- MODULE EngineeringRag ----------------------------
(***************************************************************************)
(* EngineeringRagService over the two indexes (engineering_rag/service.py, *)
(* index.py).  A process ingests the documents of its own version of the   *)
(* repository when it starts and puts every chunk into the index; with the *)
(* OpenSearch backend that index outlives the process and is shared with   *)
(* the processes of every other version.  Nothing is ever deleted from it. *)
(* OpenSearch is external: a request may fail before or after it took      *)
(* effect, an answer may be no JSON, and what was put is found by searches *)
(* from the next refresh on.                                               *)
(***************************************************************************)
EXTENDS KnowledgeRanking

CONSTANTS
    Procs,          \* processes
    Corpora,        \* [version |-> sequence of documents]
    Requests,       \* search requests: [query, filters, mode, topK, minimum]
    MaxStarts       \* bound: how often a process is started

ASSUME RagAssumption == MaxStarts \in Nat

VARIABLES
    proc,       \* process -> [pc, corpus, next, failed, backend]
    stored,     \* the index: chunk id -> version whose copy it holds
    searchable, \* what of it the searches see
    answer,     \* the answer of a search, until the caller has it
    starts      \* bound: starts so far

vars == <<proc, stored, searchable, answer, starts>>

Versions == DOMAIN Corpora

\* __init__: the chunks of every document.
Chunks ==
    [v \in Versions |->
        FlattenSeq([i \in DOMAIN Corpora[v] |-> IngestDocument(Corpora[v][i])])]

Ids(v) == {Chunks[v][i].id : i \in DOMAIN Chunks[v]}
AllIds == UNION {Ids(v) : v \in Versions}

\* chunk_by_id
ChunkById ==
    [v \in Versions |-> [id \in Ids(v) |->
        Chunks[v][SelectLastInSeq(Chunks[v], LAMBDA c : c.id = id)]]]

Down == [pc |-> "down", corpus |-> None, next |-> 0, failed |-> FALSE, backend |-> None]
NoAnswer == [kind |-> "none"]

----------------------------------------------------------------------------
(* searching *)

\* candidate_k and rerank_pool_size
CandidateK(topK) == Max({topK * 5, topK + CandidateMargin})
PoolSize(topK) == Max({topK * 4, topK + CandidateMargin})

\* InMemoryKnowledgeIndex.search: the matches, with their semantic scores.
InMemorySearch(v, req) ==
    LET chunks == FilterChunks(Chunks[v], req.filters)
        matches == {[chunk |-> chunks[i], score |-> Cosine(req.query, chunks[i])] :
                        i \in DOMAIN chunks}
        best == Take(InOrder(matches, LAMBDA x, y :
                        \/ x.score > y.score
                        \/ x.score = y.score /\ \/ x.chunk.id[1] < y.chunk.id[1]
                                                \/ /\ x.chunk.id[1] = y.chunk.id[1]
                                                   /\ x.chunk.id[2] < y.chunk.id[2]),
                     CandidateK(req.topK))
    IN  {[id |-> best[i].chunk.id, score |-> best[i].score] : i \in DOMAIN best}

\* Mutant: the query asks for stale documents too.
IndexFilterStale(copy, f) ==
    /\ f.type \in {None, copy.meta.type}
    /\ f.service \in {None, copy.meta.service}
    /\ f.repository \in {None, copy.meta.repository}
    /\ f.environment = None \/ copy.meta.environment \in {f.environment, None}

\* The filter clauses of OpenSearchKnowledgeIndex.search.
IndexFilter(copy, f) ==
    /\ f.type \in {None, copy.meta.type}
    /\ f.service \in {None, copy.meta.service}
    /\ f.repository \in {None, copy.meta.repository}
    /\ f.environment = None \/ copy.meta.environment \in {f.environment, None}
    /\ f.stale \/ ~copy.meta.stale

\* What OpenSearch finds: copies that pass the filters and share a word.
Hits(req) ==
    {id \in DOMAIN searchable :
        LET copy == ChunkById[searchable[id]][id]
        IN  IndexFilter(copy, req.filters) /\ req.query.words \cap copy.search_text # {}}

\* OpenSearchKnowledgeIndex.search: the best hits; scores are relative to the best.
OpenSearchSearch(req) ==
    LET common(id) == Cardinality(req.query.words
                                    \cap ChunkById[searchable[id]][id].search_text)
        best == Take(InOrder(Hits(req), LAMBDA x, y :
                        \/ common(x) > common(y)
                        \/ common(x) = common(y) /\ \/ x[1] < y[1]
                                                    \/ x[1] = y[1] /\ x[2] < y[2]),
                     CandidateK(req.topK))
    IN  {[id |-> best[i], score |-> (1000 * common(best[i])) \div common(best[1])] :
            i \in DOMAIN best}

\* _analysis_candidate_chunks
AnalysisCandidates(v, req) ==
    LET a == Analyze(req.query, req.filters)
        filtered == FilteredChunks(Chunks[v], req.filters)
        likely(c) ==
            \/ Contains(a.types, c.meta.type)
            \/ a.service # None /\ c.meta.service = a.service
            \/ a.repository # None /\ c.meta.repository = a.repository
            \/ /\ a.environment # None /\ c.meta.environment \in {a.environment, None}
               /\ c.meta.type \in {"environment_policy", "policy", "deployment"}
            \/ c.meta.capabilities \cap a.capabilities # {}
    IN  {filtered[i].id : i \in {j \in DOMAIN filtered : likely(filtered[j])}}

\* Mutant: only the hybrid mode looks at the words.
CandidateIdsHybrid(v, req, matches) ==
    {m.id : m \in matches}
      \cup (IF req.mode = "hybrid"
            THEN {c.id : c \in {d \in ToSet(FilteredChunks(Chunks[v], req.filters)) :
                                    LexicalScore(req.query, d) > 0}}
                   \cup AnalysisCandidates(v, req)
            ELSE {})

\* candidate_ids of _search_with_index
CandidateIds(v, req, matches) ==
    {m.id : m \in matches}
      \cup (IF req.mode \in {"bm25", "hybrid"}
            THEN {c.id : c \in {d \in ToSet(FilteredChunks(Chunks[v], req.filters)) :
                                    LexicalScore(req.query, d) > 0}}
                   \cup AnalysisCandidates(v, req)
            ELSE {})

\* The score by which a mode ranks.
Score(req, c, semantic) ==
    CASE req.mode = "bm25"   -> LexicalScore(req.query, c)
      [] req.mode = "vector" -> semantic
      [] req.mode = "hybrid" -> CombinedScore(req.query, c, semantic)

\* _search_with_index, once the index has answered with these matches.
RankedResults(v, req, matches, direction) ==
    LET semantic(id) == IF \E m \in matches : m.id = id
                        THEN (CHOOSE m \in matches : m.id = id).score ELSE 0
        scored == {[chunk |-> ChunkById[v][id],
                    score |-> Score(req, ChunkById[v][id], semantic(id))] :
                        id \in CandidateIds(v, req, matches)}
        ranked == Ranked({r \in scored : r.score >= req.minimum}, direction)
    IN  IF req.mode = "hybrid"
        THEN Rerank(req.query, Analyze(req.query, req.filters),
                    Take(ranked, PoolSize(req.topK)), req.topK)
        ELSE Take(LimitPerDocument(ranked), req.topK)

Error == [kind |-> "error"]
Results(results) == [kind |-> "results",
                     results |-> [i \in DOMAIN results |->
                                    [id |-> results[i].chunk.id, score |-> results[i].score]]]

\* The keys of chunk_by_id.
KnownIds(v, req) == Ids(v)

\* _search_with_index: a match of another version is a KeyError.
SearchWith(v, req, matches, direction) ==
    IF {m.id : m \in matches} \subseteq KnownIds(v, req)
    THEN Results(RankedResults(v, req, matches, direction)) ELSE Error

\* search with an index in memory, where nothing but the request matters.
Clamped == {[req EXCEPT !.topK = Clamp(1, @, MaxTopK)] : req \in Requests}
LocalAnswer ==
    [v \in Versions |-> [req \in Clamped |-> [direction \in {1, -1} |->
        SearchWith(v, req, InMemorySearch(v, req), direction)]]]

\* What _request meets: an answer, a failure before or after the request took effect
\* (both KnowledgeIndexUnavailable), or an answer that json.loads does not accept.
Replies == {"ok", "refused", "unanswered", "garbled"}

----------------------------------------------------------------------------
Init ==
    /\ proc = [p \in Procs |-> Down]
    /\ stored = <<>> /\ searchable = <<>>
    /\ answer = NoAnswer
    /\ starts = 0

\* __init__ up to the first request: one bad document stops the service.
Start(p, v, backend) ==
    /\ proc[p].pc = "down" /\ starts < MaxStarts
    /\ starts' = starts + 1
    /\ proc' = [proc EXCEPT ![p] =
                    [pc |-> IF \E d \in ToSet(Corpora[v]) : ~Ingestible(d) THEN "broken"
                            ELSE IF backend = "opensearch" /\ Chunks[v] # <<>>
                            THEN "indexing" ELSE "serving",
                     corpus |-> v, next |-> 1, failed |-> FALSE, backend |-> backend]]
    /\ UNCHANGED <<stored, searchable, answer>>

\* The path of the PUT.
DocumentKey(id) == id

\* _try_index_chunks: when a request fails, the rest is given up and the service starts all
\* the same; an answer that is no JSON is not caught.
AfterPut(here, reply) ==
    CASE reply = "garbled" -> [here EXCEPT !.pc = "broken"]
      [] reply \in {"refused", "unanswered"} ->
            [here EXCEPT !.pc = "serving", !.failed = TRUE]
      [] reply = "ok" /\ here.next = Len(Chunks[here.corpus]) ->
            [here EXCEPT !.pc = "serving"]
      [] OTHER -> [here EXCEPT !.next = @ + 1]

\* One PUT of index_chunks.
Put(p, reply) ==
    LET here == proc[p]
        id == Chunks[here.corpus][here.next].id
    IN  /\ here.pc = "indexing"
        /\ stored' = IF reply = "refused" THEN stored
                     ELSE [i \in DOMAIN stored \cup {DocumentKey(id)} |->
                             IF i = DocumentKey(id) THEN here.corpus ELSE stored[i]]
        /\ proc' = [proc EXCEPT ![p] = AfterPut(here, reply)]
        /\ UNCHANGED <<searchable, answer, starts>>

\* OpenSearch makes what was put visible to searches.
Refresh ==
    /\ searchable # stored
    /\ searchable' = stored
    /\ UNCHANGED <<proc, stored, answer, starts>>

\* search: an unavailable index is replaced by one in memory.
Search(p, req, reply, direction) ==
    LET here == proc[p]
    IN  /\ here.pc = "serving"
        /\ here.backend = "memory" => reply = "ok"
        /\ answer' = [p |-> p, req |-> req, reply |-> reply] @@
                (CASE here.backend = "memory" \/ reply = "refused" ->
                        LocalAnswer[here.corpus][req][direction]
                   [] reply = "garbled" -> Error
                   [] OTHER -> SearchWith(here.corpus, req, OpenSearchSearch(req), direction))
        /\ UNCHANGED <<proc, stored, searchable, starts>>

\* The process ends, at whatever point; a new version may be started in its place.
Stop(p) ==
    /\ proc[p].pc # "down"
    /\ proc' = [proc EXCEPT ![p] = Down]
    /\ UNCHANGED <<stored, searchable, answer, starts>>

\* The caller takes the answer.  A search reads the index at one moment, so the other
\* steps wait until then.
Return ==
    /\ answer # NoAnswer
    /\ answer' = NoAnswer
    /\ UNCHANGED <<proc, stored, searchable, starts>>

Next ==
    \/ /\ answer = NoAnswer
       /\ \/ \E p \in Procs, v \in Versions, b \in {"opensearch", "memory"} : Start(p, v, b)
          \/ \E p \in Procs, reply \in Replies : Put(p, reply)
          \/ Refresh
          \/ \E p \in Procs, req \in Clamped, reply \in {"ok", "refused", "garbled"},
                direction \in {1, -1} : Search(p, req, reply, direction)
          \/ \E p \in Procs : Stop(p)
    \/ Return

Spec == Init /\ [][Next]_vars

----------------------------------------------------------------------------
(* properties *)

Answered == answer.kind = "results"
Version == proc[answer.p].corpus
FromIndex == proc[answer.p].backend = "opensearch" /\ answer.reply = "ok"
ResultIds == {answer.results[i].id : i \in DOMAIN answer.results}

\* What a chunk has of the text it was made from: its beginning, and all of it up to CutSize.
IsBeginning(part, whole) ==
    LET n == Len(part) IN
    /\ n <= Len(whole) /\ TextLen(part) <= CutSize
    /\ \A i \in 1 .. (n - 1) : part[i] = whole[i]
    /\ part # whole => /\ TextLen(part) + 1 >= CutSize
                        /\ DOMAIN part[n].words \subseteq DOMAIN whole[n].words

\* The chunks hold the beginnings of consecutive runs of these sentences, under the heading;
\* no run is longer than the room unless it is one sentence.
CutsInto(sentences, heading, room, chunks) ==
    LET n == Len(chunks) IN
    \E end \in [0 .. n -> 0 .. Len(sentences)] :
        /\ end[0] = 0 /\ end[n] = Len(sentences)
        /\ \A k \in 1 .. n :
              LET run == SubSeq(sentences, end[k - 1] + 1, end[k]) IN
              /\ run # <<>> /\ (TextLen(run) <= room \/ Len(run) = 1)
              /\ IsBeginning(chunks[k].text, heading \o run)

\* Of the sections of a document nothing is lost, doubled or put elsewhere, but what lies
\* beyond the first 600 characters of a chunk that is longer; without sections this holds of
\* all of its text.  (ingest_document, which chunks by 900 characters in _sentence_chunks and
\* _chunk_text and cuts by 600 in sanitize_description.)
LossExplained ==
    \A v \in {proc[p].corpus : p \in Procs} \ {None} : \A i \in DOMAIN Corpora[v] :
        LET d == Corpora[v][i]
            sections == MarkdownSections(d)
            chunks == SelectSeq(Chunks[v], LAMBDA c : c.id[1] = d.meta.id)
            under(s) == SelectSeq(chunks, LAMBDA c : c.text[1] = s.heading)
        IN  IF sections # <<>>
            THEN \A s \in ToSet(sections) :
                    CutsInto(s.body, <<s.heading>>, Max({MinRoom, ChunkSize - s.heading.len}),
                             under(s))
            ELSE Ingestible(d) =>
                    CutsInto(d.preamble \o [k \in DOMAIN d.sections |-> d.sections[k].heading],
                             <<>>, ChunkSize, chunks)

\* What another version of the documentation left in the shared index, and nothing else,
\* shows in the answers: a search that raises although OpenSearch answered properly met a
\* chunk that only another version has, and a result that the request's filters exclude (a
\* stale document for one) was let through by the copy of it that another version put
\* there.  (chunk_by_id[chunk_id], and results that are not filtered again, in
\* _search_with_index.)
ForeignIndexExplained ==
    /\ answer.kind = "error" /\ answer.reply = "ok" =>
         \E id \in DOMAIN searchable : searchable[id] # Version /\ id \notin Ids(Version)
    /\ Answered =>
         \A id \in ResultIds :
            FilteredChunks(<<ChunkById[Version][id]>>, answer.req.filters) = <<>> =>
                FromIndex /\ id \in DOMAIN searchable /\ searchable[id] # Version

\* A chunk the word and hybrid modes have no reason to leave out: it shares a word with the
\* query, its score is high enough, and the rerank pool has room for all chunks.  What the
\* index holds does not matter.
MatchesByWord(c) ==
    /\ LexicalScore(answer.req.query, c) > 0
    /\ Score(answer.req, c, 0) >= answer.req.minimum
    /\ answer.req.mode = "hybrid" => Len(Chunks[Version]) <= PoolSize(answer.req.topK)

\* A chunk the vector mode has no reason to leave out: nothing went wrong when it was put,
\* no other version's copy replaced it, the index was refreshed since, and there is room
\* among the candidates.
MatchesByVector(c) ==
    /\ answer.req.query.words \cap c.search_text # {}
    /\ ~proc[answer.p].failed
    /\ c.id \in DOMAIN stored => /\ stored[c.id] = Version
                                 /\ c.id \in DOMAIN searchable
                                 /\ searchable[c.id] = stored[c.id]
    /\ Cardinality(Hits(answer.req)) <= CandidateK(answer.req.topK)
    /\ answer.req.minimum = 0

\* An answer shorter than asked leaves out no chunk that passes the filters and shares a
\* word with the query, unless its document has its two results already or there is a
\* reason of those above: in the word and hybrid modes whatever the index holds, in the vector
\* mode unless this process or another one spoilt the index.
\* (candidate_ids of _search_with_index, index_chunks and its failures.)
MissExplained ==
    Answered /\ Len(answer.results) < answer.req.topK =>
        \A c \in ToSet(FilteredChunks(Chunks[Version], answer.req.filters)) :
            /\ c.id \notin ResultIds
            /\ Cardinality({id \in ResultIds : id[1] = c.id[1]}) < MaxPerDocument
            => /\ answer.req.mode \in {"bm25", "hybrid"} => ~MatchesByWord(c)
               /\ answer.req.mode = "vector" /\ FromIndex => ~MatchesByVector(c)
=============================================================================
