--------------------------- MODULE KnowledgeRanking ---------------------------
(***************************************************************************)
(* The pure part of the engineering knowledge search (engineering_rag):    *)
(* a document is cut into chunks (ingestion.py), a query is analysed       *)
(* (query_analysis.py), and chunks are filtered, scored and ranked         *)
(* (index.py, retrieval.py, reranker.py, service.py).                      *)
(*                                                                         *)
(* A sentence is [len, words, suspicious]: its length in units of a        *)
(* hundred characters, where in it each of its words first ends, and where *)
(* the words end that detect_prompt_injection looks for, 0 if there are    *)
(* none.  A document is [meta, valid, preamble, sections]: the sentences   *)
(* before the first heading, and [heading, body] sections.                 *)
(* Scores are integers, in thousandths.  Term frequencies and document     *)
(* lengths are left out of the lexical score, and the hash collisions of   *)
(* the embeddings out of the semantic one.                                 *)
(***************************************************************************)
EXTENDS Integers, Sequences, SequencesExt, FiniteSets, FiniteSetsExt

CONSTANTS
    ChunkSize,          \* chunk_size of ingest_document, 9
    CutSize,            \* what sanitize_description leaves of a text, 6
    MinRoom,            \* what a heading leaves for its body at least, 1
    MaxPerDocument,     \* max_chunks_per_document and max_per_citation, 2
    CandidateMargin,    \* candidates and rerank pool beyond top_k, 20
    MaxTopK             \* largest top_k, 20

ASSUME RankingAssumption ==
    /\ ChunkSize \in Nat \ {0} /\ CutSize \in Nat \ {0} /\ MinRoom \in Nat \ {0}
    /\ MaxPerDocument \in Nat \ {0} /\ CandidateMargin \in Nat /\ MaxTopK \in Nat \ {0}

None == ""
Clamp(low, score, high) == Max({low, Min({score, high})})
Take(s, n) == SubSeq(s, 1, Min({n, Len(s)}))

----------------------------------------------------------------------------
(* ingestion *)

\* Sentences are joined by one blank.
TextLen(text) == FoldLeft(LAMBDA n, s : n + s.len, 0, text) + Max({0, Len(text) - 1})

\* Mutant: the last sentences, shorter than a chunk, are forgotten.
SentenceChunksDropTail(sentences, room) ==
    IF TextLen(sentences) <= room THEN <<sentences>>
    ELSE FoldLeft(
            LAMBDA acc, s :
                IF acc.current # <<>> /\ TextLen(acc.current) + s.len + 1 > room
                THEN [done |-> Append(acc.done, acc.current), current |-> <<s>>]
                ELSE [acc EXCEPT !.current = Append(@, s)],
            [done |-> <<>>, current |-> <<>>], sentences).done

\* The chunks so far, and the one that is being filled.
LastChunk(acc) == IF acc.current = <<>> THEN acc.done ELSE Append(acc.done, acc.current)

\* _sentence_chunks
SentenceChunks(sentences, room) ==
    IF TextLen(sentences) <= room THEN <<sentences>>
    ELSE LastChunk(FoldLeft(
            LAMBDA acc, s :
                IF acc.current # <<>> /\ TextLen(acc.current) + s.len + 1 > room
                THEN [done |-> Append(acc.done, acc.current), current |-> <<s>>]
                ELSE [acc EXCEPT !.current = Append(@, s)],
            [done |-> <<>>, current |-> <<>>], sentences))

\* _markdown_sections: sections without a body are left out.
MarkdownSections(d) == SelectSeq(d.sections, LAMBDA s : s.body # <<>>)

\* Every chunk of a section repeats the heading.
UnderHeading(heading, bodies) == [i \in DOMAIN bodies |-> <<heading>> \o bodies[i]]
SectionChunks(s) ==
    UnderHeading(s.heading,
                 SentenceChunks(s.body, Max({MinRoom, ChunkSize - s.heading.len})))

\* _chunk_text: once there is a section, the text before the first heading is
\* no part of any chunk.
ChunkText(d) ==
    LET sectioned == MarkdownSections(d)
        headings == [i \in DOMAIN d.sections |-> d.sections[i].heading]
    IN  IF sectioned = <<>> THEN SentenceChunks(d.preamble \o headings, ChunkSize)
        ELSE FlattenSeq([i \in DOMAIN sectioned |-> SectionChunks(sectioned[i])])

\* _validate_metadata, and the test that there is content.
Ingestible(d) == d.valid /\ (d.preamble # <<>> \/ d.sections # <<>>)

\* The beginning of a sentence; a word or a suspicious phrase that is cut through is lost.
Beginning(s, size) ==
    [len |-> Min({s.len, size}),
     words |-> [w \in {v \in DOMAIN s.words : s.words[v] <= size} |-> s.words[w]],
     suspicious |-> IF s.suspicious <= size THEN s.suspicious ELSE 0]

\* sanitize_description: the first CutSize units of a text.
SanitizeDescription(text) ==
    FoldLeft(LAMBDA acc, s :
                 [left |-> Max({0, acc.left - s.len - 1}),
                  kept |-> IF acc.left = 0 THEN acc.kept
                           ELSE Append(acc.kept, Beginning(s, acc.left))],
             [left |-> CutSize, kept |-> <<>>], text).kept

WordsOf(text) == UNION {DOMAIN text[i].words : i \in DOMAIN text}

\* detect_prompt_injection
DetectPromptInjection(text) == \E i \in DOMAIN text : text[i].suspicious > 0
MetadataWords(m) ==
    m.title \cup ({m.type, m.service, m.repository, m.environment} \ {None})

\* search_text: the metadata and the text.
SearchText(m, text) == WordsOf(text) \cup MetadataWords(m) \cup m.capabilities

\* ingest_document: everything about a chunk is taken from its sanitized text.
ChunkOf(meta, n, text) ==
    [id |-> <<meta.id, n>>, meta |-> meta, text |-> text, words |-> WordsOf(text),
     search_text |-> SearchText(meta, text), flagged |-> DetectPromptInjection(text)]
ChunksOf(meta, texts) ==
    [n \in DOMAIN texts |-> ChunkOf(meta, n, SanitizeDescription(texts[n]))]
IngestDocument(d) == ChunksOf(d.meta, ChunkText(d))

----------------------------------------------------------------------------
(* analyze_rag_query: a query is [words, expanded, service, repository,    *)
(* environment, resources]: its tokens, its expanded tokens, the entities  *)
(* that _service, _repository and _environment find in it, and its         *)
(* hyphenated words.  The tables keep the rows and words that tell the     *)
(* model's queries apart.                                                  *)

DOCUMENT_TYPE_TERMS ==
    << <<"cicd", {"build", "pipeline", "failed", "logs"}>>,
       <<"deployment", {"deploy", "release", "rollback", "staging"}>>,
       <<"environment_policy", {"environment", "production", "staging"}>>,
       <<"ownership", {"owner", "owns", "team"}>>,
       <<"policy", {"policy", "approval"}>> >>

CAPABILITY_TERMS ==
    << <<"cicd", {"build", "pipeline", "failed"}>>,
       <<"deployment", {"deploy", "release", "rollback"}>>,
       <<"environment", {"environment", "staging", "production"}>>,
       <<"ownership", {"owner", "owns", "team"}>> >>

Matched(table, q) ==
    LET rows == SelectSeq(table, LAMBDA row : row[2] \cap (q.words \cup q.expanded) # {})
    IN  [i \in DOMAIN rows |-> rows[i][1]]

AddOnce(s, x, when) == IF when /\ ~Contains(s, x) THEN Append(s, x) ELSE s

AsksWhy(q) == q.words \cap {"why", "failed", "failure"} # {}

\* _document_types
DocumentTypes(q, requested) ==
    LET matched == AddOnce(Matched(DOCUMENT_TYPE_TERMS, q), "cicd", AsksWhy(q))
    IN  IF requested # None THEN <<requested>>
        ELSE AddOnce(matched, "environment_policy", Contains(matched, "deployment"))

\* _capabilities
Capabilities(q) == ToSet(AddOnce(Matched(CAPABILITY_TERMS, q), "cicd", AsksWhy(q)))

FirstOf(a, b) == IF a # None THEN a ELSE b

\* analyze_rag_query
Analyze(q, f) ==
    LET service == FirstOf(f.service, q.service)
    IN  [service |-> service,
         repository |-> FirstOf(f.repository, FirstOf(q.repository, service)),
         environment |-> FirstOf(f.environment, q.environment),
         types |-> DocumentTypes(q, f.type),
         capabilities |-> Capabilities(q)]

----------------------------------------------------------------------------
(* filters: KnowledgeFilters [type, service, repository, environment,      *)
(* stale], where stale says include_stale                                  *)

\* _filtered_chunks
FilteredChunks(chunks, f) ==
    SelectSeq(chunks, LAMBDA c :
        /\ f.type \in {None, c.meta.type}
        /\ f.service \in {None, c.meta.service}
        /\ f.repository \in {None, c.meta.repository}
        /\ f.environment = None \/ c.meta.environment \in {f.environment, None}
        /\ f.stale \/ ~c.meta.stale)

\* _filter_chunks: the same, one filter after the other.
FilterChunks(chunks, f) ==
    LET typed == IF f.type = None THEN chunks
                 ELSE SelectSeq(chunks, LAMBDA c : c.meta.type = f.type)
        served == IF f.service = None THEN typed
                  ELSE SelectSeq(typed, LAMBDA c : c.meta.service = f.service)
        owned == IF f.repository = None THEN served
                 ELSE SelectSeq(served, LAMBDA c : c.meta.repository = f.repository)
        placed == IF f.environment = None THEN owned
                  ELSE SelectSeq(owned, LAMBDA c :
                                    c.meta.environment \in {f.environment, None})
    IN  IF f.stale THEN placed ELSE SelectSeq(placed, LAMBDA c : ~c.meta.stale)

----------------------------------------------------------------------------
(* scores *)

\* lexical_score
LexicalScore(q, c) ==
    Min({1000, (4000 * Cardinality(q.expanded \cap c.search_text))
                  \div Max({3, 3 * Cardinality(q.expanded)})})

\* cosine_similarity of the embeddings that InMemoryKnowledgeIndex compares.
Cosine(q, c) ==
    (1000 * Cardinality(q.expanded \cap c.search_text))
        \div Max({1, Cardinality(q.expanded \cup c.search_text)})

\* metadata_score
MetadataScore(q, c) == Min({180, 45 * Cardinality(q.words \cap MetadataWords(c.meta))})

\* combined_score, the hybrid one of the pair.
CombinedScore(q, c, semantic) ==
    LET resource == FirstOf(c.meta.repository, c.meta.service)
    IN  Clamp(0,
              (42 * semantic) \div 100 + (45 * LexicalScore(q, c)) \div 100
                + MetadataScore(q, c)
                - (IF q.resources # {} /\ resource \notin q.resources \cup {None}
                   THEN 240 ELSE 0)
                + (IF c.meta.environment # None /\ c.meta.environment \in q.words
                   THEN 80 ELSE 0)
                - (IF c.meta.stale THEN 180 ELSE 0)
                - (IF c.flagged THEN 200 ELSE 0),
              1000)

\* _document_type_score
DocumentTypeScore(a, c) ==
    IF a.types = <<>> THEN 0
    ELSE IF Contains(a.types, c.meta.type)
         THEN Max({40, 160 - 25 * (SelectInSeq(a.types, LAMBDA t : t = c.meta.type) - 1)})
         ELSE -40

Agreement(asked, there, good, bad) ==
    IF asked = None \/ there = None THEN 0 ELSE IF asked = there THEN good ELSE bad

\* _entity_score: a chunk without environment agrees with every environment.
EntityScore(a, c) ==
    Clamp(-180,
          Agreement(a.service, c.meta.service, 120, -100)
            + Agreement(a.repository, c.meta.repository, 80, -80)
            + (IF a.environment = None THEN 0
               ELSE IF c.meta.environment \in {a.environment, None} THEN 80 ELSE -80),
          220)

\* _capability_score
CapabilityScore(a, c) == Min({140, 45 * Cardinality(a.capabilities \cap c.meta.capabilities)})

\* _section_answer_score, with _asks_ownership and _asks_runbook
SectionAnswerScore(q, c) ==
    LET Asks(words) == q.words \cap words # {}
    IN  Min({180,
             (IF Asks(c.meta.title) THEN 50 ELSE 0)
               + Min({80, 10 * Cardinality(q.words \cap c.words)})
               + (IF /\ Asks({"owner", "owns", "team", "escalation"})
                     /\ c.meta.type = "ownership" THEN 120 ELSE 0)
               + (IF /\ Asks({"runbook", "procedure", "restart", "deploy", "deployment"})
                     /\ c.meta.type \in {"deployment", "run_instructions"} THEN 100 ELSE 0)})

\* knowledge_rerank_score before it is clamped ...
RawRerankScore(q, a, c, combined) ==
    (72 * combined) \div 100 + DocumentTypeScore(a, c) + EntityScore(a, c)
      + CapabilityScore(a, c) + SectionAnswerScore(q, c)
      - (IF c.meta.stale THEN 200 ELSE 0) - (IF c.flagged THEN 250 ELSE 0)

\* ... and after.
RerankScore(q, a, c, combined) == Clamp(0, RawRerankScore(q, a, c, combined), 1000)

----------------------------------------------------------------------------
(* ranking: a result is [chunk, score] *)

\* The sort keys of _search_with_index and rerank_knowledge_results.  The second
\* orders the chunks of a document too; the first leaves them in the order a
\* set of strings was iterated in, which direction stands for.
RanksBefore(x, y, direction) ==
    \/ x.score > y.score
    \/ /\ x.score = y.score
       /\ \/ ~x.chunk.meta.stale /\ y.chunk.meta.stale
          \/ /\ x.chunk.meta.stale = y.chunk.meta.stale
             /\ \/ x.chunk.id[1] < y.chunk.id[1]
                \/ /\ x.chunk.id[1] = y.chunk.id[1]
                   /\ direction * x.chunk.id[2] < direction * y.chunk.id[2]

\* A set in the order of a strict total order.
InOrder(S, Before(_, _)) ==
    [k \in 1 .. Cardinality(S) |->
        CHOOSE x \in S : Cardinality({y \in S : Before(y, x)}) = k - 1]

Ranked(results, direction) ==
    InOrder(results, LAMBDA x, y : RanksBefore(x, y, direction))

\* _limit_by_citation, and _limit_chunks_per_document before it stops.
LimitPerDocument(ranked) ==
    LET before(i) == {j \in 1 .. (i - 1) : ranked[j].chunk.id[1] = ranked[i].chunk.id[1]}
        kept == InOrder({i \in DOMAIN ranked : Cardinality(before(i)) < MaxPerDocument},
                        LAMBDA i, j : i < j)
    IN  [k \in DOMAIN kept |-> ranked[kept[k]]]

\* rerank_knowledge_results
Rerank(q, a, pool, topK) ==
    LET rescored == {[chunk |-> pool[i].chunk,
                      score |-> RerankScore(q, a, pool[i].chunk, pool[i].score)] :
                        i \in DOMAIN pool}
    IN  Take(LimitPerDocument(Ranked(rescored, 1)), topK)
=============================================================================
