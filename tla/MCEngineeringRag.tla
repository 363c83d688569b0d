--------------------------- MODULE MCEngineeringRag ---------------------------
(* Constants for model-checking EngineeringRag: two versions of a small corpus  *)
(* and one with a document that cannot be ingested.                             *)
EXTENDS EngineeringRag

CONSTANTS p1, p2

AnyProc == Permutations(Procs)

Sentence(len, words) == [len |-> len, words |-> words, suspicious |-> 0]
Injected(s) == [s EXCEPT !.suspicious = s.len]

Section(heading, body) == [heading |-> heading, body |-> body]

\* A run book of the payments service: a preamble, a section of two chunks, of which the
\* first is cut short, and one of one.
RunBook ==
    [id |-> 1, title |-> {"payments"}, type |-> "deployment", service |-> "payments-api",
     repository |-> "payments-api", environment |-> "staging", stale |-> FALSE,
     capabilities |-> {"deployment"}]
Preamble == <<Sentence(2, "history" :> 1)>>
Preconditions == Section(Sentence(1, "preconditions" :> 1),
                         <<Sentence(5, "deploy" :> 2 @@ "owner" :> 5),
                           Sentence(4, "approval" :> 4)>>)
Rollback == Section(Sentence(1, "rollback" :> 1), <<Sentence(3, "deploy" :> 1 @@ "release" :> 3)>>)
Empty == Section(Sentence(1, "appendix" :> 1), <<>>)

\* A rule for every environment, without headings.
Rule(id, stale) ==
    [id |-> id, title |-> {"rule"}, type |-> "policy", service |-> None,
     repository |-> "platform", environment |-> None, stale |-> stale,
     capabilities |-> {}]
RuleText == Sentence(6, "deploy" :> 1 @@ "approval" :> 6)

Document(meta, preamble, sections) ==
    [meta |-> meta, valid |-> TRUE, preamble |-> preamble, sections |-> sections]

\* The old version has the longer run book; in the new one the rule is stale, and
\* there are a clean and an injected rule that say the same.
MCCorpora ==
    [old |-> << Document(RunBook, Preamble, <<Preconditions, Rollback>>),
                Document(Rule(3, FALSE), <<RuleText>>, <<Empty>>) >>,
     new |-> << Document(RunBook, <<Sentence(4, "release" :> 4), Sentence(4, "deploy" :> 1)>>,
                         <<Empty>>),
                Document(Rule(2, FALSE), <<Injected(RuleText)>>, <<>>),
                Document(Rule(3, TRUE), <<RuleText>>, <<>>),
                Document(Rule(4, FALSE), <<RuleText>>, <<>>) >>,
     bad |-> << [Document(RunBook, Preamble, <<>>) EXCEPT !.valid = FALSE] >>]

Query(words, service, environment, resources) ==
    [words |-> words, expanded |-> words, service |-> service, repository |-> None,
     environment |-> environment, resources |-> resources]
NoFilter == [type |-> None, service |-> None, repository |-> None, environment |-> None,
             stale |-> FALSE]

Deploying == Query({"deploy", "payments", "staging"}, "payments-api", "staging",
                   {"payments-api"})
Owning == Query({"owner", "deploy", "orders-api"}, "orders-api", None, {"orders-api"})

Request(query, filters, mode, topK, minimum) ==
    [query |-> query, filters |-> filters, mode |-> mode, topK |-> topK, minimum |-> minimum]

MCRequests ==
    { Request(Deploying, [NoFilter EXCEPT !.environment = "staging"], "hybrid", 5, 0),
      Request(Deploying, NoFilter, "bm25", 3, 200),
      Request(Deploying, NoFilter, "vector", 9, 0),
      Request(Owning, [NoFilter EXCEPT !.stale = TRUE], "hybrid", 5, 0),
      Request(Owning, [NoFilter EXCEPT !.type = "policy"], "vector", 0, 200) }
=============================================================================
