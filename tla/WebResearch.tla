----------------------------- MODULE WebResearch -----------------------------
(***************************************************************************)
(* One web research request (api/v1/web.py web_research with                *)
(* web_research_orchestration.py, web_adapters.py and web_evidence.py): a   *)
(* plan, a search per language, the reading of what was found, the choice of *)
(* what is relevant, an evidence matrix when the plan asks for one, a rerank *)
(* per language, the answer.  Each stage runs its parts side by side and    *)
(* collects their results, some of which are errors.  The plain search and  *)
(* extract endpoints (web, Tavily and Jina forms) share the search and the  *)
(* reading of pages, in tasks of their own.                                *)
(***************************************************************************)
EXTENDS Naturals, Sequences, FiniteSets, SequencesExt

CONSTANTS Urls,            \* the pages a search may find
          Languages,       \* the languages of the research
          CandidateNames,           \* the names a source may call a candidate by
          Criteria,        \* the requirements of the plan
          MinSources,      \* how many sources a requirement asks for
          TopN,            \* articles kept per language by the rerank
          MaxTries,        \* attempts of the plan, of an extraction and of the answer
          ToolKinds,       \* the plain endpoints modelled, out of AllTools
          ExtractSlots     \* the semaphore of an extraction

AllTools == {"search", "jina", "extract", "read"}     \* with raw content; jina: every page must be read; read: one page
ASSUME ResearchAssumption ==
  Urls \subseteq Nat \ {0} /\ {MinSources, TopN, MaxTries, ExtractSlots} \subseteq Nat \ {0} /\ ToolKinds \subseteq AllTools

VARIABLE wr    \* pc, mode, tries; found: url -> language; articles; todo; groups, byKey, next: the matrix; seen: what was extracted; sources; tasks: the pages a tool reads

None == 0
Task(u) == [url |-> u, st |-> "wait"]
StartResearch == [pc |-> "ask", kind |-> "research", mode |-> "none", tries |-> 1, found |-> [u \in Urls |-> None], articles |-> {}, todo |-> {}, usable |-> 0,
          groups |-> {}, byKey |-> [n \in CandidateNames |-> None], next |-> 1, seen |-> {}, sources |-> {}, owner |-> "open", read |-> {},
          tasks |-> <<>>, results |-> <<>>, failed |-> <<>>]
WRInit == wr = StartResearch
\* An error ends the request; what it had gathered goes with it.
RaiseResearch == wr' = [StartResearch EXCEPT !.pc = "release"]

-----------------------------------------------------------------------------
(* Planning, searching, reading.                                           *)

\* The endpoint: its owner taken, its models resolved and allowed.
Ask ==
  /\ wr.pc = "ask"
  /\ \/ wr' = [wr EXCEPT !.pc = "plan"]
     \/ \E k \in ToolKinds \cap {"search", "jina"} : wr' = [wr EXCEPT !.kind = k, !.pc = "find"]
     \/ RaiseResearch
\* _extract_tavily_urls: a list in which a page may come twice; a plain read has one.
AskPages ==
  /\ wr.pc = "ask"
  /\ \E k \in ToolKinds \cap {"extract", "read"}, n \in 1..Cardinality(Urls) :
       /\ k = "read" => n = 1
       /\ \E pages \in [1..n -> Urls] : wr' = [wr EXCEPT !.kind = k, !.pc = "fetch", !.tasks = [i \in 1..n |-> Task(pages[i])]]

\* _plan_evidence_matrix; normalize_evidence_plan refuses an unusable plan,
\* which is asked for again.
Plan ==
  /\ wr.pc = "plan"
  /\ \E mode \in {"none", "applied"} : wr' = [wr EXCEPT !.pc = "search", !.mode = mode, !.tries = 1]
PlanUnusable ==
  /\ wr.pc = "plan"
  /\ IF wr.tries < MaxTries THEN wr' = [wr EXCEPT !.tries = @ + 1] ELSE RaiseResearch
\* _call_internal_text_model: a model that fails ends the request that needs it.
ModelFailed ==
  /\ \/ wr.pc = "plan"
     \/ wr.pc = "extract" /\ wr.todo # {}
     \/ wr.pc = "relevant" /\ wr.mode = "applied"
  /\ RaiseResearch

\* What one search adapter gives for the queries of a language: nothing also
\* when it fails or when no page passes the domain filters.
AdapterResults == SUBSET Urls
\* _search_with_model: the adapters in order, up to the first with results.
FirstUsable(a, b) == IF a = {} THEN b ELSE a
\* _dedupe_search_results: a page found twice belongs to its first language.
Deduped(result) == [u \in Urls |-> LET by == {l \in Languages : u \in result[l]} IN IF by = {} THEN None ELSE Min(by)]
\* A language that failed is passed over unless nothing at all was found.
Search ==
  /\ wr.pc = "search"
  /\ \E failed \in SUBSET Languages, first, second \in [Languages -> AdapterResults] :
       LET found == Deduped([l \in Languages |-> IF l \in failed THEN {} ELSE FirstUsable(first[l], second[l])])
           none == \A u \in Urls : found[u] = None
       IN IF failed # {} /\ none THEN RaiseResearch
          ELSE wr' = [wr EXCEPT !.found = found, !.pc = IF none THEN "nothing" ELSE "read"]
\* _read_with_model: direct, rendered, then the adapters; a page that cannot be
\* read is passed over.
Read ==
  /\ wr.pc = "read"
  /\ \E got \in SUBSET {u \in Urls : wr.found[u] # None} :
       wr' = [wr EXCEPT !.articles = got, !.read = got, !.pc = IF got = {} THEN "matrix" ELSE "relevant"]
\* _prepare_relevant_articles: what is irrelevant is dropped; an error drops
\* the article, or ends the request when evidence is asked for (ModelFailed).
Relevant ==
  /\ wr.pc = "relevant"
  /\ \E kept \in SUBSET wr.articles : wr' = [wr EXCEPT !.articles = kept, !.pc = "matrix"]

-----------------------------------------------------------------------------
(* The plain search and extract endpoints.                                 *)

\* web_search, tavily_search and jina_search: one search, its pages read.
Find ==
  /\ wr.pc = "find"
  /\ \E first, second \in AdapterResults :
       LET pages == SetToSeq(FirstUsable(first, second)) IN
       wr' = [wr EXCEPT !.tasks = [i \in DOMAIN pages |-> Task(pages[i])], !.pc = "fetch"]
RunningTasks == {i \in DOMAIN wr.tasks : wr.tasks[i].st = "run"}
Fetch(i) ==
  /\ wr.pc = "fetch" /\ wr.tasks[i].st = "wait"
  /\ wr.kind = "extract" => Cardinality(RunningTasks) < ExtractSlots
  /\ wr' = [wr EXCEPT !.tasks[i].st = "run"]
Fetched(i) ==
  /\ wr.pc = "fetch" /\ wr.tasks[i].st = "run"
  /\ \/ wr' = [wr EXCEPT !.tasks[i].st = "ok", !.read = @ \cup {wr.tasks[i].url}]
     \/ wr' = [wr EXCEPT !.tasks[i].st = "error"]
ResearchEnded == wr.pc = "fetch" /\ \A i \in DOMAIN wr.tasks : wr.tasks[i].st \in {"ok", "error"}
Pages(st) == SelectSeq(wr.tasks, LAMBDA t : t.st = st)
\* _attach_raw_content_to_results: a page that was not read stays without content.
Attach ==
  /\ ResearchEnded /\ wr.kind = "search"
  /\ wr' = [wr EXCEPT !.results = wr.tasks, !.pc = "respond"]
\* jina_search and the plain reads raise the first error.
AllOrNothing ==
  /\ ResearchEnded /\ wr.kind \in {"jina", "read"}
  /\ IF Pages("error") = <<>> THEN wr' = [wr EXCEPT !.results = wr.tasks, !.pc = "respond"] ELSE RaiseResearch
\* tavily_extract sorts them into results and failures.
Split ==
  /\ ResearchEnded /\ wr.kind = "extract"
  /\ wr' = [wr EXCEPT !.results = Pages("ok"), !.failed = Pages("error"), !.pc = "respond"]

-----------------------------------------------------------------------------
(* The evidence matrix.                                                    *)

StartMatrix ==
  /\ wr.pc = "matrix"
  /\ wr' = [wr EXCEPT !.pc = IF wr.mode = "applied" /\ wr.articles # {} THEN "extract" ELSE IF wr.mode = "applied" THEN "filter" ELSE "rerank",
                      !.todo = wr.articles]

\* mutant: only the first group the names point to is kept up to date
MergeFirst(c, keys, evidence) ==
  LET matched == {c.byKey[k] : k \in keys} \ {None}
      id == IF matched = {} THEN c.next ELSE Min(matched)
      old == {g \in c.groups : g.id = id}
      group == [id |-> id, keys |-> keys \cup UNION {g.keys : g \in old}, evidence |-> evidence \cup UNION {g.evidence : g \in old}]
  IN [c EXCEPT !.groups = (@ \ old) \cup {group}, !.next = IF matched = {} THEN @ + 1 ELSE @,
               !.byKey = [n \in CandidateNames |-> IF n \in group.keys THEN id ELSE @[n]]]

\* build_evidence_matrix: a candidate joins every group one of its names points
\* to; the groups it joins become one, under all their names.
MergeCandidate(c, keys, evidence) ==
  LET matched == {c.byKey[k] : k \in keys} \ {None}
      id == IF matched = {} THEN c.next ELSE Min(matched)
      old == {g \in c.groups : g.id \in matched}
      group == [id |-> id, keys |-> keys \cup UNION {g.keys : g \in old}, evidence |-> evidence \cup UNION {g.evidence : g \in old}]
  IN [c EXCEPT !.groups = (@ \ old) \cup {group}, !.next = IF matched = {} THEN @ + 1 ELSE @,
               !.byKey = [n \in CandidateNames |-> IF n \in group.keys THEN id ELSE @[n]]]
\* _normalize_candidate_evidence: what an article may give for a candidate; an
\* item counts when the article holds its quote.
Quoted(u) == {{<<x, u, status[x]>> : x \in DOMAIN status} : status \in UNION {[S -> {"supports", "contradicts"}] : S \in SUBSET Criteria}}
\* normalize_evidence_extraction: a candidate without evidence is left out.
Extracted(c, keys, evidence) ==
  IF evidence = {} THEN c
  ELSE [MergeCandidate(c, keys, evidence) EXCEPT !.seen = @ \cup {[keys |-> keys, evidence |-> evidence]}]
ExtractMatrix ==
  /\ wr.pc = "extract"
  /\ IF wr.todo = {} THEN wr' = [wr EXCEPT !.pc = IF wr.usable = 0 THEN "release" ELSE "filter"]
     ELSE LET u == Min(wr.todo)  c == [wr EXCEPT !.todo = @ \ {u}, !.usable = @ + 1] IN
          \/ wr' = [wr EXCEPT !.todo = @ \ {u}]                            \* given up after MaxTries answers
          \/ \E keys \in SUBSET CandidateNames \ {{}}, evidence \in Quoted(u) : wr' = Extracted(c, keys, evidence)

\* _missing_required_criteria: distinct pages that support the requirement.
Supporting(evidence, x) == {e[2] : e \in {e \in evidence : e[1] = x /\ e[3] = "supports"}}
Passed(g) == \A x \in Criteria : Cardinality(Supporting(g.evidence, x)) >= MinSources

\* mutant: the articles stay as they are once a candidate passed
FilterNothing ==
  /\ wr.pc = "filter"
  /\ wr' = [wr EXCEPT !.articles = IF \E g \in wr.groups : Passed(g) THEN @ ELSE {}, !.pc = "rerank"]

\* filter_articles_for_passed_evidence
Filter ==
  /\ wr.pc = "filter"
  /\ LET good == {u \in wr.articles : \E g \in wr.groups, x \in Criteria : Passed(g) /\ u \in Supporting(g.evidence, x)} IN
     wr' = [wr EXCEPT !.articles = good, !.pc = "rerank"]

-----------------------------------------------------------------------------
(* The answer.                                                             *)

\* _rerank_articles for each language; one that fails ends the request.
Rerank ==
  /\ wr.pc = "rerank"
  /\ \/ \E kept \in SUBSET wr.articles :
          /\ \A l \in Languages : Cardinality({u \in kept : wr.found[u] = l}) <= TopN
          /\ wr' = [wr EXCEPT !.sources = kept, !.pc = IF wr.mode = "applied" THEN "synthesis" ELSE "analyze", !.tries = 1]
     \/ wr.articles # {} /\ RaiseResearch
\* insufficient_evidence_output: nothing was found and the answer says so.
Nothing == wr.pc = "nothing" /\ wr' = [wr EXCEPT !.pc = "respond"]
\* _analyze_articles: without a source, or without a fact in any, there is
\* nothing to ask the model for.
Analyze ==
  /\ wr.pc = "analyze"
  /\ \E facts \in SUBSET wr.sources : wr' = [wr EXCEPT !.pc = IF facts = {} THEN "respond" ELSE "answer"]
\* _analyze_evidence_matrix: only candidates that passed are written about.
Synthesis ==
  /\ wr.pc = "synthesis"
  /\ wr' = [wr EXCEPT !.pc = IF \E g \in wr.groups : Passed(g) THEN "answer" ELSE "respond"]
\* _with_final_answer_retries
Answer ==
  /\ wr.pc = "answer"
  /\ \/ wr' = [wr EXCEPT !.pc = "respond"]
     \/ wr.tries < MaxTries /\ wr' = [wr EXCEPT !.tries = @ + 1]
     \/ wr.tries = MaxTries /\ RaiseResearch
\* _run_with_client_disconnect_cancellation
Leave == wr.kind = "research" /\ wr.pc \notin {"ask", "respond", "release", "over"} /\ RaiseResearch
\* _with_web_terminal_accounting
Respond == wr.pc = "respond" /\ wr' = [wr EXCEPT !.pc = "over", !.owner = "charged"]
ReleaseResearch == wr.pc = "release" /\ wr' = [wr EXCEPT !.pc = "over", !.owner = "released"]

ToolStep == Find \/ Attach \/ AllOrNothing \/ Split \/ (\E i \in DOMAIN wr.tasks : Fetch(i) \/ Fetched(i))
ResearchStep ==
  \/ Plan \/ PlanUnusable \/ ModelFailed \/ Search \/ Read \/ Relevant \/ StartMatrix \/ ExtractMatrix \/ Filter \/ Rerank \/ Analyze \/ Synthesis
  \/ Nothing \/ Answer
WRNext == Ask \/ AskPages \/ ToolStep \/ ResearchStep \/ Leave \/ Respond \/ ReleaseResearch

-----------------------------------------------------------------------------
\* What the extraction says is one candidate: the finest grouping in which two
\* extractions that share a name are together.
Linked(S) == \A x \in S, y \in wr.seen : x.keys \cap y.keys # {} => y \in S
Component(x) == CHOOSE S \in SUBSET wr.seen : x \in S /\ Linked(S) /\ \A T \in SUBSET S : (x \in T /\ Linked(T)) => T = S

\* The matrix groups the extractions as their names connect them, in whatever
\* order the sources were read and however late the connecting name appears,
\* and gathers all evidence of a group.
MatrixExact == wr.groups # {} =>
  {[keys |-> g.keys, evidence |-> g.evidence] : g \in wr.groups} =
  {[keys |-> UNION {y.keys : y \in Component(x)}, evidence |-> UNION {y.evidence : y \in Component(x)}] : x \in wr.seen}

\* However the reading of its pages interleaves and fails, a plain endpoint
\* answers for every page it was asked for or found, once for each time and in
\* that order, and shows as read what was read.
ToolAnswerWhole == wr.kind # "research" =>
  /\ \A i \in DOMAIN wr.results : wr.results[i].st = "ok" => wr.results[i].url \in wr.read
  /\ \/ wr.results = Pages("ok") /\ wr.failed = Pages("error")
     \/ wr.results = wr.tasks /\ wr.failed = <<>>
  /\ wr.kind # "search" => \A i \in DOMAIN wr.results : wr.results[i].st = "ok"

\* A charged answer rests on pages that were read; with an evidence matrix every
\* source supports a candidate for which each requirement has its number of
\* distinct sources, all of them read.  A plain endpoint answers for all its pages.
ResearchGrounded == wr.owner = "charged" =>
  /\ ToolAnswerWhole
  /\ wr.sources \subseteq wr.read
  /\ wr.mode = "applied" => \A u \in wr.sources : \E x \in wr.seen :
       LET all == UNION {y.evidence : y \in Component(x)} IN
       /\ \E z \in Criteria : <<z, u, "supports">> \in all
       /\ \A z \in Criteria : Cardinality({v \in wr.read : <<z, v, "supports">> \in all}) >= MinSources
=============================================================================
