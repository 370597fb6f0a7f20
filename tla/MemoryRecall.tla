----------------------------- MODULE MemoryRecall -----------------------------
(***************************************************************************)
(* Long-term memory as pure functions: what the extractor's answer becomes *)
(* (extractor.py, fact_ids.py) and what a run recalls (source.py,          *)
(* ranking.py, the searches of storage.py).                                *)
(*                                                                         *)
(* A model answers what it likes: an answer is an argument, None if the    *)
(* call fails or is not readable.  A memory's time is a text, a date or a  *)
(* timestamp, and only compared with others as a text: it is its number in *)
(* their order, where a date comes before every timestamp of its day.  It  *)
(* is None if not given.  The similarity of vectors and the full-text      *)
(* index are LanceDB's: their results are arguments too.                   *)
(***************************************************************************)
EXTENDS Integers, Sequences, SequencesExt, FiniteSets, FiniteSetsExt

CONSTANTS None, Raised

-----------------------------------------------------------------------------
(* Extraction.                                                              *)

Distinct(s) == FoldLeft(LAMBDA acc, x : IF Contains(acc, x) THEN acc ELSE Append(acc, x), <<>>, s)

\* build_fact_id_from_conversation_fact
FactKinds == {"channel_event", "message"}
FactId(fact) == <<fact.kind, fact.id>>

\* build_fact_anchor_map: the n-th distinct fact has anchor n.
AnchorMap(facts) == Distinct([i \in DOMAIN facts |-> FactId(facts[i])])

\* resolve_anchor_ids: 0 is a blank anchor, which is passed over.
ResolveAnchors(anchors, evidence) ==
    LET given == SelectSeq(evidence, LAMBDA a : a # 0)
    IN IF \E i \in DOMAIN given : given[i] \notin DOMAIN anchors THEN Raised
       ELSE Distinct([i \in DOMAIN given |-> anchors[given[i]]])

\* fact_roles: the last fact of an id tells its role.
RoleOf(facts, id) == facts[Max({i \in DOMAIN facts : FactId(facts[i]) = id})].role

\* The check of the evidence.
HasUserEvidence(facts, ids) == \E i \in DOMAIN ids : RoleOf(facts, ids[i]) # "assistant"

\* MemoryEntry and its checks; the id depends on the evidence as a set.
MemoryEntry(raw, conversation, ids, now) ==
    LET interval == IF raw.point # None THEN <<None, None>> ELSE <<raw.start, raw.end>>
    IN IF raw.topic = "" \/ raw.restatement = "" THEN Raised
       ELSE [entry_id |-> <<conversation, ToSet(ids)>>, conversation |-> conversation, updated |-> now,
             point |-> raw.point, start |-> interval[1], end |-> interval[2],
             persons |-> raw.persons, entities |-> raw.entities, location |-> raw.location,
             facts |-> ToSet(ids)]

ParseEntry(raw, facts, conversation, now) ==
    LET ids == ResolveAnchors(AnchorMap(facts), raw.evidence)
    IN IF ids = Raised \/ ids = <<>> THEN Raised
       ELSE IF ~ HasUserEvidence(facts, ids) THEN Raised
       ELSE MemoryEntry(raw, conversation, ids, now)

\* extract_window and parse_extractor_response: one bad entry fails the window.
ExtractWindow(facts, response, conversation, now) ==
    IF response = None \/ \E i \in DOMAIN facts : facts[i].kind \notin FactKinds THEN Raised
    ELSE LET parsed == [i \in DOMAIN response |-> ParseEntry(response[i], facts, conversation, now)]
         IN IF \E i \in DOMAIN parsed : parsed[i] = Raised THEN Raised ELSE parsed

-----------------------------------------------------------------------------
(* The searches.  Each takes the entries of the table, a sequence.          *)

InConversation(entries, conversation) ==
    SelectSeq(entries, LAMBDA e : e.conversation = conversation)
FirstOf(s, limit) == SubSeq(s, 1, IF Len(s) < limit THEN Len(s) ELSE limit)

\* sort(reverse=True) keeps the order of what is equal.
SortedBy(s, Above(_, _)) ==
    LET order == SortSeq([i \in DOMAIN s |-> i], LAMBDA i, j :
                     Above(s[i], s[j]) \/ (~ Above(s[j], s[i]) /\ i < j))
    IN [k \in DOMAIN order |-> s[order[k]]]
Newer(e, f) == e.updated > f.updated

\* _time_overlaps
\* FAULT: an entry with an open interval never matches.
OpenNeverOverlaps(from, to, e) ==
    \/ from = None /\ to = None
    \/ e.point # None /\ (from = None \/ e.point >= from) /\ (to = None \/ e.point <= to)
    \/ /\ e.point = None /\ e.start # None /\ e.end # None
       /\ (to = None \/ e.start <= to) /\ (from = None \/ e.end >= from)
TimeOverlaps(from, to, e) ==
    \/ from = None /\ to = None
    \/ e.point # None /\ (from = None \/ e.point >= from) /\ (to = None \/ e.point <= to)
    \/ /\ e.point = None
       /\ (to = None \/ e.start = None \/ e.start <= to)
       /\ (from = None \/ e.end = None \/ e.end >= from)

StructuredSearch(entries, conversation, f, limit) ==
    LET matched == SelectSeq(InConversation(entries, conversation), LAMBDA e :
                     /\ f.persons \subseteq e.persons /\ f.entities \subseteq e.entities
                     /\ f.location = None \/ e.location = f.location
                     /\ f.range = None \/ TimeOverlaps(f.range[1], f.range[2], e))
    IN FirstOf(SortedBy(matched, Newer), limit)

\* similarity[id] is None for a row without a vector, or one of another length.
SemanticSearch(entries, conversation, similarity, limit) ==
    LET scored == SelectSeq(InConversation(entries, conversation), LAMBDA e : similarity[e.entry_id] # None)
    IN FirstOf(SortedBy(scored, LAMBDA e, f :
                  \/ similarity[e.entry_id] > similarity[f.entry_id]
                  \/ similarity[e.entry_id] = similarity[f.entry_id] /\ Newer(e, f)), limit)

\* found: the rows of the full-text index, best first.
KeywordSearch(entries, conversation, found, limit) ==
    FirstOf(SelectSeq([i \in DOMAIN found |-> entries[found[i]]],
                      LAMBDA e : e.conversation = conversation), limit)

-----------------------------------------------------------------------------
(* Ranking and the recall of a run.                                         *)

ScoreHit(symbolic, semantic, lexical) ==
    (IF symbolic THEN 100 ELSE 0) + (IF semantic THEN 40 ELSE 0) + (IF lexical THEN 10 ELSE 0)

\* merge_ranked_entry_hits
Merge(semantic, lexical, symbolic) ==
    LET all   == Distinct(semantic \o lexical \o symbolic)
        Score(e) == ScoreHit(Contains(symbolic, e), Contains(semantic, e), Contains(lexical, e))
    IN SortedBy(all, LAMBDA e, f : Score(e) > Score(f) \/ (Score(e) = Score(f) /\ Newer(e, f)))

\* The queries of the plan, or the text of the message when there are none.
Queries(planned, text) == IF planned # <<>> THEN planned ELSE IF text # None THEN <<text>> ELSE <<>>

\* _normalize_symbolic_filters and _symbolic_hits: no filter at all finds nothing.
NoFilter(f) == /\ f.persons = {} /\ f.entities = {} /\ f.location = None
               /\ f.range = None \/ f.range = <<None, None>>

\* LtmMemorySource.__call__: whatever raises leaves the run without recall.
\* index.similar[q] and index.found[q] are what the table says of the text q;
\* embeds is FALSE when the embedding call fails.
Recall(entries, conversation, plan, text, index, limit) ==
    IF plan = None \/ (~ index.embeds /\ Queries(plan.semantic, text) # <<>>) THEN <<>>
    ELSE LET semantic == Queries(plan.semantic, text)
             lexical  == Queries(plan.lexical, text)
         IN FirstOf(Merge(
                FlattenSeq([i \in DOMAIN semantic |->
                    SemanticSearch(entries, conversation, index.similar[semantic[i]], limit)]),
                FlattenSeq([i \in DOMAIN lexical |->
                    KeywordSearch(entries, conversation, index.found[lexical[i]], limit)]),
                IF NoFilter(plan.filters) THEN <<>>
                ELSE StructuredSearch(entries, conversation, plan.filters, limit)), limit)
=============================================================================
