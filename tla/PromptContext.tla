---------------------------- MODULE PromptContext ----------------------------
(***************************************************************************)
(* From an event to what the model reads: the images and the quoted        *)
(* message of the event (inbound/), the retrieval plan, the memory sources *)
(* (memory_broker.py) and the assembly of prompt and messages              *)
(* (context_assembly/assembler.py).                                        *)
(*                                                                         *)
(* A text is the sequence of its parts, each with a tag saying what it is; *)
(* the empty text has none.  What a call brings (a quoted message, a       *)
(* caption, the blocks of a source) is an argument, None if it raises.     *)
(***************************************************************************)
EXTENDS Integers, Sequences, SequencesExt, FiniteSets

CONSTANT None

Part(tag, text) == [tag |-> tag, text |-> text]

-----------------------------------------------------------------------------
(* Images and texts of the message.                                         *)

Image(origin, staged) ==
    [origin |-> origin, staged |-> staged, caption |-> <<>>,
     status |-> IF staged THEN "pending" ELSE "failed"]

\* _collect_event_images; a snapshot says whether it is an image and staged.
CollectImages(origin, snapshots) ==
    LET images == SelectSeq(snapshots, LAMBDA s : s.image)
    IN [i \in DOMAIN images |-> Image(origin, images[i].staged)]

\* _collect_reply_images: without an answer the preview stands for the quoted
\* message, and an answer without text has the preview's.
QuotedText(reply) ==
    IF reply.fetched = None \/ reply.fetched.text = <<>> THEN reply.preview ELSE reply.fetched.text
QuotedImages(reply) ==
    IF reply.fetched = None THEN <<>> ELSE CollectImages("reply", reply.fetched.snapshots)

\* MessageResolutionService.resolve
Resolve(event, include) ==
    LET quoted == include /\ event.reply # None
        own    == CollectImages("event", event.snapshots)
    IN [base   |-> event.base,
        reply  |-> IF quoted THEN QuotedText(event.reply) ELSE <<>>,
        images |-> own \o IF quoted THEN QuotedImages(event.reply) ELSE <<>>]

\* _caption_images: answers[i] is what the captioning model says of image i.
CaptionImages(images, vision, answers) ==
    [i \in DOMAIN images |->
        IF images[i].status # "pending" THEN images[i]
        ELSE IF ~vision \/ answers[i] = None THEN [images[i] EXCEPT !.status = "failed"]
        ELSE [images[i] EXCEPT !.caption = answers[i],
                               !.status = IF answers[i] = <<>> THEN "failed" ELSE "completed"]]

Captions(images, origin) ==
    FlattenSeq([i \in DOMAIN images |-> IF images[i].origin = origin THEN images[i].caption ELSE <<>>])

Block(tag, texts) == IF texts = <<>> THEN <<>> ELSE <<Part(tag, texts)>>

\* _build_history_text: what the thread keeps of the message.
HistoryText(m) ==
    Block("base", m.base) \o Block("quoted", m.reply)
        \o Block("captions", Captions(m.images, "event"))
        \o Block("quoted captions", Captions(m.images, "reply"))

\* _build_memory_candidates: what memory is searched with.
MemoryCandidates(m) ==
    Block("base", m.base) \o Block("quoted", m.reply)
        \o FlattenSeq([i \in DOMAIN m.images |->
              Block(IF m.images[i].origin = "event" THEN "captions" ELSE "quoted captions",
                    m.images[i].caption)])

\* build_model_content: the text, and the images if the model sees them.
ModelContent(m, sees) ==
    [text |-> HistoryText(m),
     images |-> IF sees THEN SelectSeq(m.images, LAMBDA i : i.staged) ELSE <<>>]

\* MessageProjectionService.project
Project(m, captioning, vision, answers, sees) ==
    LET done == IF captioning THEN [m EXCEPT !.images = CaptionImages(@, vision, answers)] ELSE m
    IN [history |-> HistoryText(done), content |-> ModelContent(done, sees),
        candidates |-> MemoryCandidates(done)]

-----------------------------------------------------------------------------
(* The plan and the memory sources.                                         *)

\* _dedupe
Dedupe(s) == FoldLeft(LAMBDA acc, x : IF Contains(acc, x) THEN acc ELSE Append(acc, x), <<>>, s)

\* RetrievalPlanner.prepare; effective is what the compaction of the run left.
Plan(decision, effective) ==
    [tags     |-> IF decision = None THEN <<>> ELSE Dedupe(decision.tags),
     targets  |-> IF decision = None THEN <<>> ELSE Dedupe(decision.targets),
     retained |-> effective.compacted, dropped |-> effective.dropped, summary |-> effective.summary]

Slots == <<"system_prompt", "message_prefix", "message_history", "message_current_user">>

MemoryBlock(source, slot, priority, content) ==
    [source |-> source, slot |-> slot, priority |-> priority, content |-> content]

\* build_recent_context_text: today's file, then the newest daily files.
DailyFiles == 2
RecentText(today, daily) ==
    LET newest == Reverse(daily)
    IN FlattenSeq(<<today>> \o SubSeq(newest, 1, IF Len(newest) < DailyFiles THEN Len(newest) ELSE DailyFiles))

\* SelfFileRetriever
SelfFile(today, daily) ==
    LET content == RecentText(today, daily)
    IN IF content = <<>> THEN <<>> ELSE <<MemoryBlock("self", "message_prefix", 900, content)>>

\* StickyNoteRetriever: a target that is no reference raises, and the blocks of
\* the others go with it.
StickyNotes(targets, records) ==
    IF \E i \in DOMAIN targets : targets[i] \notin DOMAIN records THEN None
    ELSE LET shown == SelectSeq(targets, LAMBDA t : records[t] # None
                                            /\ (records[t].readonly # <<>> \/ records[t].editable # <<>>))
         IN [i \in DOMAIN shown |->
                MemoryBlock("sticky_notes", "message_prefix", 800,
                            records[shown[i]].readonly \o records[shown[i]].editable)]

\* _normalize_blocks: a block in a slot that is unknown or not allowed is
\* dropped, the others of its source stay.
SlotOf(block) == IF block.slot = "" THEN "message_prefix" ELSE block.slot
Permitted(source, block) == SlotOf(block) \in ToSet(Slots) /\ SlotOf(block) \in source.allowed
NormalizeBlocks(source) ==
    LET kept == SelectSeq(source.result, LAMBDA b : Permitted(source, b))
    IN [i \in DOMAIN kept |->
           [kept[i] EXCEPT !.slot = SlotOf(kept[i]), !.source = IF @ = "" THEN source.id ELSE @]]

\* MemoryBroker.retrieve: a source that raises does not take the others along.
Retrieve(sources) ==
    LET answered == SelectSeq(sources, LAMBDA s : s.enabled /\ s.result # None)
    IN FlattenSeq([i \in DOMAIN answered |-> NormalizeBlocks(answered[i])])

\* _user_content and _format_memory_candidates
QueryText(projection) ==
    IF projection.candidates # <<>> THEN projection.candidates ELSE projection.history

-----------------------------------------------------------------------------
(* The assembly.                                                            *)

SystemPriority ==
    [base_prompt |-> 1000, workspace_reminder |-> 950, run_persistence_reminder |-> 945,
     admin_host_maintenance_reminder |-> 940, tool_behavior_reminder |-> 925,
     skill_reminder |-> 900, subagent_reminder |-> 850]
WorkingSummaryPriority == 700

Contribution(kind, slot, priority, role, content) ==
    [kind |-> kind, slot |-> slot, priority |-> priority, role |-> role, content |-> content, index |-> 0]
SystemPart(kind, content) ==
    Contribution(kind, "system_prompt", SystemPriority[kind], "system", content)
SystemPartIf(cond, kind) == IF cond THEN <<SystemPart(kind, <<kind>>)>> ELSE <<>>

\* _build_tool_summary_contributions
ToolSummaries(tools) ==
    SystemPartIf(tools.skills # {}, "skill_reminder") \o SystemPartIf(tools.subagents # {}, "subagent_reminder")

MemoryContributions(blocks) ==
    [i \in DOMAIN blocks |-> Contribution(blocks[i].source, blocks[i].slot, blocks[i].priority,
                                          "system", blocks[i].content)]

WorkingSummary(plan) ==
    IF plan.summary = <<>> THEN <<>>
    ELSE <<Contribution("working_summary", "message_prefix", WorkingSummaryPriority, "system", plan.summary)>>

\* The run's own message is the last of the thread unless another run has
\* appended since; it is shown as the current message instead.
\* FAULT: whatever the user said last is taken for the current message.
EndsWithUser(retained, projection) ==
    retained # <<>> /\ Last(retained).role = "user"
EndsWithOwn(retained, projection) ==
    retained # <<>> /\ Last(retained).role = "user" /\ Last(retained).content = projection.history

\* _build_history_contributions
HistoryContributions(plan, projection) ==
    LET kept == IF EndsWithOwn(plan.retained, projection) THEN Front(plan.retained) ELSE plan.retained
    IN [i \in DOMAIN kept |->
           [Contribution("history_message", "message_history", 0, kept[i].role, kept[i].content)
               EXCEPT !.index = i - 1]]

CurrentUser(projection) ==
    Contribution("current_user_message", "message_current_user", 0, "user", projection.content.text)

\* _collect_contributions
Contributions(base, tools, blocks, plan, projection) ==
    <<SystemPart("base_prompt", base)>>
        \o SystemPartIf(TRUE, "workspace_reminder") \o SystemPartIf(TRUE, "run_persistence_reminder")
        \o SystemPartIf(tools.host_admin, "admin_host_maintenance_reminder")
        \o SystemPartIf(TRUE, "tool_behavior_reminder") \o ToolSummaries(tools)
        \o MemoryContributions(blocks) \o WorkingSummary(plan)
        \o HistoryContributions(plan, projection) \o <<CurrentUser(projection)>>

\* _sort_key: the history by its index, every other slot by priority.
SlotOrder(c) == CHOOSE i \in DOMAIN Slots : Slots[i] = c.slot
SortKey(c) ==
    IF c.slot = "message_history" THEN <<SlotOrder(c), c.index, 0>>
    ELSE <<SlotOrder(c), - c.priority, c.index>>
KeyBelow(k, l) ==
    \E i \in DOMAIN k : k[i] < l[i] /\ \A j \in 1..(i - 1) : k[j] = l[j]

Sorted(cs) ==
    LET keys == [i \in DOMAIN cs |-> SortKey(cs[i])]
        order == SortSeq([i \in DOMAIN cs |-> i], LAMBDA i, j :
                     KeyBelow(keys[i], keys[j]) \/ (keys[i] = keys[j] /\ i < j))
    IN [k \in DOMAIN order |-> cs[order[k]]]

\* _assemble_contributions
Assemble(cs) ==
    LET sorted == Sorted(cs)
    IN [system   |-> SelectSeq(sorted, LAMBDA c : c.slot = "system_prompt" /\ c.content # <<>>),
        messages |-> SelectSeq(sorted, LAMBDA c : c.slot # "system_prompt")]
=============================================================================
