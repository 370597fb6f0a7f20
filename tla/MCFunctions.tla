----------------------------- MODULE MCFunctions -----------------------------
(***************************************************************************)
(* The pure algorithms over small inputs.  A step chooses what is computed *)
(* (part) and its input, another one goes back to the start.               *)
(***************************************************************************)
EXTENDS FactWindows, WorldFiles

CONSTANTS MaxDelta, MaxSize,  \* facts of a delta, size of a window
          FileLines,          \* lines of a file
          TextLen             \* characters of a text

ASSUME FunctionsAssumption == MaxDelta \in Nat /\ MaxSize \in Nat

Prompt == INSTANCE PromptContext
Memory == INSTANCE MemoryRecall

VARIABLES part, in

inputs == <<part, in>>

Idle == [none |-> None]

FunctionsInit == part = "start" /\ in = Idle

Choose(p, i) == part' = p /\ in' = i

SeqsUpTo(S, n) == UNION {[1..m -> S] : m \in 0..n}

ChooseWindows ==
    /\ part = "start"
    /\ \E size \in 0..MaxSize, overlap \in -1..(MaxSize + 1), count \in 0..MaxDelta :
           Choose("windows", [size |-> size, overlap |-> overlap, count |-> count])

-----------------------------------------------------------------------------
(* A file and the limit of every call. *)
ChoosePages ==
    /\ part = "start"
    /\ \E file \in SeqsUpTo({0, 1, 3, MaxBytes + 1}, FileLines) \ {<<>>}, limit \in {None, 1, 2, 3} :
           Choose("pages", [file |-> file, limit |-> limit])

ChooseEdit ==
    /\ part = "start"
    /\ \E text \in SeqsUpTo({"a", "q", "Q", "SP", "LF", "CR"}, TextLen), bom \in {<<>>, <<"BOM">>},
          old \in SeqsUpTo({"a", "q", "SP", "LF"}, 2) \cup {<<"CR", "LF">>},
          new \in {<<>>, <<"a">>, <<"LF">>} :
           Choose("edit", [text |-> text, bom |-> bom, old |-> old, new |-> new])

Attachments ==
    [type : {"image", "file"}, source : {"url", "id"}, name : {"f"}, size : {1, 2, MaxAttachment + 1},
     fails : {0, DownloadRetries + 1}, api : {<<"error", "none", "url">>}]

ChooseStage ==
    /\ part = "start"
    /\ \E list \in SeqsUpTo(Attachments, 2) \cup {<<a, a, b>> : a, b \in Attachments}, gateway \in BOOLEAN :
           Choose("stage", [list |-> list, gateway |-> gateway])

AgentPolicy(backend, exec) ==
    [backend |-> backend, allow_exec |-> exec, allow_sessions |-> TRUE,
     auto_stage_attachments |-> TRUE, network_mode |-> "enabled"]

WorldInput(backend, exec, sub, decided, hidden, path, stored) ==
    LET p == [backend |-> backend, allow_exec |-> exec,
              actor_kind |-> IF sub THEN "subagent" ELSE "frontstage_agent",
              visible_skills |-> {"k"}]
        q == IF hidden = None THEN p ELSE Overlay(p, [roots |-> [r \in Roots |-> r \notin hidden]])
    IN [base |-> AgentPolicy("docker", ~ exec), sub |-> sub, path |-> path,
        decision |-> IF decided THEN ComputerOf(q) ELSE None, stored |-> stored, roots |-> hidden]

ChooseWorld ==
    /\ part = "start"
    /\ \E backend \in {"host", "docker"}, exec, sub, decided \in BOOLEAN, hidden \in {None} \cup SUBSET Roots,
          path \in {<<"workspace", "f">>, <<"skills">>, <<"skills", "k">>, <<"skills", ".", "k">>,
                    <<"skills", "other">>, <<"self", "f">>, <<"", "self">>, <<"etc">>, <<"workspace", "..">>},
          stored \in SUBSET {<<"k">>, <<"other">>} :
            Choose("world", WorldInput(backend, exec, sub, decided, hidden, path, stored))

-----------------------------------------------------------------------------
(* Cases of one domain; each sets the mode and says which case it was. *)
MCFacts == EventFacts(Translate([post_type |-> "message", message_type |-> "group", user_id |-> "u1",
                                 group_id |-> "g1", role |-> "owner",
                                 message |-> <<[type |-> "image", id |-> "i", qq |-> "", text |-> ""]>>],
                                "bot"), {})

RawSpecs == {NoKeys, [scene |-> "group"], [scene |-> "private"], [platform |-> ""],
             [scene |-> "group", is_bot_admin |-> FALSE],
             [sender_roles |-> {"owner", "admin"}, attachment_kinds |-> {"image"},
              notice_type |-> None]}

\* A case has conditions of its own or names the selector.
RawCase(i, priority, conditions) ==
    Overlay([case_id |-> i, priority |-> priority, use |-> [mode |-> "respond"]], conditions)

ChooseCases ==
    /\ part = "start"
    /\ \E n \in 0..3 : \E whens \in [1..n -> RawSpecs], prios \in [1..n -> {100, 200}],
                          byRef \in [1..n -> BOOLEAN] :
           Choose("cases",
                  [cases |-> [i \in 1..n |->
                       RawCase(i, prios[i], IF byRef[i] THEN [when_ref |-> "s"] ELSE [when |-> whens[i]])],
                   selector |-> [scene |-> "group"]])

-----------------------------------------------------------------------------
(* Raw events of one group and one private chat. *)
Seg(type, id, qq, text) == [type |-> type, id |-> id, qq |-> qq, text |-> text]

Segments == {<<>>, <<Seg("text", "", "", "hi")>>, <<Seg("text", "", "", "/cmd")>>,
             <<Seg("at", "", "bot", ""), Seg("text", "", "", "/cmd")>>,
             <<Seg("at", "", "u2", "")>>, <<Seg("at", "", "all", "")>>,
             <<Seg("reply", "m1", "bot", "")>>, <<Seg("reply", "m1", "u2", "")>>,
             <<Seg("reply", "m1", "bot", ""), Seg("reply", "m2", "u2", "")>>,
             <<Seg("reply", "m1", "bot", ""), Seg("at", "", "bot", "")>>,
             <<Seg("image", "i", "", "")>>}

InChat(kind) == IF kind = "group" THEN [group_id |-> "g1"] ELSE NoKeys

RawMessages(kind, users) ==
    {Overlay([post_type |-> "message", message_type |-> kind, user_id |-> u, message |-> segs,
              role |-> "member"], InChat(kind)) :
        u \in users, segs \in Segments}

RawNotices(kind, users) ==
    LET base == Overlay([post_type |-> "notice"], InChat(kind))
    IN {Overlay(base, [notice_type |-> "notify", sub_type |-> s, user_id |-> u, target_id |-> "bot",
                       honor_type |-> "talkative"]) :
            u \in users, s \in IF kind = "group" THEN {"poke", "lucky_king", "honor", "title", "new"}
                               ELSE {"poke", "new"}}
       \cup {Overlay(base, [notice_type |-> t, user_id |-> u, message_id |-> "m1", file |-> "f"]) :
            u \in users, t \in IF kind = "group"
                THEN {"group_recall", "group_increase", "group_decrease", "group_admin",
                      "group_upload", "group_ban", "essence"}
                ELSE {"friend_recall", "friend_add"}}

KindOf(template) == IF template = "qq_group" THEN "group" ELSE "private"
ScopeOf(template) == IF template = "qq_group" THEN <<"qq", "group", "g1">> ELSE <<"qq", "user", "u1">>

FormIds(template) == {<<t>> : t \in DOMAIN Aliases[template]}
                         \cup {<<"message", "mention">>, <<"notice", "group_admin">>, <<"message", "private">>}

FormOf(ids, modes) == [i \in 1..Len(ids) |-> <<ids[i], [admission |-> Admits(modes[i])]>>]
FormFile(template, form) ==
    SessionPayload(ScopeOf(template), "agent", template, NoKeys, StoredSurfaces(form, template))

ChooseForm ==
    /\ part = "start"
    /\ \E template \in {"qq_group", "qq_private"} :
       \E ids \in SeqsUpTo(FormIds(template), 2), modes \in [1..2 -> {"record_only", "silent_drop"}],
          raw \in RawMessages(KindOf(template), {"u1"}) \cup RawNotices(KindOf(template), {"u1"}) :
           /\ Len(ids) = 2 => ids[1] # ids[2]
           /\ Choose("form", [template |-> template, raw |-> raw, form |-> FormOf(ids, modes)])

GroupId == <<"qq", "group", "g1">>
GroupFile == SessionPayload(GroupId, "agent", "qq_group", NoKeys, DefaultSurfaces("qq_group"))

ChooseGroup ==
    /\ part = "start"
    /\ \E raw \in RawMessages("group", {"u1", "u2"}), configured \in BOOLEAN,
          admins \in SUBSET {<<"qq", "user", "u1">>, <<"qq", "private", "u2">>, <<"qq", "group", "g1">>} :
           Choose("group", [raw |-> raw, admins |-> admins, configured |-> configured])

\* What these inputs are parsed to and resolved to.
Payloads ==
    [mode : Modes] \cup [backend : {"docker", "host"}, allow_exec : BOOLEAN, allow_sessions : BOOLEAN]
CaseIds == Nat \cup {"", "bot_admin_host"}
CaseSpecs == RawSpecs \cup {[is_bot_admin |-> TRUE]}
ParsedCases ==
    [case_id : CaseIds, when : {None} \cup {ParseMatchSpec(r) : r \in CaseSpecs}, when_ref : {"", "s"},
     use : Payloads, priority : Nat]
ParsedDomains == [default : Payloads, cases : Seq(ParsedCases)]
Resolutions ==
    [payload : Payloads \cup {NoKeys}, case_id : CaseIds, priority : Nat, specificity : Nat]
Computers ==
    [actor_kind : {"frontstage_agent"}, backend : {"docker", "host"}, allow_exec : BOOLEAN,
     allow_sessions : BOOLEAN, roots : {DefaultRoots("frontstage_agent")}, visible_skills : {None},
     visible_subagents : {{}}]

\* None and the exceptions are marks of their own, none of the values computed with.
ASSUME MarksAssumption ==
    /\ None # Raised /\ Missing # Raised
    /\ None \notin Nat \cup BOOLEAN \cup {"g1", "notify", "group_recall", "group_increase", "group_decrease",
                                        "group_admin", "group_upload", "group_ban", "friend_recall"}
    /\ Raised \notin Modes \cup ParsedCases \cup ParsedDomains \cup Resolutions
    /\ None \notin ParsedCases \cup ParsedDomains \cup Computers
    /\ None \notin {Admits(m) : m \in Modes} \cup {GroupComputer}
    /\ \A r \in CaseSpecs : r # None /\ ParseMatchSpec(r) \notin {None, Raised}
    /\ \A raw \in RawMessages("group", {"u1", "u2"}) : TranslateMessage(raw, "bot") # None
    /\ SessionOf(GroupFile, GroupId) \notin {Missing, Raised}
    /\ \A t \in {"qq_group", "qq_private"} :
       \A ids \in SeqsUpTo(FormIds(t), 2), modes \in [1..2 -> {"record_only", "silent_drop"}] :
           SessionOf(FormFile(t, FormOf(ids, modes)), ScopeOf(t)) \notin {Missing, Raised}

-----------------------------------------------------------------------------
(* What a run reads: its message, the thread as another run may leave it,   *)
(* the notes, the files of the bot and the block of a plugin. *)
Messages == {[role |-> r, content |-> <<Prompt!Part("base", <<"hi">>)>>] : r \in {"user", "assistant"}}

Replies == {None} \cup [preview : {<<>>, <<"preview">>},
                        fetched : {None, [text |-> <<"quoted">>, snapshots |-> <<[image |-> TRUE, staged |-> TRUE]>>]}]

PluginBlocks == {None} \cup {<<Prompt!MemoryBlock(s, slot, p, <<"plugin">>)>> :
                               s \in {"", "p"}, slot \in {"", "message_history", "system_prompt", "other"},
                               p \in {0, 850}}

ChooseContext ==
    /\ part = "start"
    /\ \E base \in {<<>>, <<"hi">>}, reply \in Replies, captioning, staged \in BOOLEAN,
          caption \in {None, <<"cat">>}, before \in SeqsUpTo(Messages, 1), after \in SeqsUpTo(Messages, 2),
          note \in {None, <<>>, <<"note">>}, known, allowed \in BOOLEAN, plugin \in PluginBlocks :
           /\ plugin # None => base # <<>> /\ reply = None
           /\ base # <<>> \/ reply # None
           /\ Choose("context",
                [event |-> [base |-> base, reply |-> reply, snapshots |-> <<[image |-> TRUE, staged |-> staged]>>],
                 captioning |-> captioning, answers |-> <<caption, <<"dog">>>>, before |-> before, after |-> after,
                 note |-> note, known |-> known, host_admin |-> known, allowed |-> allowed, plugin |-> plugin])

-----------------------------------------------------------------------------
(* Facts of a window and what the extractor's model answers. *)
(* Times as texts in their order: the date of a day and two timestamps of it. *)
Days == 1..3
Date(day) == 3 * day
Stamp(day, moment) == Date(day) + moment
Day(text) == text \div 3
Dates == {None} \cup {Date(day) : day \in Days}
Times == Dates \cup {Stamp(day, moment) : day \in Days, moment \in 1..2}

RawMemory(evidence, point, start, end) ==
    [evidence |-> evidence, point |-> point, start |-> start, end |-> end, topic |-> "t",
     restatement |-> "r", persons |-> {"u1"}, entities |-> {}, location |-> None]

ChooseExtraction ==
    /\ part = "start"
    /\ \E facts \in SeqsUpTo([kind : {"message"}, id : {1, 2}, role : {"user", "assistant"}], 3) \ {<<>>},
          answer \in {None} \cup SeqsUpTo(SeqsUpTo(0..3, 2), 2) :
           /\ \A i, j \in DOMAIN facts : facts[i].id = facts[j].id => facts[i] = facts[j]
           /\ Choose("extraction", [facts |-> facts,
                  response |-> IF answer = None THEN None
                            ELSE [i \in DOMAIN answer |-> RawMemory(answer[i], Stamp(1, 1), Date(1), Date(2))]])

\* The planner is asked for dates, the extractor for dates or timestamps.
ChooseTimes ==
    /\ part = "start"
    /\ \E from, to \in Dates, point, start, end \in Times :
           /\ point # None => start = None /\ end = None
           /\ Choose("times", [from |-> from, to |-> to,
                               entry |-> [point |-> point, start |-> start, end |-> end]])

(* A table of memories of one conversation, one of another, and the hits of *)
(* every search for the text of the message and for the planner's query.   *)
ChooseRecall ==
    /\ part = "start"
    /\ \E updated \in [1..3 -> 1..2], points \in [1..3 -> {None, Stamp(2, 1)}], persons \in {{}, {"u1"}, {"u2"}},
          range \in {None, <<Date(1), Date(1)>>, <<Date(2), None>>}, similar \in [1..3 -> {None, 1, 2}],
          found \in {<<>>, <<1>>, <<3, 2>>, <<4, 3, 1>>}, planned \in BOOLEAN :
           /\ points[3] = None
           /\ Choose("recall",
                  [updated |-> updated, points |-> points, found |-> found, similar |-> similar,
                   plan |-> [semantic |-> IF planned THEN <<"q">> ELSE <<>>, lexical |-> <<>>,
                             filters |-> [persons |-> persons, entities |-> {}, location |-> None,
                                          range |-> range]]])

Return == part # "start" /\ part' = "start" /\ in' = Idle

FunctionsNext == \/ ChooseWindows \/ ChoosePages \/ ChooseEdit \/ ChooseStage \/ ChooseWorld
        \/ ChooseCases \/ ChooseForm \/ ChooseGroup \/ ChooseContext
        \/ ChooseExtraction \/ ChooseTimes \/ ChooseRecall \/ Return

FunctionsSpec == FunctionsInit /\ [][FunctionsNext]_inputs

-----------------------------------------------------------------------------
(* The properties.  A result that is looked at more than once is bound by a *)
(* quantifier over its singleton, so that TLC computes it once.             *)

\* slice_fact_windows: every fact is in a window, since the cursor passes what
\* is left out; neighbours share what the overlap asks for, but never the
\* whole window.
WindowsCover == part = "windows" => Covers(in.size, in.overlap, in.count)

(* Following the offsets; after a line that is too long the reader skips it. *)
PagesFrom(file, limit) ==
    LET from[start \in 1..(Len(file) + 1)] ==
          IF start > Len(file) THEN <<>>
          ELSE LET page == ReadPage(file, start, limit)
                   next == IF page.tooLong THEN start + 1 ELSE page.next
               IN <<page>> \o (IF next = None THEN <<>> ELSE from[next])
    IN from[1]

(* format_read_text: a reader who follows the offsets it is given sees every *)
(* line that is not blank exactly once and in order, or is told that the line *)
(* is too long, and no page is larger than the limits.                      *)
PagesCoverFile ==
    part = "pages" =>
    \A pages \in {PagesFrom(in.file, in.limit)} :
    LET Shows(p, l) == p.from <= l /\ l <= p.to
    IN /\ \A l \in 1..Len(in.file) : in.file[l] # 0 =>
            Cardinality({k \in DOMAIN pages :
                Shows(pages[k], l) \/ (pages[k].tooLong /\ pages[k].from = l)}) = 1
       /\ \A j, k \in DOMAIN pages : j < k => pages[j].from < pages[k].from
       /\ \A k \in DOMAIN pages :
            /\ pages[k].tooLong = (in.file[pages[k].from] > MaxBytes)
            /\ ~ pages[k].tooLong =>
                 /\ pages[k].to - pages[k].from < MaxLines
                 /\ BytesOf(SubSeq(in.file, pages[k].from, pages[k].to),
                            pages[k].to - pages[k].from + 1) <= MaxBytes

(* prepare_text_edit: an edit that found the exact text changes no other text *)
(* of the file, which keeps its byte order mark, and the text does not stand at *)
(* another place of it (a text of blanks apart, whose occurrences are not   *)
(* counted).  A file whose lines all end in the same way, LF or CR LF, stays *)
(* as it is outside the edit; in any other file all lines come to end in the *)
(* same one of the two ways.                                                *)
LineEndings == {<<"LF">>, <<"CR", "LF">>}

EditIsLocal ==
    part = "edit" =>
    \A r  \in {PrepareEdit(in.bom \o in.text, in.old, in.new)}, lf \in {ToLf(in.text)},
       old \in {ToLf(in.old)} :
    r # Raised /\ ~ r.match.fuzzy =>
        LET i == r.match.index
            n == Len(old)
            Edited(ending) ==
                in.bom \o RestoreLineEndings(
                    SubSeq(lf, 1, i - 1) \o in.new \o SubSeq(lf, i + n, Len(lf)), ending)
        IN /\ \E ending \in LineEndings : r.content = Edited(ending)
           /\ \A ending \in LineEndings :
                Contains(in.text, "LF") /\ RestoreLineEndings(lf, ending) = in.text =>
                    r.content = Edited(ending)
           /\ Fuzzy(old) # <<>> =>
                \A j \in 1..Len(lf) : OccursAt(lf, old, j) => j < i + n /\ i < j + n

(* stage_attachments: what one call reports as staged stays within the total *)
(* limit, every file it leaves to be read, the refused ones included, is within *)
(* the limit of a file, what is reported as staged can be read, and a file is *)
(* refused only if it cannot be fetched or because of the files before it.  A *)
(* refused file can still be read, and a run stages again for the images of the *)
(* message it replies to: what a run reads in all is not bounded by the total. *)
StagedWithinLimits ==
    part = "stage" =>
    LET out == StageAttachments(in.list, in.gateway)
        Staged(n) == out[n].status = "staged"
    IN /\ FoldLeft(LAMBDA acc, o : acc + o.size, 0, out) <= MaxTotal
       /\ \A n \in DOMAIN out :
            /\ Staged(n) => out[n].path /\ out[n].size = in.list[n].size
            /\ out[n].path => in.list[n].size <= MaxAttachment
            /\ ~ out[n].path => GatewayStage(in.list[n], in.gateway) = "failed"
            /\ out[n].path /\ ~ Staged(n) =>
                 FoldLeft(LAMBDA acc, a : acc + a.size, 0, SubSeq(in.list, 1, n)) > MaxTotal

(* build_world_view: where bash is offered, the workspace is open to the file *)
(* tools too and at a path commands can reach, what the shell can reach is  *)
(* visible to the file tools, and with the default roots a sub-agent reaches *)
(* nothing of /self.                                                        *)
ToolsMatchWorld ==
    part = "world" =>
    LET policy == EffectivePolicy(in.base, in.decision)
        world  == BuildWorld(in.decision, policy, in.sub, {"k"})
        path   == ResolveFile(world, in.path, FALSE, in.stored, in.stored)
        home   == ResolveFile(world, <<"workspace", "f">>, FALSE, in.stored, in.stored)
    IN /\ "bash" \in AvailableTools(policy, world) =>
            home \notin {Raised, Missing} /\ home.executable
       /\ world.exec \subseteq world.visible
       /\ path \notin {Raised, Missing} =>
            /\ path.root \in world.visible
            /\ path.root = "skills" /\ path.relative # <<>> =>
                 path.relative[1] \in world.skills /\ path.relative \in in.stored
            /\ in.sub /\ (in.decision = None \/ in.roots = None) => path.root # "self"
            /\ policy.backend = "host" => path.executable

\* The files of a workspace: reading page by page skips nothing, an edit changes
\* no other text, a call reports no more as staged than its limits allow, and
\* paths stay inside the world the policy shows.
FilesServeRun == PagesCoverFile /\ EditIsLocal /\ StagedWithinLimits /\ ToolsMatchWorld

(* _resolve_single_domain: the case that decides is the best of those that  *)
(* match, by priority and then by the number of conditions, wherever it stands *)
(* in the file; a conflict is only reported between cases that tie.         *)
WinnerIsBest ==
    part = "cases" =>
    LET cases == [i \in 1..Len(in.cases) |-> ParseCase(in.cases[i])]
        sels  == [s \in {"s"} |-> ParseMatchSpec(in.selector)]
        hits  == {i \in DOMAIN cases : Matches(CaseSpec(cases[i], sels), MCFacts)}
        Prio(i) == cases[i].priority
        Spec_(i) == Specificity(CaseSpec(cases[i], sels))
        r     == ResolveDomain([default |-> [mode |-> "record_only"], cases |-> cases], sels, MCFacts)
    IN IF r = Raised
       THEN \E i, j \in hits : i # j /\ Prio(i) = Prio(j) /\ Spec_(i) = Spec_(j)
       ELSE IF hits = {} THEN r.payload.mode = "record_only" /\ r.case_id = ""
       ELSE /\ r.case_id \in hits
            /\ r.payload.mode = "respond"
            /\ \A i \in hits \ {r.case_id} :
                 \/ Prio(i) < Prio(r.case_id)
                 \/ Prio(i) = Prio(r.case_id) /\ Spec_(i) < Spec_(r.case_id)

(* The name the form has for an event. *)
PublicType(e) ==
    IF ~ IsMessage(e) THEN e.event_type
    ELSE IF IsPrivate(e) THEN "message"
    ELSE IF e.mentions_self THEN "message_mention"
    ELSE IF e.reply_targets_self THEN "message_reply" ELSE "message"

(* From the form to the decision: an event of a type the form configures is *)
(* admitted as the form says, unless another entry of it stands for the same *)
(* surface (the four notify events share one); an entry under the surface's *)
(* own id goes before the public name.                                      *)
FormDecides ==
    part = "form" =>
    LET e     == Translate(in.raw, "bot")
        alias == Aliases[in.template]
        SurfaceOf(id) == IF Len(id) = 1 THEN alias[id[1]] ELSE id
        d     == Route(e, [s \in {ScopeOf(in.template)} |-> FormFile(in.template, in.form)], {})
        type  == PublicType(e)
        own   == {n \in DOMAIN in.form : type \in DOMAIN alias
                                          /\ SurfaceOf(in.form[n][1]) = alias[type]}
        best  == {n \in own : Len(in.form[n][1]) = 2} 
        entry == CHOOSE n \in IF best # {} THEN best ELSE own : TRUE
    IN e # None /\ own # {} /\ (best # {} \/ Cardinality(own) = 1) =>
        d.run_mode = in.form[entry][2].admission.default.mode

(* A group created with the default surfaces: the bot answers who mentions it *)
(* or replies to it and only records the rest, and only the shared admins, also *)
(* under their private alias, work on the host; a session without a file is *)
(* dropped.                                                                 *)
HostForAdmins ==
    part = "group" =>
    LET e     == Translate(in.raw, "bot")
        d     == Route(e, IF in.configured THEN [s \in {GroupId} |-> GroupFile] ELSE NoKeys, in.admins)
        u     == e.source.user_id
        admin == \E k \in {"user", "private"} : <<"qq", k, u>> \in in.admins
    IN IF ~ in.configured THEN d.run_mode = "silent_drop"
       ELSE /\ d.run_mode = IF d.relation \in {"mention_self", "reply_to_self"}
                            THEN "respond" ELSE "record_only"
            /\ (EffectivePolicy(AgentPolicy("host", TRUE), d.computer).backend = "host") = admin

\* SessionRuntime and RuntimeRouter: the best matching case decides, an event
\* is treated as the console's form says, and only admins work on the host.
SessionsDecide == WinnerIsBest /\ FormDecides /\ HostForAdmins

(* The prompt of the run of ChooseContext. *)
MCProjection ==
    Prompt!Project(Prompt!Resolve(in.event, in.captioning), in.captioning, TRUE, in.answers, TRUE)
MCRetained(p) == in.before \o <<[role |-> "user", content |-> p.history]>> \o in.after
MCSources(targets) ==
    << [id |-> "self", enabled |-> TRUE, allowed |-> ToSet(Prompt!Slots),
        result |-> Prompt!SelfFile(<<"today">>, <<<<"d1">>, <<>>, <<"d3">>>>)],
       [id |-> "sticky", enabled |-> TRUE, allowed |-> ToSet(Prompt!Slots),
        result |-> Prompt!StickyNotes(targets, IF in.known THEN [t \in {"u"} |->
            IF in.note = None THEN None ELSE [readonly |-> in.note, editable |-> <<>>]] ELSE <<>>)],
       [id |-> "plugin", enabled |-> in.allowed, allowed |-> ToSet(Prompt!Slots), result |-> in.plugin] >>

\* From the message to the prompt: the model reads every message the thread has
\* kept, in order, its own message last even if another run has appended since
\* and once if none has; what a source brings in a slot it may use appears once,
\* and before the conversation in the order of the priorities, whatever becomes
\* of the other sources; memory is searched with the same texts the thread keeps.
ContextKeepsHistory ==
    part = "context" =>
    LET p        == MCProjection
        retained == MCRetained(p)
        plan     == Prompt!Plan([tags |-> <<>>, targets |-> <<"u", "u">>],
                                [compacted |-> retained, dropped |-> <<>>, summary |-> <<"summary">>])
        sources  == MCSources(plan.targets)
        out      == Prompt!Assemble(Prompt!Contributions(<<"base">>,
                        [host_admin |-> in.host_admin, skills |-> {"k"}, subagents |-> {}],
                        Prompt!Retrieve(sources), plan, p))
        Shown(kinds) == SelectSeq(out.messages, LAMBDA c : c.kind \in kinds)
        Turns(s) == [i \in DOMAIN s |-> [role |-> s[i].role, content |-> s[i].content]]
        prefix   == SelectSeq(out.messages, LAMBDA c : c.slot = "message_prefix")
        Texts(s, tag) == FlattenSeq([i \in DOMAIN s |-> IF s[i].tag = tag THEN s[i].text ELSE <<>>])
        Count(s, kinds, x) == Cardinality({i \in DOMAIN s : s[i].kind \in kinds /\ s[i].content = x})
    IN /\ Turns(Shown({"history_message"})) =
              IF Last(retained) = [role |-> "user", content |-> p.history] THEN Front(retained) ELSE retained
       /\ Last(out.messages).kind = "current_user_message" /\ Last(out.messages).content = p.history
       /\ \A i \in DOMAIN prefix : /\ out.messages[i] = prefix[i]
                                    /\ i > 1 => prefix[i - 1].priority >= prefix[i].priority
       /\ Count(out.messages, {"self"}, <<"today", "d3">>) = 1
       /\ Count(out.messages, {"sticky_notes"}, <<"note">>) = IF in.known /\ in.note = <<"note">> THEN 1 ELSE 0
       /\ Count(out.messages \o out.system, {"p", "plugin"}, <<"plugin">>) =
              IF in.allowed /\ in.plugin # None /\ in.plugin[1].slot # "other" THEN 1 ELSE 0
       /\ \A tag \in {"base", "quoted", "captions", "quoted captions"} :
              Texts(Prompt!QueryText(p), tag) = Texts(p.history, tag)

(* The memories a bot has: nothing it only said itself is among them. *)
MemoriesGrounded ==
    part = "extraction" =>
    LET entries == Memory!ExtractWindow(in.facts, in.response, "c", 1)
    IN entries # Raised =>
         \A i \in DOMAIN entries :
            /\ entries[i].facts \subseteq {Memory!FactId(in.facts[j]) : j \in DOMAIN in.facts}
            /\ \E j \in DOMAIN in.facts : /\ Memory!FactId(in.facts[j]) \in entries[i].facts
                                          /\ in.facts[j].role = "user"
            /\ entries[i].point = None \/ (entries[i].start = None /\ entries[i].end = None)

(* A question about the days from one date to another finds the memories that *)
(* end on its first day or later and begin before its last day, a bound that is *)
(* not given being none.  Of the last day itself it finds those whose beginning *)
(* is that date alone: a timestamp is a longer text, and above its date.    *)
TimesMeet ==
    part = "times" =>
    LET e     == in.entry
        first == IF e.point # None THEN e.point ELSE e.start
        last  == IF e.point # None THEN e.point ELSE e.end
    IN Memory!TimeOverlaps(in.from, in.to, e) =
         (/\ in.from # None /\ last # None => Day(last) >= Day(in.from)
          /\ in.to # None /\ first # None => Day(first) < Day(in.to) \/ first = in.to)

MCTable ==
    [i \in 1..4 |->
        Memory!ExtractWindow(<<[kind |-> "message", id |-> i, role |-> "user"]>>,
            <<[RawMemory(<<1>>, IF i = 4 THEN None ELSE in.points[i], None, None)
                  EXCEPT !.persons = {IF i = 2 THEN "u2" ELSE "u1"}]>>,
            IF i = 4 THEN "other" ELSE "c", IF i = 4 THEN 2 ELSE in.updated[i])[1]]
RecallLimit == 2

(* What a run recalls: memories of its own conversation, none twice and not *)
(* more than it may; and no memory that a search brought up is left out for *)
(* one below it by symbolic, then semantic, then lexical hit, then age. *)
BestRecalled ==
    part = "recall" =>
    \A table \in {MCTable} :
    LET index == [embeds  |-> TRUE,
                  similar |-> [q \in {"q", "text"} |->
                      [id \in {table[i].entry_id : i \in 1..4} |->
                          LET i == CHOOSE i \in 1..4 : table[i].entry_id = id
                          IN IF i = 4 THEN 1 ELSE IF q = "q" THEN in.similar[i] ELSE None]],
                  found   |-> [q \in {"text"} |-> in.found]]
        f     == in.plan.filters
    IN \A shown    \in {Memory!Recall(table, "c", in.plan, "text", index, RecallLimit)},
          symbolic \in {IF Memory!NoFilter(f) THEN <<>>
                        ELSE Memory!StructuredSearch(table, "c", f, RecallLimit)},
          semantic \in {IF in.plan.semantic = <<>> THEN <<>>
                        ELSE Memory!SemanticSearch(table, "c", index.similar["q"], RecallLimit)},
          lexical  \in {Memory!KeywordSearch(table, "c", in.found, RecallLimit)} :
       LET Hit(s, e) == IF Contains(s, e) THEN 1 ELSE 0
           Key(e) == <<Hit(symbolic, e), Hit(semantic, e), Hit(lexical, e), e.updated>>
       IN /\ Len(shown) <= RecallLimit
          /\ \A i \in DOMAIN shown : /\ shown[i].conversation = "c"
                                      /\ \A j \in DOMAIN shown : i # j => shown[i] # shown[j]
          /\ \A e \in ToSet(symbolic \o semantic \o lexical) : ~ Contains(shown, e) =>
                 /\ Len(shown) = RecallLimit
                 /\ \A i \in DOMAIN shown : ~ Prompt!KeyBelow(Key(shown[i]), Key(e))

\* extract_window, _time_overlaps and LtmMemorySource: every memory rests on
\* something a user said, a question about dates finds what began before its last
\* day and was not over before its first, and a run recalls the best memories its searches bring up.
RecallIsBest == MemoriesGrounded /\ TimesMeet /\ BestRecalled
=============================================================================
