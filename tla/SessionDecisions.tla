--------------------------- MODULE SessionDecisions ---------------------------
(***************************************************************************)
(* From an event to a RouteDecision: SessionRuntime derives the facts,     *)
(* SessionConfigLoader reads the session's file, the surface is chosen and *)
(* each decision domain of it is resolved to one case at most.             *)
(*                                                                         *)
(* A session id or scope is a triple <<platform, kind, identifier>>.  A    *)
(* mapping of the YAML file is a function; a key it does not have is not   *)
(* in its domain.  A MatchSpec is the function of the keys it declares.    *)
(* Raised stands for the ValueError of a check.                            *)
(***************************************************************************)
EXTENDS EventTranslation, Integers, FiniteSetsExt

CONSTANTS Missing,            \* FileNotFoundError
          Raised              \* ValueError

Get(map, key, default) == IF key \in DOMAIN map THEN map[key] ELSE default
Overlay(base, over) == [k \in DOMAIN base \cup DOMAIN over |->
                            IF k \in DOMAIN over THEN over[k] ELSE base[k]]
NoKeys == [k \in {} |-> None]

-----------------------------------------------------------------------------
(* Facts. *)
Platform == "qq"
ActorId(e) == <<Platform, "user", e.source.user_id>>
ChannelScope(e) == IF IsGroup(e) THEN <<Platform, "group", e.source.group_id>> ELSE ActorId(e)
Scene(e) == IF ~ IsMessage(e) THEN "notice" ELSE IF IsGroup(e) THEN "group" ELSE "private"

(* An admin may be configured under the private alias of the user id. *)
IsSharedAdmin(admins, actor) ==
    \/ actor \in admins
    \/ actor[2] = "user" /\ <<actor[1], "private", actor[3]>> \in admins

EventFacts(e, admins) ==
    [platform |-> Platform, event_kind |-> e.event_type, scene |-> Scene(e),
     actor_id |-> ActorId(e), channel_scope |-> ChannelScope(e),
     thread_id |-> ChannelScope(e), targets_self |-> e.targets_self,
     mentions_self |-> e.mentions_self, reply_targets_self |-> e.reply_targets_self,
     mentioned_everyone |-> e.mentioned_everyone,
     is_bot_admin |-> IsSharedAdmin(admins, ActorId(e)),
     sender_roles |-> IF e.sender_role = None THEN {} ELSE {e.sender_role},
     attachments_present |-> e.attachments # <<>>,
     attachment_kinds |-> {e.attachments[i].type : i \in 1..Len(e.attachments)},
     message_subtype |-> e.message_subtype, notice_type |-> e.notice_type,
     notice_subtype |-> e.notice_subtype, text |-> EventText(e)]

-----------------------------------------------------------------------------
(* The session file. *)
ListKeys == {"sender_roles", "attachment_kinds"}
FlagKeys == {"targets_self", "mentions_self", "reply_targets_self",
             "mentioned_everyone", "is_bot_admin", "attachments_present"}
IdKeys   == {"actor_id", "channel_scope", "thread_id"}

(* _parse_match_spec: an empty string or list declares nothing, a flag that
   is given counts, FALSE included. *)
ParseMatchSpec(raw) ==
    [k \in {j \in DOMAIN raw : CASE j \in ListKeys -> raw[j] # {}
                                 [] j \in FlagKeys \cup IdKeys -> raw[j] # None
                                 [] OTHER -> raw[j] # None /\ raw[j] # ""} |-> raw[k]]

Matches(spec, facts) ==
    \A k \in DOMAIN spec : IF k \in ListKeys THEN spec[k] \cap facts[k] # {}
                                             ELSE spec[k] = facts[k]

Specificity(spec) == Cardinality(DOMAIN spec)

(* _parse_case; "when" is absent, or declares conditions. *)
ParseCase(raw) ==
    [case_id  |-> Get(raw, "case_id", ""),
     when     |-> IF Get(raw, "when", None) = None THEN None ELSE ParseMatchSpec(raw.when),
     when_ref |-> Get(raw, "when_ref", ""),
     use      |-> Get(raw, "use", NoKeys),
     priority |-> Get(raw, "priority", 100)]

OverridesAgent(payload) == Get(payload, "agent_id", "") # ""

(* _parse_domain_config: None, Raised for a routing domain that names an
   agent, or default and cases. *)
ParseDomain(surface, domain) ==
    LET raw   == Get(surface, domain, None)
        def   == Get(raw, "default", NoKeys)
        cases == Get(raw, "cases", <<>>)
        parsed == [i \in 1..Len(cases) |-> ParseCase(cases[i])]
    IN IF raw = None THEN None
       ELSE IF /\ domain = "routing"
               /\ OverridesAgent(def) \/ \E i \in 1..Len(parsed) : OverridesAgent(parsed[i].use)
            THEN Raised
            ELSE [default |-> def, cases |-> parsed]

Domains == {"routing", "admission", "context", "persistence", "extraction", "computer"}

ParseSurface(surface) == [d \in Domains |-> ParseDomain(surface, d)]

ValidPart(part) == part \notin {"", ".", ".."}
ValidSessionId(id) == Len(id) = 3 /\ \A i \in 1..3 : ValidPart(id[i])

ParsedSurfaces(raw) == [s \in DOMAIN Get(raw, "surfaces", NoKeys) |-> ParseSurface(raw.surfaces[s])]

SessionOf(raw, id) ==
    LET context  == Get(raw, "context", NoKeys)
        strategy == Get(context, "strategy", "truncate")
        kept     == Get(context, "preserve_recent", 12)
    IN [session_id |-> id, template_id |-> Get(raw, "template", ""),
        frontstage_agent_id |-> raw.agent_id,
        selectors |-> [s \in DOMAIN Get(raw, "selectors", NoKeys) |-> ParseMatchSpec(raw.selectors[s])],
        surfaces |-> ParsedSurfaces(raw),
        context_strategy |-> IF strategy \in {"truncate", "summarize"} THEN strategy ELSE "truncate",
        context_preserve_recent |-> IF kept = 0 THEN 12 ELSE IF kept < 1 THEN 1 ELSE kept]

(* _parse_session_config. *)
ParseSessionConfig(raw, id) ==
    LET surfaces == ParsedSurfaces(raw)
    IN IF \/ \E s \in DOMAIN surfaces, d \in Domains : surfaces[s][d] = Raised
          \/ Get(raw, "agent_id", "") = ""
          \/ Get(raw, "id", id) # id
       THEN Raised ELSE SessionOf(raw, id)

(* load_by_session_id over the files on disk. *)
LoadSession(files, id) ==
    IF ~ ValidSessionId(id) THEN Raised
    ELSE IF id \notin DOMAIN files THEN Missing
    ELSE ParseSessionConfig(files[id], id)

-----------------------------------------------------------------------------
(* The surface. *)
IsCommand(text) == text = "/cmd"

SurfaceCandidates(facts) ==
    IF facts.event_kind # "message"
    THEN IF facts.notice_type # None
         THEN <<<<"notice", facts.notice_type>>, <<"notice", "default">>>>
         ELSE <<<<"notice", "default">>>>
    ELSE IF facts.scene = "private"
    THEN IF IsCommand(facts.text)
         THEN <<<<"message", "command">>, <<"message", "private">>, <<"message", "plain">>>>
         ELSE <<<<"message", "private">>, <<"message", "plain">>>>
    ELSE IF facts.mentions_self
    THEN <<<<"message", "mention">>, <<"message", "plain">>>>
    ELSE IF facts.reply_targets_self
    THEN <<<<"message", "reply_to_bot">>, <<"message", "plain">>>>
    ELSE IF IsCommand(facts.text)
    THEN <<<<"message", "command">>, <<"message", "plain">>>>
    ELSE <<<<"message", "plain">>>>

ResolveSurface(facts, session) ==
    LET chain == SurfaceCandidates(facts)
        hits  == {i \in DOMAIN chain : chain[i] \in DOMAIN session.surfaces}
    IN [surface_id |-> chain[IF hits = {} THEN 1 ELSE Min(hits)], exists |-> hits # {}]

NoDomains == [d \in Domains |-> None]
SurfaceConfig(session, surface) == Get(session.surfaces, surface.surface_id, NoDomains)

-----------------------------------------------------------------------------
(* One domain: the scan keeps the best case so far and raises when the next
   one ties with it. *)
CaseSpec(case, selectors) ==
    IF case.when # None THEN case.when
    ELSE IF case.when_ref = "" THEN NoKeys
    ELSE Get(selectors, case.when_ref, Raised)

CaseKey(case, selectors) == <<case.priority, Specificity(CaseSpec(case, selectors))>>

\* FAULT: the more specific case wins over the higher priority.
SpecificityFirst(k, l) == k[2] > l[2] \/ (k[2] = l[2] /\ k[1] > l[1])

KeyAbove(k, l) == k[1] > l[1] \/ (k[1] = l[1] /\ k[2] > l[2])

BestCase(cases, selectors, facts) ==
    LET scan[n \in 0..Len(cases)] ==
          IF n = 0 THEN None
          ELSE LET best == scan[n - 1]
                   c    == cases[n]
                   spec == CaseSpec(c, selectors)
                   key  == CaseKey(c, selectors)
               IN IF best = Raised \/ spec = Raised THEN Raised
                  ELSE IF ~ Matches(spec, facts) THEN best
                  ELSE IF best = None THEN c
                  ELSE IF KeyAbove(key, CaseKey(best, selectors)) THEN c
                  ELSE IF key = CaseKey(best, selectors) THEN Raised
                  ELSE best
    IN scan[Len(cases)]

ResolveDomain(domain, selectors, facts) ==
    IF domain = None
    THEN [payload |-> NoKeys, case_id |-> "", priority |-> 100, specificity |-> 0]
    ELSE LET best == BestCase(domain.cases, selectors, facts)
         IN IF best = Raised THEN Raised
            ELSE IF best = None
            THEN [payload |-> domain.default, case_id |-> "", priority |-> 100, specificity |-> 0]
            ELSE [payload |-> Overlay(domain.default, best.use), case_id |-> best.case_id,
                  priority |-> best.priority,
                  specificity |-> Specificity(CaseSpec(best, selectors))]

DefaultRoots(kind) == [workspace |-> TRUE, skills |-> TRUE, self |-> kind # "subagent"]

DefaultStickyNoteTargets(facts) ==
    CASE facts.scene = "group"   -> <<facts.actor_id, facts.channel_scope>>
      [] facts.scene = "private" -> <<facts.actor_id>>
      [] OTHER                   -> <<>>

Modes == {"respond", "record_only", "silent_drop"}

(* resolve_routing .. resolve_computer: what each domain's payload says, with
   its default. *)
RoutingOf(p, session) ==
    [actor_lane |-> Get(p, "actor_lane", "frontstage"), agent_id |-> session.frontstage_agent_id]
AdmissionOf(p) == IF Get(p, "mode", "respond") \in Modes THEN Get(p, "mode", "respond") ELSE Raised
ContextOf(p, facts) ==
    [sticky_note_targets |-> Get(p, "sticky_note_targets", DefaultStickyNoteTargets(facts)),
     retrieval_tags |-> Get(p, "retrieval_tags", <<>>),
     context_labels |-> Get(p, "context_labels", <<>>)]
PersistenceOf(p) == Get(p, "persist_event", TRUE)
ExtractionOf(p) == Get(p, "tags", <<>>)
ComputerOf(p) ==
    LET kind == Get(p, "actor_kind", "frontstage_agent")
    IN [actor_kind |-> kind, backend |-> Get(p, "backend", "host"),
        allow_exec |-> Get(p, "allow_exec", TRUE),
        allow_sessions |-> Get(p, "allow_sessions", TRUE),
        roots |-> Get(p, "roots", DefaultRoots(kind)),
        visible_skills |-> Get(p, "visible_skills", None),
        visible_subagents |-> Get(p, "visible_subagents", {})]

(* RuntimeRouter.route. *)
Route(e, files, admins) ==
    LET facts   == EventFacts(e, admins)
        session == LoadSession(files, facts.channel_scope)
        surface == ResolveSurface(facts, session)
        config  == SurfaceConfig(session, surface)
        res     == [d \in Domains |-> ResolveDomain(config[d], session.selectors, facts)]
        base    == [thread_id |-> facts.thread_id, actor_id |-> facts.actor_id,
                    channel_scope |-> facts.channel_scope,
                    relation |-> BotRelation(e), reasons |-> TargetReasons(e)]
    IN IF session = Raised THEN Raised
       ELSE IF session = Missing
       THEN Overlay(base, [agent_id |-> "", run_mode |-> "silent_drop",
                            route_source |-> "unconfigured_session"])
       ELSE IF \/ \E d \in Domains : res[d] = Raised
               \/ AdmissionOf(res["admission"].payload) = Raised
       THEN Raised
       ELSE Overlay(base,
                [agent_id |-> session.frontstage_agent_id,
                 run_mode |-> AdmissionOf(res["admission"].payload),
                 route_source |-> "session_config", surface |-> surface,
                 routing |-> RoutingOf(res["routing"].payload, session),
                 context |-> ContextOf(res["context"].payload, facts),
                 event_persist |-> PersistenceOf(res["persistence"].payload),
                 event_tags |-> ExtractionOf(res["extraction"].payload),
                 computer |-> ComputerOf(res["computer"].payload)])

-----------------------------------------------------------------------------
(* What the session form stores: public event names become surface ids. *)
Aliases ==
    [qq_group |->
        [message |-> <<"message", "plain">>, message_mention |-> <<"message", "mention">>,
         message_reply |-> <<"message", "reply_to_bot">>, poke |-> <<"notice", "notify">>,
         recall |-> <<"notice", "group_recall">>, member_join |-> <<"notice", "group_increase">>,
         member_leave |-> <<"notice", "group_decrease">>,
         admin_change |-> <<"notice", "group_admin">>,
         file_upload |-> <<"notice", "group_upload">>, mute_change |-> <<"notice", "group_ban">>,
         honor_change |-> <<"notice", "notify">>, title_change |-> <<"notice", "notify">>,
         lucky_king |-> <<"notice", "notify">>],
     qq_private |->
        [message |-> <<"message", "private">>, poke |-> <<"notice", "notify">>,
         recall |-> <<"notice", "friend_recall">>]]

(* A surface given under its own id is kept against an alias of it. *)
KeepsPrevious(rank, previous) == previous > rank

(* _normalize_session_surfaces_for_storage over the form's pairs <<id, conf>>
   in their order; a public event name is a tuple of one name. *)
StoredSurfaces(form, template) ==
    LET alias == Get(Aliases, template, NoKeys)
        step[n \in 0..Len(form)] ==
          IF n = 0 THEN [conf |-> NoKeys, rank |-> NoKeys]
          ELSE LET acc  == step[n - 1]
                   raw  == form[n][1]
                   id   == IF Len(raw) = 1 THEN Get(alias, raw[1], raw) ELSE raw
                   rank == IF id = raw THEN 1 ELSE 0
               IN IF KeepsPrevious(rank, Get(acc.rank, id, -1)) THEN acc
                  ELSE [conf |-> Overlay(acc.conf, [i \in {id} |-> form[n][2]]),
                        rank |-> Overlay(acc.rank, [i \in {id} |-> rank])]
    IN step[Len(form)].conf

(* build_default_qq_group_surfaces: what create_session stores for a group. *)
GroupComputer ==
    [default |-> [backend |-> "docker", allow_exec |-> TRUE, allow_sessions |-> TRUE],
     cases |-> <<[case_id |-> "bot_admin_host", when |-> [is_bot_admin |-> TRUE],
                  use |-> [backend |-> "host", allow_exec |-> TRUE, allow_sessions |-> TRUE]]>>]

Admits(mode) == [default |-> [mode |-> mode]]

DefaultGroupSurfaces ==
    [s \in {<<"message", "mention">>, <<"message", "reply_to_bot">>, <<"message", "plain">>} |->
        [admission |-> Admits(IF s[2] = "plain" THEN "record_only" ELSE "respond"),
         computer  |-> GroupComputer]]

DefaultSurfaces(template) == IF template = "qq_group" THEN DefaultGroupSurfaces ELSE NoKeys

(* _build_session_payload. *)
SessionPayload(id, agent, template, selectors, surfaces) ==
    [id |-> id, agent_id |-> agent, template |-> template, selectors |-> selectors,
     surfaces |-> surfaces]
=============================================================================
