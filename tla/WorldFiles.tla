------------------------------ MODULE WorldFiles ------------------------------
(***************************************************************************)
(* The pure parts of the computer: the world an actor sees and how a path  *)
(* resolves in it, paging through a file, editing a text, and staging the  *)
(* attachments of an event within their limits.                            *)
(*                                                                         *)
(* A path is the sequence of its parts, a text the sequence of its         *)
(* characters, a line of a file its length in bytes.                       *)
(***************************************************************************)
EXTENDS SessionDecisions, SequencesExt

Roots == {"workspace", "skills", "self"}

(* parse_computer_policy over the agent's own policy. *)
ParseComputerPolicy(raw, base) ==
    [k \in DOMAIN base |-> IF raw = None THEN base[k] ELSE Get(raw, k, base[k])]

(* effective_policy_for_ctx: the session's decision wins over the agent. *)
EffectivePolicy(base, decision) ==
    IF decision = None THEN base
    ELSE [base EXCEPT !.backend = decision.backend, !.allow_exec = decision.allow_exec,
                      !.allow_sessions = decision.allow_sessions]

(* _fallback_computer_policy_decision. *)
FallbackDecision(policy, isSubagent) ==
    LET kind == IF isSubagent THEN "subagent" ELSE "frontstage_agent"
    IN [actor_kind |-> kind, backend |-> policy.backend, allow_exec |-> policy.allow_exec,
        allow_sessions |-> policy.allow_sessions, roots |-> DefaultRoots(kind),
        visible_skills |-> None, visible_subagents |-> {}]

(* _execution_view: a container only has the workspace. *)
ExecutionRoots(backend, visible) ==
    IF backend = "docker" THEN visible \cap {"workspace"} ELSE visible

(* build_world_view; agentSkills is what the agent may use. *)
BuildWorld(decision, policy, isSubagent, agentSkills) ==
    LET d == IF decision = None THEN FallbackDecision(policy, isSubagent) ELSE decision
        visible == {r \in Roots : Get(d.roots, r, FALSE)}
    IN [visible |-> visible,
        skills  |-> IF d.visible_skills = None THEN agentSkills ELSE d.visible_skills,
        exec    |-> ExecutionRoots(d.backend, visible)]

(* _normalize_world_path. *)
NormalizePath(parts) ==
    IF parts = <<>> \/ \E i \in 1..Len(parts) : parts[i] = ".." THEN Raised
    ELSE SelectSeq(parts, LAMBDA p : p \notin {"", "."})

(* WorldView.resolve; onDisk holds the materialized paths below the view. *)
ResolvePath(world, parts, onDisk) ==
    LET path == NormalizePath(parts)
    IN IF path = Raised \/ path = <<>> THEN Raised
       ELSE IF path[1] \notin Roots THEN Raised
       ELSE LET rel == Tail(path) IN
            IF \/ path[1] \notin world.visible
               \/ path[1] = "skills" /\ rel # <<>> /\ (rel[1] \notin world.skills \/ rel \notin onDisk)
            THEN Missing
            ELSE [root |-> path[1], relative |-> rel, executable |-> path[1] \in world.exec]

(* _resolve_file_target_for_world_path: files of skills are those of the
   thread, not of the actor's view of them. *)
ResolveFile(world, parts, allowMissing, view, thread) ==
    LET path == NormalizePath(parts)
    IN IF path = Raised \/ path = <<>> THEN Raised
       ELSE IF path[1] # "skills" THEN ResolvePath(world, path, view)
       ELSE LET rel  == Tail(path)
                seen == ResolvePath(world, SubSeq(path, 1, IF rel = <<>> THEN 1 ELSE 2), view)
            IN IF seen \in {Raised, Missing} THEN seen
               ELSE IF ~ allowMissing /\ rel # <<>> /\ rel \notin thread THEN Missing
               ELSE [seen EXCEPT !.relative = rel]

ShellAccess(world) == "workspace" \in world.visible /\ "workspace" \in world.exec

AvailableTools(policy, world) ==
    {"read", "write", "edit"} \cup (IF policy.allow_exec /\ ShellAccess(world) THEN {"bash"} ELSE {})

-----------------------------------------------------------------------------
(* Reading.  A file is a sequence of line lengths; a line of length 0 is blank. *)
CONSTANTS MaxLines,           \* DEFAULT_READ_MAX_LINES
          MaxBytes            \* DEFAULT_READ_MAX_BYTES

(* splitlines() of lines joined by newlines: a last blank line is lost. *)
Rejoined(lines) ==
    IF Len(lines) > 1 /\ lines[Len(lines)] = 0 THEN SubSeq(lines, 1, Len(lines) - 1) ELSE lines

BytesOf(lines, n) == FoldLeft(LAMBDA acc, l : acc + l, 0, SubSeq(lines, 1, n)) + (n - 1)

\* FAULT: the newline between lines is not counted.
FitsFreeNewlines(lines, n) ==
    n <= MaxLines /\ FoldLeft(LAMBDA acc, l : acc + l, 0, SubSeq(lines, 1, n)) <= MaxBytes

Fits(lines, n) == n <= MaxLines /\ BytesOf(lines, n) <= MaxBytes

(* truncate_text_head: how many lines are kept. *)
Kept(lines) ==
    CHOOSE n \in 0..Len(lines) : /\ \A m \in 1..n : Fits(lines, m)
                                 /\ n < Len(lines) => ~ Fits(lines, n + 1)

NextOffset(start, kept) == start + kept

(* format_read_text from line start (1-based) with a limit or None: the lines
   shown, a line that is too long, and the offset to continue with. *)
ReadPage(file, start, limit) ==
    LET end      == IF limit = None \/ start + limit - 1 > Len(file) THEN Len(file)
                    ELSE start + limit - 1
        selected == Rejoined(SubSeq(file, start, end))
        kept     == Kept(selected)
    IN IF start > Len(file) THEN Raised
       ELSE IF kept = 0
       THEN [from |-> start, to |-> start - 1, tooLong |-> TRUE, next |-> None]
       ELSE [from |-> start, to |-> start + kept - 1, tooLong |-> FALSE,
             next |-> IF kept < Len(selected) THEN NextOffset(start, kept)
                      ELSE IF limit # None /\ end < Len(file) THEN end + 1 ELSE None]

-----------------------------------------------------------------------------
(* Editing.  Characters: "LF", "CR", "BOM", "SP", a curly quote "Q" and the
   plain one "q" it is taken for, and letters. *)
Indexes(s, P(_)) == SelectSeq([i \in 1..Len(s) |-> i], P)
Pick(s, idx) == [k \in 1..Len(idx) |-> s[idx[k]]]

DetectLineEnding(c) ==
    LET lf == Indexes(c, LAMBDA i : c[i] = "LF")
    IN IF lf # <<>> /\ lf[1] > 1 /\ c[lf[1] - 1] = "CR" THEN <<"CR", "LF">> ELSE <<"LF">>

(* normalize_to_lf: CR LF, then a CR alone. *)
ToLf(c) ==
    LET kept == Pick(c, Indexes(c, LAMBDA i : ~ (c[i] = "LF" /\ i > 1 /\ c[i - 1] = "CR")))
    IN [i \in 1..Len(kept) |-> IF kept[i] = "CR" THEN "LF" ELSE kept[i]]

RestoreLineEndings(c, ending) ==
    FlattenSeq([i \in 1..Len(c) |-> IF c[i] = "LF" THEN ending ELSE <<c[i]>>])

(* normalize_for_fuzzy_match: blanks at the end of a line go, quotes are plain. *)
Fuzzy(c) ==
    LET Trailing(i) == \E j \in i..Len(c) : /\ \A k \in i..j : c[k] = "SP"
                                             /\ (j = Len(c) \/ c[j + 1] = "LF")
        kept == Pick(c, Indexes(c, LAMBDA i : ~ Trailing(i)))
    IN [i \in 1..Len(kept) |-> IF kept[i] = "Q" THEN "q" ELSE kept[i]]

OccursAt(c, t, i) == i + Len(t) - 1 <= Len(c) /\ SubSeq(c, i, i + Len(t) - 1) = t
Find(c, t) == LET at == Indexes(c \o <<"end">>, LAMBDA i : OccursAt(c, t, i))
              IN IF at = <<>> THEN 0 ELSE at[1]

(* count_text_occurrences: str.count of the fuzzy forms, without overlaps. *)
CountOccurrences(content, old) ==
    LET c == Fuzzy(content)
        t == Fuzzy(old)
        from[i \in 1..(Len(c) + 1)] ==
            IF i > Len(c) THEN 0
            ELSE IF OccursAt(c, t, i)
            THEN 1 + (IF i + Len(t) > Len(c) THEN 0 ELSE from[i + Len(t)])
            ELSE from[i + 1]
    IN IF t = <<>> THEN 0 ELSE from[1]

(* find_text_match: the exact text, else the fuzzy one in the fuzzy content. *)
FindMatch(content, old) ==
    IF Find(content, old) # 0
    THEN [base |-> content, index |-> Find(content, old), length |-> Len(old), fuzzy |-> FALSE]
    ELSE IF Fuzzy(old) # <<>> /\ Find(Fuzzy(content), Fuzzy(old)) # 0
    THEN [base |-> Fuzzy(content), index |-> Find(Fuzzy(content), Fuzzy(old)),
          length |-> Len(Fuzzy(old)), fuzzy |-> TRUE]
    ELSE None

(* prepare_text_edit: the new content and the match, or Raised. *)
PrepareEdit(raw, old, new) ==
    LET bom     == IF raw # <<>> /\ raw[1] = "BOM" THEN <<"BOM">> ELSE <<>>
        text    == SubSeq(raw, Len(bom) + 1, Len(raw))
        content == ToLf(text)
        m       == FindMatch(content, ToLf(old))
        updated == SubSeq(m.base, 1, m.index - 1) \o ToLf(new)
                       \o SubSeq(m.base, m.index + m.length, Len(m.base))
    IN IF m = None THEN Raised
       ELSE IF CountOccurrences(content, ToLf(old)) > 1 \/ updated = m.base THEN Raised
       ELSE [content |-> bom \o RestoreLineEndings(updated, DetectLineEnding(text)), match |-> m]

-----------------------------------------------------------------------------
(* Attachments.  An attachment: [type, source ("url", "id" or ""), name, size,
   fails (downloads that fail first), api (the gateway's answers in turn)]. *)
CONSTANTS DownloadRetries,    \* attachment_download_retries
          MaxAttachment,      \* max_attachment_size_bytes
          MaxTotal            \* max_total_attachment_bytes_per_run

ASSUME LimitsAssumption == MaxAttachment \in Nat /\ MaxTotal \in Nat

ApiCandidates == [image |-> 3, file |-> 2, audio |-> 2, video |-> 2]

(* UrlAttachmentResolver.stage with download_attachment. *)
Downloads(a) == a.size <= MaxAttachment /\ a.fails <= DownloadRetries

UrlStage(a) == IF a.source = "url" /\ Downloads(a) THEN "staged" ELSE "failed"

(* GatewayAttachmentResolver.stage: what the platform resolves is downloaded
   in the same way. *)
GatewayStage(a, gateway) ==
    IF UrlStage(a) = "staged" THEN "staged"
    ELSE IF /\ gateway /\ a.source # ""
            /\ \E i \in 1..Len(a.api) : i <= ApiCandidates[a.type] /\ a.api[i] = "url" /\ Downloads(a)
    THEN "staged" ELSE "failed"

OverLimit(total, size) == total + size > MaxTotal

(* One call of stage_attachments.  Sizes count towards the total although the
   file that goes over it is refused, and a refused file has been fetched: only
   its status and size say so, its staged_path and world path stay (path), and
   message resolution goes by those. *)
StageAttachments(list, gateway) ==
    LET step[n \in 0..Len(list)] ==
          IF n = 0 THEN [total |-> 0, out |-> <<>>]
          ELSE LET acc    == step[n - 1]
                   status == GatewayStage(list[n], gateway)
                   size   == IF status = "staged" THEN list[n].size ELSE 0
                   over   == OverLimit(acc.total, size)
               IN [total |-> acc.total + size,
                   out   |-> Append(acc.out,
                               [status |-> IF over THEN "failed" ELSE status, path |-> status = "staged",
                                size   |-> IF over THEN 0 ELSE size, name |-> list[n].name])]
    IN step[Len(list)].out
=============================================================================
