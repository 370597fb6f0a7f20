------------------------------ MODULE Settings ------------------------------
(***************************************************************************)
(* config.yaml, the running parts that were built from it, and the four    *)
(* groups of settings the console saves (config_control_plane.py): the     *)
(* render width, the gateway, the windows of long-term memory and the      *)
(* directories scanned for skills.  The console shows a setting normalised *)
(* from the configuration in memory; a running part normalises what it was *)
(* given by rules of its own.                                              *)
(*                                                                         *)
(* A save writes the whole configuration in memory to the file; a reload,  *)
(* asked for or part of another call, replaces it by the file, which may   *)
(* have been edited by hand at any time.                                   *)
(***************************************************************************)
EXTENDS Integers

CONSTANTS
    Widths,         \* render widths; 0 stands for one that is no number
    MinWidth,
    DefaultWidth,
    Sizes,          \* window and overlap sizes, none of them 0
    Gateways,       \* addresses of the gateway
    Dirs,           \* lists of directories
    DefaultDirs,
    None

Sections == {"render", "gateway", "ltm", "scan"}

VARIABLES
    conf,      \* Config: the configuration in memory
    file,      \* config.yaml
    force,     \* what the running parts use
    waiting,   \* sections the console said a restart is needed for
    taken,     \* history: sections a reload changed, and which only a restart applies
    up

vars == <<conf, file, force, waiting, taken, up>>

\* Only the scanned directories are applied by a reload.
Restarted == Sections \ {"scan"}

Larger(a, b) == IF a >= b THEN a ELSE b

\* _resolve_render_int
ResolveRenderInt(value, default) == IF value = 0 THEN default ELSE value

\* get_render_config
RenderConfig(c) == Larger(MinWidth, ResolveRenderInt(c.render, DefaultWidth))

\* An overlap that is not smaller than the window is one less.
Clamp(w, o) == [window |-> w, overlap |-> IF o >= w THEN w - 1 ELSE o]

\* get_long_term_memory_config
LongTermMemoryConfig(c) == Clamp(c.ltm.window, c.ltm.overlap)

\* get_filesystem_scan_config
ScanConfig(c) == IF c.scan = None THEN DefaultDirs ELSE c.scan

\* _normalize_viewport_width of the render backend
ViewportWidth(value) == Larger(MinWidth, value)

\* What the parts make of the file when the bot starts: the render backend, the
\* gateway, the write port's window and step, the catalogs.
Built(c) ==
    [render |-> ViewportWidth(ResolveRenderInt(c.render, DefaultWidth)),
     gateway |-> c.gateway,
     ltm |-> [window |-> c.ltm.window, step |-> Larger(1, c.ltm.window - c.ltm.overlap)],
     scan |-> ScanConfig(c)]

\* What a section of a file may say.
Values(s) ==
    CASE s = "render"  -> Widths
      [] s = "gateway" -> Gateways
      [] s = "ltm"     -> [window : Sizes, overlap : Sizes]
      [] s = "scan"    -> Dirs \cup {None}

Confs == [render : Values("render"), gateway : Values("gateway"), ltm : Values("ltm"),
          scan : Values("scan")]

Init ==
    /\ conf \in Confs /\ file = conf
    /\ force = Built(conf) /\ waiting = {} /\ taken = {} /\ up = TRUE

\* Config.replace and Config.save
Save(c) == up /\ conf' = c /\ file' = c

\* FAULT: a backend that refuses the new width is reported as applied.
UpsertRenderClaims(value, applies) ==
    /\ Save([conf EXCEPT !.render = Larger(MinWidth, ResolveRenderInt(value, RenderConfig(conf)))])
    /\ waiting' = waiting \ {"render"}
    /\ force' = [force EXCEPT !.render = IF applies THEN ViewportWidth(conf'.render) ELSE @]
    /\ taken' = taken \ {"render"}
    /\ UNCHANGED up

\* The width is applied to the running backend, which may refuse.
UpsertRenderConfig(value, applies) ==
    /\ Save([conf EXCEPT !.render = Larger(MinWidth, ResolveRenderInt(value, RenderConfig(conf)))])
    /\ IF applies
       THEN /\ force' = [force EXCEPT !.render = ViewportWidth(conf'.render)]
            /\ waiting' = waiting \ {"render"} /\ taken' = taken \ {"render"}
       ELSE waiting' = waiting \cup {"render"} /\ UNCHANGED <<force, taken>>
    /\ UNCHANGED up

UpsertGatewayConfig(g) ==
    /\ Save([conf EXCEPT !.gateway = g])
    /\ waiting' = waiting \cup {"gateway"}
    /\ UNCHANGED <<force, taken, up>>

UpsertLongTermMemoryConfig(w, o) ==
    /\ Save([conf EXCEPT !.ltm = Clamp(w, o)])
    /\ waiting' = waiting \cup {"ltm"}
    /\ UNCHANGED <<force, taken, up>>

\* The reload that follows reads what was just written; it replaces the catalogs
\* before any step that may fail.
UpsertFilesystemScanConfig(d) ==
    /\ Save([conf EXCEPT !.scan = d])
    /\ force' = [force EXCEPT !.scan = ScanConfig(conf')]
    /\ UNCHANGED <<waiting, taken, up>>

\* reload_runtime_configuration, also after a prompt was written or deleted.
ReloadFromFile ==
    /\ up /\ conf' = file /\ force' = [force EXCEPT !.scan = ScanConfig(file)]
    /\ taken' = taken \cup {s \in Restarted : file[s] # conf[s]}
    /\ UNCHANGED <<file, waiting, up>>

Stop ==
    /\ up /\ up' = FALSE
    /\ conf' = None /\ force' = None /\ waiting' = {} /\ taken' = {}
    /\ UNCHANGED file

\* By hand, one section at a time.
EditFile(s, v) ==
    /\ file' = [file EXCEPT ![s] = v]
    /\ UNCHANGED <<conf, force, waiting, taken, up>>

Boot ==
    /\ ~up /\ up' = TRUE
    /\ conf' = file /\ force' = Built(file) /\ waiting' = {} /\ taken' = {}
    /\ UNCHANGED file

Next ==
    \/ \E value \in Widths, applies \in BOOLEAN : UpsertRenderConfig(value, applies)
    \/ \E g \in Gateways : UpsertGatewayConfig(g)
    \/ \E w \in Sizes, o \in Sizes : UpsertLongTermMemoryConfig(w, o)
    \/ \E d \in Dirs \cup {None} : UpsertFilesystemScanConfig(d)
    \/ ReloadFromFile \/ Stop \/ Boot
    \/ \E s \in Sections : \E v \in Values(s) : EditFile(s, v)

Spec == Init /\ [][Next]_vars

-----------------------------------------------------------------------------

\* What the console shows is what the bot does, in every section but those the
\* console asked a restart for and those a reload took over from a file somebody
\* had edited: the two normalisations of a width agree, the write port steps over
\* as many facts as the shown window and overlap say, a save that could not be
\* applied was not reported as applied, and no save or reload brings a section
\* into memory that it does not apply or announce (upsert_render_config,
\* upsert_long_term_memory_config, with_apply_result,
\* reload_runtime_configuration).
ShownIsInForce ==
    up =>
      /\ "render" \notin waiting \cup taken => force.render = RenderConfig(conf)
      /\ "gateway" \notin waiting \cup taken => force.gateway = conf.gateway
      /\ "ltm" \notin waiting \cup taken =>
           LET shown == LongTermMemoryConfig(conf)
           IN force.ltm = [window |-> shown.window, step |-> shown.window - shown.overlap]
      /\ force.scan = ScanConfig(conf)
=============================================================================
