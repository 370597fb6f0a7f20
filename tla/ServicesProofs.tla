--------------------------- MODULE ServicesProofs ---------------------------
(***************************************************************************)
(* Proofs about the parts of Services.  Each part has an inductive         *)
(* invariant of its own, which says nothing in the behaviours of another.  *)
(***************************************************************************)
EXTENDS Services, FiniteSetTheorems, WellFoundedInduction, TLAPS

\* A behaviour stays in its part, and a step of it is one of the part.
LEMMA StepOfPart ==
    ASSUME [Next]_vars
    PROVE  /\ part' = part
           /\ part = "store" => Store!Next \/ UNCHANGED storeVars
           /\ part = "bridge" => Bridge!Next \/ UNCHANGED bridgeVars
           /\ part = "console" => Console!Next \/ UNCHANGED consoleVars
           /\ part = "note" => Note!Next \/ UNCHANGED noteVars
           /\ part = "setting" => Setting!Next \/ UNCHANGED settingVars
           /\ part = "computer" => Box!Next \/ UNCHANGED computerVars
BY DEF Next, StoreNext, BridgeNext, ConsoleNext, NoteNext, SettingNext, ComputerNext, vars

-----------------------------------------------------------------------------
(* The settings.  Whatever the file says meanwhile, what the bot saved or   *)
(* was built from is in force.                                              *)

Saved == [render : Int, gateway : Gateways, scan : Dirs \cup {None},
          ltm : [window : Int, overlap : Int]]
InForce == [render : Int, gateway : Gateways, scan : Dirs \cup {DefaultDirs},
            ltm : [window : Int, step : Int]]

SettingOK ==
    /\ file \in Saved /\ ups \in BOOLEAN
    /\ ups = TRUE => conf \in Saved /\ force \in InForce /\ Setting!ShownIsInForce

\* What a start builds is what the console will show.
LEMMA BuiltIsShown ==
    ASSUME NEW c \in Saved
    PROVE  /\ Setting!Built(c) \in InForce
           /\ Setting!Built(c).render = Setting!RenderConfig(c)
           /\ Setting!Built(c).gateway = c.gateway
           /\ Setting!Built(c).ltm = [window |-> Setting!LongTermMemoryConfig(c).window,
                                      step |-> Setting!LongTermMemoryConfig(c).window
                                               - Setting!LongTermMemoryConfig(c).overlap]
           /\ Setting!Built(c).scan = Setting!ScanConfig(c)
<1>1. c.render \in Int /\ c.gateway \in Gateways /\ c.scan \in Dirs \cup {None}
      /\ c.ltm.window \in Int /\ c.ltm.overlap \in Int
    BY DEF Saved
<1>2. Setting!ResolveRenderInt(c.render, DefaultWidth) \in Int /\ MinWidth \in Int
    BY <1>1, ServicesAssumption DEF Setting!ResolveRenderInt
<1>3. Setting!ViewportWidth(Setting!ResolveRenderInt(c.render, DefaultWidth)) \in Int
    BY <1>2 DEF Setting!ViewportWidth, Setting!Larger
<1>4. Setting!Larger(1, c.ltm.window - c.ltm.overlap) \in Int
      /\ Setting!Larger(1, c.ltm.window - c.ltm.overlap)
           = Setting!LongTermMemoryConfig(c).window - Setting!LongTermMemoryConfig(c).overlap
      /\ Setting!LongTermMemoryConfig(c).window = c.ltm.window
    BY <1>1 DEF Setting!Larger, Setting!LongTermMemoryConfig, Setting!Clamp
<1>5. Setting!ScanConfig(c) \in Dirs \cup {DefaultDirs}
    BY <1>1 DEF Setting!ScanConfig
<1>6. Setting!Built(c).render = Setting!RenderConfig(c)
    BY DEF Setting!Built, Setting!ViewportWidth, Setting!RenderConfig
<1>7. QED BY <1>1, <1>3, <1>4, <1>5, <1>6 DEF Setting!Built, InForce

\* A saved render width is one the backend leaves as it is.
LEMMA WidthAgrees ==
    ASSUME NEW c \in Saved, NEW value \in Widths, NEW d \in Saved,
           d.render = Setting!Larger(MinWidth,
                          Setting!ResolveRenderInt(value, Setting!RenderConfig(c)))
    PROVE  d.render \in Int /\ Setting!ViewportWidth(d.render) = Setting!RenderConfig(d)
<1>1. c.render \in Int /\ value \in Int /\ MinWidth \in Nat \ {0} /\ DefaultWidth \in Int
    BY ServicesAssumption DEF Saved
<1>2. Setting!RenderConfig(c) \in Int
    BY <1>1 DEF Setting!RenderConfig, Setting!ResolveRenderInt, Setting!Larger
<1>3. d.render \in Int /\ d.render >= MinWidth /\ d.render # 0
    BY <1>1, <1>2 DEF Setting!ResolveRenderInt, Setting!Larger
<1>4. QED BY <1>1, <1>3
          DEF Setting!ViewportWidth, Setting!RenderConfig, Setting!ResolveRenderInt

LEMMA SettingInit == Setting!Init => SettingOK
<1> SUFFICES ASSUME Setting!Init PROVE SettingOK
    OBVIOUS
<1>1. conf \in Saved /\ file = conf /\ force = Setting!Built(conf) /\ waiting = {} /\ ups = TRUE
    BY ServicesAssumption DEF Setting!Init, Setting!Confs, Setting!Values, Saved
<1>2. QED BY <1>1, BuiltIsShown DEF SettingOK, Setting!ShownIsInForce

\* A save of one section changes that section of what is in memory, on disk
\* and, if it could be applied, in force.
LEMMA SettingStep ==
    ASSUME SettingOK, Setting!Next \/ UNCHANGED settingVars
    PROVE  SettingOK'
<1> USE DEF SettingOK, Setting!Save
<1>1. ASSUME NEW value \in Widths, NEW applies \in BOOLEAN,
             Setting!UpsertRenderConfig(value, applies)
      PROVE  SettingOK'
  <2>1. PICK c \in Saved : c = conf /\ ups = TRUE /\ force \in InForce /\ Setting!ShownIsInForce
      BY <1>1 DEF Setting!UpsertRenderConfig
  <2> DEFINE width == Setting!Larger(MinWidth,
                          Setting!ResolveRenderInt(value, Setting!RenderConfig(c)))
  <2>2. width \in Int
    <3>1. c.render \in Int /\ value \in Int /\ MinWidth \in Int /\ DefaultWidth \in Int
        BY ServicesAssumption DEF Saved
    <3>2. QED BY <3>1 DEF Setting!RenderConfig, Setting!ResolveRenderInt, Setting!Larger
  <2>3. conf' = [c EXCEPT !.render = width] /\ file' = conf' /\ ups' = TRUE
      BY <1>1, <2>1 DEF Setting!UpsertRenderConfig
  <2> HIDE DEF width
  <2>4. conf' \in Saved /\ conf'.render = width /\ conf'.gateway = c.gateway
        /\ conf'.ltm = c.ltm /\ conf'.scan = c.scan
      BY <2>2, <2>3 DEF Saved
  <2>5. Setting!ViewportWidth(conf'.render) \in Int
        /\ Setting!ViewportWidth(conf'.render) = Setting!RenderConfig(conf')
    <3>1. PICK k \in Saved : k = conf'
        BY <2>4
    <3>2. k.render = Setting!Larger(MinWidth,
                         Setting!ResolveRenderInt(value, Setting!RenderConfig(c)))
        BY <2>4, <3>1 DEF width
    <3>3. k.render \in Int /\ Setting!ViewportWidth(k.render) = Setting!RenderConfig(k)
        BY <3>2, WidthAgrees
    <3>4. Setting!ViewportWidth(k.render) \in Int
        BY <3>3, ServicesAssumption DEF Setting!ViewportWidth, Setting!Larger
    <3>5. QED BY <3>1, <3>3, <3>4
  <2>6. CASE applies
    <3>1. force' = [force EXCEPT !.render = Setting!ViewportWidth(conf'.render)]
          /\ waiting' = waiting \ {"render"} /\ taken' = taken \ {"render"}
        BY <1>1, <2>6 DEF Setting!UpsertRenderConfig
    <3>2. force' \in InForce /\ force'.render = Setting!RenderConfig(conf')
          /\ force'.gateway = force.gateway /\ force'.ltm = force.ltm /\ force'.scan = force.scan
        BY <2>1, <2>5, <3>1 DEF InForce
    <3>3. QED BY <2>1, <2>3, <2>4, <3>1, <3>2
              DEF Setting!ShownIsInForce, Setting!LongTermMemoryConfig, Setting!ScanConfig
  <2>7. CASE ~ applies
    <3>1. force' = force /\ waiting' = waiting \cup {"render"} /\ taken' = taken
        BY <1>1, <2>7 DEF Setting!UpsertRenderConfig
    <3>2. QED BY <2>1, <2>3, <2>4, <3>1
              DEF Setting!ShownIsInForce, Setting!LongTermMemoryConfig, Setting!ScanConfig
  <2>8. QED BY <2>6, <2>7
<1>2. ASSUME NEW g \in Gateways, Setting!UpsertGatewayConfig(g) PROVE SettingOK'
  <2>1. conf \in Saved /\ conf' = [conf EXCEPT !.gateway = g] /\ file' = conf' /\ ups
        /\ ups' = TRUE /\ force' = force /\ waiting' = waiting \cup {"gateway"} /\ taken' = taken
      BY <1>2 DEF Setting!UpsertGatewayConfig
  <2>2. conf' \in Saved /\ conf'.render = conf.render /\ conf'.ltm = conf.ltm
        /\ conf'.scan = conf.scan
      BY <2>1 DEF Saved
  <2>3. QED BY <2>1, <2>2 DEF Setting!ShownIsInForce, Setting!RenderConfig,
               Setting!LongTermMemoryConfig, Setting!ScanConfig
<1>3. ASSUME NEW w \in Sizes, NEW o \in Sizes, Setting!UpsertLongTermMemoryConfig(w, o)
      PROVE  SettingOK'
  <2>1. conf \in Saved /\ conf' = [conf EXCEPT !.ltm = Setting!Clamp(w, o)] /\ file' = conf'
        /\ ups /\ ups' = TRUE /\ force' = force /\ waiting' = waiting \cup {"ltm"} /\ taken' = taken
      BY <1>3 DEF Setting!UpsertLongTermMemoryConfig
  <2>2. Setting!Clamp(w, o) \in [window : Int, overlap : Int]
      BY ServicesAssumption DEF Setting!Clamp
  <2>3. conf' \in Saved /\ conf'.render = conf.render /\ conf'.gateway = conf.gateway
        /\ conf'.scan = conf.scan
      BY <2>1, <2>2 DEF Saved
  <2>4. QED BY <2>1, <2>3 DEF Setting!ShownIsInForce, Setting!RenderConfig, Setting!ScanConfig
<1>4. ASSUME NEW dirs \in Dirs \cup {None}, Setting!UpsertFilesystemScanConfig(dirs)
      PROVE  SettingOK'
  <2>1. conf \in Saved /\ conf' = [conf EXCEPT !.scan = dirs] /\ file' = conf' /\ ups
        /\ ups' = TRUE /\ force' = [force EXCEPT !.scan = Setting!ScanConfig(conf')]
        /\ force \in InForce /\ waiting' = waiting /\ taken' = taken
      BY <1>4 DEF Setting!UpsertFilesystemScanConfig
  <2>2. conf' \in Saved /\ conf'.render = conf.render /\ conf'.gateway = conf.gateway
        /\ conf'.ltm = conf.ltm
      BY <2>1 DEF Saved
  <2>3. Setting!ScanConfig(conf') \in Dirs \cup {DefaultDirs}
      BY <2>2 DEF Saved, Setting!ScanConfig
  <2>4. force' \in InForce /\ force'.scan = Setting!ScanConfig(conf')
        /\ force'.render = force.render /\ force'.gateway = force.gateway /\ force'.ltm = force.ltm
      BY <2>1, <2>3 DEF InForce
  <2>5. QED BY <2>1, <2>2, <2>4 DEF Setting!ShownIsInForce, Setting!RenderConfig,
               Setting!LongTermMemoryConfig
<1>5. CASE Setting!ReloadFromFile
  <2>1. file \in Saved /\ conf \in Saved /\ conf' = file /\ file' = file /\ ups /\ ups' = TRUE
        /\ force' = [force EXCEPT !.scan = Setting!ScanConfig(file)] /\ force \in InForce
        /\ waiting' = waiting
        /\ taken' = taken \cup {s \in {"render", "gateway", "ltm"} : file[s] # conf[s]}
      BY <1>5 DEF Setting!ReloadFromFile, Setting!Restarted, Setting!Sections
  <2>2. Setting!ScanConfig(file) \in Dirs \cup {DefaultDirs}
      BY <2>1 DEF Saved, Setting!ScanConfig
  <2>3. force' \in InForce /\ force'.scan = Setting!ScanConfig(conf')
        /\ force'.render = force.render /\ force'.gateway = force.gateway /\ force'.ltm = force.ltm
      BY <2>1, <2>2 DEF InForce
  <2>4. /\ "render" \notin taken' => "render" \notin taken /\ file.render = conf.render
        /\ "gateway" \notin taken' => "gateway" \notin taken /\ file.gateway = conf.gateway
        /\ "ltm" \notin taken' => "ltm" \notin taken /\ file.ltm = conf.ltm
      BY <2>1
  <2>5. QED BY <2>1, <2>3, <2>4 DEF Setting!ShownIsInForce, Setting!RenderConfig,
               Setting!LongTermMemoryConfig
<1>6. CASE Setting!Stop
    BY <1>6 DEF Setting!Stop
<1>7. ASSUME NEW s \in Setting!Sections, NEW v \in Setting!Values(s), Setting!EditFile(s, v)
      PROVE  SettingOK'
  <2>1. v \in IF s = "render" THEN Int ELSE IF s = "gateway" THEN Gateways
             ELSE IF s = "scan" THEN Dirs \cup {None} ELSE [window : Int, overlap : Int]
      BY <1>7, ServicesAssumption DEF Setting!Values, Setting!Sections
  <2>2. file' = [file EXCEPT ![s] = v] /\ UNCHANGED <<conf, force, waiting, taken, ups>>
      BY <1>7 DEF Setting!EditFile
  <2>3. file' \in Saved
      BY <2>1, <2>2 DEF Saved, Setting!Sections
  <2>4. QED BY <2>2, <2>3 DEF Setting!ShownIsInForce
<1>8. CASE Setting!Boot
  <2>1. file \in Saved /\ file' = file /\ conf' = file /\ force' = Setting!Built(file)
        /\ waiting' = {} /\ ups' = TRUE
      BY <1>8 DEF Setting!Boot
  <2>2. QED BY <2>1, BuiltIsShown DEF Setting!ShownIsInForce
<1>9. CASE UNCHANGED settingVars
    BY <1>9 DEF settingVars, Setting!ShownIsInForce
<1>10. QED
    BY <1>1, <1>2, <1>3, <1>4, <1>5, <1>6, <1>7, <1>8, <1>9 DEF Setting!Next

\* What the console shows is in force, or it said that a restart is needed, or a
\* reload took it over from a file edited by hand, for all widths, sizes, addresses
\* and directories (upsert_render_config and the other settings of
\* RuntimeConfigControlPlane).
THEOREM ShownIsInForceTheorem == Spec => []ShownIsInForce
<1> DEFINE Inv == part = "setting" => SettingOK
<1>1. Init => Inv
    BY SettingInit DEF Init
<1>2. Inv /\ [Next]_vars => Inv'
    BY StepOfPart, SettingStep
<1>3. Inv => ShownIsInForce
    BY DEF ShownIsInForce, SettingOK, Setting!ShownIsInForce
<1>4. QED BY <1>1, <1>2, <1>3, PTL DEF Spec

-----------------------------------------------------------------------------
(* The backend bridge.  As long as no query has crossed another request,   *)
(* the binding never changes once there is one; changes work in that       *)
(* session, a query in a fork or in the still empty session itself.  What  *)
(* a request learnt from a process that was replaced does not count.       *)

Steps == {"idle", "state", "switch_state", "switch", "switched", "pre_prompt", "fork_state",
          "fork_messages", "fork", "prompt", "agent_end", "post_prompt"}

ReqType == [at : Steps, existing : PiSessions \cup {None}, cut : Nat, live : BOOLEAN]
PiType == [up : {"none", "up", "dead", "reaped"}, session : PiSessions \cup {None},
           working : BOOLEAN, ended : BOOLEAN]

\* Where a request knows a session to be: an open file, and what it forks there.
ForkPoint(r, logs) ==
    /\ r.existing \in opened \cup {None}
    /\ r.at \in {"switch_state", "switch", "switched", "fork"} => r.existing # None
    /\ r.at = "fork" => r.cut < Len(logs[r.existing])

BridgeType ==
    /\ pi \in PiType /\ opened \subseteq PiSessions /\ binding \in opened \cup {None}
    /\ contents \in [PiSessions -> Seq(Requests)]
    /\ req \in [Requests -> ReqType]
    /\ answered \subseteq Requests /\ crossed \in BOOLEAN
    /\ pi.session \in opened \cup {None}
    /\ pi.up = "up" => pi.session \in opened
    /\ \A q \in Requests : ForkPoint(req[q], contents)

\* A query has the bridge to itself.
Alone ==
    \A p, q \in Requests :
        p # q /\ req[p].at # "idle" /\ req[q].at # "idle" => Kind[p] = "change"

Holds(q) == \E i \in DOMAIN contents[binding] : contents[binding][i] = q

\* The session a request at each step works in.
LivePlaced(q, r) ==
    /\ r.at \in {"state", "switch_state", "switch", "switched"} =>
          r.existing = binding \/ (r.existing = None /\ binding = pi.session)
    /\ r.at \in {"switch_state", "switch", "switched"} => r.existing # None
    /\ r.at \in {"switched", "pre_prompt", "fork_state", "fork_messages", "fork"} =>
          pi.session = binding
    /\ r.at \in {"prompt", "agent_end", "post_prompt"} /\ Kind[q] = "change" =>
          pi.session = binding
    /\ r.at = "fork" => contents[binding] # <<>>
    /\ r.at = "prompt" /\ Kind[q] = "query" => pi.session # binding \/ contents[binding] = <<>>

Placed(q, r) ==
    /\ r.at \in {"pre_prompt", "fork_state", "fork_messages", "fork", "prompt", "agent_end",
                 "post_prompt"} => binding # None
    /\ r.at = "pre_prompt" => Kind[q] = "change"
    /\ r.at \in {"fork_state", "fork_messages", "fork"} => Kind[q] = "query"
    /\ r.at \in {"agent_end", "post_prompt"} /\ Kind[q] = "change" => Holds(q)
    /\ r.live = TRUE => LivePlaced(q, r)

\* An unbound line is empty; what was answered is in it.
Line ==
    /\ binding = None => answered = {} /\ \A f \in PiSessions : contents[f] = <<>>
    /\ \A q \in answered : Kind[q] = "change" => binding # None /\ Holds(q)
    /\ binding # None =>
          \A i \in DOMAIN contents[binding] : Kind[contents[binding][i]] = "query" => i = 1

Uncrossed == Alone /\ (\A q \in Requests : Placed(q, req[q])) /\ Line

BridgeOK == BridgeType /\ (crossed = FALSE => Uncrossed)

\* A request at another step is still one; so is none.
LEMMA Moved ==
    ASSUME req \in [Requests -> ReqType], NEW q \in Requests, NEW step \in Steps
    PROVE  \E r \in ReqType : /\ r = [req[q] EXCEPT !.at = step] /\ r.at = step
                              /\ r.existing = req[q].existing /\ r.live = req[q].live
<1>1. req[q] \in ReqType
    OBVIOUS
<1>2. PICK r : r = [req[q] EXCEPT !.at = step]
    OBVIOUS
<1>3. r \in ReqType /\ r.at = step /\ r.existing = req[q].existing /\ r.live = req[q].live
    BY <1>1, <1>2 DEF ReqType
<1>4. QED BY <1>2, <1>3

LEMMA NoRequest ==
    /\ Bridge!NoReq \in ReqType /\ Bridge!NoReq.at = "idle"
    /\ Bridge!NoReq.existing = None /\ Bridge!NoReq.live = FALSE
BY DEF ReqType, Bridge!NoReq, Steps

\* A session pi opens or forks is a new file.
LEMMA NewFile ==
    ASSUME BridgeType, Bridge!More
    PROVE  Bridge!NewSession \in PiSessions \ opened
<1>1. \E f \in PiSessions \ opened : TRUE
    BY DEF BridgeType, Bridge!More
<1>2. QED BY <1>1 DEF Bridge!NewSession

\* A command's answer puts one request somewhere else and changes little more:
\* it is enough that this request is placed as it should be.
LEMMA MovesOn ==
    ASSUME BridgeOK, NEW q \in Requests, NEW r \in ReqType,
           req' = [req EXCEPT ![q] = r], r.at # "idle" => req[q].at # "idle",
           ForkPoint(r, contents), crossed = FALSE => Placed(q, r),
           pi' \in PiType, pi'.session = pi.session, pi'.up = "up" => pi.session \in opened,
           UNCHANGED <<contents, opened, binding, answered, crossed>>
    PROVE  BridgeOK'
<1>1. \A p \in Requests : req'[p] = IF p = q THEN r ELSE req[p]
    BY DEF BridgeOK, BridgeType
<1>2. BridgeType'
  <2>1. req' \in [Requests -> ReqType]
      BY DEF BridgeOK, BridgeType
  <2>2. \A p \in Requests : ForkPoint(req'[p], contents)
      BY <1>1 DEF BridgeOK, BridgeType
  <2>3. QED BY <2>1, <2>2 DEF BridgeOK, BridgeType, ForkPoint
<1>3. ASSUME crossed' = FALSE PROVE Uncrossed'
  <2>1. Alone'
      BY <1>1, <1>3 DEF BridgeOK, Uncrossed, Alone
  <2>2. \A p \in Requests : Placed(p, req'[p])
      BY <1>1, <1>3 DEF BridgeOK, Uncrossed
  <2>3. (\A p \in Requests : Placed(p, req[p]))'
      BY <2>2 DEF Placed, LivePlaced, Holds
  <2>4. Line'
      BY <1>3 DEF BridgeOK, Uncrossed, Line, Holds
  <2>5. QED BY <2>1, <2>3, <2>4 DEF Uncrossed
<1>4. QED BY <1>2, <1>3 DEF BridgeOK

\* A request that goes from one step to the next, everything else kept.
LEMMA GoesTo ==
    ASSUME BridgeOK, NEW q \in Requests, NEW from, NEW step \in Steps \ {"fork"},
           Bridge!At(q, from), from # "idle", Bridge!GoTo(q, step), Bridge!Read,
           step \in {"switch_state", "switch", "switched"} => req[q].existing # None,
           crossed = FALSE => Placed(q, [req[q] EXCEPT !.at = step]),
           UNCHANGED <<contents, opened, binding, answered, crossed>>
    PROVE  BridgeOK'
<1>1. req[q] \in ReqType /\ req[q].at = from /\ pi \in PiType /\ ForkPoint(req[q], contents)
    BY DEF BridgeOK, BridgeType, Bridge!At
<1>2. PICK r \in ReqType : r = [req[q] EXCEPT !.at = step] /\ r.at = step
                           /\ r.existing = req[q].existing
    BY <1>1 DEF ReqType
<1>3. req' = [req EXCEPT ![q] = r]
    BY <1>2 DEF Bridge!GoTo
<1>4. pi' \in PiType /\ pi'.session = pi.session /\ pi'.up = pi.up
    BY <1>1 DEF Bridge!Read, PiType
<1>5. ForkPoint(r, contents)
    BY <1>1, <1>2 DEF ForkPoint
<1>6. QED BY <1>1, <1>2, <1>3, <1>4, <1>5, MovesOn DEF BridgeOK, BridgeType

\* A request that is given up leaves nothing to keep.
LEMMA GivenUp ==
    ASSUME BridgeOK, NEW q \in Requests, req' = [req EXCEPT ![q] = Bridge!NoReq],
           pi' = pi \/ Bridge!Read,
           UNCHANGED <<contents, opened, binding, answered, crossed>>
    PROVE  BridgeOK'
<1>1. PICK r \in ReqType : r = Bridge!NoReq /\ r.at = "idle" /\ r.existing = None /\ r.live = FALSE
    BY NoRequest
<1>2. pi' \in PiType /\ pi'.session = pi.session /\ pi'.up = pi.up
    BY DEF BridgeOK, BridgeType, PiType, Bridge!Read
<1>3. ForkPoint(r, contents) /\ Placed(q, r)
    BY <1>1 DEF ForkPoint, Placed
<1>4. pi'.up = "up" => pi.session \in opened
    BY <1>2 DEF BridgeOK, BridgeType
<1>5. req' = [req EXCEPT ![q] = r] /\ (r.at # "idle" => req[q].at # "idle")
    BY <1>1
<1>6. QED BY <1>2, <1>3, <1>4, <1>5, MovesOn

\* Before a prompt the binding is set to the session pi has open.  It was that
\* session already, or there was none and every session is still empty.
LEMMA Binds ==
    ASSUME BridgeOK, NEW q \in Requests, NEW from \in {"state", "switched"}, Bridge!At(q, from),
           Bridge!Bound(q), Bridge!Read,
           from = "state" => req[q].existing \in {None, pi.session},
           UNCHANGED <<contents, opened, answered, crossed>>
    PROVE  BridgeOK'
<1>1. PICK step \in {"pre_prompt", "fork_state"} :
         /\ Bridge!GoTo(q, step)
         /\ Kind[q] = IF step = "pre_prompt" THEN "change" ELSE "query"
    BY ServicesAssumption DEF Bridge!Bound
<1>2. PICK s \in opened : s = pi.session /\ s \in PiSessions /\ s # None /\ binding' = s
    BY ServicesAssumption DEF BridgeOK, BridgeType, Bridge!At, Bridge!Bound, Bridge!SaveBinding
<1>3. PICK r \in ReqType : /\ r = [req[q] EXCEPT !.at = step] /\ r.at = step
                          /\ r.existing = req[q].existing /\ r.live = req[q].live
    BY Moved DEF BridgeOK, BridgeType, Steps
<1>4. req' = [req EXCEPT ![q] = r] /\ \A p \in Requests : req'[p] = IF p = q THEN r ELSE req[p]
    BY <1>1, <1>3 DEF Bridge!GoTo, BridgeOK, BridgeType
<1>5. pi' \in PiType /\ pi'.session = s /\ pi'.up = pi.up /\ req[q].at = from /\ req[q].live = TRUE
    BY <1>2 DEF BridgeOK, BridgeType, PiType, ReqType, Bridge!Read, Bridge!At
<1>6. BridgeType'
  <2>1. req' \in [Requests -> ReqType]
      BY <1>4 DEF BridgeOK, BridgeType
  <2>2. \A p \in Requests : ForkPoint(req'[p], contents)
      BY <1>3, <1>4 DEF BridgeOK, BridgeType, ForkPoint
  <2>3. QED BY <1>2, <1>5, <2>1, <2>2 DEF BridgeOK, BridgeType, ForkPoint
<1>7. ASSUME crossed' = FALSE PROVE Uncrossed'
  <2>1. Uncrossed
      BY <1>7 DEF BridgeOK
  <2>2. binding = None \/ binding = s
      BY <1>2, <1>5, <2>1 DEF Uncrossed, Placed, LivePlaced
  <2>3. Alone'
      BY <1>4, <1>5, <2>1 DEF Uncrossed, Alone
  <2>4. (\A p \in Requests : Placed(p, req[p]))'
    <3>1. SUFFICES ASSUME NEW p \in Requests PROVE Placed(p, req[p])'
        OBVIOUS
    <3>2. CASE p = q
        BY <1>1, <1>2, <1>3, <1>4, <1>5, <3>2 DEF Placed, LivePlaced
    <3>3. CASE p # q
      <4>1. req'[p] = req[p] /\ Placed(p, req[p])
          BY <1>4, <2>1, <3>3 DEF Uncrossed
      <4>2. QED BY <1>2, <1>5, <2>2, <4>1 DEF Placed, LivePlaced, Holds
    <3>4. QED BY <3>2, <3>3
  <2>5. Line'
    <3>1. CASE binding = s
        BY <1>2, <2>1, <3>1 DEF Uncrossed, Line, Holds
    <3>2. CASE binding = None
      <4>1. answered = {} /\ contents[s] = <<>>
          BY <1>2, <2>1, <3>2 DEF Uncrossed, Line
      <4>2. QED BY <1>2, <4>1 DEF Line, Holds
    <3>3. QED BY <2>2, <3>1, <3>2
  <2>6. QED BY <2>3, <2>4, <2>5 DEF Uncrossed
<1>8. QED BY <1>6, <1>7 DEF BridgeOK

LEMMA BridgeInit == Bridge!Init => BridgeOK
<1> SUFFICES ASSUME Bridge!Init PROVE BridgeOK
    OBVIOUS
<1>1. \A q \in Requests : req[q] = Bridge!NoReq /\ req[q].at = "idle" /\ req[q].existing = None
                          /\ req[q].live = FALSE
    BY DEF Bridge!Init, Bridge!NoReq
<1>2. req \in [Requests -> ReqType]
    BY <1>1 DEF Bridge!Init, ReqType, Bridge!NoReq, Steps
<1>3. pi \in PiType /\ pi.up = "none" /\ pi.session = None /\ contents \in [PiSessions -> Seq(Requests)]
    BY DEF Bridge!Init, PiType
<1>4. BridgeType
    BY <1>1, <1>2, <1>3 DEF BridgeType, ForkPoint, Bridge!Init
<1>5. Uncrossed
    BY <1>1 DEF Uncrossed, Alone, Placed, Line, Bridge!Init
<1>6. QED BY <1>4, <1>5 DEF BridgeOK

\* A new request finds the binding; a new process makes what older requests
\* were waiting for void.
LEMMA BeginStep ==
    ASSUME BridgeOK, NEW q \in Requests, Bridge!Begin(q)
    PROVE  BridgeOK'
<1>1. PICK r \in ReqType : r = [at |-> "state", existing |-> binding, cut |-> 0, live |-> TRUE]
                           /\ r.at = "state" /\ r.existing = binding /\ r.live = TRUE
  <2>1. PICK b \in PiSessions \cup {None} : b = binding
      BY DEF BridgeOK, BridgeType
  <2>2. [at |-> "state", existing |-> b, cut |-> 0, live |-> TRUE] \in ReqType
      BY DEF ReqType, Steps
  <2>3. QED BY <2>1, <2>2
<1>2. \A p \in Requests : p # q => /\ req'[p] \in ReqType /\ req'[p].at = req[p].at
                                   /\ req'[p].existing = req[p].existing /\ req'[p].cut = req[p].cut
                                   /\ req'[p].live = (req[p].live /\ ~ Bridge!Starts)
    BY DEF Bridge!Begin, BridgeOK, BridgeType, ReqType
<1>3. req'[q] = r /\ req' \in [Requests -> ReqType]
    BY <1>1, <1>2 DEF Bridge!Begin
<1>4. UNCHANGED <<contents, binding, answered>>
    BY DEF Bridge!Begin
<1>5. opened \subseteq opened' /\ opened' \subseteq PiSessions /\ pi' \in PiType
      /\ pi'.session \in opened' \cup {None} /\ (pi'.up = "up" => pi'.session \in opened')
      /\ (~ Bridge!Starts => pi' = pi)
  <2>1. CASE Bridge!Starts
    <3>1. PICK f : f = Bridge!NewSession
        OBVIOUS
    <3>2. f \in PiSessions /\ opened' = opened \cup {f}
          /\ pi' = [up |-> "up", session |-> f, working |-> FALSE, ended |-> FALSE]
        BY <2>1, <3>1, NewFile DEF Bridge!Begin, Bridge!EnsureStarted, BridgeOK
    <3>3. QED BY <2>1, <3>2 DEF BridgeOK, BridgeType, PiType
  <2>2. CASE ~ Bridge!Starts
      BY <2>2 DEF Bridge!Begin, Bridge!EnsureStarted, BridgeOK, BridgeType
  <2>3. QED BY <2>1, <2>2
<1>6. crossed' \in BOOLEAN
      /\ (crossed' = FALSE => /\ crossed = FALSE
                              /\ \A p \in Requests : req[p].at # "idle" =>
                                    Kind[p] = "change" /\ Kind[q] = "change")
    BY ServicesAssumption DEF Bridge!Begin, Bridge!UnderWay, BridgeOK, BridgeType
<1>7. BridgeType'
  <2>1. \A p \in Requests : ForkPoint(req[p], contents)'
    <3>1. TAKE p \in Requests
    <3>2. CASE p = q
        BY <1>1, <1>3, <1>4, <1>5, <3>2 DEF BridgeOK, BridgeType, ForkPoint
    <3>3. CASE p # q
        BY <1>2, <1>4, <1>5, <3>3 DEF BridgeOK, BridgeType, ForkPoint
    <3>4. QED BY <3>2, <3>3
  <2>2. QED BY <1>3, <1>4, <1>5, <1>6, <2>1 DEF BridgeOK, BridgeType
<1>8. ASSUME crossed' = FALSE PROVE Uncrossed'
  <2>1. Uncrossed
      BY <1>6, <1>8 DEF BridgeOK
  <2>2. Alone'
      BY <1>2, <1>3, <1>6, <1>8 DEF Alone
  <2>3. \A p \in Requests : Placed(p, req[p])'
    <3>1. TAKE p \in Requests
    <3>2. CASE p = q
        BY <1>1, <1>3, <1>4, <3>2 DEF Placed, LivePlaced
    <3>3. CASE p # q
      <4>1. Placed(p, req[p])
          BY <2>1 DEF Uncrossed
      <4>2. CASE Bridge!Starts
        <5>1. req'[p].live = FALSE
            BY <1>2, <3>3, <4>2
        <5>2. QED BY <1>2, <1>4, <3>3, <4>1, <5>1 DEF Placed, Holds
      <4>3. CASE ~ Bridge!Starts
        <5>1. pi' = pi /\ (req'[p].live = TRUE => req[p].live = TRUE)
            BY <1>2, <1>5, <3>3, <4>3 DEF BridgeOK, BridgeType, ReqType
        <5>2. QED BY <1>2, <1>4, <3>3, <4>1, <5>1 DEF Placed, LivePlaced, Holds
      <4>4. QED BY <4>2, <4>3
    <3>4. QED BY <3>2, <3>3
  <2>4. Line'
      BY <1>4, <2>1 DEF Uncrossed, Line, Holds
  <2>5. QED BY <2>2, <2>3, <2>4 DEF Uncrossed
<1>9. QED BY <1>7, <1>8 DEF BridgeOK

\* The canonical session is opened again.
LEMMA SwitchStep ==
    ASSUME BridgeOK, NEW q \in Requests, Bridge!Switch(q)
    PROVE  BridgeOK'
<1>1. PICK r \in ReqType : /\ r = [req[q] EXCEPT !.at = "switched"] /\ r.at = "switched"
                          /\ r.existing = req[q].existing /\ r.live = req[q].live
    BY Moved DEF BridgeOK, BridgeType, Steps
<1>2. req' = [req EXCEPT ![q] = r] /\ (\A p \in Requests : req'[p] = IF p = q THEN r ELSE req[p])
      /\ req[q].at = "switch" /\ req[q].live = TRUE /\ pi.up = "up"
      /\ UNCHANGED <<contents, opened, binding, answered, crossed>>
    BY <1>1 DEF Bridge!Switch, Bridge!GoTo, Bridge!At, BridgeOK, BridgeType, ReqType
<1>3. PICK s \in opened \cup {None} : s = req[q].existing
    BY DEF BridgeOK, BridgeType, ForkPoint
<1>4. pi' = [pi EXCEPT !.session = s, !.ended = FALSE]
    BY <1>3 DEF Bridge!Switch
<1>5. s \in PiSessions \cup {None} /\ pi' \in PiType /\ pi'.session = s /\ pi'.up = "up"
    BY <1>2, <1>4 DEF BridgeOK, BridgeType, PiType
<1>6. s # None /\ s \in opened
    BY <1>2, <1>3 DEF BridgeOK, BridgeType, ForkPoint
<1>7. BridgeType'
  <2>1. req' \in [Requests -> ReqType]
      BY <1>2 DEF BridgeOK, BridgeType
  <2>2. \A p \in Requests : ForkPoint(req'[p], contents)
      BY <1>1, <1>2, <1>3, <1>6 DEF BridgeOK, BridgeType, ForkPoint
  <2>3. QED BY <1>2, <1>5, <1>6, <2>1, <2>2 DEF BridgeOK, BridgeType, ForkPoint
<1>8. ASSUME crossed' = FALSE PROVE Uncrossed'
  <2>1. Uncrossed /\ Placed(q, req[q])
      BY <1>2, <1>8 DEF BridgeOK, Uncrossed
  <2>2. s = binding
      BY <1>2, <1>3, <1>6, <2>1 DEF Placed, LivePlaced
  <2>3. Alone'
      BY <1>1, <1>2, <2>1 DEF Uncrossed, Alone
  <2>4. (\A p \in Requests : Placed(p, req[p]))'
    <3>1. SUFFICES ASSUME NEW p \in Requests PROVE Placed(p, req[p])'
        OBVIOUS
    <3>2. CASE p = q
        BY <1>1, <1>2, <1>3, <1>5, <2>1, <2>2, <3>2 DEF Placed, LivePlaced
    <3>3. CASE p # q
      <4>1. req'[p] = req[p] /\ Placed(p, req[p])
          BY <1>2, <2>1, <3>3 DEF Uncrossed
      <4>2. req[p].at # "idle" => Kind[p] = "change"
          BY <1>2, <2>1, <3>3 DEF Uncrossed, Alone
      <4>3. QED BY <1>2, <1>5, <2>2, <4>1, <4>2 DEF Placed, LivePlaced, Holds
    <3>4. QED BY <3>2, <3>3
  <2>5. Line'
      BY <1>2, <2>1 DEF Uncrossed, Line, Holds
  <2>6. QED BY <2>3, <2>4, <2>5 DEF Uncrossed
<1>9. QED BY <1>7, <1>8 DEF BridgeOK

\* A query goes on in a new file.
LEMMA ForkStep ==
    ASSUME BridgeOK, NEW q \in Requests, Bridge!Fork(q)
    PROVE  BridgeOK'
<1>1. PICK f \in PiSessions \ opened : f = Bridge!NewSession
    BY NewFile DEF BridgeOK, Bridge!Fork
<1>2. PICK r \in ReqType : /\ r = [req[q] EXCEPT !.at = "prompt"] /\ r.at = "prompt"
                          /\ r.existing = req[q].existing /\ r.live = req[q].live
    BY Moved DEF BridgeOK, BridgeType, Steps
<1>3. req' = [req EXCEPT ![q] = r] /\ (\A p \in Requests : req'[p] = IF p = q THEN r ELSE req[p])
      /\ req[q].at = "fork" /\ pi.up = "up" /\ pi.session = req[q].existing
      /\ opened' = opened \cup {f}
      /\ UNCHANGED <<binding, answered, crossed>>
    BY <1>1, <1>2 DEF Bridge!Fork, Bridge!GoTo, Bridge!At, BridgeOK, BridgeType
<1>4. pi' = [pi EXCEPT !.session = f, !.ended = FALSE]
      /\ contents' = [contents EXCEPT ![f] = SubSeq(contents[pi.session], 1, req[q].cut)]
    BY <1>1 DEF Bridge!Fork
<1>5. pi' \in PiType /\ pi'.session = f /\ pi'.up = "up"
    BY <1>1, <1>3, <1>4 DEF BridgeOK, BridgeType, PiType
<1>6. contents' \in [PiSessions -> Seq(Requests)] /\ \A g \in opened : contents'[g] = contents[g]
  <2>1. PICK s \in Seq(Requests) : s = contents[pi.session] /\ req[q].cut < Len(s)
      BY <1>3 DEF BridgeOK, BridgeType, ForkPoint
  <2>2. req[q].cut \in Nat
      BY DEF BridgeOK, BridgeType, ReqType
  <2>3. SubSeq(s, 1, req[q].cut) \in Seq(Requests)
      BY <2>1, <2>2
  <2>4. QED BY <1>1, <1>4, <2>1, <2>3 DEF BridgeOK, BridgeType
<1>7. BridgeType'
  <2>1. req' \in [Requests -> ReqType]
      BY <1>3 DEF BridgeOK, BridgeType
  <2>2. \A p \in Requests : ForkPoint(req[p], contents)'
    <3>1. TAKE p \in Requests
    <3>2. ForkPoint(req[p], contents) /\ ForkPoint(req[q], contents)
        BY DEF BridgeOK, BridgeType
    <3>3. CASE p = q
      <4>1. req'[p] = r /\ r.at = "prompt" /\ r.existing \in opened \cup {None}
          BY <1>2, <1>3, <3>2, <3>3 DEF ForkPoint
      <4>2. QED BY <1>3, <4>1 DEF ForkPoint
    <3>4. CASE p # q
        BY <1>3, <1>6, <3>2, <3>4 DEF ForkPoint
    <3>5. QED BY <3>3, <3>4
  <2>3. QED BY <1>1, <1>3, <1>5, <1>6, <2>1, <2>2 DEF BridgeOK, BridgeType
<1>8. ASSUME crossed' = FALSE PROVE Uncrossed'
  <2>1. Uncrossed /\ Placed(q, req[q])
      BY <1>3, <1>8 DEF BridgeOK, Uncrossed
  <2>2. binding # None /\ Kind[q] = "query"
      BY <1>3, <2>1 DEF Placed
  <2>3. binding \in opened /\ contents'[binding] = contents[binding] /\ f # binding
      BY <1>1, <1>6, <2>2 DEF BridgeOK, BridgeType
  <2>4. Alone'
      BY <1>2, <1>3, <2>1 DEF Uncrossed, Alone
  <2>5. (\A p \in Requests : Placed(p, req[p]))'
    <3>1. SUFFICES ASSUME NEW p \in Requests PROVE Placed(p, req[p])'
        OBVIOUS
    <3>2. CASE p = q
        BY <1>2, <1>3, <1>5, <2>2, <2>3, <3>2 DEF Placed, LivePlaced
    <3>3. CASE p # q
      <4>1. req'[p] = req[p] /\ req[p].at = "idle"
          BY <1>3, <2>1, <2>2, <3>3 DEF Uncrossed, Alone
      <4>2. QED BY <4>1 DEF Placed, LivePlaced
    <3>4. QED BY <3>2, <3>3
  <2>6. Line'
      BY <1>3, <2>1, <2>2, <2>3 DEF Uncrossed, Line, Holds
  <2>7. QED BY <2>4, <2>5, <2>6 DEF Uncrossed
<1>9. QED BY <1>7, <1>8 DEF BridgeOK

\* A prompt is the last entry of the session that is open.
LEMMA PromptStep ==
    ASSUME BridgeOK, NEW q \in Requests, Bridge!PromptAccepted(q)
    PROVE  BridgeOK'
<1>1. PICK f \in opened : f = pi.session /\ f \in PiSessions
    BY DEF BridgeOK, BridgeType, Bridge!PromptAccepted, Bridge!At
<1>2. PICK r \in ReqType : /\ r = [req[q] EXCEPT !.at = "agent_end"] /\ r.at = "agent_end"
                          /\ r.existing = req[q].existing /\ r.live = req[q].live
    BY Moved DEF BridgeOK, BridgeType, Steps
<1>3. req' = [req EXCEPT ![q] = r] /\ (\A p \in Requests : req'[p] = IF p = q THEN r ELSE req[p])
      /\ req[q].at = "prompt" /\ req[q].live = TRUE /\ pi.up = "up"
      /\ UNCHANGED <<opened, binding, answered, crossed>>
    BY <1>2 DEF Bridge!PromptAccepted, Bridge!GoTo, Bridge!At, BridgeOK, BridgeType, ReqType
<1>4. pi' \in PiType /\ pi'.session = f /\ pi'.up = "up"
    BY <1>1, <1>3 DEF BridgeOK, BridgeType, PiType, Bridge!PromptAccepted
<1>5. PICK s \in Seq(Requests) : s = contents[f]
    BY <1>1 DEF BridgeOK, BridgeType
<1>6. contents' = [contents EXCEPT ![f] = Append(s, q)] /\ Append(s, q) \in Seq(Requests)
    BY <1>1, <1>5 DEF Bridge!PromptAccepted
<1>7. /\ Len(Append(s, q)) = Len(s) + 1 /\ DOMAIN Append(s, q) = DOMAIN s \cup {Len(s) + 1}
      /\ \A i \in DOMAIN s : Append(s, q)[i] = s[i]
      /\ Append(s, q)[Len(s) + 1] = q
    OBVIOUS
<1>8. contents' \in [PiSessions -> Seq(Requests)] /\ contents'[f] = Append(s, q)
      /\ \A g \in PiSessions \ {f} : contents'[g] = contents[g]
    BY <1>1, <1>6 DEF BridgeOK, BridgeType
<1>9. BridgeType'
  <2>1. req' \in [Requests -> ReqType]
      BY <1>3 DEF BridgeOK, BridgeType
  <2>2. \A p \in Requests : ForkPoint(req[p], contents)'
    <3>1. TAKE p \in Requests
    <3>2. ForkPoint(req[p], contents) /\ ForkPoint(req[q], contents) /\ req[p].cut \in Nat
        BY DEF BridgeOK, BridgeType, ReqType
    <3>3. CASE p = q
        BY <1>2, <1>3, <3>2, <3>3 DEF ForkPoint
    <3>4. CASE p # q
      <4>1. CASE req[p].existing = f
          BY <1>3, <1>5, <1>7, <1>8, <3>2, <3>4, <4>1 DEF ForkPoint
      <4>2. CASE req[p].existing # f
        <5>1. req[p].existing # None => req[p].existing \in PiSessions
            BY <3>2 DEF ForkPoint, BridgeOK, BridgeType
        <5>2. QED BY <1>3, <1>8, <3>2, <3>4, <4>2, <5>1 DEF ForkPoint
      <4>3. QED BY <4>1, <4>2
    <3>5. QED BY <3>3, <3>4
  <2>3. QED BY <1>3, <1>4, <1>8, <2>1, <2>2 DEF BridgeOK, BridgeType
<1>10. ASSUME crossed' = FALSE PROVE Uncrossed'
  <2>1. Uncrossed /\ Placed(q, req[q])
      BY <1>3, <1>10 DEF BridgeOK, Uncrossed
  <2>2. binding # None /\ binding \in PiSessions
      BY <1>3, <2>1 DEF Placed, BridgeOK, BridgeType
  <2>3. PICK t \in Seq(Requests) : t = contents[binding]
      BY <2>2 DEF BridgeOK, BridgeType
  <2>4. /\ \A i \in DOMAIN t : i \in DOMAIN contents'[binding] /\ contents'[binding][i] = t[i]
        /\ Kind[q] = "change" => Holds(q)'
        /\ \A i \in DOMAIN contents'[binding] :
              Kind[contents'[binding][i]] = "query" => i = 1 
    <3>1. CASE f = binding
      <4>1. Kind[q] = "query" => Len(s) + 1 = 1
          BY <1>1, <1>3, <1>5, <2>1, <3>1 DEF Placed, LivePlaced
      <4>2. t = s
          BY <1>5, <2>3, <3>1
      <4>3. contents'[binding] = Append(s, q)
          BY <1>8, <3>1
      <4>4. \A i \in DOMAIN s : Kind[s[i]] = "query" => i = 1
          BY <2>1, <2>2, <2>3, <4>2 DEF Uncrossed, Line
      <4>5. QED BY <1>3, <1>7, <4>1, <4>2, <4>3, <4>4 DEF Holds
    <3>2. CASE f # binding
      <4>1. Kind[q] # "change" /\ contents'[binding] = contents[binding]
          BY <1>1, <1>3, <1>8, <2>1, <2>2, <3>2 DEF Placed, LivePlaced
      <4>2. QED BY <2>1, <2>2, <2>3, <4>1 DEF Uncrossed, Line
    <3>3. QED BY <3>1, <3>2
  <2>5. \A p \in Requests : Holds(p) => Holds(p)'
      BY <1>3, <2>3, <2>4 DEF Holds
  <2>6. Alone'
      BY <1>2, <1>3, <2>1 DEF Uncrossed, Alone
  <2>7. (\A p \in Requests : Placed(p, req[p]))'
    <3>1. SUFFICES ASSUME NEW p \in Requests PROVE Placed(p, req[p])'
        OBVIOUS
    <3>2. CASE p = q
      <4>1. req'[p] = r /\ r.at = "agent_end" /\ binding' # None
          BY <1>2, <1>3, <2>2, <3>2
      <4>2. Kind[p] = "change" => Holds(p)'
          BY <2>4, <3>2
      <4>3. Kind[p] = "change" => pi'.session = binding'
          BY <1>1, <1>3, <1>4, <2>1, <3>2 DEF Placed, LivePlaced
      <4>4. LivePlaced(p, r)'
          BY <4>1, <4>3 DEF LivePlaced
      <4>5. QED BY <4>1, <4>2, <4>4 DEF Placed
    <3>3. CASE p # q
      <4>1. req'[p] = req[p] /\ Placed(p, req[p])
          BY <1>3, <2>1, <3>3 DEF Uncrossed
      <4>2. req[p].at # "idle" => Kind[p] = "change"
          BY <1>3, <2>1, <3>3 DEF Uncrossed, Alone
      <4>3. contents[binding] # <<>> => contents'[binding] # <<>>
        <5>1. t # <<>> => 1 \in DOMAIN t
            BY <2>3
        <5>2. QED BY <2>3, <2>4, <5>1
      <4>4. QED BY <1>1, <1>3, <1>4, <2>5, <4>1, <4>2, <4>3 DEF Placed, LivePlaced
    <3>4. QED BY <3>2, <3>3
  <2>8. Line'
    <3>1. \A p \in answered : p \in Requests
        BY DEF BridgeOK, BridgeType
    <3>2. QED BY <1>3, <2>1, <2>2, <2>4, <2>5, <3>1 DEF Uncrossed, Line
  <2>9. QED BY <2>6, <2>7, <2>8 DEF Uncrossed
<1>11. QED BY <1>9, <1>10 DEF BridgeOK

\* A change that is answered works in the bound session: the binding stays.
LEMMA AnswerStep ==
    ASSUME BridgeOK, NEW q \in Requests, Bridge!Answer(q)
    PROVE  BridgeOK'
<1>1. PICK r \in ReqType : r = Bridge!NoReq /\ r.at = "idle" /\ r.existing = None /\ r.live = FALSE
    BY NoRequest
<1>2. req' = [req EXCEPT ![q] = r] /\ (\A p \in Requests : req'[p] = IF p = q THEN r ELSE req[p])
      /\ req[q].at = "post_prompt" /\ req[q].live = TRUE /\ pi.up = "up"
      /\ answered' = answered \cup {q} /\ UNCHANGED <<contents, opened, crossed>>
      /\ binding' = IF Kind[q] = "change" THEN pi.session ELSE binding
    BY <1>1 DEF Bridge!Answer, Bridge!SaveBinding, Bridge!At, BridgeOK, BridgeType, ReqType
<1>3. pi' \in PiType /\ pi'.session = pi.session /\ pi'.up = "up"
    BY <1>2 DEF BridgeOK, BridgeType, PiType, Bridge!Answer, Bridge!Read
<1>4. BridgeType'
  <2>1. req' \in [Requests -> ReqType]
      BY <1>2 DEF BridgeOK, BridgeType
  <2>2. \A p \in Requests : ForkPoint(req'[p], contents)
      BY <1>1, <1>2 DEF BridgeOK, BridgeType, ForkPoint
  <2>3. QED BY <1>2, <1>3, <2>1, <2>2 DEF BridgeOK, BridgeType, ForkPoint
<1>5. ASSUME crossed' = FALSE PROVE Uncrossed'
  <2>1. Uncrossed /\ Placed(q, req[q])
      BY <1>2, <1>5 DEF BridgeOK, Uncrossed
  <2>2. binding' = binding /\ binding # None /\ (Kind[q] = "change" => Holds(q))
      BY <1>2, <2>1 DEF Placed, LivePlaced
  <2>3. Alone'
      BY <1>1, <1>2, <2>1 DEF Uncrossed, Alone
  <2>4. (\A p \in Requests : Placed(p, req[p]))'
    <3>1. SUFFICES ASSUME NEW p \in Requests PROVE Placed(p, req[p])'
        OBVIOUS
    <3>2. CASE p = q
        BY <1>1, <1>2, <3>2 DEF Placed
    <3>3. CASE p # q
      <4>1. req'[p] = req[p] /\ Placed(p, req[p])
          BY <1>2, <2>1, <3>3 DEF Uncrossed
      <4>2. QED BY <1>2, <1>3, <2>2, <4>1 DEF Placed, LivePlaced, Holds
    <3>4. QED BY <3>2, <3>3
  <2>5. Line'
      BY <1>2, <2>1, <2>2 DEF Uncrossed, Line, Holds
  <2>6. QED BY <2>3, <2>4, <2>5 DEF Uncrossed
<1>6. QED BY <1>4, <1>5 DEF BridgeOK

\* pi works, ends, exits or is heard of; a restarted bot has no request left.
LEMMA PiStep ==
    ASSUME BridgeOK, UNCHANGED <<contents, opened, binding, answered, crossed>>, pi' \in PiType,
           \/ /\ req' = req /\ pi'.session = pi.session
              /\ pi'.up = "up" => pi.up = "up"
           \/ /\ req' = [q \in Requests |-> Bridge!NoReq]
              /\ pi'.session = None /\ pi'.up = "none"
    PROVE  BridgeOK'
<1>1. CASE req' = req /\ pi'.session = pi.session /\ (pi'.up = "up" => pi.up = "up")
  <2>1. BridgeType'
      BY <1>1 DEF BridgeOK, BridgeType, ForkPoint
  <2>2. Uncrossed => Uncrossed'
      BY <1>1 DEF Uncrossed, Alone, Placed, LivePlaced, Holds, Line
  <2>3. QED BY <2>1, <2>2 DEF BridgeOK
<1>2. CASE req' = [q \in Requests |-> Bridge!NoReq] /\ pi'.session = None /\ pi'.up = "none"
  <2>1. \A q \in Requests : req'[q] \in ReqType /\ req'[q].at = "idle" /\ req'[q].live = FALSE
                            /\ req'[q].existing = None
      BY <1>2 DEF ReqType, Bridge!NoReq, Steps
  <2>2. req' \in [Requests -> ReqType]
      BY <1>2, <2>1
  <2>3. BridgeType'
      BY <1>2, <2>1, <2>2 DEF BridgeOK, BridgeType, ForkPoint
  <2>4. Uncrossed => Uncrossed'
      BY <2>1 DEF Uncrossed, Alone, Placed, Holds, Line
  <2>5. QED BY <2>3, <2>4 DEF BridgeOK
<1>3. QED BY <1>1, <1>2

LEMMA BridgeStep ==
    ASSUME BridgeOK, Bridge!Next \/ UNCHANGED bridgeVars
    PROVE  BridgeOK'
<1> USE DEF BridgeOK, BridgeType
<1>1. CASE Bridge!EnterBackendMode \/ Bridge!ExitBackendMode \/ UNCHANGED bridgeVars
           \/ \E q \in Requests : Bridge!Refuse(q) \/ Bridge!ReadUntilEvent(q)
  <2>1. UNCHANGED <<pi, contents, opened, binding, req, answered, crossed>>
      BY <1>1 DEF Bridge!EnterBackendMode, Bridge!ExitBackendMode, bridgeVars, Bridge!Refuse,
                  Bridge!ReadUntilEvent
  <2>2. QED BY <2>1, PiStep
<1>2. ASSUME NEW q \in Requests,
             \/ Bridge!Begin(q) \/ Bridge!Switch(q) \/ Bridge!Fork(q)
             \/ Bridge!PromptAccepted(q) \/ Bridge!Answer(q)
      PROVE  BridgeOK'
    BY <1>2, BeginStep, SwitchStep, ForkStep, PromptStep, AnswerStep
<1>3. ASSUME NEW q \in Requests, Bridge!State(q) PROVE BridgeOK'
  <2>1. CASE req[q].existing \notin {None, pi.session}
    <3>1. Bridge!At(q, "state") /\ Bridge!GoTo(q, "switch_state") /\ Bridge!Read
          /\ UNCHANGED <<contents, opened, binding, answered, crossed>>
        BY <1>3, <2>1 DEF Bridge!State
    <3>2. crossed = FALSE => Placed(q, [req[q] EXCEPT !.at = "switch_state"])
      <4>1. PICK r : r = [req[q] EXCEPT !.at = "switch_state"]
          OBVIOUS
      <4>2. r.at = "switch_state" /\ r.existing = req[q].existing /\ r.live = req[q].live
            /\ req[q].at = "state"
          BY <3>1, <4>1 DEF ReqType, Bridge!At
      <4>3. crossed = FALSE => Placed(q, req[q])
          BY DEF Uncrossed
      <4>4. crossed = FALSE => Placed(q, r)
          BY <2>1, <4>2, <4>3 DEF Placed, LivePlaced
      <4>5. QED BY <4>1, <4>4
    <3>3. QED BY <2>1, <3>1, <3>2, GoesTo DEF Steps
  <2>2. CASE req[q].existing \in {None, pi.session}
      BY <1>3, <2>2, Binds DEF Bridge!State
  <2>3. QED BY <2>1, <2>2
<1>4. ASSUME NEW q \in Requests, NEW from \in Steps, NEW step \in Steps \ {"fork"},
             Bridge!At(q, from), Bridge!GoTo(q, step), Bridge!Read,
             UNCHANGED <<contents, opened, binding, answered, crossed>>,
             <<from, step>> \in {<<"switch_state", "switch">>, <<"pre_prompt", "prompt">>,
                                 <<"fork_state", "fork_messages">>}
      PROVE  BridgeOK'
  <2>1. PICK r : r = [req[q] EXCEPT !.at = step]
      OBVIOUS
  <2>2. r.at = step /\ r.existing = req[q].existing /\ r.live = req[q].live /\ req[q].at = from
      BY <1>4, <2>1 DEF ReqType, Bridge!At
  <2>3. crossed = FALSE => Placed(q, req[q])
      BY DEF Uncrossed
  <2>4. crossed = FALSE => Placed(q, r)
      BY <1>4, <2>2, <2>3 DEF Placed, LivePlaced
  <2>5. from = "switch_state" => req[q].existing # None
      BY <2>2 DEF ForkPoint
  <2>6. from # "idle" /\ (step \in {"switch_state", "switch", "switched"} => from = "switch_state")
      BY <1>4
  <2>7. QED BY <1>4, <2>1, <2>4, <2>5, <2>6, GoesTo
<1>5. ASSUME NEW q \in Requests, Bridge!SwitchState(q) \/ Bridge!PrePrompt(q) \/ Bridge!ForkState(q)
      PROVE  BridgeOK'
    BY <1>4, <1>5 DEF Bridge!SwitchState, Bridge!PrePrompt, Bridge!ForkState, Steps
<1>6. ASSUME NEW q \in Requests, Bridge!Switched(q) PROVE BridgeOK'
    BY <1>6, Binds DEF Bridge!Switched
<1>7. ASSUME NEW q \in Requests, Bridge!ForkMessages(q) PROVE BridgeOK'
  <2>1. PICK f \in opened : f = pi.session /\ f \in PiSessions /\ contents[f] \in Seq(Requests)
      BY <1>7 DEF Bridge!ForkMessages, Bridge!At
  <2>2. PICK r : r = IF contents[f] = <<>> THEN [req[q] EXCEPT !.at = "prompt"]
                     ELSE [req[q] EXCEPT !.at = "fork", !.existing = f, !.cut = Len(contents[f]) - 1]
      OBVIOUS
  <2>3. req' = [req EXCEPT ![q] = r] /\ Bridge!Read /\ req[q].at = "fork_messages"
        /\ UNCHANGED <<contents, opened, binding, answered, crossed>>
      BY <1>7, <2>1, <2>2 DEF Bridge!ForkMessages, Bridge!At
  <2>4. contents[f] # <<>> => Len(contents[f]) - 1 \in Nat
      BY <2>1
  <2>5. r \in ReqType /\ r.live = req[q].live
        /\ IF contents[f] = <<>> THEN r.at = "prompt" /\ r.existing = req[q].existing
           ELSE r.at = "fork" /\ r.existing = f /\ r.cut = Len(contents[f]) - 1
      BY <2>1, <2>2, <2>4 DEF ReqType, Steps
  <2>6. ForkPoint(r, contents)
      BY <2>1, <2>5, ServicesAssumption DEF ForkPoint
  <2>7. crossed = FALSE => Placed(q, r)
    <3>1. crossed = FALSE => Placed(q, req[q])
        BY DEF Uncrossed
    <3>2. QED BY <2>1, <2>3, <2>5, <3>1 DEF Placed, LivePlaced
  <2>8. pi' \in PiType /\ pi'.session = pi.session /\ pi'.up = pi.up
      BY <2>3 DEF Bridge!Read, PiType
  <2>9. QED BY <2>3, <2>5, <2>6, <2>7, <2>8, MovesOn
<1>8. ASSUME NEW q \in Requests, Bridge!AgentEnd(q) PROVE BridgeOK'
  <2>1. PICK r \in ReqType : /\ r = [req[q] EXCEPT !.at = "post_prompt"] /\ r.at = "post_prompt"
                            /\ r.existing = req[q].existing /\ r.live = req[q].live
      BY Moved DEF Steps
  <2>2. req' = [req EXCEPT ![q] = r] /\ req[q].at = "agent_end" /\ Bridge!Read
        /\ UNCHANGED <<contents, opened, binding, answered, crossed>>
      BY <1>8, <2>1 DEF Bridge!AgentEnd, Bridge!GoTo
  <2>3. ForkPoint(r, contents)
      BY <2>1, <2>2 DEF ForkPoint
  <2>4. crossed = FALSE => Placed(q, r)
    <3>1. crossed = FALSE => Placed(q, req[q])
        BY DEF Uncrossed
    <3>2. QED BY <2>1, <2>2, <3>1 DEF Placed, LivePlaced
  <2>5. pi' \in PiType /\ pi'.session = pi.session /\ pi'.up = pi.up
      BY <2>2 DEF Bridge!Read, PiType
  <2>6. QED BY <2>1, <2>2, <2>3, <2>4, <2>5, MovesOn
<1>9. ASSUME NEW q \in Requests, Bridge!CommandFails(q) \/ Bridge!StreamClosed(q) PROVE BridgeOK'
    BY <1>9, GivenUp DEF Bridge!CommandFails, Bridge!StreamClosed
<1>10. CASE Bridge!WorkEnds \/ Bridge!PiExits \/ Bridge!Reaped
  <2>1. UNCHANGED <<contents, opened, binding, req, answered, crossed>>
      BY <1>10 DEF Bridge!WorkEnds, Bridge!PiExits, Bridge!Reaped
  <2>2. pi' \in PiType /\ pi'.session = pi.session /\ (pi'.up = "up" => pi.up = "up")
      BY <1>10 DEF Bridge!WorkEnds, Bridge!PiExits, Bridge!Reaped, PiType
  <2>3. QED BY <2>1, <2>2, PiStep
<1>11. CASE Bridge!BotRestarts
  <2>1. UNCHANGED <<contents, opened, binding, answered, crossed>>
        /\ req' = [q \in Requests |-> Bridge!NoReq]
        /\ pi' = [up |-> "none", session |-> None, working |-> FALSE, ended |-> FALSE]
      BY <1>11 DEF Bridge!BotRestarts
  <2>2. pi' \in PiType /\ pi'.session = None /\ pi'.up = "none"
      BY <2>1 DEF PiType
  <2>3. QED BY <2>1, <2>2, PiStep
<1>12. QED
    BY <1>1, <1>2, <1>3, <1>5, <1>6, <1>7, <1>8, <1>9, <1>10, <1>11 DEF Bridge!Next

\* For all sessions and requests, across forks, exits of pi, restarts of the bot
\* and changes that overlap: as long as no query crosses another request, the
\* session the binding names holds every change that was answered, and a query
\* only as its first entry (send_change, fork_query_from_stable_checkpoint,
\* ensure_backend_session).
THEOREM CanonicalLineTheorem == Spec => []CanonicalLine
<1> DEFINE Inv == part = "bridge" => BridgeOK
<1>1. Init => Inv
    BY BridgeInit DEF Init
<1>2. Inv /\ [Next]_vars => Inv'
    BY StepOfPart, BridgeStep
<1>3. Inv => CanonicalLine
    BY DEF CanonicalLine, BridgeOK, BridgeType, Uncrossed, Line, Holds, Bridge!CanonicalLine,
           Bridge!ToSet
<1>4. QED BY <1>1, <1>2, <1>3, PTL DEF Spec

-----------------------------------------------------------------------------
(* The session bundles.  A session that was created, or is being created,  *)
(* is on disk and listed wherever sessions are listed.                      *)

SkillNames == {p.name : p \in Packages}
Loaders == [prompts : SUBSET Prompts, skills : SUBSET SkillNames, tools : SUBSET Tools,
            cache : (SUBSET Sessions) \cup {None}]
CallStates == [op : {"idle", "create", "plugins", "registry"}, session : Sessions \cup {None}]

ConsoleType ==
    /\ upc \in BOOLEAN
    /\ session \in [Sessions -> {None, "parses", "broken"}]
    /\ agent \in [Sessions -> Console!References \cup {None}]
    /\ prompts \subseteq Prompts /\ packages \subseteq Packages /\ catalog \subseteq Packages
    /\ enabled \subseteq Tools /\ tools \subseteq Tools
    /\ loader \in Loaders
    /\ targets \subseteq Sessions /\ created \subseteq Sessions
    /\ call \in [Calls -> CallStates]
    /\ \A c \in Calls : call[c].op = "create" => call[c].session \in Sessions

Creates(c) == call[c].op = "create"

\* The sessions whose creation was reported or is waiting for the registry.
Kept == {s \in Sessions : s \in created \/ \E c \in Calls : Creates(c) /\ call[c].session = s}

KeptListed ==
    /\ Kept \subseteq Console!Listed(session, agent)
    /\ upc = TRUE => Kept \subseteq targets
    /\ loader.cache # None => Kept \subseteq loader.cache

\* A session is created once, by a call of a bot that runs.
CreatedOnce ==
    \A c \in Calls : Creates(c) =>
        /\ upc = TRUE /\ call[c].session \notin created
        /\ \A b \in Calls \ {c} : Creates(b) => call[b].session # call[c].session

ConsoleOK == ConsoleType /\ KeptListed /\ CreatedOnce

\* Catalogs of known names make a loader, with nothing cached.
LEMMA FreshLoader ==
    ASSUME NEW disk \in SUBSET Prompts, NEW found \in SUBSET Packages, NEW t \in SUBSET Tools
    PROVE  Console!Fresh(disk, found, t) \in Loaders /\ Console!Fresh(disk, found, t).cache = None
<1>1. Console!Names(found) \subseteq SkillNames
    BY DEF Console!Names, SkillNames
<1>2. Console!PromptRefs(disk) \subseteq Prompts
    BY ServicesAssumption DEF Console!PromptRefs
<1>3. QED BY <1>1, <1>2 DEF Console!Fresh, Loaders

\* A list that can be made holds what the bundles on disk and an older list do.
LEMMA ListHolds ==
    ASSUME NEW l \in Loaders, NEW sess, NEW ag,
           NEW K \in SUBSET Console!Listed(sess, ag), l.cache # None => K \subseteq l.cache
    PROVE  K \subseteq Console!Bundles(l, sess, ag) /\ Console!Bundles(l, sess, ag) \subseteq Sessions
BY DEF Console!Bundles, Console!Listed, Loaders

\* A call that creates nothing moves on: no session is kept more or less.
LEMMA CallMoves ==
    ASSUME ConsoleType, CreatedOnce, NEW c \in Calls, ~ Creates(c),
           NEW r \in CallStates, r.op # "create", call' = [call EXCEPT ![c] = r],
           UNCHANGED <<created, upc>>
    PROVE  /\ call' \in [Calls -> CallStates]
           /\ \A b \in Calls : call'[b].op = "create" => call'[b].session \in Sessions
           /\ Kept' = Kept /\ CreatedOnce'
<1>1. call' \in [Calls -> CallStates] /\ \A b \in Calls : b # c => call'[b] = call[b]
    BY DEF ConsoleType
<1>2. call'[c] = r
    BY DEF ConsoleType
<1>3. \A b \in Calls : call'[b].op = "create" <=> Creates(b)
    BY <1>1, <1>2 DEF Creates
<1>4. \A b \in Calls : Creates(b) => call'[b].session = call[b].session
    BY <1>1
<1>5. \A b \in Calls : call'[b].op = "create" => call'[b].session \in Sessions
    BY <1>3, <1>4 DEF ConsoleType, Creates
<1>6. Kept' = Kept
    BY <1>3, <1>4 DEF Kept, Creates
<1>7. CreatedOnce'
    BY <1>3, <1>4 DEF CreatedOnce, Creates
<1>8. QED BY <1>1, <1>5, <1>6, <1>7

\* The loader, the lists and the bundles after a step of a call that creates
\* nothing, whether its list could be made or not.
LEMMA ListsAgain ==
    ASSUME ConsoleOK, NEW c \in Calls, ~ Creates(c), NEW l \in Loaders, NEW sess, NEW ag,
           NEW s \in Sessions \cup {None},
           Console!RefreshTargets(l, sess, ag, c, "registry", s), UNCHANGED <<created, upc>>,
           Kept \subseteq Console!Listed(sess, ag), l.cache # None => Kept \subseteq l.cache
    PROVE  /\ loader' \in Loaders /\ targets' \subseteq Sessions
           /\ call' \in [Calls -> CallStates]
           /\ \A b \in Calls : call'[b].op = "create" => call'[b].session \in Sessions
           /\ Kept' = Kept /\ CreatedOnce'
           /\ upc' = TRUE => Kept \subseteq targets'
           /\ loader'.cache # None => Kept \subseteq loader'.cache
<1>1. PICK B : B = Console!Bundles(l, sess, ag)
    OBVIOUS
<1>2. Kept \subseteq B /\ B \subseteq Sessions
  <2>1. PICK K \in SUBSET Console!Listed(sess, ag) : K = Kept
      OBVIOUS
  <2>2. l.cache # None => K \subseteq l.cache
      BY <2>1
  <2>3. QED BY <1>1, <2>1, <2>2, ListHolds
<1>3. PICK r \in CallStates :
        /\ r.op # "create" /\ call' = [call EXCEPT ![c] = r]
        /\ \/ targets' = B /\ loader' = [l EXCEPT !.cache = B]
           \/ targets' = targets /\ loader' = l
  <2>1. Console!Idle \in CallStates /\ Console!Idle.op # "create"
        /\ [op |-> "registry", session |-> s] \in CallStates
      BY DEF Console!Idle, CallStates
  <2>2. CASE Console!Lists(l, sess, ag)
      BY <1>1, <2>1, <2>2 DEF Console!RefreshTargets
  <2>3. CASE ~ Console!Lists(l, sess, ag)
      BY <2>1, <2>3 DEF Console!RefreshTargets
  <2>4. QED BY <2>2, <2>3
<1>4. /\ loader' \in Loaders /\ targets' \subseteq Sessions
      /\ upc' = TRUE => Kept \subseteq targets'
      /\ loader'.cache # None => Kept \subseteq loader'.cache
    BY <1>2, <1>3 DEF Loaders, ConsoleOK, ConsoleType, KeptListed
<1>5. QED BY <1>3, <1>4, CallMoves DEF ConsoleOK

LEMMA ConsoleInit == Console!Init => ConsoleOK
<1> SUFFICES ASSUME Console!Init PROVE ConsoleOK
    OBVIOUS
<1>1. loader \in Loaders /\ loader.cache = None
    BY FreshLoader DEF Console!Init
<1>2. ConsoleType
    BY <1>1 DEF Console!Init, ConsoleType, Console!Idle, CallStates
<1>3. Kept = {} /\ CreatedOnce
    BY DEF Console!Init, Console!Idle, Kept, CreatedOnce, Creates
<1>4. QED BY <1>1, <1>2, <1>3 DEF ConsoleOK, KeptListed

\* A step that leaves the calls and what was created keeps the same sessions.
LEMMA SameCalls ==
    ASSUME ConsoleOK, UNCHANGED <<call, created>>, upc' = upc
    PROVE  /\ Kept' = Kept /\ CreatedOnce'
           /\ \A c \in Calls : call'[c].op = "create" => call'[c].session \in Sessions
BY DEF ConsoleOK, ConsoleType, Kept, CreatedOnce, Creates

\* The bot stops: no call is left, and what was created stays on disk.
LEMMA GoesDown ==
    ASSUME ConsoleOK, Console!Down, UNCHANGED <<agent, packages, enabled, created>>,
           session' \in [Sessions -> {None, "parses", "broken"}], prompts' \subseteq Prompts,
           \A s \in Sessions : session[s] # None => session'[s] # None
    PROVE  ConsoleOK'
<1> USE DEF ConsoleOK
<1>1. upc' = FALSE /\ catalog' = {} /\ tools' = {} /\ targets' = {}
      /\ call' = [c \in Calls |-> Console!Idle] /\ loader' = Console!Fresh({}, {}, {})
    BY DEF Console!Down
<1>2. loader' \in Loaders /\ loader'.cache = None
    BY <1>1, FreshLoader
<1>3. \A c \in Calls : call'[c].op = "idle"
    BY <1>1 DEF Console!Idle
<1>4. call' \in [Calls -> CallStates]
    BY <1>1 DEF Console!Idle, CallStates
<1>5. ConsoleType'
    BY <1>1, <1>2, <1>3, <1>4 DEF ConsoleType
<1>6. Kept' = {s \in Sessions : s \in created} /\ CreatedOnce'
    BY <1>3 DEF Kept, CreatedOnce, Creates
<1>7. Kept' \subseteq Kept
    BY <1>6 DEF Kept
<1>8. KeptListed'
    BY <1>1, <1>2, <1>7 DEF KeptListed, Console!Listed
<1>9. QED BY <1>5, <1>6, <1>8

LEMMA CreatesSession ==
    ASSUME ConsoleOK, NEW c \in Calls, NEW s \in Sessions, Console!CreateSession(c, s)
    PROVE  ConsoleOK'
<1> USE DEF ConsoleOK
<1> DEFINE l0 == Console!Fresh(prompts', catalog, tools)
           sess0 == [session EXCEPT ![s] = "parses"]
           ag0 == [agent EXCEPT ![s] = Console!SeedAgent]
<1>1. PICK l, sess, ag, B : l = l0 /\ sess = sess0 /\ ag = ag0 /\ B = Console!Bundles(l, sess, ag)
    OBVIOUS
<1>2. /\ upc = TRUE /\ call[c] = Console!Idle /\ session[s] = None /\ agent[s] = None
      /\ prompts' = prompts \cup {DefaultPrompt}
      /\ Console!RefreshTargets(l, sess, ag, c, "create", s)
      /\ IF Console!Lists(l, sess, ag) THEN session' = sess /\ agent' = ag
         ELSE UNCHANGED <<session, agent>>
      /\ UNCHANGED <<upc, packages, catalog, enabled, tools, created>>
    BY <1>1 DEF Console!CreateSession, Console!Free
<1>3. prompts' \subseteq Prompts /\ l \in Loaders /\ l.cache = None
  <2>1. prompts' \subseteq Prompts
      BY <1>2, ServicesAssumption DEF ConsoleType
  <2>2. QED BY <1>1, <2>1, FreshLoader DEF ConsoleType
<1>4. sess \in [Sessions -> {None, "parses", "broken"}]
      /\ ag \in [Sessions -> Console!References \cup {None}]
      /\ sess[s] # None /\ ag[s] # None
      /\ \A t \in Sessions \ {s} : sess[t] = session[t] /\ ag[t] = agent[t]
  <2>1. Console!SeedAgent \in Console!References
      BY ServicesAssumption DEF Console!SeedAgent, Console!References
  <2>2. QED BY <1>1, <2>1, ServicesAssumption DEF ConsoleType
<1>5. ~ Creates(c) /\ s \notin Kept
    BY <1>2 DEF Creates, Console!Idle, KeptListed, Console!Listed
<1> HIDE DEF l0, sess0, ag0
<1>6. CASE Console!Lists(l, sess, ag)
  <2>1. /\ targets' = B /\ loader' = [l EXCEPT !.cache = B] /\ session' = sess /\ agent' = ag
        /\ call' = [call EXCEPT ![c] = [op |-> "create", session |-> s]]
      BY <1>1, <1>2, <1>6 DEF Console!RefreshTargets
  <2>2. PICK K : K = Kept \cup {s}
      OBVIOUS
  <2>3. K \in SUBSET Console!Listed(sess, ag)
      BY <1>4, <2>2 DEF KeptListed, Console!Listed
  <2>4. K \subseteq B /\ B \subseteq Sessions
      BY <1>1, <1>3, <2>3, ListHolds
  <2>5. loader' \in Loaders /\ loader'.cache = B
      BY <1>3, <2>1, <2>4 DEF Loaders
  <2>6. /\ call' \in [Calls -> CallStates]
        /\ call'[c].op = "create" /\ call'[c].session = s
        /\ \A b \in Calls \ {c} : call'[b] = call[b]
      BY <2>1 DEF ConsoleType, CallStates
  <2>7. ConsoleType'
      BY <1>2, <1>3, <1>4, <2>1, <2>4, <2>5, <2>6 DEF ConsoleType
  <2>8. Kept' = K
      BY <1>2, <1>5, <2>2, <2>6 DEF Kept, Creates
  <2>9. KeptListed'
      BY <2>1, <2>3, <2>4, <2>5, <2>8 DEF KeptListed
  <2>10. \A b \in Calls \ {c} : Creates(b) => call[b].session \in Kept
      BY DEF ConsoleType, Kept, Creates
  <2>11. CreatedOnce'
      BY <1>2, <1>5, <2>6, <2>10 DEF CreatedOnce, Creates, ConsoleType, Kept
  <2>12. QED BY <2>7, <2>9, <2>11
<1>7. CASE ~ Console!Lists(l, sess, ag)
  <2>1. targets' = targets /\ loader' = l /\ call' = [call EXCEPT ![c] = Console!Idle]
        /\ UNCHANGED <<session, agent>>
      BY <1>2, <1>7 DEF Console!RefreshTargets
  <2>2. call' = call
      BY <1>2, <2>1 DEF ConsoleType
  <2>3. Kept' = Kept /\ CreatedOnce'
      BY <1>2, <2>2, SameCalls
  <2>4. ConsoleType'
      BY <1>2, <1>3, <2>1, <2>2 DEF ConsoleType
  <2>5. KeptListed'
      BY <1>2, <1>3, <2>1, <2>3 DEF KeptListed
  <2>6. QED BY <2>3, <2>4, <2>5
<1>8. QED BY <1>6, <1>7

LEMMA CreationEnds ==
    ASSUME ConsoleOK, NEW c \in Calls, NEW ok \in BOOLEAN, Console!CreateSessionEnds(c, ok)
    PROVE  ConsoleOK'
<1> USE DEF ConsoleOK
<1>1. PICK s : s = call[c].session
    OBVIOUS
<1>2. /\ Creates(c) /\ upc = TRUE /\ call' = [call EXCEPT ![c] = Console!Idle]
      /\ IF ok THEN created' = created \cup {s} /\ UNCHANGED <<session, agent>>
         ELSE /\ session' = [session EXCEPT ![s] = None]
              /\ agent' = [agent EXCEPT ![s] = None] /\ created' = created
      /\ UNCHANGED <<upc, prompts, packages, catalog, enabled, tools, loader, targets>>
    BY <1>1 DEF Console!CreateSessionEnds, Creates
<1>3. s \in Sessions /\ s \in Kept /\ s \notin created
    BY <1>1, <1>2 DEF ConsoleType, Kept, CreatedOnce, Creates
<1>4. call' \in [Calls -> CallStates] /\ call'[c] = Console!Idle
      /\ \A b \in Calls \ {c} : call'[b] = call[b]
  <2>1. Console!Idle \in CallStates
      BY DEF Console!Idle, CallStates
  <2>2. QED BY <1>2, <2>1 DEF ConsoleType
<1>5. call'[c].op = "idle"
    BY <1>4 DEF Console!Idle
<1>6. \A b \in Calls : call'[b].op = "create" =>
          b # c /\ Creates(b) /\ call'[b] = call[b] /\ call[b].session # s
    BY <1>1, <1>2, <1>4, <1>5 DEF CreatedOnce, Creates
<1>7. ConsoleType'
    BY <1>2, <1>3, <1>4, <1>6 DEF ConsoleType, Creates
<1>8. CreatedOnce'
    BY <1>2, <1>4, <1>6 DEF CreatedOnce, Creates
<1>9. Kept' \subseteq Kept /\ (~ ok => s \notin Kept')
    BY <1>2, <1>3, <1>6 DEF Kept, Creates
<1>10. KeptListed'
    BY <1>2, <1>3, <1>9 DEF KeptListed, Console!Listed, ConsoleType
<1>11. QED BY <1>7, <1>8, <1>10

LEMMA ConsoleStep ==
    ASSUME ConsoleOK, Console!Next \/ UNCHANGED consoleVars
    PROVE  ConsoleOK'
<1> USE DEF ConsoleOK
<1>1. CASE Console!CacheExpires \/ Console!StartPlugins \/ UNCHANGED consoleVars
           \/ (\E p \in Packages : Console!EditPackages(p))
           \/ (\E t \in Tools : Console!TogglePlugin(t))
  <2>1. /\ UNCHANGED <<upc, session, agent, prompts, catalog, targets, call, created>>
        /\ loader' = loader \/ loader' = [loader EXCEPT !.cache = None]
        /\ packages' = packages \/ \E p \in Packages :
              packages' = IF p \in packages THEN packages \ {p} ELSE Console!Installed(p)
        /\ enabled' \subseteq Tools /\ tools' \subseteq Tools
      BY <1>1 DEF Console!CacheExpires, Console!StartPlugins, Console!EditPackages,
                  Console!TogglePlugin, consoleVars, Console!files, ConsoleType
  <2>2. packages' \subseteq Packages
      BY <2>1 DEF ConsoleType, Console!Installed
  <2>3. loader' \in Loaders /\ (loader'.cache # None => loader' = loader)
      BY <2>1 DEF ConsoleType, Loaders
  <2>4. Kept' = Kept /\ CreatedOnce'
      BY <2>1, SameCalls
  <2>5. ConsoleType'
      BY <2>1, <2>2, <2>3 DEF ConsoleType
  <2>6. KeptListed'
      BY <2>1, <2>3, <2>4 DEF KeptListed
  <2>7. QED BY <2>4, <2>5, <2>6
<1>2. CASE Console!ListSessions
  <2>1. PICK L : L = Console!Listed(session, agent)
      OBVIOUS
  <2>2. loader' = [loader EXCEPT !.cache = L] /\ Kept \subseteq L /\ L \subseteq Sessions
        /\ UNCHANGED <<upc, session, agent, prompts, packages, catalog, enabled, tools,
                       targets, call, created>>
      BY <1>2, <2>1 DEF Console!ListSessions, Console!files, KeptListed, Console!Listed
  <2>3. loader' \in Loaders /\ loader'.cache = L
      BY <2>2 DEF ConsoleType, Loaders
  <2>4. Kept' = Kept /\ CreatedOnce'
      BY <2>2, SameCalls
  <2>5. ConsoleType' /\ KeptListed'
      BY <2>1, <2>2, <2>3, <2>4 DEF ConsoleType, KeptListed
  <2>6. QED BY <2>4, <2>5
<1>3. ASSUME NEW c \in Calls, NEW s \in Sessions, Console!CreateSession(c, s)
      PROVE  ConsoleOK'
    BY <1>3, CreatesSession
<1>4. ASSUME NEW c \in Calls, NEW ok \in BOOLEAN, Console!CreateSessionEnds(c, ok)
      PROVE  ConsoleOK'
    BY <1>4, CreationEnds
<1>5. ASSUME NEW s \in Sessions, Console!CreateSessionDies(s) PROVE ConsoleOK'
  <2>1. /\ session' = [session EXCEPT ![s] = "parses"] /\ prompts' = prompts \cup {DefaultPrompt}
        /\ Console!Down /\ UNCHANGED <<agent, packages, enabled, created>>
      BY <1>5 DEF Console!CreateSessionDies
  <2>2. session' \in [Sessions -> {None, "parses", "broken"}] /\ prompts' \subseteq Prompts
        /\ \A t \in Sessions : session[t] # None => session'[t] # None
      BY <2>1, ServicesAssumption DEF ConsoleType
  <2>3. QED BY <2>1, <2>2, GoesDown
<1>6. CASE Console!Stop
  <2>1. Console!Down /\ UNCHANGED <<session, agent, prompts, packages, enabled, created>>
      BY <1>6 DEF Console!Stop, Console!files
  <2>2. QED BY <2>1, GoesDown DEF ConsoleType
<1>7. ASSUME NEW s \in Sessions, NEW text \in {"parses", "broken"}, NEW a \in Console!References,
             Console!UpdateSession(s, text) \/ Console!UpdateSessionAgent(s, a)
      PROVE  ConsoleOK'
  <2>1. /\ loader' = Console!Fresh(prompts, catalog, tools)
        /\ session' = session \/ session' = [session EXCEPT ![s] = text]
        /\ agent' = agent \/ agent' = [agent EXCEPT ![s] = a]
        /\ UNCHANGED <<upc, prompts, packages, catalog, enabled, tools, targets, call, created>>
      BY <1>7 DEF Console!UpdateSession, Console!UpdateSessionAgent
  <2>2. loader' \in Loaders /\ loader'.cache = None
      BY <2>1, FreshLoader DEF ConsoleType
  <2>3. text # None /\ a # None
      BY ServicesAssumption
  <2>4. Kept' = Kept /\ CreatedOnce'
      BY <2>1, SameCalls
  <2>5. ConsoleType'
      BY <2>1, <2>2 DEF ConsoleType
  <2>6. KeptListed'
      BY <2>1, <2>2, <2>3, <2>4 DEF ConsoleType, KeptListed, Console!Listed
  <2>7. QED BY <2>4, <2>5, <2>6
<1>8. ASSUME NEW c \in Calls, NEW s \in Sessions, Console!RefreshSkills(c, s)
      PROVE  ConsoleOK'
  <2>1. PICK found, ag, l : /\ found = Console!Discover(packages)
                            /\ ag = [agent EXCEPT ![s].skills = Console!Names(found)]
                            /\ l = Console!Fresh(prompts, found, tools)
      OBVIOUS
  <2>2. /\ call[c] = Console!Idle /\ session[s] # None /\ agent[s] # None
        /\ catalog' = found /\ agent' = ag
        /\ Console!RefreshTargets(l, session, ag, c, "registry", s)
        /\ UNCHANGED <<upc, session, prompts, packages, enabled, tools, created>>
    <3>1. catalog' = found /\ agent' = ag
        BY <1>8, <2>1 DEF Console!RefreshSkills
    <3>2. Console!RefreshTargets(Console!Fresh(prompts, catalog', tools), session, agent', c, "registry", s)
        BY <1>8 DEF Console!RefreshSkills
    <3>3. Console!RefreshTargets(l, session, ag, c, "registry", s)
        BY <2>1, <3>1, <3>2
    <3>4. QED BY <1>8, <3>1, <3>3 DEF Console!RefreshSkills, Console!Free
  <2>3. found \subseteq Packages /\ Console!Names(found) \subseteq SkillNames
      BY <2>1 DEF ConsoleType, Console!Discover, Console!Names, SkillNames
  <2>4. ag \in [Sessions -> Console!References \cup {None}] /\ ag[s] # None
        /\ \A t \in Sessions \ {s} : ag[t] = agent[t]
    <3>1. agent[s] \in Console!References
        BY <2>2 DEF ConsoleType
    <3>2. PICK r : r = [agent[s] EXCEPT !.skills = Console!Names(found)]
        OBVIOUS
    <3>3. r \in Console!References
        BY <2>3, <3>1, <3>2 DEF Console!References, SkillNames
    <3>4. ag = [agent EXCEPT ![s] = r]
        BY <2>1, <3>2
    <3>5. QED BY <3>3, <3>4, ServicesAssumption DEF ConsoleType
  <2>5. l \in Loaders /\ l.cache = None
      BY <2>1, <2>3, FreshLoader DEF ConsoleType
  <2>6. Kept \subseteq Console!Listed(session, ag)
      BY <2>4 DEF KeptListed, Console!Listed
  <2>7. ~ Creates(c)
      BY <2>2 DEF Creates, Console!Idle
  <2>8. /\ loader' \in Loaders /\ targets' \subseteq Sessions
        /\ call' \in [Calls -> CallStates]
        /\ \A b \in Calls : call'[b].op = "create" => call'[b].session \in Sessions
        /\ Kept' = Kept /\ CreatedOnce'
        /\ upc' = TRUE => Kept \subseteq targets'
        /\ loader'.cache # None => Kept \subseteq loader'.cache
      BY <2>2, <2>5, <2>6, <2>7, ListsAgain
  <2>9. ConsoleType'
      BY <2>2, <2>3, <2>4, <2>8 DEF ConsoleType
  <2>10. KeptListed'
      BY <2>2, <2>6, <2>8 DEF KeptListed
  <2>11. QED BY <2>8, <2>9, <2>10
<1>9. ASSUME NEW c \in Calls, NEW p \in Packages, Console!InstallSkill(c, p) PROVE ConsoleOK'
  <2>1. PICK found : found = Console!Discover(Console!Installed(p))
      OBVIOUS
  <2>2. /\ call[c] = Console!Idle /\ packages' = Console!Installed(p) /\ catalog' = found
        /\ UNCHANGED <<upc, session, prompts, enabled, tools, created>>
      BY <1>9, <2>1 DEF Console!InstallSkill, Console!Free
  <2>3. packages' \subseteq Packages /\ found \subseteq Packages
        /\ Console!Names(found) \subseteq SkillNames
      BY <2>1, <2>2 DEF ConsoleType, Console!Discover, Console!Installed, Console!Names, SkillNames
  <2>4. CASE UNCHANGED <<agent, loader, targets, call>>
    <3>1. Kept' = Kept /\ CreatedOnce'
        BY <2>2, <2>4, SameCalls
    <3>2. ConsoleType' /\ KeptListed'
        BY <2>2, <2>3, <2>4, <3>1 DEF ConsoleType, KeptListed
    <3>3. QED BY <3>1, <3>2
  <2>5. CASE Console!Lists(loader, session, agent)
    <3>1. PICK l, ag, B :
            /\ l = Console!Fresh(prompts, found, tools) /\ B = Console!Bundles(loader, session, agent)
            /\ ag = [s \in Sessions |-> IF s \in B /\ agent[s] # None
                                        THEN [agent[s] EXCEPT !.skills = Console!Names(found)]
                                        ELSE agent[s]]
        OBVIOUS
    <3>2. agent' = ag
        BY <1>9, <2>2, <2>5, <3>1 DEF Console!InstallSkill
    <3>3. Console!RefreshTargets(Console!Fresh(prompts, catalog', tools), session, agent', c,
                                 "registry", None)
        BY <1>9, <2>5 DEF Console!InstallSkill
    <3>4. Console!RefreshTargets(l, session, ag, c, "registry", None)
        BY <2>2, <3>1, <3>2, <3>3
    <3>5. ag \in [Sessions -> Console!References \cup {None}]
          /\ \A s \in Sessions : agent[s] # None => ag[s] # None
      <4>1. ASSUME NEW s \in Sessions, agent[s] # None
            PROVE  [agent[s] EXCEPT !.skills = Console!Names(found)] \in Console!References
        <5>1. agent[s] \in Console!References
            BY <4>1 DEF ConsoleType
        <5>2. QED BY <2>3, <5>1 DEF Console!References, SkillNames
      <4>2. \A s \in Sessions : agent[s] = None => ag[s] = agent[s]
          BY <3>1
      <4>3. \A s \in Sessions : agent[s] # None => ag[s] \in Console!References
          BY <3>1, <4>1 DEF ConsoleType
      <4>4. QED BY <3>1, <4>2, <4>3, ServicesAssumption
    <3>6. l \in Loaders /\ l.cache = None
        BY <2>3, <3>1, FreshLoader DEF ConsoleType
    <3>7. Kept \subseteq Console!Listed(session, ag)
        BY <3>5 DEF KeptListed, Console!Listed
    <3>8. ~ Creates(c)
        BY <2>2 DEF Creates, Console!Idle
    <3>9. /\ loader' \in Loaders /\ targets' \subseteq Sessions
          /\ call' \in [Calls -> CallStates]
          /\ \A b \in Calls : call'[b].op = "create" => call'[b].session \in Sessions
          /\ Kept' = Kept /\ CreatedOnce'
          /\ upc' = TRUE => Kept \subseteq targets'
          /\ loader'.cache # None => Kept \subseteq loader'.cache
        BY <2>2, <3>4, <3>6, <3>7, <3>8, ListsAgain
    <3>10. ConsoleType'
        BY <2>2, <2>3, <3>2, <3>5, <3>9 DEF ConsoleType
    <3>11. KeptListed'
        BY <2>2, <3>2, <3>7, <3>9 DEF KeptListed
    <3>12. QED BY <3>9, <3>10, <3>11
  <2>6. QED BY <1>9, <2>4, <2>5 DEF Console!InstallSkill
<1>10. ASSUME NEW c \in Calls, NEW p \in Prompts,
              Console!UpsertPrompt(c, p) \/ Console!DeletePrompt(c, p)
              \/ Console!ReloadRuntimeConfiguration(c)
       PROVE  ConsoleOK'
  <2>1. PICK refs \in SUBSET Prompts : call[c] = Console!Idle /\ Console!ReloadWith(c, refs)
      BY <1>10 DEF Console!UpsertPrompt, Console!DeletePrompt, Console!Free, ConsoleType,
                   Console!ReloadRuntimeConfiguration
  <2>2. PICK found : found = Console!Discover(packages)
      OBVIOUS
  <2>3. PICK r : r = [op |-> "plugins", session |-> None]
      OBVIOUS
  <2>4. /\ prompts' = refs /\ catalog' = found /\ loader' = Console!Fresh(refs, found, tools)
        /\ call' = [call EXCEPT ![c] = r]
        /\ UNCHANGED <<upc, session, agent, packages, enabled, tools, targets, created>>
      BY <2>1, <2>2, <2>3 DEF Console!ReloadWith
  <2>5. found \subseteq Packages
      BY <2>2 DEF ConsoleType, Console!Discover
  <2>6. loader' \in Loaders /\ loader'.cache = None
      BY <2>4, <2>5, FreshLoader DEF ConsoleType
  <2>7. r \in CallStates /\ r.op # "create" /\ ~ Creates(c)
      BY <2>1, <2>3 DEF CallStates, Creates, Console!Idle
  <2>8. /\ call' \in [Calls -> CallStates]
        /\ \A b \in Calls : call'[b].op = "create" => call'[b].session \in Sessions
        /\ Kept' = Kept /\ CreatedOnce'
      BY <2>4, <2>7, CallMoves
  <2>9. ConsoleType' /\ KeptListed'
      BY <2>4, <2>5, <2>6, <2>8 DEF ConsoleType, KeptListed
  <2>10. QED BY <2>8, <2>9
<1>11. ASSUME NEW c \in Calls, Console!PluginsReconciled(c) PROVE ConsoleOK'
  <2>1. /\ call[c].op = "plugins" /\ tools' = enabled
        /\ Console!RefreshTargets(loader, session, agent, c, "registry", None)
        /\ UNCHANGED <<upc, session, agent, prompts, packages, catalog, enabled, created>>
      BY <1>11 DEF Console!PluginsReconciled, Console!files
  <2>2. ~ Creates(c) /\ loader \in Loaders /\ Kept \subseteq Console!Listed(session, agent)
        /\ (loader.cache # None => Kept \subseteq loader.cache)
      BY <2>1 DEF Creates, ConsoleType, KeptListed
  <2>3. /\ loader' \in Loaders /\ targets' \subseteq Sessions
        /\ call' \in [Calls -> CallStates]
        /\ \A b \in Calls : call'[b].op = "create" => call'[b].session \in Sessions
        /\ Kept' = Kept /\ CreatedOnce'
        /\ upc' = TRUE => Kept \subseteq targets'
        /\ loader'.cache # None => Kept \subseteq loader'.cache
      BY <2>1, <2>2, ListsAgain
  <2>4. ConsoleType' /\ KeptListed'
      BY <2>1, <2>3 DEF ConsoleType, KeptListed
  <2>5. QED BY <2>3, <2>4
<1>12. ASSUME NEW c \in Calls, Console!RegistryReloaded(c) PROVE ConsoleOK'
  <2>1. /\ call[c].op = "registry" /\ call' = [call EXCEPT ![c] = Console!Idle]
        /\ UNCHANGED <<upc, session, agent, prompts, packages, catalog, enabled, tools, loader,
                       targets, created>>
      BY <1>12 DEF Console!RegistryReloaded, Console!files
  <2>2. Console!Idle \in CallStates /\ Console!Idle.op # "create" /\ ~ Creates(c)
      BY <2>1 DEF Console!Idle, CallStates, Creates
  <2>3. /\ call' \in [Calls -> CallStates]
        /\ \A b \in Calls : call'[b].op = "create" => call'[b].session \in Sessions
        /\ Kept' = Kept /\ CreatedOnce'
      BY <2>1, <2>2, CallMoves
  <2>4. ConsoleType' /\ KeptListed'
      BY <2>1, <2>3 DEF ConsoleType, KeptListed
  <2>5. QED BY <2>3, <2>4
<1>13. CASE Console!Boot
  <2>1. PICK found, l, L : /\ found = Console!Discover(packages)
                           /\ l = Console!Fresh(prompts, found, {})
                           /\ L = Console!Listed(session, agent)
      OBVIOUS
  <2>2. /\ upc = FALSE /\ upc' = TRUE /\ targets' = L /\ catalog' = found
        /\ loader' = [l EXCEPT !.cache = L]
        /\ UNCHANGED <<session, agent, prompts, packages, enabled, tools, call, created>>
      BY <1>13, <2>1 DEF Console!Boot, Console!files, ConsoleType
  <2>3. found \subseteq Packages /\ L \subseteq Sessions /\ Kept \subseteq L
      BY <2>1 DEF ConsoleType, KeptListed, Console!Discover, Console!Listed
  <2>4. l \in Loaders
      BY <2>1, <2>3, FreshLoader DEF ConsoleType
  <2>5. loader' \in Loaders /\ loader'.cache = L
      BY <2>2, <2>3, <2>4 DEF Loaders
  <2>6. ConsoleType'
      BY <2>2, <2>3, <2>5 DEF ConsoleType
  <2>7. Kept' = Kept
      BY <2>2 DEF Kept, Creates
  <2>8. KeptListed'
      BY <2>1, <2>2, <2>3, <2>5, <2>7 DEF KeptListed
  <2>9. CreatedOnce'
      BY <2>2 DEF CreatedOnce, Creates
  <2>10. QED BY <2>6, <2>8, <2>9
<1>14. QED
  <2>1. DefaultPrompt \in Prompts /\ Console!SeedAgent \in Console!References
      BY ServicesAssumption DEF Console!References, Console!SeedAgent
  <2>2. QED
      BY <1>1, <1>2, <1>3, <1>4, <1>5, <1>6, <1>7, <1>8, <1>9, <1>10, <1>11, <1>12, <1>13, <2>1
         DEF Console!Next

\* For all sessions, packages, tools and calls in flight, a session whose
\* creation was reported has its agent among the model targets while the bot
\* runs (create_session, _refresh_session_agent_targets, list_bundles).
THEOREM CreatedHasTargetTheorem == Spec => []CreatedHasTarget
<1> DEFINE Inv == part = "console" => ConsoleOK
<1>1. Init => Inv
    BY ConsoleInit DEF Init
<1>2. Inv /\ [Next]_vars => Inv'
    BY StepOfPart, ConsoleStep
<1>3. Inv => CreatedHasTarget
    BY DEF CreatedHasTarget, Console!CreatedHasTarget, ConsoleOK, ConsoleType, KeptListed, Kept
<1>4. QED BY <1>1, <1>2, <1>3, PTL DEF Spec

\* A session whose references a loader made anew knows loads, if its files are
\* as they were; else the bot has lost one of them.
LEMMA FreshKnows ==
    ASSUME NEW l, l.prompts = Console!PromptRefs(prompts'), l.skills = Console!Names(catalog'),
           l.tools = tools', NEW a
    PROVE  Console!KnownRefs(l, a) <=>
               Console!KnownRefs(Console!Fresh(prompts', catalog', tools'), a)
BY DEF Console!KnownRefs, Console!Fresh

\* After its list was made, or could not be, a loader serves what it did.
LEMMA LoaderServes ==
    ASSUME NEW l \in Loaders, NEW sess, NEW ag, NEW c, NEW o, NEW s,
           Console!RefreshTargets(l, sess, ag, c, o, s)
    PROVE  /\ loader'.prompts = l.prompts /\ loader'.skills = l.skills /\ loader'.tools = l.tools
<1>1. PICK B : B = Console!Bundles(l, sess, ag)
    OBVIOUS
<1>2. loader' = l \/ loader' = [l EXCEPT !.cache = B]
    BY <1>1 DEF Console!RefreshTargets
<1>3. QED BY <1>2 DEF Loaders

LEMMA LoadableStep ==
    ASSUME ConsoleOK, Console!Next \/ UNCHANGED consoleVars
    PROVE  Console!KeepsLoadable
<1> USE DEF ConsoleOK
<1> SUFFICES ASSUME NEW t \in Sessions, Console!Loadable(t), ~ Console!Loadable(t)',
                    upc' = TRUE, agent'[t] # None
             PROVE  ~ Console!KnownRefs(Console!Fresh(prompts', catalog', tools'), agent[t])
    BY ConsoleStep DEF Console!KeepsLoadable, ConsoleType
<1>1. agent[t] # None /\ session[t] = "parses" /\ Console!KnownRefs(loader, agent[t])
      /\ ~ (session'[t] = "parses" /\ Console!KnownRefs(loader', agent'[t]))
    BY DEF Console!Loadable, Console!Loads
<1>2. "parses" # None
    BY ServicesAssumption
\* A step that leaves the session's files and what the loader serves changes nothing.
<1>3. ASSUME agent'[t] = agent[t], session'[t] = session[t],
             loader'.prompts = loader.prompts, loader'.skills = loader.skills,
             loader'.tools = loader.tools
      PROVE  FALSE
    BY <1>1, <1>3 DEF Console!KnownRefs
\* A loader made anew that does not load the same files has lost a reference.
<1>4. ASSUME agent'[t] = agent[t], session'[t] = session[t],
             loader'.prompts = Console!PromptRefs(prompts'),
             loader'.skills = Console!Names(catalog'), loader'.tools = tools'
      PROVE  ~ Console!KnownRefs(Console!Fresh(prompts', catalog', tools'), agent[t])
  <2>1. ~ Console!KnownRefs(loader', agent[t])
      BY <1>1, <1>4
  <2>2. QED BY <1>4, <2>1, FreshKnows
<1>5. CASE \/ Console!StartPlugins \/ UNCHANGED consoleVars
           \/ \E p \in Packages : Console!EditPackages(p)
           \/ \E p \in Tools : Console!TogglePlugin(p)
           \/ \E c \in Calls : Console!RegistryReloaded(c)
    BY <1>3, <1>5 DEF Console!StartPlugins, consoleVars, Console!EditPackages,
                      Console!TogglePlugin, Console!RegistryReloaded, Console!files
<1>6. CASE Console!ListSessions \/ Console!CacheExpires
  <2>1. PICK L : loader' = [loader EXCEPT !.cache = L]
      BY <1>6 DEF Console!ListSessions, Console!CacheExpires
  <2>2. session' = session /\ agent' = agent /\ loader \in Loaders
      BY <1>6 DEF Console!ListSessions, Console!CacheExpires, Console!files, ConsoleType
  <2>3. QED BY <1>3, <2>1, <2>2 DEF Loaders
<1>7. ASSUME NEW c \in Calls, Console!PluginsReconciled(c) PROVE FALSE
  <2>1. Console!RefreshTargets(loader, session, agent, c, "registry", None)
        /\ session' = session /\ agent' = agent /\ loader \in Loaders
      BY <1>7 DEF Console!PluginsReconciled, Console!files, ConsoleType
  <2>2. QED BY <1>3, <2>1, LoaderServes
<1>8. ASSUME NEW c \in Calls, NEW p \in Prompts,
             Console!UpsertPrompt(c, p) \/ Console!DeletePrompt(c, p)
             \/ Console!ReloadRuntimeConfiguration(c)
      PROVE  ~ Console!KnownRefs(Console!Fresh(prompts', catalog', tools'), agent[t])
  <2>1. PICK refs : Console!ReloadWith(c, refs)
      BY <1>8 DEF Console!UpsertPrompt, Console!DeletePrompt, Console!ReloadRuntimeConfiguration
  <2>2. loader' = Console!Fresh(prompts', catalog', tools') /\ session' = session /\ agent' = agent
      BY <2>1 DEF Console!ReloadWith
  <2>3. QED BY <1>4, <2>2 DEF Console!Fresh
<1>9. ASSUME NEW c \in Calls, NEW s \in Sessions, Console!CreateSession(c, s)
      PROVE  ~ Console!KnownRefs(Console!Fresh(prompts', catalog', tools'), agent[t])
  <2>1. PICK l, sess, ag : /\ l = Console!Fresh(prompts', catalog, tools)
                           /\ sess = [session EXCEPT ![s] = "parses"]
                           /\ ag = [agent EXCEPT ![s] = Console!SeedAgent]
      OBVIOUS
  <2>2. /\ session[s] = None /\ prompts' = prompts \cup {DefaultPrompt}
        /\ Console!RefreshTargets(l, sess, ag, c, "create", s)
        /\ session' = session \/ session' = sess
        /\ agent' = agent \/ agent' = ag
        /\ UNCHANGED <<catalog, tools>>
      BY <1>9, <2>1 DEF Console!CreateSession
  <2>3. s # t
      BY <1>1, <1>2, <2>2
  <2>4. session'[t] = session[t] /\ agent'[t] = agent[t]
      BY <2>1, <2>2, <2>3 DEF ConsoleType
  <2>5. l \in Loaders
    <3>1. prompts' \subseteq Prompts
        BY <2>2, ServicesAssumption DEF ConsoleType
    <3>2. QED BY <2>1, <3>1, FreshLoader DEF ConsoleType
  <2>6. loader'.prompts = l.prompts /\ loader'.skills = l.skills /\ loader'.tools = l.tools
      BY <2>2, <2>5, LoaderServes
  <2>7. QED BY <1>4, <2>1, <2>2, <2>4, <2>6 DEF Console!Fresh
<1>10. ASSUME NEW c \in Calls, NEW ok \in BOOLEAN, Console!CreateSessionEnds(c, ok)
       PROVE  FALSE
  <2>1. PICK s : s = call[c].session
      OBVIOUS
  <2>2. loader' = loader /\ \/ session' = session /\ agent' = agent
                            \/ /\ session' = [session EXCEPT ![s] = None]
                               /\ agent' = [agent EXCEPT ![s] = None]
      BY <1>10, <2>1 DEF Console!CreateSessionEnds
  <2>3. session'[t] = session[t] /\ agent'[t] = agent[t]
      BY <2>2 DEF ConsoleType
  <2>4. QED BY <1>3, <2>2, <2>3
<1>11. ASSUME NEW s \in Sessions, NEW text \in {"parses", "broken"}, Console!UpdateSession(s, text)
       PROVE  ~ Console!KnownRefs(Console!Fresh(prompts', catalog', tools'), agent[t])
  <2>1. PICK sess : sess = [session EXCEPT ![s] = text]
      OBVIOUS
  <2>2. /\ loader' = Console!Fresh(prompts', catalog', tools') /\ agent' = agent
        /\ session' = IF Console!Loads(loader', sess, agent, s) THEN sess ELSE session
      BY <1>11, <2>1 DEF Console!UpdateSession
  <2>3. session'[t] = session[t]
    <3>1. CASE session' = session
        BY <3>1
    <3>2. CASE session' = sess /\ Console!Loads(loader', sess, agent, s)
      <4>1. sess[s] = "parses"
          BY <3>2 DEF Console!Loads
      <4>2. QED BY <1>1, <2>1, <3>2, <4>1 DEF ConsoleType
    <3>3. QED BY <2>2, <3>1, <3>2
  <2>4. QED BY <1>4, <2>2, <2>3 DEF Console!Fresh
<1>12. ASSUME NEW s \in Sessions, NEW a \in Console!References, Console!UpdateSessionAgent(s, a)
       PROVE  ~ Console!KnownRefs(Console!Fresh(prompts', catalog', tools'), agent[t])
  <2>1. PICK ag : ag = [agent EXCEPT ![s] = a]
      OBVIOUS
  <2>2. /\ loader' = Console!Fresh(prompts', catalog', tools') /\ session' = session
        /\ agent' = IF Console!Loads(loader', session, ag, s) THEN ag ELSE agent
      BY <1>12, <2>1 DEF Console!UpdateSessionAgent
  <2>3. CASE agent'[t] = agent[t]
      BY <1>4, <2>2, <2>3 DEF Console!Fresh
  <2>4. CASE agent'[t] # agent[t]
    <3>1. agent' = ag /\ Console!Loads(loader', session, ag, s)
        BY <2>2, <2>4
    <3>2. s = t
        BY <2>1, <2>4, <3>1 DEF ConsoleType
    <3>3. QED BY <1>1, <2>2, <3>1, <3>2 DEF Console!Loads
  <2>5. QED BY <2>3, <2>4
<1>13. ASSUME NEW c \in Calls, NEW s \in Sessions, Console!RefreshSkills(c, s)
       PROVE  ~ Console!KnownRefs(Console!Fresh(prompts', catalog', tools'), agent[t])
  <2>1. PICK l, ag, found : /\ found = Console!Discover(packages)
                            /\ ag = [agent EXCEPT ![s].skills = Console!Names(found)]
                            /\ l = Console!Fresh(prompts, found, tools)
      OBVIOUS
  <2>2. catalog' = found /\ agent' = ag /\ UNCHANGED <<session, prompts, tools>>
      BY <1>13, <2>1 DEF Console!RefreshSkills
  <2>3. Console!RefreshTargets(Console!Fresh(prompts, catalog', tools), session, agent', c,
                               "registry", s)
      BY <1>13 DEF Console!RefreshSkills
  <2>4. Console!RefreshTargets(l, session, ag, c, "registry", s)
      BY <2>1, <2>2, <2>3
  <2>5. found \subseteq Packages
      BY <2>1 DEF ConsoleType, Console!Discover
  <2>6. l \in Loaders
      BY <2>1, <2>5, FreshLoader DEF ConsoleType
  <2>7. loader'.prompts = Console!PromptRefs(prompts') /\ loader'.skills = Console!Names(found)
        /\ loader'.tools = tools'
    <3>1. loader'.prompts = l.prompts /\ loader'.skills = l.skills /\ loader'.tools = l.tools
        BY <2>4, <2>6, LoaderServes
    <3>2. QED BY <2>1, <2>2, <3>1 DEF Console!Fresh
  <2>8. CASE s # t
    <3>1. agent'[t] = agent[t]
        BY <2>1, <2>2, <2>8 DEF ConsoleType
    <3>2. QED BY <1>4, <2>2, <2>7, <3>1
  <2>9. CASE s = t
    <3>1. agent[t] \in Console!References
        BY <1>1 DEF ConsoleType
    <3>2. agent'[t].prompt = agent[t].prompt /\ agent'[t].tools = agent[t].tools
          /\ agent'[t].skills = Console!Names(found)
        BY <2>1, <2>2, <2>9, <3>1 DEF ConsoleType, Console!References
    <3>3. ~ (agent[t].prompt \in loader'.prompts /\ agent[t].tools \subseteq loader'.tools)
        BY <1>1, <2>2, <2>7, <3>2 DEF Console!KnownRefs
    <3>4. QED BY <2>7, <3>3 DEF Console!KnownRefs, Console!Fresh
  <2>10. QED BY <2>8, <2>9
<1>14. ASSUME NEW c \in Calls, NEW p \in Packages, Console!InstallSkill(c, p)
       PROVE  ~ Console!KnownRefs(Console!Fresh(prompts', catalog', tools'), agent[t])
  <2>1. UNCHANGED <<session, prompts, tools>>
      BY <1>14 DEF Console!InstallSkill
  <2>2. CASE UNCHANGED <<agent, loader, targets, call>>
      BY <1>3, <2>1, <2>2
  <2>3. CASE Console!Lists(loader, session, agent)
    <3>1. PICK found, B, ag, l :
            /\ found = Console!Discover(Console!Installed(p))
            /\ B = Console!Bundles(loader, session, agent)
            /\ ag = [s \in Sessions |-> IF s \in B /\ agent[s] # None
                                        THEN [agent[s] EXCEPT !.skills = Console!Names(found)]
                                        ELSE agent[s]]
            /\ l = Console!Fresh(prompts, found, tools)
        OBVIOUS
    <3>2. catalog' = found
        BY <1>14, <3>1 DEF Console!InstallSkill
    <3>3. agent' = ag
        BY <1>14, <2>3, <3>1, <3>2 DEF Console!InstallSkill
    <3>4. Console!RefreshTargets(Console!Fresh(prompts, catalog', tools), session, agent', c,
                                 "registry", None)
        BY <1>14, <2>3 DEF Console!InstallSkill
    <3>5. Console!RefreshTargets(l, session, ag, c, "registry", None)
        BY <3>1, <3>2, <3>3, <3>4
    <3>6. found \subseteq Packages
        BY <3>1 DEF ConsoleType, Console!Discover, Console!Installed
    <3>7. l \in Loaders
        BY <3>1, <3>6, FreshLoader DEF ConsoleType
    <3>8. loader'.prompts = Console!PromptRefs(prompts') /\ loader'.skills = Console!Names(found)
          /\ loader'.tools = tools'
      <4>1. loader'.prompts = l.prompts /\ loader'.skills = l.skills /\ loader'.tools = l.tools
          BY <3>5, <3>7, LoaderServes
      <4>2. QED BY <2>1, <3>1, <4>1 DEF Console!Fresh
    <3>9. CASE agent'[t] = agent[t]
        BY <1>4, <2>1, <3>2, <3>8, <3>9
    <3>10. CASE agent'[t] # agent[t]
      <4>1. agent[t] \in Console!References
          BY <1>1 DEF ConsoleType
      <4>2. agent'[t] = [agent[t] EXCEPT !.skills = Console!Names(found)]
          BY <3>1, <3>3, <3>10
      <4>3. agent'[t].prompt = agent[t].prompt /\ agent'[t].tools = agent[t].tools
            /\ agent'[t].skills = Console!Names(found)
          BY <4>1, <4>2 DEF Console!References
      <4>4. ~ (agent[t].prompt \in loader'.prompts /\ agent[t].tools \subseteq loader'.tools)
          BY <1>1, <2>1, <3>8, <4>3 DEF Console!KnownRefs
      <4>5. QED BY <3>8, <4>4 DEF Console!KnownRefs, Console!Fresh
    <3>11. QED BY <3>9, <3>10
  <2>4. QED BY <1>14, <2>2, <2>3 DEF Console!InstallSkill
<1>15. CASE Console!Boot
  <2>1. PICK found, l : found = Console!Discover(packages)
                        /\ l = Console!Fresh(prompts, found, {})
      OBVIOUS
  <2>2. PICK L : /\ Console!Lists(l, session, agent) /\ loader' = [l EXCEPT !.cache = L]
                 /\ UNCHANGED <<session, agent>>
      BY <1>15, <2>1 DEF Console!Boot, Console!files
  <2>3. found \subseteq Packages
      BY <2>1 DEF ConsoleType, Console!Discover
  <2>4. l \in Loaders /\ l.cache = None
      BY <2>1, <2>3, FreshLoader DEF ConsoleType
  <2>5. Console!KnownRefs(l, agent[t])
      BY <1>1, <1>2, <2>2, <2>4 DEF Console!Lists, Console!Listed, Console!Loads
  <2>6. loader'.prompts = l.prompts /\ loader'.skills = l.skills /\ loader'.tools = l.tools
      BY <2>2, <2>4 DEF Loaders
  <2>7. QED BY <1>1, <2>2, <2>5, <2>6 DEF Console!KnownRefs
<1>16. CASE Console!Stop \/ \E s \in Sessions : Console!CreateSessionDies(s)
    BY <1>16 DEF Console!Stop, Console!CreateSessionDies, Console!Down
<1>17. QED
  <2>1. DefaultPrompt \in Prompts
      BY ServicesAssumption
  <2>2. QED
      BY <1>5, <1>6, <1>7, <1>8, <1>9, <1>10, <1>11, <1>12, <1>13, <1>14, <1>15, <1>16, <2>1
         DEF Console!Next

\* For all sessions, packages, tools and calls in flight, no call makes a
\* session unusable by what it writes (the write-back of update_session and
\* update_session_agent, _rewrite_all_session_agent_visible_skills).
THEOREM LoadableStaysTheorem == Spec => LoadableStays
<1> DEFINE Inv == part = "console" => ConsoleOK
<1>1. Init => Inv
    BY ConsoleInit DEF Init
<1>2. Inv /\ [Next]_vars => Inv'
    BY StepOfPart, ConsoleStep
<1>3. Inv /\ [Next]_vars => [part = "console" => Console!KeepsLoadable]_vars
    BY StepOfPart, LoadableStep
<1>4. QED BY <1>1, <1>2, <1>3, PTL DEF Spec, LoadableStays

-----------------------------------------------------------------------------
(* The notes.  What is on disk is what the operator saved last and what was *)
(* reported since, unless a process died; an entity without a note has      *)
(* nothing to keep.                                                         *)

Records == [readonly : Texts \cup {None}, editable : Seq(Lines)]

NoteType ==
    /\ note \in [Entities -> Records \cup {None}]
    /\ intent \in [Entities -> Texts \cup {None}]
    /\ owed \in [Entities -> SUBSET Lines]
    /\ overwritten \in [Entities -> SUBSET Lines]
    /\ torn \subseteq Entities
    /\ \/ draft = Note!NoDraft
       \/ \E e \in Entities, r \in Records : draft = [entity |-> e, record |-> r]

\* What is owed to a note is in its record or was overwritten.
AsSaved(e) ==
    /\ note[e] = None => intent[e] = None /\ owed[e] = {} /\ e \notin torn
    /\ note[e] # None /\ e \notin torn =>
          /\ note[e].readonly = intent[e]
          /\ owed[e] \subseteq Note!ToSet(note[e].editable) \cup overwritten[e]

NoteOK == NoteType /\ \A e \in Entities : AsSaved(e)

\* What a step leaves of the other entities.
Others(e) ==
    \A d \in Entities \ {e} :
        /\ intent'[d] = intent[d] /\ owed'[d] = owed[d] /\ overwritten'[d] = overwritten[d]
        /\ d \in torn' <=> d \in torn

\* One note is saved: what is known of it fits, the others are as they were.
LEMMA SavesNote ==
    ASSUME NoteOK, NEW e \in Entities, NEW r, r \in Records \cup {None}, Note!SaveRecord(e, r),
           Others(e),
           intent' \in [Entities -> Texts \cup {None}], owed' \in [Entities -> SUBSET Lines],
           overwritten' \in [Entities -> SUBSET Lines], torn' \subseteq Entities,
           draft' = draft \/ draft' = Note!NoDraft,
           r = None => intent'[e] = None /\ owed'[e] = {} /\ e \notin torn',
           r # None /\ e \notin torn' =>
              r.readonly = intent'[e] /\ owed'[e] \subseteq Note!ToSet(r.editable) \cup overwritten'[e]
    PROVE  NoteOK'
<1> USE DEF NoteOK
<1>1. note' = [note EXCEPT ![e] = r]
    BY DEF Note!SaveRecord
<1>2. NoteType'
    BY <1>1 DEF NoteType
<1>3. ASSUME NEW d \in Entities PROVE AsSaved(d)'
  <2>1. CASE d = e
    <3>1. note'[e] = r
        BY <1>1 DEF NoteType
    <3>2. QED BY <2>1, <3>1 DEF AsSaved
  <2>2. CASE d # e
    <3>1. /\ note'[d] = note[d] /\ intent'[d] = intent[d] /\ owed'[d] = owed[d]
          /\ overwritten'[d] = overwritten[d] /\ (d \in torn' <=> d \in torn)
        BY <1>1, <2>2 DEF NoteType, Others
    <3>2. QED BY <3>1 DEF AsSaved
  <2>3. QED BY <2>1, <2>2
<1>4. QED BY <1>2, <1>3

\* The lines of a note that is there stay when lines come after them.
LEMMA Appended ==
    ASSUME NEW s \in Seq(Lines), NEW line \in Lines
    PROVE  /\ Append(s, line) \in Seq(Lines)
           /\ Note!ToSet(Append(s, line)) = Note!ToSet(s) \cup {line}
           /\ Note!ToSet(s) \subseteq Lines
<1>1. /\ Append(s, line) \in Seq(Lines) /\ DOMAIN Append(s, line) = DOMAIN s \cup {Len(s) + 1}
      /\ Append(s, line)[Len(s) + 1] = line
      /\ \A i \in DOMAIN s : Append(s, line)[i] = s[i] /\ s[i] \in Lines
    OBVIOUS
<1>2. QED BY <1>1 DEF Note!ToSet

\* A note as it is read is a record with what is owed to it.
LEMMA Reads ==
    ASSUME NoteOK, NEW e \in Entities
    PROVE  /\ Note!LoadRecord(e) \in Records
           /\ e \notin torn =>
                 /\ Note!LoadRecord(e).readonly = intent[e]
                 /\ owed[e] \subseteq Note!ToSet(Note!LoadRecord(e).editable) \cup overwritten[e]
<1>1. <<>> \in Seq(Lines)
    OBVIOUS
<1>2. CASE note[e] = None
    BY <1>1, <1>2 DEF NoteOK, NoteType, AsSaved, Records, Note!LoadRecord, Note!Empty
<1>3. CASE note[e] # None
    BY <1>3 DEF NoteOK, NoteType, AsSaved, Note!LoadRecord
<1>4. QED BY <1>2, <1>3

\* ... and so is one with a line more.
LEMMA AppendReads ==
    ASSUME NoteOK, NEW e \in Entities, NEW line \in Lines
    PROVE  /\ Note!AppendEditableText(e, line) \in Records
           /\ e \notin torn =>
                 /\ Note!AppendEditableText(e, line).readonly = intent[e]
                 /\ owed[e] \cup {line} \subseteq
                        Note!ToSet(Note!AppendEditableText(e, line).editable)
                            \cup overwritten[e]
<1>1. PICK r \in Records :
         /\ r = Note!LoadRecord(e)
         /\ e \notin torn => /\ r.readonly = intent[e]
                             /\ owed[e] \subseteq Note!ToSet(r.editable) \cup overwritten[e]
    BY Reads
<1>2. r.readonly \in Texts \cup {None} /\ r.editable \in Seq(Lines)
    BY DEF Records
<1>3. /\ Append(r.editable, line) \in Seq(Lines)
      /\ Note!ToSet(Append(r.editable, line)) = Note!ToSet(r.editable) \cup {line}
    BY <1>2, Appended
<1>4. /\ Note!AppendEditableText(e, line) = [r EXCEPT !.editable = Append(r.editable, line)]
    BY <1>1 DEF Note!AppendEditableText
<1>5. /\ Note!AppendEditableText(e, line) \in Records
      /\ Note!AppendEditableText(e, line).readonly = r.readonly
      /\ Note!AppendEditableText(e, line).editable = Append(r.editable, line)
    BY <1>2, <1>3, <1>4 DEF Records
<1>6. QED BY <1>1, <1>3, <1>5

LEMMA NoteInit == Note!Init => NoteOK
BY DEF Note!Init, NoteOK, NoteType, AsSaved

\* What the operator makes of the note on show is a record, the note that of an
\* entity.
LEMMA Edited ==
    ASSUME NoteOK, NEW r \in Note!Edits
    PROVE  /\ r \in Records /\ draft.entity \in Entities
           /\ draft.record.editable \in Seq(Lines)
<1>1. draft # Note!NoDraft /\ r \in [readonly : Texts, editable : {draft.record.editable, <<>>}]
    BY DEF Note!Edits
<1>2. PICK e \in Entities, s \in Records : draft = [entity |-> e, record |-> s]
    BY <1>1 DEF NoteOK, NoteType
<1>3. draft.entity = e /\ draft.record.editable \in Seq(Lines) /\ <<>> \in Seq(Lines)
    BY <1>2 DEF Records
<1>4. QED BY <1>1, <1>3 DEF Records

\* A process that dies leaves a record that is torn.
LEMMA Torn ==
    ASSUME NoteOK, NEW e \in Entities, NEW r \in Records, Note!DieInSave(e, r)
    PROVE  NoteOK'
<1>1. PICK old \in Records : old = Note!LoadRecord(e)
    BY Reads
<1>2. PICK left \in {[old EXCEPT !.readonly = None], [old EXCEPT !.readonly = r.readonly],
                     [r EXCEPT !.editable = <<>>]} : Note!SaveRecord(e, left)
    BY <1>1 DEF Note!DieInSave
<1>3. left \in Records
  <2>1. <<>> \in Seq(Lines)
      OBVIOUS
  <2>2. QED BY <1>2, <2>1 DEF Records
<1>4. left # None
    BY <1>3, ServicesAssumption DEF Records
<1>5. /\ intent' = [intent EXCEPT ![e] = intent[e]] /\ owed' = [owed EXCEPT ![e] = owed[e]]
      /\ overwritten' = [overwritten EXCEPT ![e] = overwritten[e]]
      /\ intent[e] \in Texts \cup {None} /\ owed[e] \subseteq Lines /\ overwritten[e] \subseteq Lines
      /\ torn \cup {e} \subseteq Entities /\ torn' = torn \cup {e}
      /\ draft' = Note!NoDraft
    BY DEF Note!DieInSave, NoteOK, NoteType
<1>6. /\ Others(e) /\ e \in torn' /\ intent' \in [Entities -> Texts \cup {None}]
      /\ owed' \in [Entities -> SUBSET Lines] /\ overwritten' \in [Entities -> SUBSET Lines]
      /\ torn' \subseteq Entities
    BY <1>5 DEF NoteOK, NoteType, Others
<1>7. QED BY <1>2, <1>3, <1>4, <1>5, <1>6, SavesNote

\* Every step keeps the notes.
LEMMA NoteStep ==
    ASSUME NoteOK, Note!Next \/ UNCHANGED noteVars
    PROVE  NoteOK'
<1> USE DEF NoteOK
<1>1. CASE \/ UNCHANGED noteVars
           \/ \E e \in Entities, line \in Lines : Note!RefuseNote(e, line)
           \/ \E f \in Files, text \in {<<>>, <<None>>} :
                 Note!WriteFile(f, text) \/ Note!CreateFile(f, text)
  <2>1. UNCHANGED <<note, draft, intent, owed, overwritten, torn>>
      BY <1>1 DEF noteVars, Note!noted, Note!RefuseNote, Note!WriteFile, Note!CreateFile
  <2>2. QED BY <2>1 DEF NoteType, AsSaved
<1>2. ASSUME NEW e \in Entities, NEW line \in Lines, Note!AppendNote(e, line) PROVE NoteOK'
  <2>1. PICK r \in Records :
          /\ r = Note!AppendEditableText(e, line)
          /\ e \notin torn =>
                /\ r.readonly = intent[e]
                /\ owed[e] \cup {line} \subseteq Note!ToSet(r.editable) \cup overwritten[e]
      BY AppendReads
  <2>2. r # None
      BY ServicesAssumption DEF Records
  <2>3. /\ Note!SaveRecord(e, r) /\ owed' = [owed EXCEPT ![e] = owed[e] \cup {line}]
        /\ intent' = [intent EXCEPT ![e] = intent[e]]
        /\ overwritten' = [overwritten EXCEPT ![e] = overwritten[e]]
        /\ torn' = torn /\ draft' = draft
      BY <1>2, <2>1 DEF Note!AppendNote, Note!Reported, NoteType
  <2>4. /\ intent[e] \in Texts \cup {None} /\ owed[e] \cup {line} \subseteq Lines
        /\ overwritten[e] \subseteq Lines /\ torn \subseteq Entities
      BY DEF NoteType
  <2>5. /\ Others(e) /\ intent'[e] = intent[e] /\ owed'[e] = owed[e] \cup {line}
        /\ overwritten'[e] = overwritten[e]
        /\ intent' \in [Entities -> Texts \cup {None}] /\ owed' \in [Entities -> SUBSET Lines]
        /\ overwritten' \in [Entities -> SUBSET Lines] /\ torn' \subseteq Entities
      BY <2>3, <2>4 DEF NoteType, Others
  <2>6. QED BY <2>1, <2>2, <2>3, <2>5, SavesNote
<1>3. ASSUME NEW e \in Entities, NEW line \in Lines, Note!DieInAppend(e, line) PROVE NoteOK'
    BY <1>3, AppendReads, Torn DEF Note!DieInAppend
<1>4. ASSUME NEW r \in Note!Edits, Note!DieInSaveDraft(r) PROVE NoteOK'
    BY <1>4, Edited, Torn DEF Note!DieInSaveDraft
<1>5. ASSUME NEW e \in Entities, Note!CreateRecord(e) PROVE NoteOK'
  <2>1. Note!Empty \in Records /\ Note!Empty.readonly = None
    <3>1. <<>> \in Seq(Lines)
        OBVIOUS
    <3>2. QED BY <3>1 DEF Note!Empty, Records
  <2>2. Note!Empty # None
      BY <2>1, ServicesAssumption DEF Records
  <2>3. intent[e] = None /\ owed[e] = {} /\ overwritten[e] \subseteq Lines /\ torn \subseteq Entities
      BY <1>5 DEF Note!CreateRecord, NoteType, AsSaved
  <2>4. /\ Note!SaveRecord(e, Note!Empty)
        /\ intent' = [intent EXCEPT ![e] = None] /\ owed' = [owed EXCEPT ![e] = {}]
        /\ overwritten' = [overwritten EXCEPT ![e] = overwritten[e]]
        /\ torn' = torn /\ draft' = draft
      BY <1>5, <2>3 DEF Note!CreateRecord, Note!noted, NoteType
  <2>5. /\ Others(e) /\ intent'[e] = None /\ owed'[e] = {}
        /\ overwritten'[e] = overwritten[e]
        /\ intent' \in [Entities -> Texts \cup {None}] /\ owed' \in [Entities -> SUBSET Lines]
        /\ overwritten' \in [Entities -> SUBSET Lines] /\ torn' \subseteq Entities
      BY <2>3, <2>4 DEF NoteType, Others
  <2>6. QED BY <2>1, <2>2, <2>3, <2>4, <2>5, SavesNote
<1>6. ASSUME NEW e \in Entities, Note!OpenNote(e) PROVE NoteOK'
  <2>1. note[e] \in Records /\ draft' = [entity |-> e, record |-> note[e]]
        /\ UNCHANGED <<note, intent, owed, overwritten, torn>>
      BY <1>6 DEF Note!OpenNote, Note!noted, NoteType
  <2>2. NoteType'
      BY <2>1 DEF NoteType
  <2>3. QED BY <2>1, <2>2 DEF AsSaved
<1>7. ASSUME NEW e \in Entities, Note!DeleteRecord(e) PROVE NoteOK'
  <2>1. /\ Note!SaveRecord(e, None) /\ intent' = [intent EXCEPT ![e] = None]
        /\ owed' = [owed EXCEPT ![e] = {}] /\ overwritten' = [overwritten EXCEPT ![e] = {}]
        /\ torn' = torn \ {e} /\ torn \ {e} \subseteq Entities /\ draft' = draft
      BY <1>7 DEF Note!DeleteRecord, NoteType
  <2>2. /\ Others(e) /\ intent'[e] = None /\ owed'[e] = {}
        /\ overwritten'[e] = {}
        /\ intent' \in [Entities -> Texts \cup {None}] /\ owed' \in [Entities -> SUBSET Lines]
        /\ overwritten' \in [Entities -> SUBSET Lines] /\ torn' \subseteq Entities
      BY <2>1 DEF NoteType, Others
  <2>3. QED BY <2>1, <2>2, SavesNote
<1>8. ASSUME NEW r \in Note!Edits, Note!SaveDraft(r) PROVE NoteOK'
  <2> DEFINE unseen == owed[draft.entity] \ Note!ToSet(draft.record.editable)
  <2>1. PICK e \in Entities : e = draft.entity
      BY Edited
  <2>2. r \in Records /\ r # None /\ r.readonly \in Texts \cup {None}
      BY Edited, ServicesAssumption DEF Records
  <2>3. Note!ToSet(r.editable) \subseteq Lines
    <3>1. r.editable \in Seq(Lines)
        BY <2>2 DEF Records
    <3>2. QED BY <3>1 DEF Note!ToSet
  <2>4. /\ unseen \cup Note!ToSet(r.editable) \subseteq Lines
        /\ overwritten[e] \cup unseen \subseteq Lines /\ torn \ {e} \subseteq Entities
      BY <2>1, <2>3 DEF NoteType
  <2>5. /\ Note!SaveRecord(e, r) /\ intent' = [intent EXCEPT ![e] = r.readonly]
        /\ owed' = [owed EXCEPT ![e] = unseen \cup Note!ToSet(r.editable)]
        /\ overwritten' = [overwritten EXCEPT ![e] = overwritten[e] \cup unseen]
        /\ torn' = torn \ {e} /\ draft' = Note!NoDraft
      BY <1>8, <2>1 DEF Note!SaveDraft
  <2>6. unseen \cup Note!ToSet(r.editable)
            \subseteq Note!ToSet(r.editable) \cup (overwritten[e] \cup unseen)
      OBVIOUS
  <2> HIDE DEF unseen
  <2>7. /\ Others(e) /\ intent'[e] = r.readonly /\ owed'[e] = unseen \cup Note!ToSet(r.editable)
        /\ overwritten'[e] = overwritten[e] \cup unseen
        /\ intent' \in [Entities -> Texts \cup {None}] /\ owed' \in [Entities -> SUBSET Lines]
        /\ overwritten' \in [Entities -> SUBSET Lines] /\ torn' \subseteq Entities
      BY <2>2, <2>4, <2>5 DEF NoteType, Others
  <2>8. QED BY <2>2, <2>5, <2>6, <2>7, SavesNote
<1>9. QED
    BY <1>1, <1>2, <1>3, <1>4, <1>5, <1>6, <1>7, <1>8 DEF Note!Next

\* For all entities, texts and lines, what the operator saved in a note and what
\* the bot appended to it is there, but for a process that died writing and lines
\* that a save of the console replaced without having shown them
\* (append_editable_text, save_record).
THEOREM NotesKeptTheorem == Spec => []NotesKept
<1> DEFINE Inv == part = "note" => NoteOK
<1>1. Init => Inv
    BY NoteInit DEF Init
<1>2. Inv /\ [Next]_vars => Inv'
    BY StepOfPart, NoteStep
<1>3. Inv => NotesKept
    BY DEF NoteOK, AsSaved, NotesKept, Note!KeepsNotes
<1>4. QED BY <1>1, <1>2, <1>3, PTL DEF Spec

-----------------------------------------------------------------------------
(* The memory entries.  The table has one row for an entry, and no call     *)
(* moves the time of a row back.                                            *)

\* A set of natural numbers that is not empty has a least one.
LEMMA LeastOf ==
    ASSUME NEW T \in SUBSET Nat, T # {}
    PROVE  \E m \in T : \A k \in T : m <= k
<1>1. IsWellFoundedOn({p \in Nat \X Nat : p[1] < p[2]}, Nat)
    BY NatLessThanWellFounded DEF OpToRel
<1>2. PICK m \in T : \A k \in T : ~ (<<k, m>> \in {p \in Nat \X Nat : p[1] < p[2]})
    BY <1>1, WFMin
<1>3. m \in Nat
    OBVIOUS
<1>4. ASSUME NEW k \in T PROVE m <= k
  <2>1. k \in Nat /\ <<k, m>> \in Nat \X Nat
      BY <1>3
  <2>2. <<k, m>> \in {p \in Nat \X Nat : p[1] < p[2]} <=> k < m
      BY <2>1
  <2>3. ~ (k < m)
      BY <1>2, <2>2
  <2>4. QED BY <1>3, <2>1, <2>3
<1>5. QED BY <1>4

\* The table's module counts as this one does.
LEMMA SameCardinality == \A S : Store!Cardinality(S) = Cardinality(S)
BY DEF Store!Cardinality, Cardinality

\* Of the numbers up to n that were chosen there is a k-th one.
LEMMA NthExists ==
    ASSUME NEW n \in Nat, NEW P \in SUBSET (1..n), NEW k \in 1..Cardinality(P)
    PROVE  /\ Store!Nth(P, k) \in P
           /\ Cardinality(P \cap 1..Store!Nth(P, k)) = k
<1>1. \A i \in Nat : IsFiniteSet(P \cap 1..i) /\ Cardinality(P \cap 1..i) \in Nat
  <2>1. TAKE i \in Nat
  <2>2. IsFiniteSet(1..i)
      BY FS_Interval
  <2>3. IsFiniteSet(P \cap 1..i)
      BY <2>2, FS_Subset
  <2>4. QED BY <2>3, FS_CardinalityType
<1>2. PICK T : T = {i \in 1..n : Cardinality(P \cap 1..i) >= k}
    OBVIOUS
<1>3. P \cap 1..n = P
    OBVIOUS
<1>4. Cardinality(P) \in Nat /\ k \in Nat /\ k >= 1 /\ k <= Cardinality(P)
    BY <1>1, <1>3
<1>5. n >= 1
  <2>1. CASE n = 0
    <3>1. P = {}
        BY <2>1
    <3>2. QED BY <1>4, <3>1, FS_EmptySet
  <2>2. QED BY <2>1
<1>6. n \in T
    BY <1>2, <1>3, <1>4, <1>5
<1>7. PICK m \in T : \A i \in T : m <= i
  <2>1. T \in SUBSET Nat
      BY <1>2
  <2>2. QED BY <1>6, <2>1, LeastOf
<1>8. m \in 1..n /\ Cardinality(P \cap 1..m) >= k
    BY <1>2
<1>9. Cardinality(P \cap 1..(m - 1)) < k
  <2>1. CASE m = 1
    <3>1. P \cap 1..(m - 1) = {}
        BY <2>1
    <3>2. QED BY <1>4, <3>1, FS_EmptySet
  <2>2. CASE m # 1
    <3>1. m - 1 \in 1..n /\ m - 1 \notin T
        BY <1>7, <1>8, <2>2
    <3>2. ~ (Cardinality(P \cap 1..(m - 1)) >= k)
        BY <1>2, <3>1
    <3>3. Cardinality(P \cap 1..(m - 1)) \in Nat
        BY <1>1, <3>1
    <3>4. QED BY <1>4, <3>2, <3>3
  <2>3. QED BY <2>1, <2>2
<1>10. PICK before : before = P \cap 1..(m - 1)
    OBVIOUS
<1>11. Cardinality(before) < k /\ IsFiniteSet(before) /\ Cardinality(before) \in Nat /\ m \notin before
  <2>1. m - 1 \in Nat /\ m \notin 1..(m - 1)
      BY <1>8
  <2>2. QED BY <1>1, <1>9, <1>10, <2>1
<1>12. m \in P
  <2>1. CASE m \notin P
    <3>1. P \cap 1..m = before
        BY <1>8, <1>10, <2>1
    <3>2. Cardinality(before) >= k
        BY <1>8, <3>1
    <3>3. QED BY <1>4, <1>11, <3>2
  <2>2. QED BY <2>1
<1>13. Cardinality(P \cap 1..m) = k
  <2>1. P \cap 1..m = before \cup {m}
      BY <1>8, <1>10, <1>12
  <2>2. Cardinality(before \cup {m}) = Cardinality(before) + 1
      BY <1>11, FS_AddElement
  <2>3. Cardinality(before \cup {m}) >= k
      BY <1>8, <2>1
  <2>4. Cardinality(before \cup {m}) = k
      BY <1>4, <1>11, <2>2, <2>3
  <2>5. QED BY <2>1, <2>4
<1>14. QED BY <1>12, <1>13, SameCardinality DEF Store!Nth

\* Each number that was chosen is one of them: the one with as many up to it.
LEMMA NthOnto ==
    ASSUME NEW n \in Nat, NEW P \in SUBSET (1..n), NEW i \in P
    PROVE  \E k \in 1..Cardinality(P) : Store!Nth(P, k) = i
<1>1. ASSUME NEW m \in 1..n
      PROVE  IsFiniteSet(P \cap 1..m) /\ Cardinality(P \cap 1..m) \in Nat
  <2>1. IsFiniteSet(1..m)
      BY FS_Interval
  <2>2. IsFiniteSet(P \cap 1..m)
      BY <2>1, FS_Subset
  <2>3. QED BY <2>2, FS_CardinalityType
<1>2. \A l, m \in P : l < m => Cardinality(P \cap 1..l) < Cardinality(P \cap 1..m)
  <2>1. TAKE l, m \in P
  <2>2. HAVE l < m
  <2>3. PICK low : low = P \cap 1..l
      OBVIOUS
  <2>4. low \cup {m} \subseteq P \cap 1..m /\ m \notin low
      BY <2>2, <2>3
  <2>5. IsFiniteSet(low) /\ Cardinality(low) \in Nat
      BY <1>1, <2>3
  <2>6. Cardinality(low \cup {m}) = Cardinality(low) + 1
      BY <2>4, <2>5, FS_AddElement
  <2>7. Cardinality(low \cup {m}) <= Cardinality(P \cap 1..m) /\ Cardinality(P \cap 1..m) \in Nat
      BY <1>1, <2>4, FS_Subset
  <2>8. QED BY <2>3, <2>5, <2>6, <2>7
<1>3. PICK k : k = Cardinality(P \cap 1..i)
    OBVIOUS
<1>4. k \in 1..Cardinality(P)
  <2>1. IsFiniteSet(P) /\ Cardinality(P) \in Nat
    <3>1. IsFiniteSet(1..n)
        BY FS_Interval
    <3>2. QED BY <3>1, FS_Subset, FS_CardinalityType
  <2>2. P \cap 1..i \subseteq P /\ i \in P \cap 1..i
      OBVIOUS
  <2>3. Cardinality(P \cap 1..i) <= Cardinality(P)
      BY <2>1, <2>2, FS_Subset
  <2>4. Cardinality(P \cap 1..i) # 0
      BY <1>1, <2>2, FS_EmptySet
  <2>5. QED BY <1>1, <1>3, <2>1, <2>3, <2>4
<1>5. PICK m : m = Store!Nth(P, k)
    OBVIOUS
<1>6. m \in P /\ Cardinality(P \cap 1..m) = k
    BY <1>4, <1>5, NthExists
<1>7. m = i
  <2>1. Cardinality(P \cap 1..m) \in Nat
      BY <1>1, <1>6
  <2>2. ~ (m < i) /\ ~ (i < m)
      BY <1>2, <1>3, <1>6, <2>1
  <2>3. m \in Nat /\ i \in Nat
      BY <1>6
  <2>4. QED BY <2>2, <2>3
<1>8. QED BY <1>4, <1>5, <1>7

Row == [entry : Entries, content : Contents, updated : Nat, has : BOOLEAN,
        vector : [dim : Dimensions \cup {0, 1}, real : BOOLEAN]]

\* One row for an entry.
OneRowEach(rs) ==
    /\ rs \in Seq(Row)
    /\ \A i, j \in 1..Len(rs) : rs[i].entry = rs[j].entry => i = j

Edits == [content : Contents, at : Nat, brought : SUBSET Nat]

\* A row is what its edits made of it, or what came later.
Stood(row, known) ==
    \A edit \in known :
        \/ row.content = edit.content /\ row.updated = edit.at
        \/ row.updated >= edit.at /\ row.updated \in edit.brought

StoreOK ==
    /\ now \in Nat /\ OneRowEach(rows)
    /\ edits \in [Entries -> SUBSET Edits]
    /\ \A e \in Entries : edits[e] # {} => \E i \in 1..Len(rows) : rows[i].entry = e
    /\ \A i \in 1..Len(rows) : Stood(rows[i], edits[rows[i].entry])

\* What is known of each row.
LEMMA RowOf ==
    ASSUME NEW rs, OneRowEach(rs)
    PROVE  /\ Len(rs) \in Nat /\ DOMAIN rs = 1..Len(rs)
           /\ \A i \in 1..Len(rs) : rs[i] \in Row /\ rs[i].entry \in Entries /\ rs[i].updated \in Nat
<1>1. Len(rs) \in Nat /\ DOMAIN rs = 1..Len(rs) /\ \A i \in 1..Len(rs) : rs[i] \in Row
    BY DEF OneRowEach
<1>2. QED BY <1>1 DEF Row

\* What an entry of a window stamped with a time makes of a row: nothing the
\* properties see, or it takes its place if the row is no newer.
Near(r, s, time, B) ==
    /\ s.entry = r.entry
    /\ \/ s.content = r.content /\ s.updated = r.updated
       \/ r.entry \in B /\ s.updated = time /\ time >= r.updated

\* Every row is still at its place.
Grown(rs, ss, time, B) ==
    /\ Len(rs) <= Len(ss)
    /\ \A i \in 1..Len(rs) : Near(rs[i], ss[i], time, B)

\* A merged row is one of the two.
LEMMA MergeNear ==
    ASSUME NEW stamp \in Nat, NEW B, NEW old \in Row, NEW new \in Row, old.entry = new.entry,
           new.entry \in B, new.updated = stamp, NEW r, r = Store!Merge(old, new)
    PROVE  r \in Row /\ Near(old, r, stamp, B)
<1>1. old.updated \in Nat /\ new.updated \in Nat
    BY DEF Row
<1>2. [old EXCEPT !.vector = new.vector, !.has = TRUE] \in Row
      /\ [old EXCEPT !.vector = new.vector, !.has = TRUE].entry = old.entry
      /\ [old EXCEPT !.vector = new.vector, !.has = TRUE].content = old.content
      /\ [old EXCEPT !.vector = new.vector, !.has = TRUE].updated = old.updated
    BY DEF Row
<1>3. QED BY <1>1, <1>2 DEF Store!Merge, Near

\* The edits known of row r after a window with the entries of B.
Later(r, known, stamp, B) ==
    {IF r.entry \in B THEN [edit EXCEPT !.brought = @ \cup {stamp}] ELSE edit : edit \in known}

\* What an edit left stands over an entry of a later window.
LEMMA NearStands ==
    ASSUME NEW stamp \in Nat, NEW B, NEW r \in Row, NEW s, Near(r, s, stamp, B),
           NEW known \in SUBSET Edits, Stood(r, known)
    PROVE  Stood(s, Later(r, known, stamp, B))
<1>1. ASSUME NEW edit \in Later(r, known, stamp, B)
      PROVE  \/ s.content = edit.content /\ s.updated = edit.at
             \/ s.updated >= edit.at /\ s.updated \in edit.brought
  <2>1. PICK old \in known :
          edit = IF r.entry \in B THEN [old EXCEPT !.brought = @ \cup {stamp}] ELSE old
      BY <1>1 DEF Later
  <2>2. /\ old.content \in Contents /\ old.at \in Nat /\ old.brought \subseteq Nat
        /\ r.updated \in Nat
      BY DEF Edits, Row
  <2>3. /\ edit.content = old.content /\ edit.at = old.at
        /\ old.brought \subseteq edit.brought
        /\ r.entry \in B => stamp \in edit.brought
      BY <2>1 DEF Edits
  <2>4. \/ r.content = old.content /\ r.updated = old.at
        \/ r.updated >= old.at /\ r.updated \in old.brought
      BY DEF Stood
  <2>5. QED BY <2>2, <2>3, <2>4 DEF Near
<1>2. QED BY <1>1 DEF Stood

\* One entry of a window leaves one row for an entry.
LEMMA PutKeeps ==
    ASSUME NEW stamp \in Nat, NEW B, NEW rs, OneRowEach(rs), NEW new \in Row,
           new.updated = stamp, new.entry \in B, NEW ss, ss = Store!Put(rs, new)
    PROVE  OneRowEach(ss) /\ Grown(rs, ss, stamp, B)
<1>1. PICK n \in Nat : n = Len(rs) /\ DOMAIN rs = 1..n /\ \A i \in 1..n : rs[i] \in Row
    BY DEF OneRowEach
<1>2. CASE \E i \in DOMAIN rs : rs[i].entry = new.entry
  <2>1. ss = [i \in 1..n |-> IF rs[i].entry = new.entry THEN Store!Merge(rs[i], new) ELSE rs[i]]
      BY <1>1, <1>2 DEF Store!Put
  <2>2. ASSUME NEW i \in 1..n PROVE ss[i] \in Row /\ Near(rs[i], ss[i], stamp, B)
    <3>1. CASE rs[i].entry = new.entry
      <4>1. ss[i] = Store!Merge(rs[i], new)
          BY <2>1, <2>2, <3>1
      <4>2. QED BY <1>1, <2>2, <3>1, <4>1, MergeNear
    <3>2. CASE rs[i].entry # new.entry
      <4>1. ss[i] = rs[i]
          BY <2>1, <2>2, <3>2
      <4>2. QED BY <1>1, <2>2, <4>1 DEF Near
    <3>3. QED BY <3>1, <3>2
  <2>3. ss \in Seq(Row) /\ Len(ss) = n
      BY <2>1, <2>2
  <2>4. \A i, j \in 1..n : ss[i].entry = ss[j].entry => i = j
    <3>1. \A i \in 1..n : ss[i].entry = rs[i].entry
        BY <2>2 DEF Near
    <3>2. QED BY <1>1, <3>1 DEF OneRowEach
  <2>5. QED BY <1>1, <2>2, <2>3, <2>4 DEF OneRowEach, Grown
<1>3. CASE ~ \E i \in DOMAIN rs : rs[i].entry = new.entry
  <2>1. ss = Append(rs, new)
      BY <1>3 DEF Store!Put
  <2>2. rs \in Seq(Row)
      BY DEF OneRowEach
  <2>3. ss \in Seq(Row) /\ Len(ss) = n + 1 /\ ss[n + 1] = new /\ \A i \in 1..n : ss[i] = rs[i]
      BY <1>1, <2>1, <2>2
  <2>4. \A i, j \in 1..n + 1 : ss[i].entry = ss[j].entry => i = j
    <3>1. TAKE i, j \in 1..n + 1
    <3>2. HAVE ss[i].entry = ss[j].entry
    <3>3. i \in 1..n \/ i = n + 1
        BY <1>1, <3>1
    <3>4. j \in 1..n \/ j = n + 1
        BY <1>1, <3>1
    <3>5. i \in 1..n /\ j \in 1..n => i = j
        BY <1>1, <2>3, <3>2 DEF OneRowEach
    <3>6. QED BY <1>1, <1>3, <2>3, <3>2, <3>3, <3>4, <3>5
  <2>5. Grown(rs, ss, stamp, B)
      BY <1>1, <2>3 DEF Grown, Near
  <2>6. QED BY <2>3, <2>4, <2>5 DEF OneRowEach
<1>4. QED BY <1>2, <1>3

\* Normalising changes vectors only.
LEMMA NormalKeeps ==
    ASSUME NEW rs, OneRowEach(rs), NEW ss, ss = Store!Normalized(rs)
    PROVE  /\ OneRowEach(ss) /\ Len(ss) = Len(rs)
           /\ \A i \in 1..Len(rs) : /\ ss[i].entry = rs[i].entry /\ ss[i].content = rs[i].content
                                  /\ ss[i].updated = rs[i].updated
<1>1. PICK n \in Nat : n = Len(rs) /\ DOMAIN rs = 1..n /\ \A i \in 1..n : rs[i] \in Row
    BY DEF OneRowEach
<1>2. PICK with : with = {i \in DOMAIN rs : rs[i].vector.dim # 0}
    OBVIOUS
<1>3. PICK dim : dim = Store!TargetDim(rs)
    OBVIOUS
<1>4. dim \in Dimensions \cup {0, 1}
  <2>1. CASE with = {}
      BY <1>2, <1>3, <2>1 DEF Store!TargetDim
  <2>2. CASE with # {}
    <3>1. with \in SUBSET (1..n)
        BY <1>1, <1>2
    <3>2. IsFiniteSet(with)
      <4>1. IsFiniteSet(1..n)
          BY <1>1, FS_Interval
      <4>2. QED BY <3>1, <4>1, FS_Subset
    <3>3. 1 \in 1..Cardinality(with)
        BY <2>2, <3>2, FS_EmptySet, FS_CardinalityType
    <3>4. Store!Nth(with, 1) \in with
        BY <1>1, <3>1, <3>3, NthExists
    <3>5. dim = rs[Store!Nth(with, 1)].vector.dim
        BY <1>2, <1>3, <2>2 DEF Store!TargetDim
    <3>6. rs[Store!Nth(with, 1)] \in Row
        BY <1>1, <3>1, <3>4
    <3>7. QED BY <3>5, <3>6 DEF Row
  <2>3. QED BY <2>1, <2>2
<1>5. ss = [i \in 1..n |-> IF rs[i].vector.dim # 0 THEN [rs[i] EXCEPT !.has = TRUE]
                           ELSE [rs[i] EXCEPT !.has = FALSE, !.vector = Store!Vector(dim, FALSE)]]
    BY <1>1, <1>3 DEF Store!Normalized
<1>6. ASSUME NEW i \in 1..n
      PROVE  /\ ss[i] \in Row /\ ss[i].entry = rs[i].entry /\ ss[i].content = rs[i].content
             /\ ss[i].updated = rs[i].updated
  <2>1. PICK r \in Row : r = rs[i]
      BY <1>1, <1>6
  <2>2. Store!Vector(dim, FALSE) \in [dim : Dimensions \cup {0, 1}, real : BOOLEAN]
      BY <1>4 DEF Store!Vector
  <2>3. [r EXCEPT !.has = TRUE] \in Row
        /\ [r EXCEPT !.has = TRUE].entry = r.entry
        /\ [r EXCEPT !.has = TRUE].content = r.content
        /\ [r EXCEPT !.has = TRUE].updated = r.updated
      BY <2>1 DEF Row
  <2>4. ASSUME NEW v \in [dim : Dimensions \cup {0, 1}, real : BOOLEAN]
        PROVE  /\ [r EXCEPT !.has = FALSE, !.vector = v] \in Row
               /\ [r EXCEPT !.has = FALSE, !.vector = v].entry = r.entry
               /\ [r EXCEPT !.has = FALSE, !.vector = v].content = r.content
               /\ [r EXCEPT !.has = FALSE, !.vector = v].updated = r.updated
      BY <2>1, <2>4 DEF Row
  <2>5. ss[i] = IF r.vector.dim # 0 THEN [r EXCEPT !.has = TRUE]
                ELSE [r EXCEPT !.has = FALSE, !.vector = Store!Vector(dim, FALSE)]
      BY <1>5, <1>6, <2>1
  <2>6. QED BY <2>1, <2>2, <2>3, <2>4, <2>5
<1>7. ss \in Seq(Row) /\ Len(ss) = n
  <2>1. ss = [i \in 1..n |-> ss[i]]
      BY <1>5
  <2>2. ss \in [1..n -> Row]
      BY <1>6, <2>1
  <2>3. QED BY <1>1, <2>2
<1>8. QED BY <1>1, <1>6, <1>7 DEF OneRowEach

\* A chosen part of the table is one.
LEMMA ChosenKeeps ==
    ASSUME NEW rs, OneRowEach(rs), NEW P \in SUBSET (DOMAIN rs),
           NEW ss, ss = Store!Chosen(rs, P)
    PROVE  /\ OneRowEach(ss)
           /\ \A k \in 1..Len(ss) : \E i \in P : ss[k] = rs[i]
           /\ \A i \in P : \E k \in 1..Len(ss) : ss[k] = rs[i]
<1>1. PICK n \in Nat : n = Len(rs) /\ DOMAIN rs = 1..n /\ \A i \in 1..n : rs[i] \in Row
    BY DEF OneRowEach
<1>2. PICK c : c = Cardinality(P)
    OBVIOUS
<1>3. c \in Nat
  <2>1. IsFiniteSet(1..n)
      BY <1>1, FS_Interval
  <2>2. IsFiniteSet(P)
      BY <1>1, <2>1, FS_Subset
  <2>3. QED BY <1>2, <2>2, FS_CardinalityType
<1>4. ASSUME NEW k \in 1..c
      PROVE  Store!Nth(P, k) \in P /\ Store!Nth(P, k) \in 1..n /\ Cardinality(P \cap 1..Store!Nth(P, k)) = k
    BY <1>1, <1>2, <1>4, NthExists
<1>5. ss = [k \in 1..c |-> rs[Store!Nth(P, k)]]
    BY <1>2, SameCardinality DEF Store!Chosen
<1>6. ss \in [1..c -> Row]
    BY <1>1, <1>4, <1>5
<1>7. ss \in Seq(Row) /\ Len(ss) = c
    BY <1>3, <1>6
<1>8. \A k \in 1..c : ss[k] = rs[Store!Nth(P, k)]
    BY <1>5
<1>9. ASSUME NEW k \in 1..c, NEW l \in 1..c, ss[k].entry = ss[l].entry
      PROVE  k = l
  <2>1. PICK i \in 1..n : i = Store!Nth(P, k)
      BY <1>4, <1>9
  <2>2. PICK j \in 1..n : j = Store!Nth(P, l)
      BY <1>4, <1>9
  <2>3. rs[i].entry = rs[j].entry
      BY <1>8, <1>9, <2>1, <2>2
  <2>4. i = j
      BY <1>1, <2>3 DEF OneRowEach
  <2>5. Cardinality(P \cap 1..i) = k /\ Cardinality(P \cap 1..j) = l
      BY <1>4, <1>9, <2>1, <2>2
  <2>6. QED BY <2>4, <2>5
<1>10. ASSUME NEW i \in P PROVE \E k \in 1..c : ss[k] = rs[i]
  <2>1. P \in SUBSET (1..n)
      BY <1>1
  <2>2. PICK k \in 1..c : Store!Nth(P, k) = i
      BY <1>2, <2>1, NthOnto
  <2>3. QED BY <1>8, <2>2
<1>11. OneRowEach(ss)
    BY <1>7, <1>9 DEF OneRowEach
<1>12. QED BY <1>4, <1>7, <1>8, <1>10, <1>11

\* The rows after each entry up to the last, as the recursion of Merged says.
Solves(f, last, first, record) ==
    /\ f = [n \in 0..last |-> f[n]]
    /\ \A n \in 0..last : f[n] = IF n = 0 THEN first ELSE Store!Put(f[n - 1], record[n])

\* The recursion of Merged has a solution.  If it had none up to some entry, it
\* would have none up to a first one.
LEMMA MergedExists ==
    ASSUME NEW last \in Nat, NEW first, NEW record
    PROVE  \E f : Solves(f, last, first, record)
<1> DEFINE Solved(l, f) == Solves(f, l, first, record)
<1>1. SUFFICES ASSUME ~ \E f : Solved(last, f) PROVE FALSE
    OBVIOUS
<1>2. PICK T : T = {l \in Nat : ~ \E f : Solved(l, f)}
    OBVIOUS
<1>3. PICK m \in T : \A l \in T : m <= l
  <2>1. T \in SUBSET Nat /\ last \in T
      BY <1>1, <1>2
  <2>2. QED BY <2>1, LeastOf
<1>4. m \in Nat /\ ~ \E f : Solved(m, f)
    BY <1>2
<1>5. CASE m = 0
  <2>1. PICK f : f = [n \in 0..0 |-> first]
      OBVIOUS
  <2>2. Solved(0, f)
      BY <2>1 DEF Solves
  <2>3. QED BY <1>4, <1>5, <2>2
<1>6. CASE m # 0
  <2>1. m - 1 \in Nat /\ m - 1 \notin T
      BY <1>3, <1>4, <1>6
  <2>2. PICK f : Solved(m - 1, f)
      BY <1>2, <2>1
  <2>3. PICK g : g = [n \in 0..m |-> IF n = m THEN Store!Put(f[m - 1], record[m]) ELSE f[n]]
      OBVIOUS
  <2>4. \A n \in 0..(m - 1) : g[n] = f[n]
      BY <1>4, <2>3
  <2>5. ASSUME NEW n \in 0..m
        PROVE  g[n] = IF n = 0 THEN first ELSE Store!Put(g[n - 1], record[n])
    <3>1. CASE n = m
      <4>1. m - 1 \in 0..(m - 1) /\ m \in 0..m
          BY <1>4, <1>6
      <4>2. g[m] = Store!Put(f[m - 1], record[m])
          BY <2>3, <4>1
      <4>3. g[m - 1] = f[m - 1]
          BY <2>4, <4>1
      <4>4. QED BY <1>6, <3>1, <4>2, <4>3
    <3>2. CASE n # m
      <4>1. n \in 0..(m - 1) /\ (n # 0 => n - 1 \in 0..(m - 1))
          BY <1>4, <2>5, <3>2
      <4>2. f[n] = IF n = 0 THEN first ELSE Store!Put(f[n - 1], record[n])
          BY <2>2, <4>1 DEF Solves
      <4>3. QED BY <2>4, <4>1, <4>2
    <3>3. QED BY <3>1, <3>2
  <2>6. Solved(m, g)
    <3>1. g = [n \in 0..m |-> g[n]]
        BY <2>3
    <3>2. QED BY <2>5, <3>1 DEF Solves
  <2>7. QED BY <1>4, <2>6
<1>7. QED BY <1>5, <1>6

\* The rows after a whole window.
LEMMA MergedKeeps ==
    ASSUME OneRowEach(rows), NEW stamp \in Nat,
           NEW size \in Nat, NEW batch \in [1..size -> Store!Item],
           NEW all, all = Store!Merged(batch, stamp)[Len(batch)],
           NEW B, B = {batch[n].entry : n \in 1..size}
    PROVE  OneRowEach(all) /\ Grown(rows, all, stamp, B)
<1>1. PICK record : record = [n \in 1..size |->
                                Store!Record(batch[n].entry, batch[n].content, stamp, batch[n].dim)]
    OBVIOUS
<1>2. \A n \in 1..size : record[n] \in Row /\ record[n].updated = stamp /\ record[n].entry \in B
    BY <1>1 DEF Store!Item, Store!Record, Store!Vector, Row
<1>3. Len(batch) = size
    OBVIOUS
<1>4. PICK put : put = Store!Merged(batch, stamp)
    OBVIOUS
<1>5. put = [n \in 0..size |-> IF n = 0 THEN rows ELSE Store!Put(put[n - 1], record[n])]
  <2>1. PICK f : Solves(f, size, rows, record)
      BY MergedExists
  <2>2. \A n \in 0..size : n # 0 =>
          record[n] = Store!Record(batch[n].entry, batch[n].content, stamp, batch[n].dim)
      BY <1>1
  <2>3. f = [n \in 0..Len(batch) |-> IF n = 0 THEN rows
              ELSE Store!Put(f[n - 1], Store!Record(batch[n].entry, batch[n].content, stamp, batch[n].dim))]
      BY <1>3, <2>1, <2>2 DEF Solves
  <2>4. put = CHOOSE g : g = [n \in 0..Len(batch) |-> IF n = 0 THEN rows
              ELSE Store!Put(g[n - 1], Store!Record(batch[n].entry, batch[n].content, stamp, batch[n].dim))]
      BY <1>4 DEF Store!Merged
  <2>5. put = [n \in 0..Len(batch) |-> IF n = 0 THEN rows
              ELSE Store!Put(put[n - 1], Store!Record(batch[n].entry, batch[n].content, stamp, batch[n].dim))]
      BY <2>3, <2>4
  <2>6. QED BY <1>3, <2>2, <2>5
<1>6. PICK T : T = {n \in Nat : n <= size /\ ~ (OneRowEach(put[n]) /\ Grown(rows, put[n], stamp, B))}
    OBVIOUS
<1>7. CASE T = {}
  <2>1. all = put[size] /\ size \notin T
      BY <1>3, <1>4, <1>7
  <2>2. OneRowEach(put[size]) /\ Grown(rows, put[size], stamp, B)
      BY <1>6, <2>1
  <2>3. QED BY <2>1, <2>2
<1>8. CASE T # {}
  <2>1. T \in SUBSET Nat
      BY <1>6
  <2>2. PICK m \in T : \A n \in T : m <= n
      BY <1>8, <2>1, LeastOf
  <2>3. m \in 0..size /\ ~ (OneRowEach(put[m]) /\ Grown(rows, put[m], stamp, B))
      BY <1>6, <2>2
  <2>4. CASE m = 0
    <3>1. put[m] = rows
        BY <1>5, <2>3, <2>4
    <3>2. Grown(rows, rows, stamp, B)
        BY RowOf DEF Grown, Near
    <3>3. QED BY <2>3, <3>1, <3>2
  <2>5. CASE m # 0
    <3>1. m - 1 \in 0..size /\ m - 1 \notin T /\ m \in 1..size
        BY <2>2, <2>3, <2>5
    <3>2. OneRowEach(put[m - 1]) /\ Grown(rows, put[m - 1], stamp, B)
        BY <1>6, <3>1
    <3>3. put[m] = Store!Put(put[m - 1], record[m])
        BY <1>5, <2>3, <2>5
    <3>4. record[m] \in Row /\ record[m].updated = stamp /\ record[m].entry \in B
        BY <1>2, <3>1
    <3>5. OneRowEach(put[m]) /\ Grown(put[m - 1], put[m], stamp, B)
        BY <3>2, <3>3, <3>4, PutKeeps
    <3>6. Grown(rows, put[m], stamp, B)
      <4>1. PICK old : old = put[m - 1]
          OBVIOUS
      <4>2. PICK new : new = put[m]
          OBVIOUS
      <4>3. \A rs : OneRowEach(rs) => Len(rs) \in Nat /\ \A i \in 1..Len(rs) : rs[i].updated \in Nat
          BY RowOf
      <4>4. Grown(rows, old, stamp, B) /\ Grown(old, new, stamp, B)
          BY <3>2, <3>5, <4>1, <4>2
      <4>5. OneRowEach(rows) /\ OneRowEach(old) /\ OneRowEach(new)
          BY <3>2, <3>5, <4>1, <4>2
      <4>6. Len(rows) <= Len(old) /\ Len(old) <= Len(new) /\ Len(rows) \in Nat
            /\ Len(old) \in Nat /\ Len(new) \in Nat
          BY <4>3, <4>4, <4>5 DEF Grown
      <4>7. ASSUME NEW i \in 1..Len(rows) PROVE Near(rows[i], new[i], stamp, B)
        <5>1. i \in 1..Len(old)
            BY <4>6
        <5>2. Near(rows[i], old[i], stamp, B) /\ Near(old[i], new[i], stamp, B)
            BY <4>4, <4>7, <5>1 DEF Grown
        <5>3. rows[i].updated \in Nat /\ old[i].updated \in Nat
            BY <4>3, <4>5, <4>7, <5>1
        <5>4. QED BY <5>2, <5>3 DEF Near
      <4>8. Grown(rows, new, stamp, B)
        <5>1. Len(rows) <= Len(new)
            BY <4>6
        <5>2. \A i \in 1..Len(rows) : Near(rows[i], new[i], stamp, B)
            BY <4>7
        <5>3. QED BY <5>1, <5>2 DEF Grown
      <4>9. QED BY <4>2, <4>8
    <3>7. QED BY <2>3, <3>5, <3>6
  <2>6. QED BY <2>4, <2>5
<1>9. QED BY <1>7, <1>8

\* Every step keeps the table's shape and what was edited.
LEMMA StoreStep ==
    ASSUME StoreOK, Store!Next \/ UNCHANGED storeVars
    PROVE  StoreOK'
<1>1. now \in Nat /\ OneRowEach(rows) /\ edits \in [Entries -> SUBSET Edits]
    BY DEF StoreOK
<1>2. PICK n \in Nat : /\ n = Len(rows) /\ DOMAIN rows = 1..n
                       /\ \A i \in 1..n : rows[i] \in Row /\ rows[i].entry \in Entries
    BY <1>1, RowOf
<1>3. \A i \in 1..n : Stood(rows[i], edits[rows[i].entry])
    BY <1>2 DEF StoreOK
<1>4. \A e \in Entries : edits[e] # {} => \E i \in 1..n : rows[i].entry = e
    BY <1>2 DEF StoreOK
<1>5. ASSUME NEW b \in Store!Batches, NEW stamp \in 0..MaxTime, Store!Upsert(b, stamp) PROVE StoreOK'
  <2>1. PICK size \in Nat : b \in [1..size -> Store!Item]
      BY <1>5 DEF Store!Batches
  <2>2. PICK all : all = Store!Merged(b, stamp)[Len(b)]
      OBVIOUS
  <2>3. PICK B : B = {b[i].entry : i \in 1..size}
      OBVIOUS
  <2>4. stamp \in Nat /\ now' = now /\ DOMAIN b = 1..size
      BY <1>5, <2>1 DEF Store!Upsert
  <2>5. OneRowEach(all) /\ Grown(rows, all, stamp, B)
      BY <1>1, <2>1, <2>2, <2>3, <2>4, MergedKeeps
  <2>6. CASE ~ Store!Fits(all)
    <3>1. rows' = rows /\ edits' = edits
        BY <1>5, <2>2, <2>6 DEF Store!Upsert
    <3>2. QED BY <2>4, <3>1 DEF StoreOK
  <2>7. CASE Store!Fits(all)
    <3>1. PICK ss : ss = Store!Normalized(all)
        OBVIOUS
    <3>2. rows' = ss /\ edits' = Store!Brought(b, stamp)
        BY <1>5, <2>2, <2>7, <3>1 DEF Store!Upsert
    <3>3. OneRowEach(ss) /\ Len(ss) = Len(all)
          /\ \A i \in 1..Len(all) : /\ ss[i].entry = all[i].entry /\ ss[i].content = all[i].content
                                    /\ ss[i].updated = all[i].updated
        BY <2>5, <3>1, NormalKeeps
    <3>4. n <= Len(ss) /\ Len(ss) \in Nat
        BY <1>2, <2>5, <3>3, RowOf DEF Grown
    <3>5. ASSUME NEW i \in 1..n PROVE Near(rows[i], ss[i], stamp, B)
      <4>1. i \in 1..Len(all) /\ Near(rows[i], all[i], stamp, B)
          BY <1>2, <2>5, <3>3, <3>4, <3>5 DEF Grown
      <4>2. QED BY <3>3, <4>1 DEF Near
    <3>6. \A e \in Entries : edits'[e] =
              {IF e \in B THEN [edit EXCEPT !.brought = @ \cup {stamp}] ELSE edit : edit \in edits[e]}
        BY <2>3, <2>4, <3>2 DEF Store!Brought
    <3>7. edits' \in [Entries -> SUBSET Edits]
      <4>1. \A edit \in Edits : [edit EXCEPT !.brought = @ \cup {stamp}] \in Edits
          BY <2>4 DEF Edits
      <4>2. edits' = [e \in Entries |-> edits'[e]]
          BY <3>2 DEF Store!Brought
      <4>3. QED BY <1>1, <3>6, <4>1, <4>2
    <3>8. ASSUME NEW e \in Entries, edits'[e] # {}
          PROVE  \E i \in 1..Len(ss) : ss[i].entry = e
      <4>1. edits[e] # {}
          BY <3>6, <3>8
      <4>2. PICK i \in 1..n : rows[i].entry = e
          BY <1>4, <4>1
      <4>3. i \in 1..Len(ss) /\ ss[i].entry = e
          BY <3>4, <3>5, <4>2 DEF Near
      <4>4. QED BY <4>3
    <3>9. ASSUME NEW j \in 1..Len(ss) PROVE Stood(ss[j], edits'[ss[j].entry])
      <4>1. PICK e \in Entries : e = ss[j].entry
          BY <3>3, <3>9, RowOf
      <4>2. CASE edits[e] = {}
          BY <3>6, <4>1, <4>2 DEF Stood
      <4>3. CASE edits[e] # {}
        <5>1. PICK i \in 1..n : rows[i].entry = e
            BY <1>4, <4>3
        <5>2. i \in 1..Len(ss) /\ ss[i].entry = e
            BY <3>4, <3>5, <5>1 DEF Near
        <5>3. i = j
            BY <3>3, <3>9, <4>1, <5>2 DEF OneRowEach
        <5>4. Near(rows[i], ss[j], stamp, B) /\ Stood(rows[i], edits[e]) /\ rows[i] \in Row
            BY <1>2, <1>3, <3>5, <5>1, <5>3
        <5>5. PICK known \in SUBSET Edits : known = edits[e]
            BY <1>1
        <5>6. PICK r \in Row : r = rows[i]
            BY <5>4
        <5>7. PICK s : s = ss[j]
            OBVIOUS
        <5>8. edits'[e] = Later(r, known, stamp, B)
            BY <3>6, <5>1, <5>5, <5>6 DEF Later
        <5>9. Near(r, s, stamp, B) /\ Stood(r, known)
            BY <5>4, <5>5, <5>6, <5>7
        <5>10. Stood(s, Later(r, known, stamp, B))
            BY <2>4, <5>9, NearStands
        <5>11. QED BY <4>1, <5>7, <5>8, <5>10
      <4>4. QED BY <4>2, <4>3
    <3>10. QED BY <1>1, <2>4, <3>2, <3>3, <3>7, <3>8, <3>9 DEF StoreOK
  <2>8. QED BY <2>6, <2>7
<1>6. ASSUME NEW gone, Store!Delete(gone) PROVE StoreOK'
  <2>1. PICK P \in SUBSET (DOMAIN rows) : P = {i \in DOMAIN rows : rows[i].entry \notin gone}
      OBVIOUS
  <2>2. PICK left : left = Store!Chosen(rows, P)
      OBVIOUS
  <2>3. PICK ss : ss = Store!Normalized(left)
      OBVIOUS
  <2>4. /\ rows' = ss /\ now' = now
        /\ edits' = [e \in Entries |-> IF e \in gone THEN {} ELSE edits[e]]
      BY <1>6, <2>1, <2>2, <2>3 DEF Store!Delete
  <2>5. OneRowEach(left) /\ (\A k \in 1..Len(left) : \E i \in P : left[k] = rows[i])
        /\ \A i \in P : \E k \in 1..Len(left) : left[k] = rows[i]
      BY <1>1, <2>2, ChosenKeeps
  <2>6. OneRowEach(ss) /\ Len(ss) = Len(left)
        /\ \A k \in 1..Len(left) : /\ ss[k].entry = left[k].entry /\ ss[k].content = left[k].content
                                   /\ ss[k].updated = left[k].updated
      BY <2>3, <2>5, NormalKeeps
  <2>7. edits' \in [Entries -> SUBSET Edits]
      BY <1>1, <2>4
  <2>8. ASSUME NEW e \in Entries, edits'[e] # {} PROVE \E k \in 1..Len(ss) : ss[k].entry = e
    <3>1. e \notin gone /\ edits[e] # {}
        BY <2>4, <2>8
    <3>2. PICK i \in 1..n : rows[i].entry = e
        BY <1>4, <3>1
    <3>3. i \in P
        BY <1>2, <2>1, <3>1, <3>2
    <3>4. QED BY <2>5, <2>6, <3>2, <3>3
  <2>9. ASSUME NEW k \in 1..Len(ss) PROVE Stood(ss[k], edits'[ss[k].entry])
    <3>1. PICK i \in P : left[k] = rows[i]
        BY <2>5, <2>6, <2>9
    <3>2. /\ ss[k].entry = rows[i].entry /\ ss[k].content = rows[i].content
          /\ ss[k].updated = rows[i].updated
        BY <2>6, <2>9, <3>1
    <3>3. i \in 1..n /\ rows[i].entry \notin gone /\ rows[i].entry \in Entries
        BY <1>2, <2>1
    <3>4. edits'[ss[k].entry] = edits[rows[i].entry]
        BY <2>4, <3>2, <3>3
    <3>5. QED BY <1>3, <3>2, <3>3, <3>4 DEF Stood
  <2>10. QED BY <1>1, <2>4, <2>6, <2>7, <2>8, <2>9 DEF StoreOK
<1>7. ASSUME NEW e \in Entries, NEW content \in Contents, Store!Update(e, content) PROVE StoreOK'
  <2>1. PICK edited : edited = [i \in 1..n |-> IF rows[i].entry = e
                                THEN [rows[i] EXCEPT !.content = content, !.updated = now] ELSE rows[i]]
      OBVIOUS
  <2>2. ASSUME NEW i \in 1..n
        PROVE  /\ edited[i] \in Row /\ edited[i].entry = rows[i].entry
               /\ IF rows[i].entry = e THEN edited[i].content = content /\ edited[i].updated = now
                  ELSE edited[i] = rows[i]
    <3>1. PICK r \in Row : r = rows[i]
        BY <1>2, <2>2
    <3>2. [r EXCEPT !.content = content, !.updated = now] \in Row
          /\ [r EXCEPT !.content = content, !.updated = now].entry = r.entry
          /\ [r EXCEPT !.content = content, !.updated = now].content = content
          /\ [r EXCEPT !.content = content, !.updated = now].updated = now
        BY <1>1, <1>7, <3>1 DEF Row
    <3>3. edited[i] = IF r.entry = e THEN [r EXCEPT !.content = content, !.updated = now] ELSE r
        BY <2>1, <2>2, <3>1
    <3>4. QED BY <3>1, <3>2, <3>3
  <2>3. edited \in Seq(Row) /\ Len(edited) = n
    <3>1. edited = [i \in 1..n |-> edited[i]]
        BY <2>1
    <3>2. edited \in [1..n -> Row]
        BY <2>2, <3>1
    <3>3. QED BY <1>2, <3>2
  <2>4. OneRowEach(edited)
      BY <1>1, <1>2, <2>2, <2>3 DEF OneRowEach
  <2>5. PICK ss : ss = Store!Normalized(edited)
      OBVIOUS
  <2>6. PICK new : new = [content |-> content, at |-> now, brought |-> {}]
      OBVIOUS
  <2>7. /\ rows' = ss /\ now' = now /\ edits' = [edits EXCEPT ![e] = {new}]
        /\ \E i \in 1..n : rows[i].entry = e
      BY <1>2, <1>7, <2>1, <2>5, <2>6 DEF Store!Update
  <2>8. OneRowEach(ss) /\ Len(ss) = n
        /\ \A k \in 1..n : /\ ss[k].entry = edited[k].entry /\ ss[k].content = edited[k].content
                           /\ ss[k].updated = edited[k].updated
      BY <2>3, <2>4, <2>5, NormalKeeps
  <2>9. edits' \in [Entries -> SUBSET Edits]
    <3>1. new \in Edits
        BY <1>1, <1>7, <2>6 DEF Edits
    <3>2. QED BY <1>1, <2>7, <3>1
  <2>10. ASSUME NEW d \in Entries, edits'[d] # {} PROVE \E k \in 1..Len(ss) : ss[k].entry = d
    <3>1. PICK i \in 1..n : rows[i].entry = d
        BY <1>1, <1>4, <2>7, <2>10
    <3>2. QED BY <2>2, <2>8, <3>1
  <2>11. ASSUME NEW k \in 1..Len(ss) PROVE Stood(ss[k], edits'[ss[k].entry])
    <3>1. k \in 1..n /\ ss[k].entry = rows[k].entry /\ rows[k].entry \in Entries
        BY <1>2, <2>2, <2>8, <2>11
    <3>2. CASE rows[k].entry = e
      <4>1. ss[k].content = content /\ ss[k].updated = now /\ edits'[e] = {new}
          BY <1>1, <2>2, <2>7, <2>8, <3>1, <3>2
      <4>2. QED BY <2>6, <3>1, <3>2, <4>1 DEF Stood
    <3>3. CASE rows[k].entry # e
      <4>1. ss[k].content = rows[k].content /\ ss[k].updated = rows[k].updated
          BY <2>2, <2>8, <3>1, <3>3
      <4>2. edits'[ss[k].entry] = edits[rows[k].entry]
          BY <1>1, <2>7, <3>1, <3>3
      <4>3. QED BY <1>3, <3>1, <4>1, <4>2 DEF Stood
    <3>4. QED BY <3>2, <3>3
  <2>12. QED BY <1>1, <2>7, <2>8, <2>9, <2>10, <2>11 DEF StoreOK
<1>8. CASE Store!Tick
    BY <1>8 DEF Store!Tick, StoreOK
<1>9. CASE UNCHANGED storeVars
    BY <1>9 DEF storeVars, StoreOK
<1>10. QED BY <1>5, <1>6, <1>7, <1>8, <1>9 DEF Store!Next

\* For all entries, windows, clocks and dimensions of embedding models, what the
\* operator made of an entry is replaced only by a window that came later and that
\* the platform does not stamp older than the edit (_merge_entry_record against
\* update_entry).
THEOREM EditsStandTheorem == Spec => []EditsStand
<1> DEFINE Inv == part = "store" => StoreOK
<1>1. Init => Inv
  <2>1. <<>> \in Seq(Row)
      OBVIOUS
  <2>2. QED BY <2>1 DEF Init, Store!Init, StoreOK, OneRowEach
<1>2. Inv /\ [Next]_vars => Inv'
    BY StepOfPart, StoreStep
<1>3. Inv => EditsStand
  <2>1. ASSUME StoreOK PROVE Store!EditsStand
    <3>1. DOMAIN rows = 1..Len(rows)
        BY <2>1 DEF StoreOK, OneRowEach
    <3>2. QED BY <2>1, <3>1 DEF StoreOK, Stood, Store!EditsStand
  <2>2. QED BY <2>1 DEF EditsStand
<1>4. QED BY <1>1, <1>2, <1>3, PTL DEF Spec

-----------------------------------------------------------------------------
(* The computer of a thread.                                                *)

\* A run whose docker run has returned, the table, a docker rm under way and an
\* abandoned container never exist together, and docker runs a container exactly
\* while one does.  A run that has not begun is in no await.
OneContainer ==
    /\ \A r \in Runs : status[r] = "new" => at[r].step = "idle"
    /\ \A r \in Runs : at[r].step = "up" =>
          /\ docker = TRUE /\ container = FALSE /\ op.step # "rm" /\ abandoned = FALSE
          /\ \A q \in Runs : at[q].step = "up" => q = r
    /\ container = TRUE => docker = TRUE /\ op.step # "rm" /\ abandoned = FALSE
    /\ op.step = "rm" => docker = TRUE /\ abandoned = FALSE
    /\ abandoned = TRUE => docker = TRUE
    /\ docker = TRUE =>
          \/ container = TRUE \/ op.step = "rm" \/ abandoned = TRUE
          \/ \E r \in Runs : at[r].step = "up"

\* Past its check, a request without force knows every run that it found or that
\* came since.
Listed ==
    /\ op.step = "listed" => Box!Seen \subseteq op.seen \cup op.fresh
    /\ op.step = "close" => op.force = TRUE
    /\ op.step \in {"runtime", "rm", "stopped"} /\ op.force = FALSE => Box!Seen \subseteq op.fresh

BoxOK == Box!TypeOK /\ OneContainer /\ Box!ShellsAreKnown /\ Listed

Op == [step : Box!OpSteps, prune : BOOLEAN, force : BOOLEAN, seen : SUBSET Runs,
       todo : SUBSET Shells, cur : Shells \cup {None}, fresh : SUBSET Runs]

\* The variables keep their types.
LEMMA BoxTypeStep ==
    ASSUME Box!TypeOK, Box!Next \/ UNCHANGED computerVars
    PROVE  Box!TypeOK'
<1>1. ASSUME NEW r \in Runs, Box!Prepare(r) PROVE Box!TypeOK'
  <2>1. views' \in [Runs -> SUBSET Skills] /\ op' \in Op
      BY <1>1, ServicesAssumption
         DEF Box!Prepare, Box!BuildWorldView, Box!EnsureSkillsView, Box!TypeOK, Op
  <2>2. /\ status' \in [Runs -> {"new", "running", "cancelled", "ended"}]
        /\ at' \in [Runs -> [step : Box!Steps, sid : Shells \cup {None}]]
    <3>1. CASE Backend[r] = "remote"
        BY <1>1, <3>1 DEF Box!Prepare, Box!TypeOK, Box!Steps
    <3>2. CASE Backend[r] # "remote"
        BY <1>1, <3>2 DEF Box!Prepare, Box!TypeOK, Box!Steps
    <3>3. QED BY <3>1, <3>2
  <2>3. QED BY <1>1, <2>1, <2>2 DEF Box!Prepare, Box!BuildWorldView, Box!box, Box!lost, Box!TypeOK, Op
<1>2. ASSUME NEW r \in Runs, Box!StageAttachments(r) PROVE Box!TypeOK'
    BY <1>2, ServicesAssumption DEF Box!StageAttachments, Box!Idle, Box!box, Box!lost, Box!TypeOK,
       Box!Steps, Box!OpSteps
<1>3. ASSUME NEW r \in Runs, Box!WriteWorkspace(r) PROVE Box!TypeOK'
    BY <1>3, ServicesAssumption DEF Box!WriteWorkspace, Box!box, Box!lost, Box!TypeOK, Box!Steps,
       Box!OpSteps
<1>4. ASSUME NEW r \in Runs, Box!ExecOnce(r) PROVE Box!TypeOK'
    BY <1>4, ServicesAssumption DEF Box!ExecOnce, Box!Spawn, Box!AfterEnsure, Box!disk, Box!box, Box!lost,
       Box!TypeOK, Box!Steps, Box!OpSteps
<1>5. ASSUME NEW r \in Runs, Box!OpenSession(r) PROVE Box!TypeOK'
    BY <1>5, ServicesAssumption DEF Box!OpenSession, Box!Spawn, Box!AfterEnsure, Box!disk,
       Box!box, Box!lost, Box!TypeOK, Box!Steps, Box!OpSteps
<1>6. ASSUME NEW r \in Runs, Box!DockerRun(r) PROVE Box!TypeOK'
  <2>1. CASE docker' = TRUE /\ workspace' = TRUE /\ at' = [at EXCEPT ![r].step = "up"]
      BY <1>6, <2>1 DEF Box!DockerRun, Box!lost, Box!TypeOK, Box!Steps
  <2>2. CASE at' = [at EXCEPT ![r].step = "clash"] /\ UNCHANGED <<docker, workspace>>
      BY <1>6, <2>2 DEF Box!DockerRun, Box!lost, Box!TypeOK, Box!Steps
  <2>3. QED BY <1>6, <2>1, <2>2 DEF Box!DockerRun
<1>7. ASSUME NEW r \in Runs, Box!EnsureContainer(r) PROVE Box!TypeOK'
    BY <1>7, ServicesAssumption DEF Box!EnsureContainer, Box!lost, Box!Idle, Box!disk, Box!TypeOK,
       Box!Steps, Box!OpSteps
<1>8. ASSUME NEW r \in Runs, Box!ExecOnceEnd(r) PROVE Box!TypeOK'
    BY <1>8, ServicesAssumption DEF Box!ExecOnceEnd, Box!Idle, Box!disk, Box!box, Box!lost, Box!TypeOK,
       Box!Steps, Box!OpSteps
<1>9. ASSUME NEW r \in Runs, Box!OpenSessionEnd(r) PROVE Box!TypeOK'
  <2>1. /\ sessions' \in [Shells -> {None, "host", "docker", "remote"}]
        /\ kind' \in {None, "host", "docker", "remote"}
        /\ at' \in [Runs -> [step : Box!Steps, sid : Shells \cup {None}]]
      BY <1>9, ServicesAssumption DEF Box!OpenSessionEnd, Box!Idle, Box!TypeOK, Box!Steps
  <2>2. shells' \in SUBSET Shells /\ inside' \in SUBSET Shells
      BY <1>9 DEF Box!OpenSessionEnd, Box!HostShell, Box!DockerShell, Box!TypeOK
  <2>3. QED BY <1>9, <2>1, <2>2 DEF Box!OpenSessionEnd, Box!disk, Box!lost, Box!TypeOK
<1>10. ASSUME NEW r \in Runs, Box!CloseSessionEnd(r) PROVE Box!TypeOK'
  <2>1. /\ sessions' \in [Shells -> {None, "host", "docker", "remote"}]
        /\ shells' \in SUBSET Shells /\ inside' \in SUBSET Shells
        /\ UNCHANGED <<container, docker, abandoned, orphans>>
      BY <1>10 DEF Box!CloseSessionEnd, Box!Closed, Box!lost, Box!TypeOK
  <2>2. at' \in [Runs -> [step : Box!Steps, sid : Shells \cup {None}]]
      BY <1>10 DEF Box!CloseSessionEnd, Box!Idle, Box!TypeOK, Box!Steps
  <2>3. QED BY <1>10, <2>1, <2>2 DEF Box!CloseSessionEnd, Box!disk, Box!TypeOK
<1>11. ASSUME NEW r \in Runs, Box!Finish(r) PROVE Box!TypeOK'
    BY <1>11, ServicesAssumption DEF Box!Finish, Box!disk, Box!box, Box!lost, Box!TypeOK, Box!Steps,
       Box!OpSteps
<1>12. ASSUME NEW r \in Runs, Box!CancelSeen(r) PROVE Box!TypeOK'
    BY <1>12, ServicesAssumption DEF Box!CancelSeen, Box!disk, Box!box, Box!lost, Box!TypeOK, Box!Steps,
       Box!OpSteps
<1>13. ASSUME NEW r \in Runs, NEW k \in Skills, Box!EnsureSkillReady(r, k) PROVE Box!TypeOK'
    BY <1>13, ServicesAssumption DEF Box!EnsureSkillReady, Box!RefreshedView, Box!box, Box!lost,
       Box!TypeOK, Box!Steps, Box!OpSteps
<1>14. ASSUME NEW r \in Runs, NEW k \in Skills, Box!MarkSkillLoaded(r, k) PROVE Box!TypeOK'
    BY <1>14, ServicesAssumption DEF Box!MarkSkillLoaded, Box!box, Box!lost, Box!TypeOK, Box!Steps,
       Box!OpSteps
<1>15. ASSUME NEW r \in Runs, NEW s \in Shells, Box!WriteSession(r, s) PROVE Box!TypeOK'
    BY <1>15, ServicesAssumption DEF Box!WriteSession, Box!Open, Box!disk, Box!box, Box!lost, Box!TypeOK,
       Box!Steps, Box!OpSteps
<1>16. ASSUME NEW r \in Runs, NEW s \in Shells, Box!CloseSession(r, s) PROVE Box!TypeOK'
    BY <1>16, ServicesAssumption DEF Box!CloseSession, Box!Open, Box!disk, Box!box, Box!lost, Box!TypeOK,
       Box!Steps, Box!OpSteps
<1>17. ASSUME NEW prune \in BOOLEAN, NEW forced \in BOOLEAN, Box!ListActive(prune, forced)
       PROVE  Box!TypeOK'
    BY <1>17, ServicesAssumption DEF Box!ListActive, Box!Seen, Box!disk, Box!box, Box!lost, Box!TypeOK,
       Box!Steps, Box!OpSteps
<1>18. ASSUME NEW s \in Shells, Box!CloseNext(s) PROVE Box!TypeOK'
    BY <1>18, ServicesAssumption DEF Box!CloseNext, Box!NoOp, Box!disk, Box!box, Box!lost, Box!TypeOK,
       Box!Steps, Box!OpSteps
<1>19. CASE Box!OpCheck
    BY <1>19, ServicesAssumption DEF Box!OpCheck, Box!Open, Box!NoOp, Box!disk, Box!box, Box!lost,
       Box!TypeOK, Box!Steps, Box!OpSteps
<1>20. CASE Box!CloseNextEnd
  <2>1. /\ sessions' \in [Shells -> {None, "host", "docker", "remote"}]
        /\ shells' \in SUBSET Shells /\ inside' \in SUBSET Shells
        /\ UNCHANGED <<container, docker, abandoned, orphans>>
      BY <1>20 DEF Box!CloseNextEnd, Box!Closed, Box!lost, Box!TypeOK
  <2>2. op' \in Op
      BY <1>20, ServicesAssumption DEF Box!CloseNextEnd, Box!TypeOK, Op
  <2>3. QED BY <1>20, <2>1, <2>2 DEF Box!CloseNextEnd, Box!disk, Box!TypeOK, Op
<1>21. CASE Box!EnterRuntime
    BY <1>21, ServicesAssumption DEF Box!EnterRuntime, Box!Open, Box!disk, Box!box, Box!lost, Box!TypeOK,
       Box!Steps, Box!OpSteps
<1>22. CASE Box!StopSandbox
  <2>1. op' \in Op /\ container' \in BOOLEAN
    <3>1. CASE container' = FALSE /\ op' = [op EXCEPT !.step = "rm"]
        BY <3>1 DEF Box!TypeOK, Box!OpSteps, Op
    <3>2. CASE op' = [op EXCEPT !.step = "stopped"] /\ UNCHANGED container
        BY <3>2 DEF Box!TypeOK, Box!OpSteps, Op
    <3>3. QED BY <1>22, <3>1, <3>2 DEF Box!StopSandbox
  <2>2. QED BY <1>22, <2>1 DEF Box!StopSandbox, Box!lost, Box!disk, Box!TypeOK, Op
<1>23. CASE Box!DockerRm
    BY <1>23, ServicesAssumption DEF Box!DockerRm, Box!disk, Box!TypeOK, Box!Steps, Box!OpSteps
<1>24. CASE Box!Stopped
    BY <1>24, ServicesAssumption DEF Box!Stopped, Box!Open, Box!NoOp, Box!disk, Box!box, Box!lost,
       Box!TypeOK, Box!Steps, Box!OpSteps
<1>25. CASE Box!Pruned
    BY <1>25, ServicesAssumption DEF Box!Pruned, Box!NoOp, Box!box, Box!lost, Box!TypeOK, Box!Steps,
       Box!OpSteps
<1>26. CASE UNCHANGED computerVars
    BY <1>26 DEF computerVars, Box!TypeOK, Box!Steps, Box!OpSteps
<1>27. CASE Box!Restart
  <2>1. at' \in [Runs -> [step : Box!Steps, sid : Shells \cup {None}]]
      BY <1>27, ServicesAssumption DEF Box!Restart, Box!Idle, Box!Steps
  <2>2. /\ sessions' \in [Shells -> {None, "host", "docker", "remote"}]
        /\ status' \in [Runs -> {"new", "running", "cancelled", "ended"}]
        /\ op' \in Op
      BY <1>27 DEF Box!Restart, Box!NoOp, Box!TypeOK, Box!OpSteps, Op
  <2>3. {shells', inside', orphans'} \subseteq SUBSET Shells
      BY <1>27 DEF Box!Restart, Box!TypeOK
  <2>4. {docker', container', abandoned'} \subseteq BOOLEAN
      BY <1>27 DEF Box!Restart, Box!TypeOK
  <2>5. QED BY <1>27, <2>1, <2>2, <2>3, <2>4 DEF Box!Restart, Box!TypeOK, Op
<1>28. QED
    BY <1>1, <1>2, <1>3, <1>4, <1>5, <1>6, <1>7, <1>8, <1>9, <1>10, <1>11, <1>12, <1>13, <1>14,
       <1>15, <1>16, <1>17, <1>18, <1>19, <1>20, <1>21, <1>22, <1>23, <1>24, <1>25, <1>26, <1>27
    DEF Box!Next

\* There is one container, and where it stands is known.
LEMMA OneContainerStep ==
    ASSUME Box!TypeOK, OneContainer, Box!Next \/ UNCHANGED computerVars
    PROVE  OneContainer'
<1>1. ASSUME NEW r \in Runs, Box!Prepare(r) PROVE OneContainer'
  <2>1. PICK st \in {"end", "staging"}, goal \in {"ended", "running"} :
            /\ at' = [at EXCEPT ![r].step = st] /\ status' = [status EXCEPT ![r] = goal]
            /\ op' = [op EXCEPT !.fresh = @ \cup {r}]
            /\ UNCHANGED <<sessions, shells, kind, container, docker, abandoned>>
      BY <1>1 DEF Box!Prepare, Box!box, Box!lost
  <2>2. status[r] = "new" /\ at[r].step = "idle"
      BY <1>1 DEF Box!Prepare, OneContainer
  <2>3. /\ \A q \in Runs : at'[q].step = IF q = r THEN st ELSE at[q].step
        /\ \A q \in Runs : status'[q] = IF q = r THEN goal ELSE status[q]
    <3>1. DOMAIN at = Runs /\ status \in [Runs -> {"new", "running", "cancelled", "ended"}]
        BY DEF Box!TypeOK
    <3>2. \A q \in Runs : at[q] = [at[q] EXCEPT !.step = at[q].step] /\ "step" \in DOMAIN at[q]
        BY DEF Box!TypeOK
    <3>3. QED BY <2>1, <3>1, <3>2
  <2>4. /\ \A q \in Runs : at'[q].step = "up" <=> at[q].step = "up"
        /\ \A q \in Runs : status'[q] = "new" => at'[q].step = "idle"
      BY <2>2, <2>3 DEF OneContainer
  <2>5. op'.step = op.step
      BY <2>1 DEF Box!TypeOK
  <2>6. QED BY <2>1, <2>4, <2>5 DEF OneContainer
<1>2. ASSUME NEW r \in Runs, Box!StageAttachments(r) PROVE OneContainer'
    BY <1>2 DEF Box!StageAttachments, Box!Idle, Box!box, Box!lost, Box!TypeOK, OneContainer
<1>3. ASSUME NEW r \in Runs, Box!WriteWorkspace(r) PROVE OneContainer'
    BY <1>3 DEF Box!WriteWorkspace, Box!Ready, Box!box, Box!lost, Box!TypeOK, OneContainer
<1>4. ASSUME NEW r \in Runs, Box!ExecOnce(r) PROVE OneContainer'
    BY <1>4 DEF Box!ExecOnce, Box!Spawn, Box!Ready, Box!AfterEnsure, Box!box, Box!lost, Box!TypeOK,
       OneContainer
<1>5. ASSUME NEW r \in Runs, Box!OpenSession(r) PROVE OneContainer'
    BY <1>5 DEF Box!OpenSession, Box!Spawn, Box!Ready, Box!AfterEnsure, Box!box, Box!lost, Box!TypeOK,
       OneContainer
<1>6. ASSUME NEW r \in Runs, Box!DockerRun(r) PROVE OneContainer'
  <2>1. CASE docker # TRUE /\ docker' = TRUE /\ at' = [at EXCEPT ![r].step = "up"]
    <3>1. \A q \in Runs : at[q].step # "up"
        BY <2>1 DEF OneContainer
    <3>2. \A q \in Runs : at'[q].step = "up" <=> q = r
        BY <1>6, <2>1, <3>1 DEF Box!TypeOK
    <3>3. /\ container' = container /\ op' = op /\ container # TRUE /\ op.step # "rm"
          /\ container \in BOOLEAN /\ abandoned' = abandoned /\ abandoned = FALSE
        BY <1>6, <2>1 DEF Box!DockerRun, Box!lost, Box!TypeOK, OneContainer
    <3>4. \A q \in Runs : status'[q] = "new" => at'[q].step = "idle"
        BY <1>6, <2>1 DEF Box!DockerRun, Box!lost, Box!TypeOK, OneContainer
    <3>5. QED BY <1>6, <2>1, <3>2, <3>3, <3>4 DEF OneContainer
  <2>2. CASE at' = [at EXCEPT ![r].step = "clash"] /\ UNCHANGED docker
    <3>1. \A q \in Runs : at'[q].step = "up" <=> at[q].step = "up"
        BY <1>6, <2>2 DEF Box!DockerRun, Box!lost, Box!TypeOK
    <3>2. \A q \in Runs : status'[q] = "new" => at'[q].step = "idle"
        BY <1>6, <2>2 DEF Box!DockerRun, Box!lost, Box!TypeOK, OneContainer
    <3>3. QED BY <1>6, <2>2, <3>1, <3>2 DEF Box!DockerRun, Box!lost, OneContainer
  <2>3. docker \in BOOLEAN
      BY DEF Box!TypeOK
  <2>4. QED BY <1>6, <2>1, <2>2, <2>3 DEF Box!DockerRun
<1>7. ASSUME NEW r \in Runs, Box!EnsureContainer(r) PROVE OneContainer'
    BY <1>7 DEF Box!EnsureContainer, Box!lost, Box!Idle, Box!TypeOK, OneContainer
<1>8. ASSUME NEW r \in Runs, Box!ExecOnceEnd(r) PROVE OneContainer'
    BY <1>8 DEF Box!ExecOnceEnd, Box!Idle, Box!box, Box!lost, Box!TypeOK, OneContainer
<1>9. ASSUME NEW r \in Runs, Box!OpenSessionEnd(r) PROVE OneContainer'
    BY <1>9 DEF Box!OpenSessionEnd, Box!Idle, Box!box, Box!lost, Box!TypeOK, OneContainer
<1>10. ASSUME NEW r \in Runs, Box!CloseSessionEnd(r) PROVE OneContainer'
    BY <1>10 DEF Box!CloseSessionEnd, Box!Closed, Box!Idle, Box!lost, Box!TypeOK, OneContainer
<1>11. ASSUME NEW r \in Runs, Box!Finish(r) PROVE OneContainer'
    BY <1>11 DEF Box!Finish, Box!Ready, Box!box, Box!lost, Box!TypeOK, OneContainer
<1>12. ASSUME NEW r \in Runs, Box!CancelSeen(r) PROVE OneContainer'
    BY <1>12 DEF Box!CancelSeen, Box!box, Box!lost, Box!TypeOK, OneContainer
<1>13. ASSUME NEW r \in Runs, NEW k \in Skills, Box!EnsureSkillReady(r, k) PROVE OneContainer'
    BY <1>13 DEF Box!EnsureSkillReady, Box!Ready, Box!box, Box!lost, Box!TypeOK, OneContainer
<1>14. ASSUME NEW r \in Runs, NEW k \in Skills, Box!MarkSkillLoaded(r, k) PROVE OneContainer'
    BY <1>14 DEF Box!MarkSkillLoaded, Box!Ready, Box!box, Box!lost, Box!TypeOK, OneContainer
<1>15. ASSUME NEW r \in Runs, NEW s \in Shells, Box!WriteSession(r, s) PROVE OneContainer'
    BY <1>15 DEF Box!WriteSession, Box!Ready, Box!box, Box!lost, Box!TypeOK, OneContainer
<1>16. ASSUME NEW r \in Runs, NEW s \in Shells, Box!CloseSession(r, s) PROVE OneContainer'
    BY <1>16 DEF Box!CloseSession, Box!Ready, Box!box, Box!lost, Box!TypeOK, OneContainer
<1>17. ASSUME NEW prune \in BOOLEAN, NEW forced \in BOOLEAN, Box!ListActive(prune, forced)
       PROVE  OneContainer'
    BY <1>17 DEF Box!ListActive, Box!box, Box!lost, Box!TypeOK, OneContainer
<1>18. ASSUME NEW s \in Shells, Box!CloseNext(s) PROVE OneContainer'
    BY <1>18 DEF Box!CloseNext, Box!NoOp, Box!box, Box!lost, Box!TypeOK, OneContainer
<1>19. CASE Box!OpCheck
    BY <1>19 DEF Box!OpCheck, Box!NoOp, Box!box, Box!lost, Box!TypeOK, OneContainer
<1>20. CASE Box!CloseNextEnd
    BY <1>20 DEF Box!CloseNextEnd, Box!Closed, Box!lost, Box!TypeOK, OneContainer
<1>21. CASE Box!EnterRuntime
    BY <1>21 DEF Box!EnterRuntime, Box!box, Box!lost, Box!TypeOK, OneContainer
<1>22. CASE Box!StopSandbox
    BY <1>22 DEF Box!StopSandbox, Box!lost, Box!TypeOK, OneContainer
<1>23. CASE Box!DockerRm
    BY <1>23 DEF Box!DockerRm, Box!TypeOK, OneContainer
<1>24. CASE Box!Stopped
    BY <1>24 DEF Box!Stopped, Box!NoOp, Box!box, Box!lost, Box!TypeOK, OneContainer
<1>25. CASE Box!Pruned
    BY <1>25 DEF Box!Pruned, Box!NoOp, Box!box, Box!lost, Box!TypeOK, OneContainer
<1>26. CASE UNCHANGED computerVars
    BY <1>26 DEF computerVars, Box!TypeOK, OneContainer
<1>27. CASE Box!Restart
  <2>1. docker' \in BOOLEAN /\ abandoned' = docker' /\ container' = FALSE /\ op'.step = "idle"
      BY <1>27 DEF Box!Restart, Box!NoOp, Box!TypeOK
  <2>2. \A r \in Runs : /\ at'[r].step # "up"
                        /\ status'[r] = "new" => at'[r].step = "idle"
      BY <1>27 DEF Box!Restart, Box!Idle
  <2>3. QED BY <2>1, <2>2 DEF OneContainer
<1>28. QED
    BY <1>1, <1>2, <1>3, <1>4, <1>5, <1>6, <1>7, <1>8, <1>9, <1>10, <1>11, <1>12, <1>13, <1>14,
       <1>15, <1>16, <1>17, <1>18, <1>19, <1>20, <1>21, <1>22, <1>23, <1>24, <1>25, <1>26, <1>27
    DEF Box!Next

\* Every shell has a session or outlived a restart, and none is in a container
\* that is gone.
LEMMA ShellsStep ==
    ASSUME Box!TypeOK, Box!ShellsAreKnown, Box!Next \/ UNCHANGED computerVars
    PROVE  Box!ShellsAreKnown'
<1>1. ASSUME NEW r \in Runs, Box!Prepare(r) PROVE Box!ShellsAreKnown'
    BY <1>1 DEF Box!Prepare, Box!box, Box!lost, Box!TypeOK, Box!ShellsAreKnown, Box!Open
<1>2. ASSUME NEW r \in Runs, Box!StageAttachments(r) PROVE Box!ShellsAreKnown'
    BY <1>2 DEF Box!StageAttachments, Box!box, Box!lost, Box!TypeOK, Box!ShellsAreKnown, Box!Open
<1>3. ASSUME NEW r \in Runs, Box!WriteWorkspace(r) PROVE Box!ShellsAreKnown'
    BY <1>3 DEF Box!WriteWorkspace, Box!box, Box!lost, Box!TypeOK, Box!ShellsAreKnown, Box!Open
<1>4. ASSUME NEW r \in Runs, Box!ExecOnce(r) PROVE Box!ShellsAreKnown'
    BY <1>4 DEF Box!ExecOnce, Box!Spawn, Box!box, Box!lost, Box!TypeOK, Box!ShellsAreKnown, Box!Open
<1>5. ASSUME NEW r \in Runs, Box!OpenSession(r) PROVE Box!ShellsAreKnown'
    BY <1>5 DEF Box!OpenSession, Box!Spawn, Box!box, Box!lost, Box!TypeOK, Box!ShellsAreKnown, Box!Open
<1>6. ASSUME NEW r \in Runs, Box!DockerRun(r) PROVE Box!ShellsAreKnown'
    BY <1>6 DEF Box!DockerRun, Box!lost, Box!TypeOK, Box!ShellsAreKnown, Box!Open
<1>7. ASSUME NEW r \in Runs, Box!EnsureContainer(r) PROVE Box!ShellsAreKnown'
    BY <1>7 DEF Box!EnsureContainer, Box!lost, Box!TypeOK, Box!ShellsAreKnown, Box!Open
<1>8. ASSUME NEW r \in Runs, Box!ExecOnceEnd(r) PROVE Box!ShellsAreKnown'
    BY <1>8 DEF Box!ExecOnceEnd, Box!box, Box!lost, Box!TypeOK, Box!ShellsAreKnown, Box!Open
<1>9. ASSUME NEW r \in Runs, Box!OpenSessionEnd(r) PROVE Box!ShellsAreKnown'
  <2>1. PICK s \in Shells : s = at[r].sid
      BY <1>9 DEF Box!OpenSessionEnd, Box!box, Box!lost, Box!TypeOK
  <2>2. sessions' = [sessions EXCEPT ![s] = Backend[r]] /\ shells' \subseteq shells \cup {s}
      BY <1>9, <2>1 DEF Box!OpenSessionEnd, Box!HostShell, Box!DockerShell
  <2>3. Backend[r] # None
      BY <1>9, ServicesAssumption
  <2>4. shells' \subseteq Box!Open' \cup orphans'
      BY <1>9, <2>2, <2>3 DEF Box!OpenSessionEnd, Box!lost, Box!TypeOK, Box!ShellsAreKnown,
         Box!Open
  <2>5. inside' # {} => docker'
    <3>1. CASE docker = TRUE
        BY <1>9, <3>1 DEF Box!OpenSessionEnd
    <3>2. CASE docker = FALSE
        BY <1>9, <3>2 DEF Box!OpenSessionEnd, Box!DockerShell, Box!ShellsAreKnown
    <3>3. QED BY <3>1, <3>2 DEF Box!TypeOK
  <2>6. QED BY <2>4, <2>5 DEF Box!ShellsAreKnown
<1>10. ASSUME NEW r \in Runs, Box!CloseSessionEnd(r) PROVE Box!ShellsAreKnown'
    BY <1>10 DEF Box!CloseSessionEnd, Box!Closed, Box!box, Box!lost, Box!TypeOK, Box!ShellsAreKnown, Box!Open
<1>11. ASSUME NEW r \in Runs, Box!Finish(r) PROVE Box!ShellsAreKnown'
    BY <1>11 DEF Box!Finish, Box!box, Box!lost, Box!TypeOK, Box!ShellsAreKnown, Box!Open
<1>12. ASSUME NEW r \in Runs, Box!CancelSeen(r) PROVE Box!ShellsAreKnown'
    BY <1>12 DEF Box!CancelSeen, Box!box, Box!lost, Box!TypeOK, Box!ShellsAreKnown, Box!Open
<1>13. ASSUME NEW r \in Runs, NEW k \in Skills, Box!EnsureSkillReady(r, k) PROVE Box!ShellsAreKnown'
    BY <1>13 DEF Box!EnsureSkillReady, Box!box, Box!lost, Box!TypeOK, Box!ShellsAreKnown, Box!Open
<1>14. ASSUME NEW r \in Runs, NEW k \in Skills, Box!MarkSkillLoaded(r, k) PROVE Box!ShellsAreKnown'
    BY <1>14 DEF Box!MarkSkillLoaded, Box!box, Box!lost, Box!TypeOK, Box!ShellsAreKnown, Box!Open
<1>15. ASSUME NEW r \in Runs, NEW s \in Shells, Box!WriteSession(r, s) PROVE Box!ShellsAreKnown'
    BY <1>15 DEF Box!WriteSession, Box!Open, Box!box, Box!lost, Box!TypeOK, Box!ShellsAreKnown
<1>16. ASSUME NEW r \in Runs, NEW s \in Shells, Box!CloseSession(r, s) PROVE Box!ShellsAreKnown'
    BY <1>16 DEF Box!CloseSession, Box!Open, Box!box, Box!lost, Box!TypeOK, Box!ShellsAreKnown
<1>17. ASSUME NEW prune \in BOOLEAN, NEW forced \in BOOLEAN, Box!ListActive(prune, forced)
       PROVE  Box!ShellsAreKnown'
    BY <1>17 DEF Box!ListActive, Box!box, Box!lost, Box!TypeOK, Box!ShellsAreKnown, Box!Open
<1>18. ASSUME NEW s \in Shells, Box!CloseNext(s) PROVE Box!ShellsAreKnown'
    BY <1>18 DEF Box!CloseNext, Box!box, Box!lost, Box!TypeOK, Box!ShellsAreKnown, Box!Open
<1>19. CASE Box!OpCheck
    BY <1>19 DEF Box!OpCheck, Box!Open, Box!box, Box!lost, Box!TypeOK, Box!ShellsAreKnown
<1>20. CASE Box!CloseNextEnd
    BY <1>20 DEF Box!CloseNextEnd, Box!Closed, Box!box, Box!lost, Box!TypeOK, Box!ShellsAreKnown, Box!Open
<1>21. CASE Box!EnterRuntime
    BY <1>21 DEF Box!EnterRuntime, Box!Open, Box!box, Box!lost, Box!TypeOK, Box!ShellsAreKnown
<1>22. CASE Box!StopSandbox
    BY <1>22 DEF Box!StopSandbox, Box!lost, Box!Open, Box!TypeOK, Box!ShellsAreKnown
<1>23. CASE Box!DockerRm
    BY <1>23 DEF Box!DockerRm, Box!box, Box!lost, Box!TypeOK, Box!ShellsAreKnown, Box!Open
<1>24. CASE Box!Stopped
    BY <1>24 DEF Box!Stopped, Box!Open, Box!box, Box!lost, Box!TypeOK, Box!ShellsAreKnown
<1>25. CASE Box!Pruned
    BY <1>25 DEF Box!Pruned, Box!box, Box!lost, Box!TypeOK, Box!ShellsAreKnown, Box!Open
<1>26. CASE UNCHANGED computerVars
    BY <1>26 DEF computerVars, Box!TypeOK, Box!ShellsAreKnown, Box!Open
<1>27. CASE Box!Restart
    BY <1>27 DEF Box!Restart, Box!TypeOK, Box!ShellsAreKnown
<1>28. QED
    BY <1>1, <1>2, <1>3, <1>4, <1>5, <1>6, <1>7, <1>8, <1>9, <1>10, <1>11, <1>12, <1>13, <1>14,
       <1>15, <1>16, <1>17, <1>18, <1>19, <1>20, <1>21, <1>22, <1>23, <1>24, <1>25, <1>26, <1>27
    DEF Box!Next

\* What the operator's request knows of the runs.
LEMMA ListedStep ==
    ASSUME Box!TypeOK, Listed, Box!Next \/ UNCHANGED computerVars
    PROVE  Listed'
<1>1. ASSUME NEW r \in Runs, Box!Prepare(r) PROVE Listed'
    BY <1>1 DEF Box!Prepare, Box!TypeOK, Listed, Box!Seen
<1>2. ASSUME NEW r \in Runs, Box!StageAttachments(r) PROVE Listed'
    BY <1>2 DEF Box!StageAttachments, Box!TypeOK, Listed, Box!Seen
<1>3. ASSUME NEW r \in Runs, Box!WriteWorkspace(r) PROVE Listed'
    BY <1>3 DEF Box!WriteWorkspace, Box!TypeOK, Listed, Box!Seen
<1>4. ASSUME NEW r \in Runs, Box!ExecOnce(r) PROVE Listed'
    BY <1>4 DEF Box!ExecOnce, Box!Spawn, Box!TypeOK, Listed, Box!Seen
<1>5. ASSUME NEW r \in Runs, Box!OpenSession(r) PROVE Listed'
    BY <1>5 DEF Box!OpenSession, Box!Spawn, Box!TypeOK, Listed, Box!Seen
<1>6. ASSUME NEW r \in Runs, Box!DockerRun(r) PROVE Listed'
    BY <1>6 DEF Box!DockerRun, Box!lost, Box!TypeOK, Listed, Box!Seen
<1>7. ASSUME NEW r \in Runs, Box!EnsureContainer(r) PROVE Listed'
    BY <1>7 DEF Box!EnsureContainer, Box!lost, Box!TypeOK, Listed, Box!Seen
<1>8. ASSUME NEW r \in Runs, Box!ExecOnceEnd(r) PROVE Listed'
    BY <1>8 DEF Box!ExecOnceEnd, Box!TypeOK, Listed, Box!Seen
<1>9. ASSUME NEW r \in Runs, Box!OpenSessionEnd(r) PROVE Listed'
    BY <1>9 DEF Box!OpenSessionEnd, Box!TypeOK, Listed, Box!Seen
<1>10. ASSUME NEW r \in Runs, Box!CloseSessionEnd(r) PROVE Listed'
    BY <1>10 DEF Box!CloseSessionEnd, Box!TypeOK, Listed, Box!Seen
<1>11. ASSUME NEW r \in Runs, Box!Finish(r) PROVE Listed'
    BY <1>11 DEF Box!Finish, Box!TypeOK, Listed, Box!Seen
<1>12. ASSUME NEW r \in Runs, Box!CancelSeen(r) PROVE Listed'
    BY <1>12 DEF Box!CancelSeen, Box!TypeOK, Listed, Box!Seen
<1>13. ASSUME NEW r \in Runs, NEW k \in Skills, Box!EnsureSkillReady(r, k) PROVE Listed'
    BY <1>13 DEF Box!EnsureSkillReady, Box!TypeOK, Listed, Box!Seen
<1>14. ASSUME NEW r \in Runs, NEW k \in Skills, Box!MarkSkillLoaded(r, k) PROVE Listed'
    BY <1>14 DEF Box!MarkSkillLoaded, Box!TypeOK, Listed, Box!Seen
<1>15. ASSUME NEW r \in Runs, NEW s \in Shells, Box!WriteSession(r, s) PROVE Listed'
    BY <1>15 DEF Box!WriteSession, Box!TypeOK, Listed, Box!Seen
<1>16. ASSUME NEW r \in Runs, NEW s \in Shells, Box!CloseSession(r, s) PROVE Listed'
    BY <1>16 DEF Box!CloseSession, Box!TypeOK, Listed, Box!Seen
<1>17. ASSUME NEW prune \in BOOLEAN, NEW forced \in BOOLEAN, Box!ListActive(prune, forced)
       PROVE  Listed'
    BY <1>17 DEF Box!ListActive, Box!Seen, Box!TypeOK, Listed
<1>18. ASSUME NEW s \in Shells, Box!CloseNext(s) PROVE Listed'
    BY <1>18 DEF Box!CloseNext, Box!NoOp, Box!TypeOK, Listed, Box!Seen
<1>19. CASE Box!OpCheck
    BY <1>19 DEF Box!OpCheck, Box!InUse, Box!NoOp, Box!TypeOK, Listed, Box!Seen
<1>20. CASE Box!CloseNextEnd
    BY <1>20 DEF Box!CloseNextEnd, Box!TypeOK, Listed, Box!Seen
<1>21. CASE Box!EnterRuntime
    BY <1>21 DEF Box!EnterRuntime, Box!TypeOK, Listed, Box!Seen
<1>22. CASE Box!StopSandbox
    BY <1>22 DEF Box!StopSandbox, Box!lost, Box!TypeOK, Listed, Box!Seen
<1>23. CASE Box!DockerRm
    BY <1>23 DEF Box!DockerRm, Box!TypeOK, Listed, Box!Seen
<1>24. CASE Box!Stopped
    BY <1>24 DEF Box!Stopped, Box!NoOp, Box!TypeOK, Listed, Box!Seen
<1>25. CASE Box!Pruned
    BY <1>25 DEF Box!Pruned, Box!NoOp, Box!TypeOK, Listed, Box!Seen
<1>26. CASE UNCHANGED computerVars
    BY <1>26 DEF computerVars, Box!TypeOK, Listed, Box!Seen
<1>27. CASE Box!Restart
    BY <1>27 DEF Box!Restart, Box!NoOp, Listed
<1>28. QED
    BY <1>1, <1>2, <1>3, <1>4, <1>5, <1>6, <1>7, <1>8, <1>9, <1>10, <1>11, <1>12, <1>13, <1>14,
       <1>15, <1>16, <1>17, <1>18, <1>19, <1>20, <1>21, <1>22, <1>23, <1>24, <1>25, <1>26, <1>27
    DEF Box!Next

\* Only the end of a prune takes the workspace.
LEMMA WorkspaceTaken ==
    ASSUME Box!TypeOK, Box!Next \/ UNCHANGED computerVars, workspace, ~ workspace'
    PROVE  op.step = "stopped"
BY DEF Box!Next, computerVars, Box!Prepare, Box!BuildWorldView, Box!StageAttachments,
       Box!WriteWorkspace, Box!ExecOnce, Box!OpenSession, Box!Spawn, Box!DockerRun,
       Box!EnsureContainer, Box!ExecOnceEnd, Box!OpenSessionEnd, Box!CloseSessionEnd,
       Box!Finish, Box!EnsureSkillReady, Box!MarkSkillLoaded, Box!WriteSession,
       Box!CloseSession, Box!CancelSeen, Box!ListActive, Box!CloseNext, Box!OpCheck,
       Box!CloseNextEnd, Box!EnterRuntime, Box!StopSandbox, Box!DockerRm, Box!Stopped,
       Box!Pruned, Box!Restart, Box!disk

\* Runs and operators on one thread, whatever awaits they meet in.
LEMMA BoxStep ==
    ASSUME BoxOK, Box!Next \/ UNCHANGED computerVars
    PROVE  BoxOK' /\ Box!SparesSeen
<1>1. BoxOK'
    BY BoxTypeStep, OneContainerStep, ShellsStep, ListedStep DEF BoxOK
<1>2. ASSUME workspace, ~ workspace', ~ op.force PROVE Box!Seen \subseteq op.fresh
  <2>1. op.step = "stopped" /\ op.force = FALSE
      BY <1>2, WorkspaceTaken DEF BoxOK, Box!TypeOK
  <2>2. QED BY <2>1 DEF BoxOK, Listed
<1>3. QED BY <1>1, <1>2 DEF Box!SparesSeen

LEMMA BoxInvariant == Spec => [](part = "computer" => BoxOK)
<1> DEFINE Inv == part = "computer" => BoxOK
<1>1. Init => Inv
  <2>1. SUFFICES ASSUME Box!Init PROVE BoxOK
      BY DEF Init
  <2>2. Box!Idle \in [step : Box!Steps, sid : Shells \cup {None}]
      BY DEF Box!Idle, Box!Steps
  <2>3. Box!NoOp \in Op
      BY DEF Box!NoOp, Box!OpSteps, Op
  <2>4. Box!TypeOK
      BY <2>1, <2>2, <2>3 DEF Box!Init, Box!TypeOK, Op
  <2>5. OneContainer
      BY <2>1 DEF Box!Init, Box!Idle, Box!NoOp, OneContainer
  <2>6. Box!ShellsAreKnown /\ Listed
      BY <2>1 DEF Box!Init, Box!NoOp, Box!ShellsAreKnown, Listed
  <2>7. QED BY <2>4, <2>5, <2>6 DEF BoxOK
<1>2. Inv /\ [Next]_vars => Inv'
    BY StepOfPart, BoxStep
<1>3. QED BY <1>1, <1>2, PTL DEF Spec

\* For all runs, shells, skills and backends of a thread, tables and reality
\* agree while runs and operators interleave: every running container and every
\* shell is known to the runtime, on its way in or out, or was left by a docker rm
\* that failed or by a restart (_ensure_container, stop_workspace_sandbox,
\* prune_workspace).
THEOREM NothingForgottenTheorem == Spec => []NothingForgotten
<1>1. (part = "computer" => BoxOK) => NothingForgotten
    BY DEF BoxOK, OneContainer, NothingForgotten, Box!NothingForgotten, Box!ContainerKnown, Box!TypeOK
<1>2. QED BY BoxInvariant, <1>1, PTL

\* For all runs, shells and requests, an operator who does not force never takes
\* the workspace from a run that was running when the request listed the active
\* runs (workspace_ops.py).
THEOREM SparesTheorem == Spec => SparesRunsItSaw
<1>1. (part = "computer" => BoxOK) /\ [Next]_vars => [part = "computer" => Box!SparesSeen]_vars
    BY StepOfPart, BoxStep
<1>2. QED BY BoxInvariant, <1>1, PTL DEF Spec, SparesRunsItSaw

=============================================================================
