SPECIFICATION Spec
CONSTANTS
    i1 = i1  i2 = i2  j1 = j1  j2 = j2  q1 = q1  q2 = q2  q3 = q3
    f1 = f1  f2 = f2  f3 = f3  d = d
    k1 = k1  t1 = t1  u = u  g = g  x = x
    l1 = l1  l2 = l2  bl = bl  t = t  to = to  ex = ex  hid = hid
    d1 = d1  d0 = d0  r1 = r1  r2 = r2
    h1 = h1  None = None
    Parts = {"store", "bridge", "console", "note", "setting", "computer"}
    Entries = {i1, i2}
    ConversationOf <- MCConversationOf
    Contents = {j1, j2}
    Dimensions = {3, 4}
    MaxBatch = 2
    MaxTime = 1
    Requests = {q1, q2, q3}
    Kind <- MCKind
    Source <- MCSource
    PiSessions = {f1, f2, f3}
    Sessions = {i1, i2}
    Prompts = {d}
    DefaultPrompt = d
    Packages <- MCPackages
    Tools = {t1}
    Calls = {j1, j2}
    Entities = {u, g, x}
    Parses = {u, g}
    Lines = {l1, l2, bl}
    Blank = {bl}
    Texts = {t, None}
    Today = to
    Files = {to, ex, hid}
    Hidden = {hid}
    Widths = {0, 2}
    MinWidth = 3
    DefaultWidth = 5
    Sizes = {1, 2}
    Gateways = {i1, i2}
    Dirs = {d1}
    DefaultDirs = d0
    Runs = {r1, r2}
    Shells = {h1}
    Skills = {k1}
    Catalog = {k1}
    Backend <- MCBackend
    Visible <- MCVisible
SYMMETRY Interchangeable
INVARIANTS
    EditsStand CanonicalLine CreatedHasTarget NotesKept ShownIsInForce NothingForgotten
PROPERTIES
    LoadableStays SparesRunsItSaw
CHECK_DEADLOCK FALSE
