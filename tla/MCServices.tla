----------------------------- MODULE MCServices -----------------------------
(* Instance of the six parts of Services for TLC.                            *)
EXTENDS Services, TLC

CONSTANTS
    i1, i2, j1, j2,                 \* entries, sessions, gateways; contents, calls
    q1, q2, q3,                     \* backend requests
    f1, f2, f3,                     \* session files of pi
    d, k1, t1,                      \* console: prompt, skill, tool
    u, g, x, l1, l2, bl, t, to, ex, hid,  \* notes and soul files
    d1, d0,                         \* directories scanned for skills
    r1, r2, h1                      \* a thread's runs and shell session

MCConversationOf == [e \in Entries |-> 1]

\* Queries come from the tool, changes from the administrator.
MCKind == [q \in Requests |-> IF q = q1 THEN "query" ELSE "change"]
MCSource == [q \in Requests |->
    IF q = q1 THEN "tool" ELSE IF q = q2 THEN "private" ELSE "bang"]

\* A skill package, with a good or a bad SKILL.md.
MCPackages == {[name |-> k1, valid |-> TRUE], [name |-> k1, valid |-> FALSE]}

\* Two runs of a thread, whose policies name docker and the host.  (A run of a
\* remote backend ends where it prepares its context.)
MCBackend == [r \in Runs |-> IF r = r2 THEN "host" ELSE "docker"]
MCVisible == [r \in Runs |-> IF r = r1 THEN {k1} ELSE {}]

\* A behaviour is one of one part, so the parts share their interchangeable values:
\* entries and contents, sessions and calls of the console, the gateway's addresses.
Interchangeable == Permutations({i1, i2}) \cup Permutations({j1, j2})
=============================================================================
