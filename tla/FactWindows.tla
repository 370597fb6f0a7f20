---------------------------- MODULE FactWindows ----------------------------
(***************************************************************************)
(* slice_fact_windows: a delta of n facts is cut into windows of a given   *)
(* size that overlap, so that what is said across a boundary is seen in    *)
(* one piece.  A window is the set of the (1-based) positions it holds.    *)
(***************************************************************************)
EXTENDS Integers, Sequences, FiniteSets

Larger(a, b) == IF a > b THEN a ELSE b

\* normalized_window_size.
WindowSize(size) == Larger(1, size)

\* step_size, for any configured numbers.
StepSize(size, overlap) == Larger(1, WindowSize(size) - Larger(0, overlap))

\* facts[start : start + size]
WindowAt(start, size, n) == {i \in 1..n : start < i /\ i <= start + size}

\* FAULT: the loop ends one step early.
SliceShort(size, overlap, n) ==
    LET w == WindowSize(size)
        from[start \in Nat] ==
            IF start + w >= n THEN <<>>
            ELSE <<WindowAt(start, w, n)>> \o from[start + StepSize(size, overlap)]
    IN from[0]

\* The loop of slice_fact_windows: it stops with the window that reaches the
\* last fact.
Slice(size, overlap, n) ==
    LET w == WindowSize(size)
        from[start \in Nat] ==
            IF start >= n THEN <<>>
            ELSE IF start + w >= n THEN <<WindowAt(start, w, n)>>
            ELSE <<WindowAt(start, w, n)>> \o from[start + StepSize(size, overlap)]
    IN from[0]

\* Every fact is in a window, and neighbours share what the overlap asks for, but
\* never the whole window.
Covers(size, overlap, n) ==
    LET windows == Slice(size, overlap, n)
        width   == WindowSize(size)
    IN /\ UNION {windows[k] : k \in DOMAIN windows} = 1..n
       /\ \A k \in 1..(Len(windows) - 1) :
            /\ Cardinality(windows[k]) = width
            /\ Cardinality(windows[k] \cap windows[k + 1]) =
                 IF overlap <= 0 THEN 0 ELSE IF overlap < width THEN overlap ELSE width - 1

=============================================================================
