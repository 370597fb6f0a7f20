------------------------------ MODULE LtmStore ------------------------------
(***************************************************************************)
(* The memory_entries table of LanceDbLongTermMemoryStore.  Every write    *)
(* reads the whole table, changes it and rewrites it under _write_lock, so *)
(* a call is one step.  Entries come from the ingest worker, which may     *)
(* bring the same entry again (overlapping windows, a crash before the     *)
(* cursor moved); edits and deletions come from the web console.  A window *)
(* is stamped with the platform's time of its newest fact, an edit with    *)
(* the host's: neither clock follows the other.                            *)
(*                                                                         *)
(* A row's text fields are one content; created_at, which no call goes by, *)
(* is left out.  A vector is its dimension (0 for none) and whether it     *)
(* came from the embedding model.                                          *)
(*                                                                         *)
(* FAULT marks faulty variants of the definition that follows.             *)
(***************************************************************************)
EXTENDS Integers, Sequences, FiniteSets, Places

CONSTANTS
    Entries,         \* entry ids
    ConversationOf,  \* entry -> the conversation its id is made from
    Contents,
    Dimensions,      \* of the embedding models in use, all above 1
    MaxBatch,        \* bound: the entries of a window
    MaxTime          \* bound: the clocks

VARIABLES
    rows,   \* memory_entries, in table order
    now,    \* time.time()
    edits   \* history: edits[e]: the last edit of a row, if any, and the stamps of
            \* the windows that brought the entry again since

vars == <<rows, now, edits>>

Vector(dim, real) == [dim |-> dim, real |-> real]
NoVector == Vector(0, FALSE)

TypeOK ==
    /\ \A i \in DOMAIN rows :
        /\ rows[i].entry \in Entries /\ rows[i].content \in Contents
        /\ rows[i].updated \in 0..MaxTime
        /\ rows[i].has \in BOOLEAN
        /\ rows[i].vector.dim \in Dimensions \cup {1} /\ rows[i].vector.real \in BOOLEAN
    /\ now \in 0..MaxTime

Init == rows = <<>> /\ now = 0 /\ edits = [e \in Entries |-> {}]

\* _entry_to_record
Record(e, content, at, dim) ==
    [entry |-> e, content |-> content, updated |-> at,
     has |-> dim # 0, vector |-> Vector(dim, dim # 0)]

\* FAULT: the row that comes last wins.
MergeLast(old, new) == IF old.content = new.content THEN old ELSE new

\* _merge_entry_record and _entry_payload_changed
Merge(old, new) ==
    IF old.content = new.content
    THEN IF ~ old.has /\ new.has THEN [old EXCEPT !.vector = new.vector, !.has = TRUE] ELSE old
    ELSE IF old.updated > new.updated THEN old ELSE new

\* current_rows[entry_id] = merged: a dict keeps the place of a known key.
Put(rs, new) ==
    IF \E i \in DOMAIN rs : rs[i].entry = new.entry
    THEN [i \in DOMAIN rs |-> IF rs[i].entry = new.entry THEN Merge(rs[i], new) ELSE rs[i]]
    ELSE Append(rs, new)

\* target_dim: the dimension of the first vector, placeholder or not.
TargetDim(rs) ==
    LET with == {i \in DOMAIN rs : rs[i].vector.dim # 0}
    IN IF with = {} THEN 1 ELSE rs[Nth(with, 1)].vector.dim

\* _normalize_entry_vectors raises unless this holds ...
Fits(rs) == \A i \in DOMAIN rs : rs[i].vector.dim \in {0, TargetDim(rs)}

\* ... and gives rows without a vector one of zeros.  Such a row has a vector
\* the next time the table is normalised.
Normalized(rs) ==
    [i \in DOMAIN rs |->
        IF rs[i].vector.dim # 0 THEN [rs[i] EXCEPT !.has = TRUE]
        ELSE [rs[i] EXCEPT !.has = FALSE, !.vector = Vector(TargetDim(rs), FALSE)]]

\* The rows after the first n entries of a window.
Merged(batch, at) ==
    LET put[n \in 0..Len(batch)] ==
            IF n = 0 THEN rows
            ELSE Put(put[n - 1], Record(batch[n].entry, batch[n].content, at, batch[n].dim))
    IN put

\* A window brings entries that were edited.
Brought(batch, at) ==
    [e \in Entries |->
        {IF \E i \in DOMAIN batch : batch[i].entry = e
         THEN [edit EXCEPT !.brought = @ \cup {at}] ELSE edit : edit \in edits[e]}]

\* upsert_entries with the entries of one window, whose newest fact the platform
\* stamps with the time at, whatever the host's clock says.
Upsert(batch, at) ==
    LET all == Merged(batch, at)[Len(batch)]
    IN /\ rows' = IF Fits(all) THEN Normalized(all) ELSE rows
       /\ edits' = IF Fits(all) THEN Brought(batch, at) ELSE edits
       /\ UNCHANGED now

\* delete_entry and delete_entries_by_conversation
Delete(gone) ==
    LET kept == Chosen(rows, {i \in DOMAIN rows : rows[i].entry \notin gone})
    IN /\ \E i \in DOMAIN rows : rows[i].entry \in gone
       /\ Fits(kept)
       /\ rows' = Normalized(kept) /\ UNCHANGED now
       /\ edits' = [e \in Entries |-> IF e \in gone THEN {} ELSE edits[e]]

\* update_entry keeps the vector of the old content.
Update(e, content) ==
    LET edited == [i \in DOMAIN rows |->
                    IF rows[i].entry = e THEN [rows[i] EXCEPT !.content = content, !.updated = now] ELSE rows[i]]
    IN /\ \E i \in DOMAIN rows : rows[i].entry = e
       /\ Fits(edited)
       /\ rows' = Normalized(edited) /\ UNCHANGED now
       /\ edits' = [edits EXCEPT ![e] = {[content |-> content, at |-> now, brought |-> {}]}]

Tick == now < MaxTime /\ now' = now + 1 /\ UNCHANGED <<rows, edits>>

Item == [entry : Entries, content : Contents, dim : Dimensions \cup {0}]

\* What a window may bring: entries of one conversation, one of them twice when
\* the model cites the same facts again.  One embedding model makes the vectors;
\* it may return fewer than it was asked for, and the entries at the end then get
\* none.
Batches ==
    {b \in UNION {[1..n -> Item] : n \in 1..MaxBatch} :
        \A i, j \in DOMAIN b :
            /\ ConversationOf[b[i].entry] = ConversationOf[b[j].entry]
            /\ i < j => b[j].dim \in {0, b[i].dim}}

InConversation(c) == {e \in Entries : ConversationOf[e] = c}

Next ==
    \/ \E b \in Batches, at \in 0..MaxTime : Upsert(b, at)
    \/ \E e \in Entries : Delete({e})
    \/ \E e \in Entries : Delete(InConversation(ConversationOf[e]))
    \/ \E e \in Entries, c \in Contents : Update(e, c)
    \/ Tick

Spec == Init /\ [][Next]_vars

-----------------------------------------------------------------------------
(* Properties.                                                               *)

\* _merge_entry_record against update_entry: what the operator made of an entry
\* stays, over repeated windows, deletions of other entries and calls that raise,
\* until a window comes whose newest message the platform stamps with the edit's
\* second or a later one.  (Where its clock runs ahead of the host's, that is also
\* a window of older messages.)
EditsStand ==
    \A i \in DOMAIN rows :
        LET row == rows[i]
        IN \A edit \in edits[row.entry] :
             \/ row.content = edit.content /\ row.updated = edit.at
             \/ row.updated >= edit.at /\ row.updated \in edit.brought

=============================================================================
