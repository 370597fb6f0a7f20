------------------------------- MODULE Notes -------------------------------
(***************************************************************************)
(* Sticky notes (memory/sticky_notes.py, file_backed/sticky_notes.py) and  *)
(* soul files (soul/source.py).  A note of a user or a conversation is a   *)
(* directory with readonly.md, the operator's text, and editable.md, to    *)
(* which the bot appends lines with a tool.  Its soul is a directory of    *)
(* files, today.md among them, that the console writes (nothing calls      *)
(* append_today_entry).                                                    *)
(*                                                                         *)
(* No operation suspends.  The console loads a note, shows it, and saves   *)
(* what the operator made of it later: the save replaces both files.       *)
(* Every save, an append too, writes both files in place, readonly.md      *)
(* first: a process that dies in a write leaves the file empty or whole.   *)
(* A text is a sequence of lines.                                          *)
(***************************************************************************)
EXTENDS Naturals, Sequences, SequencesExt

CONSTANTS
    Entities,   \* entity references; some do not parse
    Parses,     \* the ones that name a user or a conversation
    Lines,      \* what the tool appends, each line once
    Blank,      \* the lines that are blank or hold a line break
    Texts,      \* what an operator writes into readonly.md
    Today,      \* today.md
    Files,      \* names of soul files
    Hidden,     \* the names with a part that starts with a dot
    None

VARIABLES
    note,         \* note[e]: None or its two files
    draft,        \* the note open in the console
    soul,         \* soul[f]: None or the text of a soul file
    pending,      \* lines not appended yet
    \* History: what was said of each note.
    intent,       \* intent[e]: the operator's text as last saved
    owed,         \* owed[e]: lines reported as appended, not removed by the operator
    overwritten,  \* overwritten[e]: the ones a save replaced that had not shown them
    torn          \* notes that a process died writing, until they are saved whole

noted == <<intent, owed, overwritten, torn>>
vars == <<note, draft, soul, pending, noted>>

NoDraft == [entity |-> None]
Empty == [readonly |-> None, editable |-> <<>>]

\* A soul without today.md gets an empty one when the bot starts.
EnsureSelfLayout(s) == IF s[Today] = None THEN [s EXCEPT ![Today] = <<>>] ELSE s

Init ==
    /\ note = [e \in Entities |-> None] /\ draft = NoDraft
    /\ soul = EnsureSelfLayout([f \in Files |-> None])
    /\ pending = Lines /\ intent = [e \in Entities |-> None]
    /\ owed = [e \in Entities |-> {}] /\ overwritten = [e \in Entities |-> {}]
    /\ torn = {}

\* parse_sticky_note_entity_ref
ParseEntityRef(e) == e \in Parses

LoadRecord(e) == IF note[e] = None THEN Empty ELSE note[e]

SaveRecord(e, record) == note' = [note EXCEPT ![e] = record]

\* _normalize_append_text
Appendable(line) == line \notin Blank

AppendEditableText(e, line) == [LoadRecord(e) EXCEPT !.editable = Append(@, line)]

\* A line is reported as appended to a note.
Reported(e, line) ==
    /\ pending' = pending \ {line} /\ owed' = [owed EXCEPT ![e] = @ \cup {line}]
    /\ UNCHANGED <<draft, soul, intent, overwritten, torn>>

\* FAULT: the note is saved with the appended line alone.
AppendNoteAnew(e, line) ==
    /\ ParseEntityRef(e) /\ line \in pending /\ Appendable(line)
    /\ SaveRecord(e, [Empty EXCEPT !.editable = AppendEditableText(e, line).editable])
    /\ Reported(e, line)

\* The tool: the note is made if there is none.
AppendNote(e, line) ==
    /\ ParseEntityRef(e) /\ line \in pending /\ Appendable(line)
    /\ SaveRecord(e, AppendEditableText(e, line))
    /\ Reported(e, line)

\* An entity that does not parse or a line that is blank is refused.
RefuseNote(e, line) ==
    /\ line \in pending /\ ~(ParseEntityRef(e) /\ Appendable(line))
    /\ pending' = pending \ {line}
    /\ UNCHANGED <<note, draft, soul, noted>>

CreateRecord(e) ==
    /\ ParseEntityRef(e) /\ note[e] = None
    /\ SaveRecord(e, Empty)
    /\ UNCHANGED <<draft, soul, pending, noted>>

\* The console shows a note that exists.
OpenNote(e) ==
    /\ note[e] # None /\ draft = NoDraft
    /\ draft' = [entity |-> e, record |-> note[e]]
    /\ UNCHANGED <<note, soul, pending, noted>>

\* What the operator may make of the note it was shown: a text of its own, and
\* the bot's lines as they were or none of them.
Edits ==
    IF draft = NoDraft THEN {}
    ELSE [readonly : Texts, editable : {draft.record.editable, <<>>}]

\* The record replaces both files, lines appended since the note was shown
\* included; those are not what the operator removed.
SaveDraft(record) ==
    /\ record \in Edits
    /\ SaveRecord(draft.entity, record)
    /\ LET e == draft.entity
           unseen == owed[e] \ ToSet(draft.record.editable)
       IN /\ intent' = [intent EXCEPT ![e] = record.readonly]
          /\ owed' = [owed EXCEPT ![e] = unseen \cup ToSet(record.editable)]
          /\ overwritten' = [overwritten EXCEPT ![e] = @ \cup unseen]
          /\ torn' = torn \ {e}
    /\ draft' = NoDraft
    /\ UNCHANGED <<soul, pending>>

DeleteRecord(e) ==
    /\ note[e] # None
    /\ SaveRecord(e, None) /\ intent' = [intent EXCEPT ![e] = None]
    /\ owed' = [owed EXCEPT ![e] = {}] /\ overwritten' = [overwritten EXCEPT ![e] = {}]
    /\ torn' = torn \ {e}
    /\ UNCHANGED <<draft, soul, pending>>

\* The process dies in save_record: in the write of readonly.md, between the two
\* writes, or in that of editable.md.
DieInSave(e, record) ==
    /\ \E left \in {[LoadRecord(e) EXCEPT !.readonly = None],
                    [LoadRecord(e) EXCEPT !.readonly = record.readonly],
                    [record EXCEPT !.editable = <<>>]} : SaveRecord(e, left)
    /\ torn' = torn \cup {e} /\ draft' = NoDraft
    /\ soul' = EnsureSelfLayout(soul)
    /\ UNCHANGED <<intent, owed, overwritten>>

\* It was an append, even though the text of readonly.md does not change, or the
\* console's save.
DieInAppend(e, line) ==
    /\ ParseEntityRef(e) /\ line \in pending /\ Appendable(line)
    /\ DieInSave(e, AppendEditableText(e, line))
    /\ pending' = pending \ {line}

DieInSaveDraft(record) ==
    /\ record \in Edits
    /\ DieInSave(draft.entity, record)
    /\ UNCHANGED pending

-----------------------------------------------------------------------------
(* Soul files.                                                              *)

ResolveName(f) == f \notin Hidden

WriteFile(f, text) ==
    /\ ResolveName(f) /\ soul' = [soul EXCEPT ![f] = text]
    /\ UNCHANGED <<note, draft, pending, noted>>

CreateFile(f, text) ==
    /\ ResolveName(f) /\ soul[f] = None /\ soul' = [soul EXCEPT ![f] = text]
    /\ UNCHANGED <<note, draft, pending, noted>>

Next ==
    \/ \E e \in Entities, line \in Lines :
         AppendNote(e, line) \/ RefuseNote(e, line) \/ DieInAppend(e, line)
    \/ \E e \in Entities : CreateRecord(e) \/ OpenNote(e) \/ DeleteRecord(e)
    \/ \E record \in Edits : SaveDraft(record) \/ DieInSaveDraft(record)
    \/ \E f \in Files, text \in {<<>>, <<None>>} : WriteFile(f, text) \/ CreateFile(f, text)

Spec == Init /\ [][Next]_vars

-----------------------------------------------------------------------------

\* Unless a process died writing a note and nobody saved it since, the operator's
\* part of it is what the operator last saved, whatever the bot appended in
\* between, and every line that was reported as appended is there, was removed by
\* the operator, or came after the console had loaded the note it saved later
\* (append_editable_text, save_record, create_record).
KeepsNotes ==
    \A e \in Entities :
        note[e] # None /\ e \notin torn =>
            /\ note[e].readonly = intent[e]
            /\ owed[e] \subseteq ToSet(note[e].editable) \cup overwritten[e]
=============================================================================
