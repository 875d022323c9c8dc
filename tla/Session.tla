------------------------------ MODULE Session -------------------------------
(***************************************************************************)
(* A session log (crates/opca-core/src/session): entries appended as lines *)
(* of JSON through a BufWriter, a process that may be killed at any time,  *)
(* another that opens the file again, the reader, and the row the index    *)
(* keeps of the session.                                                   *)
(*                                                                         *)
(* Entry n is its number; on disk it is three pieces: its text in two      *)
(* parts, of which a cut may leave one, and the end of the line.  Its kind *)
(* and its data are left out; so are the other rows of the index.  Nothing *)
(* in the program writes a session yet: Flush and Upsert are called as the *)
(* comments of SessionIndex::upsert and SessionWriter::create ask for.     *)
(* Writes do not fail: append returns an error (writer.rs:66) without its  *)
(* entry, but what such a write left in the file is not modelled.          *)
(***************************************************************************)
EXTENDS Naturals, SequencesExt, FiniteSets

CONSTANTS
    MaxEntries,  \* bound: entries appended, over all processes
    MaxKills     \* bound: how often the process is killed

VARIABLES
    file,        \* the pieces in the file
    buffer,      \* the pieces in the BufWriter
    writing,     \* there is a SessionWriter
    count,       \* its message_count
    row,         \* the index's message_count
    appended,    \* how many entries were appended
    flushed,     \* history: the entries that a flush or a drop has seen out
    kills

vars == <<file, buffer, writing, count, row, appended, flushed, kills>>

Text(n) == <<[entry |-> n, part |-> "head"], [entry |-> n, part |-> "tail"]>>
EndOfLine == [entry |-> 0, part |-> "newline"]

Init ==
    /\ file = <<>> /\ buffer = <<>> /\ writing = FALSE
    /\ count = 0 /\ row = 0 /\ appended = 0 /\ flushed = {} /\ kills = 0

-----------------------------------------------------------------------------
(* SessionReader *)

Unreadable == <<0>>

\* The lines that are not blank, by where they begin.
Begins(pieces) ==
    {k \in DOMAIN pieces : pieces[k] # EndOfLine /\ (k = 1 \/ pieces[k - 1] = EndOfLine)}

\* The line at k is the text of one entry.
IsEntry(pieces, k) ==
    /\ k + 1 \in DOMAIN pieces
    /\ SubSeq(pieces, k, k + 1) = Text(pieces[k].entry)
    /\ k + 2 \in DOMAIN pieces => pieces[k + 2] = EndOfLine

\* A blank line is skipped, any other must be an entry; the entries in their order.
Read(pieces) ==
    LET lines == Begins(pieces)
        Nth(j) == CHOOSE k \in lines : Cardinality({i \in lines : i <= k}) = j
    IN  IF \A k \in lines : IsEntry(pieces, k)
        THEN [j \in 1..Cardinality(lines) |-> pieces[Nth(j)].entry]
        ELSE Unreadable

\* read_range: half-open, from 0, clamped.
ReadRange(entries, from, to) ==
    IF from >= to \/ from >= Len(entries) THEN <<>>
    ELSE SubSeq(entries, from + 1, IF to <= Len(entries) THEN to ELSE Len(entries))

-----------------------------------------------------------------------------
(* SessionWriter and SessionIndex::upsert *)

\* Mutant: the file is opened from its beginning.
CreateAfresh ==
    /\ ~writing /\ appended < MaxEntries
    /\ writing' = TRUE /\ count' = 0 /\ file' = <<>>
    /\ UNCHANGED <<buffer, row, appended, flushed, kills>>

\* What a killed process has left at the end of the file stays there.
Create ==
    /\ ~writing /\ appended < MaxEntries
    /\ writing' = TRUE /\ count' = 0
    /\ UNCHANGED <<file, buffer, row, appended, flushed, kills>>

\* writeln! hands over the text and the end of the line one after the other;
\* whichever does not fit drives out what the buffer holds.
AppendEntry ==
    /\ writing /\ appended < MaxEntries
    /\ appended' = appended + 1
    /\ count' = count + 1
    /\ \/ file' = file /\ buffer' = buffer \o Append(Text(appended'), EndOfLine)
       \/ file' = file \o buffer /\ buffer' = Append(Text(appended'), EndOfLine)
       \/ file' = file \o buffer \o Text(appended') /\ buffer' = <<EndOfLine>>
    /\ UNCHANGED <<writing, row, flushed, kills>>

\* The whole of the buffer reaches the file.
Emptied ==
    /\ file' = file \o buffer /\ buffer' = <<>>
    /\ flushed' = flushed \cup (appended - count + 1)..appended

Flush ==
    /\ writing /\ buffer # <<>>
    /\ Emptied
    /\ UNCHANGED <<writing, count, row, appended, kills>>

\* The writer is dropped, and its buffer with it is written.
Close ==
    /\ writing /\ Emptied
    /\ writing' = FALSE /\ count' = 0
    /\ UNCHANGED <<row, appended, kills>>

\* On each flush the row is overwritten with the count of this writer.
Upsert ==
    /\ writing /\ buffer = <<>> /\ row # count
    /\ row' = count
    /\ UNCHANGED <<file, buffer, writing, count, appended, flushed, kills>>

\* The process is killed, in the middle of a write or not.
Kill ==
    /\ writing /\ kills < MaxKills
    /\ kills' = kills + 1
    /\ \E written \in 0..Len(buffer) : file' = file \o SubSeq(buffer, 1, written)
    /\ buffer' = <<>> /\ writing' = FALSE /\ count' = 0
    /\ UNCHANGED <<row, appended, flushed>>

Next == Create \/ AppendEntry \/ Flush \/ Close \/ Upsert \/ Kill

-----------------------------------------------------------------------------
(* Properties *)

\* Hazard: a killed process leaves half a line, or a line without its end, and
\* the next one writes on behind it.  Whenever the file can be read, every entry
\* that was flushed is in it, once and in order, in whatever pages it is read,
\* and the index promises no more than that; since no write fails here, the
\* file cannot be read only if a process was killed.
FlushedIsRead ==
    LET entries == Read(file)
    IN  IF entries = Unreadable THEN kills > 0
        ELSE /\ flushed \subseteq ToSet(entries)
             /\ \A i, j \in DOMAIN entries : i < j => entries[i] < entries[j]
             /\ row <= Len(entries)
             /\ \A n \in 0..Len(entries) :
                    ReadRange(entries, 0, n) \o ReadRange(entries, n, Len(entries) + 1) = entries
=============================================================================
