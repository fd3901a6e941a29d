------------------------------ MODULE AuditLog ------------------------------
(***************************************************************************)
(* The audit log (agent audit.rs): JSON lines appended one entry at a time *)
(* under the service mutex, read back whole, and trimmed when the file     *)
(* passes a size.  The file is a sequence of pieces.  A write that runs    *)
(* out of disk leaves a piece without its end: without the newline only    *)
(* ("unended"), cut in its text, or torn inside a character.  What follows *)
(* an unfinished piece continues its line.                                 *)
(***************************************************************************)
EXTENDS Integers, Sequences, SequencesExt, FiniteSetsExt, Selection

CONSTANTS
    Size,               \* entry -> the bytes of its line
    Retain,             \* AuditLog.retain
    TrimThreshold,      \* AuditLog.trim_threshold_bytes
    MaxDiskFull         \* bound: writes cut short

Entries == DOMAIN Size

ASSUME AuditAssumption ==
    /\ \A e \in Entries : Size[e] \in Nat \ {0, 1}
    /\ Retain \in Nat \ {0} /\ TrimThreshold \in Nat /\ MaxDiskFull \in Nat

VARIABLES
    log,                \* the file: pieces [entry, form]
    appended,           \* what the last append was asked, and returned
    diskFull            \* writes cut short so far

auditVars == <<log, appended, diskFull>>

Piece(e, form) == [entry |-> e, form |-> form]
Whole(e) == Piece(e, "whole")
Unfinished == {"unended", "cut", "torn"}
Bytes(p) == IF p.form = "whole" THEN Size[p.entry] ELSE Size[p.entry] - 1
FileSize(file) == FoldLeft(LAMBDA n, p : n + Bytes(p), 0, file)

AuditInit == log = <<>> /\ appended = [ok |-> FALSE] /\ diskFull = 0

-----------------------------------------------------------------------------
(* read_all: lines that are one readable entry, up to the first line that  *)
(* is not text.  A piece is a line of its own if it begins one and either  *)
(* ends it or ends the file.                                               *)
BeginsLine(file, i) == i = 1 \/ file[i - 1].form = "whole"
Parses(file, i) ==
    /\ BeginsLine(file, i)
    /\ file[i].form = "whole" \/ (file[i].form = "unended" /\ i = Len(file))

ReadAll(file) ==
    Kept([i \in 1 .. Len(file) |-> file[i].entry],
         {i \in 1 .. Len(file) : Parses(file, i) /\ \A j \in 1 .. i : file[j].form # "torn"})

(* recent: newest first. *)
Recent(file) == Reverse(ReadAll(file))

(* Mutant of Retained: the oldest entries are kept. *)
RetainedOldest(entries) ==
    LET fits(n) == n <= Retain /\ (n <= 1 \/ 2 * FileSize([i \in 1 .. n |-> Whole(entries[i])]) <= TrimThreshold)
        n == Max({k \in 0 .. Len(entries) : \A j \in 0 .. k : fits(j)})
    IN  SubSeq(entries, 1, n)

(* trim_if_needed: the newest entries, at most Retain of them and half the *)
(* threshold, but never none.                                              *)
Retained(entries) ==
    LET newest(n) == SubSeq(entries, Len(entries) - n + 1, Len(entries))
        fits(n) == n <= Retain /\ (n <= 1 \/ 2 * FileSize([i \in 1 .. n |-> Whole(newest(n)[i])]) <= TrimThreshold)
        n == Max({k \in 0 .. Len(entries) : \A j \in 0 .. k : fits(j)})
    IN  newest(n)

-----------------------------------------------------------------------------
(* Every line can be read and the last one has its end. *)
ReadsToTheEnd(file) ==
    /\ \A i \in 1 .. Len(file) : file[i].form # "torn"
    /\ file = <<>> \/ Last(file).form = "whole"

Returns(e, ok) == appended' = [ok |-> ok, entry |-> e, clean |-> ReadsToTheEnd(log)]

DiskFull == diskFull < MaxDiskFull /\ diskFull' = diskFull + 1

(* write_all failed with part of the line in the file. *)
AppendCutShort(e) ==
    /\ DiskFull
    /\ \E form \in Unfinished : log' = Append(log, Piece(e, form))
    /\ Returns(e, FALSE)

(* append: the line is written, and trim_if_needed finds nothing to do,    *)
(* renames a shorter file into place, or fails with its temporary cut      *)
(* short and the long file left.  The mutex makes it one step.             *)
AppendEntry(e) ==
    LET written == Append(log, Whole(e))
        entries == ReadAll(written)
        kept == Retained(entries)
        trims == FileSize(written) > TrimThreshold /\ Len(kept) < Len(entries)
    IN
    \/ /\ log' = IF trims THEN [i \in 1 .. Len(kept) |-> Whole(kept[i])] ELSE written
       /\ Returns(e, TRUE)
       /\ UNCHANGED diskFull
    \/ /\ trims /\ DiskFull
       /\ log' = written
       /\ Returns(e, FALSE)

-----------------------------------------------------------------------------
Acked == appended.ok
Newest(file) == IF ReadAll(file) = <<>> THEN {} ELSE {Head(Recent(file))}

(* "the most recent thing that happened" (trim_if_needed): when an append  *)
(* onto a file that could be read to its end returns Ok, its entry is the  *)
(* newest one read back, through trims and through writes cut short before.*)
(* After a piece torn inside a character nothing is read any more, and the *)
(* next trim drops what follows it.                                        *)
NewestSurvives == Acked /\ appended.clean => Newest(log) = {appended.entry}

=============================================================================
