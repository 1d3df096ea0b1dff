-------------------------------- MODULE WAL --------------------------------
(***************************************************************************)
(* The segmented write-ahead log of src/internal/wal/wal.go.  Every method *)
(* runs under w.mu, so each is one step, but for Truncate, which removes   *)
(* one file after the other.                                               *)
(*                                                                         *)
(* A segment file is known by the index in its name (the term in the name  *)
(* is always 0: nothing calls SetTerm).  Files are read back in the order  *)
(* of their names.  The size of a record is 1, so maxSize is a number of   *)
(* records.  Disk errors are not modelled, except a write cut short by a   *)
(* crash: it leaves a torn record, on which readSegment fails.             *)
(***************************************************************************)
EXTENDS Naturals, Sequences, FiniteSets, FiniteSetsExt, SequencesExt

CONSTANT SegmentSize     \* maxSize

ASSUME SegmentAssumption == SegmentSize \in Nat \ {0}

VARIABLES
    files,       \* the segment files: a function from the index in the name
    current,     \* w.file
    index,       \* w.index
    fileSize     \* w.fileSize

walVars == <<files, current, index, fileSize>>

\* records written, how many of them fsync has reached, and a torn record after them
EmptySegment == [records |-> <<>>, synced |-> 0, torn |-> FALSE]

\* Mutant: the list of files is in the wrong order
Earliest(fs) == Min(DOMAIN fs)
\* The file whose name comes last
Latest(fs) == Max(DOMAIN fs)

\* loadLatestSegment: the log goes on in the last file, at the index in its NAME
Load(fs) ==
    /\ files' = fs
    /\ current' = Latest(fs)
    /\ index' = Latest(fs)
    /\ fileSize' = Len(fs[Latest(fs)].records)

\* NewWAL on an empty directory
WALInit ==
    /\ files = [i \in {0} |-> EmptySegment]
    /\ current = 0
    /\ index = 0
    /\ fileSize = 0

\* Mutant: a segment is named by the index of the last record in the one before
LastIndexBefore == index - 1
\* createNewSegment names the file it opens by w.index
SegmentName == index

\* Append and writeRecord: when the record does not fit, the next segment is
\* opened first.  A file of that name that exists already is appended to.
AppendRecord(r) ==
    LET full == fileSize + 1 > SegmentSize
        name == IF full THEN SegmentName ELSE current
        opened == [i \in DOMAIN files \cup {name} |->
                      IF i \in DOMAIN files THEN files[i] ELSE EmptySegment]
    IN  /\ files' = [opened EXCEPT ![name].records = Append(@, r)]
        /\ current' = name
        /\ index' = index + 1
        /\ fileSize' = IF full THEN 1 ELSE fileSize + 1

\* Mutant: the records are flushed to the operating system only
Flushed == files
\* Sync: fsync reaches the current file, not those it was rolled from
Fsynced == [files EXCEPT ![current].synced = Len(files[current].records)]
SyncWAL ==
    /\ files' = Fsynced
    /\ UNCHANGED <<current, index, fileSize>>

\* Mutant: the segment that the index falls on goes too
SegmentsBefore(i) == {s \in DOMAIN files : s < i} \cup {0}
SegmentsUpTo(i) == {s \in DOMAIN files : s <= i}
\* Truncate: it is the segments named ABOVE the index that are removed, in the order of their names;
\* then the latest that is left is loaded
SegmentsAbove(i) == DOMAIN files \ SegmentsUpTo(i)
RemoveSegment(s) ==
    /\ files' = [t \in DOMAIN files \ {s} |-> files[t]]
    /\ UNCHANGED <<current, index, fileSize>>

\* Mutant: recovery reads the last file only
RecordsOfLatest(fs) == fs[Latest(fs)].records
\* ReadAll, when no file ends in a torn record
Readable == \A s \in DOMAIN files : ~files[s].torn
Records(fs) ==
    FoldLeft(LAMBDA records, s : IF s \in DOMAIN fs THEN records \o fs[s].records ELSE records,
             <<>>, [i \in 1..(Latest(fs) + 1) |-> i - 1])
=============================================================================
