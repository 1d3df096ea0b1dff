---------------------------- MODULE EngineProofs ----------------------------
(***************************************************************************)
(* Theorems about Engine.                                                  *)
(*                                                                         *)
(* 1. Types of the log and of memory (Types).                              *)
(* 2. The log (LogInv).  Records have rising ids from one segment to the   *)
(*    next, because the file written to is never named before another;     *)
(*    the last record of a write is in the current file until Sync.        *)
(* 3. Memory (MemInv).  Outside unlogged, memory with the commands that    *)
(*    are already logged applied to it agrees with what recovery makes of  *)
(*    the log.                                                             *)
(* 4. The refinement of DurableMap (ReplayInv).  What recovery makes of    *)
(*    the log is written as a function of the SET of records on disk and   *)
(*    of a number of ids (Replay), so that records that a crash takes from *)
(*    the middle of the order can be left out one by one; the ids of the   *)
(*    write under way are the last ones given out (WriteInv).              *)
(*                                                                         *)
(* The folds of Engine are taken step by step with the facts of FoldLemmas.*)
(***************************************************************************)
EXTENDS Engine, FoldLemmas, FiniteSetTheorems

-----------------------------------------------------------------------------
(* Folds over commands, records and segments *)

Data == [Key -> KeyValue \cup {None}]

ApplyStep == [d \in Data |-> [c \in Command |-> ApplyCommand(d, c)]]
\* Records as they are written, of the segments up to some name
RecordsStep(fs) ==
    [records \in Seq(Record) |->
        [s \in Nat |-> IF s \in DOMAIN fs THEN records \o fs[s].records ELSE records]]
RecoverStep == [d \in Data |-> [r \in Record |-> ApplyCommand(d, r.command)]]

DeletesStep(d) ==
    [deletes \in Seq(Command) |->
        [k \in Key |-> IF Exists(d, k) THEN Append(deletes, Delete(k)) ELSE deletes]]

LEMMA ApplyCommandTyped ==
    ASSUME NEW d \in Data, NEW c \in Command
    PROVE  ApplyCommand(d, c) \in Data
<1>1. c.key \in Key /\ (c.type # "delete" => c.value \in Value)
  BY DEF Command, Put, Delete
<1>2. d[c.key] \in KeyValue \/ d[c.key] = None
  BY <1>1 DEF Data
<1>3. AfterCommand(d[c.key], c) \in KeyValue \cup {None}
  <2>1. CASE c.type = "delete"
    BY <2>1 DEF AfterCommand
  <2>2. CASE c.type # "delete" /\ d[c.key] = None
    BY <1>1, <2>2 DEF AfterCommand, KeyValue
  <2>3. CASE c.type # "delete" /\ d[c.key] # None
    <3> DEFINE kv == d[c.key]
    <3>1. kv \in KeyValue /\ kv.version + 1 \in Nat
      BY <1>2, <2>3 DEF KeyValue
    <3>2. AfterCommand(kv, c) = [kv EXCEPT !.value = c.value, !.version = kv.version + 1]
      BY <2>3 DEF AfterCommand
    <3> HIDE DEF kv
    <3>3. [kv EXCEPT !.value = c.value, !.version = kv.version + 1] \in KeyValue
      BY <1>1, <2>3, <3>1 DEF KeyValue
    <3> QED
      BY <3>2, <3>3 DEF kv
  <2> QED
    BY <2>1, <2>2, <2>3
<1> QED
  BY <1>3 DEF ApplyCommand, Data

LEMMA ApplyIsFold ==
    ASSUME NEW d \in Data, NEW commands \in Seq(Command)
    PROVE  /\ FoldTyped(Data, Command, ApplyStep, d, commands)
           /\ Apply(d, commands) = FoldBy(ApplyStep, d, commands)
<1>1. ApplyStep \in [Data -> [Command -> Data]]
  <2>1. \A x \in Data : \A c \in Command : ApplyCommand(x, c) \in Data
    BY ApplyCommandTyped
  <2> QED
    BY <2>1, Zenon DEF ApplyStep
<1>2. FoldTyped(Data, Command, ApplyStep, d, commands)
  BY <1>1 DEF FoldTyped
<1>3. \A x \in Data, c \in Command : ApplyStep[x][c] = ApplyCommand(x, c)
  BY DEF ApplyStep
<1> DEFINE iter[t \in SUBSET DOMAIN commands] ==
               IF t = {} THEN d ELSE ApplyCommand(iter[t \ {Max(t)}], commands[Max(t)])
<1>4. Apply(d, commands) = iter[DOMAIN commands]
  BY Zenon DEF Apply, FoldLeft, MapThenFoldSet
<1> HIDE DEF ApplyStep
<1>5. PICK F : IsWitness(F, Data, Command, ApplyStep, d, commands)
  BY <1>2, FoldWitness
<1>6. F = [t \in SUBSET DOMAIN commands |->
               IF t = {} THEN d ELSE ApplyCommand(F[t \ {Max(t)}], commands[Max(t)])]
  BY <1>3, <1>5 DEF IsWitness
<1>7. iter = [t \in SUBSET DOMAIN commands |->
                  IF t = {} THEN d ELSE ApplyCommand(iter[t \ {Max(t)}], commands[Max(t)])]
  BY <1>6, Zenon
<1> HIDE DEF iter
<1>8. FoldsInside(iter, Data, Command, ApplyStep, d, commands)
  BY <1>3, <1>7 DEF FoldsInside
<1>9. iter[DOMAIN commands] = FoldBy(ApplyStep, d, commands)
  BY <1>2, <1>8, FoldIs
<1> QED
  BY <1>2, <1>4, <1>9

LEMMA RecoverIsFold ==
    ASSUME NEW records \in Seq(Record)
    PROVE  /\ FoldTyped(Data, Record, RecoverStep, NoData, records)
           /\ Recover(records) = FoldBy(RecoverStep, NoData, records)
<1>1. NoData \in Data /\ records \in Seq(Record)
  BY DEF NoData, Data
<1>2. RecoverStep \in [Data -> [Record -> Data]]
  <2>1. ASSUME NEW x \in Data, NEW e \in Record
        PROVE  ApplyCommand(x, e.command) \in Data
    BY ApplyCommandTyped DEF Record
  <2> QED
    BY <2>1, Zenon DEF RecoverStep
<1>3. FoldTyped(Data, Record, RecoverStep, NoData, records)
  BY <1>1, <1>2 DEF FoldTyped
<1>4. \A x \in Data, e \in Record : RecoverStep[x][e] = ApplyCommand(x, e.command)
  BY DEF RecoverStep
<1> DEFINE iter[t \in SUBSET DOMAIN records] ==
               IF t = {} THEN NoData
               ELSE ApplyCommand(iter[t \ {Max(t)}], records[Max(t)].command)
<1>5. Recover(records) = iter[DOMAIN records]
  BY Zenon DEF Recover, FoldLeft, MapThenFoldSet
<1> HIDE DEF RecoverStep
<1>6. PICK F : IsWitness(F, Data, Record, RecoverStep, NoData, records)
  BY <1>3, FoldWitness
<1>7. F = [t \in SUBSET DOMAIN records |->
               IF t = {} THEN NoData
               ELSE ApplyCommand(F[t \ {Max(t)}], records[Max(t)].command)]
  BY <1>4, <1>6 DEF IsWitness
<1>8. iter = [t \in SUBSET DOMAIN records |->
                  IF t = {} THEN NoData
                  ELSE ApplyCommand(iter[t \ {Max(t)}], records[Max(t)].command)]
  BY <1>7, Zenon
<1> HIDE DEF iter
<1>9. FoldsInside(iter, Data, Record, RecoverStep, NoData, records)
  BY <1>4, <1>8 DEF FoldsInside
<1>10. iter[DOMAIN records] = FoldBy(RecoverStep, NoData, records)
  BY <1>3, <1>9, FoldIs
<1> QED
  BY <1>3, <1>5, <1>10

LEMMA DeletesIsFold ==
    ASSUME NEW d \in Data, NEW keys \in Seq(Key)
    PROVE  /\ FoldTyped(Seq(Command), Key, DeletesStep(d), <<>>, keys)
           /\ Deletes(d, keys) = FoldBy(DeletesStep(d), <<>>, keys)
<1>1. <<>> \in Seq(Command) /\ keys \in Seq(Key)
  BY EmptySeq
<1>2. DeletesStep(d) \in [Seq(Command) -> [Key -> Seq(Command)]]
  <2>1. ASSUME NEW x \in Seq(Command), NEW e \in Key
        PROVE  (IF Exists(d, e) THEN Append(x, Delete(e)) ELSE x) \in Seq(Command)
    <3>1. Delete(e) \in Command
      BY DEF Command
    <3> QED
      BY <3>1, AppendProperties
  <2> QED
    BY <2>1, Zenon DEF DeletesStep
<1>3. FoldTyped(Seq(Command), Key, DeletesStep(d), <<>>, keys)
  BY <1>1, <1>2 DEF FoldTyped
<1>4. \A x \in Seq(Command), e \in Key :
          DeletesStep(d)[x][e] = (IF Exists(d, e) THEN Append(x, Delete(e)) ELSE x)
  BY DEF DeletesStep
<1> DEFINE iter[t \in SUBSET DOMAIN keys] ==
               IF t = {} THEN <<>>
               ELSE (IF Exists(d, keys[Max(t)])
                     THEN Append(iter[t \ {Max(t)}], Delete(keys[Max(t)]))
                     ELSE iter[t \ {Max(t)}])
<1>5. Deletes(d, keys) = iter[DOMAIN keys]
  BY Zenon DEF Deletes, FoldLeft, MapThenFoldSet
<1> HIDE DEF DeletesStep
<1>6. PICK F : IsWitness(F, Seq(Command), Key, DeletesStep(d), <<>>, keys)
  BY <1>3, FoldWitness
<1>7. F = [t \in SUBSET DOMAIN keys |->
               IF t = {} THEN <<>>
               ELSE (IF Exists(d, keys[Max(t)])
                     THEN Append(F[t \ {Max(t)}], Delete(keys[Max(t)]))
                     ELSE F[t \ {Max(t)}])]
  BY <1>4, <1>6 DEF IsWitness
<1>8. iter = [t \in SUBSET DOMAIN keys |->
                  IF t = {} THEN <<>>
                  ELSE (IF Exists(d, keys[Max(t)])
                        THEN Append(iter[t \ {Max(t)}], Delete(keys[Max(t)]))
                        ELSE iter[t \ {Max(t)}])]
  BY <1>7, Zenon
<1> HIDE DEF iter
<1>9. FoldsInside(iter, Seq(Command), Key, DeletesStep(d), <<>>, keys)
  BY <1>4, <1>8 DEF FoldsInside
<1>10. iter[DOMAIN keys] = FoldBy(DeletesStep(d), <<>>, keys)
  BY <1>3, <1>9, FoldIs
<1> QED
  BY <1>3, <1>5, <1>10

Names(n) == [i \in 1..n |-> i - 1]
RecordsBelow(fs, n) ==
    FoldLeft(LAMBDA records, s : IF s \in DOMAIN fs THEN records \o fs[s].records ELSE records,
             <<>>, Names(n))

LEMMA RecordsIsFold ==
    ASSUME NEW fs, \A s \in DOMAIN fs : fs[s].records \in Seq(Record), NEW n \in Nat
    PROVE  /\ FoldTyped(Seq(Record), Nat, RecordsStep(fs), <<>>, Names(n))
           /\ RecordsBelow(fs, n) = FoldBy(RecordsStep(fs), <<>>, Names(n))
<1>1. <<>> \in Seq(Record) /\ Names(n) \in Seq(Nat)
  <2>1. \A i \in 1..n : i - 1 \in Nat
    OBVIOUS
  <2>2. Names(n) \in [1..n -> Nat]
    BY <2>1 DEF Names
  <2> QED
    BY <2>2, EmptySeq
<1>2. RecordsStep(fs) \in [Seq(Record) -> [Nat -> Seq(Record)]]
  <2>1. ASSUME NEW x \in Seq(Record), NEW e \in Nat
        PROVE  (IF e \in DOMAIN fs THEN x \o fs[e].records ELSE x) \in Seq(Record)
    BY ConcatProperties
  <2> QED
    BY <2>1, Zenon DEF RecordsStep
<1>3. FoldTyped(Seq(Record), Nat, RecordsStep(fs), <<>>, Names(n))
  BY <1>1, <1>2 DEF FoldTyped
<1>4. \A x \in Seq(Record), e \in Nat :
          RecordsStep(fs)[x][e] = (IF e \in DOMAIN fs THEN x \o fs[e].records ELSE x)
  BY DEF RecordsStep
<1> DEFINE iter[t \in SUBSET DOMAIN Names(n)] ==
               IF t = {} THEN <<>>
               ELSE (IF Names(n)[Max(t)] \in DOMAIN fs
                     THEN iter[t \ {Max(t)}] \o fs[Names(n)[Max(t)]].records
                     ELSE iter[t \ {Max(t)}])
<1>5. RecordsBelow(fs, n) = iter[DOMAIN Names(n)]
  BY Zenon DEF RecordsBelow, FoldLeft, MapThenFoldSet
<1> HIDE DEF RecordsStep
<1>6. PICK F : IsWitness(F, Seq(Record), Nat, RecordsStep(fs), <<>>, Names(n))
  BY <1>3, FoldWitness
<1>7. F = [t \in SUBSET DOMAIN Names(n) |->
               IF t = {} THEN <<>>
               ELSE (IF Names(n)[Max(t)] \in DOMAIN fs
                     THEN F[t \ {Max(t)}] \o fs[Names(n)[Max(t)]].records
                     ELSE F[t \ {Max(t)}])]
  BY <1>4, <1>6, ZenonT(30) DEF IsWitness
<1>8. iter = [t \in SUBSET DOMAIN Names(n) |->
                  IF t = {} THEN <<>>
                  ELSE (IF Names(n)[Max(t)] \in DOMAIN fs
                        THEN iter[t \ {Max(t)}] \o fs[Names(n)[Max(t)]].records
                        ELSE iter[t \ {Max(t)}])]
  BY <1>7, Zenon
<1> HIDE DEF iter
<1>9. FoldsInside(iter, Seq(Record), Nat, RecordsStep(fs), <<>>, Names(n))
  BY <1>4, <1>8 DEF FoldsInside
<1>10. iter[DOMAIN Names(n)] = FoldBy(RecordsStep(fs), <<>>, Names(n))
  BY <1>3, <1>9, FoldIs
<1> QED
  BY <1>3, <1>5, <1>10

-----------------------------------------------------------------------------
(* Types *)

AllPuts(commands) == \A i \in DOMAIN commands : commands[i].type = "put"
AllDeletes(commands) == \A i \in DOMAIN commands : commands[i].type = "delete"

FilesTyped(fs) ==
    /\ DOMAIN fs \subseteq Nat
    /\ 0 \in DOMAIN fs
    /\ fs \in [DOMAIN fs -> Segment]

\* The segment written to has the last name, and the next will not come before it
WALTypes ==
    /\ FilesTyped(files)
    /\ current \in Nat
    /\ mode = "up" /\ ~Truncating => current \in DOMAIN files
    /\ \A s \in DOMAIN files : s <= current
    /\ index \in Nat
    /\ current <= index
    /\ fileSize \in Nat

\* A write under way is of puts only or of deletes only
MemoryTypes ==
    /\ mode \in {"up", "down"}
    /\ data \in Data
    /\ writing = None \/ writing \in Write
    /\ writing # None => AllPuts(writing.commands) \/ AllDeletes(writing.commands)
    /\ deleting \subseteq Key
    /\ txns \in [Txn -> Seq(Command) \cup {None}]
    /\ snapshot = None \/ snapshot \in Snapshot
    /\ appended \in Nat
    /\ acked \subseteq Seq(Nat)
    /\ unlogged \subseteq Key
    /\ survived \in Data
    /\ mode = "down" => writing = None /\ deleting = {} /\ snapshot = None

Types == WALTypes /\ MemoryTypes

LEMMA LatestTyped ==
    ASSUME NEW fs, FilesTyped(fs), NEW n \in Nat, \A s \in DOMAIN fs : s <= n
    PROVE  /\ Latest(fs) \in DOMAIN fs /\ Latest(fs) \in Nat
           /\ \A s \in DOMAIN fs : s <= Latest(fs)
<1> DEFINE S == DOMAIN fs
<1>1. S \subseteq Nat /\ S # {} /\ \A s \in S : s <= n
  BY DEF FilesTyped
<1> HIDE DEF S
<1>2. Max(S) \in S /\ \A s \in S : s <= Max(S)
  BY <1>1, GreatestMember
<1> QED
  BY <1>1, <1>2 DEF S, Latest

LEMMA LoadTyped ==
    ASSUME NEW fs, FilesTyped(fs), NEW n \in Nat, \A s \in DOMAIN fs : s <= n, Load(fs)
    PROVE  WALTypes'
<1>1. /\ Latest(fs) \in DOMAIN fs /\ Latest(fs) \in Nat
      /\ \A s \in DOMAIN fs : s <= Latest(fs)
  BY LatestTyped
<1>2. Len(fs[Latest(fs)].records) \in Nat
  <2>1. fs[Latest(fs)].records \in Seq(Record)
    BY <1>1 DEF FilesTyped, Segment
  <2> QED
    BY <2>1, LenProperties
<1>3. files' = fs /\ current' = Latest(fs) /\ index' = Latest(fs) /\ fileSize' \in Nat
  BY <1>2 DEF Load
<1> QED
  BY <1>1, <1>3 DEF WALTypes, FilesTyped

LEMMA AppendRecordTyped ==
    ASSUME WALTypes, NEW r \in Record, AppendRecord(r)
    PROVE  WALTypes'
<1> DEFINE full == fileSize + 1 > SegmentSize
           name == IF full THEN index ELSE current
           opened == [i \in DOMAIN files \cup {name} |->
                         IF i \in DOMAIN files THEN files[i] ELSE EmptySegment]
<1>1. /\ name \in Nat /\ current <= name /\ name <= index
      /\ current \in Nat /\ index \in Nat
  BY DEF WALTypes, FilesTyped
<1>2. /\ files' = [opened EXCEPT ![name].records = Append(@, r)]
      /\ current' = name
      /\ index' = index + 1
      /\ fileSize' = IF full THEN 1 ELSE fileSize + 1
  BY DEF AppendRecord, SegmentName
<1>3. opened \in [DOMAIN files \cup {name} -> Segment]
  <2>1. EmptySegment \in Segment
    BY EmptySeq DEF EmptySegment, Segment
  <2> QED
    BY <2>1 DEF WALTypes, FilesTyped
<1> HIDE DEF opened, name, full
<1>4. files' \in [DOMAIN files \cup {name} -> Segment]
  <2>1. opened[name].records \in Seq(Record)
    BY <1>3 DEF Segment
  <2>2. Append(opened[name].records, r) \in Seq(Record)
    BY <2>1, AppendProperties
  <2>3. [opened[name] EXCEPT !.records = Append(opened[name].records, r)] \in Segment
    BY <1>3, <2>2 DEF Segment
  <2> QED
    BY <1>2, <1>3, <2>3
<1>5. fileSize' \in Nat
  BY <1>2 DEF WALTypes
<1>6. \A s \in DOMAIN files : s <= name
  BY <1>1 DEF WALTypes, FilesTyped
<1> QED
  BY <1>1, <1>2, <1>4, <1>5, <1>6 DEF WALTypes, FilesTyped

LEMMA ApplyTyped ==
    ASSUME NEW d \in Data, NEW commands \in Seq(Command)
    PROVE  Apply(d, commands) \in Data
BY ApplyIsFold, FoldByTyped

\* A key that a put was for has a value, when there were only puts
LEMMA PutsLeaveValues ==
    ASSUME NEW d \in Data, NEW commands \in Seq(Command), AllPuts(commands),
           NEW i \in 1..Len(commands)
    PROVE  Apply(d, commands)[commands[i].key] \in KeyValue
<1> DEFINE Right(n) == {x \in Data : \A j \in 1..n : x[commands[j].key] \in KeyValue}
           I == [n \in 0..Len(commands) |-> Right(n)]
<1>1. /\ FoldTyped(Data, Command, ApplyStep, d, commands)
      /\ Apply(d, commands) = FoldBy(ApplyStep, d, commands)
  BY ApplyIsFold
<1>2. Len(commands) \in Nat /\ DOMAIN commands = 1..Len(commands)
  BY LenProperties
<1>3. d \in I[0]
  <2>1. 1..0 = {} /\ 0 \in 0..Len(commands)
    BY <1>2
  <2> QED
    BY <2>1
<1>4. ASSUME NEW n \in 1..Len(commands), NEW x \in Data, x \in I[n - 1]
      PROVE  ApplyStep[x][commands[n]] \in I[n]
  <2> DEFINE c == commands[n]
  <2>1. n \in 0..Len(commands) /\ n - 1 \in 0..Len(commands) /\ n \in Nat
    BY <1>2
  <2>2. c \in Command /\ c.type = "put"
    BY <1>2, ElementOfSeq DEF AllPuts
  <2>3. c.key \in Key /\ c.value \in Value
    BY <2>2 DEF Command, Put, Delete
  <2>4. ApplyStep[x][c] = ApplyCommand(x, c) /\ ApplyCommand(x, c) \in Data
    BY <2>2, ApplyCommandTyped DEF ApplyStep
  <2>5. \A j \in 1..(n - 1) : x[commands[j].key] \in KeyValue
    BY <1>4, <2>1
  <2> HIDE DEF I, c
  <2>6. AfterCommand(x[c.key], c) \in KeyValue
    <3>1. x[c.key] \in KeyValue \/ x[c.key] = None
      BY <2>3 DEF Data
    <3>2. CASE x[c.key] = None
      BY <2>2, <2>3, <3>2 DEF AfterCommand, KeyValue
    <3>3. CASE x[c.key] # None
      <4> DEFINE kv == x[c.key]
      <4>1. kv \in KeyValue /\ kv.version + 1 \in Nat
        BY <3>1, <3>3 DEF KeyValue
      <4>2. AfterCommand(kv, c) = [kv EXCEPT !.value = c.value, !.version = kv.version + 1]
        BY <2>2, <3>3 DEF AfterCommand
      <4> HIDE DEF kv
      <4>3. [kv EXCEPT !.value = c.value, !.version = kv.version + 1] \in KeyValue
        BY <2>3, <4>1 DEF KeyValue
      <4> QED
        BY <4>2, <4>3 DEF kv
    <3> QED
      BY <3>2, <3>3
  <2>7. ASSUME NEW j \in 1..n
        PROVE  ApplyCommand(x, c)[commands[j].key] \in KeyValue
    <3>1. commands[j].key \in Key
      <4>1. j \in 1..Len(commands)
        BY <1>2
      <4>2. commands[j] \in Command
        BY <4>1, ElementOfSeq
      <4> QED
        BY <4>2 DEF Command, Put, Delete
    <3>2. CASE commands[j].key = c.key
      BY <2>3, <2>6, <3>1, <3>2 DEF ApplyCommand, Data
    <3>3. CASE commands[j].key # c.key
      <4>1. j \in 1..(n - 1)
        <5>1. j # n
          BY <3>3 DEF c
        <5> QED
          BY <5>1, <2>1
      <4>2. ApplyCommand(x, c)[commands[j].key] = x[commands[j].key]
        BY <3>1, <3>3 DEF ApplyCommand, Data
      <4> QED
        BY <2>5, <4>1, <4>2
    <3> QED
      BY <3>2, <3>3
  <2> QED
    BY <2>1, <2>4, <2>7 DEF I, c
<1> HIDE DEF I
<1>5. FoldKeeps(I, Data, ApplyStep, d, commands)
  BY <1>3, <1>4 DEF FoldKeeps
<1>6. FoldBy(ApplyStep, d, commands) \in I[Len(commands)]
  BY <1>1, <1>5, FoldByKeeps
<1>7. Len(commands) \in 0..Len(commands)
  BY <1>2
<1> QED
  BY <1>1, <1>6, <1>7 DEF I

LEMMA StoreTyped ==
    ASSUME NEW d \in Data, NEW commands \in Seq(Command), NEW ttl \in BOOLEAN,
           AllPuts(commands) \/ AllDeletes(commands)
    PROVE  Store(d, commands, ttl) \in Data
<1> DEFINE stored == Apply(d, commands)
           IsPut(k) == \E i \in DOMAIN commands : commands[i] = Put(k, commands[i].value)
<1>1. stored \in Data /\ DOMAIN commands = 1..Len(commands)
  BY ApplyTyped, LenProperties
<1>2. Store(d, commands, ttl) =
          [k \in Key |-> IF IsPut(k) THEN [stored[k] EXCEPT !.ttl = ttl, !.expired = FALSE]
                         ELSE stored[k]]
  BY DEF Store
<1> SUFFICES ASSUME NEW k \in Key
             PROVE  (IF IsPut(k) THEN [stored[k] EXCEPT !.ttl = ttl, !.expired = FALSE]
                     ELSE stored[k]) \in KeyValue \cup {None}
  <2> HIDE DEF stored, IsPut
  <2> QED
    BY <1>2 DEF Data
<1>3. CASE IsPut(k)
  <2>1. PICK i \in DOMAIN commands : commands[i] = Put(k, commands[i].value)
    BY <1>3
  <2>2. commands[i].type = "put" /\ commands[i].key = k
    BY <2>1 DEF Put
  <2>3. AllPuts(commands)
    BY <2>2 DEF AllDeletes
  <2>4. stored[k] \in KeyValue
    BY <1>1, <2>2, <2>3, PutsLeaveValues
  <2> HIDE DEF stored, IsPut
  <2>5. [stored[k] EXCEPT !.ttl = ttl, !.expired = FALSE] \in KeyValue
    BY <2>4 DEF KeyValue
  <2> QED
    BY <1>3, <2>5
<1>4. CASE ~IsPut(k)
  <2> HIDE DEF stored, IsPut
  <2> QED
    BY <1>1, <1>4 DEF Data
<1> QED
  BY <1>3, <1>4

LEMMA RecordsTyped ==
    ASSUME NEW fs, FilesTyped(fs), NEW n \in Nat
    PROVE  RecordsBelow(fs, n) \in Seq(Record)
<1>1. \A s \in DOMAIN fs : fs[s].records \in Seq(Record)
  BY DEF FilesTyped, Segment
<1>2. /\ FoldTyped(Seq(Record), Nat, RecordsStep(fs), <<>>, Names(n))
      /\ RecordsBelow(fs, n) = FoldBy(RecordsStep(fs), <<>>, Names(n))
  BY <1>1, RecordsIsFold
<1>3. FoldBy(RecordsStep(fs), <<>>, Names(n)) \in Seq(Record)
  BY <1>2, FoldByTyped
<1> QED
  BY <1>2, <1>3

LEMMA RecordsAre ==
    ASSUME NEW fs
    PROVE  Records(fs) = RecordsBelow(fs, Latest(fs) + 1)
BY Zenon DEF Records, RecordsBelow, Names

LEMMA RecoveredTyped ==
    ASSUME NEW fs, FilesTyped(fs), NEW n \in Nat, \A s \in DOMAIN fs : s <= n
    PROVE  Recovered(fs) \in Data
<1>1. Latest(fs) + 1 \in Nat
  BY LatestTyped
<1>2. Records(fs) \in Seq(Record)
  BY <1>1, RecordsAre, RecordsTyped
<1>3. Recover(Records(fs)) \in Data
  <2> DEFINE records == Records(fs)
  <2> HIDE DEF records
  <2>1. records \in Seq(Record)
    BY <1>2 DEF records
  <2>2. Recover(records) \in Data
    BY <2>1, RecoverIsFold, FoldByTyped
  <2> QED
    BY <2>2 DEF records
<1> QED
  BY <1>3 DEF Recovered

\* The commands of a BatchDelete are deletes
LEMMA DeletesTyped ==
    ASSUME NEW d \in Data, NEW keys \in Seq(Key)
    PROVE  Deletes(d, keys) \in Seq(Command) /\ AllDeletes(Deletes(d, keys))
<1> DEFINE Right == {deletes \in Seq(Command) : AllDeletes(deletes)}
           I == [n \in 0..Len(keys) |-> Right]
<1>1. /\ FoldTyped(Seq(Command), Key, DeletesStep(d), <<>>, keys)
      /\ Deletes(d, keys) = FoldBy(DeletesStep(d), <<>>, keys)
  BY DeletesIsFold
<1>2. Len(keys) \in Nat
  BY LenProperties
<1>3. <<>> \in Right
  BY EmptySeq DEF AllDeletes
<1>4. ASSUME NEW x \in Right, NEW k \in Key
      PROVE  DeletesStep(d)[x][k] \in Right
  <2>1. DeletesStep(d)[x][k] = IF Exists(d, k) THEN Append(x, Delete(k)) ELSE x
    BY DEF DeletesStep
  <2>2. Append(x, Delete(k)) \in Right
    <3>1. Delete(k) \in Command /\ Delete(k).type = "delete"
      BY DEF Command, Delete
    <3>2. x \in Seq(Command) /\ AllDeletes(x)
      OBVIOUS
    <3>3. /\ Append(x, Delete(k)) \in Seq(Command)
          /\ Len(Append(x, Delete(k))) = Len(x) + 1
          /\ \A i \in 1..Len(x) : Append(x, Delete(k))[i] = x[i]
          /\ Append(x, Delete(k))[Len(x) + 1] = Delete(k)
      BY <3>1, <3>2, AppendProperties
    <3>4. DOMAIN x = 1..Len(x) /\ Len(x) \in Nat
      BY <3>2, LenProperties
    <3>5. DOMAIN Append(x, Delete(k)) = 1..(Len(x) + 1)
      BY <3>3, LenProperties
    <3>6. \A i \in 1..(Len(x) + 1) : i \in 1..Len(x) \/ i = Len(x) + 1
      BY <3>4
    <3> QED
      BY <3>1, <3>2, <3>3, <3>4, <3>5, <3>6 DEF AllDeletes
  <2> QED
    BY <2>1, <2>2
<1> HIDE DEF Right
<1>5. FoldKeeps(I, Seq(Command), DeletesStep(d), <<>>, keys)
  <2>1. <<>> \in I[0]
    BY <1>2, <1>3
  <2>2. ASSUME NEW n \in 1..Len(keys), NEW x \in Seq(Command), x \in I[n - 1]
        PROVE  DeletesStep(d)[x][keys[n]] \in I[n]
    <3>1. n \in 0..Len(keys) /\ n - 1 \in 0..Len(keys)
      BY <1>2
    <3>2. x \in Right /\ keys[n] \in Key
      BY <2>2, <3>1, ElementOfSeq
    <3> QED
      BY <1>4, <3>1, <3>2
  <2> HIDE DEF I
  <2> QED
    BY <2>1, <2>2 DEF FoldKeeps
<1> HIDE DEF I
<1>6. FoldBy(DeletesStep(d), <<>>, keys) \in I[Len(keys)]
  BY <1>1, <1>5, FoldByKeeps
<1>7. Len(keys) \in 0..Len(keys)
  BY <1>2
<1> QED
  BY <1>1, <1>6, <1>7 DEF I, Right

LEMMA CrashTyped ==
    ASSUME FilesTyped(files), NEW kept \in [DOMAIN files -> Nat], NEW torn \in SUBSET DOMAIN files,
           \A s \in DOMAIN files : kept[s] <= Len(files[s].records)
    PROVE  FilesTyped(Cut(kept, torn)) /\ DOMAIN Cut(kept, torn) = DOMAIN files
<1>1. ASSUME NEW s \in DOMAIN files
      PROVE  [files[s] EXCEPT !.records = SubSeq(files[s].records, 1, kept[s]),
                              !.torn = s \in torn] \in Segment
  <2>1. files[s] \in Segment /\ files[s].records \in Seq(Record)
    BY DEF FilesTyped, Segment
  <2>2. SubSeq(files[s].records, 1, kept[s]) \in Seq(Record)
    <3>1. Len(files[s].records) \in Nat /\ kept[s] \in Nat /\ kept[s] <= Len(files[s].records)
      BY <2>1, LenProperties
    <3>2. \A i \in 1..kept[s] : i \in 1..Len(files[s].records)
      BY <3>1
    <3>3. \A i \in 1..kept[s] : files[s].records[i] \in Record
      BY <2>1, <3>2, ElementOfSeq
    <3> QED
      BY <3>1, <3>3, SubSeqProperties
  <2>3. (s \in torn) \in BOOLEAN
    OBVIOUS
  <2> QED
    BY <2>1, <2>2, <2>3 DEF Segment
<1>2. Cut(kept, torn) \in [DOMAIN files -> Segment]
  BY <1>1 DEF Cut
<1> QED
  BY <1>2 DEF FilesTyped

\* What the log's own operations do to the types, operation by operation
LEMMA WALTypesStep ==
    ASSUME Types, [Next]_vars
    PROVE  WALTypes'
<1>1. WALTypes /\ MemoryTypes /\ FilesTyped(files) /\ current \in Nat
  BY DEF Types, WALTypes, FilesTyped
<1>2. ASSUME UNCHANGED walVars,
             mode' = "down" \/ (mode = "up" /\ ~Truncating) \/ UNCHANGED <<mode, snapshot>>
      PROVE  WALTypes'
  BY <1>1, <1>2 DEF WALTypes, walVars, FilesTyped, Truncating
<1>3. CASE WriteRecord
  <2> DEFINE r == [command |-> Head(writing.todo), id |-> appended + 1]
  <2>1. AppendRecord(r)
    BY <1>3 DEF WriteRecord
  <2>2. r \in Record
    <3>1. writing \in Write /\ writing.todo # <<>> /\ appended \in Nat
      BY <1>1, <1>3 DEF WriteRecord, MemoryTypes
    <3>2. writing.todo \in Seq(Command)
      BY <3>1 DEF Write
    <3>3. Head(writing.todo) \in Command
      BY <3>1, <3>2, HeadTailProperties
    <3> QED
      BY <3>1, <3>3 DEF Record
  <2> HIDE DEF r
  <2> QED
    BY <1>1, <2>1, <2>2, AppendRecordTyped
<1>4. CASE WriteSync
  <2>1. /\ files' = [files EXCEPT ![current].synced = Len(files[current].records)]
        /\ UNCHANGED <<current, index, fileSize>>
    BY <1>4 DEF WriteSync, SyncWAL, Fsynced
  <2>2. files[current] \in Segment /\ current \in DOMAIN files
    <3>1. mode = "up" /\ ~Truncating
      BY <1>1, <1>4 DEF WriteSync, MemoryTypes
    <3> QED
      BY <1>1, <3>1 DEF FilesTyped, WALTypes
  <2>3. Len(files[current].records) \in Nat
    <3>1. files[current].records \in Seq(Record)
      BY <2>2 DEF Segment
    <3> QED
      BY <3>1, LenProperties
  <2>4. [files[current] EXCEPT !.synced = Len(files[current].records)] \in Segment
    BY <2>2, <2>3 DEF Segment
  <2>5. files' \in [DOMAIN files -> Segment]
    BY <1>1, <2>1, <2>2, <2>4 DEF FilesTyped
  <2> QED
    BY <1>1, <2>1, <2>5 DEF WALTypes, FilesTyped
<1>5. CASE RemoveNextSegment
  <2>1. PICK gone \in SegmentsAbove(snapshot.index) : RemoveSegment(gone)
    BY <1>5 DEF RemoveNextSegment
  <2>2. files' = [t \in DOMAIN files \ {gone} |-> files[t]] /\ UNCHANGED <<current, index, fileSize>>
    BY <2>1 DEF RemoveSegment
  <2>3. DOMAIN files' = DOMAIN files \ {gone} /\ \A t \in DOMAIN files' : files'[t] = files[t]
    BY <2>2
  <2>4. gone # 0
    <3>1. snapshot.index \in Nat
      BY <1>1, <1>5 DEF RemoveNextSegment, MemoryTypes, Snapshot
    <3>2. 0 \in SegmentsUpTo(snapshot.index)
      BY <1>1, <3>1 DEF SegmentsUpTo, FilesTyped
    <3> QED
      BY <3>2 DEF SegmentsAbove
  <2>5. snapshot'.truncating /\ snapshot' # None
    <3>1. /\ snapshot' = [snapshot EXCEPT !.truncating = TRUE]
          /\ snapshot \in Snapshot
      BY <1>1, <1>5 DEF RemoveNextSegment, MemoryTypes
    <3>2. snapshot'.truncating /\ snapshot' \in Snapshot
      BY <3>1 DEF Snapshot
    <3> QED
      BY <3>2, NoneAssumption
  <2>6. Truncating'
    BY <2>5 DEF Truncating
  <2>7. FilesTyped(files')
    <3> DEFINE fs == files'
    <3>1. DOMAIN fs = DOMAIN files \ {gone} /\ \A t \in DOMAIN fs : fs[t] = files[t]
      BY <2>3
    <3>2. fs \in [DOMAIN fs -> Segment]
      BY <1>1, <2>2, <3>1 DEF FilesTyped
    <3> HIDE DEF fs
    <3>3. FilesTyped(fs)
      BY <1>1, <2>4, <3>1, <3>2 DEF FilesTyped
    <3> QED
      BY <3>3 DEF fs
  <2> QED
    BY <1>1, <2>2, <2>3, <2>6, <2>7 DEF WALTypes, FilesTyped
<1>6. CASE Crash
  <2>1. PICK kept \in [DOMAIN files -> 0..MaxRecords], torn \in SUBSET DOMAIN files :
            /\ \A s \in DOMAIN files : kept[s] \in files[s].synced .. Len(files[s].records)
            /\ files' = Cut(kept, torn)
    BY <1>6 DEF Crash
  <2>2. kept \in [DOMAIN files -> Nat]
    BY <2>1
  <2>3. \A s \in DOMAIN files : kept[s] <= Len(files[s].records)
    <3> SUFFICES ASSUME NEW s \in DOMAIN files
                 PROVE  kept[s] <= Len(files[s].records)
      OBVIOUS
    <3>1. files[s].records \in Seq(Record)
      BY <1>1 DEF FilesTyped, Segment
    <3>2. Len(files[s].records) \in Nat
      BY <3>1, LenProperties
    <3> QED
      BY <2>1, <2>2, <3>2
  <2>4. FilesTyped(files') /\ DOMAIN files' = DOMAIN files
    BY <1>1, <2>1, <2>2, <2>3, CrashTyped
  <2>5. UNCHANGED <<current, index, fileSize>> /\ mode' = "down"
    BY <1>6 DEF Crash, LoseMemory
  <2> QED
    BY <1>1, <2>4, <2>5 DEF WALTypes, FilesTyped
<1>7. CASE Restart
  <2>1. Load(files) /\ \A s \in DOMAIN files : s <= current
    BY <1>1, <1>7 DEF Restart, WALTypes
  <2> QED
    BY <1>1, <2>1, LoadTyped
<1>8. CASE FinishTruncate
  <2>1. Load(files) /\ \A s \in DOMAIN files : s <= current
    BY <1>1, <1>8 DEF FinishTruncate, WALTypes
  <2> QED
    BY <1>1, <2>1, LoadTyped
<1>9. CASE CopyForSnapshot
  <2>1. UNCHANGED walVars /\ mode = "up" /\ snapshot = None
    BY <1>9 DEF CopyForSnapshot, Free
  <2> QED
    BY <1>2, <2>1 DEF Truncating
<1>10. CASE Close
  BY <1>2, <1>10 DEF Close, LoseMemory
<1>11. Next => \/ UNCHANGED walVars /\ UNCHANGED <<mode, snapshot>>
               \/ WriteRecord \/ WriteSync \/ RemoveNextSegment \/ FinishTruncate
               \/ CopyForSnapshot \/ Close \/ Crash \/ Restart
  BY DEF Next, StartPut, StartDelete, Expire, GetExpired, DeleteExpired, CompareAndSwap,
         StartBatchPut, StartBatchDelete, FinishWrite, CleanupExpiredKeys, DeleteLeased,
         BeginTransaction, AddOperation, CommitTransaction, RollbackTransaction
<1> QED
  BY <1>2, <1>3, <1>4, <1>5, <1>6, <1>7, <1>8, <1>9, <1>10, <1>11 DEF vars

\* A write that begins is of the right types
LEMMA StartWriteTyped ==
    ASSUME NEW commands \in Seq(Command), NEW ttl \in BOOLEAN, StartWrite(commands, ttl),
           AllPuts(commands) \/ AllDeletes(commands)
    PROVE  writing' \in Write /\ (AllPuts(writing'.commands) \/ AllDeletes(writing'.commands))
BY EmptySeq DEF StartWrite, Write

LEMMA OneCommand ==
    ASSUME NEW c \in Command, c.type \in {"put", "delete"}
    PROVE  <<c>> \in Seq(Command) /\ (AllPuts(<<c>>) \/ AllDeletes(<<c>>))
BY DEF AllPuts, AllDeletes

LEMMA BatchPutTyped ==
    ASSUME NEW S \in SUBSET Key, IsFiniteSet(S), NEW kvs \in [S -> Value],
           NEW keys \in SetToSeqs(DOMAIN kvs)
    PROVE  LET commands == [i \in DOMAIN keys |-> Put(keys[i], kvs[keys[i]])]
           IN  commands \in Seq(Command) /\ AllPuts(commands)
<1> DEFINE commands == [i \in DOMAIN keys |-> Put(keys[i], kvs[keys[i]])]
<1>1. Cardinality(S) \in Nat /\ DOMAIN kvs = S
  BY FS_CardinalityType
<1>2. keys \in [1..Cardinality(S) -> S]
  BY <1>1 DEF SetToSeqs
<1>3. \A i \in 1..Cardinality(S) : commands[i] \in Command /\ commands[i].type = "put"
  BY <1>2 DEF Put, Command
<1>4. commands \in [1..Cardinality(S) -> Command]
  BY <1>2, <1>3
<1> HIDE DEF commands
<1>5. commands \in Seq(Command)
  BY <1>1, <1>4
<1>6. AllPuts(commands)
  BY <1>3, <1>4 DEF AllPuts
<1> QED
  BY <1>5, <1>6 DEF commands

LEMMA MemoryTypesStep ==
    ASSUME Types, [Next]_vars
    PROVE  MemoryTypes'
<1>1. MemoryTypes /\ WALTypes /\ FilesTyped(files)
  BY DEF Types, WALTypes
<1>2. ASSUME UNCHANGED vars
      PROVE  MemoryTypes'
  BY <1>1, <1>2 DEF MemoryTypes, vars, historyVars, Data
<1>3. ASSUME NEW k \in Key, NEW v \in Value, NEW ttl \in BOOLEAN, StartPut(k, v, ttl)
      PROVE  MemoryTypes'
  <2>1. Put(k, v) \in Command /\ Put(k, v).type = "put"
    BY DEF Command, Put
  <2>2. writing' \in Write /\ (AllPuts(writing'.commands) \/ AllDeletes(writing'.commands))
    BY <1>3, <2>1, OneCommand, StartWriteTyped DEF StartPut
  <2> QED
    BY <1>1, <1>3, <2>2 DEF StartPut, MemoryTypes, historyVars, Free
<1>4. ASSUME NEW k \in Key, StartDelete(k)
      PROVE  MemoryTypes'
  <2>1. Delete(k) \in Command /\ Delete(k).type = "delete"
    BY DEF Command, Delete
  <2>2. writing' \in Write /\ (AllPuts(writing'.commands) \/ AllDeletes(writing'.commands))
    BY <1>4, <2>1, OneCommand, StartWriteTyped DEF StartDelete
  <2> QED
    BY <1>1, <1>4, <2>2 DEF StartDelete, MemoryTypes, historyVars, Free
<1>5. ASSUME NEW k \in Key, Expire(k)
      PROVE  MemoryTypes'
  <2>1. data[k] \in KeyValue
    BY <1>1, <1>5 DEF Expire, Exists, MemoryTypes, Data
  <2>2. [data[k] EXCEPT !.expired = TRUE] \in KeyValue
    BY <2>1 DEF KeyValue
  <2>3. data' \in Data
    BY <1>1, <1>5, <2>2 DEF Expire, MemoryTypes, Data
  <2> QED
    BY <1>1, <1>5, <2>3 DEF Expire, MemoryTypes, historyVars
<1>6. ASSUME NEW k \in Key, GetExpired(k)
      PROVE  MemoryTypes'
  BY <1>1, <1>6 DEF GetExpired, MemoryTypes, historyVars, Free
<1>7. ASSUME NEW k \in Key, DeleteExpired(k)
      PROVE  MemoryTypes'
  <2>1. data' \in Data
    BY <1>1, <1>7 DEF DeleteExpired, MemoryTypes, Data
  <2> QED
    BY <1>1, <1>7, <2>1 DEF DeleteExpired, MemoryTypes
<1>8. ASSUME NEW k \in Key, NEW prev \in Value \cup {None}, NEW v \in Value,
             CompareAndSwap(k, prev, v)
      PROVE  MemoryTypes'
  <2>1. Put(k, v) \in Command /\ Put(k, v).type = "put"
    BY DEF Command, Put
  <2>2. \/ writing' \in Write /\ (AllPuts(writing'.commands) \/ AllDeletes(writing'.commands))
        \/ writing' = writing
    BY <1>8, <2>1, OneCommand, StartWriteTyped DEF CompareAndSwap
  <2>3. data' \in Data
    BY <1>1, <1>8 DEF CompareAndSwap, MemoryTypes, Data
  <2>4. unlogged' \subseteq Key
    BY <1>1, <1>8 DEF CompareAndSwap, MemoryTypes
  <2>5. /\ mode = "up" /\ writing = None
        /\ UNCHANGED <<mode, deleting, txns, snapshot, appended, acked, survived>>
    BY <1>8 DEF CompareAndSwap, Free
  <2> QED
    BY <1>1, <2>2, <2>3, <2>4, <2>5 DEF MemoryTypes
<1>9. ASSUME NEW S \in SUBSET Key, IsFiniteSet(S), NEW ttl \in BOOLEAN, NEW kvs \in [S -> Value],
             StartBatchPut(kvs, ttl)
      PROVE  MemoryTypes'
  <2>1. PICK keys \in SetToSeqs(DOMAIN kvs) :
            StartWrite([i \in DOMAIN keys |-> Put(keys[i], kvs[keys[i]])], ttl)
    BY <1>9 DEF StartBatchPut
  <2> DEFINE commands == [i \in DOMAIN keys |-> Put(keys[i], kvs[keys[i]])]
  <2>2. commands \in Seq(Command) /\ AllPuts(commands)
    BY <1>9, BatchPutTyped
  <2> HIDE DEF commands
  <2>3. StartWrite(commands, ttl)
    BY <2>1 DEF commands
  <2>4. writing' \in Write /\ (AllPuts(writing'.commands) \/ AllDeletes(writing'.commands))
    BY <2>2, <2>3, StartWriteTyped
  <2> QED
    BY <1>1, <1>9, <2>4 DEF StartBatchPut, MemoryTypes, historyVars, Free
<1>10. ASSUME NEW n \in 1..MaxOps, NEW keys \in [1..n -> Key], StartBatchDelete(keys)
      PROVE  MemoryTypes'
  <2> DEFINE commands == Deletes(data, keys)
  <2>1. keys \in Seq(Key) /\ data \in Data
    BY <1>1, EngineAssumption DEF MemoryTypes
  <2>2. commands \in Seq(Command) /\ AllDeletes(commands)
    BY <2>1, DeletesTyped
  <2>3. StartWrite(commands, FALSE)
    BY <1>10 DEF StartBatchDelete
  <2> HIDE DEF commands
  <2>4. writing' \in Write /\ (AllPuts(writing'.commands) \/ AllDeletes(writing'.commands))
    BY <2>2, <2>3, StartWriteTyped
  <2> QED
    BY <1>1, <1>10, <2>4 DEF StartBatchDelete, MemoryTypes, historyVars, Free
<1>11. ASSUME WriteRecord
       PROVE  MemoryTypes'
  <2>1. writing \in Write /\ writing.todo \in Seq(Command) /\ writing.todo # <<>>
        /\ writing.ids \in Seq(Nat) /\ appended + 1 \in Nat
    BY <1>1, <1>11 DEF WriteRecord, MemoryTypes, Write
  <2>2. Tail(writing.todo) \in Seq(Command) /\ Append(writing.ids, appended + 1) \in Seq(Nat)
    BY <2>1, HeadTailProperties, AppendProperties
  <2>3. writing' = [writing EXCEPT !.todo = Tail(writing.todo),
                                   !.ids = Append(writing.ids, appended + 1)]
    BY <1>11 DEF WriteRecord
  <2>4. writing' \in Write /\ writing'.commands = writing.commands
    BY <2>1, <2>2, <2>3 DEF Write
  <2>5. AllPuts(writing'.commands) \/ AllDeletes(writing'.commands)
    BY <1>1, <1>11, <2>4 DEF WriteRecord, MemoryTypes
  <2>6. mode # "down"
    BY <1>1, <1>11 DEF WriteRecord, MemoryTypes
  <2> QED
    BY <1>1, <1>11, <2>1, <2>4, <2>5, <2>6 DEF WriteRecord, MemoryTypes
<1>12. ASSUME WriteSync
       PROVE  MemoryTypes'
  <2>1. writing \in Write
    BY <1>1, <1>12 DEF WriteSync, MemoryTypes
  <2>2. writing' = [writing EXCEPT !.synced = TRUE]
    BY <1>12 DEF WriteSync
  <2>3. writing' \in Write /\ writing'.commands = writing.commands
    BY <2>1, <2>2 DEF Write
  <2>4. AllPuts(writing'.commands) \/ AllDeletes(writing'.commands)
    BY <1>1, <1>12, <2>3 DEF WriteSync, MemoryTypes
  <2>5. mode # "down"
    BY <1>1, <1>12 DEF WriteSync, MemoryTypes
  <2> QED
    BY <1>1, <1>12, <2>3, <2>4, <2>5 DEF WriteSync, MemoryTypes, historyVars
<1>13. ASSUME FinishWrite
       PROVE  MemoryTypes'
  <2>1. /\ writing \in Write /\ writing.commands \in Seq(Command) /\ writing.ttl \in BOOLEAN
        /\ writing.ids \in Seq(Nat)
    BY <1>1, <1>13 DEF FinishWrite, MemoryTypes, Write
  <2>2. AllPuts(writing.commands) \/ AllDeletes(writing.commands)
    BY <1>1, <1>13 DEF FinishWrite, MemoryTypes
  <2>3. data' \in Data
    BY <1>1, <1>13, <2>1, <2>2, StoreTyped DEF FinishWrite, MemoryTypes
  <2>4. acked' \subseteq Seq(Nat)
    BY <1>1, <1>13, <2>1 DEF FinishWrite, MemoryTypes
  <2> QED
    BY <1>1, <1>13, <2>3, <2>4 DEF FinishWrite, MemoryTypes
<1>14. ASSUME CleanupExpiredKeys
       PROVE  MemoryTypes'
  <2>1. data' \in Data /\ unlogged' \subseteq Key
    BY <1>1, <1>14 DEF CleanupExpiredKeys, MemoryTypes, Data
  <2> QED
    BY <1>1, <1>14, <2>1 DEF CleanupExpiredKeys, MemoryTypes
<1>15. ASSUME NEW t \in Txn, BeginTransaction(t)
       PROVE  MemoryTypes'
  <2>1. txns' \in [Txn -> Seq(Command) \cup {None}]
    BY <1>1, <1>15, EmptySeq DEF BeginTransaction, MemoryTypes
  <2> QED
    BY <1>1, <1>15, <2>1 DEF BeginTransaction, MemoryTypes, historyVars
<1>16. ASSUME NEW t \in Txn, NEW c \in Command, AddOperation(t, c)
       PROVE  MemoryTypes'
  <2>1. txns[t] \in Seq(Command)
    BY <1>1, <1>16 DEF AddOperation, MemoryTypes
  <2>2. Append(txns[t], c) \in Seq(Command)
    BY <2>1, AppendProperties
  <2>3. txns' \in [Txn -> Seq(Command) \cup {None}]
    BY <1>1, <1>16, <2>2 DEF AddOperation, MemoryTypes
  <2> QED
    BY <1>1, <1>16, <2>3 DEF AddOperation, MemoryTypes, historyVars
<1>17. ASSUME NEW t \in Txn, CommitTransaction(t)
       PROVE  MemoryTypes'
  <2>1. txns[t] \in Seq(Command)
    BY <1>1, <1>17 DEF CommitTransaction, MemoryTypes
  <2>2. data' \in Data
    BY <1>1, <1>17, <2>1, ApplyTyped DEF CommitTransaction, MemoryTypes
  <2>3. txns' \in [Txn -> Seq(Command) \cup {None}]
    BY <1>1, <1>17 DEF CommitTransaction, MemoryTypes
  <2>4. unlogged' \subseteq Key
    <3>1. \A i \in DOMAIN txns[t] : txns[t][i] \in Command
      BY <2>1, LenProperties, ElementOfSeq
    <3>2. \A c \in Command : c.key \in Key
      BY DEF Command, Put, Delete
    <3> QED
      BY <1>1, <1>17, <3>1, <3>2 DEF CommitTransaction, MemoryTypes
  <2> QED
    BY <1>1, <1>17, <2>2, <2>3, <2>4 DEF CommitTransaction, MemoryTypes
<1>18. ASSUME NEW t \in Txn, RollbackTransaction(t)
       PROVE  MemoryTypes'
  <2>1. txns' \in [Txn -> Seq(Command) \cup {None}]
    BY <1>1, <1>18 DEF RollbackTransaction, MemoryTypes
  <2> QED
    BY <1>1, <1>18, <2>1 DEF RollbackTransaction, MemoryTypes, historyVars
<1>19. ASSUME CopyForSnapshot
       PROVE  MemoryTypes'
  <2>1. snapshot' \in Snapshot
    BY <1>1, <1>19 DEF Snapshot, CopyForSnapshot, MemoryTypes, WALTypes
  <2> QED
    BY <1>1, <1>19, <2>1 DEF CopyForSnapshot, MemoryTypes, historyVars, Free
<1>20. ASSUME RemoveNextSegment
       PROVE  MemoryTypes'
  <2>1. PICK s \in DOMAIN files :
            unlogged' = unlogged \cup {r.command.key : r \in ToSet(files[s].records)}
    BY <1>20 DEF RemoveNextSegment, SegmentsAbove
  <2>2. files[s].records \in Seq(Record)
    BY <1>1 DEF FilesTyped, Segment
  <2>3. \A i \in DOMAIN files[s].records : files[s].records[i] \in Record
    BY <2>2, LenProperties, ElementOfSeq
  <2>4. \A r \in Record : r.command.key \in Key
    BY DEF Record, Command, Put, Delete
  <2>5. unlogged' \subseteq Key
    BY <1>1, <2>1, <2>3, <2>4 DEF MemoryTypes, ToSet
  <2>6. snapshot' \in Snapshot
    <3>1. /\ snapshot' = [snapshot EXCEPT !.truncating = TRUE]
          /\ snapshot \in Snapshot
      BY <1>1, <1>20 DEF RemoveNextSegment, MemoryTypes
    <3> QED
      BY <3>1 DEF Snapshot
  <2>7. mode = "up" /\ UNCHANGED <<mode, data, writing, deleting, txns, appended, acked, survived>>
    BY <1>20 DEF RemoveNextSegment
  <2> QED
    BY <1>1, <2>5, <2>6, <2>7 DEF MemoryTypes
<1>27. ASSUME FinishTruncate
       PROVE  MemoryTypes'
  BY <1>1, <1>27 DEF FinishTruncate, MemoryTypes, historyVars
<1>28. ASSUME NEW keys \in SUBSET Key, DeleteLeased(keys)
       PROVE  MemoryTypes'
  <2>1. data' \in Data /\ unlogged' \subseteq Key
    BY <1>1, <1>28 DEF DeleteLeased, MemoryTypes, Data
  <2> QED
    BY <1>1, <1>28, <2>1 DEF DeleteLeased, MemoryTypes
<1>21. ASSUME NEW fs, LoseMemory(fs), Recovered(fs) \in Data, UNCHANGED <<appended, acked>>
       PROVE  MemoryTypes'
  <2>1. NoData \in Data
    BY DEF NoData, Data
  <2> QED
    BY <1>1, <1>21, <2>1 DEF LoseMemory, MemoryTypes
<1>22. ASSUME Close
       PROVE  MemoryTypes'
  <2>1. Recovered(files) \in Data
    BY <1>1, RecoveredTyped DEF WALTypes, FilesTyped
  <2> QED
    BY <1>21, <1>22, <2>1 DEF Close
<1>23. ASSUME Crash
       PROVE  MemoryTypes'
  <2>1. LoseMemory(files') /\ UNCHANGED <<current, appended, acked>>
    BY <1>23 DEF Crash
  <2>2. WALTypes'
    BY <1>23, WALTypesStep DEF Next
  <2>3. Recovered(files') \in Data
    <3> DEFINE fs == files'
               n == current'
    <3>1. FilesTyped(fs) /\ n \in Nat /\ \A s \in DOMAIN fs : s <= n
      BY <2>2 DEF WALTypes, FilesTyped
    <3> HIDE DEF fs, n
    <3>2. Recovered(fs) \in Data
      BY <3>1, RecoveredTyped
    <3> QED
      BY <3>2 DEF fs
  <2> QED
    BY <1>21, <2>1, <2>3
<1>24. ASSUME Restart
       PROVE  MemoryTypes'
  <2>1. Recovered(files) \in Data /\ NoData \in Data
    BY <1>1, RecoveredTyped DEF WALTypes, FilesTyped, NoData, Data
  <2> QED
    BY <1>1, <1>24, <2>1 DEF Restart, MemoryTypes
<1>25. ASSUME NEW S \in {S \in SUBSET Key : S # {} /\ IsFiniteSet(S)}, NEW ttl \in BOOLEAN,
              NEW kvs \in [S -> Value], StartBatchPut(kvs, ttl)
       PROVE  MemoryTypes'
  BY <1>9, <1>25
<1>26. ASSUME NEW keys \in UNION {[1..n -> Key] : n \in 1..MaxOps}, StartBatchDelete(keys)
       PROVE  MemoryTypes'
  <2>1. PICK n \in 1..MaxOps : keys \in [1..n -> Key]
    OBVIOUS
  <2> QED
    BY <1>10, <1>26, <2>1
<1> QED
  BY <1>2, <1>3, <1>4, <1>5, <1>6, <1>7, <1>8, <1>25, <1>26, <1>11, <1>12, <1>13, <1>14, <1>15, <1>16,
     <1>17, <1>18, <1>19, <1>20, <1>22, <1>23, <1>24, <1>27, <1>28 DEF Next

LEMMA TypesInitially == Init => Types
<1> SUFFICES ASSUME Init
             PROVE  Types
  OBVIOUS
<1>1. EmptySegment \in Segment
  BY EmptySeq DEF EmptySegment, Segment
<1>2. WALTypes
  <2>1. files = [i \in {0} |-> EmptySegment] /\ current = 0 /\ index = 0 /\ fileSize = 0
    BY DEF Init, WALInit
  <2> QED
    BY <1>1, <2>1 DEF WALTypes, FilesTyped
<1>3. MemoryTypes
  BY DEF Init, MemoryTypes, NoData, Data
<1> QED
  BY <1>2, <1>3 DEF Types

LEMMA TypesStep == Types /\ [Next]_vars => Types'
BY WALTypesStep, MemoryTypesStep DEF Types

LEMMA TypesAlways == Spec => []Types
BY TypesInitially, TypesStep, PTL DEF Spec

\* Every variable has its type in every reachable state: in particular there is always a
\* current segment (wal.go:122), whatever was truncated, and a put whose memory part comes last
\* finds the entry whose TTL it sets (engine.go:257).
THEOREM EngineTypesAlways == Spec => []TypeOK
<1>1. Types => TypeOK
  BY DEF Types, WALTypes, FilesTyped, MemoryTypes, TypeOK, Data
<1> QED
  BY <1>1, TypesAlways, PTL

-----------------------------------------------------------------------------
(* The log *)

Id(s, i) == files[s].records[i].id
Place(s, i) == s \in DOMAIN files /\ i \in DOMAIN files[s].records

\* Wherever the record of that id is, fsync has reached it
SyncedId(id) == \A s, i : Place(s, i) /\ Id(s, i) = id => i <= files[s].synced
\* If it is anywhere, it is in the file that is written to
AtEnd(id) == \A s, i : Place(s, i) /\ Id(s, i) = id => s = current

\* The order of the records in the log is that of their ids
InOrder ==
    \A s, i, t, j : Place(s, i) /\ Place(t, j) /\ (s < t \/ (s = t /\ i < j)) => Id(s, i) < Id(t, j)

IdsAppended == \A s, i : Place(s, i) => Id(s, i) \in 1..appended

AckedSynced ==
    \A ids \in acked : ids # <<>> /\ Last(ids) \in 1..appended /\ SyncedId(Last(ids))

WrittenAtEnd ==
    writing # None /\ writing.ids # <<>> =>
        /\ Last(writing.ids) \in 1..appended
        /\ IF writing.synced THEN SyncedId(Last(writing.ids)) ELSE AtEnd(Last(writing.ids))

\* What the snapshot under way has in its copy is in segments its truncation keeps
SnapshotKept ==
    snapshot # None =>
        /\ snapshot.covers <= appended
        /\ \A s, i : Place(s, i) /\ Id(s, i) <= snapshot.covers => s <= snapshot.index

SyncComesLast == writing # None /\ writing.synced => writing.todo = <<>>

LogInv == InOrder /\ IdsAppended /\ AckedSynced /\ WrittenAtEnd /\ SyncComesLast /\ SnapshotKept

\* The record written goes behind all others: in its file, and no file's name comes after
LEMMA AppendFacts ==
    ASSUME Types, WriteRecord
    PROVE  \E name \in Nat, n \in Nat :
              /\ current' = name
              /\ \A s \in DOMAIN files : s <= name /\ files'[s].synced = files[s].synced
              /\ DOMAIN files' = DOMAIN files \cup {name}
              /\ \A s, i : Place(s, i)' <=> Place(s, i) \/ (s = name /\ i = n)
              /\ \A s, i : Place(s, i) => Id(s, i)' = Id(s, i)
              /\ \A i : Place(name, i) => i < n
              /\ Id(name, n)' = appended + 1
              /\ \A s, i : Place(s, i) => files'[s].records[i] = files[s].records[i]
              /\ files'[name].records[n].command = Head(writing.todo)
<1> DEFINE full == fileSize + 1 > SegmentSize
<1>1. PICK name \in Nat : name = (IF full THEN index ELSE current) /\ current <= name
  BY DEF Types, WALTypes, FilesTyped
<1> DEFINE opened == [i \in DOMAIN files \cup {name} |->
                         IF i \in DOMAIN files THEN files[i] ELSE EmptySegment]
           r == [command |-> Head(writing.todo), id |-> appended + 1]
           old == opened[name].records
<1>2. /\ WALTypes /\ FilesTyped(files) /\ current <= name /\ current \in Nat
      /\ DOMAIN files \subseteq Nat /\ \A s \in DOMAIN files : s <= current
  BY <1>1 DEF Types, WALTypes, FilesTyped
<1>3. /\ files' = [opened EXCEPT ![name].records = Append(old, r)]
      /\ current' = name
  BY <1>1 DEF WriteRecord, AppendRecord, SegmentName
<1>4. /\ opened \in [DOMAIN files \cup {name} -> Segment]
      /\ \A s \in DOMAIN files : opened[s] = files[s]
      /\ name \notin DOMAIN files => opened[name] = EmptySegment
  <2>1. EmptySegment \in Segment
    BY EmptySeq DEF EmptySegment, Segment
  <2> QED
    BY <1>2, <2>1 DEF FilesTyped
<1>5. \A s \in DOMAIN files : s <= name
  BY <1>2
<1> HIDE DEF opened
<1>6. old \in Seq(Record) /\ r \in Record
  <2>1. old \in Seq(Record)
    BY <1>4 DEF Segment
  <2>2. writing \in Write /\ writing.todo # <<>> /\ appended \in Nat
    BY DEF WriteRecord, Types, MemoryTypes
  <2>3. writing.todo \in Seq(Command)
    BY <2>2 DEF Write
  <2>4. Head(writing.todo) \in Command
    BY <2>2, <2>3, HeadTailProperties
  <2> QED
    BY <2>1, <2>2, <2>4 DEF Record
<1>7. PICK n \in Nat : n = Len(old) + 1
  BY <1>6, LenProperties
<1> DEFINE new == Append(old, r)
<1>8. /\ new \in Seq(Record) /\ Len(new) = Len(old) + 1 /\ Len(old) \in Nat
      /\ DOMAIN new = 1..(Len(old) + 1) /\ DOMAIN old = 1..Len(old)
      /\ \A i \in 1..Len(old) : new[i] = old[i]
      /\ new[n] = r
  BY <1>6, <1>7, AppendProperties, LenProperties
<1>9. DOMAIN files' = DOMAIN files \cup {name}
  BY <1>3, <1>4
<1>10. /\ files'[name].records = new
      /\ files'[name].synced = opened[name].synced
      /\ \A s \in DOMAIN files : s # name => files'[s] = files[s]
  <2>1. opened[name] \in Segment
    BY <1>4
  <2> HIDE DEF old, new
  <2>2. files'[name] = [opened[name] EXCEPT !.records = new]
    BY <1>3, <1>4 DEF new
  <2> QED
    BY <1>3, <1>4, <2>1, <2>2 DEF Segment
<1>11. name \in DOMAIN files => old = files[name].records
  BY <1>4
<1>12. name \notin DOMAIN files => Len(old) = 0
  <2> SUFFICES ASSUME name \notin DOMAIN files
               PROVE  Len(old) = 0
    OBVIOUS
  <2>1. old = <<>>
    BY <1>4 DEF EmptySegment
  <2> QED
    BY <2>1, EmptySeq
<1> HIDE DEF old, new, r
<1>13. \A i : i \in 1..n <=> i \in 1..Len(old) \/ i = n
  BY <1>8, <1>7
<1>14. ASSUME NEW s, NEW i
       PROVE  Place(s, i)' <=> Place(s, i) \/ (s = name /\ i = n)
  <2>1. CASE s # name
    <3>1. s \in DOMAIN files' <=> s \in DOMAIN files
      BY <1>9, <2>1
    <3>2. s \in DOMAIN files => files'[s] = files[s]
      BY <1>10, <2>1
    <3> QED
      BY <2>1, <3>1, <3>2 DEF Place
  <2>2. CASE s = name
    <3>1. Place(s, i)' <=> i \in 1..n
      BY <1>8, <1>9, <1>10, <1>7, <2>2 DEF Place
    <3>2. Place(s, i) <=> i \in 1..Len(old)
      <4>1. CASE name \in DOMAIN files
        BY <1>8, <1>11, <2>2, <4>1 DEF Place
      <4>2. CASE name \notin DOMAIN files
        <5>1. 1..Len(old) = {}
          BY <1>12, <4>2
        <5> QED
          BY <2>2, <4>2, <5>1 DEF Place
      <4> QED
        BY <4>1, <4>2
    <3> QED
      BY <1>13, <2>2, <3>1, <3>2
  <2> QED
    BY <2>1, <2>2
<1>15. ASSUME NEW s, NEW i, Place(s, i)
       PROVE  /\ Id(s, i)' = Id(s, i) /\ (s = name => i < n)
              /\ files'[s].records[i] = files[s].records[i]
  <2>1. CASE s # name
    BY <1>10, <1>15, <2>1 DEF Place, Id
  <2>2. CASE s = name
    <3>1. name \in DOMAIN files /\ i \in 1..Len(old)
      BY <1>8, <1>11, <1>15, <2>2 DEF Place
    <3>2. files'[s].records[i] = files[s].records[i]
      BY <1>8, <1>10, <1>11, <2>2, <3>1
    <3> QED
      BY <1>8, <1>7, <3>1, <3>2 DEF Id
  <2> QED
    BY <2>1, <2>2
<1>16. /\ Id(name, n)' = appended + 1
       /\ files'[name].records[n].command = Head(writing.todo)
  BY <1>8, <1>10 DEF Id, r
<1>17. \A s \in DOMAIN files : files'[s].synced = files[s].synced
  BY <1>4, <1>10
<1>18. /\ \A s, i : Place(s, i) => Id(s, i)' = Id(s, i)
       /\ \A i : Place(name, i) => i < n
       /\ \A s, i : Place(s, i) => files'[s].records[i] = files[s].records[i]
  BY <1>15
<1> QED
  BY <1>3, <1>5, <1>9, <1>14, <1>16, <1>17, <1>18

\* Every other step leaves records where they are, takes some away, or has more of them synced
Shrinks ==
    /\ \A s, i : Place(s, i)' => Place(s, i)
    /\ \A s, i : Place(s, i)' => Id(s, i)' = Id(s, i)
    /\ \A s, i : Place(s, i)' => files'[s].records[i] = files[s].records[i]
    /\ \A s, i : Place(s, i)' /\ i <= files[s].synced => i <= files'[s].synced

LEMMA UnchangedShrinks ==
    ASSUME files' = files
    PROVE  Shrinks
BY DEF Shrinks, Place, Id

\* No truncation is removing segments when Sync gets w.mu
LEMMA SyncedFile ==
    ASSUME Types, WriteSync
    PROVE  current \in DOMAIN files
<1>1. mode = "up" /\ ~Truncating
  BY DEF WriteSync, Types, MemoryTypes
<1> QED
  BY <1>1 DEF Types, WALTypes

LEMMA SyncShrinks ==
    ASSUME Types, WriteSync
    PROVE  /\ Shrinks
           /\ \A i : Place(current, i)' => i <= files'[current].synced
<1>1. FilesTyped(files) /\ current \in DOMAIN files /\ files[current] \in Segment
  BY SyncedFile DEF Types, WALTypes, FilesTyped
<1>2. /\ files' = [files EXCEPT ![current].synced = Len(files[current].records)]
      /\ current' = current
  BY DEF WriteSync, SyncWAL, Fsynced
<1>3. /\ DOMAIN files' = DOMAIN files
      /\ \A s \in DOMAIN files : s # current => files'[s] = files[s]
      /\ files'[current].records = files[current].records
      /\ files'[current].synced = Len(files[current].records)
  BY <1>1, <1>2 DEF FilesTyped, Segment
<1>4. \A s \in DOMAIN files : files'[s].records = files[s].records
  BY <1>3
<1>5. \A i : Place(current, i)' => i <= files'[current].synced
  <2> SUFFICES ASSUME NEW i, Place(current, i)'
               PROVE  i <= files'[current].synced
    OBVIOUS
  <2>1. i \in DOMAIN files'[current].records
    BY <1>2 DEF Place
  <2>2. files[current].records \in Seq(Record) /\ i \in DOMAIN files[current].records
    BY <1>1, <1>3, <2>1 DEF Segment
  <2>3. i \in 1..Len(files[current].records)
    BY <2>2, LenProperties
  <2> QED
    BY <1>3, <2>3
<1>6. \A s, i : Place(s, i)' => /\ Place(s, i) /\ Id(s, i)' = Id(s, i)
                               /\ files'[s].records[i] = files[s].records[i]
  BY <1>3, <1>4 DEF Place, Id
<1>7. \A s, i : Place(s, i)' /\ i <= files[s].synced => i <= files'[s].synced
  BY <1>3, <1>5 DEF Place
<1> QED
  BY <1>5, <1>6, <1>7 DEF Shrinks

LEMMA RemoveShrinks ==
    ASSUME Types, RemoveNextSegment
    PROVE  Shrinks /\ \A s, i : Place(s, i) /\ s <= snapshot.index => Place(s, i)'
<1>1. PICK gone \in SegmentsAbove(snapshot.index) : RemoveSegment(gone)
  BY DEF RemoveNextSegment
<1>2. files' = [t \in DOMAIN files \ {gone} |-> files[t]] /\ gone \in DOMAIN files
  BY <1>1 DEF RemoveSegment, SegmentsAbove
<1>3. ~(gone <= snapshot.index)
  BY <1>1 DEF SegmentsAbove, SegmentsUpTo
<1> QED
  BY <1>2, <1>3 DEF Shrinks, Place, Id

LEMMA CrashShrinks ==
    ASSUME Types, Crash
    PROVE  Shrinks
<1>1. PICK kept \in [DOMAIN files -> 0..MaxRecords], torn \in SUBSET DOMAIN files :
          /\ \A s \in DOMAIN files : kept[s] \in files[s].synced .. Len(files[s].records)
          /\ files' = Cut(kept, torn)
  BY DEF Crash
<1>2. DOMAIN files' = DOMAIN files
  BY <1>1 DEF Cut
<1>3. ASSUME NEW s \in DOMAIN files
      PROVE  /\ files'[s].synced = files[s].synced
             /\ DOMAIN files'[s].records \subseteq DOMAIN files[s].records
             /\ \A i \in DOMAIN files'[s].records : files'[s].records[i] = files[s].records[i]
  <2>1. files[s] \in Segment /\ files[s].records \in Seq(Record)
    BY DEF Types, WALTypes, FilesTyped, Segment
  <2> DEFINE old == files[s].records
             n == kept[s]
  <2>2. files'[s] = [files[s] EXCEPT !.records = SubSeq(old, 1, n), !.torn = s \in torn]
    BY <1>1 DEF Cut
  <2>3. files'[s].synced = files[s].synced /\ files'[s].records = SubSeq(old, 1, n)
    <3> HIDE DEF old, n
    <3> QED
      BY <2>1, <2>2 DEF Segment
  <2>4. Len(old) \in Nat /\ DOMAIN old = 1..Len(old)
    BY <2>1, LenProperties
  <2>5. n \in Nat /\ n <= Len(old)
    <3>1. kept[s] \in Nat /\ kept[s] \in files[s].synced .. Len(old)
      BY <1>1, EngineAssumption
    <3> QED
      BY <2>4, <3>1
  <2>6. n \in 0..Len(old)
    BY <2>4, <2>5
  <2> HIDE DEF n
  <2>7. SubSeq(old, 1, n) = [i \in 1..n |-> old[i]]
    BY <2>1, <2>4, <2>5
  <2>8. 1..n \subseteq 1..Len(old)
    BY <2>4, <2>5
  <2> HIDE DEF old
  <2> QED
    BY <2>3, <2>4, <2>7, <2>8 DEF old
<1> QED
  BY <1>2, <1>3 DEF Shrinks, Place, Id

LEMMA SyncedStays ==
    ASSUME Shrinks, NEW id, SyncedId(id)
    PROVE  SyncedId(id)'
BY DEF Shrinks, SyncedId

\* A record that is written is the last, so nothing that was synced is less so
LEMMA SyncedStaysOnAppend ==
    ASSUME Types, WriteRecord, NEW id \in 1..appended, SyncedId(id)
    PROVE  SyncedId(id)'
<1>1. PICK name \in Nat, n \in Nat :
          /\ \A s \in DOMAIN files : files'[s].synced = files[s].synced
          /\ \A s, i : Place(s, i)' <=> Place(s, i) \/ (s = name /\ i = n)
          /\ \A s, i : Place(s, i) => Id(s, i)' = Id(s, i)
          /\ Id(name, n)' = appended + 1
  BY AppendFacts
<1> SUFFICES ASSUME NEW s, NEW i, Place(s, i)', Id(s, i)' = id
             PROVE  i <= files'[s].synced
  BY DEF SyncedId
<1>2. appended \in Nat /\ id # appended + 1
  BY DEF Types, MemoryTypes
<1>3. Place(s, i)
  BY <1>1, <1>2
<1> QED
  BY <1>1, <1>3 DEF SyncedId, Place

LEMMA LastOfAppended ==
    ASSUME NEW s \in Seq(Nat), NEW x \in Nat
    PROVE  Append(s, x) # <<>> /\ Last(Append(s, x)) = x
<1>1. /\ Append(s, x) \in Seq(Nat) /\ Len(Append(s, x)) = Len(s) + 1 /\ Len(s) \in Nat
      /\ Append(s, x)[Len(s) + 1] = x
  BY AppendProperties, LenProperties
<1>2. Append(s, x) # <<>>
  BY <1>1, EmptySeq
<1> QED
  BY <1>1, <1>2 DEF Last

LEMMA InOrderStep ==
    ASSUME Types, InOrder, IdsAppended, [Next]_vars
    PROVE  InOrder' /\ IdsAppended'
<1>1. appended \in Nat
  BY DEF Types, MemoryTypes
<1>2. ASSUME Shrinks, appended' = appended
      PROVE  InOrder' /\ IdsAppended'
  <2>1. InOrder'
    <3> SUFFICES ASSUME NEW s, NEW i, NEW t, NEW j, Place(s, i)', Place(t, j)',
                        s < t \/ (s = t /\ i < j)
                 PROVE  Id(s, i)' < Id(t, j)'
      BY DEF InOrder
    <3>1. Place(s, i) /\ Place(t, j) /\ Id(s, i)' = Id(s, i) /\ Id(t, j)' = Id(t, j)
      BY <1>2 DEF Shrinks
    <3> QED
      BY <3>1 DEF InOrder
  <2>2. IdsAppended'
    BY <1>2 DEF IdsAppended, Shrinks
  <2> QED
    BY <2>1, <2>2
<1>3. CASE WriteRecord
  <2>1. PICK name \in Nat, n \in Nat :
            /\ \A s \in DOMAIN files : s <= name
            /\ \A s, i : Place(s, i)' <=> Place(s, i) \/ (s = name /\ i = n)
            /\ \A s, i : Place(s, i) => Id(s, i)' = Id(s, i)
            /\ \A i : Place(name, i) => i < n
            /\ Id(name, n)' = appended + 1
    BY <1>3, AppendFacts
  <2>2. appended' = appended + 1
    BY <1>3 DEF WriteRecord
  <2>3. IdsAppended'
    <3> SUFFICES ASSUME NEW s, NEW i, Place(s, i)'
                 PROVE  Id(s, i)' \in 1..(appended + 1)
      BY <2>2 DEF IdsAppended
    <3>1. CASE Place(s, i)
      <4>1. Id(s, i)' = Id(s, i) /\ Id(s, i) \in 1..appended
        BY <2>1, <3>1 DEF IdsAppended
      <4> QED
        BY <1>1, <4>1
    <3>2. CASE s = name /\ i = n
      BY <1>1, <2>1, <3>2
    <3> QED
      BY <2>1, <3>1, <3>2
  <2>4. InOrder'
    <3> SUFFICES ASSUME NEW s, NEW i, NEW t, NEW j, Place(s, i)', Place(t, j)',
                        s < t \/ (s = t /\ i < j)
                 PROVE  Id(s, i)' < Id(t, j)'
      BY DEF InOrder
    <3>1. CASE Place(s, i) /\ Place(t, j)
      <4>1. Id(s, i)' = Id(s, i) /\ Id(t, j)' = Id(t, j)
        BY <2>1, <3>1
      <4> QED
        BY <3>1, <4>1 DEF InOrder
    <3>2. CASE Place(s, i) /\ t = name /\ j = n
      <4>1. Id(s, i)' = Id(s, i) /\ Id(s, i) \in 1..appended
        BY <2>1, <3>2 DEF IdsAppended
      <4> QED
        BY <1>1, <2>1, <3>2, <4>1
    <3>3. CASE s = name /\ i = n /\ Place(t, j)
      <4>1. t \in DOMAIN files /\ t \in Nat /\ t <= name
        BY <2>1, <3>3 DEF Place, Types, WALTypes, FilesTyped
      <4>2. t = name /\ i < j
        BY <3>3, <4>1
      <4>3. j \in Nat
        <5>1. files[t].records \in Seq(Record)
          BY <4>1 DEF Types, WALTypes, FilesTyped, Segment
        <5>2. j \in 1..Len(files[t].records)
          BY <3>3, <5>1, LenProperties DEF Place
        <5> QED
          BY <5>2
      <4>4. j < n
        BY <2>1, <3>3, <4>2
      <4> QED
        BY <3>3, <4>2, <4>3, <4>4
    <3>4. CASE s = name /\ i = n /\ t = name /\ j = n
      BY <3>4
    <3> QED
      BY <2>1, <3>1, <3>2, <3>3, <3>4
  <2> QED
    BY <2>3, <2>4
<1>4. CASE WriteSync
  BY <1>2, <1>4, SyncShrinks DEF WriteSync, historyVars
<1>5. CASE RemoveNextSegment
  BY <1>2, <1>5, RemoveShrinks DEF RemoveNextSegment
<1>6. CASE Crash
  BY <1>2, <1>6, CrashShrinks DEF Crash
<1>7. CASE files' = files /\ appended' = appended
  BY <1>2, <1>7, UnchangedShrinks
<1>8. Next => \/ files' = files /\ appended' = appended
              \/ WriteRecord \/ WriteSync \/ RemoveNextSegment \/ Crash
  BY DEF Next, StartPut, StartDelete, Expire, GetExpired, DeleteExpired, CompareAndSwap, DeleteLeased,
         FinishTruncate, StartBatchPut, StartBatchDelete, FinishWrite, CleanupExpiredKeys, BeginTransaction,
         AddOperation, CommitTransaction, RollbackTransaction, CopyForSnapshot, Close, Restart, Load,
         walVars, historyVars
<1> QED
  BY <1>3, <1>4, <1>5, <1>6, <1>7, <1>8 DEF vars, walVars, historyVars

LEMMA AckedStep ==
    ASSUME Types, LogInv, [Next]_vars
    PROVE  AckedSynced'
<1>1. appended \in Nat /\ AckedSynced /\ WrittenAtEnd
  BY DEF Types, MemoryTypes, LogInv
<1>2. ASSUME Shrinks, appended' = appended, acked' = acked
      PROVE  AckedSynced'
  BY <1>1, <1>2, SyncedStays DEF AckedSynced
<1>3. CASE WriteRecord
  <2>1. appended' = appended + 1 /\ acked' = acked
    BY <1>3 DEF WriteRecord
  <2>2. ASSUME NEW ids \in acked
        PROVE  ids # <<>> /\ Last(ids) \in 1..(appended + 1) /\ SyncedId(Last(ids))'
    <3>1. ids # <<>> /\ Last(ids) \in 1..appended /\ SyncedId(Last(ids))
      BY <1>1 DEF AckedSynced
    <3>2. PICK id \in 1..appended : id = Last(ids)
      BY <3>1
    <3>3. SyncedId(id)'
      BY <1>3, <3>1, <3>2, SyncedStaysOnAppend
    <3> QED
      BY <1>1, <3>1, <3>2, <3>3
  <2> QED
    BY <2>1, <2>2 DEF AckedSynced
<1>4. CASE FinishWrite
  <2>1. Shrinks /\ appended' = appended
    BY <1>4, UnchangedShrinks DEF FinishWrite, walVars
  <2>2. ASSUME NEW ids \in acked'
        PROVE  ids # <<>> /\ Last(ids) \in 1..appended /\ SyncedId(Last(ids))
    <3>1. CASE ids \in acked
      BY <1>1, <3>1 DEF AckedSynced
    <3>2. CASE ids = writing.ids /\ writing.ids # <<>>
      BY <1>1, <1>4, <3>2 DEF WrittenAtEnd, FinishWrite
    <3> QED
      BY <1>4, <2>2, <3>1, <3>2 DEF FinishWrite
  <2> QED
    BY <2>1, <2>2, SyncedStays DEF AckedSynced
<1>5. CASE WriteSync
  BY <1>2, <1>5, SyncShrinks DEF WriteSync, historyVars
<1>6. CASE RemoveNextSegment
  BY <1>2, <1>6, RemoveShrinks DEF RemoveNextSegment
<1>7. CASE Crash
  BY <1>2, <1>7, CrashShrinks DEF Crash
<1>8. CASE files' = files /\ appended' = appended /\ acked' = acked
  BY <1>2, <1>8, UnchangedShrinks
<1>9. Next => \/ files' = files /\ appended' = appended /\ acked' = acked
              \/ WriteRecord \/ FinishWrite \/ WriteSync \/ RemoveNextSegment \/ Crash
  BY DEF Next, StartPut, StartDelete, Expire, GetExpired, DeleteExpired, CompareAndSwap,
         DeleteLeased, FinishTruncate,
         StartBatchPut, StartBatchDelete, CleanupExpiredKeys, BeginTransaction,
         AddOperation, CommitTransaction, RollbackTransaction, CopyForSnapshot, Close, Restart, Load,
         walVars, historyVars
<1> QED
  BY <1>3, <1>4, <1>5, <1>6, <1>7, <1>8, <1>9 DEF vars, walVars, historyVars

LEMMA WrittenStep ==
    ASSUME Types, LogInv, [Next]_vars
    PROVE  WrittenAtEnd' /\ SyncComesLast'
<1>1. /\ appended \in Nat /\ IdsAppended /\ WrittenAtEnd /\ SyncComesLast
      /\ writing # None => writing \in Write
  BY DEF Types, MemoryTypes, LogInv
<1>2. CASE WriteRecord
  <2>1. PICK name \in Nat, n \in Nat :
            /\ current' = name
            /\ \A s, i : Place(s, i)' <=> Place(s, i) \/ (s = name /\ i = n)
            /\ \A s, i : Place(s, i) => Id(s, i)' = Id(s, i)
            /\ Id(name, n)' = appended + 1
    BY <1>2, AppendFacts
  <2>2. /\ writing \in Write /\ ~writing.synced /\ appended' = appended + 1
        /\ writing' = [writing EXCEPT !.todo = Tail(writing.todo),
                                      !.ids = Append(writing.ids, appended + 1)]
    BY <1>1, <1>2 DEF WriteRecord, SyncComesLast
  <2>3. /\ writing'.synced = writing.synced
        /\ writing'.ids = Append(writing.ids, appended + 1)
        /\ writing.ids \in Seq(Nat)
    BY <2>2 DEF Write
  <2>4. Last(writing'.ids) = appended + 1 /\ appended + 1 \in 1..appended'
    <3>1. appended + 1 \in Nat
      BY <1>1
    <3>2. Last(Append(writing.ids, appended + 1)) = appended + 1
      BY <2>3, <3>1, LastOfAppended
    <3> QED
      BY <1>1, <2>2, <2>3, <3>2
  <2>5. ASSUME NEW s, NEW i, Place(s, i)', Id(s, i)' = appended + 1
        PROVE  s = current'
    <3>1. ~Place(s, i)
      <4>1. SUFFICES ASSUME Place(s, i)
                     PROVE  FALSE
        OBVIOUS
      <4>2. Id(s, i) = appended + 1 /\ Id(s, i) \in 1..appended
        BY <1>1, <2>1, <2>5, <4>1 DEF IdsAppended
      <4> QED
        BY <1>1, <4>2
    <3> QED
      BY <2>1, <2>5, <3>1
  <2> QED
    BY <2>2, <2>3, <2>4, <2>5 DEF WrittenAtEnd, SyncComesLast, AtEnd
<1>3. CASE WriteSync
  <2>1. /\ writing \in Write /\ writing' = [writing EXCEPT !.synced = TRUE] /\ appended' = appended
        /\ ~writing.synced /\ writing.todo = <<>> /\ writing # None
    BY <1>1, <1>3 DEF WriteSync, historyVars
  <2>2. writing'.ids = writing.ids /\ writing'.todo = writing.todo /\ writing'.synced
    BY <2>1 DEF Write
  <2>3. ASSUME writing.ids # <<>>, NEW s, NEW i, Place(s, i)', Id(s, i)' = Last(writing.ids)
        PROVE  i <= files'[s].synced
    <3>1. AtEnd(Last(writing.ids))
      BY <1>1, <2>1, <2>3 DEF WrittenAtEnd
    <3>2. Place(s, i) /\ Id(s, i)' = Id(s, i)
      BY <1>3, <2>3, SyncShrinks DEF Shrinks
    <3>3. s = current
      BY <2>3, <3>1, <3>2 DEF AtEnd
    <3>4. \A j : Place(current, j)' => j <= files'[current].synced
      BY <1>3, SyncShrinks
    <3>5. current' = current
      BY <1>3 DEF WriteSync, SyncWAL
    <3>6. Place(current, i)'
      BY <2>3, <3>3, <3>5 DEF Place
    <3> QED
      BY <3>3, <3>4, <3>6
  <2>4. writing.ids # <<>> => Last(writing.ids) \in 1..appended
    BY <1>1, <2>1 DEF WrittenAtEnd
  <2> QED
    BY <2>1, <2>2, <2>3, <2>4 DEF WrittenAtEnd, SyncComesLast, SyncedId
<1>4. ASSUME writing' = writing, Shrinks, appended' = appended, current' = current
      PROVE  WrittenAtEnd' /\ SyncComesLast'
  <2>1. ASSUME NEW id, SyncedId(id)
        PROVE  SyncedId(id)'
    BY <1>4, <2>1, SyncedStays
  <2>2. ASSUME NEW id, AtEnd(id)
        PROVE  AtEnd(id)'
    BY <1>4, <2>2 DEF AtEnd, Shrinks
  <2>3. SyncComesLast'
    BY <1>1, <1>4 DEF SyncComesLast
  <2>4. PICK id : id = Last(writing.ids)
    OBVIOUS
  <2>5. SyncedId(id) => SyncedId(id)'
    BY <2>1
  <2>6. AtEnd(id) => AtEnd(id)'
    BY <2>2
  <2>7. writing # None /\ writing.ids # <<>> =>
            id \in 1..appended /\ IF writing.synced THEN SyncedId(id) ELSE AtEnd(id)
    BY <1>1, <2>4 DEF WrittenAtEnd
  <2>8. writing' # None /\ writing'.ids # <<>> =>
            /\ Last(writing'.ids) = id /\ id \in 1..appended'
            /\ IF writing'.synced THEN SyncedId(id)' ELSE AtEnd(id)'
    BY <1>4, <2>4, <2>5, <2>6, <2>7
  <2>9. WrittenAtEnd'
    BY <2>8 DEF WrittenAtEnd, SyncedId, AtEnd
  <2> QED
    BY <2>3, <2>9
<1>5. ASSUME writing' = writing, files' = files, appended' = appended, current' = current
      PROVE  WrittenAtEnd' /\ SyncComesLast'
  BY <1>4, <1>5, UnchangedShrinks
<1>6. CASE FinishTruncate
  <2>1. /\ writing' = writing /\ appended' = appended /\ files' = files /\ Shrinks
        /\ WALTypes /\ Load(files)
    BY <1>6, UnchangedShrinks DEF FinishTruncate, historyVars, Load, Types
  <2>2. /\ FilesTyped(files) /\ current \in Nat
        /\ \A s \in DOMAIN files : s <= current
    BY <2>1 DEF WALTypes
  <2>3. /\ current' = Latest(files) /\ Latest(files) \in Nat /\ Latest(files) \in DOMAIN files
        /\ \A s \in DOMAIN files : s <= Latest(files)
    BY <2>1, <2>2, LatestTyped DEF Load
  <2>4. current \in DOMAIN files' => current' = current
    BY <2>1, <2>2, <2>3
  <2>5. ASSUME NEW id, AtEnd(id)
        PROVE  AtEnd(id)'
    <3> SUFFICES ASSUME NEW s, NEW i, Place(s, i)', Id(s, i)' = id
                 PROVE  s = current'
      BY DEF AtEnd
    <3>1. Place(s, i) /\ Id(s, i) = id
      BY <2>1 DEF Shrinks
    <3>2. s = current
      BY <2>5, <3>1 DEF AtEnd
    <3>3. s \in DOMAIN files'
      BY DEF Place
    <3> QED
      BY <2>4, <3>2, <3>3
  <2>6. PICK id : id = Last(writing.ids)
    OBVIOUS
  <2>7. SyncedId(id) => SyncedId(id)'
    BY <2>1, SyncedStays
  <2>8. AtEnd(id) => AtEnd(id)'
    BY <2>5
  <2>9. writing # None /\ writing.ids # <<>> =>
            id \in 1..appended /\ IF writing.synced THEN SyncedId(id) ELSE AtEnd(id)
    BY <1>1, <2>6 DEF WrittenAtEnd
  <2>10. writing' # None /\ writing'.ids # <<>> =>
            /\ Last(writing'.ids) = id /\ id \in 1..appended'
            /\ IF writing'.synced THEN SyncedId(id)' ELSE AtEnd(id)'
    BY <2>1, <2>6, <2>7, <2>8, <2>9
  <2>11. WrittenAtEnd'
    BY <2>10 DEF WrittenAtEnd, SyncedId, AtEnd
  <2> QED
    BY <1>1, <2>1, <2>11 DEF SyncComesLast
<1>7. ASSUME writing' = None
      PROVE  WrittenAtEnd' /\ SyncComesLast'
  BY <1>7 DEF WrittenAtEnd, SyncComesLast
<1>8. ASSUME NEW commands, NEW ttl, StartWrite(commands, ttl)
      PROVE  WrittenAtEnd' /\ SyncComesLast'
  BY <1>8 DEF StartWrite, WrittenAtEnd, SyncComesLast
<1>9. CASE Restart
  BY <1>7, <1>9 DEF Restart, Types, MemoryTypes
<1> DEFINE Stays == /\ writing' = writing /\ files' = files
                    /\ appended' = appended /\ current' = current
<1>10. Next => \/ \E commands, ttl : StartWrite(commands, ttl)
               \/ writing' = None
               \/ Stays
               \/ WriteRecord \/ WriteSync \/ RemoveNextSegment \/ FinishTruncate \/ Restart
  <2>1. ASSUME NEW k, NEW v, NEW ttl, StartPut(k, v, ttl)
        PROVE  \E commands, t : StartWrite(commands, t)
    BY <2>1 DEF StartPut
  <2>2. ASSUME NEW k, StartDelete(k)
        PROVE  \E commands, t : StartWrite(commands, t)
    BY <2>2 DEF StartDelete
  <2>3. ASSUME NEW kvs, NEW ttl, StartBatchPut(kvs, ttl)
        PROVE  \E commands, t : StartWrite(commands, t)
    BY <2>3 DEF StartBatchPut
  <2>4. ASSUME NEW keys, StartBatchDelete(keys)
        PROVE  \E commands, t : StartWrite(commands, t)
    BY <2>4 DEF StartBatchDelete
  <2>5. ASSUME NEW k, NEW prev, NEW v, CompareAndSwap(k, prev, v)
        PROVE  Stays \/ \E commands, t : StartWrite(commands, t)
    BY <2>5 DEF CompareAndSwap, walVars
  <2>6. ASSUME NEW k, Expire(k) \/ GetExpired(k) \/ DeleteExpired(k)
        PROVE  Stays
    BY <2>6 DEF Expire, GetExpired, DeleteExpired, walVars, historyVars
  <2>7. ASSUME NEW t, NEW c, AddOperation(t, c)
        PROVE  Stays
    BY <2>7 DEF AddOperation, walVars, historyVars
  <2>8. ASSUME NEW t, CommitTransaction(t) \/ RollbackTransaction(t)
        PROVE  Stays
    BY <2>8 DEF CommitTransaction, RollbackTransaction, walVars, historyVars
  <2>9. CleanupExpiredKeys \/ CopyForSnapshot => Stays
    BY DEF CleanupExpiredKeys, CopyForSnapshot, walVars, historyVars
  <2>10. FinishWrite \/ Close \/ Crash => writing' = None
    BY DEF FinishWrite, Close, Crash, LoseMemory
  <2>11. ASSUME NEW t, BeginTransaction(t)
         PROVE  Stays
    BY <2>11 DEF BeginTransaction, walVars, historyVars
  <2>12. ASSUME NEW keys, DeleteLeased(keys)
         PROVE  Stays
    BY <2>12 DEF DeleteLeased, walVars
  <2> HIDE DEF Stays
  <2> QED
    BY <2>1, <2>2, <2>3, <2>4, <2>5, <2>6, <2>7, <2>8, <2>9, <2>10, <2>11, <2>12 DEF Next
<1>11. CASE RemoveNextSegment
  <2>1. PICK gone : RemoveSegment(gone)
    BY <1>11 DEF RemoveNextSegment
  <2>2. writing' = writing /\ appended' = appended /\ current' = current
    BY <1>11, <2>1 DEF RemoveNextSegment, RemoveSegment
  <2> QED
    BY <1>4, <1>11, <2>2, RemoveShrinks
<1> QED
  BY <1>2, <1>3, <1>5, <1>6, <1>7, <1>8, <1>9, <1>10, <1>11 DEF vars, walVars, historyVars

LEMMA SnapshotStep ==
    ASSUME Types, LogInv, [Next]_vars
    PROVE  SnapshotKept'
<1>1. /\ appended \in Nat /\ IdsAppended /\ SnapshotKept
      /\ snapshot = None \/ snapshot \in Snapshot
  BY DEF Types, MemoryTypes, LogInv
<1>2. ASSUME snapshot' = snapshot, Shrinks, appended' = appended
      PROVE  SnapshotKept'
  BY <1>1, <1>2 DEF SnapshotKept, Shrinks
<1>3. ASSUME snapshot' = None
      PROVE  SnapshotKept'
  BY <1>3 DEF SnapshotKept
<1>4. CASE WriteRecord
  <2>1. PICK name \in Nat, n \in Nat :
            /\ \A s, i : Place(s, i)' <=> Place(s, i) \/ (s = name /\ i = n)
            /\ \A s, i : Place(s, i) => Id(s, i)' = Id(s, i)
            /\ Id(name, n)' = appended + 1
    BY <1>4, AppendFacts
  <2>2. appended' = appended + 1 /\ snapshot' = snapshot
    BY <1>4 DEF WriteRecord
  <2> SUFFICES ASSUME snapshot # None
               PROVE  /\ snapshot.covers <= appended + 1
                      /\ \A s, i : Place(s, i)' /\ Id(s, i)' <= snapshot.covers => s <= snapshot.index
    BY <2>2 DEF SnapshotKept
  <2>3. /\ snapshot.covers \in Nat /\ snapshot.covers <= appended
        /\ \A s, i : Place(s, i) /\ Id(s, i) <= snapshot.covers => s <= snapshot.index
    BY <1>1 DEF SnapshotKept, Snapshot
  <2>4. snapshot.covers <= appended + 1 /\ ~(appended + 1 <= snapshot.covers)
    BY <1>1, <2>3
  <2> QED
    BY <2>1, <2>3, <2>4
<1>5. CASE CopyForSnapshot
  <2>1. /\ snapshot' = [index |-> index, covers |-> appended, truncating |-> FALSE]
        /\ files' = files /\ appended' = appended
    BY <1>5 DEF CopyForSnapshot, walVars, historyVars
  <2>2. snapshot'.index = index /\ snapshot'.covers = appended
    BY <2>1
  <2>3. ASSUME NEW s \in DOMAIN files
        PROVE  s <= index
    BY DEF Types, WALTypes, FilesTyped
  <2>4. ASSUME NEW s, NEW i, Place(s, i)'
        PROVE  s <= snapshot'.index
    BY <2>1, <2>2, <2>3, <2>4 DEF Place
  <2> QED
    BY <1>1, <2>1, <2>2, <2>4 DEF SnapshotKept
<1>6. CASE WriteSync
  BY <1>2, <1>6, SyncShrinks DEF WriteSync, historyVars
<1>7. CASE snapshot' = snapshot /\ files' = files /\ appended' = appended
  BY <1>2, <1>7, UnchangedShrinks
<1>8. Next => \/ snapshot' = None
              \/ snapshot' = snapshot /\ files' = files /\ appended' = appended
              \/ WriteRecord \/ CopyForSnapshot \/ WriteSync \/ RemoveNextSegment
  BY DEF Next, StartPut, StartDelete, Expire, GetExpired, DeleteExpired, CompareAndSwap, DeleteLeased,
         StartBatchPut, StartBatchDelete, FinishWrite, CleanupExpiredKeys, BeginTransaction,
         AddOperation, CommitTransaction, RollbackTransaction, FinishTruncate, Close, Crash,
         LoseMemory, Restart, Load, walVars, historyVars
<1>9. CASE RemoveNextSegment
  <2>1. /\ snapshot' = [snapshot EXCEPT !.truncating = TRUE] /\ snapshot # None
        /\ appended' = appended /\ Shrinks
    BY <1>9, RemoveShrinks DEF RemoveNextSegment
  <2>2. /\ snapshot'.index = snapshot.index /\ snapshot'.covers = snapshot.covers
        /\ snapshot.covers <= appended
        /\ \A s, i : Place(s, i) /\ Id(s, i) <= snapshot.covers => s <= snapshot.index
    BY <1>1, <2>1 DEF SnapshotKept, Snapshot
  <2> QED
    BY <2>1, <2>2 DEF SnapshotKept, Shrinks
<1> QED
  BY <1>3, <1>4, <1>5, <1>6, <1>7, <1>8, <1>9 DEF vars, walVars, historyVars

LEMMA LogInitially == Init => LogInv
<1> SUFFICES ASSUME Init
             PROVE  LogInv
  OBVIOUS
<1>1. \A s, i : ~Place(s, i)
  <2>1. files = [i \in {0} |-> EmptySegment]
    BY DEF Init, WALInit
  <2>2. DOMAIN <<>> = {}
    BY EmptySeq
  <2> QED
    BY <2>1, <2>2 DEF Place, EmptySegment
<1>2. acked = {} /\ writing = None /\ snapshot = None
  BY DEF Init
<1> QED
  BY <1>1, <1>2 DEF LogInv, InOrder, IdsAppended, AckedSynced, WrittenAtEnd, SyncComesLast, SnapshotKept

LEMMA LogAlways == Spec => [](Types /\ LogInv)
<1>1. Init => Types /\ LogInv
  BY TypesInitially, LogInitially
<1>2. Types /\ LogInv /\ [Next]_vars => (Types /\ LogInv)'
  <2> SUFFICES ASSUME Types, LogInv, [Next]_vars
               PROVE  Types' /\ LogInv'
    OBVIOUS
  <2>1. Types'
    BY TypesStep
  <2>2. InOrder' /\ IdsAppended'
    BY InOrderStep DEF LogInv
  <2>3. AckedSynced'
    BY AckedStep
  <2>4. WrittenAtEnd' /\ SyncComesLast'
    BY WrittenStep
  <2>5. SnapshotKept'
    BY SnapshotStep
  <2> QED
    BY <2>1, <2>2, <2>3, <2>4, <2>5 DEF LogInv
<1> QED
  BY <1>1, <1>2, PTL DEF Spec

\* Recovery replays the log in the order it was written: inside each segment and from one segment
\* to the next the records are in the order of their ids, although the names of segments go back at
\* a restart and a truncation (wal.go:122), since the file written to is never named before another.
THEOREM ReplayInOrderAlways == Spec => []ReplayInAppendOrder
<1>1. Types /\ LogInv => ReplayInAppendOrder
  <2> SUFFICES ASSUME Types, InOrder
               PROVE  ReplayInAppendOrder
    BY DEF LogInv
  <2>1. ASSUME NEW s \in DOMAIN files, NEW i \in DOMAIN files[s].records,
               NEW j \in DOMAIN files[s].records, i < j
        PROVE  files[s].records[i].id < files[s].records[j].id
    BY <2>1 DEF InOrder, Place, Id
  <2>2. ASSUME NEW s \in DOMAIN files, NEW t \in DOMAIN files, s < t,
               NEW a \in Ids(s), NEW b \in Ids(t)
        PROVE  a < b
    BY <2>2 DEF InOrder, Place, Id, Ids
  <2> QED
    BY <2>1, <2>2 DEF ReplayInAppendOrder
<1> QED
  BY <1>1, LogAlways, PTL

\* The last record of an acknowledged write has been fsynced, wherever it is (engine.go:191): Sync
\* reaches the current file only (wal.go:412), and the record it must reach is there, because a roll
\* takes the records that follow and a truncation keeps the current file or removes the record.
THEOREM AckedIsSyncedAlways == Spec => []AckedIsSynced
<1>1. Types /\ LogInv => AckedIsSynced
  <2> SUFFICES ASSUME Types, LogInv, NEW ids \in acked, Last(ids) \in LogIds
               PROVE  Last(ids) \in SyncedIds
    BY DEF AckedIsSynced
  <2>1. PICK s \in DOMAIN files : Last(ids) \in Ids(s)
    BY DEF LogIds
  <2>2. PICK i \in DOMAIN files[s].records : Last(ids) = Id(s, i)
    BY <2>1 DEF Ids, Id
  <2>3. i <= files[s].synced
    BY <2>2 DEF LogInv, AckedSynced, SyncedId, Place
  <2>4. i \in 1..files[s].synced
    <3>1. files[s].records \in Seq(Record) /\ files[s].synced \in Nat
      BY DEF Types, WALTypes, FilesTyped, Segment
    <3>2. i \in 1..Len(files[s].records)
      BY <3>1, LenProperties
    <3> QED
      BY <2>3, <3>1, <3>2
  <2> QED
    BY <2>2, <2>4 DEF SyncedIds, Id
<1> QED
  BY <1>1, LogAlways, PTL

\* No step of a createSnapshot, or of anything that runs meanwhile, removes from the log a record the
\* snapshot has in its copy (engine.go:1156, wal.go:399-405): at the copy no segment is named above
\* the index, the records written since have greater ids, and the truncation removes what is above.
THEOREM TruncateKeepsWhatWasCopied == Spec => TruncateKeepsSnapshotted
<1>1. Types /\ LogInv /\ [Next]_vars =>
          [snapshot # None /\ mode' = "up" =>
             \A id \in LogIds : id <= snapshot.covers => id \in LogIds']_vars
  <2> SUFFICES ASSUME Types, LogInv, Next, snapshot # None, mode' = "up",
                      NEW id \in LogIds, id <= snapshot.covers
               PROVE  id \in LogIds'
    OBVIOUS
  <2>1. PICK s \in DOMAIN files : id \in Ids(s)
    BY DEF LogIds
  <2>2. PICK i \in DOMAIN files[s].records : id = Id(s, i)
    BY <2>1 DEF Ids, Id
  <2>3. Place(s, i) /\ s <= snapshot.index
    BY <2>2 DEF Place, LogInv, SnapshotKept
  <2>4. Place(s, i)' /\ Id(s, i)' = id
    <3>1. CASE files' = files
      BY <2>2, <2>3, <3>1 DEF Place, Id
    <3>2. CASE WriteRecord
      BY <2>2, <2>3, <3>2, AppendFacts
    <3>3. CASE WriteSync
      <4>1. /\ DOMAIN files' = DOMAIN files
            /\ files'[s].records = files[s].records
        <5>1. FilesTyped(files) /\ current \in DOMAIN files
          BY <3>3, SyncedFile DEF Types, WALTypes
        <5>2. files' = [files EXCEPT ![current].synced = Len(files[current].records)]
          BY <3>3 DEF WriteSync, SyncWAL, Fsynced
        <5> QED
          BY <2>3, <5>1, <5>2 DEF FilesTyped, Segment, Place
      <4> QED
        BY <2>2, <2>3, <4>1 DEF Place, Id
    <3>4. CASE RemoveNextSegment
      BY <2>2, <2>3, <3>4, RemoveShrinks DEF Shrinks
    <3>5. Next /\ mode' = "up" => files' = files \/ WriteRecord \/ WriteSync \/ RemoveNextSegment
      BY DEF Next, StartPut, StartDelete, Expire, GetExpired, DeleteExpired, CompareAndSwap,
         StartBatchPut, StartBatchDelete, FinishWrite, CleanupExpiredKeys, DeleteLeased,
         BeginTransaction, AddOperation, CommitTransaction, RollbackTransaction, CopyForSnapshot,
         FinishTruncate, Close, Crash, LoseMemory, Restart, Load, walVars
    <3> QED
      BY <3>1, <3>2, <3>3, <3>4, <3>5
  <2> QED
    BY <2>4 DEF LogIds, Ids, Place, Id
<1> QED
  BY <1>1, LogAlways, PTL DEF Spec, TruncateKeepsSnapshotted

-----------------------------------------------------------------------------
(* Memory is what recovery would make of the log *)

\* The same keys, values and versions, but for the keys of X
Agree(d, e, X) == \A k \in Key \ X : SameKeyValue(d[k], e[k])

Entry == KeyValue \cup {None}

LEMMA CommandAgrees ==
    ASSUME NEW a \in Entry, NEW b \in Entry, NEW c \in Command, SameKeyValue(a, b)
    PROVE  SameKeyValue(AfterCommand(a, c), AfterCommand(b, c))
<1>1. CASE c.type = "delete"
  BY <1>1 DEF AfterCommand, SameKeyValue
<1>2. CASE c.type # "delete" /\ a = None /\ b = None
  BY <1>2 DEF AfterCommand, SameKeyValue
<1>3. CASE c.type # "delete" /\ a # None /\ b # None
  <2>1. a \in KeyValue /\ b \in KeyValue /\ a.version = b.version
    BY <1>3 DEF Entry, SameKeyValue
  <2>2. a.version + 1 \in Nat /\ c.value \in Value
    BY <1>3, <2>1 DEF KeyValue, Command, Put, Delete
  <2>3. /\ AfterCommand(a, c) = [a EXCEPT !.value = c.value, !.version = a.version + 1]
        /\ AfterCommand(b, c) = [b EXCEPT !.value = c.value, !.version = b.version + 1]
    BY <1>3 DEF AfterCommand
  <2> DEFINE a2 == [a EXCEPT !.value = c.value, !.version = a.version + 1]
             b2 == [b EXCEPT !.value = c.value, !.version = b.version + 1]
  <2>4. /\ a2 \in KeyValue /\ b2 \in KeyValue
        /\ a2.value = b2.value /\ a2.version = b2.version
    BY <2>1, <2>2 DEF KeyValue
  <2> HIDE DEF a2, b2
  <2>5. a2 # None /\ b2 # None
    BY <2>4, NoneAssumption
  <2> QED
    BY <2>3, <2>4, <2>5 DEF a2, b2, SameKeyValue
<1> QED
  BY <1>1, <1>2, <1>3 DEF SameKeyValue

LEMMA ApplyCommandAgrees ==
    ASSUME NEW d \in Data, NEW e \in Data, NEW X, Agree(d, e, X), NEW c \in Command
    PROVE  Agree(ApplyCommand(d, c), ApplyCommand(e, c), X)
<1> SUFFICES ASSUME NEW k \in Key \ X
             PROVE  SameKeyValue(ApplyCommand(d, c)[k], ApplyCommand(e, c)[k])
  BY DEF Agree
<1>1. c.key \in Key /\ SameKeyValue(d[k], e[k]) /\ d[k] \in Entry /\ e[k] \in Entry
  BY DEF Agree, Command, Put, Delete, Data, Entry
<1>2. CASE c.key = k
  <2>1. /\ ApplyCommand(d, c)[k] = AfterCommand(d[k], c)
        /\ ApplyCommand(e, c)[k] = AfterCommand(e[k], c)
    BY <1>2 DEF ApplyCommand, Data
  <2> QED
    BY <1>1, <2>1, CommandAgrees
<1>3. CASE c.key # k
  <2>1. ApplyCommand(d, c)[k] = d[k] /\ ApplyCommand(e, c)[k] = e[k]
    BY <1>3 DEF ApplyCommand, Data
  <2> QED
    BY <1>1, <2>1
<1> QED
  BY <1>2, <1>3

LEMMA ApplyAgrees ==
    ASSUME NEW d \in Data, NEW e \in Data, NEW X, Agree(d, e, X), NEW commands \in Seq(Command)
    PROVE  Agree(Apply(d, commands), Apply(e, commands), X)
<1> DEFINE R == {p \in Data \X Data : Agree(p[1], p[2], X)}
<1>1. /\ FoldTyped(Data, Command, ApplyStep, d, commands)
      /\ Apply(d, commands) = FoldBy(ApplyStep, d, commands)
  BY ApplyIsFold
<1>2. /\ FoldTyped(Data, Command, ApplyStep, e, commands)
      /\ Apply(e, commands) = FoldBy(ApplyStep, e, commands)
  BY ApplyIsFold
<1>3. <<d, e>> \in R
  OBVIOUS
<1>4. ASSUME NEW x \in Data, NEW y \in Data, <<x, y>> \in R, NEW i \in 1..Len(commands)
      PROVE  <<ApplyStep[x][commands[i]], ApplyStep[y][commands[i]]>> \in R
  <2>1. commands[i] \in Command
    BY ElementOfSeq
  <2>2. Agree(x, y, X)
    BY <1>4
  <2>3. /\ ApplyStep[x][commands[i]] = ApplyCommand(x, commands[i])
        /\ ApplyStep[y][commands[i]] = ApplyCommand(y, commands[i])
    BY <2>1 DEF ApplyStep
  <2>4. ApplyCommand(x, commands[i]) \in Data /\ ApplyCommand(y, commands[i]) \in Data
    BY <2>1, ApplyCommandTyped
  <2>5. Agree(ApplyCommand(x, commands[i]), ApplyCommand(y, commands[i]), X)
    BY <2>1, <2>2, ApplyCommandAgrees
  <2> QED
    BY <2>3, <2>4, <2>5
<1> HIDE DEF R
<1>5. FoldRelates(R, Data, ApplyStep, ApplyStep, d, e, commands)
  BY <1>3, <1>4 DEF FoldRelates
<1>6. <<FoldBy(ApplyStep, d, commands), FoldBy(ApplyStep, e, commands)>> \in R
  BY <1>1, <1>2, <1>5, FoldByRelated
<1>7. <<Apply(d, commands), Apply(e, commands)>> \in R
  BY <1>1, <1>2, <1>6
<1> QED
  BY <1>7 DEF R

\* Commands change nothing but the keys they are for
LEMMA ApplyLeavesOthers ==
    ASSUME NEW d \in Data, NEW commands \in Seq(Command), NEW k \in Key,
           \A i \in 1..Len(commands) : commands[i].key # k
    PROVE  Apply(d, commands)[k] = d[k]
<1> DEFINE S == {x \in Data : x[k] = d[k]}
           I == [n \in 0..Len(commands) |-> S]
<1>1. /\ FoldTyped(Data, Command, ApplyStep, d, commands)
      /\ Apply(d, commands) = FoldBy(ApplyStep, d, commands)
  BY ApplyIsFold
<1>2. Len(commands) \in Nat
  BY LenProperties
<1>3. ASSUME NEW x \in S, NEW n \in 1..Len(commands)
      PROVE  ApplyStep[x][commands[n]] \in S
  <2>1. commands[n] \in Command /\ commands[n].key # k
    BY ElementOfSeq
  <2>2. /\ ApplyStep[x][commands[n]] = ApplyCommand(x, commands[n])
        /\ ApplyCommand(x, commands[n]) \in Data
    BY <2>1, ApplyCommandTyped DEF ApplyStep
  <2>3. ApplyCommand(x, commands[n])[k] = x[k]
    BY <2>1 DEF ApplyCommand, Data
  <2> QED
    BY <2>2, <2>3
<1>4. d \in S
  OBVIOUS
<1> HIDE DEF S
<1>5. FoldKeeps(I, Data, ApplyStep, d, commands)
  <2>1. d \in I[0]
    BY <1>2, <1>4
  <2>2. ASSUME NEW n \in 1..Len(commands), NEW x \in Data, x \in I[n - 1]
        PROVE  ApplyStep[x][commands[n]] \in I[n]
    <3>1. n \in 0..Len(commands) /\ n - 1 \in 0..Len(commands)
      BY <1>2
    <3> QED
      BY <1>3, <2>2, <3>1
  <2> HIDE DEF I
  <2> QED
    BY <2>1, <2>2 DEF FoldKeeps
<1>6. FoldBy(ApplyStep, d, commands) \in I[Len(commands)]
  <2> HIDE DEF I
  <2> QED
    BY <1>1, <1>5, FoldByKeeps
<1>7. Len(commands) \in 0..Len(commands)
  BY <1>2
<1> QED
  BY <1>1, <1>6, <1>7 DEF S

LEMMA ApplyNone ==
    ASSUME NEW d \in Data
    PROVE  Apply(d, <<>>) = d
<1>1. <<>> \in Seq(Command)
  BY EmptySeq
<1>2. /\ FoldTyped(Data, Command, ApplyStep, d, <<>>)
      /\ Apply(d, <<>>) = FoldBy(ApplyStep, d, <<>>)
  BY <1>1, ApplyIsFold
<1> QED
  BY <1>2, FoldByEmpty

LEMMA ApplyOneMore ==
    ASSUME NEW d \in Data, NEW commands \in Seq(Command), NEW c \in Command
    PROVE  Apply(d, Append(commands, c)) = ApplyCommand(Apply(d, commands), c)
<1>1. /\ FoldTyped(Data, Command, ApplyStep, d, commands)
      /\ Apply(d, commands) = FoldBy(ApplyStep, d, commands)
  BY ApplyIsFold
<1>2. Append(commands, c) \in Seq(Command)
  BY AppendProperties
<1>3. Apply(d, Append(commands, c)) = FoldBy(ApplyStep, d, Append(commands, c))
  BY <1>2, ApplyIsFold
<1>4. FoldBy(ApplyStep, d, Append(commands, c)) = ApplyStep[FoldBy(ApplyStep, d, commands)][c]
  BY <1>1, FoldByAppend
<1>5. Apply(d, commands) \in Data
  BY ApplyTyped
<1> QED
  BY <1>1, <1>3, <1>4, <1>5 DEF ApplyStep

LEMMA RecoverTyped ==
    ASSUME NEW records \in Seq(Record)
    PROVE  Recover(records) \in Data
BY RecoverIsFold, FoldByTyped

LEMMA RecoverOneMore ==
    ASSUME NEW records \in Seq(Record), NEW r \in Record
    PROVE  Recover(Append(records, r)) = ApplyCommand(Recover(records), r.command)
<1>1. /\ FoldTyped(Data, Record, RecoverStep, NoData, records)
      /\ Recover(records) = FoldBy(RecoverStep, NoData, records)
  BY RecoverIsFold
<1>2. Append(records, r) \in Seq(Record)
  BY AppendProperties
<1>3. Recover(Append(records, r)) = FoldBy(RecoverStep, NoData, Append(records, r))
  BY <1>2, RecoverIsFold
<1>4. FoldBy(RecoverStep, NoData, Append(records, r)) =
          RecoverStep[FoldBy(RecoverStep, NoData, records)][r]
  BY <1>1, FoldByAppend
<1>5. Recover(records) \in Data
  BY RecoverTyped
<1> QED
  BY <1>1, <1>3, <1>4, <1>5 DEF RecoverStep

\* Records at the end change nothing but the keys they are for
LEMMA RecoverLeavesOthers ==
    ASSUME NEW records \in Seq(Record), NEW rest \in Seq(Record), NEW k \in Key,
           \A i \in 1..Len(rest) : rest[i].command.key # k
    PROVE  Recover(records \o rest)[k] = Recover(records)[k]
<1> DEFINE d == Recover(records)
           S == {x \in Data : x[k] = d[k]}
           I == [n \in 0..Len(rest) |-> S]
<1>1. /\ FoldTyped(Data, Record, RecoverStep, NoData, records)
      /\ Recover(records) = FoldBy(RecoverStep, NoData, records)
  BY RecoverIsFold
<1>2. Len(rest) \in Nat /\ d \in Data
  BY LenProperties, RecoverTyped
<1>3. records \o rest \in Seq(Record)
  BY ConcatProperties
<1>4. Recover(records \o rest) = FoldBy(RecoverStep, NoData, records \o rest)
  BY <1>3, RecoverIsFold
<1>5. FoldBy(RecoverStep, NoData, records \o rest) = FoldBy(RecoverStep, d, rest)
  BY <1>1, FoldByConcat
<1> HIDE DEF d
<1>6. FoldTyped(Data, Record, RecoverStep, d, rest)
  BY <1>1, <1>2 DEF FoldTyped
<1>7. ASSUME NEW x \in S, NEW n \in 1..Len(rest)
      PROVE  RecoverStep[x][rest[n]] \in S
  <2>1. rest[n] \in Record
    BY ElementOfSeq
  <2>2. rest[n] \in Record /\ rest[n].command \in Command /\ rest[n].command.key # k
    BY <2>1 DEF Record
  <2>3. /\ RecoverStep[x][rest[n]] = ApplyCommand(x, rest[n].command)
        /\ ApplyCommand(x, rest[n].command) \in Data
    BY <2>2, ApplyCommandTyped DEF RecoverStep
  <2>4. ApplyCommand(x, rest[n].command)[k] = x[k]
    BY <2>2 DEF ApplyCommand, Data
  <2> QED
    BY <2>3, <2>4
<1>8. d \in S
  BY <1>2
<1> HIDE DEF S
<1>9. FoldKeeps(I, Data, RecoverStep, d, rest)
  <2>1. d \in I[0]
    BY <1>2, <1>8
  <2>2. ASSUME NEW n \in 1..Len(rest), NEW x \in Data, x \in I[n - 1]
        PROVE  RecoverStep[x][rest[n]] \in I[n]
    <3>1. n \in 0..Len(rest) /\ n - 1 \in 0..Len(rest)
      BY <1>2
    <3> QED
      BY <1>7, <2>2, <3>1
  <2> HIDE DEF I
  <2> QED
    BY <2>1, <2>2 DEF FoldKeeps
<1>10. FoldBy(RecoverStep, d, rest) \in I[Len(rest)]
  <2> HIDE DEF I
  <2> QED
    BY <1>6, <1>9, FoldByKeeps
<1>11. Len(rest) \in 0..Len(rest)
  BY <1>2
<1> QED
  BY <1>4, <1>5, <1>10, <1>11 DEF S, d

\* One more segment, if there is one of that name
LEMMA RecordsNext ==
    ASSUME NEW fs, FilesTyped(fs), NEW n \in Nat
    PROVE  RecordsBelow(fs, n + 1) = IF n \in DOMAIN fs THEN RecordsBelow(fs, n) \o fs[n].records
                                                        ELSE RecordsBelow(fs, n)
<1>1. \A s \in DOMAIN fs : fs[s].records \in Seq(Record)
  BY DEF FilesTyped, Segment
<1>2. /\ FoldTyped(Seq(Record), Nat, RecordsStep(fs), <<>>, Names(n))
      /\ RecordsBelow(fs, n) = FoldBy(RecordsStep(fs), <<>>, Names(n))
  BY <1>1, RecordsIsFold
<1>3. RecordsBelow(fs, n + 1) = FoldBy(RecordsStep(fs), <<>>, Names(n + 1))
  <2>1. n + 1 \in Nat
    OBVIOUS
  <2> QED
    BY <1>1, <2>1, RecordsIsFold
<1>4. Names(n) \in [1..n -> Nat] /\ Names(n + 1) \in [1..(n + 1) -> Nat]
  <2>1. (\A i \in 1..n : i - 1 \in Nat) /\ \A i \in 1..(n + 1) : i - 1 \in Nat
    OBVIOUS
  <2> QED
    BY <2>1 DEF Names
<1>5. Names(n + 1) = Append(Names(n), n)
  <2> DEFINE a == Names(n + 1)
             b == Append(Names(n), n)
  <2>1. Names(n) \in Seq(Nat) /\ Len(Names(n)) = n /\ a \in Seq(Nat) /\ Len(a) = n + 1
    BY <1>4
  <2>2. /\ b \in Seq(Nat) /\ Len(b) = n + 1
        /\ \A i \in 1..n : b[i] = Names(n)[i]
        /\ b[n + 1] = n
    BY <2>1, AppendProperties
  <2>3. ASSUME NEW i \in 1..(n + 1)
        PROVE  a[i] = b[i]
    <3>1. a[i] = i - 1
      BY DEF Names
    <3>2. CASE i = n + 1
      BY <2>2, <3>1, <3>2
    <3>3. CASE i # n + 1
      <4>1. i \in 1..n
        BY <3>3
      <4> QED
        BY <2>2, <3>1, <4>1 DEF Names
    <3> QED
      BY <3>2, <3>3
  <2> HIDE DEF a, b
  <2>4. a = b
    BY <2>1, <2>2, <2>3, SeqEqual
  <2> QED
    BY <2>4 DEF a, b
<1>6. FoldBy(RecordsStep(fs), <<>>, Append(Names(n), n)) =
          RecordsStep(fs)[FoldBy(RecordsStep(fs), <<>>, Names(n))][n]
  BY <1>2, FoldByAppend
<1>7. RecordsBelow(fs, n) \in Seq(Record)
  BY RecordsTyped
<1>8. RecordsBelow(fs, n + 1) = RecordsStep(fs)[RecordsBelow(fs, n)][n]
  BY <1>2, <1>3, <1>5, <1>6
<1>9. \A records \in Seq(Record) :
          RecordsStep(fs)[records][n] =
              IF n \in DOMAIN fs THEN records \o fs[n].records ELSE records
  BY DEF RecordsStep
<1> QED
  BY <1>7, <1>8, <1>9

LEMMA RecordsOfNone ==
    ASSUME NEW fs, FilesTyped(fs)
    PROVE  RecordsBelow(fs, 0) = <<>>
<1>1. \A s \in DOMAIN fs : fs[s].records \in Seq(Record)
  BY DEF FilesTyped, Segment
<1>2. /\ FoldTyped(Seq(Record), Nat, RecordsStep(fs), <<>>, Names(0))
      /\ RecordsBelow(fs, 0) = FoldBy(RecordsStep(fs), <<>>, Names(0))
  BY <1>1, RecordsIsFold
<1>3. Names(0) = <<>>
  <2>1. Names(0) \in [1..0 -> Nat]
    BY DEF Names
  <2>2. Names(0) \in Seq(Nat) /\ Len(Names(0)) = 0
    BY <2>1
  <2> QED
    BY <2>2, EmptySeq
<1>4. FoldTyped(Seq(Record), Nat, RecordsStep(fs), <<>>, <<>>)
  BY <1>2, <1>3
<1>5. FoldBy(RecordsStep(fs), <<>>, <<>>) = <<>>
  BY <1>4, FoldByEmpty
<1> QED
  BY <1>2, <1>3, <1>5

\* The segments below a name decide which records come before it
LEMMA RecordsAgree ==
    ASSUME NEW fs, FilesTyped(fs), NEW gs, FilesTyped(gs), NEW m \in Nat,
           \A s \in Nat : s < m => /\ s \in DOMAIN fs <=> s \in DOMAIN gs
                                   /\ s \in DOMAIN fs => fs[s].records = gs[s].records
    PROVE  RecordsBelow(fs, m) = RecordsBelow(gs, m)
<1> DEFINE P == {n \in 0..m : RecordsBelow(fs, n) = RecordsBelow(gs, n)}
<1>1. 0 \in P
  BY RecordsOfNone
<1>2. ASSUME NEW n \in 0..m, n # m, n \in P
      PROVE  n + 1 \in P
  <2>1. n \in Nat /\ n < m /\ n + 1 \in 0..m
    BY <1>2
  <2>2. RecordsBelow(fs, n) = RecordsBelow(gs, n)
    BY <1>2
  <2>3. RecordsBelow(fs, n + 1) = IF n \in DOMAIN fs THEN RecordsBelow(fs, n) \o fs[n].records
                                                      ELSE RecordsBelow(fs, n)
    BY <2>1, RecordsNext
  <2>4. RecordsBelow(gs, n + 1) = IF n \in DOMAIN gs THEN RecordsBelow(gs, n) \o gs[n].records
                                                      ELSE RecordsBelow(gs, n)
    BY <2>1, RecordsNext
  <2>5. /\ n \in DOMAIN fs <=> n \in DOMAIN gs
        /\ n \in DOMAIN fs => fs[n].records = gs[n].records
    BY <2>1
  <2>6. RecordsBelow(fs, n + 1) = RecordsBelow(gs, n + 1)
    BY <2>2, <2>3, <2>4, <2>5
  <2> QED
    BY <2>1, <2>6
<1> HIDE DEF P
<1>3. m \in P
  BY <1>1, <1>2, CountUp
<1> QED
  BY <1>3 DEF P

\* and when there are no others, these are all.
LEMMA RecordsBeyond ==
    ASSUME NEW fs, FilesTyped(fs), NEW m \in Nat, \A s \in DOMAIN fs : s < m, NEW j \in Nat
    PROVE  RecordsBelow(fs, m + j) = RecordsBelow(fs, m)
<1> DEFINE P == {n \in 0..j : RecordsBelow(fs, m + n) = RecordsBelow(fs, m)}
<1>1. 0 \in P
  OBVIOUS
<1>2. ASSUME NEW n \in 0..j, n # j, n \in P
      PROVE  n + 1 \in P
  <2>1. m + n \in Nat /\ n + 1 \in 0..j /\ m + (n + 1) = (m + n) + 1
    BY <1>2
  <2>2. m + n \notin DOMAIN fs
    <3>1. ~(m + n < m)
      OBVIOUS
    <3> QED
      BY <3>1
  <2>3. RecordsBelow(fs, (m + n) + 1) = RecordsBelow(fs, m + n)
    BY <2>1, <2>2, RecordsNext
  <2>4. RecordsBelow(fs, m + n) = RecordsBelow(fs, m)
    BY <1>2
  <2> QED
    BY <2>1, <2>3, <2>4
<1> HIDE DEF P
<1>3. j \in P
  BY <1>1, <1>2, CountUp
<1> QED
  BY <1>3 DEF P

LEMMA AllRecords ==
    ASSUME NEW fs, FilesTyped(fs), NEW n \in Nat, \A s \in DOMAIN fs : s <= n
    PROVE  Records(fs) = RecordsBelow(fs, n + 1) /\ Records(fs) \in Seq(Record)
<1>1. PICK m \in Nat : m = Latest(fs) /\ m \in DOMAIN fs /\ \A s \in DOMAIN fs : s <= m
  BY LatestTyped
<1>2. m <= n /\ m + 1 \in Nat /\ n - m \in Nat /\ (m + 1) + (n - m) = n + 1
  BY <1>1
<1>3. \A s \in DOMAIN fs : s < m + 1
  BY <1>1 DEF FilesTyped
<1>4. RecordsBelow(fs, (m + 1) + (n - m)) = RecordsBelow(fs, m + 1)
  BY <1>2, <1>3, RecordsBeyond
<1>5. Records(fs) = RecordsBelow(fs, m + 1)
  BY <1>1, RecordsAre
<1>6. RecordsBelow(fs, m + 1) \in Seq(Record)
  BY <1>2, RecordsTyped
<1> QED
  BY <1>2, <1>4, <1>5, <1>6

\* The record written is replayed last, whether or not a segment was opened for it
LEMMA AppendIsReplayedLast ==
    ASSUME WALTypes, WALTypes', NEW r \in Record, AppendRecord(r)
    PROVE  Records(files') = Append(Records(files), r)
<1> DEFINE full == fileSize + 1 > SegmentSize
<1>1. PICK name \in Nat : name = (IF full THEN index ELSE current) /\ current <= name
  BY DEF WALTypes, FilesTyped
<1> DEFINE opened == [i \in DOMAIN files \cup {name} |->
                         IF i \in DOMAIN files THEN files[i] ELSE EmptySegment]
           old == opened[name].records
<1>2. PICK fs, gs : fs = files /\ gs = files'
  OBVIOUS
<1>3. /\ FilesTyped(fs) /\ FilesTyped(gs) /\ current \in Nat
      /\ \A s \in DOMAIN fs : s \in Nat /\ s <= current
  BY <1>2 DEF WALTypes, FilesTyped
<1>4. \A s \in DOMAIN fs : s <= name
  BY <1>1, <1>3
<1>5. files' = [opened EXCEPT ![name].records = Append(old, r)]
  BY <1>1 DEF AppendRecord, SegmentName
<1>6. /\ DOMAIN opened = DOMAIN fs \cup {name}
      /\ \A s \in DOMAIN fs : opened[s] = fs[s]
      /\ name \notin DOMAIN fs => opened[name] = EmptySegment
      /\ opened[name] \in Segment
  <2>1. EmptySegment \in Segment
    BY EmptySeq DEF EmptySegment, Segment
  <2> QED
    BY <1>2, <1>3, <2>1 DEF FilesTyped
<1>7. opened = [s \in DOMAIN opened |-> opened[s]]
  OBVIOUS
<1> HIDE DEF opened
<1>8. /\ DOMAIN gs = DOMAIN fs \cup {name}
      /\ gs[name].records = Append(old, r)
      /\ \A s \in DOMAIN fs : s # name => gs[s] = fs[s]
  <2>1. opened[name] \in Segment
    BY <1>6
  <2> HIDE DEF old
  <2>2. [opened[name] EXCEPT !.records = Append(old, r)].records = Append(old, r)
    BY <2>1 DEF Segment
  <2> QED
    BY <1>2, <1>5, <1>6, <1>7, <2>2
<1>9. old \in Seq(Record)
  BY <1>6 DEF Segment
<1>10. name \in DOMAIN fs => old = fs[name].records
  BY <1>6
<1>11. name \notin DOMAIN fs => old = <<>>
  BY <1>6 DEF EmptySegment
<1> HIDE DEF old
<1>12. Records(fs) = RecordsBelow(fs, name + 1) /\ Records(fs) \in Seq(Record)
  BY <1>3, <1>4, AllRecords
<1>13. Records(gs) = RecordsBelow(gs, name + 1)
  <2>1. \A s \in DOMAIN gs : s <= name
    BY <1>4, <1>8
  <2> QED
    BY <1>3, <2>1, AllRecords
<1>14. RecordsBelow(gs, name) = RecordsBelow(fs, name)
  <2>1. \A s \in Nat : s < name => /\ s \in DOMAIN gs <=> s \in DOMAIN fs
                                   /\ s \in DOMAIN gs => gs[s].records = fs[s].records
    BY <1>8
  <2> QED
    BY <1>3, <2>1, RecordsAgree
<1>15. PICK before : before = RecordsBelow(fs, name) /\ before \in Seq(Record)
  BY <1>3, RecordsTyped
<1>16. Records(gs) = before \o Append(old, r)
  <2>1. RecordsBelow(gs, name + 1) = RecordsBelow(gs, name) \o gs[name].records
    BY <1>3, <1>8, RecordsNext
  <2> QED
    BY <1>8, <1>13, <1>14, <1>15, <2>1
<1>17. Records(fs) = before \o old
  <2>1. RecordsBelow(fs, name + 1) = IF name \in DOMAIN fs THEN before \o fs[name].records ELSE before
    BY <1>3, <1>15, RecordsNext
  <2>2. before \o <<>> = before
    BY <1>15, ConcatEmptySeq
  <2> QED
    BY <1>10, <1>11, <1>12, <2>1, <2>2
<1>18. before \o Append(old, r) = Append(before \o old, r)
  BY <1>9, <1>15, ConcatAppend
<1> QED
  BY <1>2, <1>16, <1>17, <1>18

LEMMA SyncKeepsRecords ==
    ASSUME WALTypes, WALTypes', SyncWAL, current \in DOMAIN files
    PROVE  Records(files') = Records(files)
<1>1. PICK fs, gs : fs = files /\ gs = files'
  OBVIOUS
<1>2. /\ FilesTyped(fs) /\ FilesTyped(gs) /\ current \in Nat /\ current \in DOMAIN fs
      /\ \A s \in DOMAIN fs : s \in Nat /\ s <= current
  BY <1>1 DEF WALTypes, FilesTyped
<1>3. /\ DOMAIN gs = DOMAIN fs
      /\ \A s \in DOMAIN fs : gs[s].records = fs[s].records
  <2>1. gs = [fs EXCEPT ![current].synced = Len(fs[current].records)]
    BY <1>1 DEF SyncWAL, Fsynced
  <2>2. fs[current] \in Segment /\ fs = [s \in DOMAIN fs |-> fs[s]]
    BY <1>2 DEF FilesTyped
  <2>3. gs[current].records = fs[current].records
    BY <1>2, <2>1, <2>2 DEF Segment
  <2> QED
    BY <1>2, <2>1, <2>2, <2>3
<1>4. Records(fs) = RecordsBelow(fs, current + 1)
  BY <1>2, AllRecords
<1>5. Records(gs) = RecordsBelow(gs, current + 1)
  <2>1. \A s \in DOMAIN gs : s <= current
    BY <1>2, <1>3
  <2> QED
    BY <1>2, <2>1, AllRecords
<1>6. RecordsBelow(fs, current + 1) = RecordsBelow(gs, current + 1)
  <2>1. current + 1 \in Nat
    BY <1>2
  <2> QED
    BY <1>2, <1>3, <2>1, RecordsAgree
<1> QED
  BY <1>1, <1>4, <1>5, <1>6

LEMMA AgreeSteps ==
    ASSUME NEW a, NEW b, NEW c, NEW X, Agree(a, b, X), Agree(b, c, X)
    PROVE  Agree(a, c, X)
BY DEF Agree, SameKeyValue

LEMMA AgreeLess ==
    ASSUME NEW a, NEW b, NEW X, NEW Y, Agree(a, b, X), X \subseteq Y
    PROVE  Agree(a, b, Y)
BY DEF Agree

LEMMA AgreeSelf ==
    ASSUME NEW a, NEW X
    PROVE  Agree(a, a, X)
BY DEF Agree, SameKeyValue

\* Records that are replayed after logs that agree leave them in agreement
LEMMA RecoverAgrees ==
    ASSUME NEW a \in Seq(Record), NEW b \in Seq(Record), NEW rest \in Seq(Record), NEW X,
           Agree(Recover(a), Recover(b), X)
    PROVE  Agree(Recover(a \o rest), Recover(b \o rest), X)
<1> DEFINE R == {p \in Data \X Data : Agree(p[1], p[2], X)}
<1>1. PICK d, e : d = Recover(a) /\ e = Recover(b)
  OBVIOUS
<1>2. d \in Data /\ e \in Data /\ Agree(d, e, X)
  BY <1>1, RecoverTyped
<1>3. /\ FoldTyped(Data, Record, RecoverStep, NoData, a) /\ d = FoldBy(RecoverStep, NoData, a)
      /\ FoldTyped(Data, Record, RecoverStep, NoData, b) /\ e = FoldBy(RecoverStep, NoData, b)
  BY <1>1, RecoverIsFold
<1>4. /\ a \o rest \in Seq(Record) /\ b \o rest \in Seq(Record)
  BY ConcatProperties
<1>5. /\ Recover(a \o rest) = FoldBy(RecoverStep, d, rest)
      /\ Recover(b \o rest) = FoldBy(RecoverStep, e, rest)
  <2>1. /\ Recover(a \o rest) = FoldBy(RecoverStep, NoData, a \o rest)
        /\ Recover(b \o rest) = FoldBy(RecoverStep, NoData, b \o rest)
    BY <1>4, RecoverIsFold
  <2>2. FoldBy(RecoverStep, NoData, a \o rest) = FoldBy(RecoverStep, d, rest)
    BY <1>3, FoldByConcat
  <2>3. FoldBy(RecoverStep, NoData, b \o rest) = FoldBy(RecoverStep, e, rest)
    BY <1>3, FoldByConcat
  <2> QED
    BY <2>1, <2>2, <2>3
<1>6. /\ FoldTyped(Data, Record, RecoverStep, d, rest)
      /\ FoldTyped(Data, Record, RecoverStep, e, rest)
  BY <1>2, <1>3 DEF FoldTyped
<1>7. <<d, e>> \in R
  BY <1>2
<1>8. ASSUME NEW x \in Data, NEW y \in Data, <<x, y>> \in R, NEW i \in 1..Len(rest)
      PROVE  <<RecoverStep[x][rest[i]], RecoverStep[y][rest[i]]>> \in R
  <2>1. rest[i] \in Record
    BY ElementOfSeq
  <2>2. rest[i].command \in Command
    BY <2>1 DEF Record
  <2>3. Agree(x, y, X)
    BY <1>8
  <2>4. /\ RecoverStep[x][rest[i]] = ApplyCommand(x, rest[i].command)
        /\ RecoverStep[y][rest[i]] = ApplyCommand(y, rest[i].command)
    BY <2>1 DEF RecoverStep
  <2>5. /\ ApplyCommand(x, rest[i].command) \in Data
        /\ ApplyCommand(y, rest[i].command) \in Data
    BY <2>2, ApplyCommandTyped
  <2>6. Agree(ApplyCommand(x, rest[i].command), ApplyCommand(y, rest[i].command), X)
    BY <2>2, <2>3, ApplyCommandAgrees
  <2> QED
    BY <2>4, <2>5, <2>6
<1> HIDE DEF R
<1>9. FoldRelates(R, Data, RecoverStep, RecoverStep, d, e, rest)
  BY <1>7, <1>8 DEF FoldRelates
<1>10. <<FoldBy(RecoverStep, d, rest), FoldBy(RecoverStep, e, rest)>> \in R
  BY <1>6, <1>9, FoldByRelated
<1>11. <<Recover(a \o rest), Recover(b \o rest)>> \in R
  BY <1>5, <1>10
<1> QED
  BY <1>11 DEF R

\* gs is left of the files fs when the segment gone is removed, and its records are for keys of X
RemovedFrom(fs, gs, n, gone, X) ==
    /\ FilesTyped(fs) /\ FilesTyped(gs) /\ n \in Nat
    /\ \A s \in DOMAIN fs : s <= n
    /\ gone \in DOMAIN fs /\ gs = [s \in DOMAIN fs \ {gone} |-> fs[s]]
    /\ \A i \in 1..Len(fs[gone].records) : fs[gone].records[i].command.key \in X

\* A segment that is removed makes recovery forget what it says of the keys of its records
LEMMA RemovedIsForgotten ==
    ASSUME NEW fs, NEW gs, NEW n, NEW gone, NEW X, RemovedFrom(fs, gs, n, gone, X)
    PROVE  Agree(Recovered(fs), Recovered(gs), X)
<1>1. /\ FilesTyped(fs) /\ FilesTyped(gs) /\ n \in Nat /\ n + 1 \in Nat
      /\ \A s \in DOMAIN fs : s <= n
      /\ DOMAIN gs = DOMAIN fs \ {gone} /\ \A s \in DOMAIN gs : gs[s] = fs[s]
      /\ gone \in DOMAIN fs
  BY DEF RemovedFrom
<1> DEFINE Same(i) == Agree(Recover(RecordsBelow(fs, i)), Recover(RecordsBelow(gs, i)), X)
           P == {i \in 0..(n + 1) : Same(i)}
<1>2. 0 \in P
  <2>1. RecordsBelow(fs, 0) = RecordsBelow(gs, 0)
    BY <1>1, RecordsOfNone
  <2>2. Same(0)
    BY <2>1, AgreeSelf
  <2>3. 0 \in 0..(n + 1)
    BY <1>1
  <2> HIDE DEF Same
  <2> QED
    BY <2>2, <2>3
<1>3. ASSUME NEW i \in 0..(n + 1), i # n + 1, i \in P
      PROVE  i + 1 \in P
  <2>1. i \in Nat /\ i + 1 \in 0..(n + 1)
    BY <1>1, <1>3
  <2>2. PICK a, b : a = RecordsBelow(fs, i) /\ b = RecordsBelow(gs, i)
    OBVIOUS
  <2>3. a \in Seq(Record) /\ b \in Seq(Record)
    BY <1>1, <2>1, <2>2, RecordsTyped
  <2>4. RecordsBelow(fs, i + 1) = IF i \in DOMAIN fs THEN a \o fs[i].records ELSE a
    BY <1>1, <2>1, <2>2, RecordsNext
  <2>5. RecordsBelow(gs, i + 1) = IF i \in DOMAIN gs THEN b \o gs[i].records ELSE b
    BY <1>1, <2>1, <2>2, RecordsNext
  <2>6. Agree(Recover(a), Recover(b), X)
    BY <1>3, <2>2
  <2>7. ASSUME i \in DOMAIN fs
        PROVE  fs[i].records \in Seq(Record)
    BY <1>1, <2>7 DEF FilesTyped, Segment
  <2>8. CASE i \in DOMAIN fs /\ i # gone
    <3>1. i \in DOMAIN gs /\ gs[i].records = fs[i].records
      BY <1>1, <2>8
    <3>2. PICK u \in Seq(Record) : u = fs[i].records
      BY <2>7, <2>8
    <3>3. Agree(Recover(a \o u), Recover(b \o u), X)
      BY <2>3, <2>6, RecoverAgrees
    <3>4. Same(i + 1)
      BY <2>4, <2>5, <2>8, <3>1, <3>2, <3>3
    <3> HIDE DEF Same
    <3> QED
      BY <2>1, <3>4
  <2>9. CASE i = gone
    <3>1. i \in DOMAIN fs /\ i \notin DOMAIN gs
      BY <1>1, <2>9
    <3>2. PICK u \in Seq(Record) : u = fs[i].records
      BY <2>7, <3>1
    <3>3. ASSUME NEW k \in Key \ X
          PROVE  Recover(a \o u)[k] = Recover(a)[k]
      <4>1. \A m \in 1..Len(u) : u[m].command.key # k
        BY <2>9, <3>2 DEF RemovedFrom
      <4>2. k \in Key
        OBVIOUS
      <4> QED
        BY <2>3, <4>1, <4>2, RecoverLeavesOthers
    <3>4. Agree(Recover(a \o u), Recover(a), X)
      BY <3>3 DEF Agree, SameKeyValue
    <3>5. Agree(Recover(a \o u), Recover(b), X)
      BY <2>6, <3>4, AgreeSteps
    <3>6. Same(i + 1)
      BY <2>4, <2>5, <3>1, <3>2, <3>5
    <3> HIDE DEF Same
    <3> QED
      BY <2>1, <3>6
  <2>10. CASE i \notin DOMAIN fs
    <3>1. i \notin DOMAIN gs
      BY <1>1, <2>10
    <3>2. Same(i + 1)
      BY <2>4, <2>5, <2>6, <2>10, <3>1
    <3> HIDE DEF Same
    <3> QED
      BY <2>1, <3>2
  <2> QED
    BY <2>8, <2>9, <2>10
<1>4. n + 1 \in P
  <2> HIDE DEF P
  <2> QED
    BY <1>1, <1>2, <1>3, CountUp
<1>5. Records(fs) = RecordsBelow(fs, n + 1) /\ Records(gs) = RecordsBelow(gs, n + 1)
  BY <1>1, AllRecords
<1> QED
  BY <1>4, <1>5 DEF Recovered

\* The keys of the records a truncation removes are the only ones it makes recovery forget
LEMMA TruncateForgets ==
    ASSUME Types, Types', RemoveNextSegment
    PROVE  Agree(Recovered(files), Recovered(files'), unlogged')
<1>1. PICK gone \in DOMAIN files :
          /\ files' = [t \in DOMAIN files \ {gone} |-> files[t]]
          /\ unlogged' = unlogged \cup {r.command.key : r \in ToSet(files[gone].records)}
  BY DEF RemoveNextSegment, RemoveSegment, SegmentsAbove
<1>2. PICK fs, gs, X : fs = files /\ gs = files' /\ X = unlogged'
  OBVIOUS
<1>3. /\ FilesTyped(fs) /\ FilesTyped(gs) /\ current \in Nat
      /\ \A s \in DOMAIN fs : s <= current
  BY <1>2 DEF Types, WALTypes
<1>4. fs[gone].records \in Seq(Record)
  BY <1>1, <1>2, <1>3 DEF FilesTyped, Segment
<1>5. \A i \in 1..Len(fs[gone].records) : fs[gone].records[i].command.key \in X
  <2>1. PICK u : u = fs[gone].records
    OBVIOUS
  <2>2. \A i \in 1..Len(u) : u[i] \in ToSet(u)
    BY <1>4, <2>1, LenProperties DEF ToSet
  <2> QED
    BY <1>1, <1>2, <2>1, <2>2
<1>6. RemovedFrom(fs, gs, current, gone, X)
  BY <1>1, <1>2, <1>3, <1>5 DEF RemovedFrom
<1>7. Agree(Recovered(fs), Recovered(gs), X)
  BY <1>6, RemovedIsForgotten
<1> QED
  BY <1>2, <1>7

\* What the memory part of a write stores is what its commands do, TTLs aside
LEMMA StoreAgrees ==
    ASSUME NEW d \in Data, NEW commands \in Seq(Command), NEW ttl \in BOOLEAN,
           AllPuts(commands) \/ AllDeletes(commands), NEW X
    PROVE  Agree(Store(d, commands, ttl), Apply(d, commands), X)
<1> DEFINE stored == Apply(d, commands)
           IsPut(k) == \E i \in DOMAIN commands : commands[i] = Put(k, commands[i].value)
<1> SUFFICES ASSUME NEW k \in Key
             PROVE  SameKeyValue(Store(d, commands, ttl)[k], stored[k])
  BY DEF Agree
<1>1. stored \in Data /\ DOMAIN commands = 1..Len(commands)
  BY ApplyTyped, LenProperties
<1>2. Store(d, commands, ttl)[k] =
          IF IsPut(k) THEN [stored[k] EXCEPT !.ttl = ttl, !.expired = FALSE] ELSE stored[k]
  BY DEF Store
<1>3. CASE IsPut(k)
  <2>1. PICK i \in DOMAIN commands : commands[i] = Put(k, commands[i].value)
    BY <1>3
  <2>2. commands[i].type = "put" /\ commands[i].key = k
    BY <2>1 DEF Put
  <2>3. AllPuts(commands)
    BY <2>2 DEF AllDeletes
  <2>4. stored[k] \in KeyValue
    BY <1>1, <2>2, <2>3, PutsLeaveValues
  <2> HIDE DEF IsPut
  <2>5. PICK kv \in KeyValue : kv = stored[k]
    BY <2>4
  <2> HIDE DEF stored
  <2>6. PICK kv2 : kv2 = [kv EXCEPT !.ttl = ttl, !.expired = FALSE]
    OBVIOUS
  <2>7. kv2 \in KeyValue /\ kv2.value = kv.value /\ kv2.version = kv.version
    BY <2>5, <2>6 DEF KeyValue
  <2>8. kv # None /\ kv2 # None
    BY <2>7, NoneAssumption
  <2> QED
    BY <1>2, <1>3, <2>5, <2>6, <2>7, <2>8 DEF SameKeyValue
<1>4. CASE ~IsPut(k)
  <2> HIDE DEF stored, IsPut
  <2> QED
    BY <1>2, <1>4 DEF SameKeyValue
<1> QED
  BY <1>3, <1>4

LEMMA OneDone ==
    ASSUME NEW done \in Seq(Command), NEW todo \in Seq(Command), todo # <<>>
    PROVE  /\ Head(todo) \in Command /\ Tail(todo) \in Seq(Command)
           /\ Append(done, Head(todo)) \in Seq(Command)
           /\ done \o todo = Append(done, Head(todo)) \o Tail(todo)
<1>1. PICK h, u : h = Head(todo) /\ u = Tail(todo)
  OBVIOUS
<1>2. h \in Command /\ u \in Seq(Command)
  BY <1>1, HeadTailProperties
<1>3. <<h>> \in Seq(Command) /\ Append(done, h) = done \o <<h>> /\ Append(done, h) \in Seq(Command)
  BY <1>2, AppendIsConcat, AppendProperties
<1>4. todo = <<h>> \o u
  BY <1>1
<1>5. (done \o <<h>>) \o u = done \o (<<h>> \o u)
  BY <1>2, <1>3, ConcatAssociative
<1> QED
  BY <1>1, <1>2, <1>3, <1>4, <1>5

\* Between operations memory is what recovery would make of the log, and in the middle of one it
\* is the commands already logged away from it.
MemInv ==
    /\ mode = "up" /\ writing = None => Agree(data, Recovered(files), unlogged)
    /\ writing # None =>
           \E done \in Seq(Command) :
               /\ writing.commands = done \o writing.todo
               /\ Agree(Apply(data, done), Recovered(files), unlogged)

\* A step that starts no write and logs nothing: recovery and memory may change, where unlogged' says so
LEMMA MemKept ==
    ASSUME Types, Types', MemInv, unlogged \subseteq unlogged',
           Agree(Recovered(files), Recovered(files'), unlogged'), Agree(data', data, unlogged'),
           mode' = "up" => mode = "up",
           writing' = None <=> writing = None,
           writing # None => writing'.commands = writing.commands /\ writing'.todo = writing.todo
    PROVE  MemInv'
<1>1. PICK d, d2, rec, rec2, X : /\ d = data /\ d2 = data' /\ X = unlogged'
                                 /\ rec = Recovered(files) /\ rec2 = Recovered(files')
  OBVIOUS
<1>2. d \in Data /\ d2 \in Data /\ Agree(d2, d, X) /\ Agree(rec, rec2, X)
  BY <1>1 DEF Types, MemoryTypes
<1>3. ASSUME mode' = "up", writing' = None
      PROVE  Agree(d2, rec2, X)
  <2>1. Agree(d, rec, X)
    BY <1>1, <1>3, AgreeLess DEF MemInv
  <2>2. Agree(d2, rec, X)
    BY <1>2, <2>1, AgreeSteps
  <2> QED
    BY <1>2, <2>2, AgreeSteps
<1>4. ASSUME writing' # None
      PROVE  \E done \in Seq(Command) :
                 /\ writing'.commands = done \o writing'.todo
                 /\ Agree(Apply(d2, done), rec2, X)
  <2>1. PICK done \in Seq(Command) :
            /\ writing.commands = done \o writing.todo
            /\ Agree(Apply(d, done), rec, unlogged)
    BY <1>1, <1>4 DEF MemInv
  <2>2. Agree(Apply(d, done), rec, X)
    BY <1>1, <2>1, AgreeLess
  <2>3. Agree(Apply(d2, done), Apply(d, done), X)
    BY <1>2, ApplyAgrees
  <2>4. Agree(Apply(d2, done), rec, X)
    BY <2>2, <2>3, AgreeSteps
  <2>5. Agree(Apply(d2, done), rec2, X)
    BY <1>2, <2>4, AgreeSteps
  <2> QED
    BY <1>4, <2>1, <2>5
<1> QED
  BY <1>1, <1>3, <1>4 DEF MemInv

\* A step that starts a write
LEMMA MemStarted ==
    ASSUME Types, Types', MemInv, Free, NEW commands, NEW ttl, StartWrite(commands, ttl),
           unlogged \subseteq unlogged', files' = files, Agree(data', data, unlogged')
    PROVE  MemInv'
<1>1. PICK d, d2, rec, X : d = data /\ d2 = data' /\ X = unlogged' /\ rec = Recovered(files)
  OBVIOUS
<1>2. d2 \in Data /\ Agree(d2, d, X)
  BY <1>1 DEF Types, MemoryTypes
<1>3. Agree(d2, rec, X)
  <2>1. Agree(d, rec, X)
    BY <1>1, AgreeLess DEF MemInv, Free
  <2> QED
    BY <1>2, <2>1, AgreeSteps
<1>4. writing'.commands = writing'.todo
  BY DEF StartWrite
<1>5. writing' # None => writing'.commands \in Seq(Command)
  BY DEF Types, MemoryTypes, Write
<1>6. writing' # None => writing'.commands = <<>> \o writing'.todo
  BY <1>4, <1>5, ConcatEmptySeq
<1>7. <<>> \in Seq(Command) /\ Apply(d2, <<>>) = d2
  BY <1>2, EmptySeq, ApplyNone
<1> QED
  BY <1>1, <1>3, <1>6, <1>7 DEF MemInv

LEMMA MemLogged ==
    ASSUME Types, Types', MemInv, WriteRecord
    PROVE  MemInv'
<1>1. PICK w, h, r, d, X, id : /\ w = writing /\ h = Head(w.todo) /\ r = [command |-> h, id |-> id]
                               /\ id = appended + 1 /\ d = data /\ X = unlogged
  OBVIOUS
<1>2. w \in Write /\ w.todo \in Seq(Command) /\ w.todo # <<>> /\ w # None /\ id \in Nat /\ d \in Data
  BY <1>1 DEF WriteRecord, Types, MemoryTypes, Write
<1>3. PICK done \in Seq(Command) :
          /\ w.commands = done \o w.todo
          /\ Agree(Apply(d, done), Recovered(files), X)
  BY <1>1, <1>2 DEF MemInv
<1>4. /\ h \in Command /\ Append(done, h) \in Seq(Command)
      /\ w.commands = Append(done, h) \o Tail(w.todo)
  BY <1>1, <1>2, <1>3, OneDone
<1>5. writing' = [w EXCEPT !.todo = Tail(w.todo), !.ids = Append(w.ids, id)]
  BY <1>1 DEF WriteRecord
<1>6. writing'.commands = w.commands /\ writing'.todo = Tail(w.todo)
  BY <1>2, <1>5 DEF Write
<1>7. data' = d /\ unlogged' = X /\ writing' # None
  <2>1. data' = d /\ unlogged' = X
    BY <1>1 DEF WriteRecord
  <2>2. writing' # None
    <3>1. w.todo \in Seq(Command) /\ w.ids \in Seq(Nat) /\ id \in Nat
      BY <1>2 DEF Write
    <3>2. Tail(w.todo) \in Seq(Command) /\ Append(w.ids, id) \in Seq(Nat)
      BY <1>2, <3>1, HeadTailProperties, AppendProperties
    <3>3. writing' \in Write
      BY <1>2, <1>5, <3>2 DEF Write
    <3> QED
      BY <3>3, NoneAssumption
  <2> QED
    BY <2>1, <2>2
<1>8. Recovered(files') = ApplyCommand(Recovered(files), h) /\ Recovered(files) \in Data
  <2>1. r \in Record /\ r.command = h
    BY <1>1, <1>2, <1>4 DEF Record
  <2>2. AppendRecord(r)
    BY <1>1 DEF WriteRecord
  <2>3. Records(files') = Append(Records(files), r)
    BY <2>1, <2>2, AppendIsReplayedLast DEF Types
  <2>4. PICK records : records = Records(files)
    OBVIOUS
  <2>5. records \in Seq(Record)
    <3>1. FilesTyped(files) /\ current \in Nat /\ \A s \in DOMAIN files : s <= current
      BY DEF Types, WALTypes, FilesTyped
    <3> QED
      BY <2>4, <3>1, AllRecords
  <2>6. Recover(Append(records, r)) = ApplyCommand(Recover(records), r.command)
    BY <2>1, <2>5, RecoverOneMore
  <2>7. Recover(records) \in Data
    BY <2>5, RecoverTyped
  <2> QED
    BY <2>1, <2>3, <2>4, <2>6, <2>7 DEF Recovered
<1>9. PICK rec, rec2 : rec = Recovered(files) /\ rec2 = Recovered(files')
  OBVIOUS
<1>10. Agree(Apply(d, Append(done, h)), rec2, X)
  <2>1. Apply(d, Append(done, h)) = ApplyCommand(Apply(d, done), h)
    BY <1>2, <1>4, ApplyOneMore
  <2>2. Apply(d, done) \in Data
    BY <1>2, ApplyTyped
  <2>3. Agree(ApplyCommand(Apply(d, done), h), ApplyCommand(rec, h), X)
    BY <1>3, <1>4, <1>8, <1>9, <2>2, ApplyCommandAgrees
  <2> QED
    BY <1>8, <1>9, <2>1, <2>3
<1> QED
  BY <1>4, <1>6, <1>7, <1>9, <1>10 DEF MemInv

LEMMA MemFinished ==
    ASSUME Types, Types', SyncComesLast, MemInv, FinishWrite
    PROVE  MemInv'
<1>1. PICK w, d, rec, X : w = writing /\ d = data /\ rec = Recovered(files) /\ X = unlogged
  OBVIOUS
<1>2. /\ w \in Write /\ w.commands \in Seq(Command) /\ w.ttl \in BOOLEAN /\ d \in Data
      /\ AllPuts(w.commands) \/ AllDeletes(w.commands)
      /\ w # None /\ w.todo = <<>>
  BY <1>1 DEF FinishWrite, Types, MemoryTypes, Write, SyncComesLast
<1>3. PICK done \in Seq(Command) :
          /\ w.commands = done \o w.todo
          /\ Agree(Apply(d, done), rec, X)
  BY <1>1, <1>2 DEF MemInv
<1>4. w.commands = done
  BY <1>2, <1>3, ConcatEmptySeq
<1>5. /\ data' = Store(d, w.commands, w.ttl) /\ unlogged' = X /\ writing' = None
      /\ files' = files
  BY <1>1 DEF FinishWrite, walVars
<1>6. Agree(Store(d, w.commands, w.ttl), Apply(d, w.commands), X)
  BY <1>2, StoreAgrees
<1>7. Agree(Store(d, w.commands, w.ttl), rec, X)
  BY <1>3, <1>4, <1>6, AgreeSteps
<1> QED
  BY <1>1, <1>5, <1>7 DEF MemInv

\* A step that leaves the log alone; what it changes in memory is in doubt from then on.
Quiet ==
    /\ mode = "up" /\ mode' = "up"
    /\ files' = files /\ writing' = writing /\ appended' = appended
    /\ unlogged \subseteq unlogged' /\ Agree(data', data, unlogged')

StartsWrite ==
    /\ Free /\ mode' = "up"
    /\ files' = files /\ appended' = appended
    /\ unlogged \subseteq unlogged' /\ Agree(data', data, unlogged')
    /\ \E commands \in Seq(Command), ttl \in BOOLEAN : StartWrite(commands, ttl)

LEMMA StepKinds ==
    ASSUME Types, [Next]_vars
    PROVE  \/ Quiet \/ StartsWrite \/ WriteRecord \/ WriteSync \/ FinishWrite
           \/ RemoveNextSegment \/ Close \/ Crash \/ Restart \/ UNCHANGED vars
<1> DEFINE Kinds == \/ Quiet \/ StartsWrite \/ WriteRecord \/ WriteSync \/ FinishWrite
                    \/ RemoveNextSegment \/ Close \/ Crash \/ Restart \/ UNCHANGED vars
<1>1. /\ data \in Data
      /\ mode \in {"up", "down"}
      /\ mode = "down" => writing = None /\ deleting = {}
      /\ \A t \in Txn : txns[t] = None \/ txns[t] \in Seq(Command)
  BY DEF Types, MemoryTypes
\* Steps that touch neither the log nor, as far as clients see, memory
<1>2. ASSUME mode = "up", mode' = mode, files' = files, writing' = writing, data' = data,
             appended' = appended, unlogged' = unlogged
      PROVE  Quiet
  <2>1. Agree(data', data, unlogged')
    BY <1>2, AgreeSelf
  <2> QED
    BY <1>2, <2>1 DEF Quiet
<1>3. ASSUME Free, mode' = mode, files' = files, data' = data, appended' = appended,
             unlogged' = unlogged, NEW commands \in Seq(Command), NEW ttl \in BOOLEAN,
             StartWrite(commands, ttl)
      PROVE  StartsWrite
  <2>1. Agree(data', data, unlogged')
    BY <1>3, AgreeSelf
  <2> QED
    BY <1>3, <2>1 DEF StartsWrite, Free
<1>4. ASSUME NEW c \in Command, c.type \in {"put", "delete"}
      PROVE  <<c>> \in Seq(Command)
  BY <1>4, OneCommand
<1>5. ASSUME NEW k \in Key, NEW v \in Value, NEW ttl \in BOOLEAN, StartPut(k, v, ttl)
      PROVE  StartsWrite
  <2>1. Put(k, v) \in Command /\ Put(k, v).type = "put"
    BY DEF Command, Put
  <2>2. <<Put(k, v)>> \in Seq(Command)
    BY <1>4, <2>1
  <2> QED
    BY <1>3, <1>5, <2>2 DEF StartPut, walVars, historyVars
<1>6. ASSUME NEW k \in Key, StartDelete(k)
      PROVE  StartsWrite
  <2>1. Delete(k) \in Command /\ Delete(k).type = "delete"
    BY DEF Command, Delete
  <2>2. <<Delete(k)>> \in Seq(Command)
    BY <1>4, <2>1
  <2> QED
    BY <1>3, <1>6, <2>2 DEF StartDelete, walVars, historyVars
<1>7. ASSUME NEW k \in Key, Expire(k)
      PROVE  Quiet
  <2>1. PICK kv, kv2 : kv = data[k] /\ kv2 = [kv EXCEPT !.expired = TRUE]
    OBVIOUS
  <2>2. kv \in KeyValue /\ kv # None
    BY <1>1, <1>7, <2>1 DEF Expire, Exists, Data
  <2>3. kv2 \in KeyValue /\ kv2.value = kv.value /\ kv2.version = kv.version
    BY <2>1, <2>2 DEF KeyValue
  <2>4. SameKeyValue(kv2, kv)
    BY <2>2, <2>3, NoneAssumption DEF SameKeyValue
  <2>5. data' = [data EXCEPT ![k] = kv2]
    BY <1>7, <2>1 DEF Expire
  <2>6. Agree(data', data, unlogged')
    BY <1>1, <2>1, <2>4, <2>5 DEF Agree, Data, SameKeyValue
  <2> QED
    BY <1>7, <2>6 DEF Quiet, Expire, walVars, historyVars
<1>8. ASSUME NEW k \in Key, GetExpired(k)
      PROVE  Quiet
  BY <1>2, <1>8 DEF GetExpired, Free, walVars, historyVars
<1>9. ASSUME NEW k \in Key, DeleteExpired(k)
      PROVE  Quiet
  <2>1. mode = "up"
    BY <1>1, <1>9 DEF DeleteExpired
  <2>2. Agree(data', data, unlogged')
    BY <1>1, <1>9 DEF DeleteExpired, Agree, Data, SameKeyValue
  <2> QED
    BY <1>9, <2>1, <2>2 DEF Quiet, DeleteExpired, walVars
<1>10. ASSUME NEW k \in Key, NEW prev \in Value \cup {None}, NEW v \in Value,
             CompareAndSwap(k, prev, v)
      PROVE  Quiet \/ StartsWrite
  <2>1. Agree(data', data, unlogged') /\ unlogged \subseteq unlogged'
    BY <1>1, <1>10 DEF CompareAndSwap, Agree, Data, SameKeyValue
  <2>2. /\ Free /\ files' = files /\ mode' = mode /\ appended' = appended
        /\ StartWrite(<<Put(k, v)>>, FALSE) \/ writing' = writing
    BY <1>10 DEF CompareAndSwap, walVars
  <2>3. CASE StartWrite(<<Put(k, v)>>, FALSE)
    <3>1. Put(k, v) \in Command /\ Put(k, v).type = "put"
      BY DEF Command, Put
    <3>2. <<Put(k, v)>> \in Seq(Command)
      BY <1>4, <3>1
    <3> QED
      BY <2>1, <2>2, <2>3, <3>2 DEF StartsWrite, Free
  <2>4. CASE writing' = writing
    BY <2>1, <2>2, <2>4 DEF Quiet, Free
  <2> QED
    BY <2>2, <2>3, <2>4
<1>11. ASSUME NEW S \in SUBSET Key, IsFiniteSet(S), NEW ttl \in BOOLEAN, NEW kvs \in [S -> Value],
              StartBatchPut(kvs, ttl)
       PROVE  StartsWrite
  <2>1. PICK keys \in SetToSeqs(DOMAIN kvs) :
            StartWrite([i \in DOMAIN keys |-> Put(keys[i], kvs[keys[i]])], ttl)
    BY <1>11 DEF StartBatchPut
  <2> DEFINE commands == [i \in DOMAIN keys |-> Put(keys[i], kvs[keys[i]])]
  <2>2. commands \in Seq(Command)
    BY <1>11, BatchPutTyped
  <2> HIDE DEF commands
  <2>3. StartWrite(commands, ttl)
    BY <2>1 DEF commands
  <2> QED
    BY <1>3, <1>11, <2>2, <2>3 DEF StartBatchPut, walVars, historyVars
<1>12. ASSUME NEW n \in 1..MaxOps, NEW keys \in [1..n -> Key], StartBatchDelete(keys)
       PROVE  StartsWrite
  <2>1. keys \in Seq(Key)
    BY EngineAssumption
  <2>2. Deletes(data, keys) \in Seq(Command)
    BY <1>1, <2>1, DeletesTyped
  <2> QED
    BY <1>3, <1>12, <2>2 DEF StartBatchDelete, walVars, historyVars
<1>13. ASSUME CleanupExpiredKeys
       PROVE  Quiet
  <2>1. Agree(data', data, unlogged')
    BY <1>1, <1>13 DEF CleanupExpiredKeys, Agree, Data, SameKeyValue
  <2> QED
    BY <1>13, <2>1 DEF Quiet, CleanupExpiredKeys, Free, walVars
<1>14. ASSUME NEW t \in Txn, BeginTransaction(t)
       PROVE  Quiet
  BY <1>2, <1>14 DEF BeginTransaction, Free, walVars, historyVars
<1>15. ASSUME NEW t \in Txn, NEW c \in Command, AddOperation(t, c)
       PROVE  Quiet
  BY <1>2, <1>15 DEF AddOperation, Free, walVars, historyVars
<1>16. ASSUME NEW t \in Txn, CommitTransaction(t)
       PROVE  Quiet
  <2>1. PICK ops : ops = txns[t]
    OBVIOUS
  <2>2. /\ ops \in Seq(Command) /\ data' = Apply(data, ops)
        /\ unlogged' = unlogged \cup {ops[i].key : i \in DOMAIN ops}
    BY <1>1, <1>16, <2>1 DEF CommitTransaction
  <2>3. DOMAIN ops = 1..Len(ops)
    BY <2>2, LenProperties
  <2>4. ASSUME NEW k \in Key \ unlogged'
        PROVE  Apply(data, ops)[k] = data[k]
    <3>1. \A i \in 1..Len(ops) : ops[i].key # k
      BY <2>2, <2>3
    <3> QED
      BY <1>1, <2>2, <3>1, ApplyLeavesOthers
  <2>5. Agree(data', data, unlogged')
    BY <2>2, <2>4 DEF Agree, SameKeyValue
  <2> QED
    BY <1>16, <2>2, <2>5 DEF Quiet, CommitTransaction, Free, walVars
<1>17. ASSUME NEW t \in Txn, RollbackTransaction(t)
       PROVE  Quiet
  BY <1>2, <1>17 DEF RollbackTransaction, Free, walVars, historyVars
<1>18. ASSUME CopyForSnapshot
       PROVE  Quiet
  BY <1>2, <1>18 DEF CopyForSnapshot, Free, walVars, historyVars
<1>19. ASSUME NEW keys \in UNION {[1..n -> Key] : n \in 1..MaxOps}, StartBatchDelete(keys)
       PROVE  StartsWrite
  BY <1>12, <1>19
<1>20. ASSUME NEW S \in {S \in SUBSET Key : S # {} /\ IsFiniteSet(S)}, NEW ttl \in BOOLEAN,
              NEW kvs \in [S -> Value], StartBatchPut(kvs, ttl)
       PROVE  StartsWrite
  BY <1>11, <1>20
<1>21. ASSUME FinishTruncate
       PROVE  Quiet
  BY <1>2, <1>21 DEF FinishTruncate, Load, historyVars
<1>22. ASSUME NEW keys \in SUBSET Key, DeleteLeased(keys)
       PROVE  Quiet
  <2>1. Agree(data', data, unlogged')
    BY <1>1, <1>22 DEF DeleteLeased, Agree, Data, SameKeyValue
  <2> QED
    BY <1>22, <2>1 DEF Quiet, DeleteLeased, Free, walVars
<1> HIDE DEF Kinds
<1>23. Kinds
  BY <1>5, <1>6, <1>7, <1>8, <1>9, <1>10, <1>13, <1>14, <1>15, <1>16, <1>17, <1>18, <1>19, <1>20,
     <1>21, <1>22 DEF Next, Kinds
<1> QED
  BY <1>23 DEF Kinds

LEMMA MemStep ==
    ASSUME Types, Types', LogInv, MemInv, [Next]_vars
    PROVE  MemInv'
<1>1. CASE Quiet
  <2>1. Agree(Recovered(files), Recovered(files'), unlogged')
    BY <1>1, AgreeSelf DEF Quiet
  <2> QED
    BY <1>1, <2>1, MemKept DEF Quiet
<1>2. CASE StartsWrite
  BY <1>2, MemStarted DEF StartsWrite
<1>3. CASE WriteRecord
  BY <1>3, MemLogged
<1>4. CASE WriteSync
  <2>1. PICK rec : rec = Recovered(files)
    OBVIOUS
  <2>2. Recovered(files') = rec
    BY <1>4, <2>1, SyncedFile, SyncKeepsRecords DEF WriteSync, Recovered, Types
  <2>3. Agree(Recovered(files), Recovered(files'), unlogged')
    BY <2>1, <2>2, AgreeSelf
  <2>4. /\ data' = data /\ unlogged' = unlogged /\ mode' = mode
        /\ writing # None /\ writing' = [writing EXCEPT !.synced = TRUE]
    BY <1>4 DEF WriteSync, historyVars
  <2>5. writing \in Write
    BY <2>4 DEF Types, MemoryTypes
  <2>6. writing' \in Write /\ writing'.commands = writing.commands /\ writing'.todo = writing.todo
    BY <2>4, <2>5 DEF Write
  <2>7. writing' # None
    BY <2>6, NoneAssumption
  <2>8. Agree(data', data, unlogged')
    BY <2>4, AgreeSelf
  <2> QED
    BY <2>3, <2>4, <2>6, <2>7, <2>8, MemKept
<1>5. CASE FinishWrite
  BY <1>5, MemFinished DEF LogInv
<1>6. CASE RemoveNextSegment
  <2>1. Agree(Recovered(files), Recovered(files'), unlogged')
    BY <1>6, TruncateForgets
  <2>2. data' = data /\ writing' = writing /\ mode' = mode /\ unlogged \subseteq unlogged'
    BY <1>6 DEF RemoveNextSegment
  <2>3. Agree(data', data, unlogged')
    BY <2>2, AgreeSelf
  <2> QED
    BY <2>1, <2>2, <2>3, MemKept
<1>7. CASE Close \/ Crash
  <2>1. mode' = "down" /\ writing' = None
    BY <1>7 DEF Close, Crash, LoseMemory
  <2> QED
    BY <2>1 DEF MemInv
<1>8. CASE Restart
  <2>1. data' = Recovered(files) /\ files' = files /\ writing' = None
    BY <1>8 DEF Restart, Load, Types, MemoryTypes
  <2>2. Agree(data', Recovered(files'), unlogged')
    BY <2>1, AgreeSelf
  <2> QED
    BY <2>1, <2>2 DEF MemInv
<1>9. CASE UNCHANGED vars
  <2>1. /\ files' = files /\ writing' = writing /\ mode' = mode /\ unlogged' = unlogged
        /\ data' = data
    BY <1>9 DEF vars, walVars, historyVars
  <2>2. Agree(data', data, unlogged') /\ Agree(Recovered(files), Recovered(files'), unlogged')
    BY <2>1, AgreeSelf
  <2> QED
    BY <2>1, <2>2, MemKept
<1> QED
  BY <1>1, <1>2, <1>3, <1>4, <1>5, <1>6, <1>7, <1>8, <1>9, StepKinds

LEMMA MemInitially == Init => MemInv
<1> SUFFICES ASSUME Init
             PROVE  Agree(data, Recovered(files), unlogged) /\ writing = None
  BY DEF MemInv
<1>1. Types
  BY TypesInitially
<1>2. PICK fs, records : fs = files /\ records = fs[0].records
  OBVIOUS
<1>3. FilesTyped(fs) /\ DOMAIN fs = {0} /\ records = <<>>
  BY <1>1, <1>2 DEF Types, WALTypes, Init, WALInit, EmptySegment
<1>4. Records(fs) = RecordsBelow(fs, 0 + 1)
  BY <1>3, AllRecords
<1>5. RecordsBelow(fs, 0 + 1) = RecordsBelow(fs, 0) \o <<>>
  BY <1>2, <1>3, RecordsNext
<1>6. Records(fs) = <<>>
  BY <1>3, <1>4, <1>5, RecordsOfNone, ConcatEmptySeq
<1>7. <<>> \in Seq(Record)
  BY EmptySeq
<1>8. Recover(<<>>) = NoData
  BY <1>7, RecoverIsFold, FoldByEmpty
<1>9. Recovered(files) = data
  BY <1>2, <1>6, <1>8 DEF Init, Recovered
<1> QED
  BY <1>9, AgreeSelf DEF Init

LEMMA MemAlways == Spec => [](Types /\ LogInv /\ MemInv)
<1>1. Init => MemInv
  BY MemInitially
<1>2. Types /\ Types' /\ LogInv /\ MemInv /\ [Next]_vars => MemInv'
  BY MemStep
<1> QED
  BY <1>1, <1>2, LogAlways, PTL DEF Spec

\* Between operations a restart would bring back every key as memory has it, value and version
\* (engine.go:124, recoverFromWAL), but for the keys that expiry (engine.go:308, 1046), the end of a
\* lease (engine.go:913, 949), a transaction (engine.go:527) or a truncation (engine.go:1156) touched
\* since the last restart.
THEOREM MemoryIsReplayAlways == Spec => []MemoryIsReplay
<1>1. Types /\ LogInv /\ MemInv => MemoryIsReplay
  BY DEF MemInv, MemoryIsReplay, Free, Agree
<1> QED
  BY <1>1, MemAlways, PTL
-----------------------------------------------------------------------------
(* The refinement of DurableMap.  What recovery leaves, taken by the ids of *)
(* the records: from here the log is the set of its records.               *)

OnDisk(fs) == {r \in Record : \E s \in DOMAIN fs : \E i \in DOMAIN fs[s].records :
                                  r = fs[s].records[i]}
OneEach(L) == L \subseteq Record /\ \A r, q \in L : r.id = q.id => r = q

Count(n) == [i \in 1..n |-> i]
\* The command of that id, if there is one, is the next to be applied.
ReplayStep(L) ==
    [d \in Data |-> [i \in Nat |->
        IF \E r \in L : r.id = i THEN ApplyCommand(d, (CHOOSE r \in L : r.id = i).command) ELSE d]]
Replay(L, n) == FoldBy(ReplayStep(L), NoData, Count(n))

LEMMA CountNext ==
    ASSUME NEW n \in Nat
    PROVE  /\ Count(n) \in Seq(Nat) /\ Count(0) = <<>>
           /\ Count(n + 1) = Append(Count(n), n + 1)
<1>1. Count(n) \in Seq(Nat) /\ Len(Count(n)) = n
  <2>1. Count(n) \in [1..n -> Nat]
    BY DEF Count
  <2> QED
    BY <2>1, LenProperties
<1>2. Count(0) = <<>>
  <2>1. Count(0) \in [1..0 -> Nat]
    BY DEF Count
  <2>2. Count(0) \in Seq(Nat) /\ Len(Count(0)) = 0
    BY <2>1
  <2> QED
    BY <2>2, EmptySeq
<1>3. Count(n + 1) \in Seq(Nat) /\ Len(Count(n + 1)) = n + 1
  <2>1. Count(n + 1) \in [1..(n + 1) -> Nat]
    BY DEF Count
  <2> QED
    BY <2>1
<1>4. PICK a, b : a = Count(n + 1) /\ b = Append(Count(n), n + 1)
  OBVIOUS
<1>5. /\ b \in Seq(Nat) /\ Len(b) = n + 1
      /\ \A i \in 1..n : b[i] = Count(n)[i]
      /\ b[n + 1] = n + 1
  BY <1>1, <1>4, AppendProperties
<1>6. \A i \in 1..(n + 1) : a[i] = b[i]
  <2> SUFFICES ASSUME NEW i \in 1..(n + 1)
               PROVE  a[i] = b[i]
    OBVIOUS
  <2>1. a[i] = i
    BY <1>4 DEF Count
  <2>2. i = n + 1 \/ i \in 1..n
    OBVIOUS
  <2>3. i \in 1..n => Count(n)[i] = i
    BY DEF Count
  <2> QED
    BY <1>5, <2>1, <2>2, <2>3
<1>7. a = b
  BY <1>3, <1>4, <1>5, <1>6, SeqEqual
<1> QED
  BY <1>1, <1>2, <1>4, <1>7

CountTyped(D, step, base) == step \in [D -> [Nat -> D]] /\ base \in D

LEMMA CountFold ==
    ASSUME NEW D, NEW step, NEW base, CountTyped(D, step, base), NEW n \in Nat
    PROVE  /\ FoldBy(step, base, Count(0)) = base
           /\ FoldBy(step, base, Count(n)) \in D
           /\ FoldBy(step, base, Count(n + 1)) = step[FoldBy(step, base, Count(n))][n + 1]
<1>1. FoldTyped(D, Nat, step, base, Count(n)) /\ FoldTyped(D, Nat, step, base, <<>>)
  BY CountNext, EmptySeq DEF FoldTyped, CountTyped
<1>2. FoldBy(step, base, Count(0)) = base
  BY <1>1, CountNext, FoldByEmpty
<1>3. FoldBy(step, base, Count(n)) \in D
  BY <1>1, FoldByTyped
<1>4. n + 1 \in Nat
  OBVIOUS
<1>5. FoldBy(step, base, Append(Count(n), n + 1)) = step[FoldBy(step, base, Count(n))][n + 1]
  BY <1>1, <1>4, FoldByAppend
<1> QED
  BY <1>2, <1>3, <1>5, CountNext

\* One record more, or a gap
LEMMA ReplayNext ==
    ASSUME NEW L, OneEach(L), NEW n \in Nat
    PROVE  /\ Replay(L, 0) = NoData
           /\ Replay(L, n) \in Data
           /\ (\A r \in L : r.id # n + 1) => Replay(L, n + 1) = Replay(L, n)
           /\ \A r \in L : r.id = n + 1 => Replay(L, n + 1) = ApplyCommand(Replay(L, n), r.command)
<1>1. NoData \in Data
  BY DEF NoData, Data
<1>2. ASSUME NEW i \in Nat, \E r \in L : r.id = i
      PROVE  (CHOOSE r \in L : r.id = i) \in L /\ (CHOOSE r \in L : r.id = i).id = i
  BY <1>2
<1>3. ReplayStep(L) \in [Data -> [Nat -> Data]]
  <2>1. ASSUME NEW d \in Data, NEW i \in Nat
        PROVE  (IF \E r \in L : r.id = i THEN ApplyCommand(d, (CHOOSE r \in L : r.id = i).command)
                                         ELSE d) \in Data
    <3>1. CASE \E r \in L : r.id = i
      <4>1. PICK q : q = CHOOSE r \in L : r.id = i
        OBVIOUS
      <4>2. q \in Record
        BY <1>2, <3>1, <4>1 DEF OneEach
      <4>3. ApplyCommand(d, q.command) \in Data
        BY <4>2, ApplyCommandTyped DEF Record
      <4> QED
        BY <3>1, <4>1, <4>3
    <3>2. CASE ~ \E r \in L : r.id = i
      BY <3>2
    <3> QED
      BY <3>1, <3>2
  <2> QED
    BY <2>1, Zenon DEF ReplayStep
<1>4. PICK d : d = Replay(L, n)
  OBVIOUS
<1>5. Replay(L, 0) = NoData /\ d \in Data /\ Replay(L, n + 1) = ReplayStep(L)[d][n + 1]
  <2>1. PICK st : st = ReplayStep(L)
    OBVIOUS
  <2>2. st \in [Data -> [Nat -> Data]]
    BY <1>3, <2>1
  <2>3. CountTyped(Data, st, NoData)
    BY <1>1, <2>2 DEF CountTyped
  <2>4. /\ FoldBy(st, NoData, Count(0)) = NoData
        /\ FoldBy(st, NoData, Count(n)) \in Data
        /\ FoldBy(st, NoData, Count(n + 1)) = st[FoldBy(st, NoData, Count(n))][n + 1]
    BY <2>3, CountFold
  <2> QED
    BY <1>4, <2>1, <2>4 DEF Replay
<1>6. n + 1 \in Nat
  OBVIOUS
<1>7. (\A r \in L : r.id # n + 1) => Replay(L, n + 1) = d
  BY <1>5, <1>6 DEF ReplayStep
<1>8. ASSUME NEW r \in L, r.id = n + 1
      PROVE  Replay(L, n + 1) = ApplyCommand(d, r.command)
  <2>1. (CHOOSE q \in L : q.id = n + 1) = r
    BY <1>2, <1>6, <1>8 DEF OneEach
  <2> QED
    BY <1>5, <1>6, <1>8, <2>1 DEF ReplayStep
<1> QED
  BY <1>4, <1>5, <1>7, <1>8

LEMMA ApplyCommandAt ==
    ASSUME NEW d \in Data, NEW c \in Command, NEW k \in Key
    PROVE  ApplyCommand(d, c)[k] = IF c.key = k THEN AfterCommand(d[k], c) ELSE d[k]
BY DEF ApplyCommand, Data

\* What is left of a key depends on the records of that key only.
SameFor(k, L, M, n) ==
    \A r \in Record : r.command.key = k /\ r.id <= n => (r \in L <=> r \in M)

LEMMA ReplaySame ==
    ASSUME NEW L, OneEach(L), NEW M, OneEach(M), NEW k \in Key, NEW m \in Nat, SameFor(k, L, M, m)
    PROVE  Replay(L, m)[k] = Replay(M, m)[k]
<1> DEFINE S == {n \in 0..m : Replay(L, n)[k] = Replay(M, n)[k]}
<1>1. 0 \in S
  BY ReplayNext
<1>2. ASSUME NEW n \in 0..m, n # m, n \in S
      PROVE  n + 1 \in S
  <2>1. n \in Nat /\ n + 1 \in 0..m /\ n + 1 <= m
    BY <1>2
  <2> SUFFICES Replay(L, n + 1)[k] = Replay(M, n + 1)[k]
    BY <2>1
  <2>2. PICK a, b : a = Replay(L, n) /\ b = Replay(M, n)
    OBVIOUS
  <2>3. a \in Data /\ b \in Data /\ a[k] = b[k]
    BY <1>2, <2>1, <2>2, ReplayNext
  \* Whoever has a record of that id for the key, the other has it too
  <2>4. ASSUME NEW A, OneEach(A), NEW B, OneEach(B), SameFor(k, A, B, m),
               NEW x \in Data, x = Replay(A, n), NEW y \in Data, y = Replay(B, n), x[k] = y[k],
               NEW r \in A, r.id = n + 1, r.command.key = k
        PROVE  Replay(A, n + 1)[k] = Replay(B, n + 1)[k]
    <3>1. r \in Record /\ r.command \in Command
      BY <2>4 DEF OneEach, Record
    <3>2. r \in B
      BY <2>1, <2>4, <3>1 DEF SameFor
    <3>3. /\ Replay(A, n + 1) = ApplyCommand(x, r.command)
          /\ Replay(B, n + 1) = ApplyCommand(y, r.command)
      BY <2>1, <2>4, <3>2, ReplayNext
    <3>4. /\ ApplyCommand(x, r.command)[k] = AfterCommand(x[k], r.command)
          /\ ApplyCommand(y, r.command)[k] = AfterCommand(y[k], r.command)
      BY <2>4, <3>1, ApplyCommandAt
    <3> QED
      BY <2>4, <3>3, <3>4
  \* and where nobody has, the key stays as it is
  <2>5. ASSUME NEW A, OneEach(A), NEW x \in Data, x = Replay(A, n),
               \A r \in A : r.id = n + 1 => r.command.key # k
        PROVE  Replay(A, n + 1)[k] = x[k]
    <3>1. CASE \E r \in A : r.id = n + 1
      <4>1. PICK r \in A : r.id = n + 1
        BY <3>1
      <4>2. r.command \in Command /\ r.command.key # k
        BY <2>5, <4>1 DEF OneEach, Record
      <4>3. Replay(A, n + 1) = ApplyCommand(x, r.command)
        BY <2>1, <2>5, <4>1, ReplayNext
      <4>4. ApplyCommand(x, r.command)[k] = x[k]
        BY <4>2, ApplyCommandAt
      <4> QED
        BY <4>3, <4>4
    <3>2. CASE \A r \in A : r.id # n + 1
      BY <2>1, <2>5, <3>2, ReplayNext
    <3> QED
      BY <3>1, <3>2
  <2>6. CASE \E r \in L : r.id = n + 1 /\ r.command.key = k
    BY <2>2, <2>3, <2>4, <2>6
  <2>7. CASE \E r \in M : r.id = n + 1 /\ r.command.key = k
    <3>1. SameFor(k, M, L, m)
      BY DEF SameFor
    <3> QED
      BY <2>2, <2>3, <2>4, <2>7, <3>1
  <2>8. CASE \A r \in L \cup M : r.id = n + 1 => r.command.key # k
    <3>1. Replay(L, n + 1)[k] = a[k] /\ Replay(M, n + 1)[k] = b[k]
      BY <2>2, <2>3, <2>5, <2>8
    <3> QED
      BY <2>3, <3>1
  <2> QED
    BY <2>6, <2>7, <2>8
<1> HIDE DEF S
<1>3. m \in S
  BY <1>1, <1>2, CountUp
<1> QED
  BY <1>3 DEF S
\* Functions on the keys that agree at every key
LEMMA SameData ==
    ASSUME NEW d \in Data, NEW e \in Data, \A k \in Key : d[k] = e[k]
    PROVE  d = e
BY DEF Data

\* Ids that no record has leave no trace.
LEMMA ReplayBeyond ==
    ASSUME NEW L, OneEach(L), NEW n \in Nat, NEW m \in Nat, n <= m,
           \A r \in L : ~(n < r.id /\ r.id <= m)
    PROVE  Replay(L, m) = Replay(L, n)
<1> DEFINE S == {j \in 0..(m - n) : Replay(L, n + j) = Replay(L, n)}
<1>1. m - n \in Nat /\ n + (m - n) = m
  OBVIOUS
<1>2. 0 \in S
  <2>1. 0 \in 0..(m - n) /\ n + 0 = n
    BY <1>1
  <2> QED
    BY <2>1
<1>3. ASSUME NEW j \in 0..(m - n), j # m - n, j \in S
      PROVE  j + 1 \in S
  <2>1. /\ n + j \in Nat /\ n + (j + 1) = (n + j) + 1 /\ j + 1 \in 0..(m - n)
        /\ n < (n + j) + 1 /\ (n + j) + 1 <= m
    BY <1>1, <1>3
  <2>2. \A r \in L : r.id # (n + j) + 1
    BY <2>1
  <2>3. Replay(L, (n + j) + 1) = Replay(L, n + j)
    BY <2>1, <2>2, ReplayNext
  <2> QED
    BY <1>3, <2>1, <2>3
<1> HIDE DEF S
<1>4. m - n \in S
  BY <1>1, <1>2, <1>3, CountUp
<1> QED
  BY <1>1, <1>4 DEF S

\* A record with the last id comes last.
LEMMA ReplayOneMore ==
    ASSUME NEW L, OneEach(L), NEW r \in Record, \A q \in L : q.id < r.id,
           NEW n \in Nat, 0 < r.id, r.id <= n
    PROVE  OneEach(L \cup {r}) /\ Replay(L \cup {r}, n) = ApplyCommand(Replay(L, n), r.command)
<1> DEFINE M == L \cup {r}
<1>1. PICK i \in Nat : r.id = i + 1
  <2>1. r.id \in Nat /\ r.id # 0
    BY DEF Record
  <2>2. r.id - 1 \in Nat /\ r.id = (r.id - 1) + 1
    BY <2>1
  <2> QED
    BY <2>2
<1>2. OneEach(M)
  <2>1. \A q \in L : q.id # r.id
    <3>1. \A q \in L : q.id \in Nat /\ r.id \in Nat
      BY DEF OneEach, Record
    <3> QED
      BY <3>1
  <2> QED
    BY <2>1 DEF OneEach
<1>3. \A q \in L : q.id \in Nat /\ q.id <= i
  <2>1. \A q \in L : q.id \in Nat /\ q.id < i + 1
    BY <1>1 DEF OneEach, Record
  <2> QED
    BY <2>1
<1>4. Replay(M, i) = Replay(L, i)
  <2>1. ASSUME NEW k \in Key
        PROVE  Replay(M, i)[k] = Replay(L, i)[k]
    <3>1. ~(r.id <= i)
      BY <1>1
    <3>2. SameFor(k, M, L, i)
      BY <3>1 DEF SameFor
    <3> HIDE DEF M
    <3> QED
      BY <1>2, <3>2, ReplaySame
  <2> HIDE DEF M
  <2>2. Replay(M, i) \in Data /\ Replay(L, i) \in Data
    BY <1>2, ReplayNext
  <2> QED
    BY <2>1, <2>2, SameData
<1>5. Replay(M, i + 1) = ApplyCommand(Replay(M, i), r.command)
  <2>1. r \in M
    OBVIOUS
  <2> HIDE DEF M
  <2> QED
    BY <1>1, <1>2, <2>1, ReplayNext
<1>6. Replay(M, n) = Replay(M, i + 1)
  <2>1. i + 1 \in Nat /\ i + 1 <= n
    BY <1>1
  <2>2. \A q \in M : ~(i + 1 < q.id /\ q.id <= n)
    <3>1. ~(i + 1 < r.id)
      BY <1>1
    <3>2. \A q \in L : ~(i + 1 < q.id)
      BY <1>3
    <3> QED
      BY <3>1, <3>2
  <2> HIDE DEF M
  <2> QED
    BY <1>2, <2>1, <2>2, ReplayBeyond
<1>7. Replay(L, n) = Replay(L, i)
  <2>1. i <= n
    BY <1>1
  <2>2. \A q \in L : ~(i < q.id /\ q.id <= n)
    BY <1>3
  <2> QED
    BY <2>1, <2>2, ReplayBeyond
<1> QED
  BY <1>2, <1>4, <1>5, <1>6, <1>7

Rising(rs, n) ==
    /\ \A i, j \in 1..Len(rs) : i < j => rs[i].id < rs[j].id
    /\ \A i \in 1..Len(rs) : rs[i].id \in 1..n
Among(rs, l) == {rs[i] : i \in 1..l}

\* Recovery of records in the order of their ids
LEMMA RecoverIsReplay ==
    ASSUME NEW rs \in Seq(Record), NEW n \in Nat, Rising(rs, n)
    PROVE  OneEach(Among(rs, Len(rs))) /\ Recover(rs) = Replay(Among(rs, Len(rs)), n)
<1> DEFINE S == {l \in 0..Len(rs) :
                    /\ OneEach(Among(rs, l))
                    /\ Recover(First(rs, l)) = Replay(Among(rs, l), n)}
<1>1. Len(rs) \in Nat /\ 0 \in 0..Len(rs)
  BY LenProperties
<1>2. 0 \in S
  <2>1. Among(rs, 0) = {} /\ OneEach({})
    BY DEF Among, OneEach
  <2>2. First(rs, 0) = <<>>
    BY <1>1, FirstFacts
  <2>3. <<>> \in Seq(Record)
    BY EmptySeq
  <2>4. Recover(<<>>) = NoData
    BY <2>3, RecoverIsFold, FoldByEmpty
  <2>5. Replay({}, n) = Replay({}, 0) /\ Replay({}, 0) = NoData
    <3>1. 0 \in Nat /\ 0 <= n
      OBVIOUS
    <3>2. PICK L : L = {}
      OBVIOUS
    <3>3. OneEach(L) /\ \A r \in L : FALSE
      BY <2>1, <3>2
    <3>4. Replay(L, n) = Replay(L, 0)
      BY <3>1, <3>3, ReplayBeyond
    <3>5. Replay(L, 0) = NoData
      BY <3>3, ReplayNext
    <3> QED
      BY <3>2, <3>4, <3>5
  <2> QED
    BY <1>1, <2>1, <2>2, <2>4, <2>5
<1>3. ASSUME NEW l \in 0..Len(rs), l # Len(rs), l \in S
      PROVE  l + 1 \in S
  <2>1. l \in Nat /\ l + 1 \in 1..Len(rs) /\ l + 1 \in 0..Len(rs)
    BY <1>1, <1>3
  <2>2. PICK r : r = rs[l + 1]
    OBVIOUS
  <2>3. r \in Record
    BY <2>1, <2>2, ElementOfSeq
  <2>4. PICK L : L = Among(rs, l)
    OBVIOUS
  <2>5. OneEach(L) /\ Recover(First(rs, l)) = Replay(L, n)
    BY <1>3, <2>4
  <2>6. \A q \in L : q.id < r.id
    <3>1. \A i \in 1..l : i \in 1..Len(rs) /\ i < l + 1
      BY <2>1
    <3>2. \A i \in 1..l : rs[i].id < rs[l + 1].id
      BY <2>1, <3>1 DEF Rising
    <3> QED
      BY <2>2, <2>4, <3>2 DEF Among
  <2>7. 0 < r.id /\ r.id <= n
    <3>1. rs[l + 1].id \in 1..n
      BY <2>1 DEF Rising
    <3> QED
      BY <2>2, <3>1
  <2>8. OneEach(L \cup {r}) /\ Replay(L \cup {r}, n) = ApplyCommand(Replay(L, n), r.command)
    BY <2>3, <2>5, <2>6, <2>7, ReplayOneMore
  <2>9. Among(rs, l + 1) = L \cup {r}
    <3>1. 1..(l + 1) = (1..l) \cup {l + 1}
      BY <2>1
    <3> QED
      BY <2>2, <2>4, <3>1 DEF Among
  <2>10. First(rs, l) \in Seq(Record) /\ First(rs, l + 1) = Append(First(rs, l), r)
    BY <1>3, <2>2, FirstFacts
  <2>11. Recover(First(rs, l + 1)) = ApplyCommand(Recover(First(rs, l)), r.command)
    <3>1. PICK f : f = First(rs, l)
      OBVIOUS
    <3>2. Recover(Append(f, r)) = ApplyCommand(Recover(f), r.command)
      BY <2>3, <2>10, <3>1, RecoverOneMore
    <3> QED
      BY <2>10, <3>1, <3>2
  <2> QED
    BY <2>1, <2>5, <2>8, <2>9, <2>11
<1> HIDE DEF S
<1>4. Len(rs) \in S
  BY <1>1, <1>2, <1>3, CountUp
<1>5. Len(rs) \in 0..Len(rs) /\ First(rs, Len(rs)) = rs
  BY <1>1, FirstFacts
<1> QED
  BY <1>4, <1>5 DEF S
LEMMA RisingConcat ==
    ASSUME NEW a \in Seq(Record), NEW b \in Seq(Record), NEW n \in Nat, Rising(a, n), Rising(b, n),
           \A i \in 1..Len(a), j \in 1..Len(b) : a[i].id < b[j].id
    PROVE  /\ a \o b \in Seq(Record) /\ Rising(a \o b, n)
           /\ Among(a \o b, Len(a \o b)) = Among(a, Len(a)) \cup Among(b, Len(b))
<1>1. PICK c : c = a \o b
  OBVIOUS
<1>2. PICK x \in Nat, y \in Nat : x = Len(a) /\ y = Len(b)
  BY LenProperties
<1>3. /\ c \in Seq(Record) /\ Len(c) = x + y
      /\ \A i \in 1..(x + y) : c[i] = IF i <= x THEN a[i] ELSE b[i - x]
  BY <1>1, <1>2, ConcatProperties
<1>4. \A i \in 1..x : i \in 1..(x + y) /\ c[i] = a[i]
  BY <1>2, <1>3
<1>5. \A i \in 1..(x + y) : ~(i <= x) => i - x \in 1..y /\ c[i] = b[i - x]
  BY <1>2, <1>3
<1>6. \A j \in 1..y : x + j \in 1..(x + y) /\ c[x + j] = b[j]
  <2> SUFFICES ASSUME NEW j \in 1..y
               PROVE  x + j \in 1..(x + y) /\ c[x + j] = b[j]
    OBVIOUS
  <2>1. x + j \in 1..(x + y) /\ ~(x + j <= x) /\ (x + j) - x = j
    BY <1>2
  <2> QED
    BY <1>5, <2>1
<1>7. ASSUME NEW i \in 1..(x + y), NEW j \in 1..(x + y), i < j
      PROVE  c[i].id < c[j].id
  <2>1. CASE j <= x
    <3>1. i \in 1..x /\ j \in 1..x
      BY <1>2, <1>7, <2>1
    <3> QED
      BY <1>2, <1>4, <1>7, <3>1 DEF Rising
  <2>2. CASE i <= x /\ ~(j <= x)
    <3>1. i \in 1..x
      BY <1>2, <2>2
    <3>2. j - x \in 1..y /\ c[j] = b[j - x]
      BY <1>5, <2>2
    <3> QED
      BY <1>2, <1>4, <3>1, <3>2
  <2>3. CASE ~(i <= x)
    <3>1. ~(j <= x) /\ i - x < j - x
      BY <1>2, <1>7, <2>3
    <3>2. i - x \in 1..y /\ c[i] = b[i - x] /\ j - x \in 1..y /\ c[j] = b[j - x]
      BY <1>5, <2>3, <3>1
    <3> QED
      BY <1>2, <3>1, <3>2 DEF Rising
  <2> QED
    BY <2>1, <2>2, <2>3
<1>8. ASSUME NEW i \in 1..(x + y)
      PROVE  c[i].id \in 1..n
  <2>1. CASE i <= x
    <3>1. i \in 1..x
      BY <1>2, <2>1
    <3> QED
      BY <1>2, <1>4, <3>1 DEF Rising
  <2>2. CASE ~(i <= x)
    BY <1>2, <1>5, <2>2 DEF Rising
  <2> QED
    BY <2>1, <2>2
<1>9. Among(c, x + y) = Among(a, x) \cup Among(b, y)
  <2>1. ASSUME NEW r \in Among(c, x + y)
        PROVE  r \in Among(a, x) \cup Among(b, y)
    <3>1. PICK i \in 1..(x + y) : r = c[i]
      BY DEF Among
    <3>2. i <= x => i \in 1..x
      BY <1>2
    <3> QED
      BY <1>4, <1>5, <3>1, <3>2 DEF Among
  <2>2. ASSUME NEW r \in Among(a, x) \cup Among(b, y)
        PROVE  r \in Among(c, x + y)
    <3>1. CASE r \in Among(a, x)
      <4>1. PICK i \in 1..x : r = a[i]
        BY <3>1 DEF Among
      <4> QED
        BY <1>4, <4>1 DEF Among
    <3>2. CASE r \in Among(b, y)
      <4>1. PICK j \in 1..y : r = b[j]
        BY <3>2 DEF Among
      <4> QED
        BY <1>6, <4>1 DEF Among
    <3> QED
      BY <3>1, <3>2
  <2> QED
    BY <2>1, <2>2
<1>10. Rising(c, n)
  BY <1>3, <1>7, <1>8 DEF Rising
<1> QED
  BY <1>1, <1>2, <1>3, <1>9, <1>10

At(fs, s, i) == s \in DOMAIN fs /\ i \in DOMAIN fs[s].records
Ordered(fs, n) ==
    /\ \A s, i, t, j : At(fs, s, i) /\ At(fs, t, j) /\ (s < t \/ (s = t /\ i < j)) =>
                           fs[s].records[i].id < fs[t].records[j].id
    /\ \A s, i : At(fs, s, i) => fs[s].records[i].id \in 1..n
OnDiskBelow(fs, m) ==
    {r \in OnDisk(fs) : \E s, i : At(fs, s, i) /\ s < m /\ r = fs[s].records[i]}

\* What recovery reads
LEMMA RecordsRise ==
    ASSUME NEW fs, FilesTyped(fs), NEW n \in Nat, Ordered(fs, n), NEW m \in Nat
    PROVE  LET rs == RecordsBelow(fs, m)
           IN  rs \in Seq(Record) /\ Rising(rs, n) /\ Among(rs, Len(rs)) = OnDiskBelow(fs, m)
<1> DEFINE R(l) == RecordsBelow(fs, l)
           S == {l \in 0..m : /\ R(l) \in Seq(Record) /\ Rising(R(l), n)
                              /\ Among(R(l), Len(R(l))) = OnDiskBelow(fs, l)}
<1>1. 0 \in S
  <2>1. RecordsBelow(fs, 0) = <<>>
    BY RecordsOfNone
  <2>2. PICK e : e = <<>>
    OBVIOUS
  <2>3. e \in Seq(Record) /\ Len(e) = 0 /\ 1..0 = {}
    BY <2>2, EmptySeq
  <2>4. Rising(e, n) /\ Among(e, Len(e)) = {}
    BY <2>3 DEF Rising, Among
  <2>5. OnDiskBelow(fs, 0) = {}
    <3>1. \A s \in DOMAIN fs : ~(s < 0)
      BY DEF FilesTyped
    <3> QED
      BY <3>1 DEF OnDiskBelow, At
  <2>6. R(0) = e /\ 0 \in 0..m
    BY <2>1, <2>2
  <2> HIDE DEF R
  <2> QED
    BY <2>3, <2>4, <2>5, <2>6
<1>2. ASSUME NEW l \in 0..m, l # m, l \in S
      PROVE  l + 1 \in S
  <2>1. l \in Nat /\ l + 1 \in 0..m
    BY <1>2
  <2>2. PICK a : a = R(l)
    OBVIOUS
  <2>3. a \in Seq(Record) /\ Rising(a, n) /\ Among(a, Len(a)) = OnDiskBelow(fs, l)
    BY <1>2, <2>2
  <2>4. \A s \in DOMAIN fs : s < l + 1 <=> s < l \/ s = l
    BY <2>1 DEF FilesTyped
  <2>5. CASE l \in DOMAIN fs
    <3>1. PICK b : b = fs[l].records
      OBVIOUS
    <3>2. b \in Seq(Record)
      BY <2>5, <3>1 DEF FilesTyped, Segment
    <3>3. Len(b) \in Nat /\ DOMAIN b = 1..Len(b) /\ \A i \in 1..Len(b) : b[i] \in Record
      BY <3>2, LenProperties, ElementOfSeq
    <3>4. Rising(b, n)
      <4>1. \A i \in 1..Len(b) : At(fs, l, i) /\ b[i] = fs[l].records[i]
        BY <2>5, <3>1, <3>3 DEF At
      <4>2. \A i \in 1..Len(b) : b[i].id \in 1..n
        BY <4>1 DEF Ordered
      <4>3. ASSUME NEW i \in 1..Len(b), NEW j \in 1..Len(b), i < j
            PROVE  b[i].id < b[j].id
        <5>1. At(fs, l, i) /\ At(fs, l, j) /\ b[i] = fs[l].records[i] /\ b[j] = fs[l].records[j]
          BY <4>1
        <5> QED
          BY <4>3, <5>1 DEF Ordered
      <4> QED
        BY <4>2, <4>3 DEF Rising
    <3>5. ASSUME NEW i \in 1..Len(a), NEW j \in 1..Len(b)
          PROVE  a[i].id < b[j].id
      <4>1. a[i] \in OnDiskBelow(fs, l)
        BY <2>3 DEF Among
      <4>2. PICK s, p : At(fs, s, p) /\ s < l /\ a[i] = fs[s].records[p]
        BY <4>1 DEF OnDiskBelow
      <4>3. At(fs, l, j) /\ b[j] = fs[l].records[j]
        BY <2>5, <3>1, <3>3 DEF At
      <4> QED
        BY <4>2, <4>3 DEF Ordered
    <3>6. PICK c : c = a \o b
      OBVIOUS
    <3>7. R(l + 1) = c
      BY <2>1, <2>2, <2>5, <3>1, <3>6, RecordsNext
    <3>8. /\ c \in Seq(Record) /\ Rising(c, n)
          /\ Among(c, Len(c)) = Among(a, Len(a)) \cup Among(b, Len(b))
      BY <2>3, <3>2, <3>4, <3>5, <3>6, RisingConcat
    <3>9. OnDiskBelow(fs, l + 1) = OnDiskBelow(fs, l) \cup Among(b, Len(b))
      <4>1. ASSUME NEW r \in OnDiskBelow(fs, l + 1)
            PROVE  r \in OnDiskBelow(fs, l) \cup Among(b, Len(b))
        <5>1. PICK s, p : At(fs, s, p) /\ s < l + 1 /\ r = fs[s].records[p]
          BY DEF OnDiskBelow
        <5>2. CASE s < l
          BY <5>1, <5>2 DEF OnDiskBelow
        <5>3. CASE s = l
          BY <3>1, <3>3, <5>1, <5>3 DEF At, Among
        <5> QED
          BY <2>4, <5>1, <5>2, <5>3 DEF At
      <4>2. ASSUME NEW r \in OnDiskBelow(fs, l)
            PROVE  r \in OnDiskBelow(fs, l + 1)
        BY <2>4 DEF OnDiskBelow, At
      <4>3. ASSUME NEW r \in Among(b, Len(b))
            PROVE  r \in OnDiskBelow(fs, l + 1)
        <5>1. PICK i \in 1..Len(b) : r = b[i]
          BY DEF Among
        <5>2. At(fs, l, i) /\ r = fs[l].records[i] /\ r \in Record /\ l < l + 1
          BY <2>1, <2>5, <3>1, <3>3, <5>1 DEF At
        <5> QED
          BY <5>2 DEF OnDiskBelow, OnDisk, At
      <4> QED
        BY <4>1, <4>2, <4>3
    <3> QED
      BY <2>1, <2>3, <3>7, <3>8, <3>9
  <2>6. CASE l \notin DOMAIN fs
    <3>1. R(l + 1) = a
      BY <2>1, <2>2, <2>6, RecordsNext
    <3>2. OnDiskBelow(fs, l + 1) = OnDiskBelow(fs, l)
      BY <2>4, <2>6 DEF OnDiskBelow, At
    <3> QED
      BY <2>1, <2>3, <3>1, <3>2
  <2> QED
    BY <2>5, <2>6
<1> HIDE DEF S
<1>3. m \in S
  BY <1>1, <1>2, CountUp
<1> QED
  BY <1>3 DEF S

LEMMA RecoveredIsReplay ==
    ASSUME NEW fs, FilesTyped(fs), NEW n \in Nat, Ordered(fs, n),
           NEW last \in Nat, \A s \in DOMAIN fs : s <= last
    PROVE  OneEach(OnDisk(fs)) /\ Recovered(fs) = Replay(OnDisk(fs), n)
<1>1. PICK rs : rs = RecordsBelow(fs, last + 1)
  OBVIOUS
<1>2. Records(fs) = rs
  BY <1>1, AllRecords
<1>3. last + 1 \in Nat
  OBVIOUS
<1>4. rs \in Seq(Record) /\ Rising(rs, n) /\ Among(rs, Len(rs)) = OnDiskBelow(fs, last + 1)
  BY <1>1, <1>3, RecordsRise
<1>5. OnDiskBelow(fs, last + 1) = OnDisk(fs)
  <2>1. \A s \in DOMAIN fs : s < last + 1
    BY DEF FilesTyped
  <2> QED
    BY <2>1 DEF OnDiskBelow, OnDisk, At
<1>6. OneEach(Among(rs, Len(rs))) /\ Recover(rs) = Replay(Among(rs, Len(rs)), n)
  BY <1>4, RecoverIsReplay
<1> QED
  BY <1>2, <1>4, <1>5, <1>6 DEF Recovered
-----------------------------------------------------------------------------
(* The maps of DurableMap *)

Show == [value : Value, version : Nat] \cup {None}
Shows == [Key -> Show]
ShownIn(d) == [k \in Key |-> Shown(d[k])]

LEMMA ShownTyped ==
    ASSUME NEW a \in Entry
    PROVE  Shown(a) \in Show /\ (Shown(a) = None <=> a = None)
BY NoneAssumption DEF Shown, Show, Entry, KeyValue

LEMMA SameShown ==
    ASSUME NEW a \in Entry, NEW b \in Entry, SameKeyValue(a, b)
    PROVE  Shown(a) = Shown(b)
BY DEF SameKeyValue, Shown

LEMMA ShownInTyped ==
    ASSUME NEW d \in Data
    PROVE  ShownIn(d) \in Shows
BY ShownTyped DEF ShownIn, Shows, Data, Entry

LEMMA AgreeShown ==
    ASSUME NEW d \in Data, NEW e \in Data, NEW X, Agree(d, e, X), NEW k \in Key, k \notin X
    PROVE  ShownIn(d)[k] = ShownIn(e)[k]
<1>1. d[k] \in Entry /\ e[k] \in Entry /\ SameKeyValue(d[k], e[k])
  BY DEF Data, Entry, Agree
<1> QED
  BY <1>1, SameShown DEF ShownIn

LEMMA CommandFields ==
    ASSUME NEW c \in Command
    PROVE  /\ c.key \in Key /\ (c.type # "delete" => c.value \in Value)
           /\ c \in Durable!Command
BY DEF Command, Put, Delete, Durable!Command

LEMMA AfterTyped ==
    ASSUME NEW m \in Shows, NEW c \in Command
    PROVE  Durable!After(m, c) \in Shows
<1>1. PICK x : x = m[c.key]
  OBVIOUS
<1>2. x \in Show /\ c.key \in Key
  BY <1>1, CommandFields DEF Shows
<1>3. PICK n : n = IF x = None THEN 1 ELSE x.version + 1
  OBVIOUS
<1>4. n \in Nat
  BY <1>2, <1>3 DEF Show
<1>5. PICK y : y = IF c.type = "delete" THEN None ELSE [value |-> c.value, version |-> n]
  OBVIOUS
<1>6. y \in Show
  BY <1>4, <1>5, CommandFields DEF Show
<1>7. Durable!After(m, c) = [m EXCEPT ![c.key] = y]
  BY <1>1, <1>3, <1>5 DEF Durable!After
<1> QED
  BY <1>6, <1>7 DEF Shows

\* Applying a command to the entries is applying it to what they show.
LEMMA ShownAfter ==
    ASSUME NEW d \in Data, NEW c \in Command
    PROVE  ShownIn(ApplyCommand(d, c)) = Durable!After(ShownIn(d), c)
<1>1. PICK kv : kv = d[c.key]
  OBVIOUS
<1>2. kv \in Entry /\ c.key \in Key
  BY <1>1, CommandFields DEF Data, Entry
<1>3. Shown(AfterCommand(kv, c)) =
          IF c.type = "delete" THEN None
          ELSE [value |-> c.value,
                version |-> IF Shown(kv) = None THEN 1 ELSE Shown(kv).version + 1]
  <2>1. Shown(kv) = None <=> kv = None
    BY <1>2, ShownTyped
  <2>2. CASE c.type = "delete"
    BY <2>2 DEF AfterCommand, Shown
  <2>3. CASE c.type # "delete" /\ kv = None
    <3>1. AfterCommand(kv, c) = [value |-> c.value, version |-> 1, ttl |-> FALSE, expired |-> FALSE]
      BY <2>3 DEF AfterCommand
    <3>2. AfterCommand(kv, c) \in KeyValue
      BY <2>3, <3>1, CommandFields DEF KeyValue
    <3>3. AfterCommand(kv, c) # None
      BY <3>2, NoneAssumption
    <3> QED
      BY <2>1, <2>3, <3>1, <3>3 DEF Shown
  <2>4. CASE c.type # "delete" /\ kv # None
    <3>1. kv \in KeyValue /\ kv.version + 1 \in Nat
      BY <1>2, <2>4 DEF Entry, KeyValue
    <3>2. PICK a : a = AfterCommand(kv, c)
      OBVIOUS
    <3>3. a = [kv EXCEPT !.value = c.value, !.version = kv.version + 1]
      BY <2>4, <3>2 DEF AfterCommand
    <3>4. a \in KeyValue /\ a.value = c.value /\ a.version = kv.version + 1
      BY <2>4, <3>1, <3>3, CommandFields DEF KeyValue
    <3>5. a # None
      BY <3>4, NoneAssumption
    <3>6. Shown(kv).version = kv.version
      BY <2>4 DEF Shown
    <3> QED
      BY <2>1, <2>4, <3>2, <3>4, <3>5, <3>6 DEF Shown
  <2> QED
    BY <2>2, <2>3, <2>4
<1>4. PICK y : y = Shown(AfterCommand(kv, c))
  OBVIOUS
<1>5. Durable!After(ShownIn(d), c) = [ShownIn(d) EXCEPT ![c.key] = y]
  BY <1>1, <1>2, <1>3, <1>4 DEF Durable!After, ShownIn
<1>6. ShownIn(ApplyCommand(d, c)) = [ShownIn(d) EXCEPT ![c.key] = y]
  BY <1>1, <1>2, <1>4 DEF ApplyCommand, ShownIn, Data
<1> QED
  BY <1>5, <1>6

AfterStep == [m \in Shows |-> [c \in Command |-> Durable!After(m, c)]]

LEMMA AfterAllIsFold ==
    ASSUME NEW m \in Shows, NEW commands \in Seq(Command)
    PROVE  /\ FoldTyped(Shows, Command, AfterStep, m, commands)
           /\ Durable!AfterAll(m, commands) = FoldBy(AfterStep, m, commands)
<1>1. AfterStep \in [Shows -> [Command -> Shows]]
  <2>1. \A x \in Shows : \A c \in Command : Durable!After(x, c) \in Shows
    BY AfterTyped
  <2> QED
    BY <2>1, Zenon DEF AfterStep
<1>2. FoldTyped(Shows, Command, AfterStep, m, commands)
  BY <1>1 DEF FoldTyped
<1>3. \A x \in Shows, c \in Command : AfterStep[x][c] = Durable!After(x, c)
  BY DEF AfterStep
<1> DEFINE iter[t \in SUBSET DOMAIN commands] ==
               IF t = {} THEN m
               ELSE Durable!After(iter[t \ {Durable!Max(t)}], commands[Durable!Max(t)])
<1>4. Durable!AfterAll(m, commands) = iter[DOMAIN commands]
  BY Zenon DEF Durable!AfterAll, Durable!FoldLeft, Durable!MapThenFoldSet
<1>5. \A t : Durable!Max(t) = Max(t)
  BY Zenon DEF Durable!Max, Max
<1> HIDE DEF AfterStep
<1>6. PICK F : IsWitness(F, Shows, Command, AfterStep, m, commands)
  BY <1>2, FoldWitness
<1>7. F = [t \in SUBSET DOMAIN commands |->
               IF t = {} THEN m
               ELSE Durable!After(F[t \ {Durable!Max(t)}], commands[Durable!Max(t)])]
  BY <1>3, <1>5, <1>6 DEF IsWitness
<1>8. iter = [t \in SUBSET DOMAIN commands |->
                  IF t = {} THEN m
                  ELSE Durable!After(iter[t \ {Durable!Max(t)}], commands[Durable!Max(t)])]
  BY <1>7, Zenon
<1> HIDE DEF iter
<1>9. FoldsInside(iter, Shows, Command, AfterStep, m, commands)
  BY <1>3, <1>5, <1>8 DEF FoldsInside
<1>10. iter[DOMAIN commands] = FoldBy(AfterStep, m, commands)
  BY <1>2, <1>9, FoldIs
<1> QED
  BY <1>2, <1>4, <1>10

AfterSomeStep(commands, done) ==
    [m \in Shows |-> [i \in Nat |-> IF i \in done THEN Durable!After(m, commands[i]) ELSE m]]

LEMMA AfterSomeIsFold ==
    ASSUME NEW m \in Shows, NEW commands \in Seq(Command), NEW done \in SUBSET (1..Len(commands))
    PROVE  /\ AfterSomeStep(commands, done) \in [Shows -> [Nat -> Shows]]
           /\ Durable!AfterSome(m, commands, done) =
                  FoldBy(AfterSomeStep(commands, done), m, Count(Len(commands)))
<1>1. PICK step : step = AfterSomeStep(commands, done)
  OBVIOUS
<1>2. step \in [Shows -> [Nat -> Shows]]
  <2>1. ASSUME NEW x \in Shows, NEW i \in Nat
        PROVE  (IF i \in done THEN Durable!After(x, commands[i]) ELSE x) \in Shows
    <3>1. i \in done => commands[i] \in Command
      BY ElementOfSeq
    <3> QED
      BY <3>1, AfterTyped
  <2> QED
    BY <1>1, <2>1, Zenon DEF AfterSomeStep
<1>3. Len(commands) \in Nat
  BY LenProperties
<1>4. PICK u : u = Count(Len(commands))
  OBVIOUS
<1>5. FoldTyped(Shows, Nat, step, m, u)
  BY <1>2, <1>3, <1>4, CountNext DEF FoldTyped
<1>6. \A x \in Shows, i \in Nat :
          step[x][i] = IF i \in done THEN Durable!After(x, commands[i]) ELSE x
  BY <1>1 DEF AfterSomeStep
<1> DEFINE iter[t \in SUBSET DOMAIN u] ==
               IF t = {} THEN m
               ELSE IF u[Durable!Max(t)] \in done
                      THEN Durable!After(iter[t \ {Durable!Max(t)}], commands[u[Durable!Max(t)]])
                      ELSE iter[t \ {Durable!Max(t)}]
<1>7. Durable!AfterSome(m, commands, done) = iter[DOMAIN u]
  <2>1. u = [i \in 1..Len(commands) |-> i]
    BY <1>4 DEF Count
  <2> QED
    BY <2>1, Zenon DEF Durable!AfterSome, Durable!FoldLeft, Durable!MapThenFoldSet
<1>8. \A t : Durable!Max(t) = Max(t)
  BY Zenon DEF Durable!Max, Max
<1>9. PICK F : IsWitness(F, Shows, Nat, step, m, u)
  BY <1>5, FoldWitness
<1>10. F = [t \in SUBSET DOMAIN u |->
               IF t = {} THEN m
               ELSE IF u[Durable!Max(t)] \in done
                      THEN Durable!After(F[t \ {Durable!Max(t)}], commands[u[Durable!Max(t)]])
                      ELSE F[t \ {Durable!Max(t)}]]
  BY <1>6, <1>8, <1>9, ZenonT(30) DEF IsWitness
<1>11. iter = [t \in SUBSET DOMAIN u |->
                 IF t = {} THEN m
                 ELSE IF u[Durable!Max(t)] \in done
                        THEN Durable!After(iter[t \ {Durable!Max(t)}], commands[u[Durable!Max(t)]])
                        ELSE iter[t \ {Durable!Max(t)}]]
  BY <1>10, Zenon
<1> HIDE DEF iter
<1>12. FoldsInside(iter, Shows, Nat, step, m, u)
  BY <1>6, <1>8, <1>11, ZenonT(30) DEF FoldsInside
<1>13. iter[DOMAIN u] = FoldBy(step, m, u)
  BY <1>5, <1>12, FoldIs
<1> QED
  BY <1>1, <1>2, <1>4, <1>7, <1>13
-----------------------------------------------------------------------------
(* A write under way *)

LEMMA OrderedAlways ==
    ASSUME Types, InOrder, IdsAppended
    PROVE  /\ Ordered(files, appended) /\ OneEach(OnDisk(files))
           /\ Recovered(files) = Replay(OnDisk(files), appended)
<1>1. Ordered(files, appended)
  BY DEF InOrder, IdsAppended, Ordered, Place, At, Id
<1>2. FilesTyped(files) /\ appended \in Nat /\ current \in Nat /\ \A s \in DOMAIN files : s <= current
  BY DEF Types, WALTypes, MemoryTypes, FilesTyped
<1> QED
  BY <1>1, <1>2, RecoveredIsReplay

LEMMA OrderedNext ==
    ASSUME Types', InOrder', IdsAppended'
    PROVE  /\ Ordered(files', appended') /\ OneEach(OnDisk(files'))
           /\ Recovered(files') = Replay(OnDisk(files'), appended')
<1>1. Ordered(files', appended')
  BY DEF InOrder, IdsAppended, Ordered, Place, At, Id
<1>2. PICK last : last = current'
  OBVIOUS
<1>3. FilesTyped(files') /\ appended' \in Nat /\ last \in Nat /\ \A s \in DOMAIN files' : s <= last
  BY <1>2 DEF Types, WALTypes, MemoryTypes, FilesTyped
<1> QED
  BY <1>1, <1>3, RecoveredIsReplay

\* What was recorded, or was lost with records of keys in X only
LostOnly(L, M, X) == M \subseteq L /\ \A r \in L : r \notin M => r.command.key \in X

LEMMA ReplayLess ==
    ASSUME NEW L, OneEach(L), NEW M, NEW X, LostOnly(L, M, X), NEW n \in Nat
    PROVE  OneEach(M) /\ Agree(Replay(L, n), Replay(M, n), X)
<1>1. OneEach(M)
  BY DEF LostOnly, OneEach
<1>2. ASSUME NEW k \in Key \ X
      PROVE  Replay(L, n)[k] = Replay(M, n)[k]
  <2>1. SameFor(k, L, M, n)
    BY <1>2 DEF SameFor, LostOnly
  <2> QED
    BY <1>1, <2>1, ReplaySame
<1> QED
  BY <1>1, <1>2 DEF Agree, SameKeyValue

\* The records of a write have the last ids, in the order of its commands, and were not there when it
\* began, at b: up to b the log tells of memory.
WriteInv(w, d, L, n, X, b) ==
    /\ b + Len(w.ids) = n
    /\ \A j \in 1..Len(w.ids) : w.ids[j] = b + j
    /\ Len(w.ids) + Len(w.todo) = Len(w.commands)
    /\ \A j \in 1..Len(w.todo) : w.todo[j] = w.commands[Len(w.ids) + j]
    /\ \A r \in L, j \in 1..Len(w.ids) : r.id = b + j => r.command = w.commands[j]
    /\ Agree(d, Replay(L, b), X)

ReplayInv ==
    /\ mode = "down" => survived = Recovered(files)
    /\ writing # None =>
           \E b \in Nat : WriteInv(writing, data, OnDisk(files), appended, unlogged, b)

LEMMA ReplayKept ==
    ASSUME Types, Types', InOrder, IdsAppended, ReplayInv, mode' = "up",
           LostOnly(OnDisk(files), OnDisk(files'), unlogged'), unlogged \subseteq unlogged',
           Agree(data', data, unlogged'), appended' = appended,
           writing' # None => /\ writing # None
                              /\ writing'.ids = writing.ids /\ writing'.todo = writing.todo
                              /\ writing'.commands = writing.commands
    PROVE  ReplayInv'
<1> SUFFICES ASSUME writing' # None
             PROVE  \E b \in Nat : WriteInv(writing', data', OnDisk(files'), appended', unlogged', b)
  BY DEF ReplayInv
<1>1. PICK w, w2, d, d2, L, M, X, Y :
          /\ w = writing /\ w2 = writing' /\ d = data /\ d2 = data' /\ X = unlogged /\ Y = unlogged'
          /\ L = OnDisk(files) /\ M = OnDisk(files')
  OBVIOUS
<1>2. PICK b \in Nat : WriteInv(w, d, L, appended, X, b)
  BY <1>1 DEF ReplayInv
<1>3. OneEach(L)
  BY <1>1, OrderedAlways
<1>4. Agree(Replay(L, b), Replay(M, b), Y) /\ M \subseteq L
  BY <1>1, <1>3, ReplayLess DEF LostOnly
<1>5. Agree(d2, Replay(M, b), Y)
  <2>1. Agree(d, Replay(L, b), Y)
    BY <1>1, <1>2, AgreeLess DEF WriteInv
  <2>2. Agree(d2, Replay(L, b), Y)
    BY <1>1, <2>1, AgreeSteps
  <2> QED
    BY <1>4, <2>2, AgreeSteps
<1>6. w2.ids = w.ids /\ w2.todo = w.todo /\ w2.commands = w.commands
  BY <1>1
<1>7. WriteInv(w2, d2, M, appended, Y, b)
  BY <1>2, <1>4, <1>5, <1>6 DEF WriteInv
<1> QED
  BY <1>1, <1>7

LEMMA ReplayStarted ==
    ASSUME Types, Types', InOrder, IdsAppended, MemInv, Free, NEW commands \in Seq(Command), NEW ttl,
           StartWrite(commands, ttl), unlogged \subseteq unlogged', files' = files, mode' = mode,
           appended' = appended, Agree(data', data, unlogged')
    PROVE  ReplayInv'
<1>1. PICK w, d, d2, L, X, Y, b, rec :
          /\ w = writing' /\ d = data /\ d2 = data' /\ X = unlogged /\ Y = unlogged'
          /\ L = OnDisk(files) /\ b = appended /\ rec = Recovered(files)
  OBVIOUS
<1>2. rec = Replay(L, b) /\ b \in Nat
  BY <1>1, OrderedAlways DEF Types, MemoryTypes
<1>3. Agree(d2, Replay(L, b), Y)
  <2>1. Agree(d, rec, X)
    BY <1>1 DEF MemInv, Free
  <2>2. Agree(d, rec, Y)
    BY <1>1, <2>1, AgreeLess
  <2> QED
    BY <1>1, <1>2, <2>2, AgreeSteps
<1>4. w.ids = <<>> /\ w.todo = commands /\ w.commands = commands
  BY <1>1 DEF StartWrite
<1>5. PICK l \in Nat : l = Len(commands)
  BY LenProperties
<1>6. Len(w.ids) = 0 /\ Len(w.todo) = l /\ Len(w.commands) = l
  BY <1>4, <1>5, EmptySeq
<1>7. WriteInv(w, d2, L, b, Y, b)
  <2>1. b + 0 = b /\ 0 + l = l /\ 1..0 = {} /\ \A j \in 1..l : 0 + j = j
    BY <1>2
  <2> QED
    BY <1>3, <1>4, <1>6, <2>1 DEF WriteInv
<1>8. mode' = "up"
  BY DEF Free
<1> QED
  BY <1>1, <1>2, <1>7, <1>8 DEF ReplayInv

\* One more record
LEMMA OnDiskGrows ==
    ASSUME Types, Types', WriteRecord
    PROVE  /\ OnDisk(files) \subseteq OnDisk(files')
           /\ \A r \in OnDisk(files') : \/ r \in OnDisk(files)
                                        \/ r.id = appended + 1 /\ r.command = Head(writing.todo)
<1>1. PICK name \in Nat, n \in Nat :
          /\ \A s, i : Place(s, i)' <=> Place(s, i) \/ (s = name /\ i = n)
          /\ Id(name, n)' = appended + 1
          /\ \A s, i : Place(s, i) => files'[s].records[i] = files[s].records[i]
          /\ files'[name].records[n].command = Head(writing.todo)
  BY AppendFacts
<1>2. ASSUME NEW r \in OnDisk(files)
      PROVE  r \in OnDisk(files')
  <2>1. PICK s, i : r \in Record /\ Place(s, i) /\ r = files[s].records[i]
    BY DEF OnDisk, Place
  <2>2. Place(s, i)' /\ r = files'[s].records[i]
    BY <1>1, <2>1
  <2> QED
    BY <2>1, <2>2 DEF OnDisk, Place
<1>3. ASSUME NEW r \in OnDisk(files')
      PROVE  r \in OnDisk(files) \/ (r.id = appended + 1 /\ r.command = Head(writing.todo))
  <2>1. PICK s, i : r \in Record /\ Place(s, i)' /\ r = files'[s].records[i]
    BY DEF OnDisk, Place
  <2>2. CASE Place(s, i)
    <3>1. r = files[s].records[i]
      BY <1>1, <2>1, <2>2
    <3> QED
      BY <2>1, <2>2, <3>1 DEF OnDisk, Place
  <2>3. CASE s = name /\ i = n
    BY <1>1, <2>1, <2>3 DEF Id
  <2> QED
    BY <1>1, <2>1, <2>2, <2>3
<1> QED
  BY <1>2, <1>3

LEMMA ReplayLogged ==
    ASSUME Types, Types', InOrder, IdsAppended, InOrder', IdsAppended', ReplayInv, WriteRecord
    PROVE  ReplayInv'
<1>1. PICK w, w2, d, L, M, X, n, h :
          /\ w = writing /\ w2 = writing' /\ d = data /\ X = unlogged /\ n = appended
          /\ L = OnDisk(files) /\ M = OnDisk(files') /\ h = Head(w.todo)
  OBVIOUS
<1>2. /\ w \in Write /\ w # None /\ w.todo # <<>> /\ n \in Nat
      /\ w2 = [w EXCEPT !.todo = Tail(w.todo), !.ids = Append(w.ids, n + 1)]
      /\ data' = d /\ unlogged' = X /\ appended' = n + 1
      /\ writing' # None => w2 \in Write
  BY <1>1 DEF WriteRecord, Types, MemoryTypes
<1>3. PICK b \in Nat : WriteInv(w, d, L, n, X, b)
  BY <1>1, <1>2 DEF ReplayInv
<1>4. OneEach(L) /\ OneEach(M) /\ L \subseteq M
  BY <1>1, OrderedAlways, OrderedNext, OnDiskGrows
<1>5. \A r \in M : r \in L \/ (r.id = n + 1 /\ r.command = h)
  BY <1>1, OnDiskGrows
<1>6. PICK x \in Nat, y \in Nat, z \in Nat : x = Len(w.ids) /\ y = Len(w.todo) /\ z = Len(w.commands)
  BY <1>2, LenProperties DEF Write
<1>7. b + x = n /\ x + y = z
  BY <1>3, <1>6 DEF WriteInv
<1>8. /\ w2.ids = Append(w.ids, n + 1) /\ w2.todo = Tail(w.todo) /\ w2.commands = w.commands
  BY <1>2 DEF Write
<1>9. /\ Len(w2.ids) = x + 1
      /\ \A j \in 1..x : w2.ids[j] = w.ids[j]
      /\ w2.ids[x + 1] = n + 1
  <2>1. w.ids \in Seq(Nat) /\ n + 1 \in Nat
    BY <1>2 DEF Write
  <2> QED
    BY <1>6, <1>8, <2>1, AppendProperties
<1>10. /\ y # 0 /\ Len(w2.todo) = y - 1 /\ h = w.todo[1]
       /\ \A j \in 1..(y - 1) : w2.todo[j] = w.todo[j + 1]
  <2>1. w.todo \in Seq(Command)
    BY <1>2 DEF Write
  <2> QED
    BY <1>1, <1>2, <1>6, <1>8, <2>1, EmptySeq, HeadTailProperties
<1>11. Agree(d, Replay(M, b), X)
  <2>1. ASSUME NEW k \in Key
        PROVE  Replay(L, b)[k] = Replay(M, b)[k]
    <3>1. ~(n + 1 <= b)
      BY <1>7
    <3>2. SameFor(k, L, M, b)
      BY <1>4, <1>5, <3>1 DEF SameFor
    <3> QED
      BY <1>4, <3>2, ReplaySame
  <2>2. Agree(Replay(L, b), Replay(M, b), X)
    BY <2>1 DEF Agree, SameKeyValue
  <2>3. Agree(d, Replay(L, b), X)
    BY <1>3 DEF WriteInv
  <2> QED
    BY <2>2, <2>3, AgreeSteps
<1>12. b + (x + 1) = n + 1 /\ (x + 1) + (y - 1) = z
  BY <1>7
<1>13. \A j \in 1..(x + 1) : w2.ids[j] = b + j
  <2> SUFFICES ASSUME NEW j \in 1..(x + 1)
               PROVE  w2.ids[j] = b + j
    OBVIOUS
  <2>1. CASE j = x + 1
    BY <1>9, <1>12, <2>1
  <2>2. CASE j # x + 1
    <3>1. j \in 1..x
      BY <2>2
    <3>2. w.ids[j] = b + j
      BY <1>3, <1>6, <3>1 DEF WriteInv
    <3> QED
      BY <1>9, <3>1, <3>2
  <2> QED
    BY <2>1, <2>2
<1>14. \A j \in 1..y : w.todo[j] = w.commands[x + j]
  BY <1>3, <1>6 DEF WriteInv
<1>15. \A j \in 1..(y - 1) : w2.todo[j] = w2.commands[(x + 1) + j]
  <2> SUFFICES ASSUME NEW j \in 1..(y - 1)
               PROVE  w2.todo[j] = w2.commands[(x + 1) + j]
    OBVIOUS
  <2>1. j + 1 \in 1..y /\ (x + 1) + j = x + (j + 1)
    OBVIOUS
  <2>2. w.todo[j + 1] = w.commands[x + (j + 1)]
    BY <1>14, <2>1
  <2> QED
    BY <1>8, <1>10, <2>1, <2>2
<1>16. ASSUME NEW r \in M, NEW j \in 1..(x + 1), r.id = b + j
       PROVE  r.command = w2.commands[j]
  <2>1. CASE j = x + 1
    <3>1. h = w.commands[x + 1]
      <4>1. 1 \in 1..y
        BY <1>10
      <4> QED
        BY <1>10, <1>14, <4>1
    <3>2. r.id = n + 1
      BY <1>12, <1>16, <2>1
    <3>3. r \notin L
      <4>1. \A q \in L : q.id <= n
        <5>1. ASSUME NEW q \in OnDisk(files)
              PROVE  q.id \in 1..appended
          <6>1. PICK s, i : Place(s, i) /\ q = files[s].records[i]
            BY DEF OnDisk, Place
          <6> QED
            BY <6>1 DEF IdsAppended, Id
        <5> QED
          BY <1>1, <1>2, <5>1
      <4>2. ~(n + 1 <= n)
        BY <1>2
      <4> QED
        BY <3>2, <4>1, <4>2
    <3> QED
      BY <1>5, <1>8, <2>1, <3>1, <3>3
  <2>2. CASE j # x + 1
    <3>1. j \in 1..x
      BY <2>2
    <3>2. b + j # n + 1
      BY <1>7, <3>1
    <3>3. r \in L
      BY <1>5, <1>16, <3>2
    <3> QED
      BY <1>3, <1>6, <1>8, <1>16, <3>1, <3>3 DEF WriteInv
  <2> QED
    BY <2>1, <2>2
<1>17. Len(w2.commands) = z
  BY <1>6, <1>8
<1>18. WriteInv(w2, d, M, n + 1, X, b)
  BY <1>9, <1>10, <1>11, <1>12, <1>13, <1>15, <1>16, <1>17 DEF WriteInv
<1>19. mode' # "down"
  BY <1>1, <1>2 DEF WriteRecord, Types, MemoryTypes
<1> QED
  BY <1>1, <1>2, <1>18, <1>19 DEF ReplayInv
LEMMA SyncOnDisk ==
    ASSUME Types, WriteSync
    PROVE  OnDisk(files') = OnDisk(files)
<1>1. FilesTyped(files) /\ current \in DOMAIN files /\ files[current] \in Segment
  BY SyncedFile DEF Types, WALTypes, FilesTyped
<1>2. files' = [files EXCEPT ![current].synced = Len(files[current].records)]
  BY DEF WriteSync, SyncWAL, Fsynced
<1>3. /\ DOMAIN files' = DOMAIN files
      /\ \A s \in DOMAIN files : files'[s].records = files[s].records
  BY <1>1, <1>2 DEF FilesTyped, Segment
<1> QED
  BY <1>3 DEF OnDisk

LEMMA TruncateLoses ==
    ASSUME Types, RemoveNextSegment
    PROVE  /\ LostOnly(OnDisk(files), OnDisk(files'), unlogged')
           /\ \A s, i : Place(s, i) => \/ Place(s, i)' /\ files'[s] = files[s]
                                      \/ files[s].records[i].command.key \in unlogged'
<1>1. PICK gone \in DOMAIN files :
          /\ files' = [t \in DOMAIN files \ {gone} |-> files[t]]
          /\ unlogged' = unlogged \cup {r.command.key : r \in ToSet(files[gone].records)}
  BY DEF RemoveNextSegment, RemoveSegment, SegmentsAbove
<1>2. OnDisk(files') \subseteq OnDisk(files)
  BY <1>1 DEF OnDisk
<1>3. ASSUME NEW s, NEW i, Place(s, i)
      PROVE  \/ Place(s, i)' /\ files'[s] = files[s]
             \/ files[s].records[i].command.key \in unlogged'
  <2>1. CASE s # gone
    BY <1>1, <1>3, <2>1 DEF Place
  <2>2. CASE s = gone
    <3>1. files[s].records[i] \in ToSet(files[gone].records)
      BY <1>3, <2>2 DEF ToSet, Place
    <3> QED
      BY <1>1, <3>1
  <2> QED
    BY <2>1, <2>2
<1>4. ASSUME NEW r \in OnDisk(files), r \notin OnDisk(files')
      PROVE  r.command.key \in unlogged'
  <2>1. PICK s, i : r \in Record /\ Place(s, i) /\ r = files[s].records[i]
    BY DEF OnDisk, Place
  <2>2. ~(Place(s, i)' /\ files'[s] = files[s])
    BY <1>4, <2>1 DEF OnDisk, Place
  <2> QED
    BY <1>3, <2>1, <2>2
<1> QED
  BY <1>2, <1>3, <1>4 DEF LostOnly
LEMMA ReplayInvStep ==
    ASSUME Types, Types', LogInv, LogInv', MemInv, ReplayInv, [Next]_vars
    PROVE  ReplayInv'
<1>1. InOrder /\ IdsAppended /\ InOrder' /\ IdsAppended'
  BY DEF LogInv
<1>2. ASSUME OnDisk(files') = OnDisk(files)
      PROVE  LostOnly(OnDisk(files), OnDisk(files'), unlogged')
  BY <1>2 DEF LostOnly
<1>3. CASE Quiet
  BY <1>1, <1>2, <1>3, ReplayKept DEF Quiet
<1>4. CASE StartsWrite
  BY <1>1, <1>4, ReplayStarted DEF StartsWrite, Free
<1>5. CASE WriteRecord
  BY <1>1, <1>5, ReplayLogged
<1>6. CASE WriteSync
  <2>1. /\ data' = data /\ unlogged' = unlogged /\ mode' = mode /\ appended' = appended
        /\ writing # None /\ writing' = [writing EXCEPT !.synced = TRUE]
    BY <1>6 DEF WriteSync, historyVars
  <2>2. writing \in Write /\ mode' = "up"
    BY <2>1 DEF Types, MemoryTypes
  <2>3. /\ writing'.ids = writing.ids /\ writing'.todo = writing.todo
        /\ writing'.commands = writing.commands
    BY <2>1, <2>2 DEF Write
  <2>4. OnDisk(files') = OnDisk(files)
    BY <1>6, SyncOnDisk
  <2>5. Agree(data', data, unlogged')
    BY <2>1, AgreeSelf
  <2> QED
    BY <1>1, <1>2, <2>1, <2>2, <2>3, <2>4, <2>5, ReplayKept
<1>7. CASE FinishWrite
  BY <1>7 DEF FinishWrite, Types, MemoryTypes, ReplayInv
<1>8. CASE RemoveNextSegment
  <2>1. /\ data' = data /\ writing' = writing /\ mode' = "up" /\ unlogged \subseteq unlogged'
        /\ appended' = appended
    BY <1>8 DEF RemoveNextSegment
  <2>2. Agree(data', data, unlogged')
    BY <2>1, AgreeSelf
  <2> QED
    BY <1>1, <1>8, <2>1, <2>2, TruncateLoses, ReplayKept
<1>9. CASE Close
  BY <1>9 DEF Close, LoseMemory, ReplayInv, walVars
<1>10. CASE Crash
  <2>1. writing' = None /\ survived' = Recovered(files')
    BY <1>10 DEF Crash, LoseMemory
  <2> QED
    BY <2>1 DEF ReplayInv
<1>11. CASE Restart
  BY <1>11 DEF Restart, Types, MemoryTypes, ReplayInv
<1>12. CASE UNCHANGED vars
  BY <1>12 DEF ReplayInv, vars, walVars, historyVars
<1> QED
  BY <1>3, <1>4, <1>5, <1>6, <1>7, <1>8, <1>9, <1>10, <1>11, <1>12, StepKinds
-----------------------------------------------------------------------------
(* The steps of DurableMap *)

Underway == IF writing = None THEN <<>> ELSE writing.commands
Doubtful == unlogged \cup UnsyncedKeys
SameShownOutside(a, b, X) == \A k \in Key \ X : ShownIn(a)[k] = ShownIn(b)[k]

LEMMA ChangeRefines ==
    ASSUME mode = "up", mode' = "up", Underway' = Underway, Doubtful \subseteq Doubtful',
           SameShownOutside(data', data, Doubtful')
    PROVE  Durable!ChangeUnlogged
BY DEF Underway, Doubtful, SameShownOutside, ShownIn, Durable!ChangeUnlogged, Durable!Disturb

LEMMA BeginRefines ==
    ASSUME mode = "up", mode' = "up", Underway = <<>>, Underway' # <<>>,
           \A i \in DOMAIN Underway' : Underway'[i] \in Durable!Command,
           Doubtful \subseteq Doubtful', SameShownOutside(data', data, Doubtful')
    PROVE  Durable!Begin
<1>1. Durable!ToSet(Underway') \subseteq Durable!Command
  BY DEF Durable!ToSet
<1> QED
  BY <1>1 DEF Underway, Doubtful, SameShownOutside, ShownIn, Durable!Begin, Durable!Disturb

LEMMA FinishRefines ==
    ASSUME mode = "up", mode' = "up", Underway # <<>>, Underway' = <<>>,
           ShownIn(data') = Durable!AfterAll(ShownIn(data), Underway),
           Doubtful \subseteq Doubtful',
           Doubtful' \subseteq Doubtful \cup Durable!KeysOf(Durable!Front(Underway))
    PROVE  Durable!Finish
BY DEF Underway, Doubtful, ShownIn, Durable!Finish

LEMMA SettleRefines ==
    ASSUME mode = "up", mode' = "up", Underway' = Underway, data' = data, Doubtful' \subseteq Doubtful
    PROVE  Durable!Settle
BY DEF Underway, Doubtful, Durable!Settle

LEMMA CrashRefines ==
    ASSUME mode = "up", mode' = "down", Underway' = <<>>,
           Doubtful' \subseteq Doubtful \cup Durable!KeysOf(Underway),
           NEW done \in SUBSET DOMAIN Underway,
           \A k \in Key \ Doubtful :
               ShownIn(survived')[k] = Durable!AfterSome(ShownIn(data), Underway, done)[k]
    PROVE  Durable!Crash
BY DEF Underway, Doubtful, ShownIn, Durable!Crash

LEMMA RestartRefines ==
    ASSUME mode = "down", mode' = "up", Underway' = Underway, Doubtful' = Doubtful,
           data' = survived
    PROVE  Durable!Restart
BY DEF Underway, Doubtful, Durable!Restart
LEMMA AfterAt ==
    ASSUME NEW m \in Shows, NEW c \in Command, NEW k \in Key
    PROVE  /\ c.key # k => Durable!After(m, c)[k] = m[k]
           /\ c.key = k => Durable!After(m, c)[k] =
                               IF c.type = "delete" THEN None
                               ELSE [value |-> c.value,
                                     version |-> IF m[k] = None THEN 1 ELSE m[k].version + 1]
BY CommandFields DEF Durable!After, Shows

LEMMA AfterAgrees ==
    ASSUME NEW m \in Shows, NEW p \in Shows, NEW c \in Command, NEW k \in Key, m[k] = p[k]
    PROVE  Durable!After(m, c)[k] = Durable!After(p, c)[k]
<1>1. PICK x : x = m[k] /\ x = p[k]
  OBVIOUS
<1>2. CASE c.key # k
  BY <1>2, AfterAt
<1>3. CASE c.key = k
  <2>1. PICK y : y = IF c.type = "delete" THEN None
                     ELSE [value |-> c.value, version |-> IF x = None THEN 1 ELSE x.version + 1]
    OBVIOUS
  <2>2. Durable!After(m, c)[k] = y
    BY <1>1, <1>3, <2>1, AfterAt
  <2>3. Durable!After(p, c)[k] = y
    BY <1>1, <1>3, <2>1, AfterAt
  <2> QED
    BY <2>2, <2>3
<1> QED
  BY <1>2, <1>3

\* A write all of whose commands take effect
LEMMA ShownAfterAll ==
    ASSUME NEW d \in Data, NEW commands \in Seq(Command)
    PROVE  ShownIn(Apply(d, commands)) = Durable!AfterAll(ShownIn(d), commands)
<1> DEFINE S == {n \in 0..Len(commands) :
                    ShownIn(Apply(d, First(commands, n))) =
                        Durable!AfterAll(ShownIn(d), First(commands, n))}
<1>1. Len(commands) \in Nat /\ ShownIn(d) \in Shows
  BY LenProperties, ShownInTyped
<1>2. 0 \in S
  <2>1. 0 \in 0..Len(commands)
    BY <1>1
  <2>2. First(commands, 0) = <<>> /\ <<>> \in Seq(Command)
    BY <2>1, FirstFacts, EmptySeq
  <2>3. Apply(d, <<>>) = d
    BY ApplyNone
  <2>4. Durable!AfterAll(ShownIn(d), <<>>) = ShownIn(d)
    BY <1>1, <2>2, AfterAllIsFold, FoldByEmpty
  <2> QED
    BY <2>1, <2>2, <2>3, <2>4
<1>3. ASSUME NEW n \in 0..Len(commands), n # Len(commands), n \in S
      PROVE  n + 1 \in S
  <2>1. n + 1 \in 0..Len(commands)
    BY <1>1, <1>3
  <2>2. PICK f, c : f = First(commands, n) /\ c = commands[n + 1]
    OBVIOUS
  <2>3. f \in Seq(Command) /\ c \in Command /\ First(commands, n + 1) = Append(f, c)
    BY <1>3, <2>2, FirstFacts
  <2>4. PICK x, m : x = Apply(d, f) /\ m = ShownIn(d)
    OBVIOUS
  <2>5. x \in Data /\ m \in Shows /\ ShownIn(x) = Durable!AfterAll(m, f)
    BY <1>1, <1>3, <2>2, <2>3, <2>4, ApplyTyped
  <2>6. Apply(d, Append(f, c)) = ApplyCommand(x, c)
    BY <2>3, <2>4, ApplyOneMore
  <2>7. ShownIn(ApplyCommand(x, c)) = Durable!After(ShownIn(x), c)
    BY <2>3, <2>5, ShownAfter
  <2>8. Durable!AfterAll(m, Append(f, c)) = Durable!After(Durable!AfterAll(m, f), c)
    <3>1. /\ FoldTyped(Shows, Command, AfterStep, m, f)
          /\ Durable!AfterAll(m, f) = FoldBy(AfterStep, m, f)
      BY <2>3, <2>5, AfterAllIsFold
    <3>2. Append(f, c) \in Seq(Command)
      BY <2>3, AppendProperties
    <3>3. Durable!AfterAll(m, Append(f, c)) = FoldBy(AfterStep, m, Append(f, c))
      BY <2>5, <3>2, AfterAllIsFold
    <3>4. FoldBy(AfterStep, m, Append(f, c)) = AfterStep[FoldBy(AfterStep, m, f)][c]
      BY <2>3, <3>1, FoldByAppend
    <3>5. FoldBy(AfterStep, m, f) \in Shows
      BY <3>1, FoldByTyped
    <3>6. \A y \in Shows : AfterStep[y][c] = Durable!After(y, c)
      BY <2>3 DEF AfterStep
    <3> QED
      BY <3>1, <3>3, <3>4, <3>5, <3>6
  <2> QED
    BY <2>1, <2>3, <2>4, <2>5, <2>6, <2>7, <2>8
<1> HIDE DEF S
<1>4. Len(commands) \in S
  BY <1>1, <1>2, <1>3, CountUp
<1>5. Len(commands) \in 0..Len(commands) /\ First(commands, Len(commands)) = commands
  BY <1>1, FirstFacts
<1> QED
  BY <1>4, <1>5 DEF S

LEMMA AfterSomeNext ==
    ASSUME NEW m \in Shows, NEW commands \in Seq(Command), NEW done \in SUBSET (1..Len(commands)),
           NEW n \in Nat
    PROVE  LET F(j) == FoldBy(AfterSomeStep(commands, done), m, Count(j))
           IN  /\ F(0) = m
               /\ F(n) \in Shows
               /\ n + 1 \in done => F(n + 1) = Durable!After(F(n), commands[n + 1])
               /\ n + 1 \notin done => F(n + 1) = F(n)
               /\ Durable!AfterSome(m, commands, done) = F(Len(commands))
<1>1. PICK step : step = AfterSomeStep(commands, done)
  OBVIOUS
<1>2. /\ step \in [Shows -> [Nat -> Shows]]
      /\ Durable!AfterSome(m, commands, done) = FoldBy(step, m, Count(Len(commands)))
  BY <1>1, AfterSomeIsFold
<1>3. PICK x : x = FoldBy(step, m, Count(n))
  OBVIOUS
<1>4. /\ FoldBy(step, m, Count(0)) = m
      /\ x \in Shows
      /\ FoldBy(step, m, Count(n + 1)) = step[x][n + 1]
  <2>1. step \in [Shows -> [Nat -> Shows]]
    BY <1>2
  <2>2. /\ FoldBy(step, m, Count(0)) = m
        /\ FoldBy(step, m, Count(n)) \in Shows
        /\ FoldBy(step, m, Count(n + 1)) = step[FoldBy(step, m, Count(n))][n + 1]
    <3>1. CountTyped(Shows, step, m)
      BY <2>1 DEF CountTyped
    <3> QED
      BY <3>1, CountFold
  <2> QED
    BY <1>3, <2>2
<1>5. n + 1 \in Nat
  OBVIOUS
<1>6. step[x][n + 1] = IF n + 1 \in done THEN Durable!After(x, commands[n + 1]) ELSE x
  BY <1>1, <1>4, <1>5 DEF AfterSomeStep
<1> QED
  BY <1>1, <1>2, <1>3, <1>4, <1>6

\* What a crash leaves of a log L, M, tells of what was done before the write and of the commands of
\* the write whose records are left.
SomeDone(e, d, commands, Y) ==
    \E done \in SUBSET (1..Len(commands)) : \A k \in Key \ Y :
        ShownIn(e)[k] = Durable!AfterSome(ShownIn(d), commands, done)[k]

LEMMA CrashedReplay ==
    ASSUME NEW w \in Write, NEW d \in Data, NEW L, OneEach(L), NEW M, OneEach(M), M \subseteq L,
           NEW n \in Nat, NEW b \in Nat, NEW X, WriteInv(w, d, L, n, X, b), NEW Y, X \subseteq Y,
           \A r \in L : r \notin M /\ r.id <= b => r.command.key \in Y
    PROVE  SomeDone(Replay(M, n), d, w.commands, Y)
<1>1. PICK x \in Nat, y \in Nat, z \in Nat, cs \in Seq(Command) :
          /\ x = Len(w.ids) /\ y = Len(w.todo) /\ z = Len(cs) /\ cs = w.commands
  BY LenProperties DEF Write
<1>2. b + x = n /\ x + y = z
  BY <1>1 DEF WriteInv
<1>3. PICK done : done = {j \in 1..x : \E r \in M : r.id = b + j}
  OBVIOUS
<1>4. done \in SUBSET (1..Len(cs))
  <2>1. 1..x \subseteq 1..z
    BY <1>2
  <2> QED
    BY <1>1, <1>3, <2>1
<1>5. PICK m : m = ShownIn(d)
  OBVIOUS
<1>6. m \in Shows
  BY <1>5, ShownInTyped
<1> DEFINE F(j) == FoldBy(AfterSomeStep(cs, done), m, Count(j))
<1>7. ASSUME NEW j \in Nat
      PROVE  /\ F(0) = m
             /\ F(j) \in Shows
             /\ j + 1 \in done => F(j + 1) = Durable!After(F(j), cs[j + 1])
             /\ j + 1 \notin done => F(j + 1) = F(j)
             /\ Durable!AfterSome(m, cs, done) = F(Len(cs))
  BY <1>4, <1>6, AfterSomeNext
<1> HIDE DEF F
<1> DEFINE S == {j \in 0..x : \A k \in Key \ Y : ShownIn(Replay(M, b + j))[k] = F(j)[k]}
<1>8. 0 \in S
  <2>1. F(0) = m /\ b + 0 = b
    BY <1>7
  <2>2. Replay(L, b) \in Data /\ Replay(M, b) \in Data
    BY ReplayNext
  <2> SUFFICES ASSUME NEW k \in Key \ Y
               PROVE  ShownIn(Replay(M, b))[k] = m[k]
    BY <2>1
  <2>3. SameFor(k, L, M, b)
    BY DEF SameFor
  <2>4. Replay(L, b)[k] = Replay(M, b)[k]
    BY <2>3, ReplaySame
  <2>5. k \in Key /\ k \notin X /\ Agree(d, Replay(L, b), X)
    BY DEF WriteInv
  <2>6. m[k] = ShownIn(Replay(L, b))[k]
    <3>1. PICK e : e = Replay(L, b)
      OBVIOUS
    <3> QED
      BY <1>5, <2>2, <2>5, <3>1, AgreeShown
  <2> QED
    BY <2>4, <2>6 DEF ShownIn
<1>9. ASSUME NEW j \in 0..x, j # x, j \in S
      PROVE  j + 1 \in S
  <2>1. /\ j \in Nat /\ j + 1 \in 0..x /\ j + 1 \in 1..x
        /\ b + j \in Nat /\ (b + j) + 1 = b + (j + 1)
    BY <1>9
  <2>2. PICK e, p, q : /\ e = Replay(M, b + j) /\ p = F(j) /\ q = F(j + 1)
    OBVIOUS
  <2>3. e \in Data /\ p \in Shows
    BY <1>7, <2>1, <2>2, ReplayNext
  <2>4. \A k \in Key \ Y : ShownIn(e)[k] = p[k]
    BY <1>9, <2>2
  <2>5. ASSUME NEW k \in Key \ Y
        PROVE  ShownIn(Replay(M, (b + j) + 1))[k] = q[k]
    <3>1. CASE \E r \in M : r.id = (b + j) + 1
      <4>1. PICK r \in M : r.id = (b + j) + 1
        BY <3>1
      <4>2. r.command = cs[j + 1]
        BY <1>1, <2>1, <4>1 DEF WriteInv
      <4>3. PICK c : c = cs[j + 1]
        OBVIOUS
      <4>4. c \in Command
        <5>1. r \in Record
          BY <4>1 DEF OneEach
        <5> QED
          BY <4>2, <4>3, <5>1 DEF Record
      <4>5. Replay(M, (b + j) + 1) = ApplyCommand(e, c)
        BY <2>1, <2>2, <4>1, <4>2, <4>3, ReplayNext
      <4>6. j + 1 \in done
        BY <1>3, <2>1, <4>1
      <4>7. q = Durable!After(p, c)
        BY <1>7, <2>1, <2>2, <4>3, <4>6
      <4>8. ShownIn(ApplyCommand(e, c)) = Durable!After(ShownIn(e), c)
        BY <2>3, <4>4, ShownAfter
      <4>9. PICK g : g = ShownIn(e)
        OBVIOUS
      <4>10. g \in Shows /\ g[k] = p[k]
        BY <2>3, <2>4, <4>9, ShownInTyped
      <4>11. Durable!After(g, c)[k] = Durable!After(p, c)[k]
        BY <2>3, <4>4, <4>10, AfterAgrees
      <4> QED
        BY <4>5, <4>7, <4>8, <4>9, <4>11
    <3>2. CASE \A r \in M : r.id # (b + j) + 1
      <4>1. Replay(M, (b + j) + 1) = e
        BY <2>1, <2>2, <3>2, ReplayNext
      <4>2. j + 1 \notin done
        BY <1>3, <2>1, <3>2
      <4>3. q = p
        BY <1>7, <2>1, <2>2, <4>2
      <4> QED
        BY <2>4, <4>1, <4>3
    <3> QED
      BY <3>1, <3>2
  <2> QED
    BY <2>1, <2>2, <2>5
<1>10. x \in S
  <2> HIDE DEF S
  <2> QED
    BY <1>8, <1>9, CountUp
\* The commands not yet logged
<1> DEFINE T == {i \in 0..y : F(x + i) = F(x)}
<1>11. y \in T
  <2>1. 0 \in T
    <3>1. 0 \in 0..y /\ x + 0 = x
      OBVIOUS
    <3> QED
      BY <3>1
  <2>2. ASSUME NEW i \in 0..y, i # y, i \in T
        PROVE  i + 1 \in T
    <3>1. i + 1 \in 0..y /\ x + i \in Nat /\ (x + i) + 1 = x + (i + 1) /\ (x + i) + 1 \notin 1..x
      BY <2>2
    <3>2. (x + i) + 1 \notin done
      BY <1>3, <3>1
    <3>3. F((x + i) + 1) = F(x + i)
      BY <1>7, <3>1, <3>2
    <3> QED
      BY <2>2, <3>1, <3>3
  <2> HIDE DEF T
  <2> QED
    BY <2>1, <2>2, CountUp
<1>12. Durable!AfterSome(m, cs, done) = F(x)
  <2>1. F(x + y) = F(x)
    BY <1>11
  <2>2. Durable!AfterSome(m, cs, done) = F(Len(cs))
    BY <1>1, <1>7
  <2> QED
    BY <1>1, <1>2, <2>1, <2>2
<1>13. \A k \in Key \ Y : ShownIn(Replay(M, n))[k] = F(x)[k]
  BY <1>2, <1>10
<1> QED
  BY <1>1, <1>4, <1>5, <1>12, <1>13 DEF SomeDone
-----------------------------------------------------------------------------
(* Which keys are in doubt *)

PendingIds == IF writing = None THEN {} ELSE ToSet(writing.ids)
Unsynced(s, i) == Place(s, i) /\ i > files[s].synced
KeyAt(s, i) == files[s].records[i].command.key

LEMMA UnsyncedKeysAre ==
    /\ \A k \in UnsyncedKeys : \E s, i : Unsynced(s, i) /\ Id(s, i) \notin PendingIds /\ KeyAt(s, i) = k
    /\ \A s, i : Unsynced(s, i) /\ Id(s, i) \notin PendingIds /\ KeyAt(s, i) \in Key =>
           KeyAt(s, i) \in UnsyncedKeys
    /\ UnsyncedKeys \subseteq Key
BY DEF UnsyncedKeys, PendingIds, Unsynced, Place, Id, KeyAt

LEMMA UnsyncedKeysAreNext ==
    /\ \A k \in UnsyncedKeys' :
           \E s, i : Unsynced(s, i)' /\ Id(s, i)' \notin PendingIds' /\ KeyAt(s, i)' = k
    /\ \A s, i : Unsynced(s, i)' /\ Id(s, i)' \notin PendingIds' /\ KeyAt(s, i)' \in Key =>
           KeyAt(s, i)' \in UnsyncedKeys'
    /\ UnsyncedKeys' \subseteq Key
BY DEF UnsyncedKeys, PendingIds, Unsynced, Place, Id, KeyAt

LEMMA PlaceTyped ==
    ASSUME Types, NEW s, NEW i, Place(s, i)
    PROVE  /\ files[s].records[i] \in Record /\ KeyAt(s, i) \in Key
           /\ i \in Nat /\ files[s].synced \in Nat
<1>1. files[s] \in Segment
  BY DEF Types, WALTypes, FilesTyped, Place
<1>2. files[s].records \in Seq(Record) /\ files[s].synced \in Nat
  BY <1>1 DEF Segment
<1>3. i \in 1..Len(files[s].records) /\ Len(files[s].records) \in Nat
  BY <1>2, LenProperties DEF Place
<1>4. files[s].records[i] \in Record
  BY <1>2, <1>3, ElementOfSeq
<1>5. files[s].records[i].command \in Command
  BY <1>4 DEF Record
<1> QED
  BY <1>2, <1>3, <1>4, <1>5, CommandFields DEF KeyAt

LEMMA UnsyncedSame ==
    ASSUME files' = files, PendingIds' = PendingIds
    PROVE  UnsyncedKeys' = UnsyncedKeys
BY DEF UnsyncedKeys, PendingIds

\* A key comes to be in doubt only by the end of a write that had a record for it.
LEMMA UnsyncedShrinks ==
    ASSUME Types, Types', Shrinks, NEW k \in UnsyncedKeys', k \notin UnsyncedKeys
    PROVE  \E s, i : /\ Unsynced(s, i) /\ KeyAt(s, i) = k
                     /\ Id(s, i) \in PendingIds /\ Id(s, i) \notin PendingIds'
<1>1. PICK s, i : Unsynced(s, i)' /\ Id(s, i)' \notin PendingIds' /\ KeyAt(s, i)' = k
  BY UnsyncedKeysAreNext
<1>2. Place(s, i) /\ Place(s, i)' /\ Id(s, i)' = Id(s, i) /\ KeyAt(s, i) = k
  BY <1>1 DEF Unsynced, Shrinks, KeyAt
<1>3. i \in Nat /\ files[s].synced \in Nat /\ KeyAt(s, i) \in Key
  BY <1>2, PlaceTyped
<1>4. i > files[s].synced
  <2>1. ASSUME i <= files[s].synced
        PROVE  FALSE
    <3>1. i <= files'[s].synced
      BY <1>2, <2>1 DEF Shrinks
    <3>2. i > files'[s].synced
      BY <1>1 DEF Unsynced
    <3>3. files'[s].synced \in Nat
      <4>1. files'[s] \in Segment
        BY <1>2 DEF Types, WALTypes, FilesTyped, Place
      <4> QED
        BY <4>1 DEF Segment
    <3> QED
      BY <1>3, <3>1, <3>2, <3>3
  <2> QED
    BY <1>3, <2>1
<1>5. Unsynced(s, i)
  BY <1>2, <1>4 DEF Unsynced
<1> QED
  BY <1>1, <1>2, <1>3, <1>5, UnsyncedKeysAre

LEMMA UnsyncedOnAppend ==
    ASSUME Types, Types', InOrder, IdsAppended, WriteRecord
    PROVE  UnsyncedKeys' = UnsyncedKeys
<1>1. PICK name \in Nat, n \in Nat :
          /\ \A s \in DOMAIN files : files'[s].synced = files[s].synced
          /\ \A s, i : Place(s, i)' <=> Place(s, i) \/ (s = name /\ i = n)
          /\ \A s, i : Place(s, i) => Id(s, i)' = Id(s, i)
          /\ Id(name, n)' = appended + 1
          /\ \A s, i : Place(s, i) => files'[s].records[i] = files[s].records[i]
  BY AppendFacts
<1>2. PICK w, id : w = writing /\ id = appended + 1
  OBVIOUS
<1>3. /\ w \in Write /\ w # None /\ id \in Nat
      /\ writing' = [w EXCEPT !.todo = Tail(w.todo), !.ids = Append(w.ids, id)]
  BY <1>2 DEF WriteRecord, Types, MemoryTypes
<1>4. writing' # None /\ writing'.ids = Append(w.ids, id)
  <2>1. w.todo \in Seq(Command) /\ w.ids \in Seq(Nat) /\ w.todo # <<>>
    BY <1>2, <1>3 DEF Write, WriteRecord
  <2>2. Tail(w.todo) \in Seq(Command) /\ Append(w.ids, id) \in Seq(Nat)
    BY <1>3, <2>1, HeadTailProperties, AppendProperties
  <2>3. writing' \in Write /\ writing'.ids = Append(w.ids, id)
    BY <1>3, <2>2 DEF Write
  <2> QED
    BY <2>3, NoneAssumption
<1>5. PendingIds' = PendingIds \cup {id}
  <2>1. PICK u, v : u = w.ids /\ v = Append(u, id)
    OBVIOUS
  <2>2. u \in Seq(Nat)
    BY <1>3, <2>1 DEF Write
  <2>3. /\ DOMAIN u = 1..Len(u) /\ DOMAIN v = 1..(Len(u) + 1) /\ Len(u) \in Nat
        /\ \A i \in 1..Len(u) : v[i] = u[i]
        /\ v[Len(u) + 1] = id
    BY <1>3, <2>1, <2>2, AppendProperties, LenProperties
  <2>4. 1..(Len(u) + 1) = (1..Len(u)) \cup {Len(u) + 1}
    BY <2>3
  <2>5. ToSet(v) = ToSet(u) \cup {id}
    BY <2>3, <2>4 DEF ToSet
  <2> QED
    BY <1>2, <1>3, <1>4, <2>1, <2>5 DEF PendingIds
<1>6. ASSUME NEW k \in UnsyncedKeys
      PROVE  k \in UnsyncedKeys'
  <2>1. PICK s, i : Unsynced(s, i) /\ Id(s, i) \notin PendingIds /\ KeyAt(s, i) = k
    BY UnsyncedKeysAre
  <2>2. Place(s, i) /\ i > files[s].synced /\ s \in DOMAIN files
    BY <2>1 DEF Unsynced, Place
  <2>3. Place(s, i)' /\ Id(s, i)' = Id(s, i) /\ files'[s].synced = files[s].synced
        /\ files'[s].records[i] = files[s].records[i]
    BY <1>1, <2>2
  <2>4. Unsynced(s, i)' /\ KeyAt(s, i)' = k /\ k \in Key
    BY <2>1, <2>2, <2>3, UnsyncedKeysAre DEF Unsynced, KeyAt
  <2>5. Id(s, i) # id
    <3>1. Id(s, i) \in 1..appended /\ appended \in Nat
      BY <2>2 DEF IdsAppended, Types, MemoryTypes
    <3> QED
      BY <1>2, <3>1
  <2> QED
    BY <1>5, <2>1, <2>3, <2>4, <2>5, UnsyncedKeysAreNext
<1>7. ASSUME NEW k \in UnsyncedKeys'
      PROVE  k \in UnsyncedKeys
  <2>1. PICK s, i : Unsynced(s, i)' /\ Id(s, i)' \notin PendingIds' /\ KeyAt(s, i)' = k
    BY UnsyncedKeysAreNext
  <2>2. Place(s, i)
    BY <1>1, <1>2, <1>5, <2>1 DEF Unsynced
  <2>3. /\ Id(s, i)' = Id(s, i) /\ files'[s].synced = files[s].synced
        /\ files'[s].records[i] = files[s].records[i]
    BY <1>1, <2>2 DEF Place
  <2>4. Unsynced(s, i) /\ KeyAt(s, i) = k /\ k \in Key
    BY <2>1, <2>2, <2>3, UnsyncedKeysAreNext DEF Unsynced, KeyAt
  <2> QED
    BY <1>5, <2>1, <2>3, <2>4, UnsyncedKeysAre
<1> QED
  BY <1>6, <1>7

\* What fsync has reached survives a crash.
LEMMA CrashKeepsSynced ==
    ASSUME Types, Crash, NEW s, NEW i, Place(s, i), ~Unsynced(s, i)
    PROVE  Place(s, i)' /\ files'[s].records[i] = files[s].records[i]
<1>1. PICK kept \in [DOMAIN files -> 0..MaxRecords], torn \in SUBSET DOMAIN files :
          /\ \A q \in DOMAIN files : kept[q] \in files[q].synced .. Len(files[q].records)
          /\ files' = Cut(kept, torn)
  BY DEF Crash
<1>2. DOMAIN files' = DOMAIN files /\ s \in DOMAIN files
  BY <1>1 DEF Cut, Place
<1>3. files[s] \in Segment
  BY <1>2 DEF Types, WALTypes, FilesTyped
<1>4. PICK old, n : old = files[s].records /\ n = kept[s]
  OBVIOUS
<1>5. old \in Seq(Record) /\ files[s].synced \in Nat
  BY <1>3, <1>4 DEF Segment
<1>6. files'[s] = [files[s] EXCEPT !.records = SubSeq(old, 1, n), !.torn = s \in torn]
  BY <1>1, <1>2, <1>4 DEF Cut
<1>7. files'[s].records = SubSeq(old, 1, n)
  BY <1>3, <1>6 DEF Segment
<1>8. Len(old) \in Nat /\ DOMAIN old = 1..Len(old)
  BY <1>5, LenProperties
<1>9. n \in Nat /\ n <= Len(old) /\ files[s].synced <= n
  <2>1. kept[s] \in Nat /\ kept[s] \in files[s].synced .. Len(files[s].records)
    BY <1>1, <1>2, EngineAssumption
  <2> QED
    BY <1>4, <1>5, <1>8, <2>1
<1>10. SubSeq(old, 1, n) = [j \in 1..n |-> old[j]]
  BY <1>5, <1>8, <1>9
<1>11. i \in 1..n
  <2>1. i \in 1..Len(old)
    BY <1>4, <1>8 DEF Place
  <2>2. i <= files[s].synced
    BY <1>5, <1>8, <2>1 DEF Unsynced
  <2> QED
    BY <1>5, <1>8, <1>9, <2>1, <2>2
<1> QED
  BY <1>2, <1>4, <1>7, <1>10, <1>11 DEF Place

-----------------------------------------------------------------------------
(* Every step is one of DurableMap's *)

LEMMA WritingTyped ==
    ASSUME Types, writing # None
    PROVE  /\ mode = "up" /\ writing \in Write
           /\ writing.ids \in Seq(Nat) /\ Len(writing.ids) \in Nat
           /\ writing.todo \in Seq(Command) /\ Len(writing.todo) \in Nat
           /\ writing.commands \in Seq(Command) /\ Len(writing.commands) \in Nat
           /\ writing.ttl \in BOOLEAN
           /\ AllPuts(writing.commands) \/ AllDeletes(writing.commands)
<1>1. /\ mode = "up" /\ writing \in Write
      /\ AllPuts(writing.commands) \/ AllDeletes(writing.commands)
  BY DEF Types, MemoryTypes
<1>2. /\ writing.ids \in Seq(Nat) /\ writing.todo \in Seq(Command)
      /\ writing.commands \in Seq(Command) /\ writing.ttl \in BOOLEAN
  BY <1>1 DEF Write
<1> QED
  BY <1>1, <1>2, LenProperties

\* A record of the write under way is one of its commands.
LEMMA PendingKey ==
    ASSUME Types, ReplayInv, writing # None,
           NEW s, NEW i, Place(s, i), Id(s, i) \in PendingIds
    PROVE  \E j \in 1..Len(writing.ids) :
              /\ Id(s, i) = writing.ids[j]
              /\ j \in 1..Len(writing.commands)
              /\ KeyAt(s, i) = writing.commands[j].key
<1>1. PICK w, L, r : w = writing /\ L = OnDisk(files) /\ r = files[s].records[i]
  OBVIOUS
<1>2. PICK b \in Nat : WriteInv(w, data, L, appended, unlogged, b)
  BY <1>1 DEF ReplayInv
<1>3. /\ w.ids \in Seq(Nat) /\ Len(w.ids) \in Nat /\ Len(w.todo) \in Nat
      /\ Len(w.commands) \in Nat /\ DOMAIN w.ids = 1..Len(w.ids)
  BY <1>1, WritingTyped, LenProperties
<1>4. PICK j \in 1..Len(w.ids) : r.id = w.ids[j]
  BY <1>1, <1>3 DEF PendingIds, ToSet, Id
<1>5. r \in L
  BY <1>1, PlaceTyped DEF OnDisk, Place
<1>6. r.id = b + j
  BY <1>2, <1>4 DEF WriteInv
<1>7. r.command = w.commands[j]
  BY <1>2, <1>5, <1>6 DEF WriteInv
<1>8. Len(w.ids) + Len(w.todo) = Len(w.commands)
  BY <1>2 DEF WriteInv
<1>9. j \in 1..Len(w.commands)
  <2>1. PICK p, q, m : p = Len(w.ids) /\ q = Len(w.todo) /\ m = Len(w.commands)
    OBVIOUS
  <2>2. p \in Nat /\ q \in Nat /\ m \in Nat /\ p + q = m /\ j \in 1..p
    BY <1>3, <1>8, <2>1
  <2>3. j \in 1..m
    BY <2>2
  <2> QED
    BY <2>1, <2>3
<1> QED
  BY <1>1, <1>4, <1>7, <1>9 DEF Id, KeyAt

LEMMA QuietRefines ==
    ASSUME Types, Types', Quiet
    PROVE  Durable!ChangeUnlogged
<1>1. Underway' = Underway /\ PendingIds' = PendingIds /\ files' = files
  BY DEF Quiet, Underway, PendingIds
<1>2. UnsyncedKeys' = UnsyncedKeys
  BY <1>1, UnsyncedSame
<1>3. Doubtful \subseteq Doubtful' /\ unlogged' \subseteq Doubtful'
  BY <1>2 DEF Doubtful, Quiet
<1>4. SameShownOutside(data', data, Doubtful')
  <2>1. data \in Data /\ data' \in Data /\ Agree(data', data, unlogged')
    BY DEF Types, MemoryTypes, Quiet
  <2> QED
    BY <1>3, <2>1, AgreeShown DEF SameShownOutside
<1> QED
  BY <1>1, <1>3, <1>4, ChangeRefines DEF Quiet

LEMMA StartRefines ==
    ASSUME Types, Types', StartsWrite
    PROVE  Durable!Begin \/ Durable!ChangeUnlogged
<1>1. PICK commands \in Seq(Command), ttl \in BOOLEAN : StartWrite(commands, ttl)
  BY DEF StartsWrite
<1>2. /\ writing = None /\ mode = "up" /\ mode' = "up" /\ files' = files
      /\ unlogged \subseteq unlogged' /\ Agree(data', data, unlogged')
  BY DEF StartsWrite, Free
<1>3. writing' # None /\ writing'.commands = commands /\ writing'.ids = <<>>
  <2>1. <<>> \in Seq(Nat)
    BY EmptySeq
  <2>2. writing' \in Write /\ writing'.commands = commands /\ writing'.ids = <<>>
    BY <1>1, <2>1 DEF StartWrite, Write
  <2> QED
    BY <2>2, NoneAssumption
<1>4. PendingIds = {} /\ PendingIds' = {}
  BY <1>2, <1>3 DEF PendingIds, ToSet
<1>5. UnsyncedKeys' = UnsyncedKeys
  BY <1>2, <1>4, UnsyncedSame
<1>6. Doubtful \subseteq Doubtful' /\ unlogged' \subseteq Doubtful'
  BY <1>2, <1>5 DEF Doubtful
<1>7. SameShownOutside(data', data, Doubtful')
  <2>1. data \in Data /\ data' \in Data
    BY DEF Types, MemoryTypes
  <2> QED
    BY <1>2, <1>6, <2>1, AgreeShown DEF SameShownOutside
<1>8. Underway = <<>> /\ Underway' = commands
  BY <1>2, <1>3 DEF Underway
<1>9. CASE commands = <<>>
  BY <1>2, <1>6, <1>7, <1>8, <1>9, ChangeRefines
<1>10. CASE commands # <<>>
  <2>1. \A i \in DOMAIN commands : commands[i] \in Command
    BY ElementOfSeq, LenProperties
  <2>2. \A i \in DOMAIN Underway' : Underway'[i] \in Durable!Command
    BY <1>8, <2>1, CommandFields
  <2> QED
    BY <1>2, <1>6, <1>7, <1>8, <1>10, <2>2, BeginRefines
<1> QED
  BY <1>9, <1>10

LEMMA AppendRefines ==
    ASSUME Types, Types', LogInv, WriteRecord
    PROVE  Durable!ChangeUnlogged
<1>1. /\ writing # None /\ mode' = mode /\ data' = data /\ unlogged' = unlogged
      /\ writing' = [writing EXCEPT !.todo = Tail(writing.todo),
                                    !.ids = Append(writing.ids, appended + 1)]
  BY DEF WriteRecord
<1>2. mode = "up" /\ writing \in Write
  BY <1>1, WritingTyped
<1>3. writing'.commands = writing.commands
  BY <1>1, <1>2 DEF Write
<1>4. writing' # None
  <2>1. writing.todo \in Seq(Command) /\ writing.todo # <<>> /\ writing.ids \in Seq(Nat)
    BY <1>1, WritingTyped DEF WriteRecord
  <2>2. appended + 1 \in Nat
    BY DEF Types, MemoryTypes
  <2>3. Tail(writing.todo) \in Seq(Command) /\ Append(writing.ids, appended + 1) \in Seq(Nat)
    BY <2>1, <2>2, HeadTailProperties, AppendProperties
  <2>4. writing' \in Write
    BY <1>1, <1>2, <2>3 DEF Write
  <2> QED
    BY <2>4, NoneAssumption
<1>5. Underway' = Underway
  BY <1>1, <1>3, <1>4 DEF Underway
<1>6. UnsyncedKeys' = UnsyncedKeys
  BY UnsyncedOnAppend DEF LogInv
<1> QED
  BY <1>1, <1>2, <1>5, <1>6, ChangeRefines DEF Doubtful, SameShownOutside

LEMMA SyncRefines ==
    ASSUME Types, Types', WriteSync
    PROVE  Durable!Settle
<1>1. /\ writing # None /\ mode' = mode /\ data' = data /\ unlogged' = unlogged
      /\ writing' = [writing EXCEPT !.synced = TRUE]
  BY DEF WriteSync, historyVars
<1>2. mode = "up" /\ writing \in Write
  BY <1>1, WritingTyped
<1>3. writing' \in Write /\ writing'.commands = writing.commands /\ writing'.ids = writing.ids
  BY <1>1, <1>2 DEF Write
<1>4. writing' # None
  BY <1>3, NoneAssumption
<1>5. Underway' = Underway /\ PendingIds' = PendingIds
  BY <1>1, <1>3, <1>4 DEF Underway, PendingIds
<1>6. UnsyncedKeys' \subseteq UnsyncedKeys
  BY <1>5, SyncShrinks, UnsyncedShrinks
<1> QED
  BY <1>1, <1>2, <1>5, <1>6, SettleRefines DEF Doubtful

LEMMA TruncateRefines ==
    ASSUME Types, Types', RemoveNextSegment
    PROVE  Durable!ChangeUnlogged
<1>1. mode = "up" /\ mode' = "up" /\ data' = data /\ writing' = writing /\ unlogged \subseteq unlogged'
  BY DEF RemoveNextSegment
<1>2. Underway' = Underway /\ PendingIds' = PendingIds
  BY <1>1 DEF Underway, PendingIds
<1>3. ASSUME NEW k \in UnsyncedKeys, k \notin unlogged'
      PROVE  k \in UnsyncedKeys'
  <2>1. PICK s, i : Unsynced(s, i) /\ Id(s, i) \notin PendingIds /\ KeyAt(s, i) = k
    BY UnsyncedKeysAre
  <2>2. Place(s, i)' /\ files'[s] = files[s]
    BY <1>3, <2>1, TruncateLoses DEF Unsynced, KeyAt
  <2>3. Unsynced(s, i)' /\ Id(s, i)' \notin PendingIds' /\ KeyAt(s, i)' = k
    BY <1>2, <2>1, <2>2 DEF Unsynced, KeyAt, Id
  <2> QED
    BY <2>3, UnsyncedKeysAre, UnsyncedKeysAreNext
<1>4. Doubtful \subseteq Doubtful'
  BY <1>1, <1>3 DEF Doubtful
<1> QED
  BY <1>1, <1>2, <1>4, ChangeRefines DEF SameShownOutside

LEMMA LastIsAtLen ==
    ASSUME NEW s \in Seq(Nat), NEW n \in Nat, n = Len(s), n # 0
    PROVE  s # <<>> /\ Last(s) = s[n] /\ n \in 1..Len(s)
BY LenProperties DEF Last

LEMMA FrontKeys ==
    ASSUME NEW commands \in Seq(Command), NEW j \in Nat, 1 <= j, j < Len(commands)
    PROVE  commands[j].key \in Durable!KeysOf(Durable!Front(commands))
<1>1. Len(commands) \in Nat /\ Len(commands) - 1 \in Nat
  BY LenProperties
<1>2. PICK n \in Nat : n = Len(commands) - 1
  BY <1>1
<1>3. Durable!Front(commands) = [i \in 1..n |-> commands[i]]
  <2>1. Durable!Front(commands) = SubSeq(commands, 1, n)
    BY <1>2 DEF Durable!Front
  <2> QED
    BY <1>1, <1>2, <2>1
<1>4. j \in 1..n
  BY <1>1, <1>2
<1> QED
  BY <1>3, <1>4 DEF Durable!KeysOf

LEMMA EndRefines ==
    ASSUME Types, Types', LogInv, ReplayInv, FinishWrite
    PROVE  Durable!Finish \/ Durable!ChangeUnlogged
<1>1. /\ writing # None /\ writing.synced /\ writing' = None /\ mode' = mode /\ files' = files
      /\ data' = Store(data, writing.commands, writing.ttl) /\ unlogged' = unlogged
  BY DEF FinishWrite, walVars
<1>2. PICK w : w = writing
  OBVIOUS
<1>3. /\ mode = "up" /\ w.commands \in Seq(Command) /\ w.ids \in Seq(Nat) /\ w.ttl \in BOOLEAN
      /\ Len(w.ids) \in Nat /\ Len(w.commands) \in Nat
      /\ AllPuts(w.commands) \/ AllDeletes(w.commands)
  BY <1>1, <1>2, WritingTyped
<1>4. Len(w.ids) = Len(w.commands)
  <2>1. PICK b \in Nat : WriteInv(w, data, OnDisk(files), appended, unlogged, b)
    BY <1>1, <1>2 DEF ReplayInv
  <2>2. w.todo = <<>>
    BY <1>1, <1>2 DEF LogInv, SyncComesLast
  <2>3. Len(w.todo) = 0
    BY <2>2
  <2>4. Len(w.ids) + Len(w.todo) = Len(w.commands)
    BY <2>1 DEF WriteInv
  <2> QED
    BY <1>3, <2>3, <2>4
<1>5. Shrinks
  BY <1>1, UnchangedShrinks
<1>6. PendingIds' = {} /\ Underway' = <<>> /\ Underway = w.commands
  BY <1>1, <1>2 DEF PendingIds, Underway
<1>7. UnsyncedKeys \subseteq UnsyncedKeys'
  <2>1. ASSUME NEW k \in UnsyncedKeys
        PROVE  k \in UnsyncedKeys'
    <3>1. PICK s, i : Unsynced(s, i) /\ KeyAt(s, i) = k
      BY UnsyncedKeysAre
    <3>2. Unsynced(s, i)' /\ KeyAt(s, i)' = k
      BY <1>1, <3>1 DEF Unsynced, KeyAt, Place
    <3> QED
      BY <1>6, <3>2, UnsyncedKeysAre, UnsyncedKeysAreNext
  <2> QED
    BY <2>1
<1>8. Doubtful \subseteq Doubtful'
  BY <1>1, <1>7 DEF Doubtful
<1>9. ASSUME NEW k \in UnsyncedKeys', k \notin UnsyncedKeys
      PROVE  k \in Durable!KeysOf(Durable!Front(w.commands))
  <2>1. PICK s, i : Unsynced(s, i) /\ KeyAt(s, i) = k /\ Id(s, i) \in PendingIds
    BY <1>5, <1>9, UnsyncedShrinks
  <2>2. Place(s, i)
    BY <2>1 DEF Unsynced
  <2>3. PICK j \in 1..Len(w.ids) : Id(s, i) = w.ids[j] /\ k = w.commands[j].key
    BY <1>1, <1>2, <2>1, <2>2, PendingKey
  <2>4. j # Len(w.ids)
    <3>1. SUFFICES ASSUME j = Len(w.ids)
                   PROVE  FALSE
      OBVIOUS
    <3>2. w.ids # <<>> /\ Last(w.ids) = w.ids[j]
      BY <1>3, <3>1, LastIsAtLen
    <3>3. SyncedId(Last(w.ids))
      BY <1>1, <1>2, <3>2 DEF LogInv, WrittenAtEnd
    <3>4. i <= files[s].synced
      BY <2>2, <2>3, <3>2, <3>3 DEF SyncedId
    <3>5. i > files[s].synced /\ i \in Nat /\ files[s].synced \in Nat
      BY <2>1, <2>2, PlaceTyped DEF Unsynced
    <3> QED
      BY <3>4, <3>5
  <2>5. j \in Nat /\ 1 <= j /\ j < Len(w.commands)
    BY <1>3, <1>4, <2>4
  <2> QED
    BY <1>3, <2>3, <2>5, FrontKeys
<1>10. CASE w.commands = <<>>
  <2>1. DOMAIN w.commands = {} /\ data \in Data /\ data' \in Data
    BY <1>10 DEF Types, MemoryTypes
  <2>2. Agree(data', Apply(data, w.commands), {})
    BY <1>1, <1>2, <1>3, <2>1, StoreAgrees
  <2>3. Apply(data, w.commands) = data
    BY <1>10, <2>1, ApplyNone
  <2>4. Agree(data', data, {})
    BY <2>2, <2>3
  <2>5. SameShownOutside(data', data, Doubtful')
    BY <2>1, <2>4, AgreeShown DEF SameShownOutside
  <2> QED
    BY <1>1, <1>3, <1>6, <1>8, <1>10, <2>5, ChangeRefines
<1>11. CASE w.commands # <<>>
  <2>1. data \in Data /\ data' \in Data /\ Apply(data, w.commands) \in Data
    BY <1>3, ApplyTyped DEF Types, MemoryTypes
  <2>2. Agree(data', Apply(data, w.commands), {})
    BY <1>1, <1>2, <1>3, <2>1, StoreAgrees
  <2>3. ASSUME NEW k \in Key
        PROVE  ShownIn(data')[k] = ShownIn(Apply(data, w.commands))[k]
    BY <2>1, <2>2, AgreeShown
  <2>4. ShownIn(data') = ShownIn(Apply(data, w.commands))
    BY <2>3 DEF ShownIn
  <2>5. ShownIn(data') = Durable!AfterAll(ShownIn(data), w.commands)
    BY <1>3, <2>1, <2>4, ShownAfterAll
  <2>6. Doubtful' \subseteq Doubtful \cup Durable!KeysOf(Durable!Front(w.commands))
    BY <1>1, <1>9 DEF Doubtful
  <2> QED
    BY <1>1, <1>3, <1>6, <1>8, <1>11, <2>5, <2>6, FinishRefines
<1> QED
  BY <1>10, <1>11

LEMMA StopRefines ==
    ASSUME Types, Types', LogInv, LogInv', MemInv,
           mode = "up", mode' = "down", writing = None, writing' = None, unlogged' = {},
           survived' = Recovered(files'), appended' = appended, UnsyncedKeys' \subseteq UnsyncedKeys,
           LostOnly(OnDisk(files), OnDisk(files'), Doubtful)
    PROVE  Durable!Crash
<1>1. PICK d, e, L, M, X : d = data /\ e = survived' /\ L = OnDisk(files) /\ M = OnDisk(files')
                           /\ X = Doubtful
  OBVIOUS
<1>2. /\ d \in Data /\ e \in Data /\ appended \in Nat /\ appended' \in Nat
      /\ Recovered(files) \in Data
  <2>1. FilesTyped(files) /\ current \in Nat /\ \A s \in DOMAIN files : s <= current
    BY DEF Types, WALTypes, FilesTyped
  <2>2. Recovered(files) \in Data
    BY <2>1, RecoveredTyped
  <2> QED
    BY <1>1, <2>2 DEF Types, MemoryTypes
<1>3. Agree(d, Recovered(files), X)
  <2>1. Agree(d, Recovered(files), unlogged)
    BY <1>1 DEF MemInv
  <2>2. unlogged \subseteq X
    BY <1>1 DEF Doubtful
  <2> QED
    BY <2>1, <2>2, AgreeLess
<1>4. Recovered(files) = Replay(L, appended) /\ OneEach(L)
  BY <1>1, OrderedAlways DEF LogInv
<1>5. e = Replay(M, appended)
  BY <1>1, OrderedNext DEF LogInv
<1>6. Agree(Replay(L, appended), Replay(M, appended), X)
  BY <1>1, <1>2, <1>4, ReplayLess
<1>7. Agree(d, e, X)
  BY <1>3, <1>4, <1>5, <1>6, AgreeSteps
<1>8. Underway = <<>> /\ Underway' = <<>>
  BY DEF Underway
<1>9. Doubtful' \subseteq Doubtful
  BY DEF Doubtful
<1>10. Durable!AfterSome(ShownIn(d), <<>>, {}) = ShownIn(d)
  <2>1. /\ <<>> \in Seq(Command) /\ Len(<<>>) = 0 /\ {} \in SUBSET (1..Len(<<>>))
        /\ ShownIn(d) \in Shows
    BY <1>2, EmptySeq, ShownInTyped
  <2>2. PICK m, c : m = ShownIn(d) /\ c = <<>>
    OBVIOUS
  <2>3. m \in Shows /\ c \in Seq(Command) /\ Len(c) = 0 /\ {} \in SUBSET (1..Len(c))
    BY <2>1, <2>2
  <2>4. /\ FoldBy(AfterSomeStep(c, {}), m, Count(0)) = m
        /\ Durable!AfterSome(m, c, {}) = FoldBy(AfterSomeStep(c, {}), m, Count(Len(c)))
    BY <2>3, AfterSomeNext
  <2> QED
    BY <2>2, <2>3, <2>4
<1>11. \A k \in Key \ X : ShownIn(e)[k] = Durable!AfterSome(ShownIn(d), <<>>, {})[k]
  BY <1>2, <1>7, <1>10, AgreeShown
<1>12. {} \in SUBSET DOMAIN Underway
  OBVIOUS
<1> QED
  BY <1>1, <1>8, <1>9, <1>11, <1>12, CrashRefines

LEMMA CloseRefines ==
    ASSUME Types, Types', LogInv, LogInv', MemInv, Close
    PROVE  Durable!Crash
<1>1. /\ mode = "up" /\ mode' = "down" /\ writing = None /\ writing' = None /\ unlogged' = {}
      /\ survived' = Recovered(files') /\ appended' = appended /\ files' = files
  BY DEF Close, Free, LoseMemory, walVars
<1>2. PendingIds' = PendingIds
  BY <1>1 DEF PendingIds
<1>3. UnsyncedKeys' \subseteq UnsyncedKeys
  BY <1>1, <1>2, UnsyncedSame
<1>4. LostOnly(OnDisk(files), OnDisk(files'), Doubtful)
  BY <1>1 DEF LostOnly
<1> QED
  BY <1>1, <1>3, <1>4, StopRefines

\* What a crash may lose is in doubt, or belongs to the write under way.
LEMMA CrashLoses ==
    ASSUME Types, Types', Crash
    PROVE  /\ OnDisk(files') \subseteq OnDisk(files)
           /\ \A r \in OnDisk(files) :
                 r \notin OnDisk(files') /\ r.id \notin PendingIds => r.command.key \in UnsyncedKeys
<1>1. ASSUME NEW r \in OnDisk(files')
      PROVE  r \in OnDisk(files)
  <2>1. PICK s, i : r \in Record /\ Place(s, i)' /\ r = files'[s].records[i]
    BY DEF OnDisk, Place
  <2>2. Place(s, i) /\ files'[s].records[i] = files[s].records[i]
    BY <2>1, CrashShrinks DEF Shrinks
  <2> QED
    BY <2>1, <2>2 DEF OnDisk, Place
<1>2. ASSUME NEW r \in OnDisk(files), r \notin OnDisk(files'), r.id \notin PendingIds
      PROVE  r.command.key \in UnsyncedKeys
  <2>1. PICK s, i : r \in Record /\ Place(s, i) /\ r = files[s].records[i]
    BY DEF OnDisk, Place
  <2>2. ASSUME ~Unsynced(s, i)
        PROVE  FALSE
    <3>1. Place(s, i)' /\ files'[s].records[i] = files[s].records[i]
      BY <2>1, <2>2, CrashKeepsSynced
    <3> QED
      BY <1>2, <2>1, <3>1 DEF OnDisk, Place
  <2>3. Unsynced(s, i) /\ Id(s, i) \notin PendingIds /\ KeyAt(s, i) \in Key
    BY <1>2, <2>1, <2>2, PlaceTyped DEF Id
  <2>4. KeyAt(s, i) \in UnsyncedKeys
    BY <2>3, UnsyncedKeysAre
  <2> QED
    BY <2>1, <2>4 DEF KeyAt
<1> QED
  BY <1>1, <1>2

LEMMA IdleCrashRefines ==
    ASSUME Types, Types', LogInv, LogInv', MemInv, Crash, writing = None
    PROVE  Durable!Crash
<1>1. /\ mode = "up" /\ mode' = "down" /\ writing' = None /\ unlogged' = {}
      /\ survived' = Recovered(files') /\ appended' = appended
  BY DEF Crash, LoseMemory
<1>2. PendingIds = {} /\ PendingIds' = {}
  BY <1>1 DEF PendingIds
<1>3. UnsyncedKeys' \subseteq UnsyncedKeys
  BY <1>2, CrashShrinks, UnsyncedShrinks
<1>4. LostOnly(OnDisk(files), OnDisk(files'), Doubtful)
  BY <1>2, CrashLoses DEF LostOnly, Doubtful
<1> QED
  BY <1>1, <1>3, <1>4, StopRefines

LEMMA BusyCrashRefines ==
    ASSUME Types, Types', LogInv, LogInv', ReplayInv, Crash, writing # None
    PROVE  Durable!Crash
<1>1. /\ mode = "up" /\ mode' = "down" /\ writing' = None /\ unlogged' = {}
      /\ survived' = Recovered(files') /\ appended' = appended
  BY DEF Crash, LoseMemory
<1>2. PICK w, d, e, L, M, X, Y :
          /\ w = writing /\ d = data /\ e = survived' /\ L = OnDisk(files) /\ M = OnDisk(files')
          /\ X = unlogged /\ Y = Doubtful
  OBVIOUS
<1>3. PICK b \in Nat : WriteInv(w, d, L, appended, X, b)
  BY <1>2 DEF ReplayInv
<1>4. /\ w \in Write /\ w.ids \in Seq(Nat) /\ w.commands \in Seq(Command)
      /\ Len(w.commands) \in Nat
  BY <1>2, WritingTyped
<1>5. d \in Data /\ appended \in Nat /\ X \subseteq Y
  BY <1>2 DEF Types, MemoryTypes, Doubtful
<1>6. OneEach(L)
  BY <1>2, OrderedAlways DEF LogInv
<1>7. OneEach(M) /\ e = Replay(M, appended)
  BY <1>1, <1>2, OrderedNext DEF LogInv
<1>8. M \subseteq L
  BY <1>2, CrashLoses
<1>9. ASSUME NEW r \in L, r \notin M, r.id <= b
      PROVE  r.command.key \in Y
  <2>1. r.id \notin PendingIds
    <3>1. SUFFICES ASSUME r.id \in PendingIds
                   PROVE  FALSE
      OBVIOUS
    <3>2. DOMAIN w.ids = 1..Len(w.ids) /\ Len(w.ids) \in Nat
      BY <1>4, LenProperties
    <3>3. PICK j \in 1..Len(w.ids) : r.id = w.ids[j]
      BY <1>2, <3>1, <3>2 DEF PendingIds, ToSet
    <3>4. r.id = b + j
      BY <1>3, <3>3 DEF WriteInv
    <3>5. j \in Nat /\ j > 0
      BY <3>2
    <3> QED
      BY <1>9, <3>4, <3>5
  <2>2. r.command.key \in UnsyncedKeys
    BY <1>2, <1>9, <2>1, CrashLoses
  <2> QED
    BY <1>2, <2>2 DEF Doubtful
<1>10. SomeDone(Replay(M, appended), d, w.commands, Y)
  <2>1. \A r \in L : r \notin M /\ r.id <= b => r.command.key \in Y
    BY <1>9
  <2>2. OneEach(M)
    BY <1>7
  <2>3. w \in Write /\ d \in Data /\ appended \in Nat
    BY <1>4, <1>5
  <2> QED
    BY <1>3, <1>5, <1>6, <1>8, <2>1, <2>2, <2>3, CrashedReplay
<1>11. PICK done \in SUBSET (1..Len(w.commands)) : \A k \in Key \ Y :
           ShownIn(Replay(M, appended))[k] = Durable!AfterSome(ShownIn(d), w.commands, done)[k]
  BY <1>10 DEF SomeDone
<1>12. Underway = w.commands /\ Underway' = <<>> /\ DOMAIN w.commands = 1..Len(w.commands)
  BY <1>1, <1>2, <1>4, LenProperties DEF Underway
<1>13. ASSUME NEW k \in UnsyncedKeys', k \notin UnsyncedKeys
       PROVE  k \in Durable!KeysOf(w.commands)
  <2>1. PICK s, i : Unsynced(s, i) /\ KeyAt(s, i) = k /\ Id(s, i) \in PendingIds
    BY <1>13, CrashShrinks, UnsyncedShrinks
  <2>2. PICK j : j \in 1..Len(w.commands) /\ k = w.commands[j].key
    BY <1>2, <2>1, PendingKey DEF Unsynced
  <2> QED
    BY <1>12, <2>2 DEF Durable!KeysOf
<1>14. Doubtful' \subseteq Doubtful \cup Durable!KeysOf(w.commands)
  BY <1>1, <1>13 DEF Doubtful
<1>15. done \in SUBSET DOMAIN Underway
  BY <1>12
<1>16. \A k \in Key \ Doubtful :
           ShownIn(survived')[k] = Durable!AfterSome(ShownIn(data), Underway, done)[k]
  BY <1>2, <1>7, <1>11, <1>12
<1> QED
  BY <1>1, <1>12, <1>14, <1>15, <1>16, CrashRefines

LEMMA RestartsRefines ==
    ASSUME Types, Types', ReplayInv, Restart
    PROVE  Durable!Restart
<1>1. /\ mode = "down" /\ mode' = "up" /\ writing = None /\ writing' = writing /\ files' = files
      /\ data' = Recovered(files) /\ unlogged' = unlogged
  BY DEF Restart, Load, Types, MemoryTypes
<1>2. Underway' = Underway /\ PendingIds' = PendingIds
  BY <1>1 DEF Underway, PendingIds
<1>3. Doubtful' = Doubtful
  BY <1>1, <1>2, UnsyncedSame DEF Doubtful
<1>4. data' = survived
  BY <1>1 DEF ReplayInv
<1> QED
  BY <1>1, <1>2, <1>3, <1>4, RestartRefines

LEMMA RefineStep ==
    ASSUME Types, Types', LogInv, LogInv', MemInv, ReplayInv, [Next]_vars
    PROVE  [Durable!Next]_(Durable!vars)
<1>1. CASE Quiet
  BY <1>1, QuietRefines DEF Durable!Next
<1>2. CASE StartsWrite
  BY <1>2, StartRefines DEF Durable!Next
<1>3. CASE WriteRecord
  BY <1>3, AppendRefines DEF Durable!Next
<1>4. CASE WriteSync
  BY <1>4, SyncRefines DEF Durable!Next
<1>5. CASE FinishWrite
  BY <1>5, EndRefines DEF Durable!Next
<1>6. CASE RemoveNextSegment
  BY <1>6, TruncateRefines DEF Durable!Next
<1>7. CASE Close
  BY <1>7, CloseRefines DEF Durable!Next
<1>8. CASE Crash
  BY <1>8, IdleCrashRefines, BusyCrashRefines DEF Durable!Next
<1>9. CASE Restart
  BY <1>9, RestartsRefines DEF Durable!Next
<1>10. CASE UNCHANGED vars
  BY <1>10 DEF Durable!vars, vars, walVars, historyVars, UnsyncedKeys
<1> QED
  BY <1>1, <1>2, <1>3, <1>4, <1>5, <1>6, <1>7, <1>8, <1>9, <1>10, StepKinds

LEMMA RefineInit == Init => Durable!Init /\ ReplayInv
<1> SUFFICES ASSUME Init
             PROVE  Durable!Init /\ ReplayInv
  OBVIOUS
<1>1. /\ writing = None /\ mode = "up" /\ data = NoData /\ unlogged = {}
      /\ files = [i \in {0} |-> EmptySegment]
  BY DEF Init, WALInit
<1>2. \A s \in DOMAIN files : DOMAIN files[s].records = {}
  BY <1>1 DEF EmptySegment
<1>3. UnsyncedKeys = {}
  BY <1>2 DEF UnsyncedKeys
<1>4. ReplayInv
  BY <1>1 DEF ReplayInv
<1>5. [k \in Key |-> Shown(data[k])] = [k \in Key |-> None]
  BY <1>1 DEF Shown, NoData
<1> QED
  BY <1>1, <1>3, <1>4, <1>5 DEF Durable!Init

\* Whatever is written, rolled, truncated, lost in a crash and recovered, and whatever the number
\* of keys, segments and commands, a write takes effect as a whole, and neither a crash nor a
\* restart undoes it (engine.go:186-199, wal.go:37); the keys excepted are those of
\* MemoryIsReplay and those with a record that fsync has not reached.
THEOREM EngineImplementsDurableMap == Spec => DurableSpec
<1>1. Init => Durable!Init /\ ReplayInv
  BY RefineInit
<1>2. Types /\ Types' /\ LogInv /\ LogInv' /\ MemInv /\ ReplayInv /\ [Next]_vars => ReplayInv'
  BY ReplayInvStep
<1>3. /\ Types /\ LogInv /\ MemInv /\ Types' /\ LogInv' /\ MemInv' /\ ReplayInv /\ [Next]_vars
      => [Durable!Next]_(Durable!vars)
  <2>1. SUFFICES ASSUME Types, LogInv, MemInv, Types', LogInv', MemInv', ReplayInv, [Next]_vars
               PROVE  [Durable!Next]_(Durable!vars)
    BY Zenon
  <2> QED
    BY <2>1, RefineStep
<1> QED
  BY <1>1, <1>2, <1>3, MemAlways, PTL DEF Spec, DurableSpec, Durable!Spec
=============================================================================
