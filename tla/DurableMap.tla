------------------------------ MODULE DurableMap ------------------------------
(***************************************************************************)
(* What the storage engine promises: a map that clients change by writes   *)
(* of one or more commands, one write at a time.  A write takes effect as  *)
(* a whole when it finishes, and from then on a crash does not undo it;    *)
(* the crash of a write under way leaves the effect of some of its         *)
(* commands.  The promise is suspended for the keys in doubtful: those     *)
(* changed behind the log's back, and those of a write of several commands *)
(* but for the last one's.                                                 *)
(***************************************************************************)
EXTENDS Naturals, Sequences, SequencesExt

CONSTANTS Key, Value, None

VARIABLES
    value,       \* what a client reads of each key, or would after a restart: its value
                 \* and its version, or None
    up,          \* the process is running
    pending,     \* the commands of the write under way, or <<>>
    doubtful     \* keys whose value need not survive a crash

vars == <<value, up, pending, doubtful>>

Command == [type : {"put"}, key : Key, value : Value] \cup
           [type : {"delete"}, key : Key, value : {None}]

After(map, command) ==
    [map EXCEPT ![command.key] =
        IF command.type = "delete" THEN None
        ELSE [value |-> command.value, version |-> IF @ = None THEN 1 ELSE @.version + 1]]
AfterAll(map, commands) == FoldLeft(After, map, commands)
\* What the commands at the positions in done leave
AfterSome(map, commands, done) ==
    FoldLeft(LAMBDA m, i : IF i \in done THEN After(m, commands[i]) ELSE m,
             map, [i \in 1..Len(commands) |-> i])
KeysOf(commands) == {commands[i].key : i \in DOMAIN commands}

Init ==
    /\ value = [k \in Key |-> None]
    /\ up = TRUE
    /\ pending = <<>>
    /\ doubtful = {}

\* Expiry, the end of a lease, a transaction's commit or a truncation of the log may change a key,
\* which is in doubt from then on
Disturb ==
    /\ up /\ up'
    /\ doubtful \subseteq doubtful'
    /\ \A k \in Key \ doubtful' : value'[k] = value[k]

ChangeUnlogged == UNCHANGED pending /\ Disturb

\* A write begins; what it finds expired is gone
Begin ==
    /\ pending = <<>>
    /\ pending' # <<>>
    /\ ToSet(pending') \subseteq Command
    /\ Disturb

\* A write takes effect as a whole
Finish ==
    /\ up /\ up'
    /\ pending # <<>>
    /\ pending' = <<>>
    /\ value' = AfterAll(value, pending)
    /\ doubtful \subseteq doubtful'
    /\ doubtful' \subseteq doubtful \cup KeysOf(Front(pending))

\* What was written in doubt is safe on disk
Settle ==
    /\ up
    /\ doubtful' \subseteq doubtful
    /\ UNCHANGED <<value, up, pending>>

\* The process ends: some of the commands of the write under way have taken effect
Crash ==
    /\ up /\ ~up'
    /\ pending' = <<>>
    /\ doubtful' \subseteq doubtful \cup KeysOf(pending)
    /\ \E done \in SUBSET DOMAIN pending :
          \A k \in Key \ doubtful : value'[k] = AfterSome(value, pending, done)[k]

Restart ==
    /\ ~up /\ up'
    /\ UNCHANGED <<value, pending, doubtful>>

Next == ChangeUnlogged \/ Begin \/ Finish \/ Settle \/ Crash \/ Restart

Spec == Init /\ [][Next]_vars
=============================================================================
