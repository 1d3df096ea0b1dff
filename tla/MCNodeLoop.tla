----------------------------- MODULE MCNodeLoop -----------------------------
EXTENDS NodeLoop

Command(type, key, value) == [type |-> type, key |-> key, value |-> value]

MCCommands ==
    LET k == CHOOSE key \in Key : TRUE
    IN  <<Command("put", k, 1), Command("delete", k, 0)>>
=============================================================================
