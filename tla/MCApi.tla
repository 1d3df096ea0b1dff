-------------------------------- MODULE MCApi --------------------------------
EXTENDS Api, TLC

Do(op, key, value) == [op |-> op, key |-> key, value |-> value]
If(key, op, value) == [key |-> key, op |-> op, value |-> value]
One(op, key, value) == [type |-> "key", operation |-> Do(op, key, value)]
Batch(operations) == [type |-> "batch", operations |-> operations]
Txn(compare, success, failure) ==
    [type |-> "txn", compare |-> compare, success |-> success, failure |-> failure]

MCRequest ==
    {One("PUT", 1, 1), One("PUT", 2, 2), One("DELETE", 1, 1), One("GET", 1, 1),
     [type |-> "range", key |-> 1, rangeEnd |-> 3, limit |-> 1],
     Batch(<<Do("DELETE", 1, 1), Do("PUT", 1, 1), Do("PUT", 2, 1), Do("PUT", 2, 2)>>),
     Batch(<<Do("PUT", 1, 1), Do("GET", 1, 1)>>),
     Txn(<<If(1, "=", 1)>>, <<Do("PUT", 1, 2), Do("GET", 1, 1)>>,
         <<Do("PUT", 2, 1), Do("DELETE", 1, 1)>>),
     Txn(<<If(1, "!=", 2), If(2, ">", 1)>>, <<Do("PUT", 2, 1), Do("GET", 1, 1)>>, <<>>),
     Txn(<<If(2, "<", 2), If(1, "OTHER", 1)>>, <<Do("OTHER", 1, 1)>>, <<Do("OTHER", 1, 1)>>)}
\* Two changes that belong together, of which the second fails if key 2 is missing
MCTogether == {Txn(<<>>, <<Do("PUT", 1, 1), Do("DELETE", 2, 1)>>, <<>>)}
Symmetry == Permutations(Client)
=============================================================================
