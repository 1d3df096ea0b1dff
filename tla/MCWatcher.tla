----------------------------- MODULE MCWatcher ------------------------------
(* Watcher on two keys, one of them a prefix of the other, watched as a key, as a  *)
(* prefix and by the empty prefix, which every key has.                           *)
EXTENDS Watcher

MCKey == {<<"a">>, <<"a", "b">>}
MCEmptyPrefix == [prefix |-> TRUE, key |-> <<>>]
MCNamed == {[prefix |-> FALSE, key |-> <<"a">>], [prefix |-> TRUE, key |-> <<"a">>]}
MCPattern == MCNamed \cup {MCEmptyPrefix}
=============================================================================
