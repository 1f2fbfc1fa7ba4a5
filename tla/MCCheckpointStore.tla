---------------------------- MODULE MCCheckpointStore ----------------------------
EXTENDS CheckpointStore

CONSTANTS s1, s2, g1, g2

\* One provider of each kind: a row, a queue, a browser session and a file.
FourProviders == <<"postgres", "rabbitmq", "browser_session", "filesystem">>
TwoProviders  == <<"postgres", "rabbitmq">>

\* Each process commits generations of its own, or both commit the same one.
Apart    == [s \in Stores |-> IF s = s1 THEN {g1} ELSE {g2}]
Together == [s \in Stores |-> {g1}]
===============================================================================
