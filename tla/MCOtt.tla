-------------------------------- MODULE MCOtt --------------------------------
EXTENDS Ott
InOrder == <<"classic", "random">>
Triples == [t \in Tables |-> [p \in 1 .. Places |-> IF p = 1 THEN 2 ELSE 1]]
=============================================================================
