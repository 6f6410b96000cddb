------------------------------ MODULE MCProxy -------------------------------
EXTENDS Proxy

MCSends == [c \in Clients |-> IF c = 1 THEN Messages ELSE {"get"}]
MCCrowds == {{1}, {2, 3}}
MCBounds ==
    [crowd \in MCCrowds |->
        IF crowd = {1} THEN [faults |-> 1, signals |-> 1, chunks |-> 2, addresses |-> 2]
        ELSE [faults |-> 0, signals |-> 0, chunks |-> 1, addresses |-> 1]]
=============================================================================
