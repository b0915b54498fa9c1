--------------------------- MODULE MCCreationGate ---------------------------
(* Instances of CreationGate for TLC.                                      *)
EXTENDS CreationGate

CONSTANTS goodKey, badKey, public, private

Name == [web |-> TRUE, host |-> "name", address |-> None]
Literal(a) == [web |-> TRUE, host |-> "literal", address |-> a]

Body(key, url, alias, ttl) == [key |-> key, url |-> url, alias |-> alias, ttl |-> ttl]

\* One body for each way through the gate.
AllBodies ==
    {Body(badKey, Name, "none", "none"),
     Body(goodKey, Name, "valid", "none"),
     Body(goodKey, Literal(public), "none", "valid"),
     Body(goodKey, Literal(private), "none", "none"),
     Body(goodKey, Name, "none", "invalid")}

MCAnswers == {{public}, {public, private}}
=============================================================================
