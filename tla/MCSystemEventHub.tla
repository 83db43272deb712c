-------------------------- MODULE MCSystemEventHub --------------------------
(* Two event classes, one a subclass of the other, and two consumers of    *)
(* the one and one of the other.                                           *)
EXTENDS SystemEventHub

MCTypes == {"base", "derived"}
MCSupers == [t \in MCTypes |-> IF t = "base" THEN {"base"} ELSE {"base", "derived"}]
MCConsumers == {"a", "b", "d"}
MCTypeOf == [c \in MCConsumers |-> IF c = "d" THEN "derived" ELSE "base"]
=============================================================================
