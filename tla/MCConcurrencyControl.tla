------------------------- MODULE MCConcurrencyControl -------------------------
(* Capacities for ConcurrencyControl: -1 (enforcement off), 1 and 2. *)
EXTENDS ConcurrencyControl

MCCapChoices == {-1, 1, 2}

====
