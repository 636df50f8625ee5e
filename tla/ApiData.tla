------------------------------ MODULE ApiData -------------------------------
(***************************************************************************)
(* The data that the services behind the API share.                        *)
(***************************************************************************)
EXTENDS Naturals, Sequences, FiniteSets, TLC, Functions

CONSTANTS None,                \* undefined, null: a field without a value
          Repos                \* repository URLs whose provider is known

(* A Map of the code with one key set, and with one key deleted.           *)
Put(map, key, value) == [k \in DOMAIN map \cup {key} |-> IF k = key THEN value ELSE map[k]]
Drop(map, key)       == [k \in DOMAIN map \ {key} |-> map[k]]

(* A record with more fields, as a request gets them on its way.           *)
With(record, more) ==
    [f \in DOMAIN record \cup DOMAIN more |-> IF f \in DOMAIN record THEN record[f] ELSE more[f]]

=============================================================================
