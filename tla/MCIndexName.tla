----------------------------- MODULE MCIndexName -----------------------------
(* Field names in the snake_case the entity labels use, and a bad direction. *)
EXTENDS IndexName

MCKeyNames == {"host", "name", "host_name"}

MCDirections == {1, -1, 0}

=============================================================================
