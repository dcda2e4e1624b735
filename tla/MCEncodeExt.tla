---------------------------- MODULE MCEncodeExt ----------------------------
(***************************************************************************)
(* Two settings of the extension encoder.  A scaled one, with payload      *)
(* groups of two bits and blocks of at most 7 octets (which also need a    *)
(* length of two octets), tries pairs of extensions over the edges of ids  *)
(* and lengths, with room for just an object or one octet less.  The other *)
(* has the real 7-bit groups and 256-octet blocks.                         *)
(***************************************************************************)
EXTENDS EncodeExt

Degraded(priority) ==
    [kind |-> "DEGRADED_STATE", priority |-> priority,
     body |-> [source_ref |-> <<0, 7>>, affected_capability |-> 3, health |-> 127,
               severity |-> 5, ttl |-> 1]]

Offer == [kind |-> "TRANSPORT_OFFER", priority |-> 0,
          body |-> [source_ref |-> <<0, 7>>, migration_ref |-> <<1, 1>>, transport_id |-> 1,
                    profile_id |-> 2, endpoint_token |-> <<0, 9>>, validity |-> 200]]

Values(sizes) == {[k \in 1 .. n |-> 6] : n \in sizes}

Extensions(ids, criticals, sizes) ==
    [id : ids, critical : criticals, value : Values(sizes)]

ListsOf(S, length) == UNION {[1 .. n -> S] : n \in 0 .. length}

SmallObjects == {Degraded(2), Degraded(4), Offer}
SmallLists ==
    ListsOf(Extensions({1, 7}, {1}, {0, 1, 4, 5}), 2)
        \cup ListsOf(Extensions({0, 1, 2, 3, 255, 256}, {1}, {0}), 2)
        \cup ListsOf(Extensions({1, 2, 3}, {0}, {0}), 3)
        \cup ListsOf(Extensions({1}, {2}, {0}), 1)
SmallCapacities == {0, 10, 11, 12, 14, 15, 18, 19, 25, 26}

LargeObjects == {Degraded(0), Offer}
LargeLists ==
    ListsOf(Extensions({1, 63, 64, 536870911}, {1}, {0, 127, 128, 251, 252, 253, 254}), 2)
=============================================================================
