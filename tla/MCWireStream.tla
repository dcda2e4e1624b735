---------------------------- MODULE MCWireStream ----------------------------
(***************************************************************************)
(* Streams for WireStream, with payload groups of four bits, so octets of  *)
(* five, and blocks of at most 16 octets, which need two octets for their  *)
(* length as the largest blocks of the code do: objects of the encoder,    *)
(* the largest among them, and octets no encoder writes.                   *)
(***************************************************************************)
EXTENDS WireStream

Degraded ==
    [kind |-> "DEGRADED_STATE", priority |-> 2,
     body |-> [source_ref |-> <<0, 7>>, affected_capability |-> 3, health |-> 12,
               severity |-> 4, ttl |-> 8]]

\* The largest fixed body.
Offer ==
    [kind |-> "TRANSPORT_OFFER", priority |-> 0,
     body |-> [source_ref |-> <<0, 7>>, migration_ref |-> <<1, 1>>, transport_id |-> 1,
               profile_id |-> 2, endpoint_token |-> <<0, 9>>, validity |-> 20]]

Presence ==
    [kind |-> "PRESENCE", priority |-> 1,
     body |-> [source_ref |-> <<0, 9>>, machine_class |-> 0, capability_tag |-> 66051,
               ttl |-> 5]]

Ext(id, critical, value) == [id |-> id, critical |-> critical, value |-> value]

WithExtensions(o, list) ==
    [octets |-> Canonical(o, list), content |-> [object |-> o, list |-> list]]

Plain   == WithExtensions(Degraded, <<>>)
Stable  == [octets |-> FixedEncoding(STABLE_MAJOR, Presence),
            content |-> [object |-> Presence, list |-> <<>>]]
\* Critical and understood, then an unknown one that need not be.
Mixed   == WithExtensions(Degraded, <<Ext(1, 1, <<6>>), Ext(3, 0, <<>>)>>)
Largest == WithExtensions(Offer, <<Ext(1, 1, [k \in 1 .. 14 |-> 2 * k])>>)
Unknown == WithExtensions(Degraded, <<Ext(1, 1, <<6>>), Ext(2, 1, <<>>)>>)

\* A body that promises a block, and something else behind it.
Broken(tail) ==
    [octets |-> [Plain.octets EXCEPT ![2] = @ + 1] \o tail,
     content |-> [object |-> NoObject, list |-> <<>>]]

\* No octets behind it make it an object, and only the full buffer ends the wait.
Overrun == Broken(<<3, 3, 2, 0>>)

Bad == {Unknown,
        Broken(<<0>>),          \* an empty block
        Broken(<<17, 1>>),      \* one octet too long
        Broken(<<2, 0, 0>>)}    \* an extension with id 0

StreamsSent ==
    {<<Stable, Mixed>>, <<Largest, Plain>>, <<Overrun, Largest>>, <<Plain, Overrun>>,
     <<Mixed, Unknown>>}
        \cup {<<bad, Plain>> : bad \in Bad}
=============================================================================
