---------------------------- MODULE MCTier0Codec ----------------------------
(***************************************************************************)
(* Objects of every kind whose fields take the values at the edges of      *)
(* their widths, one field at a time around two plain objects, and the     *)
(* first values on either side that do not fit.                            *)
(***************************************************************************)
EXTENDS Tier0Codec

Refs == {<<0, 1>>, <<65535, 65534>>}

\* Values to try in a field: its edges and, where the C type can hold them, the
\* values just outside.
EdgesOf(field) ==
    IF field.width = 32 THEN Refs
    ELSE IF field.signed
         THEN {-(2^(field.width - 1)) - 1, -(2^(field.width - 1)), -1, 0,
               2^(field.width - 1) - 1, 2^(field.width - 1)}
    ELSE IF field.width = 8 THEN {0, 1, 255}
    ELSE {0, 1, 2^field.width - 1, 2^field.width}

FieldsOf(kind) == ToSet(LayoutWritten(EXPERIMENTAL_MAJOR, kind))

Low(field)  == IF field.width = 32 THEN <<1, 2>> ELSE IF field.signed THEN -3 ELSE 2
High(field) == IF field.width = 32 THEN <<65535, 65535>>
               ELSE 2^(IF field.signed THEN field.width - 1 ELSE field.width) - 1

BodyWith(kind, Value(_)) ==
    [name \in Members(kind) |->
        Value(CHOOSE field \in FieldsOf(kind) : field.name = name)]

PlainOf(kind) ==
    {[kind |-> kind, priority |-> 1, body |-> BodyWith(kind, Low)],
     [kind |-> kind, priority |-> 3, body |-> BodyWith(kind, High)]}

EdgesAround(o) ==
    UNION {{[o EXCEPT !.body[field.name] = value] : value \in EdgesOf(field)} :
              field \in FieldsOf(o.kind)}
        \cup {[o EXCEPT !.priority = 4]}

PlainObjects == UNION {PlainOf(kind) : kind \in Kind}
EdgeObjects  == PlainObjects \cup UNION {EdgesAround(o) : o \in PlainObjects}
=============================================================================
