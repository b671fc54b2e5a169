------------------------------ MODULE MCOrderAPI ------------------------------
(* Instances of OrderAPI: two uuids and uuid.Nil, three prices. *)
EXTENDS OrderAPI

MCNothing == {}
MCUUIDs == {"nil", "u1", "u2"}
MCSlices == {NilSlice, Slice(<< >>), Slice(<<"u1">>), Slice(<<"u1", "u2">>), Slice(<<"u2", "u2">>)}
MCCreateBodies == [user_uuid : {"nil", "u2"}, part_uuids : MCSlices]
\* A client may leave the method empty: nothing checks it before it is sent.
MCPayBodies == [payment_method : Methods \cup {""}]

MCOrder(tx, pm, status, total, parts) ==
    [id |-> "nil", user |-> "u2", parts |-> parts, total |-> total, tx |-> tx,
     method |-> pm, status |-> status]
MCOrders ==
    {MCOrder(None, None, s, t, p) : s \in {"PENDING_PAYMENT", "CANCELLED"}, t \in {5, 1234},
                                    p \in {<<"u1">>, <<"u2", "u1">>}}
    \cup {MCOrder("u1", pm, s, 100, <<"u1">>) : s \in {"PAID", "COMPLETED", "CANCELLED"},
                                    pm \in Methods \ {"PAYMENT_METHOD_UNKNOWN"}}

\* Every path of up to four pieces after the base, and paths beside it.
MCPieces == {"/", "%2F", "u1", "cancel", "pay"}
MCPaths ==
    {<<Base>> \o p : p \in UNION {[1..n -> MCPieces] : n \in 0..4}}
    \cup {<< >>, <<"/">>, <<"/health">>, <<"/", Base>>, <<Base, "/", "u1", "/", "pay", "/">>}
MCPayDocument == Obj([payment_method |-> Str("PAYMENT_METHOD_CARD")])
MCCreateDocument == Obj([user_uuid |-> Str("u2"), part_uuids |-> Arr(<<Str("u1")>>)])
MCRaw(method, path, ctype, body) ==
    [op |-> "none", id |-> NilUUID, arg |-> NoBody, method |-> method, path |-> path,
     ctype |-> ctype, body |-> body]
\* Any body on the two paths that take one: fields missing, unknown, null, of
\* another type, two documents, no document, other media types.
MCDocuments ==
    {Bad, Null, Arr(<< >>), Obj([x \in {} |-> Null]), MCPayDocument, MCCreateDocument,
     Obj([payment_method |-> Str("PAYMENT_METHOD_CARD"), other |-> Null])}
    \cup {Obj([payment_method |-> j]) : j \in {Null, Num(1), Str("CARD"), Str("")}}
    \cup {Obj([user_uuid |-> j, part_uuids |-> k]) :
             j \in {Str("u1"), Str("x"), Null},
             k \in {Arr(<< >>), Arr(<<Str("u1"), Str("u1")>>), Arr(<<Str("x")>>), Null, Str("u1")}}
    \cup {Obj([user_uuid |-> Str("u1")]), Obj([part_uuids |-> Arr(<< >>)])}
MCBodies == {NoBody} \cup {<<d>> : d \in MCDocuments}
            \cup {<<MCPayDocument, Bad>>, <<MCCreateDocument, MCCreateDocument>>}
MCRawRequests ==
    {MCRaw(m, p, JSON, <<d>>) : m \in {"GET", "POST", "OPTIONS"}, p \in MCPaths,
                                d \in {MCPayDocument, MCCreateDocument}}
    \cup {MCRaw("POST", p, c, b) : p \in {<<Base>>, <<Base, "/", "u1", "/", "pay">>},
                                   c \in {"", "text/plain", JSON}, b \in MCBodies}
=============================================================================
