------------------------------ MODULE OrderCodec ------------------------------
(***************************************************************************)
(* The data of the order API: the values of Go, their JSON and back, and   *)
(* the validators.  Generated code of shared/pkg/openapi/order/v1 and the  *)
(* price format of order/internal/converter/order.go.                      *)
(*                                                                         *)
(* A JSON value is a record with one field that names its kind.  A Go      *)
(* struct is a record; an optional field is a record [set, null, value], a *)
(* slice a record [nil, elems].  A result of decoding is Ok(v) or Failed.  *)
(* The text of a price is a record [minus, units, frac]: the sign, the     *)
(* number before the point and the sequence of digits after it.  Every     *)
(* other text is a string; nothing reads a price where a text was written. *)
(***************************************************************************)
EXTENDS Integers, Sequences

CONSTANTS UUIDs,    \* the canonical texts of uuids
          NilUUID,  \* uuid.Nil, a uuid as good as any other on the wire
          Texts     \* texts of messages

ASSUME UUIDsAssumption == NilUUID \in UUIDs
ASSUME TextsAssumption == "" \in Texts

Ok(v) == [ok |-> TRUE, value |-> v]
Failed == [ok |-> FALSE]

Str(s) == [str |-> s]
Dec(d) == [dec |-> d]
Num(n) == [num |-> n]
Null == [null |-> TRUE]
Arr(s) == [arr |-> s]
Obj(f) == [obj |-> f]

Is(kind, j) == DOMAIN j = {kind}

Opt(v) == [set |-> TRUE, null |-> FALSE, value |-> v]
NullOf(zero) == [set |-> TRUE, null |-> TRUE, value |-> zero]
Unset(zero) == [set |-> FALSE, null |-> FALSE, value |-> zero]
Slice(s) == [nil |-> FALSE, elems |-> s]
NilSlice == [nil |-> TRUE, elems |-> << >>]

IsInt32(n) == -2147483647 <= n + 1 /\ n <= 2147483647
Statuses == {"PENDING_PAYMENT", "PAID", "COMPLETED", "CANCELLED"}
Methods == {"PAYMENT_METHOD_UNKNOWN", "PAYMENT_METHOD_CARD",
            "PAYMENT_METHOD_SBP", "PAYMENT_METHOD_CREDIT_CARD",
            "PAYMENT_METHOD_INVESTOR_MONEY"}

(***************************************************************************)
(* formatCents: the sign, the whole units and always two digits of cents.  *)
(***************************************************************************)
Digits(n) == <<n \div 10, n % 10>>
\* Fault: %d in place of %02d.
formatCentsUnpadded(cents) ==
    LET abs == IF cents < 0 THEN -cents ELSE cents
        rest == abs % 100
    IN  [minus |-> cents < 0, units |-> abs \div 100,
         frac |-> IF rest < 10 THEN <<rest>> ELSE Digits(rest)]
formatCents(cents) ==
    LET abs == IF cents < 0 THEN -cents ELSE cents
    IN  [minus |-> cents < 0, units |-> abs \div 100, frac |-> Digits(abs % 100)]

-----------------------------------------------------------------------------
(* One field: its JSON, and what is read from a JSON value. *)

DecodeUUID(j) == IF Is("str", j) /\ j.str \in UUIDs THEN Ok(j.str) ELSE Failed
DecodeStr(j) == IF Is("str", j) THEN Ok(j.str) ELSE Failed
DecodePrice(j) == IF Is("dec", j) THEN Ok(j.dec) ELSE Failed

\* Fault: the slice is made with its length and then appended to.
DecodeUUIDsPadded(j) ==
    IF Is("arr", j) /\ \A i \in DOMAIN j.arr : DecodeUUID(j.arr[i]).ok
    THEN Ok(Slice([i \in DOMAIN j.arr |-> NilUUID] \o [i \in DOMAIN j.arr |-> j.arr[i].str]))
    ELSE Failed
EncodeElems(s) == Arr([i \in DOMAIN s.elems |-> Str(s.elems[i])])
DecodeUUIDs(j) ==
    IF Is("arr", j) /\ \A i \in DOMAIN j.arr : DecodeUUID(j.arr[i]).ok
    THEN Ok(Slice([i \in DOMAIN j.arr |-> DecodeUUID(j.arr[i]).value]))
    ELSE Failed
DecodeStrs(j) ==
    IF Is("arr", j) /\ \A i \in DOMAIN j.arr : DecodeStr(j.arr[i]).ok
    THEN Ok(Slice([i \in DOMAIN j.arr |-> DecodeStr(j.arr[i]).value]))
    ELSE Failed

\* Any string decodes as a status or a method: the validators refuse it later.
DecodeOrderStatus(j) == DecodeStr(j)
DecodePaymentMethod(j) == DecodeStr(j)

EncodeOptInt32(o) == Num(o.value)
DecodeOptInt32(j) == IF Is("num", j) /\ IsInt32(j.num) THEN Ok(Opt(j.num)) ELSE Failed

EncodeOptString(o) == Str(o.value)
DecodeOptString(j) == IF Is("str", j) THEN Ok(Opt(j.str)) ELSE Failed

EncodeOptNilUUID(o) == IF o.null THEN Null ELSE Str(o.value)
DecodeOptNilUUID(j) ==
    IF Is("null", j) THEN Ok(NullOf(NilUUID))
    ELSE IF DecodeUUID(j).ok THEN Ok(Opt(DecodeUUID(j).value)) ELSE Failed

EncodeOptNilPaymentMethod(o) == IF o.null THEN Null ELSE Str(o.value)
DecodeOptNilPaymentMethod(j) ==
    IF Is("null", j) THEN Ok(NullOf(""))
    ELSE IF DecodePaymentMethod(j).ok THEN Ok(Opt(DecodePaymentMethod(j).value))
    ELSE Failed

-----------------------------------------------------------------------------
(***************************************************************************)
(* Structs.  A schema gives the kind of every field, the fields that must  *)
(* be there, and whether a field it does not know is an error (closed) or  *)
(* skipped.                                                                *)
(***************************************************************************)

Closed(fields) == [fields |-> fields, required |-> {}, closed |-> TRUE]
Open(fields, required) == [fields |-> fields, required |-> required, closed |-> FALSE]
GenericError == Closed([code |-> "OptInt32", message |-> "OptString"])

BadGatewayError == GenericError
BadRequestError == GenericError
ConflictError == GenericError
ForbiddenError == GenericError
InternalServerError == GenericError
NotFoundError == GenericError
RateLimitError == GenericError
ServiceUnavailableError == GenericError
UnauthorizedError == GenericError
ValidationError ==
    Closed([code |-> "OptInt32", message |-> "OptString", details |-> "strings"])
CreateOrderRequest ==
    Open([user_uuid |-> "UUID", part_uuids |-> "UUIDs"], {"user_uuid", "part_uuids"})
CreateOrderResponse ==
    Open([uuid |-> "UUID", total_price |-> "price"], {"uuid", "total_price"})
PayOrderRequest == Open([payment_method |-> "PaymentMethod"], {"payment_method"})
PayOrderResponse == Open([transaction_uuid |-> "UUID"], {"transaction_uuid"})
OrderFields ==
    [order_uuid |-> "UUID", user_uuid |-> "UUID", part_uuids |-> "UUIDs",
     total_price |-> "price", transaction_uuid |-> "OptNilUUID",
     payment_method |-> "OptNilPaymentMethod", status |-> "OrderStatus"]
Order == Open(OrderFields,
              {"order_uuid", "user_uuid", "part_uuids", "total_price", "status"})

Schema ==
    [BadGatewayError |-> BadGatewayError, BadRequestError |-> BadRequestError,
     ConflictError |-> ConflictError, ForbiddenError |-> ForbiddenError,
     InternalServerError |-> InternalServerError, NotFoundError |-> NotFoundError,
     RateLimitError |-> RateLimitError, UnauthorizedError |-> UnauthorizedError,
     ServiceUnavailableError |-> ServiceUnavailableError,
     ValidationError |-> ValidationError, Order |-> Order,
     CreateOrderRequest |-> CreateOrderRequest, PayOrderRequest |-> PayOrderRequest,
     CreateOrderResponse |-> CreateOrderResponse, PayOrderResponse |-> PayOrderResponse]

\* An optional field that is not set and a nil slice of texts are left out.
Present(kind, v) == CASE kind \in {"OptInt32", "OptString", "OptNilUUID",
                                   "OptNilPaymentMethod"} -> v.set
                      [] kind = "strings" -> ~v.nil
                      [] OTHER -> TRUE

EncodeField(kind, v) ==
    CASE kind \in {"UUID", "OrderStatus", "PaymentMethod"} -> Str(v)
      [] kind = "price" -> Dec(v)
      [] kind \in {"UUIDs", "strings"} -> EncodeElems(v)
      [] kind = "OptInt32" -> EncodeOptInt32(v)
      [] kind = "OptString" -> EncodeOptString(v)
      [] kind = "OptNilUUID" -> EncodeOptNilUUID(v)
      [] kind = "OptNilPaymentMethod" -> EncodeOptNilPaymentMethod(v)

DecodeField(kind, j) ==
    CASE kind = "UUID" -> DecodeUUID(j)
      [] kind = "OrderStatus" -> DecodeOrderStatus(j)
      [] kind = "PaymentMethod" -> DecodePaymentMethod(j)
      [] kind = "price" -> DecodePrice(j)
      [] kind = "UUIDs" -> DecodeUUIDs(j)
      [] kind = "strings" -> DecodeStrs(j)
      [] kind = "OptInt32" -> DecodeOptInt32(j)
      [] kind = "OptString" -> DecodeOptString(j)
      [] kind = "OptNilUUID" -> DecodeOptNilUUID(j)
      [] kind = "OptNilPaymentMethod" -> DecodeOptNilPaymentMethod(j)

\* What a field holds when the object does not have it.
ZeroField(kind) ==
    CASE kind = "UUID" -> NilUUID
      [] kind \in {"OrderStatus", "PaymentMethod"} -> ""
      [] kind = "price" -> [minus |-> FALSE, units |-> 0, frac |-> << >>]
      [] kind \in {"UUIDs", "strings"} -> NilSlice
      [] kind = "OptInt32" -> Unset(0)
      [] kind = "OptString" -> Unset("")
      [] kind = "OptNilUUID" -> Unset(NilUUID)
      [] kind = "OptNilPaymentMethod" -> Unset("")

Encode(schema, v) ==
    Obj([f \in {f \in DOMAIN schema.fields : Present(schema.fields[f], v[f])}
            |-> EncodeField(schema.fields[f], v[f])])

Decodes(schema, j) ==
    /\ Is("obj", j)
    /\ schema.closed => DOMAIN j.obj \subseteq DOMAIN schema.fields
    /\ schema.required \subseteq DOMAIN j.obj
    /\ \A f \in DOMAIN j.obj \cap DOMAIN schema.fields :
           DecodeField(schema.fields[f], j.obj[f]).ok

Decoded(schema, j) ==
    [f \in DOMAIN schema.fields |->
        IF f \in DOMAIN j.obj THEN DecodeField(schema.fields[f], j.obj[f]).value
        ELSE ZeroField(schema.fields[f])]

-----------------------------------------------------------------------------
(* The validators: those of the requests run in the server, those of the   *)
(* answers in the client, and nobody validates what it is about to send.   *)

PriceMatches(p) == p.units >= 0 /\ Len(p.frac) = 2

ValidOrderStatus(s) == s \in Statuses
ValidPaymentMethod(m) == m \in Methods
ValidCreateOrderRequest(r) == ~r.part_uuids.nil
ValidPayOrderRequest(r) == ValidPaymentMethod(r.payment_method)
ValidCreateOrderResponse(r) == PriceMatches(r.total_price)
ValidOrder(o) ==
    /\ ~o.part_uuids.nil
    /\ PriceMatches(o.total_price)
    /\ o.payment_method.set /\ ~o.payment_method.null =>
           ValidPaymentMethod(o.payment_method.value)
    /\ ValidOrderStatus(o.status)

Validates(type, v) ==
    CASE type = "CreateOrderRequest" -> ValidCreateOrderRequest(v)
      [] type = "PayOrderRequest" -> ValidPayOrderRequest(v)
      [] type = "CreateOrderResponse" -> ValidCreateOrderResponse(v)
      [] type = "Order" -> ValidOrder(v)
      [] OTHER -> TRUE

\* Decode and validate a document as a value of the type.
Parses(type, j) ==
    Decodes(Schema[type], j) /\ Validates(type, Decoded(Schema[type], j))

=============================================================================
