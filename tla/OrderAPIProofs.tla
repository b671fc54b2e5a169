--------------------------- MODULE OrderAPIProofs ---------------------------
(***************************************************************************)
(* The order API for any uuids, orders, prices, bodies, paths and clients, *)
(* over a connection that fails and repeats: what the server writes the    *)
(* client reads, field by field and struct by struct, what is served is    *)
(* what the description declares, what is read is what was answered, and   *)
(* the whole path is a remote call.                                        *)
(***************************************************************************)
EXTENDS OrderAPI, SequenceTheorems, WellFoundedInduction, TLAPS

-----------------------------------------------------------------------------
(* Fields. *)

\* A result of decoding that is a value is no failure.
LEMMA OkIsOk ==
  ASSUME NEW r, NEW v, r = Ok(v)
  PROVE  r.ok /\ r.value = v
<1>1. r.ok = TRUE /\ r.value = v
  BY DEF Ok
<1> QED BY <1>1

\* A field of this kind that holds v is written, and read back as w.
Travels(kind, v, w) ==
  /\ Present(kind, v)
  /\ DecodeField(kind, EncodeField(kind, v)) = Ok(w)

\* A uuid is read as it was written.
LEMMA UUIDTravels ==
  ASSUME NEW u \in UUIDs
  PROVE  Travels("UUID", u, u)
BY DEF Travels, Present, DecodeField, EncodeField, DecodeUUID, Str, Is

\* So is the text of a status or of a method, whatever it says.
LEMMA TextTravels ==
  ASSUME NEW t
  PROVE  Travels("OrderStatus", t, t) /\ Travels("PaymentMethod", t, t)
BY DEF Travels, Present, DecodeField, EncodeField, DecodeOrderStatus,
       DecodePaymentMethod, DecodeStr, Str, Is

\* And the text of a price.
LEMMA PriceTravels ==
  ASSUME NEW p
  PROVE  Travels("price", p, p)
BY DEF Travels, Present, DecodeField, EncodeField, DecodePrice, Dec, Is

\* A slice of uuids is read with the same elements, and is no longer nil.
LEMMA UUIDsTravel ==
  ASSUME NEW s, s.elems \in Seq(UUIDs)
  PROVE  Travels("UUIDs", s, Slice(s.elems))
<1> DEFINE strs == [i \in DOMAIN s.elems |-> Str(s.elems[i])]
<1>1. \A i \in DOMAIN s.elems : s.elems[i] \in UUIDs
  OBVIOUS
<1>2. \A i \in DOMAIN s.elems : DecodeUUID(strs[i]) = Ok(s.elems[i])
  BY <1>1 DEF DecodeUUID, Str, Is
<1>3. EncodeField("UUIDs", s) = Arr(strs) /\ Present("UUIDs", s)
  BY DEF EncodeField, EncodeElems, Present
<1>4. \A j : DecodeField("UUIDs", j) = DecodeUUIDs(j)
  BY DEF DecodeField
<1>5. DOMAIN strs = DOMAIN s.elems
  OBVIOUS
<1>6. [i \in DOMAIN strs |-> DecodeUUID(strs[i]).value] = s.elems
  <2>1. [i \in DOMAIN strs |-> DecodeUUID(strs[i]).value] = [i \in DOMAIN s.elems |-> s.elems[i]]
    BY <1>2, <1>5, OkIsOk
  <2>2. s.elems = [i \in DOMAIN s.elems |-> s.elems[i]]
    OBVIOUS
  <2> QED BY <2>1, <2>2
<1> HIDE DEF strs
<1>7. Is("arr", Arr(strs)) /\ Arr(strs).arr = strs
  BY DEF Is, Arr
<1>8. \A i \in DOMAIN strs : DecodeUUID(strs[i]).ok
  BY <1>2, <1>5, OkIsOk
<1>9. DecodeUUIDs(Arr(strs)) = Ok(Slice(s.elems))
  BY <1>6, <1>7, <1>8 DEF DecodeUUIDs
<1> QED BY <1>3, <1>4, <1>9 DEF Travels

\* An optional number that is set and has 32 bits is read as it was written,
\* and so is an optional text that is set.
LEMMA OptInt32Travels ==
  ASSUME NEW n, IsInt32(n)
  PROVE  Travels("OptInt32", Opt(n), Opt(n))
BY DEF Travels, Present, DecodeField, EncodeField, EncodeOptInt32,
       DecodeOptInt32, Num, Is, Opt

\* An optional text that is set is read as it was written.
LEMMA OptStringTravels ==
  ASSUME NEW t
  PROVE  Travels("OptString", Opt(t), Opt(t))
BY DEF Travels, Present, DecodeField, EncodeField, EncodeOptString,
       DecodeOptString, Str, Is, Opt

\* An optional uuid or method that may be null is read as it was written.
LEMMA OptNilUUIDTravels ==
  ASSUME NEW o, o = NullOf(NilUUID) \/ \E u \in UUIDs : o = Opt(u)
  PROVE  Travels("OptNilUUID", o, o)
<1>1. CASE o = NullOf(NilUUID)
  BY <1>1 DEF Travels, Present, DecodeField, EncodeField, EncodeOptNilUUID,
     DecodeOptNilUUID, Null, NullOf, Is
<1>2. ASSUME NEW u \in UUIDs, o = Opt(u)
      PROVE  Travels("OptNilUUID", o, o)
  <2>1. /\ EncodeField("OptNilUUID", o) = Str(u) /\ Present("OptNilUUID", o)
    BY <1>2 DEF EncodeField, EncodeOptNilUUID, Opt, Present
  <2>2. ~Is("null", Str(u)) /\ Is("str", Str(u)) /\ Str(u).str = u
    BY DEF Is, Str
  <2>3. DecodeUUID(Str(u)) = Ok(u)
    BY <2>2 DEF DecodeUUID
  <2>4. DecodeOptNilUUID(Str(u)) = Ok(Opt(u))
    BY <2>2, <2>3, OkIsOk DEF DecodeOptNilUUID
  <2> QED BY <1>2, <2>1, <2>4 DEF Travels, DecodeField
<1> QED BY <1>1, <1>2

\* An optional method that is set or null is read as it was written.
LEMMA OptNilPaymentMethodTravels ==
  ASSUME NEW o, o = NullOf("") \/ \E t : o = Opt(t)
  PROVE  Travels("OptNilPaymentMethod", o, o)
<1>1. CASE o = NullOf("")
  BY <1>1 DEF Travels, Present, DecodeField, EncodeField, EncodeOptNilPaymentMethod,
     DecodeOptNilPaymentMethod, Null, NullOf, Is
<1>2. ASSUME NEW t, o = Opt(t)
      PROVE  Travels("OptNilPaymentMethod", o, o)
  <2>1. EncodeField("OptNilPaymentMethod", o) = Str(t) /\ Present("OptNilPaymentMethod", o)
    BY <1>2 DEF EncodeField, EncodeOptNilPaymentMethod, Opt, Present
  <2>2. ~Is("null", Str(t)) /\ Is("str", Str(t)) /\ Str(t).str = t
    BY DEF Is, Str
  <2>3. DecodePaymentMethod(Str(t)) = Ok(t)
    BY <2>2 DEF DecodePaymentMethod, DecodeStr
  <2>4. DecodeOptNilPaymentMethod(Str(t)) = Ok(Opt(t))
    BY <2>2, <2>3, OkIsOk DEF DecodeOptNilPaymentMethod
  <2> QED BY <1>2, <2>1, <2>4 DEF Travels, DecodeField
<1> QED BY <1>1, <1>2

-----------------------------------------------------------------------------
(* Structs. *)

\* A field holds w for the reader: it travelled, or it was left out and its
\* zero value is w.
Arrives(kind, v, w) ==
  Travels(kind, v, w) \/ (~Present(kind, v) /\ w = ZeroField(kind))

\* The fields of v arrive in w, and the required ones are there.
FieldsArrive(schema, v, w) ==
  /\ w = [f \in DOMAIN schema.fields |-> w[f]]
  /\ \A f \in DOMAIN schema.fields : Arrives(schema.fields[f], v[f], w[f])
  /\ \A f \in schema.required :
       f \in DOMAIN schema.fields /\ Present(schema.fields[f], v[f])

\* A struct whose fields arrive is read as written, whatever the schema: the
\* object has the required fields and no unknown one.
LEMMA StructTravels ==
  ASSUME NEW schema, NEW v, NEW w, FieldsArrive(schema, v, w)
  PROVE  /\ Decodes(schema, Encode(schema, v))
         /\ Decoded(schema, Encode(schema, v)) = w
<1> DEFINE Shown == {f \in DOMAIN schema.fields : Present(schema.fields[f], v[f])}
           object == [f \in Shown |-> EncodeField(schema.fields[f], v[f])]
<1>1. Encode(schema, v) = Obj(object)
  BY DEF Encode
<1>2. Is("obj", Obj(object)) /\ Obj(object).obj = object
  BY DEF Is, Obj
<1>3. \A f \in Shown : DecodeField(schema.fields[f], object[f]) = Ok(w[f])
  BY DEF FieldsArrive, Arrives, Travels
<1>4. \A f \in DOMAIN schema.fields \ Shown : ZeroField(schema.fields[f]) = w[f]
  BY DEF FieldsArrive, Arrives, Travels
<1>5. DOMAIN object = Shown /\ Shown \subseteq DOMAIN schema.fields
      /\ schema.required \subseteq Shown
  BY DEF FieldsArrive
<1> HIDE DEF object, Shown
<1>6. Decodes(schema, Encode(schema, v))
  <2>1. \A f \in Shown : DecodeField(schema.fields[f], object[f]).ok
    BY <1>3, OkIsOk
  <2> QED BY <1>1, <1>2, <1>5, <2>1 DEF Decodes
<1>7. Decoded(schema, Encode(schema, v))
        = [f \in DOMAIN schema.fields |->
             IF f \in Shown THEN DecodeField(schema.fields[f], object[f]).value
             ELSE ZeroField(schema.fields[f])]
  BY <1>1, <1>2, <1>5 DEF Decoded
<1>8. \A f \in DOMAIN schema.fields :
        (IF f \in Shown THEN DecodeField(schema.fields[f], object[f]).value
         ELSE ZeroField(schema.fields[f])) = w[f]
  BY <1>3, <1>4, OkIsOk
<1> QED BY <1>6, <1>7, <1>8 DEF FieldsArrive

\* The errors that handlers answer are read as they were written.
LEMMA ErrorTravels ==
  ASSUME NEW c, IsInt32(c), NEW m,
         NEW v, v = [code |-> Opt(c), message |-> Opt(m)]
  PROVE  /\ Decodes(GenericError, Encode(GenericError, v))
         /\ Decoded(GenericError, Encode(GenericError, v)) = v
<1> DEFINE schema == GenericError
<1>1. /\ DOMAIN schema.fields = {"code", "message"} /\ schema.required = {}
      /\ schema.fields["code"] = "OptInt32" /\ schema.fields["message"] = "OptString"
  BY DEF GenericError, Closed
<1>2. v["code"] = Opt(c) /\ v["message"] = Opt(m)
      /\ v = [f \in {"code", "message"} |-> v[f]]
  OBVIOUS
<1>3. Travels("OptInt32", v["code"], v["code"]) /\ Travels("OptString", v["message"], v["message"])
  BY <1>2, OptInt32Travels, OptStringTravels
<1> HIDE DEF schema
<1>4. \A f \in DOMAIN schema.fields : Arrives(schema.fields[f], v[f], v[f])
  BY <1>1, <1>3 DEF Arrives
<1>5. FieldsArrive(schema, v, v)
  BY <1>1, <1>2, <1>4 DEF FieldsArrive
<1> QED BY <1>5, StructTravels DEF schema

\* A validation error arrives as it was encoded.
LEMMA ValidationErrorTravels ==
  ASSUME NEW c, IsInt32(c), NEW m,
         NEW v, v = [code |-> Opt(c), message |-> Opt(m), details |-> NilSlice]
  PROVE  /\ Decodes(ValidationError, Encode(ValidationError, v))
         /\ Decoded(ValidationError, Encode(ValidationError, v)) = v
<1> DEFINE schema == ValidationError
<1>1. /\ DOMAIN schema.fields = {"code", "message", "details"} /\ schema.required = {}
      /\ schema.fields["code"] = "OptInt32" /\ schema.fields["message"] = "OptString"
      /\ schema.fields["details"] = "strings"
  BY DEF ValidationError, Closed
<1>2. v["code"] = Opt(c) /\ v["message"] = Opt(m) /\ v["details"] = NilSlice
      /\ v = [f \in {"code", "message", "details"} |-> v[f]]
  OBVIOUS
<1>3. Travels("OptInt32", v["code"], v["code"]) /\ Travels("OptString", v["message"], v["message"])
  BY <1>2, OptInt32Travels, OptStringTravels
<1>4. Arrives("strings", v["details"], v["details"])
  BY <1>2 DEF Arrives, Present, ZeroField, NilSlice
<1> HIDE DEF schema
<1>5. \A f \in DOMAIN schema.fields : Arrives(schema.fields[f], v[f], v[f])
  BY <1>1, <1>3, <1>4 DEF Arrives
<1>6. FieldsArrive(schema, v, v)
  BY <1>1, <1>2, <1>5 DEF FieldsArrive
<1> QED BY <1>6, StructTravels DEF schema

\* So are the two requests with a body.
LEMMA CreateOrderRequestTravels ==
  ASSUME NEW u \in UUIDs, NEW s, s.elems \in Seq(UUIDs),
         NEW v, v = [user_uuid |-> u, part_uuids |-> s],
         NEW w, w = [user_uuid |-> u, part_uuids |-> Slice(s.elems)]
  PROVE  /\ Decodes(CreateOrderRequest, Encode(CreateOrderRequest, v))
         /\ Decoded(CreateOrderRequest, Encode(CreateOrderRequest, v)) = w
<1> DEFINE schema == CreateOrderRequest
           names == {"user_uuid", "part_uuids"}
<1>1. /\ DOMAIN schema.fields = names /\ schema.required = names
      /\ schema.fields["user_uuid"] = "UUID" /\ schema.fields["part_uuids"] = "UUIDs"
  BY DEF CreateOrderRequest, Open
<1>2. /\ v["user_uuid"] = u /\ v["part_uuids"] = s
      /\ w["user_uuid"] = u /\ w["part_uuids"] = Slice(s.elems)
      /\ w = [f \in names |-> w[f]]
  OBVIOUS
<1>3. /\ Travels("UUID", v["user_uuid"], w["user_uuid"])
      /\ Travels("UUIDs", v["part_uuids"], w["part_uuids"])
  BY <1>2, UUIDTravels, UUIDsTravel
<1> HIDE DEF schema
<1>4. \A f \in DOMAIN schema.fields :
        Arrives(schema.fields[f], v[f], w[f]) /\ Present(schema.fields[f], v[f])
  BY <1>1, <1>3 DEF Arrives, Travels
<1>5. /\ w = [f \in DOMAIN schema.fields |-> w[f]]
      /\ \A f \in schema.required :
           f \in DOMAIN schema.fields /\ Present(schema.fields[f], v[f])
  BY <1>1, <1>2, <1>4
<1>6. \A f \in DOMAIN schema.fields : Arrives(schema.fields[f], v[f], w[f])
  BY <1>4
<1>7. FieldsArrive(schema, v, w)
  BY <1>5, <1>6 DEF FieldsArrive
<1> QED BY <1>7, StructTravels DEF schema

\* A request to pay arrives as it was encoded.
LEMMA PayOrderRequestTravels ==
  ASSUME NEW t, NEW v, v = [payment_method |-> t]
  PROVE  /\ Decodes(PayOrderRequest, Encode(PayOrderRequest, v))
         /\ Decoded(PayOrderRequest, Encode(PayOrderRequest, v)) = v
<1> DEFINE schema == PayOrderRequest
<1>1. /\ DOMAIN schema.fields = {"payment_method"} /\ schema.required = {"payment_method"}
      /\ schema.fields["payment_method"] = "PaymentMethod"
  BY DEF PayOrderRequest, Open
<1>2. Travels("PaymentMethod", v["payment_method"], v["payment_method"])
      /\ v = [f \in {"payment_method"} |-> v[f]]
  BY TextTravels
<1> HIDE DEF schema
<1>3. FieldsArrive(schema, v, v)
  BY <1>1, <1>2 DEF FieldsArrive, Arrives, Travels
<1> QED BY <1>3, StructTravels DEF schema

\* And the answers of the four operations.
LEMMA PayOrderResponseTravels ==
  ASSUME NEW u \in UUIDs, NEW v, v = [transaction_uuid |-> u]
  PROVE  /\ Decodes(PayOrderResponse, Encode(PayOrderResponse, v))
         /\ Decoded(PayOrderResponse, Encode(PayOrderResponse, v)) = v
<1> DEFINE schema == PayOrderResponse
<1>1. /\ DOMAIN schema.fields = {"transaction_uuid"} /\ schema.required = {"transaction_uuid"}
      /\ schema.fields["transaction_uuid"] = "UUID"
  BY DEF PayOrderResponse, Open
<1>2. Travels("UUID", v["transaction_uuid"], v["transaction_uuid"])
      /\ v = [f \in {"transaction_uuid"} |-> v[f]]
  BY UUIDTravels
<1> HIDE DEF schema
<1>3. FieldsArrive(schema, v, v)
  BY <1>1, <1>2 DEF FieldsArrive, Arrives, Travels
<1> QED BY <1>3, StructTravels DEF schema

\* The answer to a creation arrives as it was encoded.
LEMMA CreateOrderResponseTravels ==
  ASSUME NEW u \in UUIDs, NEW p, NEW v, v = [uuid |-> u, total_price |-> p]
  PROVE  /\ Decodes(CreateOrderResponse, Encode(CreateOrderResponse, v))
         /\ Decoded(CreateOrderResponse, Encode(CreateOrderResponse, v)) = v
<1> DEFINE schema == CreateOrderResponse
           names == {"uuid", "total_price"}
<1>1. /\ DOMAIN schema.fields = names /\ schema.required = names
      /\ schema.fields["uuid"] = "UUID" /\ schema.fields["total_price"] = "price"
  BY DEF CreateOrderResponse, Open
<1>2. /\ Travels("UUID", v["uuid"], v["uuid"]) /\ Travels("price", v["total_price"], v["total_price"])
      /\ v = [f \in names |-> v[f]]
  BY UUIDTravels, PriceTravels
<1> HIDE DEF schema
<1>3. \A f \in DOMAIN schema.fields :
        Arrives(schema.fields[f], v[f], v[f]) /\ Present(schema.fields[f], v[f])
  BY <1>1, <1>2 DEF Arrives, Travels
<1>4. FieldsArrive(schema, v, v)
  BY <1>1, <1>2, <1>3 DEF FieldsArrive
<1> QED BY <1>4, StructTravels DEF schema

\* An order as the converters of the service build it.
OrderNames == {"order_uuid", "user_uuid", "part_uuids", "total_price",
               "transaction_uuid", "payment_method", "status"}

\* An order arrives as it was encoded, a nil slice of its parts as an empty one.
LEMMA OrderTravels ==
  ASSUME NEW v, v = [f \in OrderNames |-> v[f]],
         v["order_uuid"] \in UUIDs, v["user_uuid"] \in UUIDs,
         v["part_uuids"].elems \in Seq(UUIDs),
         v["transaction_uuid"] = NullOf(NilUUID)
           \/ \E u \in UUIDs : v["transaction_uuid"] = Opt(u),
         v["payment_method"] = NullOf("") \/ \E t : v["payment_method"] = Opt(t),
         NEW w, w = [v EXCEPT !["part_uuids"] = Slice(v["part_uuids"].elems)]
  PROVE  /\ Decodes(Order, Encode(Order, v))
         /\ Decoded(Order, Encode(Order, v)) = w
<1> DEFINE schema == Order
<1>1. /\ DOMAIN schema.fields = OrderNames
      /\ schema.required = OrderNames \ {"transaction_uuid", "payment_method"}
  BY DEF Order, Open, OrderFields, OrderNames
<1>2. /\ schema.fields["order_uuid"] = "UUID" /\ schema.fields["user_uuid"] = "UUID"
      /\ schema.fields["part_uuids"] = "UUIDs" /\ schema.fields["total_price"] = "price"
      /\ schema.fields["transaction_uuid"] = "OptNilUUID"
      /\ schema.fields["payment_method"] = "OptNilPaymentMethod"
      /\ schema.fields["status"] = "OrderStatus"
  BY DEF Order, Open, OrderFields
<1>3. /\ w = [f \in OrderNames |-> w[f]]
      /\ w["part_uuids"] = Slice(v["part_uuids"].elems)
      /\ w["order_uuid"] = v["order_uuid"] /\ w["user_uuid"] = v["user_uuid"]
      /\ w["total_price"] = v["total_price"] /\ w["status"] = v["status"]
      /\ w["transaction_uuid"] = v["transaction_uuid"]
      /\ w["payment_method"] = v["payment_method"]
  BY DEF OrderNames
<1> HIDE DEF schema
<1> DEFINE Goes(f) == Travels(schema.fields[f], v[f], w[f])
<1>4. Goes("order_uuid") /\ Goes("user_uuid")
  BY <1>2, <1>3, UUIDTravels, Zenon
<1>5. v["part_uuids"].elems \in Seq(UUIDs) => Travels("UUIDs", v["part_uuids"], w["part_uuids"])
  BY <1>3, UUIDsTravel
<1>6. Goes("part_uuids")
  BY <1>2, <1>5, Zenon
<1>7. Goes("total_price")
  BY <1>2, <1>3, PriceTravels, Zenon
<1>8. Goes("transaction_uuid")
  BY <1>2, <1>3, OptNilUUIDTravels, Zenon
<1>9. Goes("payment_method")
  BY <1>2, <1>3, OptNilPaymentMethodTravels, Zenon
<1>10. Goes("status")
  BY <1>2, <1>3, TextTravels, Zenon
<1> HIDE DEF Goes
<1>11. \A f \in OrderNames : Goes(f)
  BY <1>4, <1>6, <1>7, <1>8, <1>9, <1>10 DEF OrderNames
<1> USE DEF Goes
<1>12. \A f \in DOMAIN schema.fields : Arrives(schema.fields[f], v[f], w[f])
  BY <1>1, <1>11 DEF Arrives
<1>13. /\ w = [f \in DOMAIN schema.fields |-> w[f]]
       /\ \A f \in schema.required :
            f \in DOMAIN schema.fields /\ Present(schema.fields[f], v[f])
  BY <1>1, <1>3, <1>11 DEF Travels
<1>14. FieldsArrive(schema, v, w)
  BY <1>12, <1>13 DEF FieldsArrive
<1> QED BY <1>14, StructTravels DEF schema

-----------------------------------------------------------------------------
(* Prices. *)

\* The text of any price has two digits of cents, as the client's validator
\* wants it.
LEMMA PricesAreTexts ==
  ASSUME NEW cents \in Int
  PROVE  formatCents(cents) \in PriceTexts /\ PriceMatches(formatCents(cents))
<1> DEFINE abs == IF cents < 0 THEN -cents ELSE cents
<1>1. abs \in Nat
  OBVIOUS
<1> HIDE DEF abs
<1>2. /\ abs \div 100 \in Nat /\ abs % 100 \in 0 .. 99
  BY <1>1
<1>3. \A n \in 0 .. 99 : n \div 10 \in 0 .. 9 /\ n % 10 \in 0 .. 9
  OBVIOUS
<1>4. /\ Digits(abs % 100) \in [1 .. 2 -> 0 .. 9] /\ Len(Digits(abs % 100)) = 2
  BY <1>2, <1>3 DEF Digits
<1>5. formatCents(cents) = [minus |-> cents < 0, units |-> abs \div 100,
                            frac |-> Digits(abs % 100)]
  BY DEF formatCents, abs
<1>6. (cents < 0) \in BOOLEAN
  OBVIOUS
<1> QED BY <1>2, <1>4, <1>5, <1>6 DEF PriceTexts, PriceMatches

-----------------------------------------------------------------------------
(* Answers. *)

\* The errors that a handler answers, with the body of a generic error.
ErrorTypes(op) ==
  CASE op = "CreateOrder" -> {"NotFoundError", "BadGatewayError",
                              "ServiceUnavailableError", "InternalServerError"}
    [] op = "PayOrder" -> {"NotFoundError", "ConflictError", "BadGatewayError",
                           "ServiceUnavailableError", "InternalServerError"}
    [] op = "GetOrderByUUID" -> {"NotFoundError", "InternalServerError"}
    [] op = "CancelOrder" -> {"NotFoundError", "ConflictError", "InternalServerError"}

\* An order as GET shows it.
ShownOrder(id, ord) == OrderToOAPI([ord EXCEPT !.id = id])

\* The answers a handler can give.
AnswerOf(op, a) ==
  \/ op = "CreateOrder" /\ \E id \in UUIDs, cents \in Cents :
       a = Answer("CreateOrderResponse", [uuid |-> id, total_price |-> formatCents(cents)])
  \/ op = "PayOrder" /\ \E tx \in UUIDs :
       a = Answer("PayOrderResponse", [transaction_uuid |-> tx])
  \/ op = "GetOrderByUUID" /\ \E id \in UUIDs, ord \in Orders : a = ShownOrder(id, ord)
  \/ op = "CancelOrder" /\ a = Answer("CancelOrderNoContent", NoBody)
  \/ \E type \in ErrorTypes(op), code \in 400 .. 599 : a = Error(type, code)
  \/ op \in {"CreateOrder", "PayOrder"} /\ \E code \in 400 .. 599 : a = Invalid(code)

\* The kinds of answers by name.
IsCreated(a) == \E id \in UUIDs, cents \in Cents :
  a = Answer("CreateOrderResponse", [uuid |-> id, total_price |-> formatCents(cents)])
IsPaid(a) == \E tx \in UUIDs : a = Answer("PayOrderResponse", [transaction_uuid |-> tx])
IsShown(a) == \E id \in UUIDs, ord \in Orders : a = ShownOrder(id, ord)
IsFailed(op, a) == \E type \in ErrorTypes(op), code \in 400 .. 599 : a = Error(type, code)
IsInvalid(a) == \E code \in 400 .. 599 : a = Invalid(code)

LEMMA AnswerKinds ==
  ASSUME NEW op, NEW a, AnswerOf(op, a)
  PROVE  \/ op = "CreateOrder" /\ IsCreated(a)
         \/ op = "PayOrder" /\ IsPaid(a)
         \/ op = "GetOrderByUUID" /\ IsShown(a)
         \/ op = "CancelOrder" /\ a = Answer("CancelOrderNoContent", NoBody)
         \/ IsFailed(op, a)
         \/ op \in {"CreateOrder", "PayOrder"} /\ IsInvalid(a)
BY Zenon DEF AnswerOf, IsCreated, IsPaid, IsShown, IsFailed, IsInvalid

\* The response that carries an answer whole.
ReplyTo(op, a) ==
  [status |-> StatusOf(op)[a.type], ctype |-> IF Payload(a) = NoBody THEN "" ELSE JSON,
   body |-> Payload(a), whole |-> TRUE]

\* A document that a client reads as a value of the type its status asks for.
LEMMA DocumentIsRead ==
  ASSUME NEW op \in Ops, NEW a, NEW w, a.type # "CancelOrderNoContent",
         TypeRead(op, StatusOf(op)[a.type]) = a.type, a.type # "unexpected",
         Decodes(Schema[a.type], Encode(Schema[a.type], a.value)),
         Decoded(Schema[a.type], Encode(Schema[a.type], a.value)) = w,
         Validates(a.type, w)
  PROVE  DecodeResponse(op, ReplyTo(op, a)) = Answer(a.type, w)
<1> DEFINE doc == Encode(Schema[a.type], a.value)
<1>1. Payload(a) = <<doc>> /\ <<doc>> # NoBody
  BY DEF Payload, NoBody
<1> HIDE DEF doc
<1>2. /\ ReplyTo(op, a).status = StatusOf(op)[a.type]
      /\ ReplyTo(op, a).ctype = JSON /\ ReplyTo(op, a).body = <<doc>>
  BY <1>1 DEF ReplyTo
<1>3. Len(<<doc>>) = 1 /\ <<doc>>[1] = doc
  OBVIOUS
<1>4. Parses(a.type, doc) /\ Decoded(Schema[a.type], doc) = w
  BY DEF Parses, doc
<1> QED BY <1>2, <1>3, <1>4 DEF DecodeResponse

\* The status of every answer tells its client the type.
LEMMA StatusTellsType ==
  /\ \A op \in Ops : \A type \in ErrorTypes(op) : TypeRead(op, StatusOf(op)[type]) = type
  /\ \A op \in {"CreateOrder", "PayOrder"} :
       TypeRead(op, StatusOf(op)["ValidationError"]) = "ValidationError"
  /\ TypeRead("CreateOrder", StatusOf("CreateOrder")["CreateOrderResponse"]) = "CreateOrderResponse"
  /\ TypeRead("PayOrder", StatusOf("PayOrder")["PayOrderResponse"]) = "PayOrderResponse"
  /\ TypeRead("GetOrderByUUID", StatusOf("GetOrderByUUID")["Order"]) = "Order"
  /\ TypeRead("CancelOrder", StatusOf("CancelOrder")["CancelOrderNoContent"])
       = "CancelOrderNoContent"
<1> USE DEF Ops, ErrorTypes, TypeRead, StatusOf, decodeErrorStatus
<1>1. \A type \in ErrorTypes("CreateOrder") \cup {"ValidationError", "CreateOrderResponse"} :
        TypeRead("CreateOrder", StatusOf("CreateOrder")[type]) = type
  BY DEF encodeCreateOrderResponse, decodeCreateOrderResponse
<1>2. \A type \in ErrorTypes("PayOrder") \cup {"ValidationError", "PayOrderResponse"} :
        TypeRead("PayOrder", StatusOf("PayOrder")[type]) = type
  BY DEF encodePayOrderResponse, decodePayOrderResponse
<1>3. \A type \in ErrorTypes("GetOrderByUUID") \cup {"Order"} :
        TypeRead("GetOrderByUUID", StatusOf("GetOrderByUUID")[type]) = type
  BY DEF encodeGetOrderByUUIDResponse, decodeGetOrderByUUIDResponse
<1>4. \A type \in ErrorTypes("CancelOrder") \cup {"CancelOrderNoContent"} :
        TypeRead("CancelOrder", StatusOf("CancelOrder")[type]) = type
  BY DEF encodeCancelOrderResponse, decodeCancelOrderResponse
<1> QED BY <1>1, <1>2, <1>3, <1>4

\* The types of the answers and their schemas.
LEMMA SchemasOfAnswers ==
  /\ \A op \in Ops : \A type \in ErrorTypes(op) :
       /\ Schema[type] = GenericError
       /\ type \notin {"CancelOrderNoContent", "unexpected", "CreateOrderRequest",
                      "PayOrderRequest", "CreateOrderResponse", "Order"}
  /\ Schema["ValidationError"] = ValidationError
  /\ Schema["CreateOrderResponse"] = CreateOrderResponse
  /\ Schema["PayOrderResponse"] = PayOrderResponse
  /\ Schema["Order"] = Order
BY DEF Ops, ErrorTypes, Schema, NotFoundError, ConflictError, BadGatewayError,
       ServiceUnavailableError, InternalServerError

\* The client reads an error.
LEMMA ErrorIsRead ==
  ASSUME NEW op \in Ops, NEW type \in ErrorTypes(op), NEW code \in 400 .. 599
  PROVE  DecodeResponse(op, ReplyTo(op, Error(type, code)))
           = Answer(type, Plain(Error(type, code).value))
<1> DEFINE v == [code |-> Opt(code), message |-> Opt("message")]
<1>1. Error(type, code).type = type /\ Error(type, code).value = v
  BY DEF Error, Answer
<1>2. IsInt32(code)
  BY DEF IsInt32
<1>3. /\ Decodes(GenericError, Encode(GenericError, v))
      /\ Decoded(GenericError, Encode(GenericError, v)) = v
  BY <1>2, ErrorTravels
<1>4. Plain(v) = v
  BY DEF Plain
<1>5. Validates(type, v)
  BY SchemasOfAnswers DEF Validates
<1> HIDE DEF v
<1> QED BY <1>1, <1>3, <1>4, <1>5, DocumentIsRead, StatusTellsType, SchemasOfAnswers

\* The client reads a validation error.
LEMMA InvalidIsRead ==
  ASSUME NEW op \in {"CreateOrder", "PayOrder"}, NEW code \in 400 .. 599
  PROVE  DecodeResponse(op, ReplyTo(op, Invalid(code)))
           = Answer("ValidationError", Plain(Invalid(code).value))
<1> DEFINE v == [code |-> Opt(code), message |-> Opt("message"), details |-> NilSlice]
<1>1. Invalid(code).type = "ValidationError" /\ Invalid(code).value = v
  BY DEF Invalid, Answer
<1>2. IsInt32(code)
  BY DEF IsInt32
<1>3. /\ Decodes(ValidationError, Encode(ValidationError, v))
      /\ Decoded(ValidationError, Encode(ValidationError, v)) = v
  BY <1>2, ValidationErrorTravels
<1>4. Plain(v) = v
  BY DEF Plain
<1>5. Validates("ValidationError", v)
  BY DEF Validates
<1> HIDE DEF v
<1>6. op \in Ops
  BY DEF Ops
<1> QED BY <1>1, <1>3, <1>4, <1>5, <1>6, DocumentIsRead, StatusTellsType, SchemasOfAnswers

\* And what a create, a pay and a cancel have to say.
LEMMA CreatedIsRead ==
  ASSUME NEW id \in UUIDs, NEW cents \in Int,
         NEW a, a = Answer("CreateOrderResponse", [uuid |-> id, total_price |-> formatCents(cents)])
  PROVE  DecodeResponse("CreateOrder", ReplyTo("CreateOrder", a)) = Answer(a.type, Plain(a.value))
<1> DEFINE v == [uuid |-> id, total_price |-> formatCents(cents)]
<1>1. a.type = "CreateOrderResponse" /\ a.value = v
  BY DEF Answer
<1>2. /\ Decodes(CreateOrderResponse, Encode(CreateOrderResponse, v))
      /\ Decoded(CreateOrderResponse, Encode(CreateOrderResponse, v)) = v
  BY CreateOrderResponseTravels
<1>3. Plain(v) = v
  BY DEF Plain
<1>4. Validates("CreateOrderResponse", v)
  BY PricesAreTexts DEF Validates, ValidCreateOrderResponse
<1> HIDE DEF v
<1>5. "CreateOrder" \in Ops
  BY DEF Ops
<1> QED BY <1>1, <1>2, <1>3, <1>4, <1>5, DocumentIsRead, StatusTellsType, SchemasOfAnswers

\* The client reads the answer to a payment.
LEMMA PaidIsRead ==
  ASSUME NEW tx \in UUIDs, NEW a, a = Answer("PayOrderResponse", [transaction_uuid |-> tx])
  PROVE  DecodeResponse("PayOrder", ReplyTo("PayOrder", a)) = Answer(a.type, Plain(a.value))
<1> DEFINE v == [transaction_uuid |-> tx]
<1>1. a.type = "PayOrderResponse" /\ a.value = v
  BY DEF Answer
<1>2. /\ Decodes(PayOrderResponse, Encode(PayOrderResponse, v))
      /\ Decoded(PayOrderResponse, Encode(PayOrderResponse, v)) = v
  BY PayOrderResponseTravels
<1>3. Plain(v) = v
  BY DEF Plain
<1>4. Validates("PayOrderResponse", v)
  BY DEF Validates
<1> HIDE DEF v
<1>5. "PayOrder" \in Ops
  BY DEF Ops
<1> QED BY <1>1, <1>2, <1>3, <1>4, <1>5, DocumentIsRead, StatusTellsType, SchemasOfAnswers

\* The client reads the answer to a cancellation.
LEMMA CancelledIsRead ==
  ASSUME NEW a, a = Answer("CancelOrderNoContent", NoBody)
  PROVE  DecodeResponse("CancelOrder", ReplyTo("CancelOrder", a)) = Answer(a.type, Plain(a.value))
<1>1. a.type = "CancelOrderNoContent" /\ a.value = NoBody /\ Payload(a) = NoBody
  BY DEF Answer, Payload
<1>2. Plain(NoBody) = NoBody
  BY DEF Plain, NoBody
<1>3. TypeRead("CancelOrder", ReplyTo("CancelOrder", a).status) = "CancelOrderNoContent"
  BY <1>1, StatusTellsType DEF ReplyTo
<1> QED BY <1>1, <1>2, <1>3 DEF DecodeResponse

\* And an order: a nil slice of parts is read as an empty one.
LEMMA OrderIsRead ==
  ASSUME NEW id \in UUIDs, NEW ord \in Orders, NEW a, a = ShownOrder(id, ord)
  PROVE  DecodeResponse("GetOrderByUUID", ReplyTo("GetOrderByUUID", a))
           = Answer(a.type, Plain(a.value))
<1> DEFINE row == [ord EXCEPT !.id = id]
           v == a.value
           w == [v EXCEPT !["part_uuids"] = Slice(v["part_uuids"].elems)]
<1>1. /\ row.id = id /\ row.user = ord.user /\ row.parts = ord.parts
      /\ row.total = ord.total /\ row.tx = ord.tx /\ row.method = ord.method
      /\ row.status = ord.status
  BY OrdersAssumption
<1> HIDE DEF row
<1>2. /\ a.type = "Order"
      /\ v = [order_uuid |-> id, user_uuid |-> ord.user,
              part_uuids |-> [nil |-> ord.parts = << >>, elems |-> ord.parts],
              total_price |-> formatCents(ord.total),
              transaction_uuid |-> transactionIDToOptNilUUID(ord.tx),
              payment_method |-> paymentMethodToOptNil(ord.method),
              status |-> ord.status]
  BY <1>1 DEF ShownOrder, OrderToOAPI, Answer, row
<1>3. transactionIDToOptNilUUID(ord.tx) = NullOf(NilUUID)
        \/ \E u \in UUIDs : transactionIDToOptNilUUID(ord.tx) = Opt(u)
  BY OrdersAssumption DEF transactionIDToOptNilUUID
<1>4. paymentMethodToOptNil(ord.method) = NullOf("")
        \/ \E t \in Methods : paymentMethodToOptNil(ord.method) = Opt(t)
  BY OrdersAssumption DEF paymentMethodToOptNil
<1> HIDE DEF v
<1>5. /\ v = [f \in OrderNames |-> v[f]]
      /\ v["order_uuid"] \in UUIDs /\ v["user_uuid"] \in UUIDs
      /\ v["part_uuids"].elems \in Seq(UUIDs)
      /\ v["transaction_uuid"] = transactionIDToOptNilUUID(ord.tx)
      /\ v["payment_method"] = paymentMethodToOptNil(ord.method)
      /\ v["status"] \in Statuses
      /\ v["total_price"] = formatCents(ord.total)
      /\ DOMAIN v["part_uuids"] = {"nil", "elems"}
  BY <1>2, OrdersAssumption DEF OrderNames
<1>6. Decodes(Order, Encode(Order, v)) /\ Decoded(Order, Encode(Order, v)) = w
  BY <1>3, <1>4, <1>5, OrderTravels
<1>7. Plain(v) = w
  <2> DEFINE p == [nil |-> ord.parts = << >>, elems |-> ord.parts]
  <2>1. [p EXCEPT !.nil = FALSE] = Slice(p.elems)
    <3>1. DOMAIN p = {"nil", "elems"} /\ p = [k \in {"nil", "elems"} |-> p[k]]
      OBVIOUS
    <3> HIDE DEF p
    <3>2. \A b : [p EXCEPT !.nil = b] = [nil |-> b, elems |-> p.elems]
      BY <3>1
    <3> QED BY <3>2 DEF Slice
  <2>2. v["part_uuids"] = p /\ "part_uuids" \in DOMAIN v
    BY <1>2
  <2>3. Plain(v) = [v EXCEPT !["part_uuids"] = [v["part_uuids"] EXCEPT !.nil = FALSE]]
    BY <2>2 DEF Plain
  <2> QED BY <2>1, <2>2, <2>3
<1>8. Validates("Order", w)
  <2>1. /\ w["part_uuids"].nil = FALSE /\ w["total_price"] = v["total_price"]
        /\ w["payment_method"] = v["payment_method"] /\ w["status"] = v["status"]
    BY <1>2 DEF Slice
  <2>2. ~w["part_uuids"].nil
    BY <2>1
  <2>3. PriceMatches(w["total_price"])
    BY <1>5, <2>1, OrdersAssumption, PricesAreTexts
  <2>4. w["payment_method"].set /\ ~w["payment_method"].null =>
          ValidPaymentMethod(w["payment_method"].value)
    <3>1. CASE w["payment_method"] = NullOf("")
      <4>1. NullOf("").null = TRUE
        BY DEF NullOf
      <4>2. w["payment_method"].null
        BY <3>1, <4>1, Zenon
      <4> QED BY <4>2
    <3>2. CASE \E t \in Methods : w["payment_method"] = Opt(t)
      BY <3>2 DEF Opt, ValidPaymentMethod
    <3> QED BY <1>4, <1>5, <2>1, <3>1, <3>2
  <2>5. ValidOrderStatus(w["status"])
    BY <1>5, <2>1 DEF ValidOrderStatus
  <2> QED BY <2>2, <2>3, <2>4, <2>5 DEF Validates, ValidOrder
<1> HIDE DEF w
<1>9. "GetOrderByUUID" \in Ops
  BY DEF Ops
<1> QED BY <1>2, <1>6, <1>7, <1>8, <1>9, DocumentIsRead, StatusTellsType, SchemasOfAnswers DEF v

\* The generated client understands every answer a handler can give.
LEMMA AnswerIsRead ==
  ASSUME NEW op \in Ops, NEW a, AnswerOf(op, a)
  PROVE  DecodeResponse(op, ReplyTo(op, a)) = Answer(a.type, Plain(a.value))
<1>1. CASE op = "CreateOrder" /\ \E id \in UUIDs, cents \in Cents :
             a = Answer("CreateOrderResponse", [uuid |-> id, total_price |-> formatCents(cents)])
  BY <1>1, CreatedIsRead, PricesAssumption
<1>2. CASE op = "PayOrder" /\ \E tx \in UUIDs :
             a = Answer("PayOrderResponse", [transaction_uuid |-> tx])
  BY <1>2, PaidIsRead
<1>3. CASE op = "GetOrderByUUID" /\ \E id \in UUIDs, ord \in Orders : a = ShownOrder(id, ord)
  BY <1>3, OrderIsRead
<1>4. CASE op = "CancelOrder" /\ a = Answer("CancelOrderNoContent", NoBody)
  BY <1>4, CancelledIsRead
<1>5. CASE \E type \in ErrorTypes(op), code \in 400 .. 599 : a = Error(type, code)
  <2>1. PICK type \in ErrorTypes(op), code \in 400 .. 599 : a = Error(type, code)
    BY <1>5
  <2>2. a.type = type
    BY <2>1 DEF Error, Answer
  <2> QED BY <2>1, <2>2, ErrorIsRead
<1>6. CASE op \in {"CreateOrder", "PayOrder"} /\ \E code \in 400 .. 599 : a = Invalid(code)
  <2>1. PICK code \in 400 .. 599 : a = Invalid(code)
    BY <1>6
  <2>2. a.type = "ValidationError"
    BY <2>1 DEF Invalid, Answer
  <2> QED BY <1>6, <2>1, <2>2, InvalidIsRead
<1> QED BY <1>1, <1>2, <1>3, <1>4, <1>5, <1>6 DEF AnswerOf

-----------------------------------------------------------------------------
(* Routes. *)

\* A set of natural numbers has a least element.
LEMMA Least ==
  ASSUME NEW T, T \subseteq Nat, T # {}
  PROVE  \E x \in T : \A y \in T : x <= y
<1> DEFINE R == OpToRel(<, Nat)
<1>1. R = {ss \in Nat \X Nat : ss[1] < ss[2]}
  BY DEF OpToRel
<1>2. IsWellFoundedOn(R, Nat)
  BY NatLessThanWellFounded
<1> HIDE DEF R
<1>3. PICK x \in T : \A y \in T : ~ (<<y, x>> \in R)
  BY <1>2, WFMin
<1>4. \A y \in T : x <= y
  <2>1. \A y, z \in Nat : <<y, z>> \in R <=> y < z
    BY <1>1
  <2>2. \A y \in T : ~(y < x)
    BY <1>3, <2>1
  <2> QED BY <2>2
<1> QED BY <1>4

\* The first segment of a path ends before a slash or with the path.
LEMMA SegmentEnds ==
  ASSUME NEW S, NEW path \in Seq(S)
  PROVE  /\ SegmentLength(path) \in 0 .. Len(path)
         /\ \A i \in 1 .. SegmentLength(path) : path[i] # "/"
         /\ SegmentLength(path) = Len(path) \/ path[SegmentLength(path) + 1] = "/"
<1> DEFINE slashes == {i \in DOMAIN path : path[i] = "/"}
<1>1. DOMAIN path = 1 .. Len(path) /\ Len(path) \in Nat
  OBVIOUS
<1>2. CASE slashes = {}
  <2>1. SegmentLength(path) = Len(path)
    BY <1>2 DEF SegmentLength
  <2> QED BY <1>1, <1>2, <2>1
<1>3. CASE slashes # {}
  <2>1. slashes \subseteq Nat
    BY <1>1
  <2>2. \E x \in slashes : \A y \in slashes : x <= y
    BY <1>3, <2>1, Least
  <2> DEFINE x == CHOOSE i \in slashes : \A k \in slashes : i <= k
  <2>3. x \in slashes /\ \A k \in slashes : x <= k
    BY <2>2
  <2>4. SegmentLength(path) = x - 1
    BY <1>3 DEF SegmentLength
  <2> HIDE DEF x
  <2>5. x \in 1 .. Len(path) /\ path[x] = "/"
    BY <1>1, <2>3
  <2>6. \A i \in 1 .. x - 1 : path[i] # "/"
    BY <1>1, <2>3, <2>5
  <2> QED BY <2>4, <2>5, <2>6
<1> QED BY <1>2, <1>3

\* A piece of a sequence.
LEMMA PieceOf ==
  ASSUME NEW S, NEW s \in Seq(S), NEW m \in Int, NEW k \in Int, 1 <= m, k <= Len(s),
         NEW t, t = SubSeq(s, m, k), NEW l \in Nat, l = k - m + 1
  PROVE  /\ t \in Seq(S) /\ Len(t) = l
         /\ \A i \in 1 .. l : t[i] = s[m + i - 1]
<1>1. SubSeq(s, m, k) \in Seq(S)
  OBVIOUS
<1>2. Len(SubSeq(s, m, k)) = l
  OBVIOUS
<1>3. \A i \in 1 .. l : SubSeq(s, m, k)[i] = s[m + i - 1]
  OBVIOUS
<1> QED BY <1>1, <1>2, <1>3

\* The pieces of a path that Route looks at.
After(path) == SubSeq(path, 3, Len(path))
Segment(path) == SubSeq(After(path), 1, SegmentLength(After(path)))
Remainder(path) ==
  SubSeq(After(path), SegmentLength(After(path)) + 1, Len(After(path)))

\* What they hold: arg the first n of the k pieces after the slash, rest the
\* others.
Splits(S, path, k, n, arg, rest) ==
  /\ n \in 0 .. k
  /\ Len(arg) = n /\ arg \in Seq(S)
  /\ \A i \in 1 .. n : arg[i] = path[i + 2] /\ arg[i] # "/"
  /\ Len(rest) = k - n /\ rest \in Seq(S)
  /\ \A i \in 1 .. k - n : rest[i] = path[i + n + 2]
  /\ n = k \/ path[n + 3] = "/"

\* And they do.
LEMMA PathSplits ==
  ASSUME NEW S, NEW path \in Seq(S), NEW k \in Nat, Len(path) = k + 2
  PROVE  Splits(S, path, k, SegmentLength(After(path)), Segment(path), Remainder(path))
<1> SUFFICES ASSUME NEW n, n = SegmentLength(After(path)), NEW arg, arg = Segment(path),
                    NEW rest, rest = Remainder(path)
             PROVE  Splits(S, path, k, n, arg, rest)
  OBVIOUS
<1>1. /\ After(path) \in Seq(S) /\ Len(After(path)) = k
      /\ \A i \in 1 .. k : After(path)[i] = path[i + 2]
  <2>1. PICK first \in Int, l \in Int : first = 3 /\ l = Len(path)
    OBVIOUS
  <2>2. 1 <= first /\ l <= Len(path) /\ k = l - first + 1
    BY <2>1
  <2>3. After(path) = SubSeq(path, first, l)
    BY <2>1, Zenon DEF After
  <2>4. /\ After(path) \in Seq(S) /\ Len(After(path)) = k
        /\ \A i \in 1 .. k : After(path)[i] = path[first + i - 1]
    BY <2>1, <2>2, <2>3, PieceOf
  <2> QED BY <2>1, <2>4
<1>2. /\ n \in 0 .. k
      /\ \A i \in 1 .. n : After(path)[i] # "/"
      /\ n = k \/ After(path)[n + 1] = "/"
  BY <1>1, SegmentEnds
<1>3. arg \in Seq(S) /\ Len(arg) = n /\ \A i \in 1 .. n : arg[i] = After(path)[i]
  <2>1. PICK first \in Int : first = 1
    OBVIOUS
  <2>2. /\ n \in Int /\ 1 <= first /\ n <= Len(After(path)) /\ n \in Nat
        /\ n = n - first + 1
    BY <1>1, <1>2, <2>1
  <2>3. arg = SubSeq(After(path), first, n)
    BY <2>1, Zenon DEF Segment
  <2>4. /\ arg \in Seq(S) /\ Len(arg) = n
        /\ \A i \in 1 .. n : arg[i] = After(path)[first + i - 1]
    BY <1>1, <2>2, <2>3, PieceOf
  <2> QED BY <1>2, <2>1, <2>4
<1>4. /\ rest \in Seq(S) /\ Len(rest) = k - n
      /\ \A i \in 1 .. k - n : rest[i] = After(path)[i + n]
  <2>1. PICK m \in Nat, first \in Int : m = k - n /\ first = n + 1
    BY <1>2
  <2>2. 1 <= first /\ k \in Int /\ k <= Len(After(path)) /\ m = k - first + 1
    BY <1>1, <1>2, <2>1
  <2>3. rest = SubSeq(After(path), first, k)
    BY <1>1, <2>1, Zenon DEF Remainder
  <2>4. /\ rest \in Seq(S) /\ Len(rest) = m
        /\ \A i \in 1 .. m : rest[i] = After(path)[first + i - 1]
    BY <1>1, <2>2, <2>3, PieceOf
  <2> QED BY <1>2, <2>1, <2>4
<1>5. \A i \in 1 .. n : arg[i] = path[i + 2] /\ arg[i] # "/"
  BY <1>1, <1>2, <1>3
<1>6. \A i \in 1 .. k - n : rest[i] = path[i + n + 2]
  <2>1. \A i \in 1 .. k - n : i + n \in 1 .. k
    BY <1>2
  <2> QED BY <1>1, <1>4, <2>1, Zenon
<1>7. n = k \/ path[n + 3] = "/"
  <2>1. n = k \/ n + 1 \in 1 .. k
    BY <1>2
  <2>2. n + 1 + 2 = n + 3
    BY <1>2
  <2> QED BY <1>1, <1>2, <2>1, <2>2, Zenon
<1> QED BY <1>2, <1>3, <1>4, <1>5, <1>6, <1>7 DEF Splits

\* Route in their terms.
LEMMA RouteOf ==
  ASSUME NEW path, NEW method, path # <<"/health">>, path # <<Base>>
  PROVE  Route(method, path) =
           IF Len(path) >= 2 /\ path[1] = Base /\ path[2] = "/"
           THEN CASE Remainder(path) = << >> -> On(method, "GET", "GetOrderByUUID", Segment(path))
                  [] Remainder(path) = <<"/", "cancel">> ->
                       On(method, "POST", "CancelOrder", Segment(path))
                  [] Remainder(path) = <<"/", "pay">> ->
                       On(method, "POST", "PayOrder", Segment(path))
                  [] OTHER -> NotFound
           ELSE NotFound
BY DEF Route, After, Segment, Remainder

\* A path of three and one of five pieces.
LEMMA ThreePieces ==
  ASSUME NEW S, NEW s \in Seq(S), Len(s) = 3
  PROVE  s = <<s[1], s[2], s[3]>>
OBVIOUS

\* And of five.
LEMMA FivePieces ==
  ASSUME NEW S, NEW s \in Seq(S), Len(s) = 5
  PROVE  s = <<s[1], s[2], s[3], s[4], s[5]>>
OBVIOUS

\* The paths that lead to an operation.
LEMMA Routed ==
  ASSUME NEW S, NEW path \in Seq(S), NEW method,
         NEW r, r = Route(method, path), r.to \in Ops
  PROVE  \/ r.to = "CreateOrder" /\ method = "POST" /\ path = <<Base>>
         \/ /\ r.to = "GetOrderByUUID" /\ method = "GET"
            /\ Len(r.arg) = 1 => path = <<Base, "/", r.arg[1]>>
         \/ /\ r.to = "CancelOrder" /\ method = "POST"
            /\ Len(r.arg) = 1 => path = <<Base, "/", r.arg[1], "/", "cancel">>
         \/ /\ r.to = "PayOrder" /\ method = "POST"
            /\ Len(r.arg) = 1 => path = <<Base, "/", r.arg[1], "/", "pay">>
<1>1. "health" \notin Ops /\ "notFound" \notin Ops /\ "notAllowed" \notin Ops
  BY DEF Ops
<1>2. path # <<"/health">>
  <2>1. SUFFICES ASSUME path = <<"/health">>
                 PROVE  FALSE
    OBVIOUS
  <2>2. path # <<Base>> /\ Len(path) = 1
    BY <2>1 DEF Base
  <2>3. r = [to |-> "health", arg |-> << >>]
    BY <2>1, <2>2 DEF Route
  <2> QED BY <1>1, <2>3
<1>3. CASE path = <<Base>>
  <2>1. r = On(method, "POST", "CreateOrder", << >>)
    BY <1>2, <1>3 DEF Route
  <2> QED BY <1>1, <1>3, <2>1 DEF On
<1>4. CASE path # <<Base>>
  <2>1. /\ Len(path) >= 2 /\ path[1] = Base /\ path[2] = "/"
        /\ \/ Remainder(path) = << >> /\ r = On(method, "GET", "GetOrderByUUID", Segment(path))
           \/ /\ Remainder(path) = <<"/", "cancel">>
              /\ r = On(method, "POST", "CancelOrder", Segment(path))
           \/ /\ Remainder(path) = <<"/", "pay">>
              /\ r = On(method, "POST", "PayOrder", Segment(path))
    <3>1. r # NotFound
      BY <1>1 DEF NotFound
    <3> QED BY <1>2, <1>4, <3>1, RouteOf
  <2>2. PICK k \in Nat : Len(path) = k + 2
    <3>1. Len(path) - 2 \in Nat /\ Len(path) = (Len(path) - 2) + 2
      BY <2>1
    <3> QED BY <3>1
  <2> DEFINE n == SegmentLength(After(path))
             arg == Segment(path)
             rest == Remainder(path)
  <2>3. /\ n \in 0 .. k /\ Len(arg) = n /\ Len(rest) = k - n
        /\ \A i \in 1 .. n : arg[i] = path[i + 2]
        /\ \A i \in 1 .. k - n : rest[i] = path[i + n + 2]
    <3>1. Splits(S, path, k, n, arg, rest)
      BY <2>2, PathSplits
    <3> HIDE DEF n, arg, rest
    <3> QED BY <3>1 DEF Splits
  <2> HIDE DEF n, arg, rest
  <2>4. Len(arg) = 1 => n = 1 /\ arg[1] = path[3]
    BY <2>3
  <2>5. ASSUME Len(arg) = 1, NEW word, rest = <<"/", word>>
        PROVE  path = <<Base, "/", arg[1], "/", word>>
    <3>1. Len(rest) = 2 /\ rest[1] = "/" /\ rest[2] = word
      BY <2>5
    <3>2. n = 1 /\ k = 3
      BY <2>3, <2>5, <3>1
    <3>3. rest[1] = path[4] /\ rest[2] = path[5]
      BY <2>3, <3>2
    <3>4. Len(path) = 5
      BY <2>2, <3>2
    <3>5. path = <<path[1], path[2], path[3], path[4], path[5]>>
      BY <3>4, FivePieces
    <3> QED BY <2>1, <2>4, <2>5, <3>1, <3>3, <3>5, Zenon
  <2>6. ASSUME Len(arg) = 1, rest = << >>
        PROVE  path = <<Base, "/", arg[1]>>
    <3>1. n = 1 /\ k = 1
      BY <2>3, <2>6
    <3>2. Len(path) = 3
      BY <2>2, <3>1
    <3>3. path = <<path[1], path[2], path[3]>>
      BY <3>2, ThreePieces
    <3> QED BY <2>1, <2>4, <2>6, <3>3, Zenon
  <2>7. \A wanted, op : r = On(method, wanted, op, arg) =>
          r.arg = arg /\ (op \in Ops => r.to = op /\ method = wanted)
    BY <1>1 DEF On
  <2>8. "GetOrderByUUID" \in Ops /\ "CancelOrder" \in Ops /\ "PayOrder" \in Ops
    BY DEF Ops
  <2> QED BY <2>1, <2>5, <2>6, <2>7, <2>8, Zenon DEF arg, rest
<1> QED BY <1>3, <1>4

\* And every declared path leads to its operation.
LEMMA DeclaredIsRouted ==
  ASSUME NEW id \in UUIDs
  PROVE  /\ Route("POST", <<Base>>) = [to |-> "CreateOrder", arg |-> << >>]
         /\ Route("GET", <<Base, "/", id>>) = [to |-> "GetOrderByUUID", arg |-> <<id>>]
         /\ Route("POST", <<Base, "/", id, "/", "cancel">>)
              = [to |-> "CancelOrder", arg |-> <<id>>]
         /\ Route("POST", <<Base, "/", id, "/", "pay">>) = [to |-> "PayOrder", arg |-> <<id>>]
<1> DEFINE S == {Base, "/", id, "cancel", "pay"}
<1>1. Base # "/health"
  BY DEF Base
<1>2. id # "/"
  BY UUIDTextsAssumption
<1>3. Route("POST", <<Base>>) = [to |-> "CreateOrder", arg |-> << >>]
  BY <1>1 DEF Route, On
<1>4. ASSUME NEW path \in Seq(S), NEW k \in Nat, Len(path) = k + 2, k = 1 \/ k = 3,
             path[1] = Base, path[2] = "/", path[3] = id, k = 3 => path[4] = "/"
      PROVE  /\ path # <<"/health">> /\ path # <<Base>>
             /\ Segment(path) = <<id>>
             /\ Len(Remainder(path)) = k - 1 /\ Remainder(path) \in Seq(S)
             /\ \A i \in 1 .. k - 1 : Remainder(path)[i] = path[i + 3]
  <2> DEFINE n == SegmentLength(After(path))
             arg == Segment(path)
             rest == Remainder(path)
  <2>1. /\ n \in 0 .. k /\ Len(arg) = n /\ arg \in Seq(S)
        /\ \A i \in 1 .. n : arg[i] = path[i + 2] /\ arg[i] # "/"
        /\ Len(rest) = k - n /\ rest \in Seq(S)
        /\ \A i \in 1 .. k - n : rest[i] = path[i + n + 2]
        /\ n = k \/ path[n + 3] = "/"
    <3>1. Splits(S, path, k, n, arg, rest)
      BY <1>4, PathSplits
    <3> HIDE DEF n, arg, rest
    <3> QED BY <3>1 DEF Splits
  <2> HIDE DEF n, arg, rest
  <2>2. n # 0
    BY <1>2, <1>4, <2>1
  <2>3. n < 2
    <3>1. CASE k = 1
      BY <2>1, <3>1
    <3>2. CASE k = 3
      <4>1. path[4] = "/"
        BY <1>4, <3>2
      <4>2. n >= 2 => arg[2] = path[4] /\ arg[2] # "/"
        BY <2>1
      <4> QED BY <2>1, <4>1, <4>2
    <3> QED BY <1>4, <3>1, <3>2
  <2>4. n = 1
    BY <2>1, <2>2, <2>3
  <2>5. arg[1] = id
    BY <1>4, <2>1, <2>4
  <2>6. arg = <<id>>
    BY <2>1, <2>4, <2>5
  <2>7. Len(path) # 1
    BY <1>4
  <2>8. path # <<"/health">> /\ path # <<Base>>
    BY <2>7
  <2>9. \A i \in 1 .. k - 1 : rest[i] = path[i + 3]
    BY <2>1, <2>4
  <2> QED BY <2>1, <2>4, <2>6, <2>8, <2>9 DEF arg, rest
<1>5. Route("GET", <<Base, "/", id>>) = [to |-> "GetOrderByUUID", arg |-> <<id>>]
  <2>1. PICK path : path = <<Base, "/", id>>
    OBVIOUS
  <2>2. /\ path \in Seq(S) /\ Len(path) = 1 + 2 /\ Len(path) >= 2
        /\ path[1] = Base /\ path[2] = "/" /\ path[3] = id
    BY <2>1
  <2>3. /\ path # <<"/health">> /\ path # <<Base>> /\ Segment(path) = <<id>>
        /\ Len(Remainder(path)) = 1 - 1 /\ Remainder(path) \in Seq(S)
    BY <1>4, <2>2
  <2>4. /\ Remainder(path) = << >>
        /\ \A word : << >> # <<"/", word>>
    BY <2>3
  <2>5. Route("GET", path) = On("GET", "GET", "GetOrderByUUID", <<id>>)
    BY <2>2, <2>3, <2>4, RouteOf, Zenon
  <2> QED BY <2>1, <2>5 DEF On
<1>6. ASSUME NEW word \in {"cancel", "pay"},
             NEW path, path = <<Base, "/", id, "/", word>>
      PROVE  /\ path # <<"/health">> /\ path # <<Base>> /\ Segment(path) = <<id>>
             /\ Remainder(path) = <<"/", word>>
             /\ Len(path) >= 2 /\ path[1] = Base /\ path[2] = "/"
  <2>1. /\ path \in Seq(S) /\ Len(path) = 3 + 2 /\ path[1] = Base /\ path[2] = "/"
        /\ path[3] = id /\ path[4] = "/" /\ path[5] = word
    BY <1>6
  <2>2. /\ path # <<"/health">> /\ path # <<Base>> /\ Segment(path) = <<id>>
        /\ Len(Remainder(path)) = 3 - 1 /\ Remainder(path) \in Seq(S)
        /\ \A i \in 1 .. 3 - 1 : Remainder(path)[i] = path[i + 3]
    BY <1>4, <2>1
  <2>3. Remainder(path)[1] = "/" /\ Remainder(path)[2] = word
    BY <2>1, <2>2
  <2>4. Remainder(path) = <<"/", word>>
    BY <2>2, <2>3
  <2> QED BY <2>1, <2>2, <2>4
<1>7. Route("POST", <<Base, "/", id, "/", "cancel">>) = [to |-> "CancelOrder", arg |-> <<id>>]
  <2>1. PICK path : path = <<Base, "/", id, "/", "cancel">>
    OBVIOUS
  <2>2. Route("POST", path) = On("POST", "POST", "CancelOrder", <<id>>)
    BY <1>6, <2>1, RouteOf
  <2> QED BY <2>1, <2>2 DEF On
<1>8. Route("POST", <<Base, "/", id, "/", "pay">>) = [to |-> "PayOrder", arg |-> <<id>>]
  <2>1. PICK path : path = <<Base, "/", id, "/", "pay">>
    OBVIOUS
  <2>2. Route("POST", path) = On("POST", "POST", "PayOrder", <<id>>)
    BY <1>6, <2>1, RouteOf
  <2> QED BY <2>1, <2>2 DEF On
<1> QED BY <1>3, <1>5, <1>7, <1>8

-----------------------------------------------------------------------------
(* Bodies. *)

\* Which documents are read as a uuid and as a slice of uuids.
LEMMA UUIDsRead ==
  ASSUME NEW j
  PROVE  /\ DecodeUUID(j).ok <=> UUIDText(j)
         /\ DecodeUUIDs(j).ok <=> Is("arr", j) /\ \A i \in DOMAIN j.arr : UUIDText(j.arr[i])
         /\ DecodeUUIDs(j).ok => DecodeUUIDs(j).value.nil = FALSE
<1>1. \A v : Ok(v).ok = TRUE /\ Ok(v).value = v
  BY DEF Ok
<1>2. Failed.ok = FALSE
  BY DEF Failed
<1>3. \A i : DecodeUUID(i) = (IF UUIDText(i) THEN Ok(i.str) ELSE Failed)
  BY DEF DecodeUUID, UUIDText
<1>4. \A i : DecodeUUID(i).ok <=> UUIDText(i)
  BY <1>1, <1>2, <1>3, Zenon
<1>5. CASE Is("arr", j) /\ \A i \in DOMAIN j.arr : UUIDText(j.arr[i])
  <2>1. \A i \in DOMAIN j.arr : DecodeUUID(j.arr[i]).ok
    BY <1>4, <1>5, Zenon
  <2>2. DecodeUUIDs(j) = Ok(Slice([i \in DOMAIN j.arr |-> DecodeUUID(j.arr[i]).value]))
    BY <1>5, <2>1, Zenon DEF DecodeUUIDs
  <2>3. \A t : Slice(t).nil = FALSE
    BY DEF Slice
  <2>4. DecodeUUIDs(j).ok = TRUE /\ DecodeUUIDs(j).value.nil = FALSE
    BY <1>1, <2>2, <2>3
  <2> QED BY <1>4, <1>5, <2>4, Zenon
<1>6. CASE ~(Is("arr", j) /\ \A i \in DOMAIN j.arr : UUIDText(j.arr[i]))
  <2>1. ~(Is("arr", j) /\ \A i \in DOMAIN j.arr : DecodeUUID(j.arr[i]).ok)
    BY <1>4, <1>6, Zenon
  <2>2. DecodeUUIDs(j) = Failed
    BY <2>1, Zenon DEF DecodeUUIDs
  <2>3. DecodeUUIDs(j).ok = FALSE
    BY <1>2, <2>2
  <2> QED BY <1>4, <1>6, <2>3, Zenon
<1> QED BY <1>5, <1>6

\* The documents a create takes are the declared ones.
LEMMA CreateBodyIsDeclared ==
  ASSUME NEW j
  PROVE  Parses("CreateOrderRequest", j) <=>
           /\ Is("obj", j)
           /\ {"user_uuid", "part_uuids"} \subseteq DOMAIN j.obj
           /\ UUIDText(j.obj.user_uuid) /\ Is("arr", j.obj.part_uuids)
           /\ \A i \in DOMAIN j.obj.part_uuids.arr : UUIDText(j.obj.part_uuids.arr[i])
<1> DEFINE schema == CreateOrderRequest
           o == j.obj
<1>1. /\ DOMAIN schema.fields = {"user_uuid", "part_uuids"}
      /\ schema.required = {"user_uuid", "part_uuids"}
      /\ schema.fields["user_uuid"] = "UUID" /\ schema.fields["part_uuids"] = "UUIDs"
  BY DEF CreateOrderRequest, Open
<1>2. schema.closed = FALSE
  BY DEF CreateOrderRequest, Open
<1>3. ~schema.closed
  BY <1>2
<1>4. Schema["CreateOrderRequest"] = schema
  BY DEF Schema
<1>5. \A x : DecodeField("UUID", x) = DecodeUUID(x) /\ DecodeField("UUIDs", x) = DecodeUUIDs(x)
  BY DEF DecodeField
<1> HIDE DEF schema
<1>6. Decodes(schema, j) <=>
        /\ Is("obj", j) /\ {"user_uuid", "part_uuids"} \subseteq DOMAIN o
        /\ DecodeUUID(o["user_uuid"]).ok /\ DecodeUUIDs(o["part_uuids"]).ok
  <2>1. CASE {"user_uuid", "part_uuids"} \subseteq DOMAIN o
    <3>1. DOMAIN o \cap DOMAIN schema.fields = {"user_uuid", "part_uuids"}
      BY <1>1, <2>1
    <3>2. (\A f \in {"user_uuid", "part_uuids"} : DecodeField(schema.fields[f], o[f]).ok)
            <=> DecodeField("UUID", o["user_uuid"]).ok /\ DecodeField("UUIDs", o["part_uuids"]).ok
      BY <1>1, Zenon
    <3> QED BY <1>1, <1>3, <1>5, <2>1, <3>1, <3>2, Zenon DEF Decodes
  <2>2. CASE ~({"user_uuid", "part_uuids"} \subseteq DOMAIN o)
    BY <1>1, <2>2, Zenon DEF Decodes
  <2> QED BY <2>1, <2>2
<1>7. Decodes(schema, j) => Validates("CreateOrderRequest", Decoded(schema, j))
  <2> SUFFICES ASSUME Decodes(schema, j)
               PROVE  Validates("CreateOrderRequest", Decoded(schema, j))
    OBVIOUS
  <2>1. "part_uuids" \in DOMAIN o /\ DecodeUUIDs(o["part_uuids"]).ok
    BY <1>6, Zenon
  <2>2. Decoded(schema, j)["part_uuids"] = DecodeUUIDs(o["part_uuids"]).value
    BY <1>1, <1>5, <2>1 DEF Decoded
  <2>3. Decoded(schema, j)["part_uuids"].nil = FALSE
    BY <2>1, <2>2, UUIDsRead
  <2>4. ~Decoded(schema, j).part_uuids.nil
    BY <2>3
  <2> QED BY <2>4 DEF Validates, ValidCreateOrderRequest
<1> QED BY <1>4, <1>6, <1>7, UUIDsRead, Zenon DEF Parses

\* And so are those a pay takes.
LEMMA PayBodyIsDeclared ==
  ASSUME NEW j
  PROVE  Parses("PayOrderRequest", j) <=>
           /\ Is("obj", j) /\ "payment_method" \in DOMAIN j.obj
           /\ Is("str", j.obj.payment_method) /\ j.obj.payment_method.str \in Methods
<1> DEFINE schema == PayOrderRequest
           o == j.obj
           m == j.obj.payment_method
<1>1. /\ DOMAIN schema.fields = {"payment_method"} /\ schema.required = {"payment_method"}
      /\ schema.fields["payment_method"] = "PaymentMethod"
  BY DEF PayOrderRequest, Open
<1>2. schema.closed = FALSE
  BY DEF PayOrderRequest, Open
<1>3. ~schema.closed
  BY <1>2
<1>4. Schema["PayOrderRequest"] = schema
  BY DEF Schema
<1>5. \A x : DecodeField("PaymentMethod", x) = IF Is("str", x) THEN Ok(x.str) ELSE Failed
  BY DEF DecodeField, DecodePaymentMethod, DecodeStr
<1>6. (\A v : Ok(v).ok = TRUE /\ Ok(v).value = v) /\ Failed.ok = FALSE
  BY DEF Ok, Failed
<1>7. DecodeField("PaymentMethod", m).ok <=> Is("str", m)
  BY <1>5, <1>6, Zenon
<1> HIDE DEF schema
<1>8. Decodes(schema, j) <=> Is("obj", j) /\ "payment_method" \in DOMAIN o /\ Is("str", m)
  <2>1. CASE "payment_method" \in DOMAIN o
    <3>1. DOMAIN o \cap DOMAIN schema.fields = {"payment_method"}
      BY <1>1, <2>1
    <3>2. (\A f \in {"payment_method"} : DecodeField(schema.fields[f], o[f]).ok)
            <=> DecodeField("PaymentMethod", m).ok
      BY <1>1, Zenon
    <3> QED BY <1>1, <1>3, <1>7, <2>1, <3>1, <3>2, Zenon DEF Decodes
  <2>2. CASE "payment_method" \notin DOMAIN o
    BY <1>1, <2>2, Zenon DEF Decodes
  <2> QED BY <2>1, <2>2
<1>9. Decodes(schema, j) =>
        (Validates("PayOrderRequest", Decoded(schema, j)) <=> m.str \in Methods)
  <2> SUFFICES ASSUME Decodes(schema, j)
               PROVE  Validates("PayOrderRequest", Decoded(schema, j)) <=> m.str \in Methods
    OBVIOUS
  <2>1. "payment_method" \in DOMAIN o /\ Is("str", m)
    BY <1>8, Zenon
  <2>2. DecodeField("PaymentMethod", m).value = m.str
    BY <1>5, <1>6, <2>1
  <2>3. Decoded(schema, j).payment_method = m.str
    BY <1>1, <2>1, <2>2 DEF Decoded
  <2> QED BY <2>3 DEF Validates, ValidPayOrderRequest, ValidPaymentMethod
<1> QED BY <1>4, <1>8, <1>9, Zenon DEF Parses

-----------------------------------------------------------------------------
(* Requests. *)

\* What the generated client sends for each operation.
CancelRequest(id) ==
  [op |-> "CancelOrder", id |-> id, arg |-> NoBody, method |-> "POST",
   path |-> <<Base, "/", id, "/", "cancel">>, ctype |-> "", body |-> NoBody]
CreateRequest(r) ==
  [op |-> "CreateOrder", id |-> NilUUID, arg |-> r, method |-> "POST",
   path |-> <<Base>>, ctype |-> JSON, body |-> encodeCreateOrderRequest(r)]
GetRequest(id) ==
  [op |-> "GetOrderByUUID", id |-> id, arg |-> NoBody, method |-> "GET",
   path |-> <<Base, "/", id>>, ctype |-> "", body |-> NoBody]
PayRequest(id, r) ==
  [op |-> "PayOrder", id |-> id, arg |-> r, method |-> "POST",
   path |-> <<Base, "/", id, "/", "pay">>, ctype |-> JSON, body |-> encodePayOrderRequest(r)]

\* A request that is under way.
Asked(req) ==
  \/ \E id \in UUIDs : req = CancelRequest(id)
  \/ \E r \in CreateBodies : req = CreateRequest(r)
  \/ \E id \in UUIDs : req = GetRequest(id)
  \/ \E id \in UUIDs, r \in PayBodies : req = PayRequest(id, r)
  \/ req \in RawRequests

\* Where a request goes.
RouteOfRequest(req) == Route(req.method, req.path)

\* What a uuid-bearing path gives its handler.
ArgOf(op, id) == IF op = "CreateOrder" THEN << >> ELSE <<id>>

\* The path of every request is a sequence.
LEMMA AskedPath ==
  ASSUME NEW req, Asked(req)
  PROVE  \E S : req.path \in Seq(S)
<1>1. ASSUME NEW id \in UUIDs, req = CancelRequest(id)
      PROVE  req.path \in Seq({Base, "/", id, "cancel"})
  <2>1. req.path = <<Base, "/", id, "/", "cancel">>
    BY <1>1 DEF CancelRequest
  <2> QED BY <2>1
<1>2. ASSUME NEW r \in CreateBodies, req = CreateRequest(r)
      PROVE  req.path \in Seq({Base})
  BY <1>2 DEF CreateRequest
<1>3. ASSUME NEW id \in UUIDs, req = GetRequest(id)
      PROVE  req.path \in Seq({Base, "/", id})
  <2>1. req.path = <<Base, "/", id>>
    BY <1>3 DEF GetRequest
  <2> QED BY <2>1
<1>4. ASSUME NEW id \in UUIDs, NEW r \in PayBodies, req = PayRequest(id, r)
      PROVE  req.path \in Seq({Base, "/", id, "pay"})
  BY <1>4 DEF PayRequest
<1>5. ASSUME req \in RawRequests
      PROVE  req.path \in Seq({req.path[i] : i \in DOMAIN req.path})
  BY <1>5, RawAssumption
<1> QED BY <1>1, <1>2, <1>3, <1>4, <1>5, Zenon DEF Asked

\* A declared request is routed to its operation.
LEMMA DeclaredRoute ==
  ASSUME NEW req, NEW op \in Ops, NEW id, DeclaredAs(req, op, id)
  PROVE  /\ RouteOfRequest(req) = [to |-> op, arg |-> ArgOf(op, id)]
         /\ id \in UUIDs /\ BodyDeclared(op, req)
<1> DEFINE line == [method |-> req.method, path |-> req.path, id |-> id]
<1>1. line \in Declared(op) /\ BodyDeclared(op, req)
  BY DEF DeclaredAs
<1>2. \A m, path, i : line = [method |-> m, path |-> path, id |-> i] =>
        req.method = m /\ req.path = path /\ id = i
  OBVIOUS
<1> HIDE DEF line
<1>3. CASE op = "CreateOrder"
  <2>1. req.method = "POST" /\ req.path = <<Base>> /\ id = NilUUID
    BY <1>1, <1>2, <1>3, Zenon DEF Declared
  <2> QED BY <1>1, <1>3, <2>1, DeclaredIsRouted, UUIDsAssumption DEF RouteOfRequest, ArgOf
<1>4. CASE op = "GetOrderByUUID"
  <2>1. Declared(op) =
          {[method |-> "GET", path |-> <<Base, "/", i>>, id |-> i] : i \in UUIDs}
    BY <1>4 DEF Declared
  <2>2. req.method = "GET" /\ req.path = <<Base, "/", id>> /\ id \in UUIDs
    BY <1>1, <1>2, <2>1, Zenon
  <2>3. Route("GET", <<Base, "/", id>>) = [to |-> "GetOrderByUUID", arg |-> <<id>>]
    BY <2>2, DeclaredIsRouted, Zenon
  <2> QED BY <1>1, <1>4, <2>2, <2>3 DEF RouteOfRequest, ArgOf
<1>5. CASE op = "CancelOrder"
  <2>1. Declared(op) =
          {[method |-> "POST", path |-> <<Base, "/", i, "/", "cancel">>, id |-> i] : i \in UUIDs}
    BY <1>5 DEF Declared
  <2>2. req.method = "POST" /\ req.path = <<Base, "/", id, "/", "cancel">> /\ id \in UUIDs
    <3>1. PICK i \in UUIDs :
            line = [method |-> "POST", path |-> <<Base, "/", i, "/", "cancel">>, id |-> i]
      BY <1>1, <2>1
    <3>2. req.method = "POST" /\ req.path = <<Base, "/", i, "/", "cancel">> /\ id = i
      BY <1>2, <3>1, Zenon
    <3> QED BY <3>2, Zenon
  <2>3. Route("POST", <<Base, "/", id, "/", "cancel">>) = [to |-> "CancelOrder", arg |-> <<id>>]
    BY <2>2, DeclaredIsRouted, Zenon
  <2> QED BY <1>1, <1>5, <2>2, <2>3 DEF RouteOfRequest, ArgOf
<1>6. CASE op = "PayOrder"
  <2>1. Declared(op) =
          {[method |-> "POST", path |-> <<Base, "/", i, "/", "pay">>, id |-> i] : i \in UUIDs}
    BY <1>6 DEF Declared
  <2>2. req.method = "POST" /\ req.path = <<Base, "/", id, "/", "pay">> /\ id \in UUIDs
    <3>1. PICK i \in UUIDs :
            line = [method |-> "POST", path |-> <<Base, "/", i, "/", "pay">>, id |-> i]
      BY <1>1, <2>1
    <3>2. req.method = "POST" /\ req.path = <<Base, "/", i, "/", "pay">> /\ id = i
      BY <1>2, <3>1, Zenon
    <3> QED BY <3>2, Zenon
  <2>3. Route("POST", <<Base, "/", id, "/", "pay">>) = [to |-> "PayOrder", arg |-> <<id>>]
    BY <2>2, DeclaredIsRouted, Zenon
  <2> QED BY <1>1, <1>6, <2>2, <2>3 DEF RouteOfRequest, ArgOf
<1> QED BY <1>3, <1>4, <1>5, <1>6 DEF Ops

\* And a request whose path and body a handler accepts is declared.
LEMMA AcceptedIsDeclared ==
  ASSUME NEW req, Asked(req), NEW op \in Ops, RouteOfRequest(req).to = op,
         NEW id, BodyDeclared(op, req),
         IF op = "CreateOrder" THEN id = NilUUID
         ELSE /\ Len(RouteOfRequest(req).arg) = 1 /\ RouteOfRequest(req).arg[1] = id
              /\ id \in UUIDs
  PROVE  DeclaredAs(req, op, id) /\ id \in UUIDs
<1>1. PICK S : req.path \in Seq(S)
  BY AskedPath
<1>2. PICK r :
        /\ r = Route(req.method, req.path) /\ r.to = op
        /\ op # "CreateOrder" => Len(r.arg) = 1 /\ r.arg[1] = id /\ id \in UUIDs
        /\ op = "CreateOrder" => id = NilUUID
  BY DEF RouteOfRequest
<1>3. \/ op = "CreateOrder" /\ req.method = "POST" /\ req.path = <<Base>>
      \/ /\ op = "GetOrderByUUID" /\ req.method = "GET"
         /\ Len(r.arg) = 1 => req.path = <<Base, "/", r.arg[1]>>
      \/ /\ op = "CancelOrder" /\ req.method = "POST"
         /\ Len(r.arg) = 1 => req.path = <<Base, "/", r.arg[1], "/", "cancel">>
      \/ /\ op = "PayOrder" /\ req.method = "POST"
         /\ Len(r.arg) = 1 => req.path = <<Base, "/", r.arg[1], "/", "pay">>
  <2>1. r = Route(req.method, req.path) /\ r.to \in Ops
    BY <1>2
  <2> QED BY <1>1, <1>2, <2>1, Routed
<1>4. [method |-> req.method, path |-> req.path, id |-> id] \in Declared(op)
  <2>1. CASE op = "CreateOrder"
    BY <1>3, <2>1 DEF Declared
  <2>2. CASE op = "GetOrderByUUID"
    BY <1>2, <1>3, <2>2 DEF Declared
  <2>3. CASE op = "CancelOrder"
    BY <1>2, <1>3, <2>3 DEF Declared
  <2>4. CASE op = "PayOrder"
    BY <1>2, <1>3, <2>4 DEF Declared
  <2> QED BY <2>1, <2>2, <2>3, <2>4 DEF Ops
<1>5. id \in UUIDs
  BY <1>2, UUIDsAssumption
<1> QED BY <1>4, <1>5 DEF DeclaredAs

\* The status that refuses a body is 0 for the declared ones only.
LEMMA BodiesAsDeclared ==
  ASSUME NEW req
  PROVE  /\ BodyDeclared("CreateOrder", req) <=>
              BodyStatus("CreateOrderRequest", req.ctype, req.body) = 0
         /\ BodyDeclared("PayOrder", req) <=>
              BodyStatus("PayOrderRequest", req.ctype, req.body) = 0
         /\ BodyDeclared("GetOrderByUUID", req) /\ BodyDeclared("CancelOrder", req)
<1>1. \A type : BodyStatus(type, req.ctype, req.body) = 0 <=>
                  req.ctype = JSON /\ Len(req.body) = 1 /\ Parses(type, req.body[1])
  <2> TAKE type
  <2>1. JSON # "" /\ 400 # 0 /\ 415 # 0
    BY DEF JSON
  <2> DEFINE accepted == Len(req.body) = 1 /\ Parses(type, req.body[1])
  <2>2. BodyStatus(type, req.ctype, req.body) =
          CASE req.ctype = "" -> 400
            [] req.ctype \notin {"", JSON} -> 415
            [] OTHER -> IF accepted THEN 0 ELSE 400
    BY DEF BodyStatus
  <2> HIDE DEF accepted
  <2>3. CASE req.ctype = ""
    BY <2>1, <2>2, <2>3
  <2>4. CASE req.ctype # "" /\ req.ctype # JSON
    BY <2>1, <2>2, <2>4
  <2>5. CASE req.ctype = JSON
    <3>1. BodyStatus(type, req.ctype, req.body) = IF accepted THEN 0 ELSE 400
      BY <2>1, <2>2, <2>5
    <3>2. BodyStatus(type, req.ctype, req.body) = 0 <=> accepted
      BY <2>1, <3>1, Zenon
    <3> QED BY <2>5, <3>2, Zenon DEF accepted
  <2>6. req.ctype # JSON => BodyStatus(type, req.ctype, req.body) # 0
    BY <2>1, <2>3, <2>4
  <2> QED BY <2>5, <2>6
<1>2. BodyDeclared("CreateOrder", req) <=>
        req.ctype = JSON /\ Len(req.body) = 1 /\ Parses("CreateOrderRequest", req.body[1])
  BY CreateBodyIsDeclared, Zenon DEF BodyDeclared
<1>3. BodyDeclared("PayOrder", req) <=>
        req.ctype = JSON /\ Len(req.body) = 1 /\ Parses("PayOrderRequest", req.body[1])
  BY PayBodyIsDeclared, Zenon DEF BodyDeclared
<1>4. BodyDeclared("GetOrderByUUID", req) /\ BodyDeclared("CancelOrder", req)
  BY DEF BodyDeclared
<1> QED BY <1>1, <1>2, <1>3, <1>4, Zenon

\* The call that a request of the generated client asks for.
CallOf(req) == [op |-> req.op, id |-> req.id, arg |-> Plain(req.arg)]

\* What the generated client sends is routed to the operation asked for, and
\* the server decodes the arguments it was given, nil slices apart.
LEMMA TypedRequests ==
  ASSUME NEW req, Asked(req), req.op # "none"
  PROVE  /\ req.op \in Ops /\ req.id \in UUIDs
         /\ RouteOfRequest(req) = [to |-> req.op, arg |-> ArgOf(req.op, req.id)]
         /\ req.op = "CreateOrder" =>
              /\ req.id = NilUUID
              /\ Decoded(Schema["CreateOrderRequest"], req.body[1]) = Plain(req.arg)
         /\ req.op = "PayOrder" =>
              Decoded(Schema["PayOrderRequest"], req.body[1]) = Plain(req.arg)
         /\ req.op \in {"GetOrderByUUID", "CancelOrder"} => Plain(req.arg) = NoBody
         /\ CallOf(req) \in CallsOfClients
         /\ req.op = "GetOrderByUUID" => CallOf(req) \in Reads
<1>1. Plain(NoBody) = NoBody
  BY DEF Plain, NoBody
<1>2. ASSUME NEW id \in UUIDs, req = CancelRequest(id)
      PROVE  /\ req.op = "CancelOrder" /\ req.id = id /\ Plain(req.arg) = NoBody
             /\ RouteOfRequest(req) = [to |-> req.op, arg |-> ArgOf(req.op, req.id)]
             /\ CallOf(req) \in CallsOfClients
  <2>1. /\ req.op = "CancelOrder" /\ req.id = id /\ req.arg = NoBody /\ req.method = "POST"
        /\ req.path = <<Base, "/", id, "/", "cancel">>
    BY <1>2 DEF CancelRequest
  <2>2. CallOf(req) = [op |-> "CancelOrder", id |-> id, arg |-> NoBody]
    BY <1>1, <2>1 DEF CallOf
  <2>3. CallOf(req) \in CallsOfClients
    BY <2>2 DEF CallsOfClients
  <2>4. Route("POST", <<Base, "/", id, "/", "cancel">>) = [to |-> "CancelOrder", arg |-> <<id>>]
    BY DeclaredIsRouted, Zenon
  <2> QED BY <1>1, <2>1, <2>3, <2>4 DEF RouteOfRequest, ArgOf
<1>3. ASSUME NEW id \in UUIDs, req = GetRequest(id)
      PROVE  /\ req.op = "GetOrderByUUID" /\ req.id = id /\ Plain(req.arg) = NoBody
             /\ RouteOfRequest(req) = [to |-> req.op, arg |-> ArgOf(req.op, req.id)]
             /\ CallOf(req) \in Reads /\ CallOf(req) \in CallsOfClients
  <2>1. /\ req.op = "GetOrderByUUID" /\ req.id = id /\ req.arg = NoBody /\ req.method = "GET"
        /\ req.path = <<Base, "/", id>>
    BY <1>3 DEF GetRequest
  <2>2. CallOf(req) = [op |-> "GetOrderByUUID", id |-> id, arg |-> NoBody]
    BY <1>1, <2>1 DEF CallOf
  <2>3. CallOf(req) \in Reads
    BY <2>2 DEF Reads
  <2>4. Route("GET", <<Base, "/", id>>) = [to |-> "GetOrderByUUID", arg |-> <<id>>]
    BY DeclaredIsRouted, Zenon
  <2> QED BY <1>1, <2>1, <2>3, <2>4 DEF RouteOfRequest, ArgOf, CallsOfClients
<1>4. ASSUME NEW id \in UUIDs, NEW r \in PayBodies, req = PayRequest(id, r)
      PROVE  /\ req.op = "PayOrder" /\ req.id = id
             /\ RouteOfRequest(req) = [to |-> req.op, arg |-> ArgOf(req.op, req.id)]
             /\ Decoded(Schema["PayOrderRequest"], req.body[1]) = Plain(req.arg)
             /\ CallOf(req) \in CallsOfClients
  <2>1. /\ req.op = "PayOrder" /\ req.id = id /\ req.arg = r /\ req.method = "POST"
        /\ req.path = <<Base, "/", id, "/", "pay">>
    BY <1>4 DEF PayRequest
  <2>2. req.body = <<Encode(PayOrderRequest, r)>>
    BY <1>4 DEF PayRequest, encodePayOrderRequest
  <2>3. PICK t : r = [payment_method |-> t]
    BY BodiesAssumption
  <2>4. Plain(r) = r
    BY <2>3 DEF Plain
  <2>5. Decoded(PayOrderRequest, Encode(PayOrderRequest, r)) = r
    BY <2>3, PayOrderRequestTravels
  <2>6. Schema["PayOrderRequest"] = PayOrderRequest
    BY DEF Schema
  <2>7. req.body[1] = Encode(PayOrderRequest, r)
    BY <2>2
  <2>8. CallOf(req) = [op |-> "PayOrder", id |-> id, arg |-> r]
    BY <2>1, <2>4 DEF CallOf
  <2>9. CallOf(req) \in CallsOfClients
    <3>1. CallOf(req) \in {[op |-> "PayOrder", id |-> i, arg |-> q] : i \in UUIDs, q \in PayBodies}
      BY <2>8
    <3> QED BY <3>1 DEF CallsOfClients
  <2>10. Route("POST", <<Base, "/", id, "/", "pay">>) = [to |-> "PayOrder", arg |-> <<id>>]
    BY DeclaredIsRouted, Zenon
  <2> QED BY <2>1, <2>4, <2>5, <2>6, <2>7, <2>9, <2>10 DEF RouteOfRequest, ArgOf
<1>5. ASSUME NEW r \in CreateBodies, req = CreateRequest(r)
      PROVE  /\ req.op = "CreateOrder" /\ req.id = NilUUID
             /\ RouteOfRequest(req) = [to |-> req.op, arg |-> ArgOf(req.op, req.id)]
             /\ Decoded(Schema["CreateOrderRequest"], req.body[1]) = Plain(req.arg)
             /\ CallOf(req) \in CallsOfClients
  <2>1. /\ req.op = "CreateOrder" /\ req.id = NilUUID /\ req.arg = r /\ req.method = "POST"
        /\ req.path = <<Base>>
    BY <1>5 DEF CreateRequest
  <2>2. req.body = <<Encode(CreateOrderRequest, r)>>
    BY <1>5 DEF CreateRequest, encodeCreateOrderRequest
  <2> DEFINE nil == r.part_uuids.nil
  <2>3. PICK u \in UUIDs, elems \in Seq(UUIDs) :
          r = [user_uuid |-> u, part_uuids |-> [nil |-> nil, elems |-> elems]]
    <3>1. r.user_uuid \in UUIDs /\ r.part_uuids.elems \in Seq(UUIDs)
      BY BodiesAssumption, Zenon
    <3>2. r = [user_uuid |-> r.user_uuid,
               part_uuids |-> [nil |-> r.part_uuids.nil, elems |-> r.part_uuids.elems]]
      BY BodiesAssumption, Zenon
    <3> QED BY <3>1, <3>2, Zenon
  <2> HIDE DEF nil
  <2>4. Plain(r) = [user_uuid |-> u, part_uuids |-> Slice(elems)]
    <3> DEFINE s == [nil |-> nil, elems |-> elems]
    <3>1. [s EXCEPT !.nil = FALSE] = Slice(elems)
      <4>1. \A b : [s EXCEPT !.nil = b] = [nil |-> b, elems |-> elems]
        OBVIOUS
      <4> QED BY <4>1 DEF Slice
    <3>2. r.part_uuids = s /\ "part_uuids" \in DOMAIN r
      BY <2>3
    <3> HIDE DEF s
    <3>3. Plain(r) = [r EXCEPT !.part_uuids = [r.part_uuids EXCEPT !.nil = FALSE]]
      BY <3>2 DEF Plain
    <3>4. [r EXCEPT !.part_uuids = Slice(elems)] = [user_uuid |-> u, part_uuids |-> Slice(elems)]
      BY <2>3
    <3> QED BY <3>1, <3>2, <3>3, <3>4
  <2>5. Decoded(CreateOrderRequest, Encode(CreateOrderRequest, r)) = Plain(r)
    <3> DEFINE s == [nil |-> nil, elems |-> elems]
    <3>1. s.elems = elems
      OBVIOUS
    <3>2. r = [user_uuid |-> u, part_uuids |-> s]
      BY <2>3
    <3> HIDE DEF s
    <3>3. Plain(r) = [user_uuid |-> u, part_uuids |-> Slice(s.elems)] /\ s.elems \in Seq(UUIDs)
      BY <2>3, <2>4, <3>1
    <3> QED BY <3>2, <3>3, CreateOrderRequestTravels
  <2>6. Schema["CreateOrderRequest"] = CreateOrderRequest
    BY DEF Schema
  <2>7. req.body[1] = Encode(CreateOrderRequest, r)
    BY <2>2
  <2>8. CallOf(req) = [op |-> "CreateOrder", id |-> NilUUID, arg |-> Plain(r)]
    BY <2>1 DEF CallOf
  <2>9. CallOf(req) \in CallsOfClients
    <3>1. CallOf(req) \in
            {[op |-> "CreateOrder", id |-> NilUUID, arg |-> Plain(q)] : q \in CreateBodies}
      BY <2>8
    <3> QED BY <3>1 DEF CallsOfClients
  <2>10. Route("POST", <<Base>>) = [to |-> "CreateOrder", arg |-> << >>]
    BY UUIDsAssumption, DeclaredIsRouted, Zenon
  <2> QED BY <2>1, <2>5, <2>6, <2>7, <2>9, <2>10 DEF RouteOfRequest, ArgOf
<1>6. req \notin RawRequests
  BY RawAssumption
<1>7. /\ "GetOrderByUUID" \in Ops /\ "CancelOrder" \in Ops /\ "PayOrder" \in Ops
      /\ "CreateOrder" \in Ops /\ NilUUID \in UUIDs
  BY UUIDsAssumption DEF Ops
<1>8. CASE \E id \in UUIDs : req = CancelRequest(id)
  BY <1>2, <1>7, <1>8
<1>9. CASE \E id \in UUIDs : req = GetRequest(id)
  BY <1>3, <1>7, <1>9
<1>10. CASE \E id \in UUIDs, r \in PayBodies : req = PayRequest(id, r)
  BY <1>4, <1>7, <1>10
<1>11. CASE \E r \in CreateBodies : req = CreateRequest(r)
  BY <1>5, <1>7, <1>11
<1> QED BY <1>6, <1>8, <1>9, <1>10, <1>11 DEF Asked

-----------------------------------------------------------------------------
(***************************************************************************)
(* The invariant: a request keeps to its route, everything served for it   *)
(* is what the description declares, at most once unless it is a GET, and  *)
(* the response is one of five kinds, each with what was recorded for it.  *)
(***************************************************************************)

Stages == {"idle", "sent", "service", "encode", "answered", "lost"} \cup Ops
Last == served[Len(served)]

\* A call that a request may make.
ServedBy(req, s) ==
  /\ s.op \in Ops /\ s.id \in UUIDs
  /\ s.op = RouteOfRequest(req).to
  /\ DeclaredAs(req, s.op, s.id)
  /\ req.op # "none" => s = CallOf(req)

Elems(s) == {s[i] : i \in DOMAIN s}

RequestInv ==
  /\ stage \in Stages /\ resends \in 0 .. MaxResends
  /\ stage = "idle" => /\ request = NoRequest /\ served = << >> /\ answer = None
                       /\ outcome = None /\ resends = 0
  /\ stage # "idle" => Asked(request)
  /\ stage \in Ops => RouteOfRequest(request).to = stage

ServedInv ==
  /\ served \in Seq(Elems(served))
  /\ \A i \in DOMAIN served : ServedBy(request, served[i])
  /\ request.method # "GET" =>
       Len(served) <= 1 /\ (stage \in {"sent"} \cup Ops => served = << >>)

AnswerInv ==
  /\ answer # None => served # << >> /\ AnswerOf(Last.op, answer)
  /\ stage = "service" => served # << >> /\ answer = None
  /\ stage = "encode" => served # << >> /\ AnswerOf(Last.op, answer)

\* A response that goes out whole.
Sent(status, ctype, body) ==
  [status |-> status, ctype |-> ctype, body |-> body, whole |-> TRUE]

Answered == served # << >> /\ AnswerOf(Last.op, answer)
AnsweredWhole ==
  Answered /\ response = ReplyTo(Last.op, answer) /\ recorded = response.status
AnsweredInPart ==
  /\ Answered /\ response.whole = FALSE
  /\ response.status = StatusOf(Last.op)[answer.type] /\ recorded = 500
Panicked ==
  served # << >> /\ answer = None /\ response = Sent(500, "", NoBody) /\ recorded = 0
Refused ==
  /\ served = << >> /\ recorded \in {400, 415}
  /\ response = Sent(recorded, JSON, ErrorMessage)
Unrouted ==
  /\ served = << >> /\ RouteOfRequest(request).to \notin Ops /\ recorded = 0
  /\ response.whole = TRUE /\ response.status \in {200, 204, 404, 405}

ResponseInv ==
  IF stage = "answered"
  THEN AnsweredWhole \/ AnsweredInPart \/ Panicked \/ Refused \/ Unrouted
  ELSE response = None /\ recorded = 0

IsDeclared(req) == \E op \in Ops, id \in UUIDs : DeclaredAs(req, op, id)
RefusalInv ==
  stage = "answered" /\ outcome = None /\ served = << >> => ~IsDeclared(request)

IInv == RequestInv /\ ServedInv /\ AnswerInv /\ ResponseInv /\ RefusalInv

\* The names of the stages are different.
LEMMA StagesDiffer ==
  /\ \A op \in Ops : op \notin {"idle", "sent", "service", "encode", "answered", "lost", "none"}
  /\ Ops \subseteq Stages
BY DEF Ops, Stages

\* The sequence t is s with x at its end.
Extended(s, x, t) ==
  /\ t \in Seq(Elems(t)) /\ Len(t) = Len(s) + 1 /\ t # << >>
  /\ t[Len(t)] = x
  /\ \A i \in DOMAIN t : t[i] = x \/ (i \in DOMAIN s /\ t[i] = s[i])

\* Appending does that.
LEMMA OneMore ==
  ASSUME NEW s, s \in Seq(Elems(s)), NEW x
  PROVE  Extended(s, x, Append(s, x))
<1> SUFFICES ASSUME NEW t, t = Append(s, x)
             PROVE  Extended(s, x, t)
  OBVIOUS
<1>1. Len(s) \in Nat /\ DOMAIN s = 1 .. Len(s)
  OBVIOUS
<1>2. /\ t \in Seq(Elems(s) \cup {x}) /\ Len(t) = Len(s) + 1
      /\ t[Len(s) + 1] = x /\ \A i \in 1 .. Len(s) : t[i] = s[i]
  <2>1. s \in Seq(Elems(s) \cup {x})
    BY SeqMonotonic
  <2> HIDE DEF Elems
  <2> QED BY <1>1, <2>1, AppendProperties
<1>3. DOMAIN t = 1 .. Len(s) + 1 /\ t # << >>
  BY <1>1, <1>2
<1>4. \A i \in DOMAIN t : t[i] \in Elems(t)
  BY DEF Elems
<1>5. t \in Seq(Elems(t))
  <2> DEFINE E == Elems(t)
  <2>1. \A i \in DOMAIN t : t[i] \in E
    BY <1>4
  <2> HIDE DEF E
  <2>2. \A S : t \in Seq(S) => t \in Seq(E)
    BY <2>1
  <2>3. t \in Seq(E)
    BY <1>2, <2>2, Zenon
  <2> QED BY <2>3 DEF E
<1> QED BY <1>1, <1>2, <1>3, <1>5 DEF Extended

\* The last call served is one of them.
LEMMA LastIsServed ==
  ASSUME ServedInv, served # << >>
  PROVE  ServedBy(request, Last) /\ Len(served) >= 1
<1>1. Len(served) \in DOMAIN served /\ Len(served) >= 1
  BY DEF ServedInv
<1> QED BY <1>1 DEF ServedInv, Last

\* What went out.
LEMMA SentFields ==
  ASSUME NEW status, NEW ctype, NEW body
  PROVE  /\ Sent(status, ctype, body).status = status
         /\ Sent(status, ctype, body).ctype = ctype
         /\ Sent(status, ctype, body).body = body
         /\ Sent(status, ctype, body).whole = TRUE /\ Sent(status, ctype, body).whole
<1>1. Sent(status, ctype, body).whole = TRUE
  BY DEF Sent
<1>2. Sent(status, ctype, body).whole
  BY <1>1
<1> QED BY <1>1, <1>2 DEF Sent

\* Of the checks of a handler.
LEMMA PathUUID ==
  ASSUME NEW arg
  PROVE  /\ DecodePathUUID(arg).ok <=> Len(arg) = 1 /\ arg[1] \in UUIDs
         /\ DecodePathUUID(arg).ok => DecodePathUUID(arg).value = arg[1]
<1>1. Ok(arg[1]).ok = TRUE /\ Ok(arg[1]).value = arg[1] /\ Failed.ok = FALSE
  BY DEF Ok, Failed
<1> QED BY <1>1, Zenon DEF DecodePathUUID

\* A handler that refuses a request is right, and has served nothing for it.
LEMMA RefusalIsRight ==
  ASSUME IInv, NEW op \in Ops, stage = op,
         \/ op # "CreateOrder" /\ ~DecodePathUUID(Arg).ok
         \/ ~BodyDeclared(op, request)
  PROVE  served = << >> /\ ~IsDeclared(request)
<1>1. RouteOfRequest(request).to = op /\ Arg = RouteOfRequest(request).arg
  BY DEF IInv, RequestInv, RouteOfRequest, Arg
<1>2. ~IsDeclared(request)
  <2>1. SUFFICES ASSUME NEW o \in Ops, NEW id \in UUIDs, DeclaredAs(request, o, id)
                 PROVE  FALSE
    BY Zenon DEF IsDeclared
  <2>2. /\ RouteOfRequest(request) = [to |-> o, arg |-> ArgOf(o, id)]
        /\ BodyDeclared(o, request)
    BY <2>1, DeclaredRoute
  <2>3. o = op /\ Arg = ArgOf(op, id) /\ BodyDeclared(op, request)
    BY <1>1, <2>2
  <2>4. op # "CreateOrder" => Len(Arg) = 1 /\ Arg[1] \in UUIDs
    BY <2>3 DEF ArgOf
  <2> QED BY <2>3, <2>4, PathUUID, Zenon
<1>3. served = << >>
  <2>1. served # << >> => ServedBy(request, Last)
    BY LastIsServed DEF IInv
  <2> QED BY <1>2, <2>1, Zenon DEF ServedBy, IsDeclared
<1> QED BY <1>2, <1>3

\* A body is read for the first time.
LEMMA Unread ==
  ASSUME IInv, NEW op \in {"CreateOrder", "PayOrder"}, stage = op
  PROVE  served = << >>
<1>1. SUFFICES ASSUME served # << >>
               PROVE  FALSE
  OBVIOUS
<1>2. op \in Ops
  BY DEF Ops
<1>3. Asked(request) /\ RouteOfRequest(request).to \in {"CreateOrder", "PayOrder"}
  BY <1>2, StagesDiffer DEF IInv, RequestInv
<1>4. PICK S : request.path \in Seq(S)
  BY <1>3, AskedPath
<1>5. PICK r : r = Route(request.method, request.path)
  OBVIOUS
<1>6. r.to \in {"CreateOrder", "PayOrder"} /\ r.to \in Ops
  BY <1>2, <1>3, <1>5 DEF RouteOfRequest, Ops
<1>7. request.method = "POST"
  BY <1>4, <1>5, <1>6, Routed
<1>8. request.method # "GET"
  BY <1>7
<1> QED BY <1>1, <1>2, <1>8 DEF IInv, ServedInv

\* What a handler passes on is the declared call, and of the generated client
\* the very call it was asked for.
LEMMA AcceptedIsServed ==
  ASSUME IInv, NEW op \in Ops, stage = op, NEW id, NEW body,
         IF op = "CreateOrder" THEN id = NilUUID
         ELSE Len(Arg) = 1 /\ Arg[1] = id /\ id \in UUIDs,
         BodyDeclared(op, request),
         op = "CreateOrder" => body = Body("CreateOrderRequest"),
         op = "PayOrder" => body = Body("PayOrderRequest"),
         op \in {"GetOrderByUUID", "CancelOrder"} => body = NoBody
  PROVE  ServedBy(request, [op |-> op, id |-> id, arg |-> body])
<1> DEFINE s == [op |-> op, id |-> id, arg |-> body]
<1>1. /\ Asked(request) /\ RouteOfRequest(request).to = op
      /\ Arg = RouteOfRequest(request).arg
  BY StagesDiffer DEF IInv, RequestInv, RouteOfRequest, Arg
<1>2. s.op = op /\ s.id = id
  OBVIOUS
<1>3. DeclaredAs(request, op, id) /\ id \in UUIDs
  BY <1>1, AcceptedIsDeclared
<1>4. ASSUME request.op # "none"
      PROVE  s = CallOf(request)
  <2>1. /\ request.op \in Ops /\ request.id \in UUIDs
        /\ RouteOfRequest(request) = [to |-> request.op, arg |-> ArgOf(request.op, request.id)]
        /\ request.op = "CreateOrder" =>
             /\ request.id = NilUUID
             /\ Decoded(Schema["CreateOrderRequest"], request.body[1]) = Plain(request.arg)
        /\ request.op = "PayOrder" =>
             Decoded(Schema["PayOrderRequest"], request.body[1]) = Plain(request.arg)
        /\ request.op \in {"GetOrderByUUID", "CancelOrder"} => Plain(request.arg) = NoBody
    BY <1>1, <1>4, TypedRequests
  <2>2. request.op = op /\ Arg = ArgOf(op, request.id)
    BY <1>1, <2>1
  <2>3. request.id = id
    BY <2>1, <2>2 DEF ArgOf
  <2>4. body = Plain(request.arg)
    BY <2>1, <2>2 DEF Body, Ops
  <2> QED BY <2>2, <2>3, <2>4 DEF CallOf
<1> HIDE DEF s
<1>5. ServedBy(request, s)
  BY <1>1, <1>2, <1>3, <1>4, Zenon DEF ServedBy
<1> QED BY <1>5 DEF s

-----------------------------------------------------------------------------
(* The steps keep the invariant. *)

\* The invariant holds at the start.
LEMMA InitKeeps ==
  Init => IInv
<1> SUFFICES ASSUME Init
             PROVE  IInv
  OBVIOUS
<1> USE DEF Init
<1>1. stage = "idle" /\ stage \notin Ops /\ stage \in Stages
  BY StagesDiffer DEF Stages
<1>2. RequestInv
  BY <1>1, ResendsAssumption DEF RequestInv
<1>3. ServedInv
  BY <1>1 DEF ServedInv
<1>4. AnswerInv /\ ResponseInv /\ RefusalInv
  BY DEF AnswerInv, ResponseInv, RefusalInv
<1> QED BY <1>2, <1>3, <1>4 DEF IInv

\* A client sends.
LEMMA SendKeeps ==
  ASSUME IInv, NEW req, Asked(req), Send(req)
  PROVE  IInv'
<1> USE DEF Send
<1>1. /\ stage = "idle" /\ stage' = "sent" /\ request' = req
      /\ served' = << >> /\ answer' = None /\ outcome' = None
      /\ resends' = resends /\ resends \in 0 .. MaxResends
      /\ response' = None /\ recorded' = 0
  BY DEF IInv, RequestInv, ResponseInv
<1>2. stage' \in Stages /\ stage' \notin Ops
  BY <1>1, StagesDiffer DEF Stages
<1>3. RequestInv'
  BY <1>1, <1>2 DEF RequestInv
<1>4. ServedInv'
  BY <1>1 DEF ServedInv
<1>5. AnswerInv'
  BY <1>1 DEF AnswerInv
<1>6. ResponseInv' /\ RefusalInv'
  BY <1>1 DEF ResponseInv, RefusalInv
<1> QED BY <1>3, <1>4, <1>5, <1>6 DEF IInv

\* A handler passes a call on.
LEMMA ServeKeeps ==
  ASSUME IInv, NEW op, NEW id, NEW body, op \in Ops, stage = op, Serve(op, id, body),
         ServedBy(request, [op |-> op, id |-> id, arg |-> body])
  PROVE  IInv'
<1> DEFINE x == [op |-> op, id |-> id, arg |-> body]
<1>1. /\ served' = Append(served, x) /\ answer' = None /\ stage' = "service"
      /\ request' = request /\ response' = response /\ recorded' = recorded
      /\ outcome' = outcome /\ resends' = resends
  BY DEF Serve
<1>2. ServedBy(request, x)
  OBVIOUS
<1> HIDE DEF x
<1>3. stage # "idle" /\ stage # "answered" /\ stage' \in Stages /\ stage' \notin Ops
  BY <1>1, StagesDiffer DEF Stages
<1>4. /\ served' \in Seq(Elems(served')) /\ Len(served') = Len(served) + 1 /\ served' # << >>
      /\ \A i \in DOMAIN served' : served'[i] = x \/ (i \in DOMAIN served /\ served'[i] = served[i])
  <2>1. served \in Seq(Elems(served))
    BY DEF IInv, ServedInv
  <2>2. Extended(served, x, served')
    BY <1>1, <2>1, OneMore, Zenon
  <2> QED BY <2>2, Zenon DEF Extended
<1>5. RequestInv'
  BY <1>1, <1>3 DEF IInv, RequestInv
<1>6. ServedInv'
  <2>1. \A i \in DOMAIN served' : ServedBy(request, served'[i])
    BY <1>2, <1>4, Zenon DEF IInv, ServedInv
  <2>2. request.method # "GET" => Len(served) = 0
    BY DEF IInv, ServedInv
  <2>3. request.method # "GET" => Len(served') <= 1
    BY <1>4, <2>2
  <2>4. stage' \notin {"sent"} \cup Ops
    BY <1>1, <1>3
  <2> QED BY <1>1, <1>4, <2>1, <2>3, <2>4, Zenon DEF ServedInv
<1>7. AnswerInv'
  BY <1>1, <1>4 DEF AnswerInv
<1>8. ResponseInv' /\ RefusalInv'
  BY <1>1, <1>3 DEF IInv, ResponseInv, RefusalInv
<1> QED BY <1>5, <1>6, <1>7, <1>8 DEF IInv

\* A handler refuses.
LEMMA RefuseKeeps ==
  ASSUME IInv, stage \in Ops, served = << >>, NEW status \in {400, 415}, Refuse(status),
         outcome = None => ~IsDeclared(request)
  PROVE  IInv'
<1>1. /\ response' = Sent(status, JSON, ErrorMessage) /\ recorded' = status
      /\ stage' = "answered" /\ request' = request /\ served' = served /\ answer' = answer
      /\ outcome' = outcome /\ resends' = resends
  BY DEF Refuse, ErrorHandler, Reply, Sent
<1>2. stage # "idle" /\ stage' \in Stages /\ stage' \notin Ops
  BY <1>1, StagesDiffer DEF Stages
<1>3. RequestInv'
  BY <1>1, <1>2 DEF IInv, RequestInv
<1>4. ServedInv'
  BY <1>1, <1>2 DEF IInv, ServedInv
<1>5. AnswerInv'
  BY <1>1 DEF IInv, AnswerInv
<1>6. ResponseInv'
  BY <1>1 DEF ResponseInv, Refused
<1>7. RefusalInv'
  BY <1>1 DEF RefusalInv
<1> QED BY <1>3, <1>4, <1>5, <1>6, <1>7 DEF IInv

\* The router finds an operation or answers itself.
LEMMA ServeHTTPKeeps ==
  ASSUME IInv, ServeHTTP
  PROVE  IInv'
<1> DEFINE to == RouteOfRequest(request).to
<1>1. /\ stage = "sent" /\ request' = request /\ served' = served /\ answer' = answer
      /\ recorded' = recorded /\ outcome' = outcome /\ resends' = resends
      /\ response = None /\ recorded = 0 /\ stage # "idle" /\ stage \in {"sent"} \cup Ops
  BY DEF ServeHTTP, IInv, ResponseInv
<1>2. \/ to \in Ops /\ stage' = to /\ response' = response
      \/ /\ to \notin Ops /\ stage' = "answered"
         /\ response'.whole = TRUE /\ response'.status \in {200, 204, 404, 405}
  <2>1. "health" \notin Ops /\ "notFound" \notin Ops /\ "notAllowed" \notin Ops
    BY DEF Ops
  <2>2. \A status, ctype, body : response' = Sent(status, ctype, body) =>
          response'.whole = TRUE /\ response'.status = status
    BY DEF Sent
  <2>3. \/ to \in Ops /\ stage' = to /\ response' = response
        \/ /\ to \in {"health", "notFound", "notAllowed"} /\ stage' = "answered"
           /\ \/ notFound \/ notAllowed \/ HealthCheck
    BY DEF ServeHTTP, RouteOfRequest
  <2>4. notFound => response'.whole = TRUE /\ response'.status = 404
    BY DEF notFound, Reply
  <2>5. HealthCheck => response'.whole = TRUE /\ response'.status = 200
    BY DEF HealthCheck, Reply
  <2>6. notAllowed => response'.whole = TRUE /\ response'.status \in {204, 405}
    <3> DEFINE status == IF request.method = "OPTIONS" THEN 204 ELSE 405
    <3>1. status \in {204, 405}
      OBVIOUS
    <3>2. notAllowed => response' = Sent(status, "", NoBody)
      BY Zenon DEF notAllowed, Reply, Sent
    <3> HIDE DEF status
    <3>3. notAllowed => response'.whole = TRUE /\ response'.status = status
      BY <2>2, <3>2, Zenon
    <3> QED BY <3>1, <3>3
  <2> QED BY <2>1, <2>2, <2>3, <2>4, <2>5, <2>6
<1> HIDE DEF to
<1>3. CASE to \in Ops /\ stage' = to /\ response' = response
  <2>1. stage' \in Stages /\ stage' \notin {"idle", "answered", "service", "encode"}
    BY <1>3, StagesDiffer
  <2>2. RequestInv'
    BY <1>1, <1>3, <2>1 DEF IInv, RequestInv, to
  <2>3. ServedInv'
    BY <1>1, <1>3 DEF IInv, ServedInv
  <2>4. AnswerInv'
    BY <1>1, <2>1 DEF IInv, AnswerInv, Last
  <2>5. ResponseInv' /\ RefusalInv'
    BY <1>1, <1>3, <2>1 DEF ResponseInv, RefusalInv
  <2> QED BY <2>2, <2>3, <2>4, <2>5 DEF IInv
<1>4. CASE /\ to \notin Ops /\ stage' = "answered"
           /\ response'.whole = TRUE /\ response'.status \in {200, 204, 404, 405}
  <2>1. stage' \in Stages /\ stage' \notin Ops
    BY <1>4, StagesDiffer DEF Stages
  <2>2. ~IsDeclared(request)
    <3>1. \A o \in Ops, id \in UUIDs : DeclaredAs(request, o, id) => to = o
      <4> SUFFICES ASSUME NEW o \in Ops, NEW id \in UUIDs, DeclaredAs(request, o, id)
                   PROVE  to = o
        OBVIOUS
      <4>1. RouteOfRequest(request) = [to |-> o, arg |-> ArgOf(o, id)]
        BY DeclaredRoute
      <4> QED BY <4>1 DEF to
    <3> QED BY <1>4, <3>1, Zenon DEF IsDeclared
  <2>3. served = << >>
    <3>1. served # << >> => ServedBy(request, Last)
      BY LastIsServed DEF IInv
    <3> QED BY <2>2, <3>1, Zenon DEF ServedBy, IsDeclared
  <2>4. RequestInv'
    BY <1>1, <1>4, <2>1 DEF IInv, RequestInv
  <2>5. ServedInv'
    BY <1>1, <1>4, <2>1 DEF IInv, ServedInv
  <2>6. AnswerInv'
    BY <1>1, <1>4 DEF IInv, AnswerInv, Last
  <2>7. ResponseInv'
    <3>1. Unrouted'
      BY <1>1, <1>4, <2>3 DEF Unrouted, to
    <3> QED BY <1>4, <3>1 DEF ResponseInv
  <2>8. RefusalInv'
    BY <1>1, <2>2 DEF RefusalInv
  <2> QED BY <2>4, <2>5, <2>6, <2>7, <2>8 DEF IInv
<1> QED BY <1>2, <1>3, <1>4

\* The handlers check, and refuse or pass on.
LEMMA HandlersKeep ==
  ASSUME IInv, Handlers
  PROVE  IInv'
<1>1. /\ "CancelOrder" \in Ops /\ "GetOrderByUUID" \in Ops
      /\ "CreateOrder" \in Ops /\ "PayOrder" \in Ops
  BY DEF Ops
<1>2. ReadFails => outcome # None
  BY FailAssumption DEF ReadFails
<1>3. Len(Arg) = 1 /\ Arg[1] \in UUIDs <=> DecodePathUUID(Arg).ok
  BY PathUUID
<1>4. DecodePathUUID(Arg).ok => DecodePathUUID(Arg).value = Arg[1]
  BY PathUUID
<1>5. BodyDeclared("GetOrderByUUID", request) /\ BodyDeclared("CancelOrder", request)
  BY BodiesAsDeclared
<1>6. \A type : BodyStatus(type, request.ctype, request.body) \in {0, 400, 415}
  <2> TAKE type
  <2>1. CASE request.ctype = ""
    <3>1. BodyStatus(type, request.ctype, request.body) = 400
      BY <2>1, Zenon DEF BodyStatus, JSON
    <3> QED BY <3>1
  <2>2. CASE request.ctype # "" /\ request.ctype # JSON
    <3>1. BodyStatus(type, request.ctype, request.body) = 415
      BY <2>2, Zenon DEF BodyStatus
    <3> QED BY <3>1
  <2>3. CASE request.ctype = JSON
    <3>1. BodyStatus(type, request.ctype, request.body)
            = IF Len(request.body) = 1 /\ Parses(type, request.body[1]) THEN 0 ELSE 400
      BY <2>3, Zenon DEF BodyStatus, JSON
    <3> QED BY <3>1, Zenon
  <2> QED BY <2>1, <2>2, <2>3, Zenon
<1>7. CASE handleCancelOrderRequest
  <2>1. stage = "CancelOrder" /\ stage \in Ops
    BY <1>1, <1>7 DEF handleCancelOrderRequest
  <2>2. CASE DecodePathUUID(Arg).ok
    <3>1. ServedBy(request, [op |-> "CancelOrder", id |-> Arg[1], arg |-> NoBody])
      BY <1>1, <1>3, <1>5, <2>1, <2>2, AcceptedIsServed
    <3>2. Serve("CancelOrder", Arg[1], NoBody)
      BY <1>4, <1>7, <2>2, Zenon DEF handleCancelOrderRequest, decodeCancelOrderParams
    <3> QED BY <1>1, <2>1, <3>1, <3>2, ServeKeeps
  <2>3. CASE ~DecodePathUUID(Arg).ok
    <3>1. Refuse(400)
      BY <1>7, <2>3, Zenon DEF handleCancelOrderRequest, decodeCancelOrderParams
    <3>2. served = << >> /\ ~IsDeclared(request)
      BY <1>1, <2>1, <2>3, RefusalIsRight
    <3> QED BY <2>1, <3>1, <3>2, RefuseKeeps
  <2> QED BY <2>2, <2>3
<1>8. CASE handleGetOrderByUUIDRequest
  <2>1. stage = "GetOrderByUUID" /\ stage \in Ops
    BY <1>1, <1>8 DEF handleGetOrderByUUIDRequest
  <2>2. CASE DecodePathUUID(Arg).ok
    <3>1. ServedBy(request, [op |-> "GetOrderByUUID", id |-> Arg[1], arg |-> NoBody])
      BY <1>1, <1>3, <1>5, <2>1, <2>2, AcceptedIsServed
    <3>2. Serve("GetOrderByUUID", Arg[1], NoBody)
      BY <1>4, <1>8, <2>2, Zenon DEF handleGetOrderByUUIDRequest, decodeGetOrderByUUIDParams
    <3> QED BY <1>1, <2>1, <3>1, <3>2, ServeKeeps
  <2>3. CASE ~DecodePathUUID(Arg).ok
    <3>1. Refuse(400)
      BY <1>8, <2>3, Zenon DEF handleGetOrderByUUIDRequest, decodeGetOrderByUUIDParams
    <3>2. served = << >> /\ ~IsDeclared(request)
      BY <1>1, <2>1, <2>3, RefusalIsRight
    <3> QED BY <2>1, <3>1, <3>2, RefuseKeeps
  <2> QED BY <2>2, <2>3
<1>9. CASE handleCreateOrderRequest
  <2> DEFINE code == BodyStatus("CreateOrderRequest", request.ctype, request.body)
  <2>1. stage = "CreateOrder" /\ stage \in Ops /\ served = << >>
    BY <1>1, <1>9, Unread DEF handleCreateOrderRequest
  <2>2. code \in {0, 400, 415} /\ (BodyDeclared("CreateOrder", request) <=> code = 0)
    BY <1>6, BodiesAsDeclared
  <2>3. \/ ReadFails /\ Refuse(400)
        \/ code = 0 /\ Serve("CreateOrder", NilUUID, Body("CreateOrderRequest"))
        \/ code # 0 /\ Refuse(code)
    BY <1>9, Zenon DEF handleCreateOrderRequest, decodeCreateOrderRequest
  <2> HIDE DEF code
  <2>4. CASE ReadFails /\ Refuse(400)
    BY <1>2, <2>1, <2>4, RefuseKeeps
  <2>5. CASE code = 0 /\ Serve("CreateOrder", NilUUID, Body("CreateOrderRequest"))
    <3>1. ServedBy(request, [op |-> "CreateOrder", id |-> NilUUID,
                             arg |-> Body("CreateOrderRequest")])
      BY <1>1, <2>1, <2>2, <2>5, AcceptedIsServed
    <3> QED BY <1>1, <2>1, <2>5, <3>1, ServeKeeps
  <2>6. CASE code # 0 /\ Refuse(code)
    <3>1. ~IsDeclared(request)
      BY <1>1, <2>1, <2>2, <2>6, RefusalIsRight
    <3> QED BY <2>1, <2>2, <2>6, <3>1, RefuseKeeps
  <2> QED BY <2>3, <2>4, <2>5, <2>6
<1>10. CASE handlePayOrderRequest
  <2> DEFINE code == BodyStatus("PayOrderRequest", request.ctype, request.body)
  <2>1. stage = "PayOrder" /\ stage \in Ops /\ served = << >>
    BY <1>1, <1>10, Unread DEF handlePayOrderRequest
  <2>2. code \in {0, 400, 415} /\ (BodyDeclared("PayOrder", request) <=> code = 0)
    BY <1>6, BodiesAsDeclared
  <2>3. \/ ~DecodePathUUID(Arg).ok /\ Refuse(400)
        \/ ReadFails /\ Refuse(400)
        \/ /\ DecodePathUUID(Arg).ok /\ code = 0
           /\ Serve("PayOrder", Arg[1], Body("PayOrderRequest"))
        \/ code # 0 /\ Refuse(code)
    BY <1>4, <1>10, Zenon DEF handlePayOrderRequest, decodePayOrderRequest, decodePayOrderParams
  <2> HIDE DEF code
  <2>4. CASE ~DecodePathUUID(Arg).ok /\ Refuse(400)
    <3>1. ~IsDeclared(request)
      BY <1>1, <2>1, <2>4, RefusalIsRight
    <3> QED BY <2>1, <2>4, <3>1, RefuseKeeps
  <2>5. CASE ReadFails /\ Refuse(400)
    BY <1>2, <2>1, <2>5, RefuseKeeps
  <2>6. CASE /\ DecodePathUUID(Arg).ok /\ code = 0
             /\ Serve("PayOrder", Arg[1], Body("PayOrderRequest"))
    <3>1. ServedBy(request, [op |-> "PayOrder", id |-> Arg[1], arg |-> Body("PayOrderRequest")])
      BY <1>1, <1>3, <2>1, <2>2, <2>6, AcceptedIsServed
    <3> QED BY <1>1, <2>1, <2>6, <3>1, ServeKeeps
  <2>7. CASE code # 0 /\ Refuse(code)
    <3>1. ~IsDeclared(request)
      BY <1>1, <2>1, <2>2, <2>7, RefusalIsRight
    <3> QED BY <2>1, <2>2, <2>7, <3>1, RefuseKeeps
  <2> QED BY <2>3, <2>4, <2>5, <2>6, <2>7
<1> QED BY <1>7, <1>8, <1>9, <1>10 DEF Handlers

\* The business handler returns an answer of its operation.
LEMMA ReturnsKeeps ==
  ASSUME IInv, NEW op, NEW a, AnswerOf(op, a), Returns(op, a)
  PROVE  IInv'
<1>1. /\ stage = "service" /\ Last.op = op /\ answer' = a /\ stage' = "encode"
      /\ request' = request /\ served' = served /\ response' = response
      /\ recorded' = recorded /\ outcome' = outcome /\ resends' = resends
  BY DEF Returns, Last
<1>2. stage' \in Stages /\ stage' \notin Ops /\ Last' = Last
  BY <1>1, StagesDiffer DEF Stages, Last
<1>3. RequestInv'
  BY <1>1, <1>2 DEF IInv, RequestInv
<1>4. ServedInv'
  BY <1>1, <1>2 DEF IInv, ServedInv
<1>5. AnswerInv'
  BY <1>1, <1>2, Zenon DEF IInv, AnswerInv
<1>6. ResponseInv' /\ RefusalInv'
  BY <1>1 DEF IInv, ResponseInv, RefusalInv
<1> QED BY <1>3, <1>4, <1>5, <1>6 DEF IInv

\* What a business handler may answer in error, from the definition.
LEMMA ErrorIsAnswer ==
  ASSUME NEW op, NEW type \in ErrorTypes(op), NEW code \in 400 .. 599
  PROVE  AnswerOf(op, Error(type, code))
<1>1. \E t \in ErrorTypes(op), c \in 400 .. 599 : Error(type, code) = Error(t, c)
  BY Zenon
<1> QED BY <1>1, Zenon DEF AnswerOf

LEMMA InvalidIsAnswer ==
  ASSUME NEW op \in {"CreateOrder", "PayOrder"}, NEW code \in 400 .. 599
  PROVE  AnswerOf(op, Invalid(code))
<1>1. \E c \in 400 .. 599 : Invalid(code) = Invalid(c)
  BY Zenon
<1> QED BY <1>1, Zenon DEF AnswerOf

\* Every error of the service becomes an answer of the operation.
LEMMA MappedErrors ==
  /\ \A err : AnswerOf("CreateOrder", mapErrorToCreateOrderRes(err))
  /\ \A err : AnswerOf("PayOrder", mapErrorToPayOrderRes(err))
  /\ \A err : AnswerOf("GetOrderByUUID", mapErrorToGetOrderRes(err))
  /\ \A err : AnswerOf("CancelOrder", mapErrorToCancelOrderRes(err))
<1>1. /\ ErrorTypes("CreateOrder") = {"NotFoundError", "BadGatewayError",
                                      "ServiceUnavailableError", "InternalServerError"}
      /\ ErrorTypes("PayOrder") = {"NotFoundError", "ConflictError", "BadGatewayError",
                                   "ServiceUnavailableError", "InternalServerError"}
      /\ ErrorTypes("GetOrderByUUID") = {"NotFoundError", "InternalServerError"}
      /\ ErrorTypes("CancelOrder") = {"NotFoundError", "ConflictError", "InternalServerError"}
  BY DEF ErrorTypes
<1>2. \A op : \A type \in ErrorTypes(op), code \in 400 .. 599 : AnswerOf(op, Error(type, code))
  BY ErrorIsAnswer
<1>3. \A op \in {"CreateOrder", "PayOrder"} : \A code \in 400 .. 599 : AnswerOf(op, Invalid(code))
  BY InvalidIsAnswer
<1>4. 400 \in 400 .. 599 /\ 404 \in 400 .. 599 /\ 409 \in 400 .. 599 /\ 422 \in 400 .. 599
      /\ 500 \in 400 .. 599 /\ 502 \in 400 .. 599 /\ 503 \in 400 .. 599
  OBVIOUS
<1>5. \A err : AnswerOf("CreateOrder", mapErrorToCreateOrderRes(err))
  <2>1. /\ AnswerOf("CreateOrder", Error("NotFoundError", 404))
        /\ AnswerOf("CreateOrder", Error("BadGatewayError", 502))
        /\ AnswerOf("CreateOrder", Error("ServiceUnavailableError", 503))
        /\ AnswerOf("CreateOrder", Error("InternalServerError", 500))
    BY <1>1, <1>2, <1>4
  <2>2. AnswerOf("CreateOrder", Invalid(400)) /\ AnswerOf("CreateOrder", Invalid(422))
    BY <1>3, <1>4
  <2> QED BY <2>1, <2>2 DEF mapErrorToCreateOrderRes
<1>6. \A err : AnswerOf("PayOrder", mapErrorToPayOrderRes(err))
  <2>1. /\ AnswerOf("PayOrder", Error("NotFoundError", 404))
        /\ AnswerOf("PayOrder", Error("ConflictError", 409))
        /\ AnswerOf("PayOrder", Error("BadGatewayError", 502))
        /\ AnswerOf("PayOrder", Error("ServiceUnavailableError", 503))
        /\ AnswerOf("PayOrder", Error("InternalServerError", 500))
    BY <1>1, <1>2, <1>4
  <2>2. AnswerOf("PayOrder", Invalid(400))
    BY <1>3, <1>4
  <2> QED BY <2>1, <2>2 DEF mapErrorToPayOrderRes
<1>7. \A err : AnswerOf("GetOrderByUUID", mapErrorToGetOrderRes(err))
  BY <1>1, <1>2, <1>4 DEF mapErrorToGetOrderRes
<1>8. \A err : AnswerOf("CancelOrder", mapErrorToCancelOrderRes(err))
  BY <1>1, <1>2, <1>4 DEF mapErrorToCancelOrderRes
<1> QED BY <1>5, <1>6, <1>7, <1>8

\* The service answers.
LEMMA ServiceKeeps ==
  ASSUME IInv, Service
  PROVE  IInv'
<1>1. CASE CreateOrderHandler
  <2>1. \A id \in UUIDs, cents \in Cents :
          AnswerOf("CreateOrder", Answer("CreateOrderResponse",
                   [uuid |-> id, total_price |-> formatCents(cents)]))
    BY Zenon DEF AnswerOf
  <2>2. \E a : AnswerOf("CreateOrder", a) /\ Returns("CreateOrder", a)
    BY <1>1, <2>1, MappedErrors, Zenon DEF CreateOrderHandler
  <2> QED BY <2>2, ReturnsKeeps
<1>2. CASE PayOrderHandler
  <2>1. \A tx \in UUIDs :
          AnswerOf("PayOrder", Answer("PayOrderResponse", [transaction_uuid |-> tx]))
    BY Zenon DEF AnswerOf
  <2>2. \E a : AnswerOf("PayOrder", a) /\ Returns("PayOrder", a)
    BY <1>2, <2>1, MappedErrors, Zenon DEF PayOrderHandler
  <2> QED BY <2>2, ReturnsKeeps
<1>3. CASE GetOrderByUUIDHandler
  <2>1. stage = "service"
    BY <1>3, Zenon DEF GetOrderByUUIDHandler, Returns
  <2>2. Last.id \in UUIDs
    BY <2>1, LastIsServed DEF IInv, AnswerInv, ServedBy
  <2>3. \A ord \in Orders : AnswerOf("GetOrderByUUID", OrderToOAPI([ord EXCEPT !.id = Last.id]))
    BY <2>2, Zenon DEF AnswerOf, ShownOrder
  <2>4. \E a : AnswerOf("GetOrderByUUID", a) /\ Returns("GetOrderByUUID", a)
    BY <1>3, <2>3, MappedErrors, Zenon DEF GetOrderByUUIDHandler, Last
  <2> QED BY <2>4, ReturnsKeeps
<1>4. CASE CancelOrderHandler
  <2>1. AnswerOf("CancelOrder", Answer("CancelOrderNoContent", NoBody))
    BY Zenon DEF AnswerOf
  <2>2. \E a : AnswerOf("CancelOrder", a) /\ Returns("CancelOrder", a)
    BY <1>4, <2>1, MappedErrors, Zenon DEF CancelOrderHandler
  <2> QED BY <2>2, ReturnsKeeps
<1> QED BY <1>1, <1>2, <1>3, <1>4 DEF Service

\* The business handler panics.
LEMMA PanicKeeps ==
  ASSUME IInv, Panic
  PROVE  IInv'
<1>1. /\ stage = "service" /\ stage' = "answered"
      /\ request' = request /\ served' = served /\ answer' = answer
      /\ recorded' = recorded /\ outcome' = outcome /\ resends' = resends
  BY DEF Panic
<1>2. response' = Sent(500, "", NoBody)
  BY Zenon DEF Panic, Reply, Sent
<1>3. stage' \in Stages /\ stage' \notin Ops
  BY <1>1, StagesDiffer DEF Stages
<1>4. served # << >> /\ answer = None /\ recorded = 0
  BY <1>1 DEF IInv, AnswerInv, ResponseInv
<1>5. RequestInv'
  BY <1>1, <1>3 DEF IInv, RequestInv
<1>6. ServedInv'
  BY <1>1, <1>3 DEF IInv, ServedInv
<1>7. AnswerInv'
  BY <1>1, <1>4 DEF AnswerInv
<1>8. ResponseInv'
  <2>1. Panicked'
    BY <1>1, <1>2, <1>4, Zenon DEF Panicked
  <2> QED BY <1>1, <2>1 DEF ResponseInv
<1>9. RefusalInv'
  BY <1>1, <1>4 DEF RefusalInv
<1> QED BY <1>5, <1>6, <1>7, <1>8, <1>9 DEF IInv

\* The answer is written, or begun.
LEMMA WriteKeeps ==
  ASSUME IInv, WriteAnswer
  PROVE  IInv'
<1> DEFINE status == StatusOf(Last.op)[answer.type]
<1>1. /\ stage = "encode" /\ stage' = "answered"
      /\ request' = request /\ served' = served /\ answer' = answer
      /\ outcome' = outcome /\ resends' = resends
  BY Zenon DEF WriteAnswer
<1>2. \/ response' = ReplyTo(Last.op, answer) /\ recorded' = status
      \/ /\ response' = [status |-> status, ctype |-> JSON, body |-> <<Bad>>, whole |-> FALSE]
         /\ recorded' = 500
  BY Zenon DEF WriteAnswer, Reply, ReplyTo, Last
<1>3. stage' \in Stages /\ stage' \notin Ops /\ Last' = Last
  BY <1>1, StagesDiffer DEF Stages, Last
<1>4. served # << >> /\ AnswerOf(Last.op, answer)
  BY <1>1 DEF IInv, AnswerInv
<1>5. Answered'
  BY <1>1, <1>3, <1>4, Zenon DEF Answered
<1>6. RequestInv'
  BY <1>1, <1>3 DEF IInv, RequestInv
<1>7. ServedInv'
  BY <1>1, <1>3 DEF IInv, ServedInv
<1>8. AnswerInv'
  BY <1>1, <1>3, <1>4 DEF AnswerInv
<1>9. ResponseInv'
  <2>1. CASE response' = ReplyTo(Last.op, answer) /\ recorded' = status
    <3>1. ReplyTo(Last.op, answer).status = status
      BY Zenon DEF ReplyTo
    <3> HIDE DEF status
    <3>2. AnsweredWhole'
      BY <1>1, <1>3, <1>5, <2>1, <3>1, Zenon DEF AnsweredWhole
    <3> QED BY <1>1, <3>2 DEF ResponseInv
  <2>2. CASE /\ response' = [status |-> status, ctype |-> JSON, body |-> <<Bad>>, whole |-> FALSE]
             /\ recorded' = 500
    <3>1. response'.whole = FALSE /\ response'.status = status
      BY <2>2
    <3>2. AnsweredInPart'
      BY <1>1, <1>3, <1>5, <2>2, <3>1, Zenon DEF AnsweredInPart
    <3> QED BY <1>1, <3>2 DEF ResponseInv
  <2> HIDE DEF status
  <2> QED BY <1>2, <2>1, <2>2
<1>10. RefusalInv'
  BY <1>1, <1>4 DEF RefusalInv
<1> QED BY <1>6, <1>7, <1>8, <1>9, <1>10 DEF IInv

\* A response stays as sound as it is while nothing but the outcome changes.
LEMMA ResponseStays ==
  ASSUME ResponseInv, UNCHANGED <<stage, request, served, answer, response, recorded>>
  PROVE  ResponseInv'
<1>1. (Answered <=> Answered') /\ Last' = Last
  BY DEF Answered, Last
<1>2. AnsweredWhole <=> AnsweredWhole'
  BY <1>1 DEF AnsweredWhole
<1>3. AnsweredInPart <=> AnsweredInPart'
  BY <1>1 DEF AnsweredInPart
<1>4. (Panicked <=> Panicked') /\ (Refused <=> Refused')
  BY DEF Panicked, Refused
<1>5. Unrouted <=> Unrouted'
  BY DEF Unrouted
<1>6. stage' = stage /\ response' = response /\ recorded' = recorded
  OBVIOUS
<1>7. CASE stage = "answered"
  <2>1. stage' = "answered"
    BY <1>6, <1>7
  <2>2. AnsweredWhole \/ AnsweredInPart \/ Panicked \/ Refused \/ Unrouted
    BY <1>7, Zenon DEF ResponseInv
  <2>3. (AnsweredWhole \/ AnsweredInPart \/ Panicked \/ Refused \/ Unrouted)'
    BY <1>2, <1>3, <1>4, <1>5, <2>2, Zenon
  <2> QED BY <2>1, <2>3, Zenon DEF ResponseInv
<1>8. CASE stage # "answered"
  BY <1>6, <1>8, Zenon DEF ResponseInv
<1> QED BY <1>7, <1>8

\* The client gets something or gives up: only the outcome changes.
LEMMA OutcomeKeeps ==
  ASSUME IInv, stage # "idle", outcome = None,
         UNCHANGED <<stage, request, served, answer, response, recorded, resends>>
  PROVE  IInv'
<1>1. RequestInv'
  BY DEF IInv, RequestInv
<1>2. ServedInv'
  BY DEF IInv, ServedInv
<1>3. AnswerInv'
  BY DEF IInv, AnswerInv, Last
<1>4. ResponseInv'
  <2>1. ResponseInv
    BY Zenon DEF IInv
  <2> QED BY <2>1, ResponseStays
<1>5. RefusalInv'
  BY DEF IInv, RefusalInv
<1> QED BY <1>1, <1>2, <1>3, <1>4, <1>5 DEF IInv

\* The request does not arrive.
LEMMA UnreachableKeeps ==
  ASSUME IInv, Unreachable
  PROVE  IInv'
<1>1. /\ stage = "sent" /\ stage' = "lost" /\ request' = request /\ served' = served
      /\ answer' = answer /\ response' = response /\ recorded' = recorded /\ resends' = resends
  BY DEF Unreachable
<1>2. stage' \in Stages /\ stage' \notin Ops /\ Last' = Last
  BY <1>1, StagesDiffer DEF Stages, Last
<1>3. RequestInv'
  BY <1>1, <1>2 DEF IInv, RequestInv
<1>4. ServedInv'
  BY <1>1, <1>2 DEF IInv, ServedInv
<1>5. AnswerInv'
  BY <1>1, <1>2 DEF IInv, AnswerInv
<1>6. ResponseInv' /\ RefusalInv'
  BY <1>1 DEF IInv, ResponseInv, RefusalInv
<1> QED BY <1>3, <1>4, <1>5, <1>6 DEF IInv

\* A GET is sent again.
LEMMA ResendKeeps ==
  ASSUME IInv, Resend
  PROVE  IInv'
<1>1. /\ stage = "answered" /\ stage' = "sent" /\ request' = request /\ served' = served
      /\ answer' = answer /\ outcome' = outcome
      /\ resends' = resends + 1 /\ resends < MaxResends
      /\ response' = None /\ recorded' = 0 /\ request.method = "GET"
  BY DEF Resend
<1>2. stage' \in Stages /\ stage' \notin Ops /\ Last' = Last
  BY <1>1, StagesDiffer DEF Stages, Last
<1>3. resends' \in 0 .. MaxResends
  BY <1>1, ResendsAssumption DEF IInv, RequestInv
<1>4. RequestInv'
  BY <1>1, <1>2, <1>3 DEF IInv, RequestInv
<1>5. ServedInv'
  BY <1>1, <1>2 DEF IInv, ServedInv
<1>6. AnswerInv'
  BY <1>1, <1>2 DEF IInv, AnswerInv
<1>7. ResponseInv' /\ RefusalInv'
  BY <1>1 DEF ResponseInv, RefusalInv
<1> QED BY <1>4, <1>5, <1>6, <1>7 DEF IInv

\* The client goes on to the next request.
LEMMA DoneKeeps ==
  ASSUME IInv, Done
  PROVE  IInv'
<1>1. /\ stage' = "idle" /\ request' = NoRequest /\ served' = << >>
      /\ answer' = None /\ response' = None /\ outcome' = None
      /\ recorded' = 0 /\ resends' = 0
  BY DEF Done
<1>2. stage' \in Stages /\ stage' \notin Ops
  BY <1>1, StagesDiffer DEF Stages
<1>3. RequestInv'
  BY <1>1, <1>2, ResendsAssumption DEF RequestInv
<1>4. ServedInv'
  BY <1>1, <1>2 DEF ServedInv
<1>5. AnswerInv'
  BY <1>1 DEF AnswerInv
<1>6. ResponseInv' /\ RefusalInv'
  BY <1>1 DEF ResponseInv, RefusalInv
<1> QED BY <1>3, <1>4, <1>5, <1>6 DEF IInv

\* What clients send is a request as above.
LEMMA Sends ==
  ASSUME \/ \E id \in UUIDs : sendCancelOrder(id) \/ sendGetOrderByUUID(id)
         \/ \E r \in CreateBodies : sendCreateOrder(r)
         \/ \E id \in UUIDs, r \in PayBodies : sendPayOrder(id, r)
         \/ SendRaw
  PROVE  \E req : Asked(req) /\ Send(req)
<1>1. \A id \in UUIDs : Asked(CancelRequest(id)) /\ Asked(GetRequest(id))
  BY Zenon DEF Asked
<1>2. \A r \in CreateBodies : Asked(CreateRequest(r))
  BY Zenon DEF Asked
<1>3. \A id \in UUIDs, r \in PayBodies : Asked(PayRequest(id, r))
  BY Zenon DEF Asked
<1>4. \A req \in RawRequests : Asked(req)
  BY Zenon DEF Asked
<1>5. \A id : sendCancelOrder(id) => Send(CancelRequest(id))
  BY Zenon DEF sendCancelOrder, CancelRequest
<1>6. \A id : sendGetOrderByUUID(id) => Send(GetRequest(id))
  BY Zenon DEF sendGetOrderByUUID, GetRequest
<1>7. \A r : sendCreateOrder(r) => Send(CreateRequest(r))
  BY Zenon DEF sendCreateOrder, CreateRequest
<1>8. \A id, r : sendPayOrder(id, r) => Send(PayRequest(id, r))
  BY Zenon DEF sendPayOrder, PayRequest
<1>9. SendRaw => \E req \in RawRequests : Send(req)
  BY Zenon DEF SendRaw
<1> QED BY <1>1, <1>2, <1>3, <1>4, <1>5, <1>6, <1>7, <1>8, <1>9, Zenon

\* Nothing happens.
LEMMA StutterKeeps ==
  ASSUME IInv, UNCHANGED vars
  PROVE  IInv'
<1> USE DEF vars
<1>1. RequestInv'
  BY DEF IInv, RequestInv
<1>2. ServedInv'
  BY DEF IInv, ServedInv
<1>3. AnswerInv'
  BY DEF IInv, AnswerInv, Last
<1>4. ResponseInv'
  <2>1. ResponseInv
    BY Zenon DEF IInv
  <2> QED BY <2>1, ResponseStays
<1>5. RefusalInv'
  BY DEF IInv, RefusalInv
<1> QED BY <1>1, <1>2, <1>3, <1>4, <1>5 DEF IInv

\* The invariant is inductive.
LEMMA NextKeeps ==
  ASSUME IInv, [Next]_vars
  PROVE  IInv'
<1>1. CASE Client
  <2>1. CASE \E req : Asked(req) /\ Send(req)
    BY <2>1, SendKeeps
  <2>2. CASE Receive
    <3>1. stage # "idle" /\ outcome = None
      BY <2>2 DEF Receive, Arrived
    <3>2. UNCHANGED <<stage, request, served, answer, response, recorded, resends>>
      BY <2>2, Zenon DEF Receive
    <3> QED BY <3>1, <3>2, OutcomeKeeps
  <2>3. CASE HangUp
    <3>1. stage # "idle" /\ outcome = None
      BY <2>3 DEF HangUp
    <3>2. UNCHANGED <<stage, request, served, answer, response, recorded, resends>>
      BY <2>3, Zenon DEF HangUp
    <3> QED BY <3>1, <3>2, OutcomeKeeps
  <2>4. CASE Done
    BY <2>4, DoneKeeps
  <2> QED BY <1>1, <2>1, <2>2, <2>3, <2>4, Sends, Zenon DEF Client
<1>2. CASE ServeHTTP
  BY <1>2, ServeHTTPKeeps
<1>3. CASE Handlers
  BY <1>3, HandlersKeep
<1>4. CASE Service
  BY <1>4, ServiceKeeps
<1>5. CASE Panic
  BY <1>5, PanicKeeps
<1>6. CASE WriteAnswer
  BY <1>6, WriteKeeps
<1>7. CASE Connection
  <2>1. CASE Cut
    <3>1. stage # "idle" /\ outcome = None
      BY <2>1 DEF Cut
    <3>2. UNCHANGED <<stage, request, served, answer, response, recorded, resends>>
      BY <2>1, Zenon DEF Cut
    <3> QED BY <3>1, <3>2, OutcomeKeeps
  <2> QED BY <1>7, <2>1, UnreachableKeeps, ResendKeeps DEF Connection
<1>8. CASE UNCHANGED vars
  BY <1>8, StutterKeeps
<1> QED BY <1>1, <1>2, <1>3, <1>4, <1>5, <1>6, <1>7, <1>8 DEF Next

\* It holds of every behaviour.
LEMMA Invariance ==
  Spec => []IInv
<1>1. Init => IInv
  BY InitKeeps
<1>2. IInv /\ [Next]_vars => IInv'
  BY NextKeeps
<1> QED BY <1>1, <1>2, PTL DEF Spec

-----------------------------------------------------------------------------
(* What it says about the properties. *)

\* In a state of the invariant the client reads what was answered: the one
\* response that goes out whole with an answer is the reply to it.
LEMMA InvUnderstood ==
  IInv => AnswersAreUnderstood
<1> SUFFICES ASSUME IInv, stage = "answered", response.whole, answer # None,
                    request.op # "none"
             PROVE  DecodeResponse(request.op, response)
                      = Answer(answer.type, Plain(answer.value))
  BY Zenon DEF AnswersAreUnderstood
<1>1. served # << >> /\ AnswerOf(Last.op, answer)
  BY DEF IInv, AnswerInv
<1>2. response = ReplyTo(Last.op, answer)
  <2>1. ~AnsweredInPart
    BY DEF AnsweredInPart
  <2>2. ~Panicked
    BY Zenon DEF Panicked
  <2>3. ~Refused /\ ~Unrouted
    BY <1>1, Zenon DEF Refused, Unrouted
  <2>4. AnsweredWhole
    BY <2>1, <2>2, <2>3 DEF IInv, ResponseInv
  <2> QED BY <2>4, Zenon DEF AnsweredWhole
<1>3. Last.op = request.op /\ Last.op \in Ops
  <2>1. ServedBy(request, Last)
    BY <1>1, LastIsServed DEF IInv
  <2>2. CallOf(request).op = request.op
    BY DEF CallOf
  <2> QED BY <2>1, <2>2 DEF ServedBy
<1>4. DecodeResponse(Last.op, ReplyTo(Last.op, answer)) = Answer(answer.type, Plain(answer.value))
  BY <1>1, <1>3, AnswerIsRead
<1> QED BY <1>2, <1>3, <1>4, Zenon

\* And what was recorded is what was sent, the named cases apart.
LEMMA InvCounted ==
  IInv => CountedAsSent
<1> SUFFICES ASSUME IInv, stage = "answered", response.whole, recorded # response.status
             PROVE  \/ recorded = 0 /\ response.status = 500 /\ answer = None
                    \/ /\ recorded = 0 /\ served = << >>
                       /\ Route(request.method, request.path).to \notin Ops
  BY Zenon DEF CountedAsSent
<1>1. ~AnsweredWhole
  BY Zenon DEF AnsweredWhole
<1>2. ~AnsweredInPart
  BY DEF AnsweredInPart
<1> DEFINE Carries(s, c, b) == response = Sent(s, c, b)
<1>3. \A s, c, b : Carries(s, c, b) => response.status = s
  BY DEF Sent
<1>4. /\ Refused => Carries(recorded, JSON, ErrorMessage)
      /\ Panicked => recorded = 0 /\ answer = None /\ Carries(500, "", NoBody)
  BY Zenon DEF Refused, Panicked
<1> HIDE DEF Carries
<1>5. ~Refused
  BY <1>3, <1>4, Zenon
<1>6. Panicked => recorded = 0 /\ response.status = 500 /\ answer = None
  <2>1. Carries(500, "", NoBody) => response.status = 500
    BY <1>3
  <2> QED BY <1>4, <2>1, Zenon
<1>7. Unrouted => /\ recorded = 0 /\ served = << >>
                  /\ Route(request.method, request.path).to \notin Ops
  BY Zenon DEF Unrouted, RouteOfRequest
<1>8. Panicked \/ Unrouted
  BY <1>1, <1>2, <1>5 DEF IInv, ResponseInv
<1> QED BY <1>6, <1>7, <1>8, Zenon

\* And what was served is declared, what was refused is not.
LEMMA InvServed ==
  IInv => ServedAsDeclared
BY DEF IInv, ServedInv, ServedBy, RefusalInv, IsDeclared, ServedAsDeclared

\* A price that an answer shows is the text of one.
LEMMA AnswerPrices ==
  ASSUME NEW op \in Ops, NEW a, AnswerOf(op, a), a.type \in {"Order", "CreateOrderResponse"}
  PROVE  a.value.total_price \in PriceTexts
<1>1. ASSUME NEW id \in UUIDs, NEW cents \in Cents,
             a = Answer("CreateOrderResponse", [uuid |-> id, total_price |-> formatCents(cents)])
      PROVE  a.value.total_price \in PriceTexts
  <2>1. a.value.total_price = formatCents(cents)
    BY <1>1 DEF Answer
  <2> QED BY <2>1, PricesAreTexts, PricesAssumption
<1>2. \A tx : a # Answer("PayOrderResponse", [transaction_uuid |-> tx])
  BY DEF Answer
<1>3. ASSUME NEW id \in UUIDs, NEW ord \in Orders, a = ShownOrder(id, ord)
      PROVE  a.value.total_price \in PriceTexts
  <2>1. [ord EXCEPT !.id = id].total = ord.total /\ ord.total \in Int
    BY OrdersAssumption
  <2>2. a.value.total_price = formatCents([ord EXCEPT !.id = id].total)
    BY <1>3 DEF ShownOrder, OrderToOAPI, Answer
  <2> QED BY <2>1, <2>2, PricesAreTexts
<1>4. a # Answer("CancelOrderNoContent", NoBody)
  BY DEF Answer
<1>5. \A type \in ErrorTypes(op) : \A code : a # Error(type, code)
  BY DEF Error, Answer, ErrorTypes, Ops
<1>6. \A code : a # Invalid(code)
  BY DEF Invalid, Answer
<1> DEFINE Priced == a.value.total_price \in PriceTexts
<1>7. IsCreated(a) \/ IsShown(a) => Priced
  BY <1>1, <1>3, Zenon DEF IsCreated, IsShown
<1>8. ~IsPaid(a) /\ ~IsFailed(op, a) /\ ~IsInvalid(a)
  BY <1>2, <1>5, <1>6, Zenon DEF IsPaid, IsFailed, IsInvalid
<1> QED BY <1>4, <1>7, <1>8, AnswerKinds, Zenon

\* The status of every answer is one of HTTP's.
LEMMA AnswerStatus ==
  ASSUME NEW op \in Ops, NEW a, AnswerOf(op, a)
  PROVE  StatusOf(op)[a.type] \in 100 .. 599
<1>1. a.type \in ErrorTypes(op) \cup
        CASE op = "CreateOrder" -> {"CreateOrderResponse", "ValidationError"}
          [] op = "PayOrder" -> {"PayOrderResponse", "ValidationError"}
          [] op = "GetOrderByUUID" -> {"Order"}
          [] op = "CancelOrder" -> {"CancelOrderNoContent"}
  <2>1. \A type, value : Answer(type, value).type = type
    BY DEF Answer
  <2>2. \A id, ord : ShownOrder(id, ord).type = "Order"
    BY <2>1, Zenon DEF ShownOrder, OrderToOAPI
  <2>3. \A type, code : Error(type, code).type = type /\ Invalid(code).type = "ValidationError"
    BY <2>1, Zenon DEF Error, Invalid
  <2>4. (\E id \in UUIDs, cents \in Cents : a = Answer("CreateOrderResponse",
            [uuid |-> id, total_price |-> formatCents(cents)])) => a.type = "CreateOrderResponse"
    BY <2>1, Zenon
  <2>5. (\E tx \in UUIDs : a = Answer("PayOrderResponse", [transaction_uuid |-> tx]))
          => a.type = "PayOrderResponse"
    BY <2>1, Zenon
  <2>6. (\E id \in UUIDs, ord \in Orders : a = ShownOrder(id, ord)) => a.type = "Order"
    BY <2>2, Zenon
  <2>7. a = Answer("CancelOrderNoContent", NoBody) => a.type = "CancelOrderNoContent"
    BY <2>1, Zenon
  <2>8. (\E type \in ErrorTypes(op), code \in 400 .. 599 : a = Error(type, code))
          => a.type \in ErrorTypes(op)
    BY <2>3, Zenon
  <2>9. (\E code \in 400 .. 599 : a = Invalid(code)) => a.type = "ValidationError"
    BY <2>3, Zenon
  <2>10. \/ op = "CreateOrder" /\ a.type = "CreateOrderResponse"
         \/ op = "PayOrder" /\ a.type = "PayOrderResponse"
         \/ op = "GetOrderByUUID" /\ a.type = "Order"
         \/ op = "CancelOrder" /\ a.type = "CancelOrderNoContent"
         \/ a.type \in ErrorTypes(op)
         \/ op \in {"CreateOrder", "PayOrder"} /\ a.type = "ValidationError"
    <3>1. /\ IsCreated(a) => a.type = "CreateOrderResponse"
          /\ IsPaid(a) => a.type = "PayOrderResponse"
          /\ IsShown(a) => a.type = "Order"
          /\ IsFailed(op, a) => a.type \in ErrorTypes(op)
          /\ IsInvalid(a) => a.type = "ValidationError"
      BY <2>4, <2>5, <2>6, <2>8, <2>9 DEF IsCreated, IsPaid, IsShown, IsFailed, IsInvalid
    <3> QED BY <2>7, <3>1, AnswerKinds, Zenon
  <2> QED BY <2>10
<1>2. CASE op = "CreateOrder"
  BY <1>1, <1>2 DEF ErrorTypes, StatusOf, encodeCreateOrderResponse
<1>3. CASE op = "PayOrder"
  BY <1>1, <1>3 DEF ErrorTypes, StatusOf, encodePayOrderResponse
<1>4. CASE op = "GetOrderByUUID"
  BY <1>1, <1>4 DEF ErrorTypes, StatusOf, encodeGetOrderByUUIDResponse
<1>5. CASE op = "CancelOrder"
  BY <1>1, <1>5 DEF ErrorTypes, StatusOf, encodeCancelOrderResponse
<1> QED BY <1>2, <1>3, <1>4, <1>5 DEF Ops

\* In a state of the invariant every variable has its type.
LEMMA InvTypeOK ==
  IInv => TypeOK
<1> SUFFICES ASSUME IInv
             PROVE  TypeOK
  OBVIOUS
<1>1. stage \in {"idle", "sent", "service", "encode", "answered", "lost"} \cup Ops
      /\ resends \in 0 .. MaxResends
  BY DEF IInv, RequestInv, Stages
<1>2. request.op \in Ops \cup {"none"}
  <2>1. NoRequest.op = "none"
    BY Zenon DEF NoRequest
  <2>2. CASE stage = "idle"
    BY <2>1, <2>2 DEF IInv, RequestInv
  <2>3. CASE Asked(request)
    BY <2>3, TypedRequests
  <2> QED BY <2>2, <2>3 DEF IInv, RequestInv
<1>3. \A i \in DOMAIN served : served[i].op \in Ops /\ served[i].id \in UUIDs
  BY DEF IInv, ServedInv, ServedBy
<1>4. served # << >> => Last.op \in Ops
  BY LastIsServed DEF IInv, ServedBy
<1>5. answer # None /\ answer.type \in {"Order", "CreateOrderResponse"} =>
        answer.value.total_price \in PriceTexts
  BY <1>4, AnswerPrices DEF IInv, AnswerInv
<1>6. CASE stage = "answered"
  <2> DEFINE Whole == response.whole \in BOOLEAN
             Goes(s) == \E c, b : response = Sent(s, c, b)
  <2>1. AnsweredWhole => response.status \in 100 .. 599 /\ Whole /\ recorded \in 100 .. 599
    <3> SUFFICES ASSUME AnsweredWhole
                 PROVE  response.status \in 100 .. 599 /\ Whole /\ recorded \in 100 .. 599
      OBVIOUS
    <3>1. served # << >> /\ AnswerOf(Last.op, answer) /\ response = ReplyTo(Last.op, answer)
          /\ recorded = response.status
      BY Zenon DEF AnsweredWhole, Answered
    <3>2. ReplyTo(Last.op, answer).status = StatusOf(Last.op)[answer.type]
      BY Zenon DEF ReplyTo
    <3>3. Whole
      BY <3>1, Zenon DEF ReplyTo
    <3>4. response.status = StatusOf(Last.op)[answer.type]
      BY <3>1, <3>2, Zenon
    <3> HIDE DEF Whole
    <3> QED BY <1>4, <3>1, <3>3, <3>4, AnswerStatus
  <2>2. AnsweredInPart => response.status \in 100 .. 599 /\ Whole /\ recorded = 500
    <3> SUFFICES ASSUME AnsweredInPart
                 PROVE  response.status \in 100 .. 599 /\ Whole /\ recorded = 500
      OBVIOUS
    <3>1. /\ served # << >> /\ AnswerOf(Last.op, answer) /\ Whole /\ recorded = 500
          /\ response.status = StatusOf(Last.op)[answer.type]
      BY Zenon DEF AnsweredInPart, Answered
    <3>2. StatusOf(Last.op)[answer.type] \in 100 .. 599
      BY <1>4, <3>1, AnswerStatus
    <3> HIDE DEF Whole
    <3> QED BY <3>1, <3>2, Zenon
  <2>3. \A s : Goes(s) => response.status = s
    BY DEF Sent
  <2>4. \A s : Goes(s) => Whole
    <3>1. \A s, c, b : Sent(s, c, b).whole \in BOOLEAN
      BY DEF Sent
    <3> QED BY <3>1
  <2>5. Refused => recorded \in {400, 415} /\ Goes(recorded)
    BY Zenon DEF Refused
  <2>6. Panicked => recorded = 0 /\ Goes(500)
    <3>1. Panicked => recorded = 0 /\ response = Sent(500, "", NoBody)
      BY Zenon DEF Panicked
    <3>2. ASSUME response = Sent(500, "", NoBody)
          PROVE  Goes(500)
      <4>1. \E b : response = Sent(500, "", b)
        BY <3>2, Zenon
      <4> QED BY <4>1, Zenon
    <3> HIDE DEF Goes
    <3> QED BY <3>1, <3>2, Zenon
  <2>7. Unrouted => response.status \in {200, 204, 404, 405} /\ Whole /\ recorded = 0
    BY Zenon DEF Unrouted
  <2> HIDE DEF Goes, Whole
  <2> DEFINE Valid ==
        response.status \in 100 .. 599 /\ recorded \in {0} \cup 100 .. 599 /\ Whole
  <2>8. ASSUME AnsweredWhole
        PROVE  Valid
    BY <2>1, <2>8
  <2>9. ASSUME AnsweredInPart
        PROVE  Valid
    BY <2>2, <2>9
  <2>10. ASSUME Unrouted
         PROVE  Valid
    BY <2>7, <2>10
  <2>11. ASSUME Panicked
         PROVE  Valid
    <3>1. response.status = 500 /\ recorded = 0 /\ Whole
      BY <2>3, <2>4, <2>6, <2>11, Zenon
    <3> QED BY <3>1
  <2>12. ASSUME Refused
         PROVE  Valid
    <3>1. recorded \in {400, 415} /\ Goes(recorded)
      BY <2>5, <2>12, Zenon
    <3>2. Whole
      BY <2>4, <3>1, Zenon
    <3>3. response.status = recorded
      BY <2>3, <3>1
    <3> QED BY <3>1, <3>2, <3>3
  <2>13. Valid
    <3> HIDE DEF Valid
    <3> QED BY <1>6, <2>8, <2>9, <2>10, <2>11, <2>12 DEF IInv, ResponseInv
  <2>14. response # None => response.status \in 100 .. 599 /\ response.whole \in BOOLEAN
    BY <2>13 DEF Whole
  <2>15. recorded \in {0} \cup 100 .. 599
    BY <2>13
  <2> QED BY <1>1, <1>2, <1>3, <1>5, <2>14, <2>15, Zenon DEF TypeOK
<1>7. CASE stage # "answered"
  <2>1. response = None /\ recorded = 0
    BY <1>7 DEF IInv, ResponseInv
  <2> QED BY <1>1, <1>2, <1>3, <1>5, <2>1 DEF TypeOK
<1> QED BY <1>6, <1>7

\* Every variable has its type, whatever is sent and whatever fails.
THEOREM TypeInvariance == Spec => []TypeOK
<1>1. IInv => TypeOK
  BY InvTypeOK
<1> QED BY <1>1, Invariance, PTL

\* The interface description and the service agree on what is served, for
\* every request (the router, the parameters, the bodies, the validators).
THEOREM Served == Spec => []ServedAsDeclared
<1>1. IInv => ServedAsDeclared
  BY InvServed
<1> QED BY <1>1, Invariance, PTL

\* The generated client reads every answer of the handlers as it was given,
\* for all orders, prices and errors (encoders, decoders, status tables).
THEOREM Understood == Spec => []AnswersAreUnderstood
<1>1. IInv => AnswersAreUnderstood
  BY InvUnderstood
<1> QED BY <1>1, Invariance, PTL

\* The codeRecorder holds the status the client was sent, a panic and an
\* unrouted request apart.
THEOREM Counted == Spec => []CountedAsSent
<1>1. IInv => CountedAsSent
  BY InvCounted
<1> QED BY <1>1, Invariance, PTL

-----------------------------------------------------------------------------
(***************************************************************************)
(* The remote call.  What a caller sees of a request, and how each step of *)
(* the path changes it.                                                    *)
(***************************************************************************)

aCall == IF Typed THEN CallOf(request) ELSE None
aRan == IF Typed /\ served # << >> THEN Last ELSE None
aRuns == IF Typed THEN Len(served) ELSE 0
aAnswer == IF Typed THEN Abstract(answer) ELSE None
aOutcome == IF Typed THEN outcome ELSE None

\* What the caller sees is what the remote call is about.
LEMMA RemoteInit ==
  ASSUME aCall = None, aRan = None, aRuns = 0, aAnswer = None, aOutcome = None
  PROVE  RemoteOrder!Init
BY DEF RemoteOrder!Init, aCall, aRan, aRuns, aAnswer, aOutcome, CallOf, Last

\* The caller makes a call.
LEMMA RemoteInvoke ==
  ASSUME NEW c \in CallsOfClients, aCall = None, aCall' = c, aRan' = aRan, aRuns' = aRuns,
         aAnswer' = aAnswer, aOutcome' = aOutcome
  PROVE  RemoteOrder!Next
<1>1. RemoteOrder!Invoke(c)
  BY Zenon DEF RemoteOrder!Invoke, aCall, aRan, aRuns, aAnswer, aOutcome, CallOf, Last
<1> QED BY <1>1, Zenon DEF RemoteOrder!Next

\* The call runs.
LEMMA RemoteRun ==
  ASSUME aCall # None, aRuns = 0 \/ aCall \in Reads, aRan' = aCall, aRuns' = aRuns + 1,
         aAnswer' = None, aCall' = aCall, aOutcome' = aOutcome
  PROVE  RemoteOrder!Next
<1>1. RemoteOrder!Run
  BY Zenon DEF RemoteOrder!Run, aCall, aRan, aRuns, aAnswer, aOutcome, CallOf, Last
<1> QED BY <1>1, Zenon DEF RemoteOrder!Next

\* The run ends.
LEMMA RemoteFinish ==
  ASSUME aRan # None, aAnswer = None, aAnswer' # None,
         aCall' = aCall, aRan' = aRan, aRuns' = aRuns, aOutcome' = aOutcome
  PROVE  RemoteOrder!Next
<1>1. RemoteOrder!Finish
  BY Zenon DEF RemoteOrder!Finish, aCall, aRan, aRuns, aAnswer, aOutcome, CallOf, Last
<1> QED BY <1>1, Zenon DEF RemoteOrder!Next

\* The caller has the answer, or gives up.
LEMMA RemoteOutcome ==
  ASSUME aCall # None, aOutcome = None,
         aOutcome' = Fail \/ (aAnswer # None /\ aOutcome' = aAnswer),
         aCall' = aCall, aRan' = aRan, aRuns' = aRuns, aAnswer' = aAnswer
  PROVE  RemoteOrder!Next
<1>1. RemoteOrder!Return \/ RemoteOrder!GiveUp
  BY Zenon DEF RemoteOrder!Return, RemoteOrder!GiveUp,
     aCall, aRan, aRuns, aAnswer, aOutcome, CallOf, Last
<1> QED BY <1>1, Zenon DEF RemoteOrder!Next

\* The caller forgets the call.
LEMMA RemoteEnd ==
  ASSUME aOutcome # None, aCall' = None, aRan' = None, aRuns' = 0, aAnswer' = None,
         aOutcome' = None
  PROVE  RemoteOrder!Next
<1>1. RemoteOrder!End
  BY Zenon DEF RemoteOrder!End, aCall, aRan, aRuns, aAnswer, aOutcome, CallOf, Last
<1> QED BY <1>1, Zenon DEF RemoteOrder!Next

\* The caller sees nothing.
LEMMA RemoteStutter ==
  ASSUME aCall' = aCall, aRan' = aRan, aRuns' = aRuns, aAnswer' = aAnswer, aOutcome' = aOutcome
  PROVE  UNCHANGED RemoteOrder!vars
BY Zenon DEF RemoteOrder!vars, aCall, aRan, aRuns, aAnswer, aOutcome, CallOf, Last

\* None is no call and no answer.
NoneIsNothing ==
  (\A c \in CallsOfClients : c # None) /\ (\A type, value : Answer(type, value) # None)

\* Then an answer of a handler is something to its caller.
LEMMA AnswersAreSome ==
  ASSUME NoneIsNothing, NEW op, NEW a, AnswerOf(op, a)
  PROVE  Abstract(a) = Answer(a.type, Plain(a.value)) /\ Abstract(a) # None /\ a # None
<1>1. \E type, value : a = Answer(type, value)
  <2> DEFINE Some(b) == \E type, value : b = Answer(type, value)
  <2>1. \A type, value : Some(Answer(type, value))
    BY Zenon
  <2> HIDE DEF Some
  <2>2. \A id, ord : Some(ShownOrder(id, ord))
    BY <2>1, Zenon DEF ShownOrder, OrderToOAPI
  <2>3. \A type, code : Some(Error(type, code)) /\ Some(Invalid(code))
    BY <2>1, Zenon DEF Error, Invalid
  <2>4. Some(a)
    <3>1. IsCreated(a) => Some(a)
      BY <2>1, Zenon DEF IsCreated
    <3>2. IsPaid(a) => Some(a)
      BY <2>1, Zenon DEF IsPaid
    <3>3. IsShown(a) => Some(a)
      BY <2>2, Zenon DEF IsShown
    <3>4. IsFailed(op, a) => Some(a)
      BY <2>3, Zenon DEF IsFailed
    <3>5. IsInvalid(a) => Some(a)
      BY <2>3, Zenon DEF IsInvalid
    <3> QED BY <2>1, <3>1, <3>2, <3>3, <3>4, <3>5, AnswerKinds, Zenon
  <2> QED BY <2>4, Zenon DEF Some
<1>2. a # None /\ Answer(a.type, Plain(a.value)) # None
  BY <1>1, Zenon DEF NoneIsNothing
<1> QED BY <1>2, Zenon DEF Abstract

\* The type that the client reads for the status of a failure.
LEMMA FailureTypes ==
  ASSUME NEW op \in Ops
  PROVE  /\ TypeRead(op, 500) = "InternalServerError" /\ TypeRead(op, 400) = "BadRequestError"
         /\ TypeRead(op, 415) = "unexpected"
BY DEF Ops, TypeRead, decodeErrorStatus, decodeCancelOrderResponse, decodeCreateOrderResponse,
   decodeGetOrderByUUIDResponse, decodePayOrderResponse

\* A panic is a failure to the client: its response is no JSON.
LEMMA PanicsAreRead ==
  ASSUME NEW op \in Ops
  PROVE  DecodeResponse(op, Sent(500, "", NoBody)) = Fail
<1> DEFINE r == Sent(500, "", NoBody)
<1>1. r.status = 500 /\ r.ctype # JSON
  BY DEF Sent, JSON
<1> HIDE DEF r
<1>2. TypeRead(op, r.status) = "InternalServerError"
  BY <1>1, FailureTypes
<1>3. DecodeResponse(op, r) = Fail
  BY <1>1, <1>2 DEF DecodeResponse
<1> QED BY <1>3 DEF r

\* So is a refusal: its document has a field that no error type knows, and a
\* client does not expect 415.
LEMMA RefusalsAreRead ==
  ASSUME NEW op \in Ops, NEW code \in {400, 415}
  PROVE  DecodeResponse(op, Sent(code, JSON, ErrorMessage)) = Fail
<1>1. ~Parses("BadRequestError", ErrorMessage[1])
  <2>1. ErrorMessage[1].obj = [error_message |-> Str("message")]
    BY DEF ErrorMessage, Obj
  <2>2. "error_message" \in DOMAIN ErrorMessage[1].obj
    BY <2>1
  <2>3. Schema["BadRequestError"] = Closed([code |-> "OptInt32", message |-> "OptString"])
    BY DEF Schema, BadRequestError, GenericError
  <2>4. /\ Schema["BadRequestError"].closed
        /\ "error_message" \notin DOMAIN Schema["BadRequestError"].fields
    BY <2>3 DEF Closed
  <2> QED BY <2>2, <2>4 DEF Parses, Decodes
<1> DEFINE r == Sent(code, JSON, ErrorMessage)
<1>2. r.status = code /\ r.body = ErrorMessage
  BY DEF Sent
<1> HIDE DEF r
<1>3. CASE code = 400
  <2>1. TypeRead(op, r.status) = "BadRequestError" /\ ~Parses("BadRequestError", r.body[1])
    BY <1>1, <1>2, <1>3, FailureTypes
  <2>2. DecodeResponse(op, r) = Fail
    BY <2>1 DEF DecodeResponse
  <2> QED BY <2>2 DEF r
<1>4. CASE code = 415
  <2>1. TypeRead(op, r.status) = "unexpected"
    BY <1>2, <1>4, FailureTypes
  <2>2. DecodeResponse(op, r) = Fail
    BY <2>1 DEF DecodeResponse
  <2> QED BY <2>2 DEF r
<1> QED BY <1>3, <1>4

\* What a client receives is the answer, or a failure.
LEMMA Received ==
  ASSUME NoneIsNothing, IInv, Typed, stage = "answered", response.whole
  PROVE  \/ DecodeResponse(request.op, response) = Fail
         \/ Abstract(answer) # None /\ DecodeResponse(request.op, response) = Abstract(answer)
<1>1. stage # "idle" /\ request.op # "none"
  BY DEF Typed
<1>2. Asked(request)
  BY <1>1 DEF IInv, RequestInv
<1>3. request.op \in Ops
  BY <1>1, <1>2, TypedRequests
<1>4. ASSUME AnsweredWhole
      PROVE  Abstract(answer) # None /\ DecodeResponse(request.op, response) = Abstract(answer)
  <2>1. served # << >> /\ AnswerOf(Last.op, answer) /\ response = ReplyTo(Last.op, answer)
    BY <1>4, Zenon DEF AnsweredWhole, Answered
  <2>2. Last.op = request.op
    <3>1. Last = CallOf(request)
      BY <1>1, <2>1, LastIsServed DEF IInv, ServedBy
    <3> QED BY <3>1 DEF CallOf
  <2>3. DecodeResponse(request.op, ReplyTo(request.op, answer))
          = Answer(answer.type, Plain(answer.value))
    BY <1>3, <2>1, <2>2, AnswerIsRead
  <2>4. Abstract(answer) = Answer(answer.type, Plain(answer.value)) /\ Abstract(answer) # None
    BY <2>1, AnswersAreSome
  <2> QED BY <2>1, <2>2, <2>3, <2>4, Zenon
<1>5. ~AnsweredInPart
  BY DEF AnsweredInPart
<1>6. Panicked => DecodeResponse(request.op, response) = Fail
  <2>1. Panicked => response = Sent(500, "", NoBody)
    BY Zenon DEF Panicked
  <2>2. DecodeResponse(request.op, Sent(500, "", NoBody)) = Fail
    BY <1>3, PanicsAreRead
  <2> QED BY <2>1, <2>2, Zenon
<1>7. ASSUME Refused
      PROVE  DecodeResponse(request.op, response) = Fail
  <2>1. response = Sent(recorded, JSON, ErrorMessage)
    BY <1>7, Zenon DEF Refused
  <2>2. recorded \in {400, 415}
    BY <1>7, Zenon DEF Refused
  <2>3. DecodeResponse(request.op, Sent(recorded, JSON, ErrorMessage)) = Fail
    BY <1>3, <2>2, RefusalsAreRead
  <2> QED BY <2>1, <2>3, Zenon
<1>8. ~Unrouted
  <2>1. RouteOfRequest(request).to \in Ops
    BY <1>1, <1>2, <1>3, TypedRequests
  <2> QED BY <2>1, Zenon DEF Unrouted
<1>9. AnsweredWhole \/ AnsweredInPart \/ Panicked \/ Refused \/ Unrouted
  BY DEF IInv, ResponseInv
<1> QED BY <1>4, <1>5, <1>6, <1>7, <1>8, <1>9, Zenon

\* A handler passes one call on, or none.
LEMMA HandlerSteps ==
  ASSUME Handlers
  PROVE  /\ request' = request /\ outcome' = outcome
         /\ \/ served' = served /\ answer' = answer
            \/ stage \in Ops /\ answer' = None /\ \E x : served' = Append(served, x)
<1>1. stage \in Ops
  BY Zenon DEF Handlers, handleCancelOrderRequest, handleGetOrderByUUIDRequest,
     handleCreateOrderRequest, handlePayOrderRequest, Ops
<1>2. (\E code : Refuse(code)) \/ (\E op, id, body : Serve(op, id, body))
  BY Zenon DEF Handlers, handleCancelOrderRequest, handleGetOrderByUUIDRequest,
     handleCreateOrderRequest, handlePayOrderRequest
<1>3. ASSUME NEW code, Refuse(code)
      PROVE  request' = request /\ outcome' = outcome /\ served' = served /\ answer' = answer
  BY <1>3 DEF Refuse
<1>4. ASSUME NEW op, NEW id, NEW body, Serve(op, id, body)
      PROVE  /\ request' = request /\ outcome' = outcome /\ answer' = None
             /\ \E x : served' = Append(served, x)
  BY <1>4, Zenon DEF Serve
<1> QED BY <1>1, <1>2, <1>3, <1>4, Zenon

\* The service answers, and that is all.
LEMMA ServiceSteps ==
  ASSUME Service
  PROVE  /\ stage = "service" /\ stage' = "encode"
         /\ request' = request /\ outcome' = outcome /\ served' = served
<1>1. \E op, a : Returns(op, a)
  BY Zenon DEF Service, CreateOrderHandler, PayOrderHandler, GetOrderByUUIDHandler,
     CancelOrderHandler
<1> QED BY <1>1, Zenon DEF Returns

\* What the caller's view depends on.
LEMMA Views ==
  ASSUME request' = request
  PROVE  /\ Typed' = Typed /\ aCall' = aCall
         /\ served' = served => aRan' = aRan /\ aRuns' = aRuns
         /\ answer' = answer => aAnswer' = aAnswer
         /\ outcome' = outcome => aOutcome' = aOutcome
BY Zenon DEF Typed, aCall, aRan, aRuns, aAnswer, aOutcome, CallOf, Last

\* A typed request that is under way has its call, and what was served is it.
LEMMA TypedCalls ==
  ASSUME IInv, NoneIsNothing, Typed
  PROVE  /\ stage # "idle" /\ request.op \in Ops
         /\ aCall = CallOf(request) /\ aCall \in CallsOfClients /\ aCall # None
         /\ \A i \in DOMAIN served : served[i] = aCall
         /\ served # << >> => Last = aCall /\ aRan = aCall
         /\ request.method = "GET" => aCall \in Reads
         /\ request.method # "GET" /\ stage \in Ops => aRuns = 0
<1>1. request.op # "none"
  BY DEF Typed
<1>2. stage # "idle"
  <2>1. NoRequest.op = "none"
    BY Zenon DEF NoRequest
  <2> QED BY <1>1, <2>1 DEF IInv, RequestInv
<1>3. Asked(request)
  BY <1>2 DEF IInv, RequestInv
<1>4. request.op \in Ops /\ CallOf(request) \in CallsOfClients
  BY <1>1, <1>3, TypedRequests
<1>5. aCall = CallOf(request) /\ aCall # None /\ aCall \in CallsOfClients
  BY <1>4 DEF aCall, NoneIsNothing
<1>6. \A i \in DOMAIN served : served[i] = aCall
  BY <1>1, <1>5, Zenon DEF IInv, ServedInv, ServedBy
<1>7. served # << >> => Last = aCall /\ aRan = aCall
  BY <1>1, <1>5, LastIsServed, Zenon DEF IInv, ServedBy, aRan
<1>8. request.method = "GET" => aCall \in Reads
  <2>1. \A id : CancelRequest(id).method = "POST"
    BY DEF CancelRequest
  <2>2. \A r : CreateRequest(r).method = "POST"
    BY DEF CreateRequest
  <2>3. \A id, r : PayRequest(id, r).method = "POST"
    BY DEF PayRequest
  <2>4. \A id : GetRequest(id).op = "GetOrderByUUID"
    BY DEF GetRequest
  <2>5. request \notin RawRequests
    BY <1>1, RawAssumption
  <2>6. request.method = "GET" => request.op = "GetOrderByUUID"
    BY <1>3, <2>1, <2>2, <2>3, <2>4, <2>5 DEF Asked
  <2> QED BY <1>1, <1>3, <1>5, <2>6, TypedRequests
<1>9. request.method # "GET" /\ stage \in Ops => aRuns = 0
  BY DEF IInv, ServedInv, aRuns
<1> QED BY <1>2, <1>4, <1>5, <1>6, <1>7, <1>8, <1>9

\* One step of the path, seen by the caller of a request under way that
\* stays under way.
LEMMA TypedSteps ==
  ASSUME IInv, IInv', NoneIsNothing, Next, Typed, stage' # "idle"
  PROVE  RemoteOrder!Next \/ UNCHANGED RemoteOrder!vars
<1> USE TypedCalls
<1>1. ASSUME request' = request, served' = served, answer' = answer, outcome' = outcome
      PROVE  UNCHANGED RemoteOrder!vars
  BY <1>1, Views, RemoteStutter, Zenon
<1>2. ASSUME request' = request, served' = served, answer' = answer,
             outcome = None, outcome' = Fail
      PROVE  RemoteOrder!Next
  <2>1. aOutcome = None /\ aOutcome' = Fail
    BY <1>2, Views DEF aOutcome
  <2> QED BY <1>2, <2>1, Views, RemoteOutcome, Zenon
<1>3. CASE Client
  <2>1. ~\E req : Send(req)
    BY DEF Send
  <2>2. CASE Receive
    <3>1. /\ request' = request /\ served' = served /\ answer' = answer /\ outcome = None
          /\ stage = "answered" /\ response.whole
          /\ outcome' = DecodeResponse(request.op, response)
      BY <2>2 DEF Receive, Arrived, Typed
    <3>2. CASE outcome' = Fail
      BY <1>2, <3>1, <3>2
    <3>3. CASE Abstract(answer) # None /\ outcome' = Abstract(answer)
      <4>1. aOutcome = None /\ aAnswer # None /\ aOutcome' = aAnswer
        BY <3>1, <3>3, Views DEF aOutcome, aAnswer
      <4> QED BY <3>1, <4>1, Views, RemoteOutcome, Zenon
    <3> QED BY <3>1, <3>2, <3>3, Received, Zenon
  <2>3. CASE HangUp
    BY <1>2, <2>3 DEF HangUp
  <2>4. CASE Done
    BY <2>4 DEF Done
  <2> QED BY <1>3, <2>1, <2>2, <2>3, <2>4, Sends, Zenon DEF Client
<1>4. CASE ServeHTTP
  BY <1>1, <1>4, Zenon DEF ServeHTTP
<1>5. CASE Handlers
  <2>1. CASE served' = served /\ answer' = answer
    BY <1>1, <1>5, <2>1, HandlerSteps
  <2>2. CASE stage \in Ops /\ answer' = None /\ \E x : served' = Append(served, x)
    <3>1. request' = request /\ outcome' = outcome
      BY <1>5, HandlerSteps
    <3>2. PICK x : served' = Append(served, x)
      BY <2>2
    <3>3. Len(served') = Len(served) + 1 /\ Len(served) \in Nat /\ served' # << >>
      <4>1. served \in Seq(Elems(served))
        BY DEF IInv, ServedInv
      <4>2. Extended(served, x, served')
        BY <3>2, <4>1, OneMore, Zenon
      <4> QED BY <4>1, <4>2 DEF Extended
    <3>4. Typed' /\ aCall' = aCall /\ aOutcome' = aOutcome
      BY <3>1, Views
    <3>5. aRan' = aCall
      <4>1. Len(served') \in DOMAIN served'
        BY <3>3 DEF IInv, ServedInv
      <4>2. ServedBy(request, Last')
        BY <3>1, <4>1 DEF IInv, ServedInv, Last
      <4>3. Last' = aCall
        BY <4>2 DEF ServedBy, Typed
      <4> QED BY <3>3, <3>4, <4>3 DEF aRan
    <3>6. aRuns' = aRuns + 1
      BY <3>3, <3>4 DEF aRuns
    <3>7. aAnswer' = None
      BY <2>2, <3>4 DEF aAnswer, Abstract
    <3>8. aRuns = 0 \/ aCall \in Reads
      BY <2>2
    <3> QED BY <3>4, <3>5, <3>6, <3>7, <3>8, RemoteRun, Zenon
  <2> QED BY <1>5, <2>1, <2>2, HandlerSteps
<1>6. CASE Service
  <2>1. /\ stage = "service" /\ stage' = "encode"
        /\ request' = request /\ outcome' = outcome /\ served' = served
    BY <1>6, ServiceSteps
  <2>2. aRan # None /\ aAnswer = None
    <3>1. served # << >> /\ answer = None
      BY <2>1 DEF IInv, AnswerInv
    <3> QED BY <3>1 DEF aAnswer, Abstract
  <2>3. aAnswer' # None
    <3>1. Typed'
      BY <2>1, Views
    <3>2. \E op : AnswerOf(op, answer')
      BY <2>1, Zenon DEF IInv, AnswerInv
    <3>3. Abstract(answer') # None
      BY <3>2, AnswersAreSome
    <3> QED BY <3>1, <3>3, Zenon DEF aAnswer, Abstract
  <2> QED BY <2>1, <2>2, <2>3, Views, RemoteFinish, Zenon
<1>7. CASE Panic
  BY <1>1, <1>7, Zenon DEF Panic
<1>8. CASE WriteAnswer
  BY <1>1, <1>8, Zenon DEF WriteAnswer
<1>9. CASE Connection
  <2>1. CASE Unreachable
    BY <1>2, <2>1 DEF Unreachable
  <2>2. CASE Cut
    BY <1>2, <2>2 DEF Cut
  <2>3. CASE Resend
    BY <1>1, <2>3 DEF Resend
  <2> QED BY <1>9, <2>1, <2>2, <2>3 DEF Connection
<1> QED BY <1>3, <1>4, <1>5, <1>6, <1>7, <1>8, <1>9 DEF Next

\* The request changes when it is sent and when it is done with.
LEMMA RequestSteps ==
  ASSUME Next
  PROVE  request' = request \/ Done \/ \E req : Asked(req) /\ Send(req)
<1>1. CASE Client
  <2>1. Receive \/ HangUp => request' = request
    BY Zenon DEF Receive, HangUp
  <2> QED BY <1>1, <2>1, Sends, Zenon DEF Client
<1>2. ServeHTTP \/ Panic \/ WriteAnswer => request' = request
  BY Zenon DEF ServeHTTP, Panic, WriteAnswer
<1>3. Connection => request' = request
  BY Zenon DEF Connection, Unreachable, Cut, Resend
<1> QED BY <1>1, <1>2, <1>3, HandlerSteps, ServiceSteps, Zenon DEF Next

\* Every step of the path is one of the remote call, or none.
LEMMA RemoteSteps ==
  ASSUME IInv, IInv', NoneIsNothing, [Next]_vars
  PROVE  RemoteOrder!Next \/ UNCHANGED RemoteOrder!vars
<1>1. ~Typed => aCall = None /\ aRan = None /\ aRuns = 0 /\ aAnswer = None /\ aOutcome = None
  BY Zenon DEF aCall, aRan, aRuns, aAnswer, aOutcome
<1>2. ~Typed' => /\ aCall' = None /\ aRan' = None /\ aRuns' = 0
                 /\ aAnswer' = None /\ aOutcome' = None
  BY Zenon DEF aCall, aRan, aRuns, aAnswer, aOutcome
<1>3. stage = "idle" => ~Typed
  BY TypedCalls
<1>4. NoRequest.op = "none"
  BY Zenon DEF NoRequest
<1>5. CASE UNCHANGED vars
  BY <1>5, Views, RemoteStutter, Zenon DEF vars
<1>6. CASE ~Typed /\ ~Typed'
  BY <1>1, <1>2, <1>6, RemoteStutter, Zenon
<1>7. CASE Typed /\ Next /\ request' = request
  <2>1. Typed'
    BY <1>7, Views
  <2>2. stage' # "idle"
    BY <1>4, <2>1 DEF IInv, RequestInv, Typed
  <2> QED BY <1>7, <2>2, TypedSteps
<1>8. CASE ~Typed /\ request' = request
  BY <1>6, <1>8, Views
<1>9. CASE Done
  <2>1. request' = NoRequest /\ outcome # None
    BY <1>9 DEF Done
  <2>2. ~Typed'
    BY <1>4, <2>1 DEF Typed
  <2>3. CASE Typed
    <3>1. aOutcome # None
      BY <2>1, <2>3 DEF aOutcome
    <3> QED BY <1>2, <2>2, <3>1, RemoteEnd, Zenon
  <2> QED BY <1>6, <2>2, <2>3
<1>10. ASSUME NEW req, Asked(req), Send(req)
       PROVE  RemoteOrder!Next \/ UNCHANGED RemoteOrder!vars
  <2>1. /\ stage = "idle" /\ request' = req /\ served' = served /\ answer' = answer
        /\ outcome' = outcome
    BY <1>10, Zenon DEF Send
  <2>2. served = << >> /\ answer = None /\ outcome = None /\ ~Typed
    BY <1>3, <2>1 DEF IInv, RequestInv
  <2>3. CASE Typed'
    <3>1. req.op # "none"
      BY <2>1, <2>3, Zenon DEF Typed
    <3>2. CallOf(req) \in CallsOfClients
      BY <1>10, <3>1, TypedRequests
    <3>3. aCall' = CallOf(req)
      BY <2>1, <2>3, Zenon DEF aCall, CallOf
    <3>4. aRan' = None /\ aAnswer' = None /\ aOutcome' = None
      BY <2>1, <2>2 DEF aRan, aAnswer, aOutcome, Abstract
    <3>5. aRuns' = 0
      BY <2>1, <2>2 DEF aRuns
    <3> QED BY <1>1, <2>2, <3>2, <3>3, <3>4, <3>5, RemoteInvoke, Zenon
  <2> QED BY <1>6, <2>2, <2>3
<1> QED BY <1>5, <1>7, <1>8, <1>9, <1>10, RequestSteps, Zenon

\* A call that is not a GET runs at most once, whatever the connection and the
\* client do, for every request the server may get: net/http sends again a GET
\* only, and the server serves one operation per request (ServeHTTP).
THEOREM NothingRunsTwice == Spec => [](request.method # "GET" => Len(served) <= 1)
<1>1. IInv => (request.method # "GET" => Len(served) <= 1)
  BY DEF IInv, ServedInv
<1> QED BY <1>1, Invariance, PTL

\* The whole path implements the remote call, if None is no call and no
\* answer: an operation runs with the arguments it was given, a write at most
\* once whatever the connection does, and the caller has the answer of a run
\* or a failure.
THEOREM Refinement ==
  ASSUME NoneIsNothing
  PROVE  Spec => RefinesRemoteCall
<1>1. Init => RemoteOrder!Init
  <2> SUFFICES ASSUME Init
               PROVE  RemoteOrder!Init
    OBVIOUS
  <2>1. request.op = "none"
    BY Zenon DEF Init, NoRequest
  <2>2. aCall = None /\ aRan = None /\ aRuns = 0 /\ aAnswer = None /\ aOutcome = None
    BY <2>1, Zenon DEF aCall, aRan, aRuns, aAnswer, aOutcome, Typed
  <2> QED BY <2>2, RemoteInit
<1>2. IInv /\ IInv' /\ [Next]_vars => [RemoteOrder!Next]_(RemoteOrder!vars)
  BY RemoteSteps
<1> QED BY <1>1, <1>2, Invariance, PTL DEF Spec, RefinesRemoteCall, RemoteOrder!Spec
=============================================================================
