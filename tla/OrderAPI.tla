------------------------------- MODULE OrderAPI -------------------------------
(***************************************************************************)
(* One request through the order API: the generated client (oas_client),   *)
(* the connection, the router of chi and of ogen (oas_router), the handler *)
(* of the operation (oas_handlers: parameters, body, validation), the      *)
(* business handler (transport/http/order/v1/order.go) around the service, *)
(* the encoder of the answer, and the client's decoder.                    *)
(*                                                                         *)
(* The service itself is OrderService and OrderCreate; here it gives any   *)
(* result or error they can give.  Requests share nothing, so one at a     *)
(* time is enough.  A path is a sequence of pieces of text.                *)
(***************************************************************************)
EXTENDS OrderCodec

CONSTANTS None,         \* no answer, no response, no outcome
          Fail,         \* the outcome of a call that failed
          CreateBodies, \* the CreateOrderRequests clients build
          PayBodies,    \* the PayOrderRequests clients build
          RawRequests,  \* what other HTTP clients send
          Orders,       \* the orders in the table
          Cents,        \* prices
          Faults,       \* subset of AllFaults
          MaxResends    \* bound: a GET is sent again at most so often

AllFaults == {"unreachable", "hangup", "panic", "write", "cut", "resend"}
ASSUME FaultsAssumption == Faults \subseteq AllFaults
ASSUME ResendsAssumption == MaxResends \in Nat
ASSUME FailAssumption == Fail # None

\* A uuid has no slash; other clients are not asked anything here; what the
\* table holds and clients build has its type.
ASSUME UUIDTextsAssumption == "/" \notin UUIDs
ASSUME RawAssumption ==
    \A req \in RawRequests :
          /\ req.op = "none"
          /\ req.path \in Seq({req.path[i] : i \in DOMAIN req.path})
ASSUME BodiesAssumption ==
    /\ \A r \in CreateBodies :
          /\ r.user_uuid \in UUIDs /\ r.part_uuids.elems \in Seq(UUIDs)
          /\ r = [user_uuid |-> r.user_uuid,
                  part_uuids |-> [nil |-> r.part_uuids.nil, elems |-> r.part_uuids.elems]]
    /\ \A r \in PayBodies : r = [payment_method |-> r.payment_method]
ASSUME PricesAssumption == Cents \subseteq Int
ASSUME OrdersAssumption ==
    \A ord \in Orders :
       /\ ord.user \in UUIDs /\ ord.parts \in Seq(UUIDs) /\ ord.total \in Int
       /\ ord.tx \in UUIDs \cup {None}
       /\ ord.method \in Methods \cup {None} /\ ord.status \in Statuses
       /\ ord = [id |-> ord.id, user |-> ord.user, parts |-> ord.parts, total |-> ord.total,
                  tx |-> ord.tx, method |-> ord.method, status |-> ord.status]

Ops == {"CancelOrder", "CreateOrder", "GetOrderByUUID", "PayOrder"}
Base == "/api/v1/orders"
JSON == "application/json"
NoBody == << >>
Bad == [malformed |-> TRUE]    \* bytes that are no JSON

VARIABLES stage,     \* where the request is
          request,   \* [op, id, arg: what the client was asked, method, path, ctype, body]
          served,    \* the calls of the business handler for this request
          answer,    \* what the business handler returned: [type, value] or None
          response,  \* on the wire: [status, ctype, body, whole] or None
          recorded,  \* codeRecorder.status, 0 before the first header
          outcome,   \* what the client's caller has: None, Fail or an answer
          resends

vars == <<stage, request, served, answer, response, recorded, outcome, resends>>

NoRequest == [op |-> "none", id |-> NilUUID, arg |-> NoBody, method |-> "", path |-> << >>,
              ctype |-> "", body |-> NoBody]

Init ==
    /\ stage = "idle" /\ request = NoRequest /\ served = << >>
    /\ answer = None /\ response = None /\ outcome = None
    /\ recorded = 0 /\ resends = 0

-----------------------------------------------------------------------------
(* The client sends.  It validates nothing. *)

Send(req) ==
    /\ stage = "idle"
    /\ stage' = "sent" /\ request' = req
    /\ UNCHANGED <<served, answer, response, recorded, outcome, resends>>

encodeCreateOrderRequest(r) == <<Encode(CreateOrderRequest, r)>>
encodePayOrderRequest(r) == <<Encode(PayOrderRequest, r)>>

sendCancelOrder(id) ==
    Send([op |-> "CancelOrder", id |-> id, arg |-> NoBody, method |-> "POST",
          path |-> <<Base, "/", id, "/", "cancel">>, ctype |-> "", body |-> NoBody])
sendCreateOrder(r) ==
    Send([op |-> "CreateOrder", id |-> NilUUID, arg |-> r, method |-> "POST",
          path |-> <<Base>>, ctype |-> JSON, body |-> encodeCreateOrderRequest(r)])
sendGetOrderByUUID(id) ==
    Send([op |-> "GetOrderByUUID", id |-> id, arg |-> NoBody, method |-> "GET",
          path |-> <<Base, "/", id>>, ctype |-> "", body |-> NoBody])
sendPayOrder(id, r) ==
    Send([op |-> "PayOrder", id |-> id, arg |-> r, method |-> "POST",
          path |-> <<Base, "/", id, "/", "pay">>, ctype |-> JSON,
          body |-> encodePayOrderRequest(r)])
SendRaw == \E req \in RawRequests : Send(req)

-----------------------------------------------------------------------------
(* The server: routing. *)

Reply(status, ctype, body) ==
    response' = [status |-> status, ctype |-> ctype, body |-> body, whole |-> TRUE]

On(method, wanted, op, arg) ==
    [to |-> IF method = wanted THEN op ELSE "notAllowed", arg |-> arg]
NotFound == [to |-> "notFound", arg |-> << >>]

\* How many pieces there are before the first "/".
SegmentLength(path) ==
    LET slashes == {i \in DOMAIN path : path[i] = "/"}
    IN  IF slashes = {} THEN Len(path) ELSE (CHOOSE i \in slashes : \A k \in slashes : i <= k) - 1

Route(method, path) ==
    LET after == SubSeq(path, 3, Len(path))
        n == SegmentLength(after)
        arg == SubSeq(after, 1, n)
        rest == SubSeq(after, n + 1, Len(after))
    IN  CASE path = <<"/health">> -> [to |-> "health", arg |-> << >>]
          [] path = <<Base>> -> On(method, "POST", "CreateOrder", << >>)
          [] Len(path) >= 2 /\ path[1] = Base /\ path[2] = "/" ->
               (CASE rest = << >> -> On(method, "GET", "GetOrderByUUID", arg)
                  [] rest = <<"/", "cancel">> -> On(method, "POST", "CancelOrder", arg)
                  [] rest = <<"/", "pay">> -> On(method, "POST", "PayOrder", arg)
                  [] OTHER -> NotFound)
          [] OTHER -> NotFound

notAllowed == Reply(IF request.method = "OPTIONS" THEN 204 ELSE 405, "", NoBody)
notFound == Reply(404, "text/plain", <<Bad>>)
HealthCheck == Reply(200, "text/plain", <<Bad>>)

ServeHTTP ==
    LET to == Route(request.method, request.path).to
    IN  /\ stage = "sent"
        /\ \/ to \in Ops /\ stage' = to /\ UNCHANGED response
           \/ to = "notFound" /\ notFound /\ stage' = "answered"
           \/ to = "notAllowed" /\ notAllowed /\ stage' = "answered"
           \/ to = "health" /\ HealthCheck /\ stage' = "answered"
        /\ UNCHANGED <<request, served, answer, recorded, outcome, resends>>

-----------------------------------------------------------------------------
(***************************************************************************)
(* The server: decoding.  Every refusal goes through ogen's                *)
(* DefaultErrorHandler (external), which answers an object with the single *)
(* field error_message.                                                    *)
(***************************************************************************)

ErrorMessage == <<Obj([error_message |-> Str("message")])>>
ErrorHandler(status) == Reply(status, JSON, ErrorMessage)

\* Fault: what follows the uuid in its segment is ignored.
DecodePathUUIDPrefix(arg) == IF arg # << >> /\ arg[1] \in UUIDs THEN Ok(arg[1]) ELSE Failed
\* The path parameter, unescaped: a uuid, whole and alone.
DecodePathUUID(arg) == IF Len(arg) = 1 /\ arg[1] \in UUIDs THEN Ok(arg[1]) ELSE Failed
decodeCancelOrderParams(arg) == DecodePathUUID(arg)
decodeGetOrderByUUIDParams(arg) == DecodePathUUID(arg)
decodePayOrderParams(arg) == DecodePathUUID(arg)

\* The status that refuses the body, or 0.
BodyStatus(type, ctype, body) ==
    CASE ctype = "" -> 400          \* no media type to parse
      [] ctype \notin {"", JSON} -> 415
      [] OTHER -> IF Len(body) = 1 /\ Parses(type, body[1]) THEN 0 ELSE 400
decodeCreateOrderRequest == BodyStatus("CreateOrderRequest", request.ctype, request.body)
decodePayOrderRequest == BodyStatus("PayOrderRequest", request.ctype, request.body)

\* Fault: the error handler gets the bare ResponseWriter.
RefuseUnrecorded(status) ==
    /\ ErrorHandler(status)
    /\ stage' = "answered"
    /\ UNCHANGED <<request, served, answer, recorded, outcome, resends>>
Refuse(status) ==
    /\ ErrorHandler(status) /\ recorded' = status
    /\ stage' = "answered"
    /\ UNCHANGED <<request, served, answer, outcome, resends>>

Serve(op, id, body) ==
    /\ served' = Append(served, [op |-> op, id |-> id, arg |-> body])
    /\ answer' = None
    /\ stage' = "service"
    /\ UNCHANGED <<request, response, recorded, outcome, resends>>

\* Reading the body fails when the client is gone before the server had it all.
ReadFails == outcome = Fail /\ request.body # NoBody /\ request.ctype = JSON

Arg == Route(request.method, request.path).arg
Body(type) == Decoded(Schema[type], request.body[1])

handleCancelOrderRequest ==
    LET id == decodeCancelOrderParams(Arg)
    IN  /\ stage = "CancelOrder"
        /\ IF id.ok THEN Serve("CancelOrder", id.value, NoBody) ELSE Refuse(400)

handleGetOrderByUUIDRequest ==
    LET id == decodeGetOrderByUUIDParams(Arg)
    IN  /\ stage = "GetOrderByUUID"
        /\ IF id.ok THEN Serve("GetOrderByUUID", id.value, NoBody) ELSE Refuse(400)

handleCreateOrderRequest ==
    /\ stage = "CreateOrder"
    /\ \/ ReadFails /\ Refuse(400)
       \/ IF decodeCreateOrderRequest = 0
          THEN Serve("CreateOrder", NilUUID, Body("CreateOrderRequest"))
          ELSE Refuse(decodeCreateOrderRequest)

handlePayOrderRequest ==
    LET id == decodePayOrderParams(Arg)
    IN  /\ stage = "PayOrder"
        /\ \/ ~id.ok /\ Refuse(400)
           \/ id.ok /\ ReadFails /\ Refuse(400)
           \/ id.ok /\ IF decodePayOrderRequest = 0
                      THEN Serve("PayOrder", id.value, Body("PayOrderRequest"))
                      ELSE Refuse(decodePayOrderRequest)

-----------------------------------------------------------------------------
(***************************************************************************)
(* The business handler: the service's result or error becomes an answer.  *)
(***************************************************************************)

Answer(type, value) == [type |-> type, value |-> value]
Error(type, code) ==
    Answer(type, [code |-> Opt(code), message |-> Opt("message")])
Invalid(code) ==
    Answer("ValidationError",
           [code |-> Opt(code), message |-> Opt("message"), details |-> NilSlice])

mapErrorToCreateOrderRes(err) ==
    CASE err = "ErrValidation" -> Invalid(400)
      [] err = "ErrPartNotFound" -> Error("NotFoundError", 404)
      [] err = "ErrPartsOutOfStock" -> Invalid(422)
      [] err = "ErrBadGateway" -> Error("BadGatewayError", 502)
      [] err = "ErrServiceUnavailable" -> Error("ServiceUnavailableError", 503)
      [] OTHER -> Error("InternalServerError", 500)
mapErrorToPayOrderRes(err) ==
    CASE err = "ErrValidation" -> Invalid(400)
      [] err = "ErrOrderNotFound" -> Error("NotFoundError", 404)
      [] err = "ErrOrderConflict" -> Error("ConflictError", 409)
      [] err = "ErrBadGateway" -> Error("BadGatewayError", 502)
      [] err = "ErrServiceUnavailable" -> Error("ServiceUnavailableError", 503)
      [] OTHER -> Error("InternalServerError", 500)
mapErrorToGetOrderRes(err) ==
    IF err = "ErrOrderNotFound" THEN Error("NotFoundError", 404)
    ELSE Error("InternalServerError", 500)
mapErrorToCancelOrderRes(err) ==
    CASE err = "ErrOrderNotFound" -> Error("NotFoundError", 404)
      [] err = "ErrOrderConflict" -> Error("ConflictError", 409)
      [] OTHER -> Error("InternalServerError", 500)

transactionIDToOptNilUUID(id) == IF id = None THEN NullOf(NilUUID) ELSE Opt(id)
\* Fault: no method becomes the empty method.
paymentMethodToOptNilEmpty(pm) == IF pm = None THEN Opt("") ELSE Opt(pm)
paymentMethodToOptNil(pm) == IF pm = None THEN NullOf("") ELSE Opt(pm)

\* An order of the table as the API shows it; appending no parts to a nil
\* slice leaves it nil.
OrderToOAPI(ord) ==
    Answer("Order",
        [order_uuid |-> ord.id, user_uuid |-> ord.user,
         part_uuids |-> [nil |-> ord.parts = << >>, elems |-> ord.parts],
         total_price |-> formatCents(ord.total),
         transaction_uuid |-> transactionIDToOptNilUUID(ord.tx),
         payment_method |-> paymentMethodToOptNil(ord.method),
         status |-> ord.status])

Returns(op, a) ==
    /\ stage = "service" /\ served[Len(served)].op = op
    /\ answer' = a /\ stage' = "encode"
    /\ UNCHANGED <<request, served, response, recorded, outcome, resends>>

CreateOrderHandler ==
    \/ \E id \in UUIDs, cents \in Cents :
          Returns("CreateOrder", Answer("CreateOrderResponse",
                  [uuid |-> id, total_price |-> formatCents(cents)]))
    \/ \E err \in {"ErrValidation", "ErrBadGateway", "ErrPartNotFound",
                   "ErrPartsOutOfStock", "other"} :
          Returns("CreateOrder", mapErrorToCreateOrderRes(err))

PayOrderHandler ==
    \/ \E tx \in UUIDs :
          Returns("PayOrder", Answer("PayOrderResponse", [transaction_uuid |-> tx]))
    \/ \E err \in {"ErrOrderNotFound", "ErrOrderConflict", "ErrUnknownStatus",
                   "ErrBadGateway", "other"} :
          Returns("PayOrder", mapErrorToPayOrderRes(err))

GetOrderByUUIDHandler ==
    \/ \E ord \in Orders :
          Returns("GetOrderByUUID", OrderToOAPI([ord EXCEPT !.id = served[Len(served)].id]))
    \/ \E err \in {"ErrOrderNotFound", "other"} :
          Returns("GetOrderByUUID", mapErrorToGetOrderRes(err))

CancelOrderHandler ==
    \/ Returns("CancelOrder", Answer("CancelOrderNoContent", NoBody))
    \/ \E err \in {"ErrOrderNotFound", "ErrOrderConflict", "ErrUnknownStatus", "other"} :
          Returns("CancelOrder", mapErrorToCancelOrderRes(err))

\* Recoverer of chi (external) answers 500 without a body; the header goes
\* past the codeRecorder of the handler.
Panic ==
    /\ "panic" \in Faults /\ stage = "service"
    /\ Reply(500, "", NoBody)
    /\ stage' = "answered"
    /\ UNCHANGED <<request, served, answer, recorded, outcome, resends>>

-----------------------------------------------------------------------------
(***************************************************************************)
(* The encoders of the server: the status of every answer an operation can *)
(* give.  The header goes out before the body; when the body cannot be     *)
(* written the error handler writes a second header, which only the        *)
(* codeRecorder sees.                                                      *)
(***************************************************************************)

encodeCancelOrderResponse ==
    [CancelOrderNoContent |-> 204, BadRequestError |-> 400, UnauthorizedError |-> 401,
     ForbiddenError |-> 403, NotFoundError |-> 404, ConflictError |-> 409,
     RateLimitError |-> 429, InternalServerError |-> 500]
encodeCreateOrderResponse ==
    [CreateOrderResponse |-> 201, BadRequestError |-> 400, UnauthorizedError |-> 401,
     ForbiddenError |-> 403, NotFoundError |-> 404, ValidationError |-> 422,
     RateLimitError |-> 429, InternalServerError |-> 500, BadGatewayError |-> 502,
     ServiceUnavailableError |-> 503]
encodeGetOrderByUUIDResponse ==
    [Order |-> 200, BadRequestError |-> 400, UnauthorizedError |-> 401,
     ForbiddenError |-> 403, NotFoundError |-> 404, RateLimitError |-> 429,
     InternalServerError |-> 500]
encodePayOrderResponse ==
    [PayOrderResponse |-> 200, BadRequestError |-> 400, UnauthorizedError |-> 401,
     ForbiddenError |-> 403, NotFoundError |-> 404, ConflictError |-> 409,
     ValidationError |-> 422, RateLimitError |-> 429, InternalServerError |-> 500,
     BadGatewayError |-> 502, ServiceUnavailableError |-> 503]

StatusOf(op) == CASE op = "CancelOrder" -> encodeCancelOrderResponse
                  [] op = "CreateOrder" -> encodeCreateOrderResponse
                  [] op = "GetOrderByUUID" -> encodeGetOrderByUUIDResponse
                  [] op = "PayOrder" -> encodePayOrderResponse

Payload(a) ==
    IF a.type = "CancelOrderNoContent" THEN NoBody ELSE <<Encode(Schema[a.type], a.value)>>

WriteAnswer ==
    LET status == StatusOf(served[Len(served)].op)[answer.type]
    IN  /\ stage = "encode"
        /\ \/ /\ Reply(status, IF Payload(answer) = NoBody THEN "" ELSE JSON, Payload(answer))
              /\ recorded' = status
           \/ /\ "write" \in Faults /\ Payload(answer) # NoBody
              /\ response' = [status |-> status, ctype |-> JSON, body |-> <<Bad>>, whole |-> FALSE]
              /\ recorded' = 500
        /\ stage' = "answered"
        /\ UNCHANGED <<request, served, answer, outcome, resends>>

-----------------------------------------------------------------------------
(***************************************************************************)
(* The client: which type it reads for a status, then the document must be *)
(* that type, alone and valid.                                             *)
(***************************************************************************)

decodeErrorStatus(status) ==
    CASE status = 400 -> "BadRequestError"
      [] status = 401 -> "UnauthorizedError"
      [] status = 403 -> "ForbiddenError"
      [] status = 404 -> "NotFoundError"
      [] status = 429 -> "RateLimitError"
      [] status = 500 -> "InternalServerError"
      [] OTHER -> "unexpected"
decodeCancelOrderResponse(status) ==
    CASE status = 204 -> "CancelOrderNoContent"
      [] status = 409 -> "ConflictError"
      [] OTHER -> decodeErrorStatus(status)
decodeCreateOrderResponse(status) ==
    CASE status = 201 -> "CreateOrderResponse"
      [] status = 422 -> "ValidationError"
      [] status = 502 -> "BadGatewayError"
      [] status = 503 -> "ServiceUnavailableError"
      [] OTHER -> decodeErrorStatus(status)
decodeGetOrderByUUIDResponse(status) ==
    IF status = 200 THEN "Order" ELSE decodeErrorStatus(status)
decodePayOrderResponse(status) ==
    CASE status = 200 -> "PayOrderResponse"
      [] status = 409 -> "ConflictError"
      [] status = 422 -> "ValidationError"
      [] status = 502 -> "BadGatewayError"
      [] status = 503 -> "ServiceUnavailableError"
      [] OTHER -> decodeErrorStatus(status)

TypeRead(op, status) == CASE op = "CancelOrder" -> decodeCancelOrderResponse(status)
                          [] op = "CreateOrder" -> decodeCreateOrderResponse(status)
                          [] op = "GetOrderByUUID" -> decodeGetOrderByUUIDResponse(status)
                          [] op = "PayOrder" -> decodePayOrderResponse(status)

\* What the client makes of a response that arrived whole.
DecodeResponse(op, resp) ==
    LET type == TypeRead(op, resp.status)
    IN  CASE type = "unexpected" -> Fail
          [] type = "CancelOrderNoContent" -> Answer(type, NoBody)
          [] OTHER -> IF resp.ctype = JSON /\ Len(resp.body) = 1 /\ Parses(type, resp.body[1])
                      THEN Answer(type, Decoded(Schema[type], resp.body[1]))
                      ELSE Fail

Arrived == stage = "answered" /\ outcome = None /\ response.whole

\* The typed client reads the response; another client takes what it gets.
Receive ==
    /\ Arrived
    /\ outcome' = IF request.op = "none" THEN Fail ELSE DecodeResponse(request.op, response)
    /\ UNCHANGED <<stage, request, served, answer, response, recorded, resends>>

\* The connection fails: before the server has the request, while the answer
\* is on its way, or in the middle of the body.
Unreachable ==
    /\ "unreachable" \in Faults /\ stage = "sent" /\ outcome = None /\ response = None
    /\ stage' = "lost" /\ outcome' = Fail
    /\ UNCHANGED <<request, served, answer, response, recorded, resends>>
Cut ==
    /\ stage = "answered" /\ outcome = None
    /\ "cut" \in Faults \/ ~response.whole
    /\ outcome' = Fail
    /\ UNCHANGED <<stage, request, served, answer, response, recorded, resends>>

\* The caller gives up; the request goes on in the server.
HangUp ==
    /\ "hangup" \in Faults /\ stage \notin {"idle", "lost"} /\ outcome = None
    /\ outcome' = Fail
    /\ UNCHANGED <<stage, request, served, answer, response, recorded, resends>>

\* net/http (external) sends a request again when the connection broke before
\* the answer and the request may be repeated: a GET, here.
Resend ==
    /\ "resend" \in Faults /\ resends < MaxResends
    /\ request.method = "GET" /\ stage = "answered" /\ outcome = None
    /\ stage' = "sent" /\ resends' = resends + 1
    /\ response' = None /\ recorded' = 0
    /\ UNCHANGED <<request, served, answer, outcome>>

Done ==
    /\ stage \in {"answered", "lost"} /\ outcome # None
    /\ stage' = "idle" /\ request' = NoRequest /\ served' = << >>
    /\ answer' = None /\ response' = None /\ outcome' = None
    /\ recorded' = 0 /\ resends' = 0

Client ==
    \/ \E id \in UUIDs : sendCancelOrder(id) \/ sendGetOrderByUUID(id)
    \/ \E r \in CreateBodies : sendCreateOrder(r)
    \/ \E id \in UUIDs, r \in PayBodies : sendPayOrder(id, r)
    \/ SendRaw \/ Receive \/ HangUp \/ Done

Handlers ==
    \/ handleCancelOrderRequest \/ handleCreateOrderRequest
    \/ handleGetOrderByUUIDRequest \/ handlePayOrderRequest

Service ==
    \/ CancelOrderHandler \/ CreateOrderHandler
    \/ GetOrderByUUIDHandler \/ PayOrderHandler

Connection == Unreachable \/ Cut \/ Resend

Next == Client \/ ServeHTTP \/ Handlers \/ Service \/ Panic \/ WriteAnswer \/ Connection

Spec == Init /\ [][Next]_vars

-----------------------------------------------------------------------------
(* Properties *)

\* Every variable has its type: a status is one of HTTP's, and the text of a
\* price always has two digits of cents (formatCents).
PriceTexts == [minus : BOOLEAN, units : Nat, frac : [1..2 -> 0..9]]
TypeOK ==
    /\ stage \in {"idle", "sent", "service", "encode", "answered", "lost"} \cup Ops
    /\ request.op \in Ops \cup {"none"}
    /\ \A i \in DOMAIN served : served[i].op \in Ops /\ served[i].id \in UUIDs
    /\ answer # None /\ answer.type \in {"Order", "CreateOrderResponse"} =>
          answer.value.total_price \in PriceTexts
    /\ response # None => response.status \in 100..599 /\ response.whole \in BOOLEAN
    /\ recorded \in {0} \cup 100..599
    /\ resends \in 0..MaxResends

\* A slice of uuids that was nil is read as an empty one.
Plain(v) == IF "part_uuids" \in DOMAIN v THEN [v EXCEPT !.part_uuids.nil = FALSE] ELSE v

\* The generated client reads from the bytes of an answer the very answer the
\* business handler returned, its type and every field, for every operation
\* and every answer: the status tables of oas_response_encoders and
\* oas_response_decoders, the JSON of both sides, and the validation that only
\* the client does agree with what the converters of the service produce.
AnswersAreUnderstood ==
    stage = "answered" /\ response.whole /\ answer # None /\ request.op # "none" =>
        DecodeResponse(request.op, response) = Answer(answer.type, Plain(answer.value))

\* The interface description, order.openapi.yaml and its components: the
\* operations, their paths with a uuid, and the bodies they take.
Declared(op) ==
    CASE op = "CreateOrder" -> {[method |-> "POST", path |-> <<Base>>, id |-> NilUUID]}
      [] op = "GetOrderByUUID" ->
            {[method |-> "GET", path |-> <<Base, "/", id>>, id |-> id] : id \in UUIDs}
      [] op = "CancelOrder" ->
            {[method |-> "POST", path |-> <<Base, "/", id, "/", "cancel">>, id |-> id] : id \in UUIDs}
      [] op = "PayOrder" ->
            {[method |-> "POST", path |-> <<Base, "/", id, "/", "pay">>, id |-> id] : id \in UUIDs}
UUIDText(j) == Is("str", j) /\ j.str \in UUIDs
BodyDeclared(op, req) ==
    op \in {"CreateOrder", "PayOrder"} =>
       /\ req.ctype = JSON /\ Len(req.body) = 1 /\ Is("obj", req.body[1])
       /\ LET o == req.body[1].obj
          IN  CASE op = "CreateOrder" ->
                     /\ {"user_uuid", "part_uuids"} \subseteq DOMAIN o
                     /\ UUIDText(o.user_uuid) /\ Is("arr", o.part_uuids)
                     /\ \A i \in DOMAIN o.part_uuids.arr : UUIDText(o.part_uuids.arr[i])
                [] op = "PayOrder" ->
                     /\ "payment_method" \in DOMAIN o
                     /\ Is("str", o.payment_method) /\ o.payment_method.str \in Methods

DeclaredAs(req, op, id) ==
    /\ [method |-> req.method, path |-> req.path, id |-> id] \in Declared(op)
    /\ BodyDeclared(op, req)

\* A request reaches the service exactly when the interface description
\* declares it, as the operation and for the order it names: nothing the
\* router, the parameters, the bodies or the validators let through is
\* undeclared, and nothing declared is refused while its client is there.
ServedAsDeclared ==
    /\ \A i \in DOMAIN served : DeclaredAs(request, served[i].op, served[i].id)
    /\ stage = "answered" /\ outcome = None /\ served = << >> =>
          ~\E op \in Ops, id \in UUIDs : DeclaredAs(request, op, id)

\* The status the metrics and the trace of a request are labelled with is the
\* status the client was sent. Three cases are excepted: the handler
\* panicked or no operation was found (nothing is recorded), and the body could
\* not be written (500 is recorded after another status went out).
CountedAsSent ==
    stage = "answered" /\ response.whole /\ recorded # response.status =>
        \/ recorded = 0 /\ response.status = 500 /\ answer = None
        \/ recorded = 0 /\ served = << >> /\ Route(request.method, request.path).to \notin Ops

\* Seen from the caller the whole path is a remote call: the operation runs
\* with the arguments the caller gave, a write at most once whatever the
\* connection does, and the outcome is the answer of a run or a failure.
Abstract(a) == IF a = None THEN None ELSE Answer(a.type, Plain(a.value))
Reads == [op : {"GetOrderByUUID"}, id : UUIDs, arg : {NoBody}]
CallsOfClients ==
    Reads \cup {[op |-> "CancelOrder", id |-> id, arg |-> NoBody] : id \in UUIDs}
          \cup {[op |-> "CreateOrder", id |-> NilUUID, arg |-> Plain(r)] : r \in CreateBodies}
          \cup {[op |-> "PayOrder", id |-> id, arg |-> r] : id \in UUIDs, r \in PayBodies}
Typed == request.op # "none"    \* the request is of the generated client
RemoteOrder == INSTANCE RemoteCall
    WITH call <- IF Typed THEN [op |-> request.op, id |-> request.id, arg |-> Plain(request.arg)]
                 ELSE None,
         ran <- IF Typed /\ served # << >> THEN served[Len(served)] ELSE None,
         runs <- IF Typed THEN Len(served) ELSE 0,
         answer <- IF Typed THEN Abstract(answer) ELSE None,
         outcome <- IF Typed THEN outcome ELSE None,
         Calls <- CallsOfClients
RefinesRemoteCall == RemoteOrder!Spec
=============================================================================
