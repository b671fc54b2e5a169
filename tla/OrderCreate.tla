---------------------------- MODULE OrderCreate ----------------------------
(***************************************************************************)
(* Creating an order: the order service asks the inventory for the parts   *)
(* of the request, decides on that answer, and inserts a row.              *)
(*                                                                         *)
(* Between the two calls the inventory may restart, sell out or change a   *)
(* price.  The service compares only the LENGTH of the answer with the     *)
(* length of the request.                                                  *)
(***************************************************************************)
EXTENDS Inventory, Sequences, SequencesExt

CONSTANTS
  Requests,  \* CreateOrder requests, each served once
  MaxParts   \* the longest list of parts in a request

ASSUME MaxPartsIsNat == MaxParts \in Nat

VARIABLES
  pc,      \* pc[r]: the call request r is about to make
  params,  \* params[r]: its parameters
  found,   \* found[r]: the local variable `parts`, the inventory's answer
  orders,  \* the orders table: the row that request r inserted
  reply    \* reply[r]: the answer to request r

createVars == <<pc, params, found, orders, reply>>
vars == <<invVars, createVars>>

Nobody == "nil"      \* uuid.Nil
Users == {Nobody, "user"}
NoParams == [user |-> Nobody, partIDs |-> << >>]

NoRow == [partIDs |-> << >>, total |-> 0]

\* The answers to CreateOrder: a total with 201, or an error.
NoReply == [code |-> 0, total |-> 0]
Error(code) == [code |-> code, total |-> 0]

Init ==
  /\ InvInit
  /\ pc = [r \in Requests |-> "idle"]
  /\ params = [r \in Requests |-> NoParams]
  /\ found = [r \in Requests |-> {}]
  /\ orders = [r \in Requests |-> NoRow]
  /\ reply = [r \in Requests |-> NoReply]

Answer(r, answer) ==
  /\ pc' = [pc EXCEPT ![r] = "done"]
  /\ reply' = [reply EXCEPT ![r] = answer]

\* The HTTP status of an error of the service: mapErrorToCreateOrderRes.
\* Both errors of validation are encoded as 422, whatever their code says.
StatusCode(err) == CASE err = "validation"   -> 422
                     [] err = "part_missing" -> 404
                     [] err = "out_of_stock" -> 422
                     [] err = "bad_gateway"  -> 502
                     [] OTHER                -> 500

Refuse(r, err) == Answer(r, Error(StatusCode(err)))

\* A caller names parts it was shown, or a uuid that is no part's.
CallerLists == BoundedSeq(DOMAIN parts \cup {Foreign}, MaxParts)

Valid(p) == p.user # Nobody /\ p.partIDs # << >>

Asked(r) == ToSet(params[r].partIDs)

\* Create starts: the parameters are checked before any call.
Begin(r) ==
  /\ pc[r] = "idle"
  /\ \E user \in Users, partIDs \in CallerLists :
       LET p == [user |-> user, partIDs |-> partIDs]
       IN  /\ params' = [params EXCEPT ![r] = p]
           /\ IF Valid(p)
                THEN pc' = [pc EXCEPT ![r] = "list"] /\ UNCHANGED reply
                ELSE Refuse(r, "validation")
  /\ UNCHANGED <<invVars, found, orders>>

\* What Create looks at of a part the inventory lists.
partToModel(p) == [id |-> p.id, price |-> p.price, stock |-> p.stock]

\* inventory.ListParts with the ids of the request.
ListsParts(r) ==
  /\ pc[r] = "list"
  /\ serving
  /\ found' = [found EXCEPT ![r] =
       {partToModel(p) : p \in ListParts(parts, IdFilter(Asked(r)))}]
  /\ pc' = [pc EXCEPT ![r] = "decide"]
  /\ UNCHANGED <<invVars, params, orders, reply>>

\* The call fails: the inventory is down, or its query fails or times out.
ListPartsFails(r) ==
  /\ pc[r] = "list"
  /\ Refuse(r, "bad_gateway")
  /\ UNCHANGED <<invVars, params, found, orders>>

\* Fault: every part that was found is taken, missing ones are forgotten.
AllFoundUnchecked(r) == TRUE

\* Fault: only the parts in stock are counted.
AllFoundInStock(r) ==
  Cardinality({p \in found[r] : p.stock > 0}) = Len(params[r].partIDs)

\* The length of the answer is the length of the list.
AllFound(r) == Cardinality(found[r]) = Len(params[r].partIDs)

InStock(part) == part.stock > 0

TotalPrice(ps) == MapThenSumSet(LAMBDA p : p.price, ps)

PartsMissing(r) ==
  /\ pc[r] = "decide"
  /\ ~AllFound(r)
  /\ Refuse(r, "part_missing")
  /\ UNCHANGED <<invVars, params, found, orders>>

PartsOutOfStock(r) ==
  /\ pc[r] = "decide"
  /\ AllFound(r)
  /\ \E part \in found[r] : ~InStock(part)
  /\ Refuse(r, "out_of_stock")
  /\ UNCHANGED <<invVars, params, found, orders>>

Accepted(r) ==
  /\ pc[r] = "decide"
  /\ AllFound(r)
  /\ \A part \in found[r] : InStock(part)

Insert(r) ==
  orders' = [orders EXCEPT ![r] = [partIDs |-> params[r].partIDs,
                                   total |-> TotalPrice(found[r])]]

\* Fault: the error of the insert is not looked at.
InsertsUnchecked(r) ==
  /\ Accepted(r)
  /\ Insert(r) \/ UNCHANGED orders
  /\ Answer(r, [code |-> 201, total |-> TotalPrice(found[r])])
  /\ UNCHANGED <<invVars, params, found>>

\* repo.Create stores the row and the caller is told its total.
Inserts(r) ==
  /\ Accepted(r)
  /\ Insert(r)
  /\ Answer(r, [code |-> 201, total |-> TotalPrice(found[r])])
  /\ UNCHANGED <<invVars, params, found>>

\* repo.Create fails; when only its acknowledgement is lost, the row is there.
InsertFails(r) ==
  /\ Accepted(r)
  /\ Insert(r) \/ UNCHANGED orders
  /\ Refuse(r, "db")
  /\ UNCHANGED <<invVars, params, found>>

Next ==
  \/ InvNext /\ UNCHANGED createVars
  \/ \E r \in Requests :
       \/ Begin(r) \/ ListsParts(r) \/ ListPartsFails(r)
       \/ PartsMissing(r) \/ PartsOutOfStock(r)
       \/ Inserts(r) \/ InsertFails(r)

Spec == Init /\ [][Next]_vars

-----------------------------------------------------------------------------
Stored == {r \in Requests : orders[r] # NoRow}

\* The parts of the answer that have the id at position i of the list.
PartAt(r, i) == {p \in found[r] : p.id = params[r].partIDs[i]}

\* The type invariant: states and answers of CreateOrder, and the collection.
TypeOK ==
  /\ InvTypeOK
  /\ pc \in [Requests -> {"idle", "list", "decide", "done"}]
  /\ \A r \in Requests : reply[r].code \in {0, 201, 404, 422, 500, 502}
  /\ \A r \in Requests :
       /\ Asked(r) \subseteq PartIds \cup {Foreign}
       /\ {p.id : p \in found[r]} \subseteq Asked(r)

\* Create compares two lengths, and that is enough: an order that is stored
\* names every part once, each of them was in the answer of the inventory and
\* in stock there, and its total is the sum over its LIST of parts.
OrdersAreComplete ==
  \A r \in Stored :
    LET ids == orders[r].partIDs
        price(i) == (CHOOSE p \in PartAt(r, i) : TRUE).price
    IN  /\ IsInjective(ids)
        /\ \A i \in DOMAIN ids : \E p \in PartAt(r, i) : p.stock > 0
        /\ orders[r].total = MapThenSumSet(price, DOMAIN ids)

\* A 404 means that the inventory did not know a part, or that the caller
\* named one twice; a caller with the right to a 201 is never refused for it.
MissingIsHonest ==
  \A r \in Requests :
    reply[r].code = 404 =>
      \/ \E i \in DOMAIN params[r].partIDs : PartAt(r, i) = {}
      \/ ~IsInjective(params[r].partIDs)

\* After 201 the row is stored with the total the caller was told.
CreatedIsStored ==
  \A r \in Requests :
    reply[r].code = 201 => r \in Stored /\ orders[r].total = reply[r].total

\* The two services share no transaction, yet the parts of a stored order
\* stay in the collection through every restart and failed bootstrap.
OrderedPartsExist ==
  \A r \in Stored : ToSet(orders[r].partIDs) \subseteq DOMAIN parts
=============================================================================
