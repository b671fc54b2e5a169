----------------------------- MODULE Inventory -----------------------------
(***************************************************************************)
(* The inventory service: the collection of parts in MongoDB, what a       *)
(* client is shown of it, and the bootstrap that fills it.                 *)
(*                                                                         *)
(* No request writes to the collection.  Every start of the service        *)
(* inserts the whole catalogue once more, under fresh ids, and the insert  *)
(* is unordered: when it fails, some of the parts may be stored.  Prices   *)
(* and stock are edited by hand, outside the service.                      *)
(*                                                                         *)
(* A query reads one batch of a small collection and is one step.          *)
(***************************************************************************)
EXTENDS Naturals, FiniteSets, Functions

CONSTANTS
  PartIds,   \* the uuids that may be generated
  Foreign,   \* a uuid that no part ever gets
  Seeds,     \* the entries of the catalogue that bootstrap inserts
  MaxEdits   \* how often the collection is edited by hand

Names == {"engine", "fuel", "porthole"}

ASSUME IdsAreFinite == IsFiniteSet(PartIds) /\ Foreign \notin PartIds
ASSUME SeedsAreKnown == Seeds \subseteq Names
ASSUME EditsAreBounded == MaxEdits \in Nat

VARIABLES
  parts,     \* the collection: parts[id] is the document with that _id
  serving,   \* the service has been started and accepts calls
  edits      \* number of edits by hand

invVars == <<parts, serving, edits>>

\* Categories are numbers in the code, in the documents and on the wire.
Categories == 0 .. 4

Tags == {"engine", "mk1", "fuel", "cell", "porthole", "glass"}

\* A country as somebody wrote it: letter case and blanks are its spelling.
Lands == {"usa", "germany", "japan"}
Countries == [land : Lands, spelling : {"as_seeded", "other", "normal"}]

\* Fault: countries are compared as they were written.
normalizeCountryNot(c) == c

\* Lower case without surrounding blanks.
normalizeCountry(c) == [c EXCEPT !.spelling = "normal"]

\* What PartsBootstrap inserts.
Entry(name, category, land, tags, price, stock) ==
  [name |-> name, category |-> category,
   country |-> [land |-> land, spelling |-> "as_seeded"],
   tags |-> tags, price |-> price, stock |-> stock]

PartsBootstrap ==
  [engine   |-> Entry("engine", 1, "usa", {"engine", "mk1"}, 12500050, 10),
   fuel     |-> Entry("fuel", 2, "germany", {"fuel", "cell"}, 780000, 120),
   porthole |-> Entry("porthole", 3, "japan", {"porthole", "glass"},
                      1520000, 35)]

\* A document has the normalised country next to the country itself, a model
\* has the country alone, and a message has its category as an enum.
EntityFromModel(p) ==
  [name |-> p.name, category |-> p.category, country |-> p.country,
   country_norm |-> normalizeCountry(p.country), tags |-> p.tags,
   price |-> p.price, stock |-> p.stock]

EntityToModel(e) ==
  [name |-> e.name, category |-> e.category, country |-> e.country,
   tags |-> e.tags, price |-> e.price, stock |-> e.stock]

\* An enum value the code has no case for becomes CategoryUnknown.
categoryToModel(c) == IF c \in Categories THEN c ELSE 0
categoryFromModel(c) == IF c \in Categories THEN c ELSE 0

\* A part as a client of the service receives it.
PartFromModel(id, p) ==
  [id |-> id, name |-> p.name, category |-> categoryFromModel(p.category),
   country |-> p.country, tags |-> p.tags, price |-> p.price,
   stock |-> p.stock]

-----------------------------------------------------------------------------
(* Queries. *)

Fields == {"ids", "names", "categories", "countries", "tags"}

\* A filter names the values it accepts, field by field.
NoFilter == [k \in Fields |-> {}]
IdFilter(ids) == [NoFilter EXCEPT !.ids = ids]

PartsFilterToModel(f) ==
  [f EXCEPT !.categories = {categoryToModel(c) : c \in @}]

\* What a document offers to a query.
Offers(id, e) ==
  [ids |-> {id}, names |-> {e.name}, categories |-> {e.category},
   countries |-> {e.country_norm}, tags |-> e.tags]

\* Fault: the ids are left out of the query.
WantedWithoutIds(f) ==
  [f EXCEPT !.countries = {normalizeCountry(c) : c \in @}, !.ids = {}]

\* Countries are normalised on asking, too.
Wanted(f) == [f EXCEPT !.countries = {normalizeCountry(c) : c \in @}]

\* Fault: a document matches when one field of the filter does.
BuildMongoFilterAny(f, id, e) ==
  f = NoFilter \/ \E k \in Fields : Wanted(f)[k] \cap Offers(id, e)[k] # {}

\* Fields without values do not restrict; the others must all match.
BuildMongoFilter(f, id, e) ==
  \A k \in Fields :
    Wanted(f)[k] # {} => Wanted(f)[k] \cap Offers(id, e)[k] # {}

Found(coll, f) ==
  {id \in DOMAIN coll : BuildMongoFilter(PartsFilterToModel(f), id, coll[id])}

\* The answer to ListParts: no two parts in it have the same id.
ListParts(coll, f) ==
  {PartFromModel(id, EntityToModel(coll[id])) : id \in Found(coll, f)}

\* The answer to GetPart.
Part(coll, id) ==
  IF id \in DOMAIN coll THEN PartFromModel(id, EntityToModel(coll[id]))
                        ELSE "not found"

-----------------------------------------------------------------------------
InvInit ==
  /\ parts = << >>
  /\ serving = FALSE
  /\ edits = 0

\* The fresh ids that bootstrap may draw for some entries of the catalogue.
Draws(seeds) ==
  UNION {Bijection(ids, seeds) : ids \in SUBSET (PartIds \ DOMAIN parts)}

Inserted(draw) ==
  [id \in DOMAIN draw |-> EntityFromModel(PartsBootstrap[draw[id]])]

\* Fault: bootstrap replaces the collection.
StoreOnly(docs) == parts' = docs

\* InsertMany of documents with fresh ids.
Store(docs) ==
  parts' = [id \in DOMAIN parts \cup DOMAIN docs |->
              IF id \in DOMAIN docs THEN docs[id] ELSE parts[id]]

\* initPartsData: the service starts and inserts the catalogue.
Boot ==
  /\ ~serving
  /\ \E draw \in Draws(Seeds) : Store(Inserted(draw))
  /\ serving' = TRUE
  /\ UNCHANGED edits

\* The insert fails, some documents may be stored, and the start fails.
BootFails ==
  /\ ~serving
  /\ \E some \in SUBSET Seeds :
       \E draw \in Draws(some) : Store(Inserted(draw))
  /\ UNCHANGED <<serving, edits>>

Stop ==
  /\ serving
  /\ serving' = FALSE
  /\ UNCHANGED <<parts, edits>>

\* Outside the code: a part is sold out or gets another price.
Edited ==
  /\ edits < MaxEdits
  /\ edits' = edits + 1
  /\ \E id \in DOMAIN parts :
       \/ parts' = [parts EXCEPT ![id].stock = 0]
       \/ parts' = [parts EXCEPT ![id].price = 2 * @]
  /\ UNCHANGED serving

InvNext == Boot \/ BootFails \/ Stop \/ Edited

-----------------------------------------------------------------------------
Document == [name : Names, category : Categories, country : Countries,
             country_norm : Countries, tags : SUBSET Tags,
             price : Nat, stock : Nat]

InvTypeOK ==
  /\ DOMAIN parts \subseteq PartIds
  /\ \A id \in DOMAIN parts : parts[id] \in Document
  /\ serving \in BOOLEAN
  /\ edits \in 0 .. MaxEdits

\* The filter that asks for one attribute of a part as a client was shown it.
FilterBy(p, k) ==
  [NoFilter EXCEPT ![k] =
     [ids |-> {p.id}, names |-> {p.name}, categories |-> {p.category},
      countries |-> {p.country}, tags |-> p.tags][k]]

\* A country is found in whatever letter case and with whatever blanks.
Respelled(f) ==
  [f EXCEPT !.countries = {[c EXCEPT !.spelling = "other"] : c \in @}]

\* A client that asks for an attribute of a part it was shown is shown that
\* part again, by GetPart and by ListParts and however it spells the country:
\* the conversions of categories and the two normalisations of a country, on
\* writing and on asking, agree.
FoundByWhatIsShown ==
  \A p \in ListParts(parts, NoFilter), k \in Fields :
    /\ p = Part(parts, p.id)
    /\ p \in ListParts(parts, FilterBy(p, k))
    /\ p \in ListParts(parts, Respelled(FilterBy(p, k)))

\* Two fields of a filter restrict one after the other: ListParts answers as
\* if the collection were filtered by one field and the result by the other.
FiltersInPasses ==
  LET shown == ListParts(parts, NoFilter)
  IN  \A p, q \in shown, j, k \in Fields :
        LET f == FilterBy(p, j)
            g == FilterBy(q, k)
        IN  j # k => ListParts(parts, [f EXCEPT ![k] = g[k]])
                       = ListParts(parts, f) \cap ListParts(parts, g)
=============================================================================
