------------------------- MODULE OrderCreateProofs -------------------------
(***************************************************************************)
(* What CreateOrder guarantees for any catalogue, any uuids, any number of *)
(* requests and lists of any length, while the inventory restarts, fails   *)
(* and is edited: comparing two lengths tells the service whether every    *)
(* part of the list was found, and every part once.                        *)
(***************************************************************************)
EXTENDS OrderCreate, FiniteSetTheorems, WellFoundedInduction, TLAPS

-----------------------------------------------------------------------------
(* Lengths. *)

\* The elements of F have different ids, all of them in a list of length n.
AnswersTo(F, list, n) ==
  /\ \A p \in F : \E i \in 1 .. n : p.id = list[i]
  /\ \A p, q \in F : p.id = q.id => p = q

\* A set that answers to a list of length n has n elements if and only if the list names nothing twice and the set has
\* an element for every position.
LEMMA SameLength ==
  ASSUME NEW n \in Nat, NEW S, NEW list \in [1 .. n -> S], NEW F,
         AnswersTo(F, list, n)
  PROVE  /\ IsFiniteSet(F)
         /\ Cardinality(F) = n <=>
              /\ IsInjective(list)
              /\ \A i \in 1 .. n : \E p \in F : p.id = list[i]
<1> USE DEF AnswersTo
<1> DEFINE T == {list[i] : i \in 1 .. n}
           ids == [p \in F |-> p.id]
<1>1. /\ list \in Surjection(1 .. n, T)
      /\ list \in Injection(1 .. n, T) <=> IsInjective(list)
  BY DEF Surjection, Injection, IsInjective
<1>2. IsFiniteSet(1 .. n) /\ Cardinality(1 .. n) = n
  BY FS_Interval
<1>3. /\ IsFiniteSet(T) /\ Cardinality(T) <= n
      /\ Cardinality(T) = n <=> IsInjective(list)
  BY <1>1, <1>2, FS_Surjection
<1>4. ids \in Injection(F, T)
  <2>1. \A p \in F : p.id \in T
    OBVIOUS
  <2>2. ids \in [F -> T]
    BY <2>1
  <2>3. IsInjective(ids)
    BY DEF IsInjective
  <2> QED BY <2>2, <2>3 DEF Injection
<1>5. ids \in Surjection(F, T) <=> \A i \in 1 .. n : \E p \in F : p.id = list[i]
  <2>1. ids \in [F -> T] /\ \A p \in F : ids[p] = p.id
    BY <1>4 DEF Injection
  <2>2. \A t : t \in T <=> \E i \in 1 .. n : t = list[i]
    OBVIOUS
  <2> HIDE DEF T, ids
  <2>3. ids \in Surjection(F, T) <=> \A t \in T : \E p \in F : ids[p] = t
    BY <2>1 DEF Surjection
  <2>4. (\A t \in T : \E p \in F : ids[p] = t)
          <=> \A i \in 1 .. n : \E p \in F : p.id = list[i]
    <3>1. ASSUME \A t \in T : \E p \in F : ids[p] = t, NEW i \in 1 .. n
          PROVE  \E p \in F : p.id = list[i]
      <4>1. list[i] \in T
        BY <2>2
      <4>2. PICK p \in F : ids[p] = list[i]
        BY <3>1, <4>1
      <4> QED BY <2>1, <4>2
    <3>2. ASSUME \A i \in 1 .. n : \E p \in F : p.id = list[i], NEW t \in T
          PROVE  \E p \in F : ids[p] = t
      <4>1. PICK i \in 1 .. n : t = list[i]
        BY <2>2, <3>2
      <4>2. PICK p \in F : p.id = list[i]
        BY <3>2
      <4> QED BY <2>1, <4>1, <4>2
    <3> QED BY <3>1, <3>2
  <2> QED BY <2>3, <2>4
<1> HIDE DEF T, ids
<1>6. /\ IsFiniteSet(F) /\ Cardinality(F) <= Cardinality(T)
      /\ Cardinality(F) = Cardinality(T) <=> ids \in Surjection(F, T)
  BY <1>3, <1>4, FS_Injection
<1>7. Cardinality(F) \in Nat /\ Cardinality(T) \in Nat
  BY <1>3, <1>6, FS_CardinalityType
<1>8. Cardinality(F) = n <=> Cardinality(F) = Cardinality(T) /\ Cardinality(T) = n
  BY <1>3, <1>6, <1>7
<1> QED BY <1>3, <1>5, <1>6, <1>8

-----------------------------------------------------------------------------
(* Sums. *)

\* h gives the sum of f over every subset of S, whichever element is taken out
\* first.
IsSum(h, f, S) ==
  /\ h \in [SUBSET S -> Nat]
  /\ h[{}] = 0
  /\ \A s \in SUBSET S : \A x \in s : h[s] = f[x] + h[s \ {x}]

\* One element more.
LEMMA SumExtends ==
  ASSUME NEW S, NEW a \in S, NEW f \in [S -> Nat], NEW h, IsSum(h, f, S \ {a})
  PROVE  \E k : IsSum(k, f, S)
<1> DEFINE k == [s \in SUBSET S |-> IF a \in s THEN f[a] + h[s \ {a}] ELSE h[s]]
<1>1. \A s \in SUBSET S : s \ {a} \in SUBSET (S \ {a}) /\ (a \notin s => s \in SUBSET (S \ {a}))
  OBVIOUS
<1>2. \A s \in SUBSET (S \ {a}) : h[s] \in Nat
  BY DEF IsSum
<1>3. k \in [SUBSET S -> Nat]
  <2>1. ASSUME NEW s \in SUBSET S
        PROVE  (IF a \in s THEN f[a] + h[s \ {a}] ELSE h[s]) \in Nat
    <3>1. f[a] \in Nat
      OBVIOUS
    <3> QED BY <1>1, <1>2, <3>1
  <2> QED BY <2>1
<1>4. k[{}] = 0
  BY DEF IsSum
<1>5. ASSUME NEW s \in SUBSET S, NEW x \in s
      PROVE  k[s] = f[x] + k[s \ {x}]
  <2>1. s \ {x} \in SUBSET S /\ f[x] \in Nat /\ f[a] \in Nat
    OBVIOUS
  <2>2. CASE x = a
    <3>1. a \notin s \ {x}
      BY <2>2
    <3> QED BY <2>1, <2>2, <3>1
  <2>3. CASE x # a /\ a \in s
    <3>1. k[s] = f[a] + h[s \ {a}] /\ k[s \ {x}] = f[a] + h[(s \ {x}) \ {a}]
      BY <2>1, <2>3
    <3>2. x \in s \ {a} /\ s \ {a} \in SUBSET (S \ {a}) /\ (s \ {a}) \ {x} = (s \ {x}) \ {a}
      BY <2>3
    <3>3. h[s \ {a}] = f[x] + h[(s \ {x}) \ {a}]
      <4>1. \A t \in SUBSET (S \ {a}) : \A y \in t : h[t] = f[y] + h[t \ {y}]
        BY DEF IsSum
      <4>2. h[s \ {a}] = f[x] + h[(s \ {a}) \ {x}]
        BY <3>2, <4>1
      <4> QED BY <3>2, <4>2
    <3>4. h[s \ {a}] \in Nat /\ h[(s \ {x}) \ {a}] \in Nat
      BY <1>1, <1>2, <2>1
    <3> HIDE DEF k
    <3> QED BY <2>1, <3>1, <3>3, <3>4
  <2>4. CASE a \notin s
    <3>1. k[s] = h[s] /\ k[s \ {x}] = h[s \ {x}]
      BY <2>1, <2>4
    <3>2. s \in SUBSET (S \ {a})
      BY <2>4
    <3> QED BY <3>1, <3>2 DEF IsSum
  <2> QED BY <2>2, <2>3, <2>4
<1>6. IsSum(k, f, S)
  <2> HIDE DEF k
  <2> QED BY <1>3, <1>4, <1>5 DEF IsSum
<1> QED BY <1>6

\* A nonempty set of subsets of a finite set has a smallest member.
LEMMA Smallest ==
  ASSUME NEW S, IsFiniteSet(S), NEW B, B \subseteq SUBSET S, B # {}
  PROVE  \E s \in B : \A t \in SUBSET s : t # s => t \notin B
<1> DEFINE R == StrictSubsetOrdering(S)
<1>1. IsWellFoundedOn(R, SUBSET S)
  <2>1. IsWellFoundedOn(R, FiniteSubsetsOf(S))
    BY FS_StrictSubsetOrderingWellFounded
  <2>2. FiniteSubsetsOf(S) = SUBSET S
    BY FS_FiniteSubsetsOfFinite
  <2> HIDE DEF R
  <2> QED BY <2>1, <2>2
<1>2. \A t, s \in SUBSET S : t \subseteq s /\ t # s => <<t, s>> \in R
  BY DEF StrictSubsetOrdering
<1> HIDE DEF R
<1>3. PICK s \in B : \A t \in B : ~(<<t, s>> \in R)
  BY <1>1, WFMin
<1>4. ASSUME NEW t \in SUBSET s, t # s, t \in B PROVE FALSE
  BY <1>2, <1>3, <1>4
<1> QED BY <1>3, <1>4

\* Numbers over a finite set have a sum.
LEMMA SumExists ==
  ASSUME NEW S, IsFiniteSet(S), NEW f \in [S -> Nat]
  PROVE  \E h : IsSum(h, f, S)
<1> DEFINE Restr(s) == [x \in s |-> f[x]]
           B == {s \in SUBSET S : ~\E h : IsSum(h, Restr(s), s)}
<1>1. SUFFICES ASSUME S \in B PROVE FALSE
  <2>1. Restr(S) = f
    OBVIOUS
  <2> QED BY <1>1, <2>1
<1>2. PICK s \in B : \A t \in SUBSET s : t # s => t \notin B
  <2>1. B \subseteq SUBSET S /\ B # {}
    BY <1>1
  <2> HIDE DEF B
  <2> QED BY <2>1, Smallest
<1>3. CASE s = {}
  <2>1. [t \in {{}} |-> 0] \in [SUBSET s -> Nat]
    BY <1>3
  <2>2. IsSum([t \in {{}} |-> 0], Restr(s), s)
    BY <1>3, <2>1 DEF IsSum
  <2> QED BY <2>2
<1>4. CASE s # {}
  <2>1. PICK a \in s : TRUE
    BY <1>4
  <2>2. s \ {a} \in SUBSET S /\ s \ {a} \notin B
    BY <1>2, <2>1
  <2>3. PICK h : IsSum(h, Restr(s \ {a}), s \ {a})
    BY <2>2
  <2>4. Restr(s) \in [s -> Nat]
    OBVIOUS
  <2>5. IsSum(h, Restr(s), s \ {a})
    <3>1. \A t \in SUBSET (s \ {a}) : \A x \in t : Restr(s \ {a})[x] = Restr(s)[x]
      OBVIOUS
    <3> QED BY <2>3, <3>1 DEF IsSum
  <2>6. \E k : IsSum(k, Restr(s), s)
    <3> HIDE DEF Restr
    <3> QED BY <2>4, <2>5, SumExtends
  <2> QED BY <2>6
<1> QED BY <1>3, <1>4

\* The body of the fold that takes out elements by CHOOSE.
Folds(iter, f, S) ==
  iter = [s \in SUBSET S |->
            IF s = {} THEN 0
            ELSE f[CHOOSE x \in s : TRUE] + iter[s \ {CHOOSE x \in s : TRUE}]]

\* A sum is such a fold.
LEMMA SumFolds ==
  ASSUME NEW S, NEW f, NEW h, IsSum(h, f, S)
  PROVE  Folds(h, f, S)
<1>1. ASSUME NEW s \in SUBSET S
      PROVE  h[s] = IF s = {} THEN 0
                    ELSE f[CHOOSE x \in s : TRUE] + h[s \ {CHOOSE x \in s : TRUE}]
  <2>1. s # {} => (CHOOSE x \in s : TRUE) \in s
    OBVIOUS
  <2> QED BY <2>1 DEF IsSum
<1> QED BY <1>1 DEF Folds, IsSum

\* And every such fold is the sum.
LEMMA FoldIsSum ==
  ASSUME NEW S, IsFiniteSet(S), NEW f, NEW h, IsSum(h, f, S), NEW iter, Folds(iter, f, S)
  PROVE  iter[S] = h[S]
<1> DEFINE B == {s \in SUBSET S : iter[s] # h[s]}
<1>1. SUFFICES ASSUME B # {} PROVE FALSE
  OBVIOUS
<1>2. PICK s \in B : \A t \in SUBSET s : t # s => t \notin B
  <2>1. B \subseteq SUBSET S
    OBVIOUS
  <2> HIDE DEF B
  <2> QED BY <1>1, <2>1, Smallest
<1>3. iter[s] = IF s = {} THEN 0
                ELSE f[CHOOSE x \in s : TRUE] + iter[s \ {CHOOSE x \in s : TRUE}]
  BY DEF Folds
<1>4. CASE s = {}
  BY <1>3, <1>4 DEF IsSum
<1>5. CASE s # {}
  <2>1. PICK x : x = CHOOSE y \in s : TRUE
    OBVIOUS
  <2>2. x \in s
    BY <1>5, <2>1
  <2>3. iter[s \ {x}] = h[s \ {x}]
    BY <1>2, <2>2
  <2>4. iter[s] = f[x] + iter[s \ {x}]
    BY <1>3, <1>5, <2>1
  <2>5. h[s] = f[x] + h[s \ {x}]
    BY <2>2 DEF IsSum
  <2> QED BY <2>3, <2>4, <2>5
<1> QED BY <1>4, <1>5

\* A sum does not depend on what the numbers are counted by.
LEMMA SumByBijection ==
  ASSUME NEW S, NEW T, NEW b \in Bijection(S, T), NEW f, NEW g,
         \A x \in S : f[x] = g[b[x]], NEW h, IsSum(h, g, T)
  PROVE  \E k : IsSum(k, f, S) /\ k[S] = h[T]
<1> DEFINE Image(s) == {b[x] : x \in s}
           k == [s \in SUBSET S |-> h[Image(s)]]
<1>1. /\ b \in [S -> T] /\ \A x, y \in S : b[x] = b[y] => x = y
      /\ \A t \in T : \E x \in S : b[x] = t
  BY DEF Bijection, Injection, Surjection, IsInjective
<1>2. \A s \in SUBSET S : Image(s) \in SUBSET T
  BY <1>1
<1>3. k \in [SUBSET S -> Nat] /\ k[{}] = 0
  <2>1. \A s \in SUBSET S : h[Image(s)] \in Nat
    BY <1>2 DEF IsSum
  <2>2. Image({}) = {}
    OBVIOUS
  <2> HIDE DEF Image
  <2> QED BY <2>1, <2>2 DEF IsSum
<1>4. ASSUME NEW s \in SUBSET S, NEW x \in s
      PROVE  k[s] = f[x] + k[s \ {x}]
  <2>1. Image(s \ {x}) = Image(s) \ {b[x]} /\ b[x] \in Image(s)
    BY <1>1
  <2>2. s \ {x} \in SUBSET S /\ f[x] = g[b[x]]
    OBVIOUS
  <2> HIDE DEF Image
  <2>3. h[Image(s)] = g[b[x]] + h[Image(s) \ {b[x]}]
    BY <1>2, <2>1 DEF IsSum
  <2> QED BY <2>1, <2>2, <2>3
<1>5. k[S] = h[T]
  <2>1. Image(S) = T
    BY <1>1
  <2> HIDE DEF Image
  <2> QED BY <2>1
<1>6. IsSum(k, f, S)
  <2> HIDE DEF k
  <2> QED BY <1>3, <1>4 DEF IsSum
<1> QED BY <1>5, <1>6

-----------------------------------------------------------------------------
(* The inventory. *)

\* An entry of the catalogue is stored as a document.
LEMMA EntryIsDocument ==
  ASSUME NEW name \in Names
  PROVE  EntityFromModel(PartsBootstrap[name]) \in Document
<1>1. ASSUME NEW n \in Names, NEW c \in Categories, NEW l \in Lands, NEW t \in SUBSET Tags,
             NEW p \in Nat, NEW s \in Nat
      PROVE  EntityFromModel(Entry(n, c, l, t, p, s)) \in Document
  <2>1. [land |-> l, spelling |-> "as_seeded"] \in Countries
    BY DEF Countries
  <2>2. normalizeCountry([land |-> l, spelling |-> "as_seeded"]) \in Countries
    BY DEF Countries, normalizeCountry
  <2> QED BY <2>1, <2>2 DEF EntityFromModel, Entry, Document
<1>2. /\ "engine" \in Names /\ "fuel" \in Names /\ "porthole" \in Names
      /\ "usa" \in Lands /\ "germany" \in Lands /\ "japan" \in Lands
      /\ 1 \in Categories /\ 2 \in Categories /\ 3 \in Categories
  BY DEF Names, Lands, Categories
<1>3. /\ {"engine", "mk1"} \in SUBSET Tags
      /\ {"fuel", "cell"} \in SUBSET Tags
      /\ {"porthole", "glass"} \in SUBSET Tags
  BY DEF Tags
<1>4. /\ 12500050 \in Nat /\ 780000 \in Nat /\ 1520000 \in Nat
      /\ 10 \in Nat /\ 120 \in Nat /\ 35 \in Nat
  BY SMT
<1>5. name = "engine" \/ name = "fuel" \/ name = "porthole"
  BY DEF Names
<1>6. CASE name = "engine"
  <2>1. PartsBootstrap[name] = Entry("engine", 1, "usa", {"engine", "mk1"}, 12500050, 10)
    BY <1>6, SMT DEF PartsBootstrap
  <2> QED BY <1>1, <1>2, <1>3, <1>4, <2>1, SMT
<1>7. CASE name = "fuel"
  <2>1. PartsBootstrap[name] = Entry("fuel", 2, "germany", {"fuel", "cell"}, 780000, 120)
    BY <1>7, SMT DEF PartsBootstrap
  <2> QED BY <1>1, <1>2, <1>3, <1>4, <2>1, SMT
<1>8. CASE name = "porthole"
  <2>1. PartsBootstrap[name]
          = Entry("porthole", 3, "japan", {"porthole", "glass"}, 1520000, 35)
    BY <1>8, SMT DEF PartsBootstrap
  <2> QED BY <1>1, <1>2, <1>3, <1>4, <2>1, SMT
<1> QED BY <1>5, <1>6, <1>7, <1>8

\* What bootstrap stores, whole or in part.
LEMMA StoreKeeps ==
  ASSUME InvTypeOK, NEW seeds \in SUBSET Names, NEW draw \in Draws(seeds),
         Store(Inserted(draw))
  PROVE  /\ DOMAIN parts \subseteq DOMAIN parts' /\ DOMAIN parts' \subseteq PartIds
         /\ \A id \in DOMAIN parts' : parts'[id] \in Document
<1>1. PICK ids \in SUBSET (PartIds \ DOMAIN parts) : draw \in [ids -> seeds]
  BY DEF Draws, Bijection, Injection
<1>2. /\ DOMAIN Inserted(draw) = ids
      /\ \A id \in ids : Inserted(draw)[id] \in Document
  BY <1>1, EntryIsDocument DEF Inserted
<1> HIDE DEF Document
<1> QED BY <1>1, <1>2 DEF Store, InvTypeOK

\* The collection keeps its type, and no part ever leaves it.
LEMMA InvNextKeeps ==
  ASSUME InvTypeOK, InvNext
  PROVE  InvTypeOK' /\ DOMAIN parts \subseteq DOMAIN parts'
<1>1. CASE Boot
  <2>1. Seeds \in SUBSET Names
    BY SeedsAreKnown
  <2> QED BY <1>1, <2>1, StoreKeeps DEF Boot, InvTypeOK
<1>2. CASE BootFails
  <2>1. \A some \in SUBSET Seeds : some \in SUBSET Names
    BY SeedsAreKnown
  <2> QED BY <1>2, <2>1, StoreKeeps DEF BootFails, InvTypeOK
<1>3. CASE Stop
  BY <1>3 DEF Stop, InvTypeOK
<1>4. CASE Edited
  <2>1. PICK id \in DOMAIN parts :
          \/ parts' = [parts EXCEPT ![id] = [parts[id] EXCEPT !.stock = 0]]
          \/ parts' = [parts EXCEPT ![id] = [parts[id] EXCEPT !.price = 2 * parts[id].price]]
    BY <1>4 DEF Edited
  <2>2. parts[id] \in Document
    BY DEF InvTypeOK
  <2>3. /\ [parts[id] EXCEPT !.stock = 0] \in Document
        /\ [parts[id] EXCEPT !.price = 2 * parts[id].price] \in Document
    BY <2>2 DEF Document
  <2>4. /\ DOMAIN parts' = DOMAIN parts
        /\ \A x \in DOMAIN parts : parts'[x] \in Document
    BY <2>1, <2>3 DEF InvTypeOK
  <2>5. serving' = serving /\ edits' \in 0 .. MaxEdits
    BY <1>4, EditsAreBounded DEF Edited, InvTypeOK
  <2> QED BY <2>4, <2>5 DEF InvTypeOK
<1> QED BY <1>1, <1>2, <1>3, <1>4 DEF InvNext

\* Asked for some ids, the inventory lists parts with these ids, no two with
\* the same.
LEMMA ListedByIds ==
  ASSUME NEW ids, ids # {}
  PROVE  /\ \A p \in ListParts(parts, IdFilter(ids)) : p.id \in ids \cap DOMAIN parts
         /\ \A p, q \in ListParts(parts, IdFilter(ids)) : p.id = q.id => p = q
<1> DEFINE f == PartsFilterToModel(IdFilter(ids))
<1>1. Wanted(f)["ids"] = ids
  <2>1. /\ IdFilter(ids)["ids"] = ids /\ DOMAIN IdFilter(ids) = Fields
    BY DEF IdFilter, NoFilter, Fields
  <2>2. f["ids"] = ids /\ DOMAIN f = Fields
    BY <2>1 DEF PartsFilterToModel, Fields
  <2> HIDE DEF f
  <2> QED BY <2>2 DEF Wanted, Fields
<1>2. \A id, e : Offers(id, e)["ids"] = {id}
  BY DEF Offers
<1>3. \A id \in Found(parts, IdFilter(ids)) : id \in DOMAIN parts /\ id \in ids
  BY <1>1, <1>2 DEF Found, BuildMongoFilter, Fields
<1>4. \A id, p : PartFromModel(id, p).id = id
  BY DEF PartFromModel
<1>5. ASSUME NEW p \in ListParts(parts, IdFilter(ids))
      PROVE  /\ p.id \in Found(parts, IdFilter(ids))
             /\ p = PartFromModel(p.id, EntityToModel(parts[p.id]))
  BY <1>4 DEF ListParts
<1> QED BY <1>3, <1>5

-----------------------------------------------------------------------------
(* Queries. *)

\* What a query asks of a document for one field of a filter with these values.
Values(k, v) ==
  IF k = "categories" THEN {categoryToModel(c) : c \in v}
  ELSE IF k = "countries" THEN {normalizeCountry(c) : c \in v} ELSE v

\* A document satisfies one field of a filter.
Admits(k, v, id, e) ==
  Values(k, v) # {} => Values(k, v) \cap Offers(id, e)[k] # {}

\* A filter as a client sends it, field by field.
IsFilter(f) == f = [k \in Fields |-> f[k]]

\* A query looks at each field of the filter by itself.
LEMMA WantedByField ==
  ASSUME NEW f, IsFilter(f), NEW k \in Fields
  PROVE  Wanted(PartsFilterToModel(f))[k] = Values(k, f[k])
<1>1. DOMAIN f = Fields
  BY DEF IsFilter
<1> DEFINE g == PartsFilterToModel(f)
<1>2. /\ DOMAIN g = Fields
      /\ g["categories"] = {categoryToModel(c) : c \in f["categories"]}
      /\ k # "categories" => g[k] = f[k]
  BY <1>1 DEF PartsFilterToModel, Fields
<1> HIDE DEF g
<1>3. /\ Wanted(g)["countries"] = {normalizeCountry(c) : c \in g["countries"]}
      /\ k # "countries" => Wanted(g)[k] = g[k]
  BY <1>2 DEF Wanted, Fields
<1>4. CASE k = "categories"
  BY <1>2, <1>3, <1>4 DEF Values, g
<1>5. CASE k = "countries"
  <2>1. g["countries"] = f["countries"]
    BY <1>2, <1>5
  <2> QED BY <1>3, <1>5, <2>1 DEF Values, g
<1>6. CASE k \notin {"categories", "countries"}
  BY <1>2, <1>3, <1>6 DEF Values, g
<1> QED BY <1>4, <1>5, <1>6

\* What is found satisfies every field.
LEMMA FoundByFields ==
  ASSUME NEW coll, NEW f, IsFilter(f), NEW id
  PROVE  id \in Found(coll, f) <=>
           id \in DOMAIN coll /\ \A k \in Fields : Admits(k, f[k], id, coll[id])
BY WantedByField DEF Found, BuildMongoFilter, Admits

\* A part in an answer is the document with its id, as it is shown.
LEMMA ListedIsFound ==
  ASSUME NEW coll, NEW f, NEW p
  PROVE  p \in ListParts(coll, f) <=>
           p.id \in Found(coll, f) /\ p = PartFromModel(p.id, EntityToModel(coll[p.id]))
<1>1. \A id, m : PartFromModel(id, m).id = id
  BY DEF PartFromModel
<1> QED BY <1>1 DEF ListParts

\* An empty field of a filter admits every document.
LEMMA EmptyAdmits ==
  ASSUME NEW k \in Fields, NEW id, NEW e
  PROVE  Admits(k, {}, id, e)
BY DEF Admits, Values

\* The values that the filter by attribute k of part p has in field k.
Attribute(p, k) == FilterBy(p, k)[k]

\* Such a filter has values in this field only.
LEMMA FilterByIs ==
  ASSUME NEW p, NEW k \in Fields
  PROVE  /\ IsFilter(FilterBy(p, k))
         /\ \A j \in Fields \ {k} : FilterBy(p, k)[j] = {}
         /\ k = "ids" => Attribute(p, k) = {p.id}
         /\ k = "names" => Attribute(p, k) = {p.name}
         /\ k = "categories" => Attribute(p, k) = {p.category}
         /\ k = "countries" => Attribute(p, k) = {p.country}
         /\ k = "tags" => Attribute(p, k) = p.tags
BY DEF FilterBy, NoFilter, IsFilter, Fields, Attribute

\* A filter with values in field k only, and a filter extended by another.
OnlyField(f, k) == IsFilter(f) /\ \A i \in Fields \ {k} : f[i] = {}
Joined(h, f, g, k) == h = [f EXCEPT ![k] = g[k]]

\* Two fields of a filter restrict one after the other, in any collection and
\* with any values.
LEMMA FieldsRestrict ==
  ASSUME NEW coll, NEW f, NEW g, NEW h, NEW j \in Fields, NEW k \in Fields, j # k,
         OnlyField(f, j), OnlyField(g, k), Joined(h, f, g, k)
  PROVE  ListParts(coll, h) = ListParts(coll, f) \cap ListParts(coll, g)
<1>1. /\ IsFilter(h) /\ h[j] = f[j] /\ h[k] = g[k]
      /\ \A i \in Fields \ {j, k} : h[i] = {}
  <2>1. DOMAIN f = Fields
    BY DEF OnlyField, IsFilter
  <2> QED BY <2>1 DEF OnlyField, IsFilter, Joined
<1>2. ASSUME NEW id
      PROVE  id \in Found(coll, h) <=> id \in Found(coll, f) /\ id \in Found(coll, g)
  <2>1. \A i \in Fields : Admits(i, {}, id, coll[id])
    BY EmptyAdmits
  <2>2. \A i \in Fields : Admits(i, h[i], id, coll[id])
                            <=> Admits(i, f[i], id, coll[id]) /\ Admits(i, g[i], id, coll[id])
    BY <1>1, <2>1 DEF OnlyField
  <2> QED BY <1>1, <2>2, FoundByFields DEF OnlyField
<1> QED BY <1>2, ListedIsFound

\* The parts in an answer have prices.
LEMMA ListedHavePrices ==
  ASSUME InvTypeOK, NEW f, NEW p \in ListParts(parts, f)
  PROVE  p.price \in Nat
<1>1. p.id \in DOMAIN parts /\ p = PartFromModel(p.id, EntityToModel(parts[p.id]))
  BY ListedIsFound DEF Found
<1>2. parts[p.id] \in Document
  BY <1>1 DEF InvTypeOK
<1> QED BY <1>1, <1>2 DEF PartFromModel, EntityToModel, Document

\* In every document the normalised country is the country normalised.
Normalised ==
  \A id \in DOMAIN parts :
    parts[id].country_norm = normalizeCountry(parts[id].country)

\* A document is found by each of its attributes as a client was shown them,
\* and by its country in whatever spelling.
LEMMA ShownIsFound ==
  ASSUME InvTypeOK, Normalised, NEW p \in ListParts(parts, NoFilter), NEW k \in Fields
  PROVE  /\ p = Part(parts, p.id)
         /\ p \in ListParts(parts, FilterBy(p, k))
         /\ p \in ListParts(parts, Respelled(FilterBy(p, k)))
<1> DEFINE id == p.id
           e == parts[p.id]
           f == FilterBy(p, k)
<1>1. id \in DOMAIN parts /\ p = PartFromModel(id, EntityToModel(e))
  BY ListedIsFound DEF Found
<1>2. e \in Document /\ e.country_norm = normalizeCountry(e.country)
  BY <1>1 DEF InvTypeOK, Normalised
<1>3. /\ p.name = e.name /\ p.category = e.category /\ p.country = e.country
      /\ p.tags = e.tags
  BY <1>1, <1>2 DEF PartFromModel, EntityToModel, Document, categoryFromModel
<1>4. ASSUME NEW v,
             \/ v = Attribute(p, k)
             \/ k = "countries" /\ v = {[e.country EXCEPT !.spelling = "other"]}
      PROVE  Admits(k, v, id, e)
  <2>1. CASE k = "ids"
    BY <1>4, <2>1, FilterByIs DEF Admits, Values, Offers
  <2>2. CASE k = "names"
    BY <1>3, <1>4, <2>2, FilterByIs DEF Admits, Values, Offers
  <2>3. CASE k = "categories"
    <3>1. v = {e.category} /\ categoryToModel(e.category) = e.category
      BY <1>2, <1>3, <1>4, <2>3, FilterByIs DEF categoryToModel, Document
    <3> QED BY <2>3, <3>1 DEF Admits, Values, Offers
  <2>4. CASE k = "countries"
    <3>1. \E c : v = {c} /\ normalizeCountry(c) = e.country_norm
      <4>1. CASE v = Attribute(p, k)
        BY <1>2, <1>3, <2>4, <4>1, FilterByIs
      <4>2. CASE v = {[e.country EXCEPT !.spelling = "other"]}
        <5>1. e.country \in Countries
          BY <1>2 DEF Document
        <5>2. normalizeCountry([e.country EXCEPT !.spelling = "other"])
                = normalizeCountry(e.country)
          BY <5>1 DEF normalizeCountry, Countries
        <5> QED BY <1>2, <4>2, <5>2
      <4> QED BY <1>4, <4>1, <4>2
    <3>2. PICK c : v = {c} /\ normalizeCountry(c) = e.country_norm
      BY <3>1
    <3> QED BY <2>4, <3>2 DEF Admits, Values, Offers
  <2>5. CASE k = "tags"
    BY <1>3, <1>4, <2>5, FilterByIs DEF Admits, Values, Offers
  <2> QED BY <2>1, <2>2, <2>3, <2>4, <2>5 DEF Fields
<1>5. /\ IsFilter(f) /\ f[k] = Attribute(p, k)
      /\ \A j \in Fields \ {k} : f[j] = {}
  BY FilterByIs DEF Attribute
<1>6. /\ IsFilter(Respelled(f))
      /\ \A j \in Fields \ {"countries"} : Respelled(f)[j] = f[j]
      /\ Respelled(f)["countries"] = {[c EXCEPT !.spelling = "other"] : c \in f["countries"]}
  <2>1. DOMAIN f = Fields
    BY <1>5 DEF IsFilter
  <2> HIDE DEF f
  <2> QED BY <2>1 DEF Respelled, IsFilter, Fields
<1>7. /\ \A j \in Fields \ {k} : Respelled(f)[j] = {}
      /\ k # "countries" => Respelled(f)[k] = Attribute(p, k)
      /\ k = "countries" => Respelled(f)[k] = {[e.country EXCEPT !.spelling = "other"]}
  <2> HIDE DEF f, id, e
  <2>1. k = "countries" => f["countries"] = {e.country}
    BY <1>3, <1>5, FilterByIs
  <2> QED BY <1>5, <1>6, <2>1 DEF Fields
<1> HIDE DEF f
<1>8. \A j \in Fields : Admits(j, f[j], id, e)
  BY <1>4, <1>5, EmptyAdmits
<1>9. \A j \in Fields : Admits(j, Respelled(f)[j], id, e)
  <2>1. ASSUME NEW j \in Fields \ {k} PROVE Admits(j, Respelled(f)[j], id, e)
    BY <1>7, EmptyAdmits
  <2>2. Admits(k, Respelled(f)[k], id, e)
    BY <1>4, <1>7
  <2> QED BY <2>1, <2>2
<1>10. id \in Found(parts, f) /\ id \in Found(parts, Respelled(f))
  BY <1>1, <1>5, <1>6, <1>8, <1>9, FoundByFields
<1>11. p \in ListParts(parts, f) /\ p \in ListParts(parts, Respelled(f))
  BY <1>1, <1>10, ListedIsFound
<1>12. p = Part(parts, p.id)
  BY <1>1 DEF Part
<1> QED BY <1>11, <1>12 DEF f

\* An entry of the catalogue is stored with its country normalised.
LEMMA EntryIsNormalised ==
  ASSUME NEW m
  PROVE  EntityFromModel(m).country_norm = normalizeCountry(EntityFromModel(m).country)
BY DEF EntityFromModel

\* Whatever happens to the collection, a restart, a failed bootstrap or an edit
\* by hand, its countries stay normalised.
LEMMA NormalisedKeeps == InvTypeOK /\ Normalised /\ InvNext => Normalised'
<1> SUFFICES ASSUME InvTypeOK, Normalised, InvNext PROVE Normalised'
  OBVIOUS
<1>1. ASSUME NEW seeds, NEW draw \in Draws(seeds), Store(Inserted(draw))
      PROVE  Normalised'
  <2>1. /\ DOMAIN Inserted(draw) = DOMAIN draw
        /\ \A id \in DOMAIN draw :
             Inserted(draw)[id].country_norm = normalizeCountry(Inserted(draw)[id].country)
    BY EntryIsNormalised DEF Inserted
  <2> QED BY <1>1, <2>1 DEF Store, Normalised
<1>2. CASE Boot
  BY <1>1, <1>2 DEF Boot
<1>3. CASE BootFails
  BY <1>1, <1>3 DEF BootFails
<1>4. CASE Stop
  BY <1>4 DEF Stop, Normalised
<1>5. CASE Edited
  <2>1. PICK id \in DOMAIN parts :
          \/ parts' = [parts EXCEPT ![id] = [parts[id] EXCEPT !.stock = 0]]
          \/ parts' = [parts EXCEPT ![id] = [parts[id] EXCEPT !.price = 2 * parts[id].price]]
    BY <1>5 DEF Edited
  <2>2. parts[id] \in Document
    BY DEF InvTypeOK
  <2>3. /\ DOMAIN parts' = DOMAIN parts
        /\ \A x \in DOMAIN parts : /\ parts'[x].country = parts[x].country
                                   /\ parts'[x].country_norm = parts[x].country_norm
    BY <2>1, <2>2 DEF Document
  <2> QED BY <2>3 DEF Normalised
<1> QED BY <1>2, <1>3, <1>4, <1>5 DEF InvNext

-----------------------------------------------------------------------------
(* The invariant. *)

Lists == Seq(PartIds \cup {Foreign})
Codes == {0, 201, 404, 422, 500, 502}

\* The types of the variables of the requests.
CreateTypeOK ==
  /\ pc \in [Requests -> {"idle", "list", "decide", "done"}]
  /\ params \in [Requests -> [user : Users, partIDs : Lists]]
  /\ found = [r \in Requests |-> found[r]]
  /\ orders = [r \in Requests |-> orders[r]]
  /\ reply = [r \in Requests |-> reply[r]]
  /\ \A r \in Requests : reply[r].code \in Codes

\* The answer of the inventory is an answer to the list of the request, and
\* what it names is still in the collection.
FoundIsAsked(r) ==
  /\ \A p \in found[r] :
       p.id \in Asked(r) /\ p.id \in DOMAIN parts /\ p.price \in Nat
  /\ \A p, q \in found[r] : p.id = q.id => p = q

\* A request that has not been decided has no effect yet.
NotYet(r) ==
  /\ pc[r] = "idle" => found[r] = {}
  /\ pc[r] # "done" => orders[r] = NoRow /\ reply[r] = NoReply
  /\ pc[r] \in {"list", "decide"} => Valid(params[r])

\* A row was written after both comparisons, with what they were made on.
RowIsChecked(r) ==
  orders[r] # NoRow =>
    /\ AllFound(r)
    /\ \A p \in found[r] : InStock(p)
    /\ orders[r] = [partIDs |-> params[r].partIDs, total |-> TotalPrice(found[r])]

\* The answer agrees with the comparison and with the row.
ReplyIsDecision(r) ==
  /\ reply[r].code = 404 => ~AllFound(r)
  /\ reply[r].code = 201 => orders[r] # NoRow /\ orders[r].total = reply[r].total

RequestSound(r) ==
  FoundIsAsked(r) /\ NotYet(r) /\ RowIsChecked(r) /\ ReplyIsDecision(r)

\* The inductive invariant.
IInv ==
  /\ InvTypeOK
  /\ Normalised
  /\ CreateTypeOK
  /\ \A r \in Requests : RequestSound(r)

\* The invariant holds at the start.
LEMMA InitInv == Init => IInv
<1> SUFFICES ASSUME Init PROVE IInv
  OBVIOUS
<1>1. InvTypeOK
  <2>1. DOMAIN parts = {} /\ serving = FALSE /\ edits = 0
    BY DEF Init, InvInit
  <2>2. serving \in BOOLEAN
    BY <2>1
  <2>3. edits \in 0 .. MaxEdits
    BY <2>1, EditsAreBounded
  <2> QED BY <2>1, <2>2, <2>3 DEF InvTypeOK
<1>2. NoParams \in [user : Users, partIDs : Lists]
  BY DEF NoParams, Users, Lists
<1>3. CreateTypeOK
  BY <1>2 DEF Init, CreateTypeOK, NoReply, Codes
<1>4. ASSUME NEW r \in Requests
      PROVE  RequestSound(r)
  BY DEF Init, RequestSound, FoundIsAsked, NotYet, RowIsChecked, ReplyIsDecision, NoReply
<1>5. Normalised
  BY DEF Init, InvInit, Normalised
<1> QED BY <1>1, <1>3, <1>4, <1>5 DEF IInv

\* A request whose own variables stay keeps its part of the invariant,
\* whatever happens in the inventory.
LEMMA OthersKeep ==
  ASSUME NEW r, RequestSound(r), DOMAIN parts \subseteq DOMAIN parts',
         pc'[r] = pc[r], params'[r] = params[r], found'[r] = found[r],
         orders'[r] = orders[r], reply'[r] = reply[r]
  PROVE  RequestSound(r)'
<1>1. FoundIsAsked(r)'
  BY DEF RequestSound, FoundIsAsked, Asked
<1>2. NotYet(r)'
  BY DEF RequestSound, NotYet
<1>3. RowIsChecked(r)'
  BY DEF RequestSound, RowIsChecked, AllFound
<1>4. ReplyIsDecision(r)'
  BY DEF RequestSound, ReplyIsDecision, AllFound
<1> QED BY <1>1, <1>2, <1>3, <1>4 DEF RequestSound

\* A request that is refused keeps the invariant: 404 only after the lengths
\* have differed.
LEMMA RefusedKeeps ==
  ASSUME IInv, NEW r \in Requests, NEW err, pc[r] \in {"list", "decide"},
         Refuse(r, err), invVars' = invVars, params' = params, found' = found,
         err # "part_missing" \/ ~AllFound(r),
         orders' = orders \/ (Accepted(r) /\ Insert(r))
  PROVE  CreateTypeOK' /\ RequestSound(r)'
<1>1. StatusCode(err) \in {404, 422, 500, 502}
      /\ (StatusCode(err) = 404 => err = "part_missing")
  BY DEF StatusCode
<1>2. /\ pc'[r] = "done" /\ reply'[r].code = StatusCode(err)
      /\ \A q \in Requests \ {r} : reply'[q] = reply[q]
  BY DEF IInv, CreateTypeOK, Refuse, Answer, Error
<1>3. CreateTypeOK'
  <2>1. /\ pc' \in [Requests -> {"idle", "list", "decide", "done"}]
        /\ reply' = [q \in Requests |-> reply'[q]]
    BY DEF IInv, CreateTypeOK, Refuse, Answer
  <2>2. orders' = [q \in Requests |-> orders'[q]]
    BY DEF IInv, CreateTypeOK, Insert
  <2>3. \A q \in Requests : reply'[q].code \in Codes
    BY <1>1, <1>2 DEF IInv, CreateTypeOK, Codes
  <2> QED BY <2>1, <2>2, <2>3 DEF IInv, CreateTypeOK
<1>4. FoundIsAsked(r)'
  BY DEF IInv, RequestSound, FoundIsAsked, Asked, invVars
<1>5. NotYet(r)'
  BY <1>2 DEF NotYet
<1>6. RowIsChecked(r)'
  <2>1. CASE orders' = orders
    BY <2>1 DEF IInv, RequestSound, RowIsChecked, AllFound
  <2>2. CASE Accepted(r) /\ Insert(r)
    BY <2>2 DEF IInv, CreateTypeOK, RowIsChecked, AllFound, Accepted, Insert
  <2> QED BY <2>1, <2>2
<1>7. ReplyIsDecision(r)'
  BY <1>1, <1>2 DEF ReplyIsDecision, AllFound
<1> QED BY <1>3, <1>4, <1>5, <1>6, <1>7 DEF RequestSound

\* Every step of one request keeps what the invariant says of it.
LEMMA RequestKeeps ==
  ASSUME IInv, NEW r \in Requests,
         \/ Begin(r) \/ ListsParts(r) \/ ListPartsFails(r)
         \/ PartsMissing(r) \/ PartsOutOfStock(r)
         \/ Inserts(r) \/ InsertFails(r)
  PROVE  CreateTypeOK' /\ RequestSound(r)'
<1>1. CASE Begin(r)
  <2>1. PICK user \in Users, partIDs \in CallerLists :
          LET p == [user |-> user, partIDs |-> partIDs]
          IN  /\ params' = [params EXCEPT ![r] = p]
              /\ IF Valid(p)
                   THEN pc' = [pc EXCEPT ![r] = "list"] /\ UNCHANGED reply
                   ELSE Refuse(r, "validation")
    BY <1>1 DEF Begin
  <2> DEFINE p == [user |-> user, partIDs |-> partIDs]
  <2>2. partIDs \in Lists
    <3>1. PICK m \in 0 .. MaxParts : partIDs \in [1 .. m -> DOMAIN parts \cup {Foreign}]
      BY MaxPartsIsNat DEF CallerLists, BoundedSeq, SeqOf
    <3>2. partIDs \in [1 .. m -> PartIds \cup {Foreign}] /\ m \in Nat
      BY <3>1, MaxPartsIsNat DEF IInv, InvTypeOK
    <3> QED BY <3>2 DEF Lists
  <2>3. /\ pc[r] = "idle" /\ UNCHANGED <<invVars, found, orders>>
        /\ found[r] = {} /\ orders[r] = NoRow /\ reply[r] = NoReply
    BY <1>1 DEF Begin, IInv, RequestSound, NotYet
  <2>4. params' \in [Requests -> [user : Users, partIDs : Lists]] /\ params'[r] = p
    BY <2>1, <2>2 DEF IInv, CreateTypeOK
  <2>5. CASE Valid(p)
    <3>1. pc' = [pc EXCEPT ![r] = "list"] /\ UNCHANGED reply
      BY <2>1, <2>5
    <3>2. CreateTypeOK'
      BY <2>3, <2>4, <3>1 DEF IInv, CreateTypeOK
    <3>3. RequestSound(r)'
      BY <2>3, <2>4, <2>5, <3>1 DEF IInv, CreateTypeOK, RequestSound, FoundIsAsked, NotYet,
         RowIsChecked, ReplyIsDecision, NoReply
    <3> QED BY <3>2, <3>3
  <2>6. CASE ~Valid(p)
    <3>1. /\ pc' = [pc EXCEPT ![r] = "done"]
          /\ reply' = [reply EXCEPT ![r] = [code |-> 422, total |-> 0]]
      BY <2>1, <2>6 DEF Refuse, Answer, StatusCode, Error
    <3>2. /\ pc' \in [Requests -> {"idle", "list", "decide", "done"}]
          /\ reply' = [q \in Requests |-> reply'[q]]
          /\ \A q \in Requests : reply'[q].code \in Codes
          /\ pc'[r] = "done" /\ reply'[r].code = 422
      BY <3>1 DEF IInv, CreateTypeOK, Codes
    <3>3. CreateTypeOK'
      BY <2>3, <2>4, <3>2 DEF IInv, CreateTypeOK
    <3>4. RequestSound(r)'
      BY <2>3, <3>2 DEF RequestSound, FoundIsAsked, NotYet, RowIsChecked, ReplyIsDecision
    <3> QED BY <3>3, <3>4
  <2> QED BY <2>5, <2>6
<1>2. CASE ListsParts(r)
  <2> DEFINE answer == ListParts(parts, IdFilter(Asked(r)))
  <2>1. /\ pc[r] = "list" /\ UNCHANGED <<invVars, params, orders, reply>>
        /\ found' = [found EXCEPT ![r] = {partToModel(p) : p \in answer}]
        /\ pc' = [pc EXCEPT ![r] = "decide"]
    BY <1>2 DEF ListsParts
  <2>2. CreateTypeOK'
    BY <2>1 DEF IInv, CreateTypeOK
  <2>3. found'[r] = {partToModel(p) : p \in answer} /\ pc'[r] = "decide"
    BY <2>1 DEF IInv, CreateTypeOK
  <2>4. Asked(r) # {}
    <3>1. params[r].partIDs \in Lists /\ params[r].partIDs # << >>
      BY <2>1 DEF IInv, CreateTypeOK, RequestSound, NotYet, Valid
    <3>2. 1 \in DOMAIN params[r].partIDs
      BY <3>1 DEF Lists
    <3> QED BY <3>2 DEF Asked, ToSet
  <2>5. /\ \A p \in answer : p.id \in Asked(r) \cap DOMAIN parts
        /\ \A p, q \in answer : p.id = q.id => p = q
        /\ \A p \in answer : p.price \in Nat
    BY <2>4, ListedByIds, ListedHavePrices DEF IInv
  <2>6. FoundIsAsked(r)'
    <3> HIDE DEF answer
    <3>1. Asked(r)' = Asked(r) /\ parts' = parts
      BY <2>1 DEF Asked, invVars
    <3>2. \A p : partToModel(p).id = p.id /\ partToModel(p).price = p.price
      BY DEF partToModel
    <3> QED BY <2>3, <2>5, <3>1, <3>2 DEF FoundIsAsked
  <2>7. /\ orders'[r] = NoRow /\ reply'[r] = NoReply
        /\ Valid(params[r])
    BY <2>1 DEF IInv, RequestSound, NotYet
  <2>8. NotYet(r)' /\ RowIsChecked(r)' /\ ReplyIsDecision(r)'
    BY <2>1, <2>3, <2>7 DEF NotYet, RowIsChecked, ReplyIsDecision, NoReply
  <2> QED BY <2>2, <2>6, <2>8 DEF RequestSound
<1>3. CASE ListPartsFails(r)
  <2>1. /\ pc[r] = "list" /\ Refuse(r, "bad_gateway")
        /\ invVars' = invVars /\ params' = params /\ found' = found /\ orders' = orders
    BY <1>3 DEF ListPartsFails
  <2> QED BY <2>1, RefusedKeeps
<1>4. CASE PartsMissing(r)
  <2>1. /\ pc[r] = "decide" /\ Refuse(r, "part_missing")
        /\ invVars' = invVars /\ params' = params /\ found' = found /\ orders' = orders
        /\ ~AllFound(r)
    BY <1>4 DEF PartsMissing
  <2> QED BY <2>1, RefusedKeeps
<1>5. CASE PartsOutOfStock(r)
  <2>1. /\ pc[r] = "decide" /\ Refuse(r, "out_of_stock")
        /\ invVars' = invVars /\ params' = params /\ found' = found /\ orders' = orders
    BY <1>5 DEF PartsOutOfStock
  <2> QED BY <2>1, RefusedKeeps
<1>6. CASE InsertFails(r)
  <2>1. /\ pc[r] = "decide" /\ Refuse(r, "db")
        /\ invVars' = invVars /\ params' = params /\ found' = found
        /\ orders' = orders \/ (Accepted(r) /\ Insert(r))
    BY <1>6 DEF InsertFails, Accepted
  <2> QED BY <2>1, RefusedKeeps
<1>7. CASE Inserts(r)
  <2>1. /\ Accepted(r) /\ UNCHANGED <<invVars, params, found>>
        /\ orders' = [orders EXCEPT ![r] = [partIDs |-> params[r].partIDs,
                                            total |-> TotalPrice(found[r])]]
        /\ pc' = [pc EXCEPT ![r] = "done"]
        /\ reply' = [reply EXCEPT ![r] = [code |-> 201, total |-> TotalPrice(found[r])]]
    BY <1>7 DEF Inserts, Insert, Answer
  <2>2. /\ orders'[r] = [partIDs |-> params[r].partIDs, total |-> TotalPrice(found[r])]
        /\ reply'[r] = [code |-> 201, total |-> TotalPrice(found[r])]
        /\ pc'[r] = "done"
    BY <2>1 DEF IInv, CreateTypeOK
  <2>3. CreateTypeOK'
    <3>1. \A q \in Requests : reply'[q].code \in Codes
      BY <2>1 DEF IInv, CreateTypeOK, Codes
    <3> QED BY <2>1, <3>1 DEF IInv, CreateTypeOK
  <2>4. FoundIsAsked(r)'
    BY <2>1 DEF IInv, RequestSound, FoundIsAsked, Asked, invVars
  <2>5. NotYet(r)'
    BY <2>2 DEF NotYet
  <2>6. RowIsChecked(r)'
    BY <2>1, <2>2 DEF RowIsChecked, AllFound, Accepted
  <2>7. ReplyIsDecision(r)'
    <3>1. params[r].partIDs # << >>
      BY <2>1 DEF IInv, RequestSound, NotYet, Valid, Accepted
    <3>2. orders'[r] # NoRow
      BY <2>2, <3>1 DEF NoRow
    <3> QED BY <2>2, <3>2 DEF ReplyIsDecision
  <2> QED BY <2>3, <2>4, <2>5, <2>6, <2>7 DEF RequestSound
<1> QED BY <1>1, <1>2, <1>3, <1>4, <1>5, <1>6, <1>7

\* The invariant is inductive.
LEMMA NextInv == IInv /\ [Next]_vars => IInv'
<1> SUFFICES ASSUME IInv, [Next]_vars PROVE IInv'
  OBVIOUS
<1>1. CASE InvNext /\ UNCHANGED createVars
  <2>1. InvTypeOK' /\ Normalised' /\ DOMAIN parts \subseteq DOMAIN parts'
    BY <1>1, InvNextKeeps, NormalisedKeeps DEF IInv
  <2>2. CreateTypeOK'
    BY <1>1 DEF IInv, CreateTypeOK, createVars
  <2>3. ASSUME NEW r \in Requests PROVE RequestSound(r)'
    BY <1>1, <2>1, OthersKeep DEF IInv, createVars
  <2> QED BY <2>1, <2>2, <2>3 DEF IInv
<1>2. CASE \E r \in Requests :
             \/ Begin(r) \/ ListsParts(r) \/ ListPartsFails(r)
             \/ PartsMissing(r) \/ PartsOutOfStock(r)
             \/ Inserts(r) \/ InsertFails(r)
  <2>1. PICK r \in Requests :
             \/ Begin(r) \/ ListsParts(r) \/ ListPartsFails(r)
             \/ PartsMissing(r) \/ PartsOutOfStock(r)
             \/ Inserts(r) \/ InsertFails(r)
    BY <1>2
  <2>2. CreateTypeOK' /\ RequestSound(r)'
    BY <2>1, RequestKeeps
  <2>3. InvTypeOK' /\ Normalised' /\ parts' = parts
    BY <2>1 DEF IInv, InvTypeOK, Normalised, invVars, Begin, ListsParts, ListPartsFails,
       PartsMissing, PartsOutOfStock, Inserts, InsertFails
  <2>4. ASSUME NEW q \in Requests, q # r PROVE RequestSound(q)'
    <3>1. /\ pc'[q] = pc[q] /\ params'[q] = params[q] /\ found'[q] = found[q]
          /\ orders'[q] = orders[q] /\ reply'[q] = reply[q]
      BY <2>1, <2>4 DEF IInv, CreateTypeOK, Begin, ListsParts, ListPartsFails,
         PartsMissing, PartsOutOfStock, Inserts, InsertFails, Refuse, Answer, Insert
    <3> QED BY <2>3, <3>1, OthersKeep DEF IInv
  <2> QED BY <2>2, <2>3, <2>4 DEF IInv
<1>3. CASE UNCHANGED vars
  <2>1. UNCHANGED <<invVars, createVars>>
    BY <1>3 DEF vars
  <2>2. InvTypeOK' /\ Normalised' /\ CreateTypeOK'
    BY <2>1 DEF IInv, InvTypeOK, Normalised, CreateTypeOK, invVars, createVars
  <2>3. ASSUME NEW r \in Requests PROVE RequestSound(r)'
    BY <2>1, OthersKeep DEF IInv, invVars, createVars
  <2> QED BY <2>2, <2>3 DEF IInv
<1> QED BY <1>1, <1>2, <1>3 DEF Next

\* Every reachable state satisfies the inductive invariant.
THEOREM Invariance == Spec => []IInv
<1> QED BY InitInv, NextInv, PTL DEF Spec

-----------------------------------------------------------------------------
(* What follows from it. *)

\* What comparing the two lengths is worth: it succeeds if and only if the
\* list names nothing twice and every part of it was in the answer.
LEMMA AllFoundIsEnough ==
  ASSUME IInv, NEW r \in Requests
  PROVE  /\ IsFiniteSet(found[r])
         /\ AllFound(r) <=>
              /\ IsInjective(params[r].partIDs)
              /\ \A i \in DOMAIN params[r].partIDs : PartAt(r, i) # {}
<1> DEFINE list == params[r].partIDs
<1>1. list \in Lists
  BY DEF IInv, CreateTypeOK
<1>2. /\ Len(list) \in Nat /\ DOMAIN list = 1 .. Len(list)
      /\ list \in [1 .. Len(list) -> PartIds \cup {Foreign}]
  BY <1>1 DEF Lists
<1>3. \A p \in found[r] : \E i \in 1 .. Len(list) : p.id = list[i]
  BY <1>2 DEF IInv, RequestSound, FoundIsAsked, Asked, ToSet
<1>4. \A p, q \in found[r] : p.id = q.id => p = q
  BY DEF IInv, RequestSound, FoundIsAsked
<1>5. AllFound(r) <=> Cardinality(found[r]) = Len(list)
  BY DEF AllFound
<1>6. \A i : PartAt(r, i) # {} <=> \E p \in found[r] : p.id = list[i]
  BY DEF PartAt
<1> HIDE DEF list
<1>7. /\ IsFiniteSet(found[r])
      /\ Cardinality(found[r]) = Len(list) <=>
           /\ IsInjective(list)
           /\ \A i \in 1 .. Len(list) : \E p \in found[r] : p.id = list[i]
  <2> DEFINE len == Len(list)
             ids == PartIds \cup {Foreign}
             answer == found[r]
  <2>1. len \in Nat /\ list \in [1 .. len -> ids] /\ AnswersTo(answer, list, len)
    BY <1>2, <1>3, <1>4 DEF AnswersTo
  <2> HIDE DEF len, ids, answer
  <2>2. /\ IsFiniteSet(answer)
        /\ Cardinality(answer) = len <=>
             /\ IsInjective(list)
             /\ \A i \in 1 .. len : \E p \in answer : p.id = list[i]
    BY <2>1, SameLength
  <2> QED BY <2>2 DEF len, answer
<1>8. AllFound(r) <=> IsInjective(list) /\ \A i \in DOMAIN list : PartAt(r, i) # {}
  BY <1>2, <1>5, <1>6, <1>7
<1> QED BY <1>7, <1>8 DEF list

\* The total of some parts is the sum of their prices.
LEMMA TotalIsSum ==
  ASSUME NEW F, IsFiniteSet(F), NEW f, f = [p \in F |-> p.price], NEW h, IsSum(h, f, F)
  PROVE  TotalPrice(F) = h[F]
<1> DEFINE fold(k) == [s \in SUBSET F |->
                         IF s = {} THEN 0
                         ELSE (CHOOSE x \in s : TRUE).price + k[s \ {CHOOSE x \in s : TRUE}]]
           iter == CHOOSE k : k = fold(k)
<1>1. TotalPrice(F) = iter[F]
  BY DEF TotalPrice, MapThenSumSet, MapThenFoldSet
<1>2. \A k : Folds(k, f, F) <=> k = fold(k)
  <2>1. ASSUME NEW s \in SUBSET F, s # {}
        PROVE  f[CHOOSE x \in s : TRUE] = (CHOOSE x \in s : TRUE).price
    <3>1. (CHOOSE x \in s : TRUE) \in s
      BY <2>1
    <3> QED BY <3>1
  <2>2. \A k : fold(k) = [s \in SUBSET F |->
                         IF s = {} THEN 0
                         ELSE f[CHOOSE x \in s : TRUE] + k[s \ {CHOOSE x \in s : TRUE}]]
    BY <2>1
  <2> HIDE DEF fold
  <2> QED BY <2>2 DEF Folds
<1> HIDE DEF fold
<1>3. h = fold(h)
  BY <1>2, SumFolds
<1>4. iter = fold(iter)
  BY <1>3
<1> HIDE DEF iter
<1> QED BY <1>1, <1>2, <1>4, FoldIsSum

\* The sum over the positions of the list of a request, each at the price of
\* the part at that position.
ListTotal(r, positions) ==
  MapThenSumSet(LAMBDA i : (CHOOSE p \in PartAt(r, i) : TRUE).price, positions)

\* So is the sum over the positions of a list.
LEMMA ListTotalIsSum ==
  ASSUME NEW r, NEW S, IsFiniteSet(S),
         NEW f, f = [i \in S |-> (CHOOSE p \in PartAt(r, i) : TRUE).price],
         NEW h, IsSum(h, f, S)
  PROVE  ListTotal(r, S) = h[S]
<1> DEFINE fold(k) == [s \in SUBSET S |->
                         IF s = {} THEN 0
                         ELSE (CHOOSE p \in PartAt(r, CHOOSE x \in s : TRUE) : TRUE).price
                                + k[s \ {CHOOSE x \in s : TRUE}]]
           iter == CHOOSE k : k = fold(k)
<1>1. ListTotal(r, S) = iter[S]
  BY DEF ListTotal, MapThenSumSet, MapThenFoldSet
<1>2. \A k : Folds(k, f, S) <=> k = fold(k)
  <2>1. ASSUME NEW s \in SUBSET S, s # {}
        PROVE  f[CHOOSE x \in s : TRUE]
                 = (CHOOSE p \in PartAt(r, CHOOSE x \in s : TRUE) : TRUE).price
    <3>1. (CHOOSE x \in s : TRUE) \in s
      BY <2>1
    <3> QED BY <3>1
  <2>2. \A k : fold(k) = [s \in SUBSET S |->
                         IF s = {} THEN 0
                         ELSE f[CHOOSE x \in s : TRUE] + k[s \ {CHOOSE x \in s : TRUE}]]
    BY <2>1
  <2> HIDE DEF fold
  <2> QED BY <2>2 DEF Folds
<1> HIDE DEF fold
<1>3. h = fold(h)
  BY <1>2, SumFolds
<1>4. iter = fold(iter)
  BY <1>3
<1> HIDE DEF iter
<1> QED BY <1>1, <1>2, <1>4, FoldIsSum

\* The states of a request, its answers and the collection have their types,
\* and an answer of the inventory is an answer to this request's list.
THEOREM TypeInvariance == Spec => []TypeOK
<1>1. ASSUME IInv PROVE TypeOK
  <2>1. ASSUME NEW r \in Requests
        PROVE  /\ Asked(r) \subseteq PartIds \cup {Foreign}
               /\ {p.id : p \in found[r]} \subseteq Asked(r)
    <3>1. params[r].partIDs \in Lists
      BY <1>1 DEF IInv, CreateTypeOK
    <3>2. Asked(r) \subseteq PartIds \cup {Foreign}
      BY <3>1 DEF Lists, Asked, ToSet
    <3> QED BY <1>1, <3>2 DEF IInv, RequestSound, FoundIsAsked
  <2> QED BY <1>1, <2>1 DEF IInv, CreateTypeOK, TypeOK, Codes
<1> QED BY <1>1, Invariance, PTL

\* A 404 of CreateOrder is honest: the inventory did not know one of the
\* parts, or the caller named one twice.
THEOREM NotFoundIsHonest == Spec => []MissingIsHonest
<1>1. ASSUME IInv PROVE MissingIsHonest
  <2>1. ASSUME NEW r \in Requests, reply[r].code = 404
        PROVE  \/ \E i \in DOMAIN params[r].partIDs : PartAt(r, i) = {}
               \/ ~IsInjective(params[r].partIDs)
    <3>1. ~AllFound(r)
      BY <1>1, <2>1 DEF IInv, RequestSound, ReplyIsDecision
    <3> QED BY <1>1, <3>1, AllFoundIsEnough
  <2> QED BY <2>1 DEF MissingIsHonest
<1> QED BY <1>1, Invariance, PTL

\* After 201 the row is in the table, with the total the caller was told.
THEOREM CreatedMeansStored == Spec => []CreatedIsStored
<1>1. IInv => CreatedIsStored
  BY DEF IInv, RequestSound, ReplyIsDecision, CreatedIsStored, Stored
<1> QED BY <1>1, Invariance, PTL

\* What a row says of itself, by the invariant.
LEMMA StoredRow ==
  ASSUME IInv, NEW r \in Stored
  PROVE  /\ r \in Requests /\ AllFound(r)
         /\ \A p \in found[r] : InStock(p)
         /\ orders[r].partIDs = params[r].partIDs
         /\ orders[r].total = TotalPrice(found[r])
<1>1. r \in Requests /\ orders[r] # NoRow
  BY DEF Stored
<1>2. RowIsChecked(r)
  BY <1>1 DEF IInv, RequestSound
<1> QED BY <1>1, <1>2 DEF RowIsChecked

\* An accepted list and the answer to it are the same parts, counted by
\* position and by part, so the total of the answer is that of the list.
LEMMA TotalIsListTotal ==
  ASSUME IInv, NEW r \in Requests, AllFound(r)
  PROVE  TotalPrice(found[r]) = ListTotal(r, DOMAIN params[r].partIDs)
<1> DEFINE list == params[r].partIDs
           S == DOMAIN list
           F == found[r]
           b == [i \in S |-> CHOOSE p \in PartAt(r, i) : TRUE]
           f == [i \in S |-> (CHOOSE p \in PartAt(r, i) : TRUE).price]
           g == [p \in F |-> p.price]
<1>1. /\ Len(list) \in Nat /\ S = 1 .. Len(list)
      /\ list \in [1 .. Len(list) -> PartIds \cup {Foreign}]
  BY DEF IInv, CreateTypeOK, Lists
<1>2. /\ \A p \in F : \E i \in S : p.id = list[i]
      /\ \A p, q \in F : p.id = q.id => p = q
      /\ \A p \in F : p.price \in Nat
  BY <1>1 DEF IInv, RequestSound, FoundIsAsked, Asked, ToSet
<1>3. IsInjective(list) /\ \A i \in S : PartAt(r, i) # {}
  BY AllFoundIsEnough
<1>4. IsFiniteSet(S) /\ IsFiniteSet(F)
  BY <1>1, FS_Interval, AllFoundIsEnough
<1>5. \A i \in S : b[i] \in F /\ b[i].id = list[i]
  <2>1. ASSUME NEW i \in S PROVE b[i] \in PartAt(r, i)
    BY <1>3
  <2> QED BY <2>1 DEF PartAt
<1>6. b \in Bijection(S, F)
  <2>1. b = [i \in S |-> b[i]]
    OBVIOUS
  <2> HIDE DEF b, S, F, list
  <2>2. b \in [S -> F]
    BY <1>5, <2>1
  <2>3. \A i, j \in S : b[i] = b[j] => i = j
    <3>1. \A i, j \in S : list[i] = list[j] => i = j
      BY <1>1, <1>3 DEF IsInjective
    <3> QED BY <1>5, <3>1
  <2>4. \A p \in F : \E i \in S : b[i] = p
    BY <1>2, <1>5
  <2> QED BY <2>2, <2>3, <2>4 DEF Bijection, Injection, Surjection, IsInjective
<1>7. /\ \A i \in S : f[i] = g[b[i]]
      /\ g \in [F -> Nat]
  <2>1. \A i \in S : f[i] = b[i].price
    OBVIOUS
  <2>2. \A p \in F : g[p] = p.price
    OBVIOUS
  <2> QED BY <1>2, <1>5, <2>1, <2>2
<1> HIDE DEF b
<1>8. PICK h : IsSum(h, g, F)
  <2> HIDE DEF g, F
  <2> QED BY <1>4, <1>7, SumExists
<1>9. PICK k : IsSum(k, f, S) /\ k[S] = h[F]
  <2> HIDE DEF f, g, S, F
  <2> QED BY <1>6, <1>7, <1>8, SumByBijection
<1>10. TotalPrice(F) = h[F]
  BY <1>4, <1>8, TotalIsSum
<1>11. ListTotal(r, S) = k[S]
  BY <1>4, <1>9, ListTotalIsSum
<1> HIDE DEF f, g
<1> QED BY <1>9, <1>10, <1>11

\* Comparing the lengths is enough: nothing is ordered that was not found, not
\* in stock or named twice, and the total is the sum over the list.
THEOREM StoredOrdersAreComplete == Spec => []OrdersAreComplete
<1>1. ASSUME IInv PROVE OrdersAreComplete
  <2>1. ASSUME NEW r \in Stored
        PROVE  /\ IsInjective(orders[r].partIDs)
               /\ \A i \in DOMAIN orders[r].partIDs :
                    \E p \in PartAt(r, i) : p.stock > 0
               /\ orders[r].total = ListTotal(r, DOMAIN orders[r].partIDs)
    <3>1. /\ r \in Requests /\ AllFound(r)
          /\ orders[r].partIDs = params[r].partIDs
          /\ orders[r].total = TotalPrice(found[r])
      BY <1>1, StoredRow
    <3>2. /\ IsInjective(params[r].partIDs)
          /\ \A i \in DOMAIN params[r].partIDs : PartAt(r, i) # {}
      BY <1>1, <3>1, AllFoundIsEnough
    <3>3. \A i : \A p \in PartAt(r, i) : p.stock > 0
      BY <1>1, StoredRow DEF PartAt, InStock
    <3>4. TotalPrice(found[r]) = ListTotal(r, DOMAIN params[r].partIDs)
      BY <1>1, <3>1, TotalIsListTotal
    <3> QED BY <3>1, <3>2, <3>3, <3>4
  <2> QED BY <2>1 DEF OrdersAreComplete, ListTotal
<1> QED BY <1>1, Invariance, PTL

\* The parts of a stored order stay in the collection, through every restart,
\* failed bootstrap and edit of the inventory.
THEOREM NothingOrderedVanishes == Spec => []OrderedPartsExist
<1>1. ASSUME IInv PROVE OrderedPartsExist
  <2>1. ASSUME NEW r \in Stored, NEW i \in DOMAIN params[r].partIDs
        PROVE  params[r].partIDs[i] \in DOMAIN parts
    <3>1. r \in Requests /\ PartAt(r, i) # {}
      BY <1>1, StoredRow, AllFoundIsEnough
    <3> QED BY <1>1, <3>1 DEF IInv, RequestSound, FoundIsAsked, PartAt
  <2>2. ASSUME NEW r \in Stored
        PROVE  ToSet(orders[r].partIDs) \subseteq DOMAIN parts
    <3>1. orders[r].partIDs = params[r].partIDs
      BY <1>1, StoredRow
    <3> QED BY <2>1, <3>1 DEF ToSet
  <2> QED BY <2>2 DEF OrderedPartsExist
<1> QED BY <1>1, Invariance, PTL

\* What a client was shown it finds again, by each attribute and in whatever
\* spelling of the country.
THEOREM ShownPartsAreFound == Spec => []FoundByWhatIsShown
<1>1. IInv => FoundByWhatIsShown
  BY ShownIsFound DEF IInv, FoundByWhatIsShown
<1> QED BY <1>1, Invariance, PTL

\* The fields of a filter restrict one after the other.
THEOREM FiltersRestrictInTurn == Spec => []FiltersInPasses
<1>1. FiltersInPasses
  <2> SUFFICES ASSUME NEW p \in ListParts(parts, NoFilter), NEW q \in ListParts(parts, NoFilter),
                      NEW j \in Fields, NEW k \in Fields, j # k
               PROVE  ListParts(parts, [FilterBy(p, j) EXCEPT ![k] = FilterBy(q, k)[k]])
                        = ListParts(parts, FilterBy(p, j)) \cap ListParts(parts, FilterBy(q, k))
    BY DEF FiltersInPasses
  <2>1. PICK f : f = FilterBy(p, j)
    OBVIOUS
  <2>2. PICK g : g = FilterBy(q, k)
    OBVIOUS
  <2>3. OnlyField(f, j) /\ OnlyField(g, k)
    BY <2>1, <2>2, FilterByIs DEF OnlyField
  <2>4. PICK h : Joined(h, f, g, k)
    BY DEF Joined
  <2>5. ListParts(parts, h) = ListParts(parts, f) \cap ListParts(parts, g)
    BY <2>3, <2>4, FieldsRestrict
  <2> QED BY <2>1, <2>2, <2>4, <2>5 DEF Joined
<1> QED BY <1>1, PTL

\* The reason a country is found: every document keeps its country and the
\* normalised one together, whatever is inserted or edited.
THEOREM CountriesStayNormalised == Spec => []Normalised
<1>1. IInv => Normalised
  BY DEF IInv
<1> QED BY <1>1, Invariance, PTL
=============================================================================
