--------------------------- MODULE FirestoreQuery -----------------------------
(***************************************************************************)
(* Queries of the Firestore emulator: executeQuery of                      *)
(* internal/firestore/query.go, RunQuery of service.go and ListDocuments   *)
(* of store.go, with a client that reads a result page by page, a RunQuery *)
(* for each page, while others write the documents of the collection.      *)
(*                                                                         *)
(* The documents are listed under the store's mutex; the rest of a query   *)
(* is done without it, on documents that share their field maps with the   *)
(* store.  An update with a mask changes such a map in place, every other  *)
(* write leaves it alone.  The sort reads the maps again at every          *)
(* comparison: each comparison is a step, with writes between them.  The   *)
(* filters ask each document by itself, all in one step: a patch meanwhile *)
(* would only change whether the patched document stays.                   *)
(*                                                                         *)
(* A composite filter is one of field filters, and a field path one name.  *)
(***************************************************************************)
EXTENDS FirestoreValues, Sequences, SequencesExt, FiniteSets

CONSTANTS
  Names,        \* the documents of the collection, numbered in their order
  Fields,       \* field names
  Stored,       \* what fields hold
  Filters,      \* the filters the client may ask for
  Orders,       \* and the orders
  NoDoc,        \* no document has the name
  NoLimit,      \* a query without a limit
  PageSizes,    \* the limits the client reads its pages with
  MaxWrites     \* bound: writes

ASSUME QueryAssumption ==
  /\ Names \subseteq Nat /\ MaxWrites \in Nat
  /\ PageSizes \subseteq (Nat \ {0}) \cup {NoLimit} /\ NoLimit \notin Nat
  /\ IsFiniteSet(Names) /\ \A v \in Stored : IsValue(v)

\* Orders go by fields or by the name; a composite filter has a list of filters.
ASSUME RequestAssumption ==
  /\ Orders \subseteq Seq([field : Fields \cup {"__name__"}, descending : BOOLEAN])
  /\ \A f \in Filters : f.type \in {"and", "or"} =>
       f.filters \in Seq({f.filters[i] : i \in DOMAIN f.filters})

\* A field that is not in the map.
Missing == [rank |-> -1, key |-> 0]

FieldMap == [Fields -> Stored \cup {Missing}]

ASSUME NoDocAssumption == NoDoc \notin FieldMap

VARIABLES
  docs,        \* Store.docs: the field map under each name
  filter,      \* the client's query
  orders,
  limit,
  offset,      \* where its next page begins
  at,          \* where the RunQuery of that page is
  next,        \* the sort: the place of the document it puts in order next,
  place,       \* and where that document is by now
  result,      \* the documents it has; shared when the map is still the store's
  listed,      \* history: the documents as they were listed
  patched,     \* history: the names whose map was changed in place since then
  disturbed,   \* history: one of them while the result was being sorted
  page,        \* history: the documents of the last page
  got,         \* the names the client has received
  writes,      \* writes so far
  steady       \* history: nobody has written

queryVars == <<filter, orders, limit>>

sortVars == <<next, place>>

historyVars == <<listed, patched, disturbed>>

vars == <<docs, queryVars, offset, at, sortVars, result, historyVars, page, got, writes, steady>>

There == {n \in Names : docs[n] # NoDoc}

-----------------------------------------------------------------------------
(* Sequences of documents                                                  *)

\* The elements of a finite set in the order of a relation, a set of pairs.
Ranked(S, R) ==
  [k \in 1..Cardinality(S) |-> CHOOSE x \in S : Cardinality({y \in S : <<y, x>> \in R}) = k - 1]

Ascending(S) == {p \in S \X S : p[1] < p[2]}

\* The documents at the places of one sequence in the order of another.
At(ds, places) == [k \in DOMAIN places |-> ds[places[k]]]

\* The documents at some places of a sequence.
Selected(ds, I) == At(ds, Ranked(I, Ascending(I)))

-----------------------------------------------------------------------------
(* executeQuery                                                            *)

\* A defective listing: as the iteration of a map has them.
AnyListing == SetToSeqs(There)

\* ListDocuments sorts by name.
Listing == {s \in SetToSeqs(There) : \A i, j \in DOMAIN s : i < j => s[i] < s[j]}

FieldFilter(ds, f) ==
  Selected(ds, {i \in DOMAIN ds : MatchesOp(ds[i].fields[f.field], f.op, f.value)})

\* The documents whose names are not among those of another sequence.
NotIn(ds, found) ==
  Selected(ds, {i \in DOMAIN ds : \A j \in DOMAIN found : found[j].name # ds[i].name})

\* AND narrows the documents filter by filter.
Narrowed(ds, fs) ==
  LET Left[k \in 0..Len(fs)] == IF k = 0 THEN ds ELSE FieldFilter(Left[k - 1], fs[k])
  IN Left[Len(fs)]

\* OR puts together what each filter finds, leaving out names it has already.
Merged(ds, fs) ==
  LET Found[k \in 0..Len(fs)] ==
        IF k = 0 THEN <<>>
                 ELSE Found[k - 1] \o NotIn(FieldFilter(ds, fs[k]), Found[k - 1])
  IN Found[Len(fs)]

ApplyFilter(ds, f) ==
  CASE f.type = "field" -> FieldFilter(ds, f)
    [] f.type = "and" -> Narrowed(ds, f.filters)
    [] f.type = "or" -> Merged(ds, f.filters)
    [] OTHER -> ds

\* The value of a document that an order goes by.
OrderValue(d, o) ==
  IF o.field = "__name__" THEN [rank |-> 4, key |-> d.name] ELSE d.fields[o.field]

Comes(d, e, o) ==
  LET c == CompareValues(OrderValue(d, o), OrderValue(e, o))
  IN IF o.descending THEN -c ELSE c

\* The first order that tells two documents apart decides.
Before(d, e, os) ==
  \E k \in DOMAIN os :
    /\ Comes(d, e, os[k]) < 0
    /\ \A m \in 1..(k - 1) : Comes(d, e, os[m]) = 0

\* OFFSET, then LIMIT.
Window(ds, off, lim) ==
  SubSeq(ds, off + 1, IF lim = NoLimit \/ off + lim > Len(ds) THEN Len(ds) ELSE off + lim)

-----------------------------------------------------------------------------
(* The client's queries                                                    *)

\* The history of the last page ends with it.
Collect ==
  /\ at = "idle"
  /\ \E s \in Listing :
       result' = [i \in DOMAIN s |-> [name |-> s[i], fields |-> docs[s[i]], shared |-> TRUE]]
  /\ listed' = docs
  /\ patched' = {} /\ disturbed' = FALSE /\ page' = <<>>
  /\ at' = "where"
  /\ UNCHANGED <<docs, queryVars, offset, sortVars, got, writes, steady>>

Where ==
  /\ at = "where"
  /\ result' = ApplyFilter(result, filter)
  /\ at' = "order"
  /\ UNCHANGED <<docs, queryVars, offset, sortVars, historyVars, page, got, writes, steady>>

\* applyOrderBy: sort.SliceStable puts the documents in order one after the
\* other, each by comparing it with the one in front of it and changing places
\* as long as it comes before that one.  (Beyond 20 documents it does so in
\* blocks of 20, which it merges.)
IsAhead == place > 1 /\ Before(result[place], result[place - 1], orders)

MoveAhead ==
  /\ at = "order" /\ next \in DOMAIN result
  /\ IsAhead
  /\ result' = [result EXCEPT ![place - 1] = result[place], ![place] = result[place - 1]]
  /\ place' = place - 1
  /\ UNCHANGED <<docs, queryVars, offset, at, next, historyVars, page, got, writes, steady>>

StayBehind ==
  /\ at = "order" /\ next \in DOMAIN result
  /\ ~IsAhead
  /\ next' = next + 1 /\ place' = next + 1
  /\ UNCHANGED <<docs, queryVars, offset, at, result, historyVars, page, got, writes, steady>>

\* A list begins with its first document in order.
EndSort ==
  /\ at = "order" /\ next \notin DOMAIN result
  /\ at' = "send"
  /\ next' = 2 /\ place' = 2
  /\ UNCHANGED <<docs, queryVars, offset, result, historyVars, page, got, writes, steady>>

\* The window of the page is sent.  The client goes on behind it, unless it was
\* the last.
Send ==
  /\ at = "send"
  /\ page' = Window(result, offset, limit)
  /\ result' = <<>>
  /\ got' = got \o [i \in DOMAIN page' |-> page'[i].name]
  /\ offset' = offset + Len(page')
  /\ at' = IF limit = NoLimit \/ Len(page') < limit THEN "done" ELSE "idle"
  /\ UNCHANGED <<docs, queryVars, sortVars, historyVars, writes, steady>>

-----------------------------------------------------------------------------
(* Writes                                                                  *)

Writes ==
  /\ writes < MaxWrites
  /\ writes' = writes + 1
  /\ steady' = FALSE
  /\ UNCHANGED <<queryVars, offset, at, sortVars, listed, page, got>>

Has(i, n) == result[i].name = n /\ result[i].shared

\* The maps queries have of the name are no longer the store's.
LetGo(n) ==
  /\ result' = [i \in DOMAIN result |-> IF Has(i, n) THEN [result[i] EXCEPT !.shared = FALSE] ELSE result[i]]
  /\ UNCHANGED <<patched, disturbed>>

\* A defective replacement: it fills the map that is there.
ReplaceInPlace(n, fields) ==
  /\ result' = [i \in DOMAIN result |-> IF Has(i, n) THEN [result[i] EXCEPT !.fields = fields] ELSE result[i]]
  /\ UNCHANGED <<patched, disturbed>>

\* A new map: a query keeps the old one for itself.
Replace(n, fields) == LetGo(n)

\* CreateDocument, an upsert, or an update without a mask.
PutDocument(n, fields) ==
  /\ docs' = [docs EXCEPT ![n] = fields]
  /\ Replace(n, fields)
  /\ Writes

DeleteDocument(n) ==
  /\ n \in There
  /\ docs' = [docs EXCEPT ![n] = NoDoc]
  /\ LetGo(n)
  /\ Writes

\* UpdateDocument with a mask of one field, which it sets or takes out.
PatchDocument(n, f, v) ==
  /\ n \in There
  /\ docs' = [docs EXCEPT ![n][f] = v]
  /\ result' = [i \in DOMAIN result |-> IF Has(i, n) THEN [result[i] EXCEPT !.fields[f] = v] ELSE result[i]]
  /\ patched' = patched \cup {n}
  /\ disturbed' = (disturbed \/ (at = "order" /\ \E i \in DOMAIN result : Has(i, n)))
  /\ Writes

-----------------------------------------------------------------------------

Init ==
  /\ docs \in [Names -> FieldMap \cup {NoDoc}]
  /\ filter \in Filters /\ orders \in Orders /\ limit \in PageSizes
  /\ offset = 0 /\ at = "idle" /\ next = 2 /\ place = 2
  /\ result = <<>> /\ listed = docs /\ patched = {} /\ disturbed = FALSE
  /\ page = <<>> /\ got = <<>>
  /\ writes = 0 /\ steady = TRUE

\* The first documents are any there may be, so that writes only matter from
\* the client's first query to its last.
Next ==
  \/ Collect \/ Where \/ MoveAhead \/ StayBehind \/ EndSort \/ Send
  \/ /\ at \in {"where", "order", "send"} \/ (at = "idle" /\ offset > 0)
     /\ \E n \in Names :
          \/ \E fields \in FieldMap : PutDocument(n, fields)
          \/ DeleteDocument(n)
          \/ \E f \in Fields, v \in Stored \cup {Missing} : PatchDocument(n, f, v)

Spec == Init /\ [][Next]_vars

-----------------------------------------------------------------------------
(* Properties                                                              *)

\* What a filter says of one document.
Satisfies(fields, f) ==
  LET Holds(sub) == MatchesOp(fields[sub.field], sub.op, sub.value) IN
  CASE f.type = "field" -> Holds(f)
    [] f.type = "and" -> \A i \in DOMAIN f.filters : Holds(f.filters[i])
    [] f.type = "or" -> \E i \in DOMAIN f.filters : Holds(f.filters[i])
    [] OTHER -> TRUE

Doc(n, fields) == [name |-> n, fields |-> fields]

\* While nobody writes, the pages are the result: no document is on two of
\* them, each matches, they come in order across the pages, and when the last
\* one is short no match is left.
PagesAreTheResult ==
  steady =>
    LET matching == {n \in There : Satisfies(docs[n], filter)} IN
    /\ \A i \in DOMAIN got : got[i] \in matching
    /\ \A i, j \in DOMAIN got : i < j =>
         got[i] # got[j] /\ ~Before(Doc(got[j], docs[got[j]]), Doc(got[i], docs[got[i]]), orders)
    /\ at = "done" => \A n \in matching : \E i \in DOMAIN got : got[i] = n

\* A page has each document once, and is of one moment, that of its listing,
\* whatever is written while the query works, but for the documents whose field
\* map an update with a mask changes under it: those may come with fields the
\* filter was not asked about.  The others come in order, unless such an update
\* changed a document of the result while the sort compared it: then even the
\* documents nobody wrote may come in any order.
PageIsSnapshot ==
  LET Sure == {i \in DOMAIN page : page[i].name \notin patched} IN
  /\ \A i, j \in DOMAIN page : i # j => page[i].name # page[j].name
  /\ \A i \in Sure :
       page[i].fields = listed[page[i].name] /\ Satisfies(page[i].fields, filter)
  /\ ~disturbed => \A i, j \in Sure : i < j => ~Before(page[j], page[i], orders)
=============================================================================
