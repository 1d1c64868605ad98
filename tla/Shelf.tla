------------------------------- MODULE Shelf -------------------------------
(***************************************************************************)
(* The product shelf under the administration console: admin_service.py    *)
(* over product_store.py.  An edit saves the columns of the product, reads *)
(* its latest performance row, appends a new one, and reads the product    *)
(* back; each is a transaction of its own, and the handlers run in a       *)
(* thread pool, so the calls of several administrators interleave.  A      *)
(* column or a figure that is Null is one the database holds as NULL or    *)
(* ''; a request that leaves a field out carries Null for it.              *)
(***************************************************************************)
EXTENDS Integers, FiniteSets

CONSTANTS ShelfCodes,    \* product codes
          Columns,       \* columns of finance.products besides code, name and is_active
          Figures,       \* nav, return_1y ...: columns of finance.product_performance
          Requests,      \* what administrators send
          Admins,        \* handlers that run at the same time
          MaxEdits,      \* bound: the number of calls
          NoProduct, Null,
          FreshFrom      \* the oldest date that PRODUCT_PERFORMANCE_FRESHNESS_DAYS allows

VARIABLES products,      \* finance.products
          latest,        \* the newest row of finance.product_performance of each product
          edits,         \* the call each handler is in
          begun          \* calls begun

shelfVars == <<products, latest, edits, begun>>

NoFigures == [f \in Figures |-> Null]
NoPerformance == [figures |-> NoFigures, update_date |-> 0]

Idle == [at |-> "idle", request |-> [kind |-> "none"], seen |-> NoPerformance, todo |-> {},
         code |-> Null, row |-> NoProduct, freshness |-> "unknown", shown |-> {}, status |-> 0]

Init ==
    /\ products = [c \in ShelfCodes |-> NoProduct]
    /\ latest = [c \in ShelfCodes |-> NoPerformance]
    /\ edits = [a \in Admins |-> Idle]
    /\ begun = 0

-----------------------------------------------------------------------------

Request(a) == edits[a].request
Code(a) == Request(a).code
At(a, place) == edits[a].at = place

Goto(a, place) == edits' = [edits EXCEPT ![a].at = place]
Answer(a, status) == edits' = [edits EXCEPT ![a].at = "idle", ![a].status = status]

Begin(a) ==
    /\ At(a, "idle") /\ begun < MaxEdits
    /\ begun' = begun + 1
    /\ \E r \in Requests : edits' = [edits EXCEPT ![a] = [Idle EXCEPT !.at = r.kind, !.request = r]]
    /\ UNCHANGED <<products, latest>>

\* A name of blanks passes the schema and is refused before anything is written.
RefuseBlank(a) ==
    /\ At(a, "save") /\ Request(a).name = Null
    /\ Answer(a, 400)
    /\ UNCHANGED <<products, latest, begun>>

\* What the INSERT ... ON CONFLICT DO UPDATE leaves: every column, sent or not,
\* and the shelf status that was there; a new product is on the shelf.
Saved(r, old) ==
    [name |-> r.name, columns |-> r.columns,
     is_active |-> IF old = NoProduct THEN TRUE ELSE old.is_active]

Save(a) ==
    /\ At(a, "save") /\ Request(a).name # Null
    /\ products' = [products EXCEPT ![Code(a)] = Saved(Request(a), @)]
    /\ Goto(a, "performance")
    /\ UNCHANGED <<latest, begun>>

\* _write_performance: nothing to write, or the latest row is read.
SkipPerformance(a) ==
    /\ At(a, "performance")
    /\ Request(a).figures = NoFigures /\ Request(a).nav_date = 0
    /\ Goto(a, "read")
    /\ UNCHANGED <<products, latest, begun>>

ReadPerformance(a) ==
    /\ At(a, "performance")
    /\ Request(a).figures # NoFigures \/ Request(a).nav_date # 0
    /\ edits' = [edits EXCEPT ![a].at = "append", ![a].seen = latest[Code(a)]]
    /\ UNCHANGED <<products, latest, begun>>

\* Mutant: the new row has only what was sent.
MergedAsSent(r, current) == [figures |-> r.figures, update_date |-> r.nav_date]

\* Each figure that was not sent, and the date, come from the row that was read.
Merged(r, current) ==
    [figures |-> [f \in Figures |-> IF r.figures[f] = Null THEN current.figures[f] ELSE r.figures[f]],
     update_date |-> IF r.nav_date = 0 THEN current.update_date ELSE r.nav_date]

AppendPerformance(a) ==
    /\ At(a, "append")
    /\ latest' = [latest EXCEPT ![Code(a)] = Merged(Request(a), edits[a].seen)]
    /\ Goto(a, "read")
    /\ UNCHANGED <<products, begun>>

\* set_product_active, after the product was found; only here is_active changes.
SwitchUnknown(a) ==
    /\ At(a, "switch") /\ products[Code(a)] = NoProduct
    /\ Answer(a, 404)
    /\ UNCHANGED <<products, latest, begun>>

Switch(a) ==
    /\ At(a, "switch") /\ products[Code(a)] # NoProduct
    /\ products' = [products EXCEPT ![Code(a)].is_active = Request(a).active]
    /\ Goto(a, "read")
    /\ UNCHANGED <<latest, begun>>

-----------------------------------------------------------------------------
(* get_product and list_products: the rows that are shown are read one by   *)
(* one, each once for the product and once more for its NAV.                *)

ReadMissing(a) ==
    /\ At(a, "read") /\ products[Code(a)] = NoProduct
    /\ Answer(a, 404)
    /\ UNCHANGED <<products, latest, begun>>

ReadOne(a) ==
    /\ At(a, "read") /\ products[Code(a)] # NoProduct
    /\ edits' = [edits EXCEPT ![a].at = "view", ![a].todo = {Code(a)}]
    /\ UNCHANGED <<products, latest, begun>>

\* Customers see what is on the shelf when the list is read, administrators all.
List(a) ==
    /\ At(a, "list")
    /\ edits' = [edits EXCEPT
                   ![a].at = "view",
                   ![a].todo = {c \in ShelfCodes :
                                  /\ products[c] # NoProduct
                                  /\ Request(a).include_inactive \/ products[c].is_active}]
    /\ UNCHANGED <<products, latest, begun>>

Freshness(date) ==
    CASE date = 0 -> "unknown"
      [] date # 0 /\ date < FreshFrom -> "stale"
      [] OTHER -> "fresh"

ReadProduct(a) ==
    /\ At(a, "view")
    /\ \E c \in edits[a].todo :
          edits' = [edits EXCEPT ![a].at = "nav", ![a].code = c, ![a].row = products[c],
                                 ![a].freshness = Freshness(latest[c].update_date)]
    /\ UNCHANGED <<products, latest, begun>>

\* latest_nav, and the view: tradable with a NAV and on the shelf.
View(e, nav) ==
    [code |-> e.code, row |-> e.row, nav |-> nav, freshness |-> e.freshness,
     tradable |-> nav # Null /\ e.row.is_active]

ReadNav(a) ==
    LET e == edits[a]
    IN  /\ At(a, "nav")
        /\ edits' = [edits EXCEPT ![a].at = "view", ![a].todo = @ \ {e.code},
                                  ![a].shown = @ \cup {View(e, latest[e.code].figures["nav"])}]
        /\ UNCHANGED <<products, latest, begun>>

Shown(a) ==
    /\ At(a, "view") /\ edits[a].todo = {}
    /\ Answer(a, 200)
    /\ UNCHANGED <<products, latest, begun>>

-----------------------------------------------------------------------------

Step(a) ==
    \/ Begin(a) \/ RefuseBlank(a) \/ Save(a)
    \/ SkipPerformance(a) \/ ReadPerformance(a) \/ AppendPerformance(a)
    \/ SwitchUnknown(a) \/ Switch(a)
    \/ ReadMissing(a) \/ ReadOne(a) \/ List(a) \/ ReadProduct(a) \/ ReadNav(a) \/ Shown(a)

Next == \E a \in Admins : Step(a)

-----------------------------------------------------------------------------

\* A product that can be priced stays so: a step takes its NAV away only when
\* the latest row has changed since that edit read it (admin_service.py:145).
LosesNavToOverlapOnly ==
    \A c \in ShelfCodes :
       latest[c].figures["nav"] # Null /\ latest'[c].figures["nav"] = Null =>
         \E a \in Admins : At(a, "append") /\ Code(a) = c /\ edits[a].seen # latest[c]

\* A column an edit does not send keeps its value (admin_service.py:123).
LeavesUnsentColumns ==
    \A a \in Admins :
       At(a, "save") /\ edits'[a].at = "performance" /\ products[Code(a)] # NoProduct =>
         \A k \in Columns :
            Request(a).columns[k] = Null =>
              products'[Code(a)].columns[k] = products[Code(a)].columns[k]
=============================================================================
