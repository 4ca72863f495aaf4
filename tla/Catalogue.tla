----------------------------- MODULE Catalogue -----------------------------
(***************************************************************************)
(* The tables of the catalogue and the handlers of products and            *)
(* categories: internal/handlers/product_handler.go over                   *)
(* internal/repository/product_repository.go, with the hook that draws a   *)
(* SKU (internal/models/product.go).                                       *)
(*                                                                         *)
(* Each query of a handler is one action.  FindByID reads the product's    *)
(* row and then, in a query each, its category and its contact; Update     *)
(* writes back all of what it read.  Images are in module ProductImages.   *)
(***************************************************************************)
EXTENDS Traffic

CONSTANTS
    Products,    \* product ids, numbered in the order of their created_at
    Categories,  \* category ids
    Skus,        \* what generateSKU may draw
    Attempts,    \* how often BeforeCreate draws (10 in the code)
    Dates,       \* dates, as numbers
    Values,      \* what a contact may say
    NoCategory, NoSku, NoValue,
    NoDate       \* a date that is null

\* A SKU that is drawn has six characters after "REP-", one made of a product's id has
\* eight.
ASSUME CatalogueAssumption ==
    /\ Products \subseteq Nat /\ IsFiniteSet(Products)
    /\ Skus \cap Products = {}
    /\ IsFiniteSet(Categories)
    /\ Dates \subseteq Nat
    /\ NoDate \in Int \ Dates
    /\ Attempts \in Nat \ {0}
    /\ NoCategory \notin Categories
    /\ NoValue \notin Values

VARIABLES
    product,   \* rows of table products
    category,  \* rows of table categories
    contact    \* rows of table contacts, by the product they belong to

Statuses == {"en_progreso", "reparado", "no_reparado"}

\* A SKU is one that was drawn or the one made of the product's id.
AllSkus == Skus \cup Products \cup {NoSku}

\* status and date stand for the columns an update replaces when its body names
\* them; by is created_by_id.
Product == [st : RowStatus, sku : AllSkus, cat : Categories \cup {NoCategory},
            date : Dates \cup {NoDate}, status : Statuses, by : Users \cup {Nobody}]

Category == [st : RowStatus]

Contact == [st : RowStatus, val : Values \cup {NoValue}]

NoRow == [st |-> "absent", sku |-> NoSku, cat |-> NoCategory, date |-> NoDate,
          status |-> "en_progreso", by |-> Nobody]

\* A date field of a body is absent, null, or a date.
RawDate == [field : {"absent", "null", "given"}, date : Dates \cup {NoDate}]

NoField == [field |-> "absent", date |-> NoDate]

RawDates == {raw \in RawDate : raw.field = "given" <=> raw.date # NoDate}

\* The body of an update: a category or none, a date field, a status or "keep".
Body == [cat : Categories \cup {NoCategory}, date : RawDate, status : Statuses \cup {"keep"}]

NoBody == [cat |-> NoCategory, date |-> NoField, status |-> "keep"]

\* row: the product in memory; linked, spoken: the category and the contact
\* loaded with it; tries: SKUs drawn so far.
ProductRequest ==
    [op : {"create", "update", "delete"},
     pc : {"find", "preload", "checkcategory", "drawsku", "insert", "save", "dbdelete"},
     by : Token, p : Products, row : Product, linked : Categories \cup {NoCategory},
     spoken : Values \cup {NoValue}, body : Body, tries : 0..Attempts]

CategoryRequest ==
    [op : {"createcat", "updatecat", "delcat"},
     pc : {"insertcategory", "findcategory", "savecategory", "deletecategory"},
     by : Token, cat : Categories]

ProductSlot(op, pc, by, p, row, body) ==
    [op |-> op, pc |-> pc, by |-> by, p |-> p, row |-> row, linked |-> NoCategory,
     spoken |-> NoValue, body |-> body, tries |-> 0]

CategorySlot(op, pc, by, c) == [op |-> op, pc |-> pc, by |-> by, cat |-> c]

CatalogueInit ==
    /\ product = [p \in Products |-> NoRow]
    /\ category = [c \in Categories |-> [st |-> "absent"]]
    /\ contact = [p \in Products |-> [st |-> "absent", val |-> NoValue]]

-----------------------------------------------------------------------------
\* First and Preload see the rows whose deleted_at is null.
Live(p) == product[p].st = "live"
LiveCategoryUnscoped(c) == category[c].st # "absent"
LiveCategory(c) == category[c].st = "live"

\* uuid.New never repeats an id.
Vacant == {p \in Products : /\ product[p].st = "absent" /\ p <= env.stock
                            /\ \A r \in Requests : req[r].op = "create" => req[r].p # p}

Named == Varies("category", {c \in Categories : category[c].st # "absent"} \cup {NoCategory},
                NoCategory)

\* Requests arrive.  The id of a new product is picked here so that a run starts
\* no creation it has no id left for.
ArriveCreate(r) ==
    /\ \E t \in Callers("create"), p \in Vacant, c \in Named,
          d \in Varies("date", Dates \cup {NoDate}, NoDate),
          s \in Varies("status", Statuses, "en_progreso") :
          LET row == [st |-> "live", sku |-> NoSku, cat |-> c, date |-> d, status |-> s,
                      by |-> t.user] IN
          Start(r, ProductSlot("create", IF c = NoCategory THEN "drawsku" ELSE "checkcategory",
                               t, p, row, NoBody))
    /\ UNCHANGED <<product, category, contact>>

ArriveUpdate(r) ==
    /\ \E t \in Callers("update"), p \in Products, c \in Named,
          raw \in Varies("date", RawDates, NoField),
          s \in Varies("status", Statuses \cup {"keep"}, "keep") :
          /\ product[p].st # "absent"
          /\ Start(r, ProductSlot("update", "find", t, p, NoRow,
                                  [cat |-> c, date |-> raw, status |-> s]))
    /\ UNCHANGED <<product, category, contact>>

ArriveDelete(r) ==
    /\ \E t \in Callers("delete"), p \in Products :
          /\ product[p].st # "absent"
          /\ Start(r, ProductSlot("delete", "find", t, p, NoRow, NoBody))
    /\ UNCHANGED <<product, category, contact>>

ArriveCategory(r) ==
    /\ \/ \E t \in Callers("createcat"), c \in Categories :
             /\ category[c].st = "absent"
             /\ \A q \in Requests : req[q].op = "createcat" => req[q].cat # c
             /\ Start(r, CategorySlot("createcat", "insertcategory", t, c))
       \/ \E op \in {"updatecat", "delcat"}, c \in Categories :
             \E t \in Callers(op) :
                /\ category[c].st # "absent"
                /\ Start(r, CategorySlot(op, "findcategory", t, c))
    /\ UNCHANGED <<product, category, contact>>

-----------------------------------------------------------------------------
(***************************************************************************)
(* FindByID.                                                               *)
(***************************************************************************)
FindProduct(r) ==
    LET p == req[r].p IN
    /\ req[r].pc = "find"
    /\ \/ /\ Live(p)
          /\ req' = [req EXCEPT ![r] = [@ EXCEPT !.pc = "preload", !.row = product[p]]]
       \/ ~Live(p) /\ Reply(r)
       \/ QueryFails(r)
    /\ UNCHANGED <<product, category, contact>>

MayDeleteAnything(t, row) == TRUE
\* Managers delete what they created; administrators anything.
MayDelete(t, row) == t.role = "manager" => row.by = t.user

\* Where Update and Delete go on with the product they loaded.
AfterLoad(slot) ==
    IF slot.op = "delete" THEN "dbdelete"
    ELSE IF slot.body.cat # NoCategory THEN "checkcategory" ELSE "save"

Preload(r) ==
    LET slot == req[r]
        c == slot.row.cat
        linked == IF c # NoCategory /\ LiveCategory(c) THEN c ELSE NoCategory
        spoken == IF contact[slot.p].st = "live" THEN contact[slot.p].val ELSE NoValue
        refused == slot.op = "delete" /\ ~MayDelete(slot.by, slot.row) IN
    /\ slot.pc = "preload"
    /\ \/ /\ ~refused
          /\ req' = [req EXCEPT ![r] = [@ EXCEPT !.pc = AfterLoad(slot), !.linked = linked,
                                                 !.spoken = spoken]]
       \/ refused /\ Reply(r)
       \/ "badinput" \in Events /\ slot.op = "update" /\ Reply(r)
       \/ QueryFails(r)
    /\ UNCHANGED <<product, category, contact>>

\* The category a body names must be found.
CheckCategory(r) ==
    LET slot == req[r]
        c == IF slot.op = "create" THEN slot.row.cat ELSE slot.body.cat IN
    /\ slot.pc = "checkcategory"
    /\ \/ LiveCategory(c) /\ Goto(r, IF slot.op = "create" THEN "drawsku" ELSE "save")
       \/ ~LiveCategory(c) /\ Reply(r)
       \/ QueryFails(r)
    /\ UNCHANGED <<product, category, contact>>

SkuNeverSeen(s) == FALSE
\* Count does not see deleted rows.
SkuSeen(s) == \E p \in Products : Live(p) /\ product[p].sku = s

\* The unique index does.
SkuTaken(s) == \E p \in Products : product[p].st # "absent" /\ product[p].sku = s

\* BeforeCreate draws until no row has the SKU, and gives up for one made of the
\* product's id.  It runs in the transaction of the INSERT: a query that fails
\* fails that too.
DrawSku(r) ==
    LET slot == req[r]
        with(s) == req' = [req EXCEPT ![r] = [@ EXCEPT !.pc = "insert", !.tries = 0,
                                                       !.row = [slot.row EXCEPT !.sku = s]]] IN
    /\ slot.pc = "drawsku"
    /\ \/ \E s \in Skus :
             \/ ~SkuSeen(s) /\ with(s)
             \/ SkuSeen(s) /\ IF slot.tries + 1 < Attempts
                              THEN req' = [req EXCEPT ![r] = [@ EXCEPT !.tries = slot.tries + 1]]
                              ELSE with(slot.p)
       \/ QueryFails(r)
    /\ UNCHANGED <<product, category, contact>>

InsertProduct(r) ==
    LET slot == req[r]
        write == ~SkuTaken(slot.row.sku) /\ product' = [product EXCEPT ![slot.p] = slot.row] IN
    /\ slot.pc = "insert"
    /\ \/ write
       \/ SkuTaken(slot.row.sku) /\ UNCHANGED product
       \/ Fails(write, UNCHANGED product)
    /\ Reply(r)
    /\ UNCHANGED <<category, contact>>

-----------------------------------------------------------------------------
(***************************************************************************)
(* Save.                                                                   *)
(***************************************************************************)
ParseAbsentAsNull(raw) == [date |-> raw.date, changed |-> TRUE]
\* An absent field changes nothing, null clears the date.
ParseDateField(raw) == [date |-> raw.date, changed |-> raw.field # "absent"]

\* The row in memory with the columns the body names replaced.
Edited(row, body) ==
    LET entry == ParseDateField(body.date) IN
    [row EXCEPT !.cat = IF body.cat = NoCategory THEN @ ELSE body.cat,
                !.date = IF entry.changed THEN entry.date ELSE @,
                !.status = IF body.status = "keep" THEN @ ELSE body.status]

\* Save first inserts the category that was loaded with the row and takes the
\* foreign key from it again, whatever the body named.
Relinked(row, linked) == IF linked = NoCategory THEN row ELSE [row EXCEPT !.cat = linked]

InsertedOrReplaced(row) == [row EXCEPT !.st = "live"]
\* Rows loaded with a product are inserted ON CONFLICT DO NOTHING (category), or
\* updating product_id alone (contact): a row that is there stays as it is.
InsertedUnlessThere(row) == IF row.st = "absent" THEN [row EXCEPT !.st = "live"] ELSE row

\* A row that was deleted since it was read is inserted again, as it was read.
SaveProduct(r) ==
    LET slot == req[r]
        row == Relinked(Edited(slot.row, slot.body), slot.linked)
        write ==
            /\ product' = [product EXCEPT ![slot.p] = row]
            /\ category' = [c \in Categories |-> IF c = slot.linked
                               THEN InsertedUnlessThere(category[c]) ELSE category[c]]
            /\ contact' = [contact EXCEPT ![slot.p] = IF slot.spoken = NoValue
                               THEN @ ELSE InsertedUnlessThere(@)] IN
    /\ slot.pc = "save"
    /\ write \/ Fails(write, UNCHANGED <<product, category, contact>>)
    /\ Reply(r)

\* Categories and contacts are left as they are.
DeleteProduct(r) ==
    LET write == product' = [product EXCEPT ![req[r].p] = SoftDeleted(@)] IN
    /\ req[r].pc = "dbdelete"
    /\ write \/ Fails(write, UNCHANGED product)
    /\ Reply(r)
    /\ UNCHANGED <<category, contact>>

-----------------------------------------------------------------------------
(***************************************************************************)
(* Categories.  Their names are abstracted: an insertion or an update may  *)
(* conflict with the name of any row, deleted ones included.               *)
(***************************************************************************)
NameConflict(c) == \E d \in Categories \ {c} : category[d].st # "absent"

Refused(c) == NameConflict(c) \/ "badinput" \in Events

InsertCategory(r) ==
    LET c == req[r].cat
        write == category' = [category EXCEPT ![c] = [st |-> "live"]] IN
    /\ req[r].pc = "insertcategory"
    /\ \/ write
       \/ Refused(c) /\ UNCHANGED category
       \/ Fails(write, UNCHANGED category)
    /\ Reply(r)
    /\ UNCHANGED <<product, contact>>

\* Delete goes on when the query failed for another reason than no row.
FindCategory(r) ==
    LET c == req[r].cat
        next == IF req[r].op = "updatecat" THEN "savecategory" ELSE "deletecategory" IN
    /\ req[r].pc = "findcategory"
    /\ \/ LiveCategory(c) /\ Goto(r, next)
       \/ ~LiveCategory(c) /\ Reply(r)
       \/ "db" \in Events /\ IF req[r].op = "delcat" THEN Goto(r, next) ELSE Reply(r)
    /\ UNCHANGED <<product, category, contact>>

SaveCategory(r) ==
    LET c == req[r].cat
        write == category' = [category EXCEPT ![c] = [st |-> "live"]] IN
    /\ req[r].pc = "savecategory"
    /\ \/ write
       \/ Refused(c) /\ UNCHANGED category
       \/ Fails(write, UNCHANGED category)
    /\ Reply(r)
    /\ UNCHANGED <<product, contact>>

\* The products of the category are not looked at.
DeleteCategory(r) ==
    LET write == category' = [category EXCEPT ![req[r].cat] = SoftDeleted(@)] IN
    /\ req[r].pc = "deletecategory"
    /\ write \/ Fails(write, UNCHANGED category)
    /\ Reply(r)
    /\ UNCHANGED <<product, contact>>

ArriveProduct(r) == ArriveCreate(r) \/ ArriveUpdate(r) \/ ArriveDelete(r)

HandleProduct(r) == \/ FindProduct(r) \/ Preload(r) \/ CheckCategory(r) \/ DrawSku(r)
                    \/ InsertProduct(r) \/ SaveProduct(r) \/ DeleteProduct(r)

HandleCategory(r) == \/ InsertCategory(r) \/ FindCategory(r) \/ SaveCategory(r)
                     \/ DeleteCategory(r)
=============================================================================
