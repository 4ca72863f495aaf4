---------------------- MODULE Inventory_serial_proofs ----------------------
(***************************************************************************)
(* Proofs about Inventory where requests come one at a time, and about the *)
(* rows of categories and contacts, which they need.  Where a request is   *)
(* alone, what it has in memory is what is in the tables: that is the      *)
(* invariant Fresh, and each property says what a handler makes of it.     *)
(***************************************************************************)
EXTENDS Inventory_proofs

\* No request is under way while another one is.
Alone ==
    Serial => \A q, r \in Requests : q # r => req[q].pc = "idle" \/ req[r].pc = "idle"

\* A step of a handler for a request.
ProductStep(r) == (ArriveProduct(r) \/ HandleProduct(r)) /\ UNCHANGED <<account, held>>
CategoryStep(r) == (ArriveCategory(r) \/ HandleCategory(r)) /\ UNCHANGED <<account, held>>
ContactStep(r) == (ArriveContact(r) \/ HandleContact(r)) /\ UNCHANGED <<account, held>>
AccountStep(r) == (ArriveAccount(r) \/ HandleAccount(r)) /\ UNCHANGED tables
ReadStep(r) == (ArriveRead(r) \/ HandleRead(r)) /\ UNCHANGED <<tables, account, held>>

StepOf(r) == \/ ProductStep(r) \/ CategoryStep(r) \/ ContactStep(r) \/ AccountStep(r)
             \/ ReadStep(r)

-----------------------------------------------------------------------------
(***************************************************************************)
(* One request at a time.                                                  *)
(***************************************************************************)
\* A request that starts alone finds no other.
LEMMA Quiet ==
    ASSUME TypeOK, Serial, NEW r \in Requests, NEW slot, Start(r, slot)
    PROVE  \A q \in Requests : req[q].pc = "idle"
<1> DEFINE busy == {q \in Requests : req[q].pc # "idle"}
<1>1. IsFiniteSet(busy)
  BY TrafficAssumption, FS_Subset
<1>2. Cardinality(busy) \in Nat /\ Cardinality(busy) < 1
  BY <1>1, FS_CardinalityType DEF Start, Serial
<1>3. busy = {}
  BY <1>1, <1>2, FS_EmptySet
<1> QED BY <1>3

\* A step of a request is one of its start or one of a request under way.
LEMMA StartedOrBusy ==
    ASSUME NEW r \in Requests, StepOf(r)
    PROVE  req[r].pc # "idle" \/ \E slot : Start(r, slot)
<1>1. CASE ProductStep(r)
  BY <1>1 DEF ProductStep, ArriveProduct, HandleProduct, ArriveCreate, ArriveUpdate, ArriveDelete,
     FindProduct, Preload, CheckCategory, DrawSku, InsertProduct, SaveProduct, DeleteProduct
<1>2. CASE CategoryStep(r)
  BY <1>2 DEF CategoryStep, ArriveCategory, HandleCategory, InsertCategory, FindCategory,
     SaveCategory, DeleteCategory
<1>3. CASE ContactStep(r)
  BY <1>3 DEF ContactStep, ArriveContact, HandleContact, FindOwner, Upsert, ReadBack, Answer,
     DropContact
<1>4. CASE AccountStep(r)
  BY <1>4 DEF AccountStep, ArriveAccount, HandleAccount, ArriveSignIn, ArriveUpdateMe, ArriveAdmin,
     CreateAccount, FindAccount, Deliver, SaveAccount, DeleteAccount
<1>5. CASE ReadStep(r)
  BY <1>5 DEF ReadStep, ArriveRead, HandleRead, ArriveList, ArriveStats, CountProducts, ReadPage,
     StatsProducts, StatsCategories, StatsUsers, Report
<1> QED BY <1>1, <1>2, <1>3, <1>4, <1>5 DEF StepOf

\* A step of a request leaves the slots of the others alone, and there are none
\* where it is alone.
LEMMA Others ==
    ASSUME TypeOK, RolesThere, Alone, NEW r \in Requests, StepOf(r)
    PROVE  /\ \A q \in Requests \ {r} : req'[q] = req[q]
           /\ Serial => \A q \in Requests \ {r} : req[q].pc = "idle"
<1>1. \E kind \in {ProductRequest, CategoryRequest, ContactRequest, AccountRequest,
                   ListRequest \cup StatsRequest} : Becomes(r, kind)
  BY ProductTypes, CategoryTypes, ContactTypes, AccountTypes, ReadTypes
     DEF StepOf, ProductStep, CategoryStep, ContactStep, AccountStep, ReadStep
<1>2. \A q \in Requests \ {r} : req'[q] = req[q]
  BY <1>1, Kinds
<1>3. ASSUME Serial PROVE \A q \in Requests \ {r} : req[q].pc = "idle"
  BY <1>3, StartedOrBusy, Quiet DEF Alone
<1> QED BY <1>2, <1>3

\* What a step of Inventory is.
LEMMA StepCases ==
    ASSUME TypeOK, RolesThere, [Next]_vars
    PROVE  /\ UNCHANGED env
           /\ \/ UNCHANGED <<tables, account, req>>
              \/ \E r \in Requests : StepOf(r)
  BY Steps DEF StepOf, ProductStep, CategoryStep, ContactStep, AccountStep, ReadStep, Next, vars

LEMMA AloneKept == TypeOK /\ RolesThere /\ Alone /\ [Next]_vars => Alone'
<1> SUFFICES ASSUME TypeOK, RolesThere, Alone, [Next]_vars, Serial' PROVE Alone'
  BY DEF Alone
<1>1. Serial
  BY StepCases DEF Serial
<1>2. CASE UNCHANGED req
  BY <1>1, <1>2 DEF Alone
<1>3. ASSUME NEW r \in Requests, StepOf(r) PROVE Alone'
  BY <1>1, <1>3, Others DEF Alone
<1> QED BY <1>2, <1>3, StepCases

-----------------------------------------------------------------------------
(***************************************************************************)
(* Rows of categories.                                                     *)
(***************************************************************************)
\* The category of a creation is not there yet; that of any other request has been
\* there, and so has the one a product in memory was loaded with.
CategoriesInHand ==
    /\ \A r \in Requests : req[r].op = "createcat" <=> req[r].pc = "insertcategory"
    /\ \A r \in Requests : req[r].pc = "insertcategory" => category[req[r].cat].st = "absent"
    /\ \A q, r \in Requests :
          q # r /\ req[q].pc = "insertcategory" /\ req[r].pc = "insertcategory" =>
              req[q].cat # req[r].cat
    /\ \A r \in Requests : req[r].pc \in {"findcategory", "savecategory", "deletecategory"} =>
          category[req[r].cat].st # "absent"
    /\ \A r \in Requests : req[r].pc \in ProductPCs /\ req[r].linked # NoCategory =>
          category[req[r].linked].st # "absent"

\* Saving a product leaves the rows of categories as they are.
LEMMA SaveSparesCategories ==
    ASSUME TypeOK, CategoriesInHand, NEW r \in Requests, ProductStep(r)
    PROVE  UNCHANGED category
<1>t. category \in [Categories -> Category]
  BY DEF TypeOK
<1>1. CASE SaveProduct(r)
  <2>1. \/ category' = [c \in Categories |-> IF c = req[r].linked
                           THEN InsertedUnlessThere(category[c]) ELSE category[c]]
        \/ UNCHANGED category
    BY <1>1 DEF SaveProduct, Fails
  <2>2. \A c \in Categories : c = req[r].linked => category[c].st # "absent"
    BY <1>1, CatalogueAssumption DEF CategoriesInHand, SaveProduct, ProductPCs
  <2>3. \A c \in Categories : c = req[r].linked => InsertedUnlessThere(category[c]) = category[c]
    BY <2>2 DEF InsertedUnlessThere
  <2> QED BY <1>t, <2>1, <2>3
<1> QED
  BY <1>1 DEF ProductStep, ArriveProduct, HandleProduct, ArriveCreate, ArriveUpdate, ArriveDelete,
     FindProduct, Preload, CheckCategory, DrawSku, InsertProduct, DeleteProduct

\* What a step does to the rows of categories.
LEMMA CategoryRows ==
    ASSUME TypeOK, RolesThere, CategoriesInHand, NEW r \in Requests, StepOf(r), NEW c \in Categories
    PROVE  \/ category'[c] = category[c]
           \/ /\ req[r].pc = "insertcategory" /\ req[r].cat = c
              /\ category[c].st = "absent" /\ Reply(r)
           \/ /\ req[r].cat = c /\ category[c].st # "absent" /\ category'[c].st # "absent"
              /\ req[r].pc = "savecategory" \/ category'[c].st = "deleted"
<1>t. category \in [Categories -> Category]
  BY DEF TypeOK
<1>q. req[r].pc \in CategoryPCs => req[r].cat \in Categories
  BY Slots DEF CategoryRequest
<1>1. CASE InsertCategory(r)
  <2>1. req[r].pc = "insertcategory" /\ req[r].cat \in Categories /\ Reply(r)
    BY <1>1, <1>q DEF InsertCategory, CategoryPCs
  <2>2. \/ category' = [category EXCEPT ![req[r].cat] = [st |-> "live"]]
        \/ UNCHANGED category
    BY <1>1 DEF InsertCategory, Fails
  <2> QED BY <1>t, <2>1, <2>2 DEF CategoriesInHand
<1>2. CASE SaveCategory(r)
  <2>1. req[r].pc = "savecategory" /\ req[r].cat \in Categories
    BY <1>2, <1>q DEF SaveCategory, CategoryPCs
  <2>2. \/ category' = [category EXCEPT ![req[r].cat] = [st |-> "live"]]
        \/ UNCHANGED category
    BY <1>2 DEF SaveCategory, Fails
  <2>3. [st |-> "live"].st = "live"
    OBVIOUS
  <2> QED BY <1>t, <2>1, <2>2, <2>3 DEF CategoriesInHand
<1>3. CASE DeleteCategory(r)
  <2>1. req[r].pc = "deletecategory" /\ req[r].cat \in Categories
    BY <1>3, <1>q DEF DeleteCategory, CategoryPCs
  <2>2. \/ category' = [category EXCEPT ![req[r].cat] = SoftDeleted(category[req[r].cat])]
        \/ UNCHANGED category
    BY <1>3 DEF DeleteCategory, Fails
  <2>3. \/ SoftDeleted(category[req[r].cat]) = category[req[r].cat]
        \/ SoftDeleted(category[req[r].cat]).st = "deleted"
    BY <1>t, <2>1 DEF SoftDeleted, Category
  <2> QED BY <1>t, <2>1, <2>2, <2>3 DEF CategoriesInHand
<1>4. CASE ProductStep(r)
  BY <1>4, SaveSparesCategories
<1>5. CASE ContactStep(r)
  BY <1>5 DEF ContactStep, ArriveContact, HandleContact, FindOwner, Upsert, ReadBack, Answer,
     DropContact
<1>6. CASE AccountStep(r) \/ ReadStep(r)
  BY <1>6 DEF AccountStep, ReadStep, tables
<1> QED
  BY <1>1, <1>2, <1>3, <1>4, <1>5, <1>6
     DEF StepOf, CategoryStep, ArriveCategory, HandleCategory, FindCategory

\* What a step of a kind leaves in the slot of its request.
LEMMA SlotAfter ==
    ASSUME TypeOK, RolesThere, NEW r \in Requests, StepOf(r)
    PROVE  /\ \A q \in Requests \ {r} : req'[q] = req[q]
           /\ ProductStep(r) => req'[r] \in ProductRequest \cup {Idle}
           /\ CategoryStep(r) => req'[r] \in CategoryRequest \cup {Idle}
           /\ ContactStep(r) => req'[r] \in ContactRequest \cup {Idle}
           /\ AccountStep(r) => req'[r] \in AccountRequest \cup {Idle}
           /\ ReadStep(r) => req'[r] \in ListRequest \cup StatsRequest \cup {Idle}
  BY ProductTypes, CategoryTypes, ContactTypes, AccountTypes, ReadTypes, Kinds
     DEF StepOf, ProductStep, CategoryStep, ContactStep, AccountStep, ReadStep

\* Slots that are not about a category.
LEMMA OtherOps ==
    \A q : q \in ProductRequest \cup ContactRequest \cup AccountRequest \cup ListRequest
               \cup StatsRequest \cup {Idle} =>
        q.op # "createcat" /\ q.pc \notin CategoryPCs
<1>1. \A q \in ProductRequest \cup {Idle} : q.op # "createcat" /\ q.pc \notin CategoryPCs
  BY DEF ProductRequest, Idle, CategoryPCs
<1>2. \A q \in ContactRequest : q.op # "createcat" /\ q.pc \notin CategoryPCs
  BY DEF ContactRequest, ContactOps, CategoryPCs
<1>3. \A q \in AccountRequest : q.op # "createcat" /\ q.pc \notin CategoryPCs
  BY DEF AccountRequest, AccountOps, CategoryPCs
<1>4. \A q \in ListRequest \cup StatsRequest : q.op # "createcat" /\ q.pc \notin CategoryPCs
  BY DEF ListRequest, StatsRequest, CategoryPCs
<1> QED BY <1>1, <1>2, <1>3, <1>4

\* ... and slots that are not about a product.
LEMMA OtherCounters ==
    \A q : q \in CategoryRequest \cup ContactRequest \cup AccountRequest \cup ListRequest
               \cup StatsRequest \cup {Idle} => q.pc \notin ProductPCs
<1>1. \A q \in CategoryRequest \cup {Idle} : q.pc \notin ProductPCs
  BY DEF CategoryRequest, Idle, ProductPCs
<1>2. \A q \in ContactRequest : q.pc \notin ProductPCs
  BY DEF ContactRequest, ProductPCs
<1>3. \A q \in AccountRequest : q.pc \notin ProductPCs
  BY DEF AccountRequest, ProductPCs
<1>4. \A q \in ListRequest \cup StatsRequest : q.pc \notin ProductPCs
  BY DEF ListRequest, StatsRequest, ProductPCs
<1> QED BY <1>1, <1>2, <1>3, <1>4

\* The category a product in memory was loaded with: none, or one that is live then.
LEMMA LinkedAfter ==
    ASSUME TypeOK, CategoriesInHand, NEW r \in Requests, ProductStep(r),
           req'[r].pc \in ProductPCs, req'[r].linked # NoCategory
    PROVE  category[req'[r].linked].st # "absent"
<1>t. req \in [Requests -> Request]
  BY DEF TypeOK
<1>i. ~Reply(r)
  BY <1>t DEF Reply, Idle, ProductPCs
<1>q. req[r].pc \in ProductPCs => req[r] \in ProductRequest
  BY Slots
<1>1. CASE ArriveProduct(r)
  <2>1. \A op, pc, t, p, row, body : ProductSlot(op, pc, t, p, row, body).linked = NoCategory
    BY DEF ProductSlot
  <2>2. CASE ArriveCreate(r)
    BY <1>t, <2>1, <2>2 DEF ArriveCreate, Start
  <2>3. CASE ArriveUpdate(r)
    BY <1>t, <2>1, <2>3 DEF ArriveUpdate, Start
  <2>4. CASE ArriveDelete(r)
    BY <1>t, <2>1, <2>4 DEF ArriveDelete, Start
  <2> QED BY <1>1, <2>2, <2>3, <2>4 DEF ArriveProduct
<1>2. CASE Preload(r)
  <2> DEFINE linked == IF req[r].row.cat # NoCategory /\ LiveCategory(req[r].row.cat)
                       THEN req[r].row.cat ELSE NoCategory
  <2>1. \E pc, v : req' = [req EXCEPT ![r] = [req[r] EXCEPT !.pc = pc, !.linked = linked,
                                                           !.spoken = v]]
    BY <1>2, <1>i DEF Preload, QueryFails
  <2>2. req[r] \in ProductRequest
    BY <1>2, <1>q DEF Preload, ProductPCs
  <2>3. req'[r].linked = linked
    BY <1>t, <2>1, <2>2 DEF ProductRequest
  <2> QED BY <2>3 DEF LiveCategory
<1>3. CASE FindProduct(r) \/ CheckCategory(r) \/ DrawSku(r)
  <2>1. req[r] \in ProductRequest /\ req[r].pc \in ProductPCs
    BY <1>3, <1>q DEF FindProduct, CheckCategory, DrawSku, ProductPCs
  <2>2. \/ \E pc, row : req' = [req EXCEPT ![r] = [req[r] EXCEPT !.pc = pc, !.row = row]]
        \/ \E pc : req' = [req EXCEPT ![r] = [req[r] EXCEPT !.pc = pc]]
        \/ \E s : req' = [req EXCEPT ![r] = [req[r] EXCEPT !.pc = "insert", !.tries = 0,
                                                           !.row = [req[r].row EXCEPT !.sku = s]]]
        \/ \E n : req' = [req EXCEPT ![r] = [req[r] EXCEPT !.tries = n]]
    BY <1>3, <1>i DEF FindProduct, CheckCategory, DrawSku, QueryFails, Goto
  <2>3. req'[r].linked = req[r].linked
    BY <1>t, <2>1, <2>2 DEF ProductRequest
  <2> QED BY <2>1, <2>3 DEF CategoriesInHand
<1>4. CASE InsertProduct(r) \/ SaveProduct(r) \/ DeleteProduct(r)
  BY <1>4, <1>i DEF InsertProduct, SaveProduct, DeleteProduct
<1> QED BY <1>1, <1>2, <1>3, <1>4 DEF ProductStep, HandleProduct

\* The slot of a step about a category.
LEMMA CategoryAfter ==
    ASSUME TypeOK, CategoriesInHand, NEW r \in Requests, CategoryStep(r), ~Reply(r)
    PROVE  /\ UNCHANGED category
           /\ req'[r].op = "createcat" <=> req'[r].pc = "insertcategory"
           /\ req'[r].pc = "insertcategory" =>
                 /\ category[req'[r].cat].st = "absent"
                 /\ \A q \in Requests : req[q].op = "createcat" => req[q].cat # req'[r].cat
           /\ req'[r].pc # "insertcategory" => category[req'[r].cat].st # "absent"
<1>t. req \in [Requests -> Request]
  BY DEF TypeOK
<1>1. CASE ArriveCategory(r)
  <2>1. \/ \E t, c : /\ category[c].st = "absent"
                     /\ \A q \in Requests : req[q].op = "createcat" => req[q].cat # c
                     /\ req' = [req EXCEPT ![r] = CategorySlot("createcat", "insertcategory", t, c)]
        \/ \E t, c : \E op \in {"updatecat", "delcat"} :
              /\ category[c].st # "absent"
              /\ req' = [req EXCEPT ![r] = CategorySlot(op, "findcategory", t, c)]
    BY <1>1 DEF ArriveCategory, Start
  <2> QED BY <1>1, <1>t, <2>1 DEF ArriveCategory, CategorySlot
<1>2. CASE FindCategory(r)
  <2>1. req[r] \in CategoryRequest /\ req[r].pc = "findcategory"
    BY <1>2, Slots DEF FindCategory, CategoryPCs
  <2>2. \E pc \in {"savecategory", "deletecategory"} :
            req' = [req EXCEPT ![r] = [req[r] EXCEPT !.pc = pc]]
    BY <1>2 DEF FindCategory, Goto
  <2>3. /\ req'[r].pc \in {"savecategory", "deletecategory"}
        /\ req'[r].op = req[r].op /\ req'[r].cat = req[r].cat
    BY <1>t, <2>1, <2>2 DEF CategoryRequest
  <2> QED BY <1>2, <2>1, <2>3 DEF CategoriesInHand, FindCategory
<1> QED
  BY <1>1, <1>2 DEF CategoryStep, HandleCategory, InsertCategory, SaveCategory, DeleteCategory

LEMMA CategoriesKept ==
    TypeOK /\ RolesThere /\ CategoriesInHand /\ [Next]_vars => CategoriesInHand'
<1> SUFFICES ASSUME TypeOK, RolesThere, CategoriesInHand, [Next]_vars PROVE CategoriesInHand'
  OBVIOUS
<1>1. CASE UNCHANGED <<tables, req>>
  BY <1>1 DEF CategoriesInHand, tables
<1>2. ASSUME NEW r \in Requests, StepOf(r) PROVE CategoriesInHand'
  <2>o. \A q \in Requests \ {r} : req'[q] = req[q]
    BY <1>2, SlotAfter
  <2>r. \A c \in Categories :
           /\ category[c].st # "absent" => category'[c].st # "absent"
           /\ category[c].st = "absent" =>
                 \/ category'[c].st = "absent"
                 \/ req[r].pc = "insertcategory" /\ req[r].cat = c
    BY <1>2, CategoryRows
  <2>c. \A q \in Requests : req[q].pc \in CategoryPCs => req[q].cat \in Categories
    BY Slots DEF CategoryRequest
  <2>l. \A q \in Requests : req[q].pc \in ProductPCs /\ req[q].linked # NoCategory =>
           req[q].linked \in Categories
    BY Slots DEF ProductRequest
  <2>s. \/ /\ req'[r].op # "createcat" /\ req'[r].pc \notin CategoryPCs
        \/ CategoryStep(r) /\ ~Reply(r)
    <3>1. CASE CategoryStep(r)
      BY <3>1, OtherOps DEF Reply, TypeOK
    <3>2. CASE ~CategoryStep(r)
      BY <1>2, <3>2, SlotAfter, OtherOps DEF StepOf
    <3> QED BY <3>1, <3>2
  <2>1. ASSUME NEW q \in Requests
        PROVE  /\ req'[q].op = "createcat" <=> req'[q].pc = "insertcategory"
               /\ req'[q].pc = "insertcategory" => category'[req'[q].cat].st = "absent"
               /\ req'[q].pc \in {"findcategory", "savecategory", "deletecategory"} =>
                     category'[req'[q].cat].st # "absent"
    <3>1. CASE q = r
      BY <1>2, <2>s, <3>1, CategoryAfter DEF CategoryPCs
    <3>2. CASE q # r
      <4>1. req[q].pc = "insertcategory" =>
                ~(req[r].pc = "insertcategory" /\ req[r].cat = req[q].cat)
        BY <3>2 DEF CategoriesInHand
      <4> QED BY <2>o, <2>r, <2>c, <3>2, <4>1 DEF CategoriesInHand, CategoryPCs
    <3> QED BY <3>1, <3>2
  <2>2. ASSUME NEW p \in Requests, NEW q \in Requests, p # q,
               req'[p].pc = "insertcategory", req'[q].pc = "insertcategory"
        PROVE  req'[p].cat # req'[q].cat
    BY <1>2, <2>o, <2>s, <2>2, CategoryAfter DEF CategoriesInHand, CategoryPCs
  <2>3. ASSUME NEW q \in Requests, req'[q].pc \in ProductPCs, req'[q].linked # NoCategory
        PROVE  category'[req'[q].linked].st # "absent"
    <3>1. CASE q = r
      <4>1. req'[r] \in ProductRequest /\ ProductStep(r)
        BY <1>2, <2>3, <3>1, SlotAfter, OtherCounters DEF StepOf
      <4>2. req'[r].linked \in Categories
        BY <2>3, <3>1, <4>1 DEF ProductRequest
      <4>3. category[req'[r].linked].st # "absent"
        BY <2>3, <3>1, <4>1, LinkedAfter
      <4> QED BY <2>r, <3>1, <4>2, <4>3
    <3>2. CASE q # r
      BY <2>o, <2>r, <2>l, <2>3, <3>2 DEF CategoriesInHand
    <3> QED BY <3>1, <3>2
  <2> QED BY <2>1, <2>2, <2>3 DEF CategoriesInHand
<1> QED BY <1>1, <1>2, StepCases

-----------------------------------------------------------------------------
(***************************************************************************)
(* What a request that is alone has in memory.                             *)
(***************************************************************************)
\* The product in memory is the product's row, and the categories it is to be in
\* are live.
FreshProduct(r) ==
    LET slot == req[r] IN
    /\ slot.pc \in {"preload", "checkcategory", "save", "dbdelete"} /\ slot.op # "create" =>
          slot.row = product[slot.p] /\ Live(slot.p)
    /\ slot.pc \in {"checkcategory", "save"} /\ slot.op # "create" /\ slot.linked # NoCategory =>
          slot.linked = slot.row.cat /\ LiveCategory(slot.linked)
    /\ slot.pc \in {"drawsku", "insert"} /\ slot.row.cat # NoCategory => LiveCategory(slot.row.cat)
    /\ slot.pc = "save" /\ slot.body.cat # NoCategory => LiveCategory(slot.body.cat)

FreshCategory(r) == req[r].pc = "savecategory" => LiveCategory(req[r].cat)

FreshContact(r) ==
    /\ req[r].pc = "upsert" => Live(req[r].p)
    /\ req[r].pc \in {"readback", "answer"} /\ "delcontact" \notin Ops =>
          contact[req[r].p] = [st |-> "live", val |-> req[r].val]
    /\ req[r].pc = "answer" /\ "delcontact" \notin Ops => req[r].said = req[r].val

FreshAccount(r) ==
    req[r].op # "setuser" =>
        /\ req[r].pc = "finduser" => req[r].role = "keep"
        /\ req[r].pc = "saveuser" => req[r].role = account[req[r].user].role

LiveCategories == {c \in Categories : LiveCategory(c)}
LiveAccounts == {u \in Users : LiveAccount(u)}

FreshStats(r) ==
    /\ req[r].pc \in {"countcategories", "countusers", "report"} =>
          /\ req[r].figures.products = Cardinality(LiveProducts)
          /\ req[r].figures.repaired = Cardinality(RepairedProducts)
    /\ req[r].pc \in {"countusers", "report"} =>
          req[r].figures.categories = Cardinality(LiveCategories)
    /\ req[r].pc = "report" => req[r].figures.users = Cardinality(LiveAccounts)

Fresh(r) ==
    FreshProduct(r) /\ FreshCategory(r) /\ FreshContact(r) /\ FreshAccount(r) /\ FreshStats(r)

Settled == Serial => \A r \in Requests : Fresh(r)

\* A slot of one kind says nothing about the others after a step, and a free one
\* nothing at all.
LEMMA FreshKinds ==
    ASSUME NEW r \in Requests
    PROVE  /\ req'[r].pc \notin ProductPCs => FreshProduct(r)'
           /\ req'[r].pc # "savecategory" => FreshCategory(r)'
           /\ req'[r].pc \notin ContactPCs => FreshContact(r)'
           /\ req'[r].pc \notin AccountPCs => FreshAccount(r)'
           /\ req'[r].pc \notin StatsPCs => FreshStats(r)'
  BY DEF FreshProduct, FreshCategory, FreshContact, FreshAccount, FreshStats, ProductPCs,
     ContactPCs, AccountPCs, StatsPCs

LEMMA IdleFresh ==
    ASSUME NEW r \in Requests, req'[r].pc = "idle"
    PROVE  Fresh(r)'
  BY FreshKinds DEF Fresh, ProductPCs, ContactPCs, AccountPCs, StatsPCs

LEMMA ProductFresh ==
    ASSUME TypeOK, ProductsInHand, NEW r \in Requests, ProductStep(r), ~Reply(r), FreshProduct(r)
    PROVE  FreshProduct(r)'
<1>t. req \in [Requests -> Request]
  BY DEF TypeOK
<1>q. req[r].pc \in ProductPCs =>
         /\ req[r] \in ProductRequest /\ req[r].op \in ProductOps
         /\ InHand(req[r], product[req[r].p])
  BY Slots DEF ProductRequest, ProductOps, ProductsInHand
<1>u. ~(InsertProduct(r) \/ SaveProduct(r) \/ DeleteProduct(r))
  BY DEF InsertProduct, SaveProduct, DeleteProduct
<1>k. UNCHANGED <<product, category, contact>>
  BY <1>u DEF ProductStep, ArriveProduct, HandleProduct, ArriveCreate, ArriveUpdate, ArriveDelete,
     FindProduct, Preload, CheckCategory, DrawSku
<1>v. ASSUME LET slot == req'[r] IN
             /\ slot.pc \in {"preload", "checkcategory", "save", "dbdelete"} /\ slot.op # "create" =>
                   slot.row = product[slot.p] /\ Live(slot.p)
             /\ slot.pc \in {"checkcategory", "save"} /\ slot.op # "create"
                /\ slot.linked # NoCategory => slot.linked = slot.row.cat /\ LiveCategory(slot.linked)
             /\ slot.pc \in {"drawsku", "insert"} /\ slot.row.cat # NoCategory =>
                   LiveCategory(slot.row.cat)
             /\ slot.pc = "save" /\ slot.body.cat # NoCategory => LiveCategory(slot.body.cat)
      PROVE  FreshProduct(r)'
  BY <1>v, <1>k DEF FreshProduct, Live, LiveCategory
<1>1. CASE ArriveCreate(r)
  <2>1. PICK t, p, c, row : /\ row.cat = c
                            /\ Start(r, ProductSlot("create", IF c = NoCategory THEN "drawsku"
                                               ELSE "checkcategory", t, p, row, NoBody))
    BY <1>1 DEF ArriveCreate
  <2>2. /\ req'[r].op = "create" /\ req'[r].pc = IF c = NoCategory THEN "drawsku" ELSE "checkcategory"
        /\ req'[r].row.cat = c
    BY <1>t, <2>1 DEF Start, ProductSlot
  <2> QED BY <1>v, <2>2
<1>2. CASE ArriveUpdate(r) \/ ArriveDelete(r)
  <2>1. \A op, t, p, row, body : ProductSlot(op, "find", t, p, row, body).pc = "find"
    BY DEF ProductSlot
  <2>2. ASSUME NEW op, NEW t, NEW p, NEW row, NEW body,
               Start(r, ProductSlot(op, "find", t, p, row, body))
        PROVE  req'[r].pc = "find"
    BY <1>t, <2>1, <2>2 DEF Start
  <2>3. CASE ArriveUpdate(r)
    BY <1>v, <2>2, <2>3 DEF ArriveUpdate
  <2>4. CASE ArriveDelete(r)
    BY <1>v, <2>2, <2>4 DEF ArriveDelete
  <2> QED BY <1>2, <2>3, <2>4
<1>3. CASE FindProduct(r)
  <2>1. req[r] \in ProductRequest /\ Live(req[r].p)
    BY <1>3, <1>q DEF FindProduct, ProductPCs, QueryFails
  <2>2. req' = [req EXCEPT ![r] = [req[r] EXCEPT !.pc = "preload", !.row = product[req[r].p]]]
    BY <1>3 DEF FindProduct, QueryFails
  <2>3. req'[r].pc = "preload" /\ req'[r].p = req[r].p /\ req'[r].row = product[req[r].p]
    BY <1>t, <2>1, <2>2 DEF ProductRequest
  <2> QED BY <1>v, <2>1, <2>3
<1>4. CASE Preload(r)
  <2>1. /\ req[r] \in ProductRequest /\ req[r].pc = "preload" /\ req[r].op # "create"
        /\ req[r].op \in {"update", "delete"} /\ req[r].row = product[req[r].p] /\ Live(req[r].p)
    BY <1>4, <1>q DEF Preload, ProductPCs, ProductOps, InHand, FreshProduct
  <2> DEFINE linked == IF req[r].row.cat # NoCategory /\ LiveCategory(req[r].row.cat)
                       THEN req[r].row.cat ELSE NoCategory
  <2>2. \E v : req' = [req EXCEPT ![r] = [req[r] EXCEPT !.pc = AfterLoad(req[r]),
                                                       !.linked = linked, !.spoken = v]]
    BY <1>4 DEF Preload, QueryFails
  <2>3. /\ req'[r].pc = AfterLoad(req[r]) /\ req'[r].op = req[r].op /\ req'[r].p = req[r].p
        /\ req'[r].row = req[r].row /\ req'[r].body = req[r].body /\ req'[r].linked = linked
    BY <1>t, <2>1, <2>2 DEF ProductRequest
  <2>4. /\ AfterLoad(req[r]) \in {"checkcategory", "save", "dbdelete"}
        /\ AfterLoad(req[r]) = "save" => req[r].body.cat = NoCategory
    BY DEF AfterLoad
  <2> QED BY <1>v, <2>1, <2>3, <2>4
<1>5. CASE CheckCategory(r)
  <2>1. req[r] \in ProductRequest /\ req[r].pc = "checkcategory"
    BY <1>5, <1>q DEF CheckCategory, ProductPCs
  <2>2. /\ LiveCategory(IF req[r].op = "create" THEN req[r].row.cat ELSE req[r].body.cat)
        /\ req' = [req EXCEPT ![r] = [req[r] EXCEPT !.pc =
                      IF req[r].op = "create" THEN "drawsku" ELSE "save"]]
    BY <1>5 DEF CheckCategory, QueryFails, Goto
  <2>3. /\ req'[r].pc = (IF req[r].op = "create" THEN "drawsku" ELSE "save")
        /\ req'[r].op = req[r].op /\ req'[r].p = req[r].p /\ req'[r].row = req[r].row
        /\ req'[r].body = req[r].body /\ req'[r].linked = req[r].linked
    BY <1>t, <2>1, <2>2 DEF ProductRequest
  <2> QED BY <1>v, <2>1, <2>2, <2>3 DEF FreshProduct
<1>6. CASE DrawSku(r)
  <2>1. req[r] \in ProductRequest /\ req[r].pc = "drawsku"
    BY <1>6, <1>q DEF DrawSku, ProductPCs
  <2> DEFINE with(s) == [req[r].row EXCEPT !.sku = s]
             drawn(s) == [req[r] EXCEPT !.pc = "insert", !.tries = 0, !.row = with(s)]
             again(n) == [req[r] EXCEPT !.tries = n]
  <2>2. \/ \E s : req' = [req EXCEPT ![r] = drawn(s)]
        \/ \E n : req' = [req EXCEPT ![r] = again(n)]
    BY <1>6 DEF DrawSku, QueryFails
  <2>3. req[r].row \in Product
    BY <2>1 DEF ProductRequest
  <2>4. \A s : with(s).cat = req[r].row.cat
    BY <2>3 DEF Product
  <2> HIDE DEF with
  <2>5. /\ \A s : drawn(s).pc = "insert" /\ drawn(s).row = with(s)
        /\ \A n : again(n).pc = "drawsku" /\ again(n).row = req[r].row
    BY <2>1 DEF ProductRequest
  <2> HIDE DEF drawn, again
  <2>6. \A s : /\ drawn(s).row.cat = req[r].row.cat
               /\ again(s).row.cat = req[r].row.cat
    BY <2>4, <2>5
  <2>7. \E s : req'[r] = drawn(s) \/ req'[r] = again(s)
    BY <1>t, <2>2
  <2> QED BY <1>v, <2>1, <2>5, <2>6, <2>7 DEF FreshProduct
<1> QED BY <1>u, <1>1, <1>2, <1>3, <1>4, <1>5, <1>6 DEF ProductStep, ArriveProduct, HandleProduct

LEMMA CategoryFresh ==
    ASSUME TypeOK, NEW r \in Requests, CategoryStep(r), ~Reply(r), FreshCategory(r)
    PROVE  FreshCategory(r)'
<1>t. req \in [Requests -> Request]
  BY DEF TypeOK
<1>1. CASE ArriveCategory(r)
  <2>1. \A op, t, c : /\ CategorySlot(op, "findcategory", t, c).pc = "findcategory"
                     /\ CategorySlot(op, "insertcategory", t, c).pc = "insertcategory"
    BY DEF CategorySlot
  <2>2. ASSUME NEW op, NEW t, NEW c,
               \/ Start(r, CategorySlot(op, "findcategory", t, c))
               \/ Start(r, CategorySlot(op, "insertcategory", t, c))
        PROVE  req'[r].pc # "savecategory"
    BY <1>t, <2>1, <2>2 DEF Start
  <2>3. req'[r].pc # "savecategory"
    BY <1>1, <2>2 DEF ArriveCategory
  <2> QED BY <2>3 DEF FreshCategory
<1>2. CASE FindCategory(r)
  <2>1. req[r] \in CategoryRequest
    BY <1>2, Slots DEF FindCategory, CategoryPCs
  <2>2. \/ /\ LiveCategory(req[r].cat)
           /\ \E pc : req' = [req EXCEPT ![r] = [req[r] EXCEPT !.pc = pc]]
        \/ req' = [req EXCEPT ![r] = [req[r] EXCEPT !.pc = "deletecategory"]]
    <3>1. req[r].op \in {"updatecat", "delcat"} \/ req[r].op = "createcat"
      BY <2>1 DEF CategoryRequest
    <3> QED BY <1>2, <3>1 DEF FindCategory, Goto
  <2>3. /\ req'[r].cat = req[r].cat
        /\ req'[r].pc = "savecategory" => LiveCategory(req[r].cat)
    BY <1>t, <2>1, <2>2 DEF CategoryRequest
  <2>4. UNCHANGED category
    BY <1>2 DEF FindCategory
  <2> QED BY <2>3, <2>4 DEF FreshCategory, LiveCategory
<1> QED
  BY <1>1, <1>2 DEF CategoryStep, HandleCategory, InsertCategory, SaveCategory, DeleteCategory

-----------------------------------------------------------------------------
\* Contacts: no contact is deleted, where nobody deletes any.
ContactsThere ==
    "delcontact" \notin Ops =>
        /\ \A p \in Products : contact[p].st # "deleted"
        /\ \A r \in Requests : req[r].pc \in {"readback", "answer"} => contact[req[r].p].st = "live"
        /\ \A r \in Requests : req[r].pc # "dropcontact"

\* What a step does to the rows of contacts.
LEMMA ContactRows ==
    ASSUME TypeOK, RolesThere, NEW r \in Requests, StepOf(r), NEW p \in Products
    PROVE  \/ contact'[p] = contact[p]
           \/ /\ req[r].pc = "upsert" /\ req[r].p = p
              /\ contact'[p] = Upserted(contact[p], req[r].val)
           \/ /\ contact'[p].val = contact[p].val
              /\ contact'[p].st = "live" \/ req[r].pc = "dropcontact"
<1>t. contact \in [Products -> Contact]
  BY DEF TypeOK
<1>1. CASE Upsert(r)
  <2>1. req[r].pc = "upsert" /\ req[r].p \in Products
    BY <1>1, Slots DEF Upsert, ContactPCs, ContactRequest
  <2>2. \/ contact' = [contact EXCEPT ![req[r].p] = Upserted(contact[req[r].p], req[r].val)]
        \/ UNCHANGED contact
    BY <1>1 DEF Upsert, Fails
  <2> QED BY <1>t, <2>1, <2>2
<1>2. CASE DropContact(r)
  <2>1. req[r].pc = "dropcontact" /\ req[r].p \in Products
    BY <1>2, Slots DEF DropContact, ContactPCs, ContactRequest
  <2>2. \/ contact' = [contact EXCEPT ![req[r].p] = SoftDeleted(contact[req[r].p])]
        \/ UNCHANGED contact
    BY <1>2 DEF DropContact, Fails
  <2>3. SoftDeleted(contact[req[r].p]).val = contact[req[r].p].val
    BY <1>t, <2>1 DEF SoftDeleted, Contact
  <2> QED BY <1>t, <2>1, <2>2, <2>3
<1>3. CASE SaveProduct(r)
  <2>1. req[r].p \in Products
    BY <1>3, Slots DEF SaveProduct, ProductPCs, ProductRequest
  <2>2. \/ contact' = [contact EXCEPT ![req[r].p] = InsertedUnlessThere(contact[req[r].p])]
        \/ contact' = [contact EXCEPT ![req[r].p] = contact[req[r].p]]
        \/ UNCHANGED contact
    BY <1>3 DEF SaveProduct, Fails
  <2>3. \/ InsertedUnlessThere(contact[req[r].p]) = contact[req[r].p]
        \/ /\ InsertedUnlessThere(contact[req[r].p]).val = contact[req[r].p].val
           /\ InsertedUnlessThere(contact[req[r].p]).st = "live"
    BY <1>t, <2>1 DEF InsertedUnlessThere, Contact
  <2> QED BY <1>t, <2>1, <2>2, <2>3
<1>4. CASE CategoryStep(r)
  BY <1>4, CategoryTypes DEF CategoryStep
<1>5. CASE AccountStep(r) \/ ReadStep(r)
  BY <1>5 DEF AccountStep, ReadStep, tables
<1> QED
  BY <1>1, <1>2, <1>3, <1>4, <1>5
     DEF StepOf, ProductStep, ArriveProduct, HandleProduct, ArriveCreate, ArriveUpdate,
         ArriveDelete, FindProduct, Preload, CheckCategory, DrawSku, InsertProduct, DeleteProduct,
         ContactStep, ArriveContact, HandleContact, FindOwner, ReadBack, Answer

\* An upsert of a contact that is not deleted makes it what the body says.
LEMMA UpsertedLive ==
    ASSUME NEW row \in Contact, row.st # "deleted", NEW v
    PROVE  Upserted(row, v) = [st |-> "live", val |-> v]
  BY DEF Upserted, Contact, RowStatus

\* The slot of a step about a contact.
LEMMA ContactAfter ==
    ASSUME TypeOK, NEW r \in Requests, ContactStep(r), ~Reply(r)
    PROVE  \/ /\ req'[r].pc = "findowner" /\ UNCHANGED contact
           \/ /\ req'[r].pc = "dropcontact" /\ "delcontact" \in Ops /\ UNCHANGED contact
           \/ /\ req'[r].pc = "upsert" /\ Live(req'[r].p) /\ UNCHANGED contact
           \/ /\ req[r].pc = "upsert" /\ req'[r].pc = "readback"
              /\ req'[r].p = req[r].p /\ req'[r].val = req[r].val /\ req[r].p \in Products
              /\ contact' = [contact EXCEPT ![req[r].p] = Upserted(contact[req[r].p], req[r].val)]
           \/ /\ req[r].pc = "readback" /\ req'[r].pc = "answer" /\ UNCHANGED contact
              /\ req'[r].p = req[r].p /\ req'[r].val = req[r].val /\ req[r].p \in Products
              /\ req'[r].said \in {contact[req[r].p].val, req[r].val}
<1>t. req \in [Requests -> Request]
  BY DEF TypeOK
<1>1. CASE ArriveContact(r)
  <2>1. \A op, t, p, v, pc : /\ ContactSlot(op, pc, t, p, v).pc = pc
                            /\ ContactSlot(op, pc, t, p, v).op = op
    BY DEF ContactSlot
  <2>2. PICK op, p, t, v :
            /\ op \in ContactOps
            /\ Start(r, IF op = "putcontact" THEN ContactSlot(op, "findowner", t, p, v)
                                             ELSE ContactSlot(op, "dropcontact", t, p, NoValue))
    BY <1>1 DEF ArriveContact
  <2>3. CASE op = "putcontact"
    BY <1>1, <1>t, <2>1, <2>2, <2>3 DEF Start, ArriveContact
  <2>4. CASE op = "delcontact"
    BY <1>1, <1>t, <2>1, <2>2, <2>4 DEF Start, ArriveContact
  <2> QED BY <2>2, <2>3, <2>4 DEF ContactOps
<1>2. CASE FindOwner(r)
  <2>1. req[r] \in ContactRequest
    BY <1>2, Slots DEF FindOwner, ContactPCs
  <2>2. Live(req[r].p) /\ req' = [req EXCEPT ![r] = [req[r] EXCEPT !.pc = "upsert"]]
    BY <1>2 DEF FindOwner, QueryFails, Goto
  <2>3. req'[r].pc = "upsert" /\ req'[r].p = req[r].p
    BY <1>t, <2>1, <2>2 DEF ContactRequest
  <2> QED BY <1>2, <2>2, <2>3 DEF FindOwner
<1>3. CASE Upsert(r)
  <2>1. req[r] \in ContactRequest
    BY <1>3, Slots DEF Upsert, ContactPCs
  <2>2. /\ req' = [req EXCEPT ![r] = [req[r] EXCEPT !.pc = "readback"]]
        /\ contact' = [contact EXCEPT ![req[r].p] = Upserted(contact[req[r].p], req[r].val)]
    BY <1>3 DEF Upsert, Goto
  <2>3. /\ req'[r].pc = "readback" /\ req'[r].p = req[r].p /\ req'[r].val = req[r].val
        /\ req[r].p \in Products
    BY <1>t, <2>1, <2>2 DEF ContactRequest
  <2> QED BY <1>3, <2>2, <2>3 DEF Upsert
<1>4. CASE ReadBack(r)
  <2>1. req[r] \in ContactRequest
    BY <1>4, Slots DEF ReadBack, ContactPCs
  <2>2. PICK v \in {contact[req[r].p].val, req[r].val} :
            req' = [req EXCEPT ![r] = [req[r] EXCEPT !.pc = "answer", !.said = v]]
    BY <1>4 DEF ReadBack
  <2>3. /\ req'[r].pc = "answer" /\ req'[r].p = req[r].p /\ req'[r].val = req[r].val
        /\ req[r].p \in Products /\ req'[r].said = v
    BY <1>t, <2>1, <2>2 DEF ContactRequest
  <2> QED BY <1>4, <2>3 DEF ReadBack
<1> QED BY <1>1, <1>2, <1>3, <1>4 DEF ContactStep, HandleContact, Answer, DropContact

\* Slots that are not about a contact.
LEMMA OtherContacts ==
    \A q : q \in ProductRequest \cup CategoryRequest \cup AccountRequest \cup ListRequest
               \cup StatsRequest \cup {Idle} => q.pc \notin ContactPCs
<1>1. \A q \in ProductRequest \cup {Idle} : q.pc \notin ContactPCs
  BY DEF ProductRequest, Idle, ContactPCs
<1>2. \A q \in CategoryRequest : q.pc \notin ContactPCs
  BY DEF CategoryRequest, ContactPCs
<1>3. \A q \in AccountRequest : q.pc \notin ContactPCs
  BY DEF AccountRequest, ContactPCs
<1>4. \A q \in ListRequest \cup StatsRequest : q.pc \notin ContactPCs
  BY DEF ListRequest, StatsRequest, ContactPCs
<1> QED BY <1>1, <1>2, <1>3, <1>4

LEMMA ContactsKept ==
    TypeOK /\ RolesThere /\ ContactsThere /\ [Next]_vars => ContactsThere'
<1> SUFFICES ASSUME TypeOK, RolesThere, ContactsThere, [Next]_vars, "delcontact" \notin Ops
             PROVE  ContactsThere'
  BY StepCases DEF ContactsThere, Ops
<1>t. contact \in [Products -> Contact]
  BY DEF TypeOK
<1>1. CASE UNCHANGED <<tables, req>>
  BY <1>1 DEF ContactsThere, tables
<1>2. ASSUME NEW r \in Requests, StepOf(r) PROVE ContactsThere'
  <2>1. ASSUME NEW p \in Products
        PROVE  /\ contact'[p].st # "deleted"
               /\ contact[p].st = "live" => contact'[p].st = "live"
    <3>1. contact[p] \in Contact /\ contact[p].st # "deleted" /\ req[r].pc # "dropcontact"
      BY <1>t DEF ContactsThere
    <3>2. \A v : Upserted(contact[p], v).st = "live"
      BY <3>1, UpsertedLive
    <3>3. \/ contact'[p] = contact[p]
          \/ \E v : contact'[p] = Upserted(contact[p], v)
          \/ contact'[p].st = "live"
      BY <1>2, <3>1, ContactRows
    <3> QED BY <3>1, <3>2, <3>3
  <2>2. \A q \in Requests \ {r} : req'[q] = req[q]
    BY <1>2, SlotAfter
  <2>3. \A q \in Requests : req[q].pc \in {"readback", "answer"} => req[q].p \in Products
    BY Slots DEF ContactPCs, ContactRequest
  <2>4. /\ req'[r].pc \in {"readback", "answer"} => contact'[req'[r].p].st = "live"
        /\ req'[r].pc # "dropcontact"
    <3>1. CASE ContactStep(r) /\ ~Reply(r)
      <4>1. ASSUME req[r].pc = "upsert", req'[r].pc = "readback",
                   req'[r].p = req[r].p, req[r].p \in Products,
                   contact' = [contact EXCEPT ![req[r].p] = Upserted(contact[req[r].p], req[r].val)]
            PROVE  contact'[req'[r].p].st = "live"
        <5>1. contact[req[r].p] \in Contact /\ contact[req[r].p].st # "deleted"
          BY <1>t, <4>1 DEF ContactsThere
        <5> QED BY <1>t, <4>1, <5>1, UpsertedLive
      <4>2. ASSUME req[r].pc = "readback", req'[r].p = req[r].p, UNCHANGED contact
            PROVE  contact'[req'[r].p].st = "live"
        BY <4>2 DEF ContactsThere
      <4> QED BY <3>1, <4>1, <4>2, ContactAfter
    <3>2. CASE Reply(r) \/ ~ContactStep(r)
      <4>1. req'[r].pc \notin ContactPCs
        BY <1>2, <3>2, SlotAfter, OtherContacts DEF StepOf, Reply, TypeOK
      <4> QED BY <4>1 DEF ContactPCs
    <3> QED BY <3>1, <3>2
  <2> QED BY <2>1, <2>2, <2>3, <2>4 DEF ContactsThere
<1> QED BY <1>1, <1>2, StepCases

LEMMA ContactFresh ==
    ASSUME TypeOK, ContactsThere, NEW r \in Requests, ContactStep(r), ~Reply(r), FreshContact(r),
           UNCHANGED env
    PROVE  FreshContact(r)'
<1>t. contact \in [Products -> Contact]
  BY DEF TypeOK
<1>k. UNCHANGED product /\ Ops' = Ops
  BY DEF ContactStep, ArriveContact, HandleContact, FindOwner, Upsert, ReadBack, Answer,
     DropContact, Ops
<1>1. CASE req'[r].pc \in {"findowner", "dropcontact"}
  BY <1>1 DEF FreshContact
<1>2. CASE req'[r].pc = "upsert" /\ Live(req'[r].p)
  BY <1>2, <1>k DEF FreshContact, Live
<1>3. CASE /\ req[r].pc = "upsert" /\ req'[r].pc = "readback"
           /\ req'[r].p = req[r].p /\ req'[r].val = req[r].val /\ req[r].p \in Products
           /\ contact' = [contact EXCEPT ![req[r].p] = Upserted(contact[req[r].p], req[r].val)]
  <2>1. "delcontact" \notin Ops => contact'[req'[r].p] = [st |-> "live", val |-> req'[r].val]
    BY <1>t, <1>3, UpsertedLive DEF ContactsThere
  <2> QED BY <1>3, <1>k, <2>1 DEF FreshContact
<1>4. CASE /\ req[r].pc = "readback" /\ req'[r].pc = "answer" /\ UNCHANGED contact
           /\ req'[r].p = req[r].p /\ req'[r].val = req[r].val /\ req[r].p \in Products
           /\ req'[r].said \in {contact[req[r].p].val, req[r].val}
  BY <1>4, <1>k DEF FreshContact
<1> QED BY <1>1, <1>2, <1>3, <1>4, ContactAfter

-----------------------------------------------------------------------------
\* Accounts and statistics.
LEMMA AccountFresh ==
    ASSUME TypeOK, NEW r \in Requests, AccountStep(r), ~Reply(r), FreshAccount(r)
    PROVE  FreshAccount(r)'
<1>t. req \in [Requests -> Request]
  BY DEF TypeOK
<1>a. \A op, pc, t, u, role :
         /\ AccountSlot(op, pc, t, u, role).op = op /\ AccountSlot(op, pc, t, u, role).pc = pc
         /\ AccountSlot(op, pc, t, u, role).role = role
  BY DEF AccountSlot
<1>s. ASSUME NEW op, NEW pc, NEW t, NEW u, NEW role, Start(r, AccountSlot(op, pc, t, u, role)),
             \/ op = "setuser" /\ pc = "finduser"
             \/ pc = "finduser" /\ role = "keep"
             \/ pc \in {"createuser", "deleteuser"}
      PROVE  FreshAccount(r)'
  <2>1. req'[r] = AccountSlot(op, pc, t, u, role)
    BY <1>t, <1>s DEF Start
  <2> QED BY <1>a, <1>s, <2>1 DEF FreshAccount
<1>1. CASE ArriveSignIn(r)
  BY <1>1, <1>s DEF ArriveSignIn
<1>2. CASE ArriveUpdateMe(r)
  BY <1>2, <1>s DEF ArriveUpdateMe
<1>3. CASE ArriveAdmin(r)
  BY <1>3, <1>s DEF ArriveAdmin
<1>4. CASE CreateAccount(r)
  <2>1. req[r] \in AccountRequest
    BY <1>4, Slots DEF CreateAccount, AccountPCs
  <2>2. req' = [req EXCEPT ![r] = [req[r] EXCEPT !.pc = "finduser", !.role = "keep"]]
    BY <1>4 DEF CreateAccount
  <2>3. req'[r].pc = "finduser" /\ req'[r].role = "keep"
    BY <1>t, <2>1, <2>2 DEF AccountRequest
  <2> QED BY <2>3 DEF FreshAccount
<1>5. CASE FindAccount(r)
  <2>1. req[r] \in AccountRequest /\ req[r].pc = "finduser"
    BY <1>5, Slots DEF FindAccount, AccountPCs
  <2>2. req' = [req EXCEPT ![r] = [req[r] EXCEPT !.pc = AfterUser(req[r].op),
                                                !.role = RoleInHand(r)]]
    BY <1>5 DEF FindAccount, QueryFails
  <2>3. /\ req'[r].pc = AfterUser(req[r].op) /\ req'[r].role = RoleInHand(r)
        /\ req'[r].op = req[r].op /\ req'[r].user = req[r].user
    BY <1>t, <2>1, <2>2 DEF AccountRequest
  <2>4. AfterUser(req[r].op) \in {"deliver", "saveuser"} /\ UNCHANGED account
    BY <1>5 DEF AfterUser, FindAccount
  <2>5. req[r].op # "setuser" => RoleInHand(r) = account[req[r].user].role
    BY <2>1 DEF FreshAccount, RoleInHand
  <2> QED BY <2>3, <2>4, <2>5 DEF FreshAccount
<1> QED
  BY <1>1, <1>2, <1>3, <1>4, <1>5
     DEF AccountStep, ArriveAccount, HandleAccount, Deliver, SaveAccount, DeleteAccount

LEMMA StatsFresh ==
    ASSUME TypeOK, NEW r \in Requests, ReadStep(r), ~Reply(r), FreshStats(r)
    PROVE  FreshStats(r)'
<1>t. req \in [Requests -> Request]
  BY DEF TypeOK
<1>k. /\ Cardinality(LiveProducts)' = Cardinality(LiveProducts)
      /\ Cardinality(RepairedProducts)' = Cardinality(RepairedProducts)
      /\ Cardinality(LiveCategories)' = Cardinality(LiveCategories)
      /\ Cardinality(LiveAccounts)' = Cardinality(LiveAccounts)
  <2>1. UNCHANGED <<product, category, account>>
    BY DEF ReadStep, tables
  <2> QED BY <2>1 DEF LiveProducts, RepairedProducts, LiveCategories, LiveAccounts, Live,
             LiveCategory, LiveAccount
<1>0. /\ LiveCategories = {c \in Categories : LiveCategory(c)}
      /\ LiveAccounts = {u \in Users : LiveAccount(u)}
  BY DEF LiveCategories, LiveAccounts
<1>r. ASSUME NEW pc, NEW figures \in Figures, req[r] \in StatsRequest, Record(r, pc, figures)
      PROVE  req'[r].pc = pc /\ req'[r].figures = figures
  BY <1>t, <1>r DEF Record, StatsRequest
<1>1. CASE ArriveList(r) \/ CountProducts(r)
  <2>1. CASE ArriveList(r)
    <3>1. \A t : [op |-> "list", pc |-> "count", by |-> t, total |-> 0].pc = "count"
      OBVIOUS
    <3>2. req'[r].pc = "count"
      BY <1>t, <2>1, <3>1 DEF ArriveList, Start
    <3> QED BY <3>2 DEF FreshStats
  <2>2. CASE CountProducts(r)
    <3>1. ListStep(r)
      BY <2>2 DEF ListStep
    <3>2. req'[r].pc \in {"page", "idle"}
      BY <2>2, <3>1, ListSlots
    <3> QED BY <3>2 DEF FreshStats
  <2> QED BY <1>1, <2>1, <2>2
<1>2. CASE ArriveStats(r)
  <2>1. \A t : [op |-> "stats", pc |-> "countproducts", by |-> t, figures |-> NoFigures].pc
              = "countproducts"
    OBVIOUS
  <2>2. req'[r].pc = "countproducts"
    BY <1>t, <1>2, <2>1 DEF ArriveStats, Start
  <2> QED BY <2>2 DEF FreshStats
<1>f. req[r].pc \in StatsPCs => req[r] \in StatsRequest /\ req[r].figures \in Figures
  BY Slots DEF StatsRequest
<1>3. CASE StatsProducts(r)
  <2>1. req[r] \in StatsRequest /\ req[r].figures \in Figures
    BY <1>3, <1>f DEF StatsProducts, StatsPCs
  <2> DEFINE figures == [req[r].figures EXCEPT !.products = Cardinality(LiveProducts),
                                               !.repaired = Cardinality(RepairedProducts)]
  <2>2. /\ figures \in Figures /\ figures.products = Cardinality(LiveProducts)
        /\ figures.repaired = Cardinality(RepairedProducts)
    BY <2>1, Counts DEF Figures
  <2>3. Record(r, "countcategories", figures)
    BY <1>3 DEF StatsProducts, QueryFails
  <2> HIDE DEF figures
  <2>4. req'[r].pc = "countcategories" /\ req'[r].figures = figures
    BY <1>r, <2>1, <2>2, <2>3
  <2> QED BY <1>k, <2>2, <2>4 DEF FreshStats
<1>4. CASE StatsCategories(r)
  <2>1. req[r] \in StatsRequest /\ req[r].figures \in Figures /\ req[r].pc = "countcategories"
    BY <1>4, <1>f DEF StatsCategories, StatsPCs
  <2> DEFINE figures == [req[r].figures EXCEPT !.categories = Cardinality(LiveCategories)]
  <2>2. /\ figures \in Figures /\ figures.products = req[r].figures.products
        /\ figures.repaired = req[r].figures.repaired
        /\ figures.categories = Cardinality(LiveCategories)
    BY <1>0, <2>1, Counts DEF Figures
  <2>3. Record(r, "countusers", figures)
    BY <1>0, <1>4 DEF StatsCategories, QueryFails
  <2> HIDE DEF figures
  <2>4. req'[r].pc = "countusers" /\ req'[r].figures = figures
    BY <1>r, <2>1, <2>2, <2>3
  <2> QED BY <1>k, <2>1, <2>2, <2>4 DEF FreshStats
<1>5. CASE StatsUsers(r)
  <2>1. req[r] \in StatsRequest /\ req[r].figures \in Figures /\ req[r].pc = "countusers"
    BY <1>5, <1>f DEF StatsUsers, StatsPCs
  <2> DEFINE figures == [req[r].figures EXCEPT !.users = Cardinality(LiveAccounts)]
  <2>2. /\ figures \in Figures /\ figures.products = req[r].figures.products
        /\ figures.repaired = req[r].figures.repaired
        /\ figures.categories = req[r].figures.categories
        /\ figures.users = Cardinality(LiveAccounts)
    BY <1>0, <2>1, Counts DEF Figures
  <2>3. Record(r, "report", figures)
    BY <1>0, <1>5 DEF StatsUsers, QueryFails
  <2> HIDE DEF figures
  <2>4. req'[r].pc = "report" /\ req'[r].figures = figures
    BY <1>r, <2>1, <2>2, <2>3
  <2> QED BY <1>k, <2>1, <2>2, <2>4 DEF FreshStats
<1>6. CASE ReadPage(r)
  BY <1>6 DEF ReadPage, ListFails, QueryFails
<1> QED BY <1>1, <1>2, <1>3, <1>4, <1>5, <1>6 DEF ReadStep, ArriveRead, HandleRead, Report

-----------------------------------------------------------------------------
(***************************************************************************)
(* The invariant.                                                          *)
(***************************************************************************)
IInv ==
    /\ TypeOK /\ RolesThere /\ ProductsInHand
    /\ CategoriesInHand /\ ContactsThere /\ Alone /\ Settled

\* Slots that are not about an account, or not about statistics.
LEMMA OtherAccounts ==
    \A q : q \in ProductRequest \cup CategoryRequest \cup ContactRequest \cup ListRequest
               \cup StatsRequest \cup {Idle} => q.pc \notin AccountPCs
<1>1. \A q \in ProductRequest \cup {Idle} : q.pc \notin AccountPCs
  BY DEF ProductRequest, Idle, AccountPCs
<1>2. \A q \in CategoryRequest : q.pc \notin AccountPCs
  BY DEF CategoryRequest, AccountPCs
<1>3. \A q \in ContactRequest : q.pc \notin AccountPCs
  BY DEF ContactRequest, AccountPCs
<1>4. \A q \in ListRequest \cup StatsRequest : q.pc \notin AccountPCs
  BY DEF ListRequest, StatsRequest, AccountPCs
<1> QED BY <1>1, <1>2, <1>3, <1>4

LEMMA OtherStats ==
    \A q : q \in ProductRequest \cup CategoryRequest \cup ContactRequest \cup AccountRequest
               \cup {Idle} => q.pc \notin StatsPCs
<1>1. \A q \in ProductRequest \cup {Idle} : q.pc \notin StatsPCs
  BY DEF ProductRequest, Idle, StatsPCs
<1>2. \A q \in CategoryRequest : q.pc \notin StatsPCs
  BY DEF CategoryRequest, StatsPCs
<1>3. \A q \in ContactRequest : q.pc \notin StatsPCs
  BY DEF ContactRequest, StatsPCs
<1>4. \A q \in AccountRequest : q.pc \notin StatsPCs
  BY DEF AccountRequest, StatsPCs
<1> QED BY <1>1, <1>2, <1>3, <1>4

\* Where requests come one at a time, a step leaves its own slot fresh, and the
\* others are free.
LEMMA SettledKept == IInv /\ [Next]_vars => Settled'
<1> SUFFICES ASSUME IInv, [Next]_vars, Serial' PROVE Settled'
  BY DEF Settled
<1>0. UNCHANGED env /\ Serial
  BY StepCases DEF IInv, Serial
<1>1. CASE UNCHANGED <<tables, account, req>>
  <2>1. /\ LiveProducts' = LiveProducts /\ RepairedProducts' = RepairedProducts
        /\ LiveCategories' = LiveCategories /\ LiveAccounts' = LiveAccounts
    BY <1>1 DEF tables, LiveProducts, RepairedProducts, LiveCategories, LiveAccounts, Live,
       LiveCategory, LiveAccount
  <2>2. ASSUME NEW r \in Requests
        PROVE  /\ FreshProduct(r) => FreshProduct(r)'
               /\ FreshCategory(r) => FreshCategory(r)'
               /\ FreshContact(r) => FreshContact(r)'
               /\ FreshAccount(r) => FreshAccount(r)'
               /\ FreshStats(r) => FreshStats(r)'
    <3>1. FreshProduct(r) => FreshProduct(r)'
      BY <1>1 DEF tables, FreshProduct, Live, LiveCategory
    <3>2. FreshCategory(r) => FreshCategory(r)'
      BY <1>1 DEF tables, FreshCategory, LiveCategory
    <3>3. FreshContact(r) => FreshContact(r)'
      BY <1>0, <1>1 DEF tables, FreshContact, Live, Ops
    <3>4. FreshAccount(r) => FreshAccount(r)'
      BY <1>1 DEF FreshAccount
    <3>5. FreshStats(r) => FreshStats(r)'
      BY <1>1, <2>1 DEF FreshStats
    <3> QED BY <3>1, <3>2, <3>3, <3>4, <3>5
  <2>3. ASSUME NEW r \in Requests PROVE Fresh(r)'
    <3>1. Fresh(r)
      BY <1>0 DEF IInv, Settled
    <3> QED BY <2>2, <3>1 DEF Fresh
  <2> QED BY <2>3 DEF Settled
<1>2. ASSUME NEW r \in Requests, StepOf(r) PROVE Settled'
  <2>1. \A q \in Requests \ {r} : req'[q].pc = "idle"
    BY <1>0, <1>2, Others DEF IInv
  <2>2. \A q \in Requests \ {r} : Fresh(q)'
    BY <2>1, IdleFresh
  <2>3. Fresh(r)'
    <3>f. Fresh(r)
      BY <1>0 DEF IInv, Settled
    <3>p. req'[r].pc = "idle" \/ ~Reply(r)
      BY DEF Reply, Idle, IInv, TypeOK
    <3>1. CASE req'[r].pc = "idle"
      BY <3>1, IdleFresh
    <3>2. CASE ~Reply(r) /\ ProductStep(r)
      <4>1. req'[r] \in ProductRequest \cup {Idle}
        BY <1>2, <3>2, SlotAfter DEF IInv
      <4>2. /\ req'[r].pc \notin CategoryPCs /\ req'[r].pc \notin ContactPCs
            /\ req'[r].pc \notin AccountPCs /\ req'[r].pc \notin StatsPCs
        BY <4>1, OtherOps, OtherContacts, OtherAccounts, OtherStats
      <4>3. FreshProduct(r)'
        BY <3>f, <3>2, ProductFresh DEF IInv, Fresh
      <4> QED BY <4>2, <4>3, FreshKinds DEF Fresh, CategoryPCs
    <3>3. CASE ~Reply(r) /\ CategoryStep(r)
      <4>1. req'[r] \in CategoryRequest \cup {Idle}
        BY <1>2, <3>3, SlotAfter DEF IInv
      <4>2. /\ req'[r].pc \notin ProductPCs /\ req'[r].pc \notin ContactPCs
            /\ req'[r].pc \notin AccountPCs /\ req'[r].pc \notin StatsPCs
        BY <4>1, OtherCounters, OtherContacts, OtherAccounts, OtherStats
      <4>3. FreshCategory(r)'
        BY <3>f, <3>3, CategoryFresh DEF IInv, Fresh
      <4> QED BY <4>2, <4>3, FreshKinds DEF Fresh
    <3>4. CASE ~Reply(r) /\ ContactStep(r)
      <4>1. req'[r] \in ContactRequest \cup {Idle}
        BY <1>2, <3>4, SlotAfter DEF IInv
      <4>2. /\ req'[r].pc \notin CategoryPCs /\ req'[r].pc \notin ProductPCs
            /\ req'[r].pc \notin AccountPCs /\ req'[r].pc \notin StatsPCs
        BY <4>1, OtherOps, OtherCounters, OtherAccounts, OtherStats
      <4>3. FreshContact(r)'
        BY <1>0, <3>f, <3>4, ContactFresh DEF IInv, Fresh
      <4> QED BY <4>2, <4>3, FreshKinds DEF Fresh, CategoryPCs
    <3>5. CASE ~Reply(r) /\ AccountStep(r)
      <4>1. req'[r] \in AccountRequest \cup {Idle}
        BY <1>2, <3>5, SlotAfter DEF IInv
      <4>2. /\ req'[r].pc \notin CategoryPCs /\ req'[r].pc \notin ProductPCs
            /\ req'[r].pc \notin ContactPCs /\ req'[r].pc \notin StatsPCs
        BY <4>1, OtherOps, OtherCounters, OtherContacts, OtherStats
      <4>3. FreshAccount(r)'
        BY <3>f, <3>5, AccountFresh DEF IInv, Fresh
      <4> QED BY <4>2, <4>3, FreshKinds DEF Fresh, CategoryPCs
    <3>6. CASE ~Reply(r) /\ ReadStep(r)
      <4>1. req'[r] \in ListRequest \cup StatsRequest \cup {Idle}
        BY <1>2, <3>6, SlotAfter DEF IInv
      <4>2. /\ req'[r].pc \notin CategoryPCs /\ req'[r].pc \notin ProductPCs
            /\ req'[r].pc \notin ContactPCs /\ req'[r].pc \notin AccountPCs
        BY <4>1, OtherOps, OtherCounters, OtherContacts, OtherAccounts
      <4>3. FreshStats(r)'
        BY <3>f, <3>6, StatsFresh DEF IInv, Fresh
      <4> QED BY <4>2, <4>3, FreshKinds DEF Fresh, CategoryPCs
    <3> QED BY <1>2, <3>p, <3>1, <3>2, <3>3, <3>4, <3>5, <3>6 DEF StepOf
  <2> QED BY <2>2, <2>3 DEF Settled
<1> QED BY <1>1, <1>2, StepCases DEF IInv

LEMMA Invariants == Spec => []IInv
<1>1. Init => IInv
  <2> SUFFICES ASSUME Init PROVE IInv
    OBVIOUS
  <2>1. \A r \in Requests : req[r] = Idle /\ req[r].pc = "idle" /\ req[r].op = "none"
    BY DEF Init, Idle
  <2>2. ProductsInHand
    BY <2>1 DEF ProductsInHand, ProductOps
  <2>3. CategoriesInHand
    BY <2>1 DEF CategoriesInHand, ProductPCs
  <2>4. ContactsThere
    BY <2>1 DEF ContactsThere, Init, CatalogueInit
  <2>5. Alone
    BY <2>1 DEF Alone
  <2>6. \A r \in Requests : Fresh(r)
    BY <2>1 DEF Fresh, FreshProduct, FreshCategory, FreshContact, FreshAccount, FreshStats
  <2> QED BY <2>2, <2>3, <2>4, <2>5, <2>6, InitTypes DEF IInv, Settled
<1>2. IInv /\ [Next]_vars => IInv'
  BY TypesKept, RolesKept, ProductsKept, CategoriesKept, ContactsKept, AloneKept, SettledKept
     DEF IInv
<1> QED BY <1>1, <1>2, PTL DEF Spec

-----------------------------------------------------------------------------
(***************************************************************************)
(* Categories.                                                             *)
(***************************************************************************)
\* A deleted category comes back only by an update of the category that found it before
\* the deletion, and never where requests come one at a time.
LEMMA CategoryReturnStep ==
    ASSUME IInv, [Next]_vars, NEW c \in Categories,
           category[c].st = "deleted", category'[c].st # "deleted"
    PROVE  /\ ~Serial
           /\ \E r \in Requests : req[r].pc = "savecategory" /\ req[r].cat = c
<1>1. PICK r \in Requests : StepOf(r)
  BY StepCases DEF IInv, tables
<1>2. req[r].pc = "savecategory" /\ req[r].cat = c
  BY <1>1, CategoryRows DEF IInv
<1>3. Serial => LiveCategory(c)
  BY <1>2 DEF IInv, Settled, Fresh, FreshCategory
<1> QED BY <1>2, <1>3 DEF LiveCategory

\* Deletion of a category lasts, whatever products were loaded with it before.
THEOREM DeletedCategoriesStay == Spec => CategoryReturnsByUpdate
<1>1. IInv /\ [Next]_vars =>
        [\A c \in Categories : category[c].st = "deleted" /\ category'[c].st # "deleted" =>
          /\ ~Serial
          /\ \E r \in Requests : req[r].pc = "savecategory" /\ req[r].cat = c]_vars
  BY CategoryReturnStep
<1> QED BY <1>1, Invariants, PTL DEF Spec, CategoryReturnsByUpdate

-----------------------------------------------------------------------------
(***************************************************************************)
(* Contacts.                                                               *)
(***************************************************************************)
\* While nobody deletes contacts, an upsert that is answered has persisted what it
\* says, for any number of upserts of any products.
THEOREM UpsertsKeptAlways == Spec => []UpsertsKept
<1>1. IInv => UpsertsKept
  <2> SUFFICES ASSUME IInv, "delcontact" \notin Ops, NEW r \in Requests, req[r].pc = "answer"
               PROVE  /\ Serial => contact[req[r].p] = [st |-> "live", val |-> req[r].said]
                      /\ contact[req[r].p].st = "live"
                      /\ Serial => req[r].said = req[r].val
    BY DEF UpsertsKept, UpsertPersisted
  <2>1. contact[req[r].p].st = "live"
    BY DEF IInv, ContactsThere
  <2>2. Serial => FreshContact(r)
    BY DEF IInv, Settled, Fresh
  <2> QED BY <2>1, <2>2 DEF FreshContact
<1> QED BY <1>1, Invariants, PTL

-----------------------------------------------------------------------------
(***************************************************************************)
(* References, updates and roles, one request at a time.                   *)
(***************************************************************************)
\* Where the row a save writes puts the product.
LEMMA SavedRow ==
    ASSUME IInv, Serial, NEW r \in Requests, req[r].pc = "save"
    PROVE  LET row == Relinked(Edited(req[r].row, req[r].body), req[r].linked)
               old == product[req[r].p]
               body == req[r].body IN
           /\ req[r].p \in Products /\ Live(req[r].p)
           /\ row.date # old.date => body.date.field # "absent"
           /\ row.cat # old.cat => body.cat # NoCategory
           /\ row.status # old.status => body.status # "keep"
           /\ row.sku = old.sku /\ row.by = old.by
           /\ row.cat \in {NoCategory, old.cat} \/ LiveCategory(row.cat)
           /\ body.date.field # "absent" => row.date = body.date.date
           /\ body.status # "keep" => row.status = body.status
           /\ body.cat # NoCategory =>
                 row.cat = body.cat \/ (row.cat = old.cat /\ LiveCategory(old.cat))
<1> DEFINE edited == Edited(req[r].row, req[r].body)
           row == Relinked(edited, req[r].linked)
<1>1. /\ req[r] \in ProductRequest /\ req[r].op \in ProductOps
      /\ InHand(req[r], product[req[r].p]) /\ req[r].row \in Product /\ req[r].p \in Products
  BY Slots DEF IInv, ProductPCs, ProductRequest, ProductOps, ProductsInHand
<1>2. req[r].op # "create" /\ FreshProduct(r)
  BY <1>1 DEF InHand, IInv, Settled, Fresh
<1>3. /\ req[r].row = product[req[r].p] /\ Live(req[r].p)
      /\ req[r].linked # NoCategory =>
             req[r].linked = req[r].row.cat /\ LiveCategory(req[r].linked)
      /\ req[r].body.cat # NoCategory => LiveCategory(req[r].body.cat)
  BY <1>2 DEF FreshProduct
<1>4. /\ edited.cat = (IF req[r].body.cat = NoCategory THEN req[r].row.cat ELSE req[r].body.cat)
      /\ edited.status = (IF req[r].body.status = "keep" THEN req[r].row.status
                                                         ELSE req[r].body.status)
      /\ edited.date = (IF req[r].body.date.field = "absent" THEN req[r].row.date
                                                             ELSE req[r].body.date.date)
      /\ edited.sku = req[r].row.sku /\ edited.by = req[r].row.by
  BY <1>1 DEF Edited, ParseDateField, Product
<1>5. \A c : /\ [edited EXCEPT !.cat = c].cat = c /\ [edited EXCEPT !.cat = c].sku = edited.sku
             /\ [edited EXCEPT !.cat = c].by = edited.by
             /\ [edited EXCEPT !.cat = c].date = edited.date
             /\ [edited EXCEPT !.cat = c].status = edited.status
  BY <1>1 DEF Edited, Product
<1> HIDE DEF edited
<1>6. /\ row.cat = (IF req[r].linked = NoCategory THEN edited.cat ELSE req[r].linked)
      /\ row.sku = edited.sku /\ row.by = edited.by /\ row.date = edited.date
      /\ row.status = edited.status
  BY <1>5 DEF Relinked
<1> HIDE DEF row
<1>7. /\ row.date # product[req[r].p].date => req[r].body.date.field # "absent"
      /\ row.cat # product[req[r].p].cat => req[r].body.cat # NoCategory
      /\ row.status # product[req[r].p].status => req[r].body.status # "keep"
      /\ row.sku = product[req[r].p].sku /\ row.by = product[req[r].p].by
  BY <1>3, <1>4, <1>6
<1>8. row.cat \in {NoCategory, product[req[r].p].cat} \/ LiveCategory(row.cat)
  BY <1>3, <1>4, <1>6
<1>9. /\ req[r].body.date.field # "absent" => row.date = req[r].body.date.date
      /\ req[r].body.status # "keep" => row.status = req[r].body.status
      /\ req[r].body.cat # NoCategory =>
            \/ row.cat = req[r].body.cat
            \/ row.cat = product[req[r].p].cat /\ LiveCategory(product[req[r].p].cat)
  BY <1>3, <1>4, <1>6
<1> QED BY <1>1, <1>3, <1>7, <1>8, <1>9 DEF row, edited

\* The step under way is of the one request there is.
LEMMA TheRequest ==
    ASSUME IInv, Serial, NEW r \in Requests, StepOf(r), NEW q \in Requests, req[q].pc # "idle"
    PROVE  q = r
  BY Others DEF IInv

\* References are checked: what a step puts a product into is live, and a contact is
\* only written for a product that is.
LEMMA ReferenceStep ==
    ASSUME IInv, [Next]_vars, Serial, NEW p \in Products
    PROVE  /\ product'[p].cat \in {NoCategory, product[p].cat}
              \/ category[product'[p].cat].st = "live"
           /\ contact'[p].val # contact[p].val => Live(p)
<1>t. product \in [Products -> Product] /\ contact \in [Products -> Contact]
  BY DEF IInv, TypeOK
<1>1. CASE UNCHANGED tables
  BY <1>1 DEF tables
<1>2. ASSUME NEW r \in Requests, StepOf(r)
      PROVE  /\ product'[p].cat \in {NoCategory, product[p].cat}
                \/ category[product'[p].cat].st = "live"
             /\ contact'[p].val # contact[p].val => Live(p)
  <2>f. Fresh(r)
    BY DEF IInv, Settled
  <2>1. contact'[p].val # contact[p].val => Live(p)
    BY <1>2, <2>f, ContactRows DEF IInv, Fresh, FreshContact
  <2>2. product'[p].cat \in {NoCategory, product[p].cat} \/ LiveCategory(product'[p].cat)
    <3>1. CASE InsertProduct(r)
      <4>1. req[r].p \in Products /\ req[r].pc = "insert"
        BY <3>1, Slots DEF IInv, InsertProduct, ProductPCs, ProductRequest
      <4>2. req[r].row.cat = NoCategory \/ LiveCategory(req[r].row.cat)
        BY <2>f, <4>1 DEF Fresh, FreshProduct
      <4>3. product' = [product EXCEPT ![req[r].p] = req[r].row] \/ UNCHANGED product
        BY <3>1 DEF InsertProduct, Fails
      <4> QED BY <1>t, <4>1, <4>2, <4>3
    <3>2. CASE SaveProduct(r)
      <4> DEFINE row == Relinked(Edited(req[r].row, req[r].body), req[r].linked)
      <4>1. /\ req[r].p \in Products
            /\ row.cat \in {NoCategory, product[req[r].p].cat} \/ LiveCategory(row.cat)
        BY <3>2, SavedRow DEF SaveProduct
      <4>2. product' = [product EXCEPT ![req[r].p] = row] \/ UNCHANGED product
        BY <3>2 DEF SaveProduct, Fails
      <4> HIDE DEF row
      <4> QED BY <1>t, <4>1, <4>2
    <3>3. CASE DeleteProduct(r)
      <4>1. req[r].p \in Products
        BY <3>3, Slots DEF IInv, DeleteProduct, ProductPCs, ProductRequest
      <4>2. \/ product' = [product EXCEPT ![req[r].p] = SoftDeleted(product[req[r].p])]
            \/ UNCHANGED product
        BY <3>3 DEF DeleteProduct, Fails
      <4>3. SoftDeleted(product[req[r].p]).cat = product[req[r].p].cat
        BY <1>t, <4>1 DEF SoftDeleted, Product
      <4> QED BY <1>t, <4>1, <4>2, <4>3
    <3>4. CASE UNCHANGED product
      BY <3>4
    <3> QED BY <1>2, <3>1, <3>2, <3>3, <3>4, CategoryTypes
            DEF IInv, StepOf, ProductStep, ArriveProduct, HandleProduct, ArriveCreate,
                ArriveUpdate, ArriveDelete, FindProduct, Preload, CheckCategory, DrawSku,
                CategoryStep, ContactStep, ArriveContact, HandleContact, FindOwner, Upsert,
                ReadBack, Answer, DropContact, AccountStep, ReadStep, tables
  <2> QED BY <2>1, <2>2 DEF LiveCategory
<1> QED BY <1>1, <1>2, StepCases DEF IInv

\* One request at a time, references to categories and products are live when they
\* are made.
THEOREM ReferencesLive == Spec => ReferencesChecked
<1>1. IInv /\ [Next]_vars =>
        [Serial => \A p \in Products :
          /\ product'[p].cat \in {NoCategory, product[p].cat}
             \/ category[product'[p].cat].st = "live"
          /\ contact'[p].val # contact[p].val => Live(p)]_vars
  BY ReferenceStep
<1> QED BY <1>1, Invariants, PTL DEF Spec, ReferencesChecked

\* A save leaves what its body does not name, and writes what it names if it writes.
LEMMA SaveStep ==
    ASSUME IInv, [Next]_vars, Serial, NEW r \in Requests, req[r].pc = "save"
    PROVE  LET old == product[req[r].p]  new == product'[req[r].p]  body == req[r].body IN
           /\ new.date # old.date => body.date.field # "absent"
           /\ new.cat # old.cat => body.cat # NoCategory
           /\ new.status # old.status => body.status # "keep"
           /\ new.sku = old.sku /\ new.by = old.by
           /\ product' # product =>
                 /\ body.date.field # "absent" => new.date = body.date.date
                 /\ body.status # "keep" => new.status = body.status
                 /\ body.cat # NoCategory =>
                       new.cat = body.cat \/ (new.cat = old.cat /\ LiveCategory(old.cat))
<1>t. product \in [Products -> Product]
  BY DEF IInv, TypeOK
<1>1. CASE product' = product
  BY <1>1
<1>2. ASSUME NEW q \in Requests, StepOf(q), product' # product
      PROVE  product' = [product EXCEPT ![req[r].p] =
                            Relinked(Edited(req[r].row, req[r].body), req[r].linked)]
  <2>1. q = r
    BY <1>2, TheRequest
  <2>2. SaveProduct(r)
    BY <1>2, <2>1, CategoryTypes
       DEF IInv, StepOf, ProductStep, ArriveProduct, HandleProduct, ArriveCreate, ArriveUpdate,
           ArriveDelete, FindProduct, Preload, CheckCategory, DrawSku, InsertProduct, DeleteProduct,
           CategoryStep, ContactStep, ArriveContact, HandleContact, FindOwner, Upsert, ReadBack,
           Answer, DropContact, AccountStep, ReadStep, tables
  <2> QED BY <1>2, <2>2 DEF SaveProduct, Fails
<1>3. CASE product' = [product EXCEPT ![req[r].p] =
                          Relinked(Edited(req[r].row, req[r].body), req[r].linked)]
  <2> DEFINE row == Relinked(Edited(req[r].row, req[r].body), req[r].linked)
  <2>1. product'[req[r].p] = row
    BY <1>t, <1>3, SavedRow
  <2> HIDE DEF row
  <2> QED BY <2>1, SavedRow DEF row
<1> QED BY <1>1, <1>2, <1>3, StepCases DEF IInv, tables

\* One request at a time, an update leaves what its body does not name, and writes what
\* it names, a category unless the product was found with a live one, if it writes at all.
THEOREM UpdatesFollowBody == Spec => UpdateFollowsBody
<1>1. IInv /\ [Next]_vars =>
        [Serial => \A r \in Requests : req[r].pc = "save" =>
          LET old == product[req[r].p]  new == product'[req[r].p]  body == req[r].body IN
          /\ new.date # old.date => body.date.field # "absent"
          /\ new.cat # old.cat => body.cat # NoCategory
          /\ new.status # old.status => body.status # "keep"
          /\ new.sku = old.sku /\ new.by = old.by
          /\ product' # product =>
                /\ body.date.field # "absent" => new.date = body.date.date
                /\ body.status # "keep" => new.status = body.status
                /\ body.cat # NoCategory =>
                      new.cat = body.cat \/ (new.cat = old.cat /\ LiveCategory(old.cat))]_vars
  BY SaveStep
<1> QED BY <1>1, Invariants, PTL DEF Spec, UpdateFollowsBody

\* Only an administrator's request changes the role of an account there is.
LEMMA RoleStep ==
    ASSUME IInv, [Next]_vars, Serial, NEW u \in Users, account[u].st # "absent"
    PROVE  \/ account'[u].role = account[u].role
           \/ \E r \in Requests : req[r].op = "setuser" /\ req[r].user = u
<1>t. account \in [Users -> Account]
  BY DEF IInv, TypeOK
<1>1. CASE UNCHANGED account
  BY <1>1
<1>2. ASSUME NEW r \in Requests, AccountStep(r)
      PROVE  \/ account'[u].role = account[u].role
             \/ req[r].op = "setuser" /\ req[r].user = u
  <2>1. CASE CreateAccount(r)
    <3>1. \/ ~Known(req[r].user) /\ Write(req[r].user, req[r].role)
          \/ UNCHANGED account
      BY <2>1 DEF CreateAccount, Fails
    <3> QED BY <1>t, <3>1 DEF Write, Known
  <2>2. CASE SaveAccount(r)
    <3>1. Write(req[r].user, req[r].role) \/ UNCHANGED account
      BY <2>2 DEF SaveAccount, Fails
    <3>2. req[r].op # "setuser" => req[r].role = account[req[r].user].role
      BY <2>2 DEF SaveAccount, IInv, Settled, Fresh, FreshAccount
    <3> QED BY <1>t, <3>1, <3>2 DEF Write
  <2>3. CASE DeleteAccount(r)
    <3>1. \/ account' = [account EXCEPT ![req[r].user] = SoftDeleted(account[req[r].user])]
          \/ UNCHANGED account
      BY <2>3 DEF DeleteAccount, Fails
    <3>2. SoftDeleted(account[u]).role = account[u].role
      BY <1>t DEF SoftDeleted, Account
    <3> QED BY <1>t, <3>1, <3>2
  <2> QED BY <1>2, <2>1, <2>2, <2>3 DEF AccountStep, ArriveAccount, HandleAccount, ArriveSignIn,
         ArriveUpdateMe, ArriveAdmin, FindAccount, Deliver
<1> QED BY <1>1, <1>2, StepCases DEF IInv, StepOf, ProductStep, CategoryStep, ContactStep, ReadStep

\* One request at a time, roles change deliberately.
THEOREM RolesDeliberate == Spec => RoleDeliberate
<1>1. IInv /\ [Next]_vars =>
        [Serial => \A u \in Users : account[u].st # "absent" =>
          \/ account'[u].role = account[u].role
          \/ \E r \in Requests : req[r].op = "setuser" /\ req[r].user = u]_vars
  BY RoleStep
<1> QED BY <1>1, Invariants, PTL DEF Spec, RoleDeliberate

-----------------------------------------------------------------------------
(***************************************************************************)
(* Statistics.                                                             *)
(***************************************************************************)
\* The product figures of a slot are of one moment.
FiguresOrdered ==
    \A r \in Requests : req[r].pc \in {"countcategories", "countusers", "report"} =>
        req[r].figures.repaired <= req[r].figures.products

LEMMA FiguresStep ==
    ASSUME TypeOK, FiguresOrdered, NEW r \in Requests, ReadStep(r), ~Reply(r),
           req'[r].pc \in {"countcategories", "countusers", "report"}
    PROVE  req'[r].figures.repaired <= req'[r].figures.products
<1>t. req \in [Requests -> Request]
  BY DEF TypeOK
<1>r. ASSUME NEW pc, NEW figures \in Figures, req[r] \in StatsRequest, Record(r, pc, figures),
             figures.repaired <= figures.products
      PROVE  req'[r].figures.repaired <= req'[r].figures.products
  <2>1. req'[r].figures = figures
    BY <1>t, <1>r DEF Record, StatsRequest
  <2> QED BY <1>r, <2>1
<1>f. req[r].pc \in StatsPCs => req[r] \in StatsRequest /\ req[r].figures \in Figures
  BY Slots DEF StatsRequest
<1>1. CASE ArriveList(r)
  <2>1. \A t : [op |-> "list", pc |-> "count", by |-> t, total |-> 0].pc = "count"
    OBVIOUS
  <2> QED BY <1>t, <1>1, <2>1 DEF ArriveList, Start
<1>2. CASE ArriveStats(r)
  <2>1. \A t : [op |-> "stats", pc |-> "countproducts", by |-> t, figures |-> NoFigures].pc
              = "countproducts"
    OBVIOUS
  <2> QED BY <1>t, <1>2, <2>1 DEF ArriveStats, Start
<1>3. CASE CountProducts(r)
  <2>1. ListStep(r)
    BY <1>3 DEF ListStep
  <2>2. req'[r].pc \in {"page", "idle"}
    BY <1>3, <2>1, ListSlots
  <2> QED BY <2>2
<1>4. CASE StatsProducts(r)
  <2>1. req[r] \in StatsRequest /\ req[r].figures \in Figures
    BY <1>4, <1>f DEF StatsProducts, StatsPCs
  <2> DEFINE figures == [req[r].figures EXCEPT !.products = Cardinality(LiveProducts),
                                               !.repaired = Cardinality(RepairedProducts)]
  <2>2. /\ figures \in Figures /\ figures.products = Cardinality(LiveProducts)
        /\ figures.repaired = Cardinality(RepairedProducts)
    BY <2>1, Counts DEF Figures
  <2>3. Record(r, "countcategories", figures)
    BY <1>4 DEF StatsProducts, QueryFails
  <2> HIDE DEF figures
  <2> QED BY <1>r, <2>1, <2>2, <2>3, Counts
<1>5. CASE StatsCategories(r) \/ StatsUsers(r)
  <2>1. /\ req[r] \in StatsRequest /\ req[r].figures \in Figures
        /\ req[r].pc \in {"countcategories", "countusers"}
    BY <1>5, <1>f DEF StatsCategories, StatsUsers, StatsPCs
  <2> DEFINE categories(n) == [req[r].figures EXCEPT !.categories = n]
             users(n) == [req[r].figures EXCEPT !.users = n]
  <2>2. \A n \in Nat :
           /\ categories(n) \in Figures /\ users(n) \in Figures
           /\ categories(n).repaired = req[r].figures.repaired
           /\ categories(n).products = req[r].figures.products
           /\ users(n).repaired = req[r].figures.repaired
           /\ users(n).products = req[r].figures.products
    BY <2>1 DEF Figures
  <2>3. req[r].figures.repaired <= req[r].figures.products
    BY <2>1 DEF FiguresOrdered
  <2>4. \E pc : \E n \in Nat : Record(r, pc, categories(n)) \/ Record(r, pc, users(n))
    <3>1. CASE StatsCategories(r)
      <4>1. Record(r, "countusers", categories(Cardinality({c \in Categories : LiveCategory(c)})))
        BY <3>1 DEF StatsCategories, QueryFails
      <4> HIDE DEF categories
      <4> QED BY <4>1, Counts
    <3>2. CASE StatsUsers(r)
      <4>1. Record(r, "report", users(Cardinality({u \in Users : LiveAccount(u)})))
        BY <3>2 DEF StatsUsers, QueryFails
      <4> HIDE DEF users
      <4> QED BY <4>1, Counts
    <3> QED BY <1>5, <3>1, <3>2
  <2> HIDE DEF categories, users
  <2> QED BY <1>r, <2>1, <2>2, <2>3, <2>4
<1>6. CASE ReadPage(r)
  BY <1>6 DEF ReadPage, ListFails, QueryFails
<1> QED BY <1>1, <1>2, <1>3, <1>4, <1>5, <1>6 DEF ReadStep, ArriveRead, HandleRead, Report

LEMMA FiguresKept == IInv /\ FiguresOrdered /\ [Next]_vars => FiguresOrdered'
<1> SUFFICES ASSUME IInv, FiguresOrdered, [Next]_vars PROVE FiguresOrdered'
  OBVIOUS
<1>1. CASE UNCHANGED req
  BY <1>1 DEF FiguresOrdered
<1>2. ASSUME NEW r \in Requests, StepOf(r) PROVE FiguresOrdered'
  <2>1. \A q \in Requests \ {r} : req'[q] = req[q]
    BY <1>2, SlotAfter DEF IInv
  <2>2. req'[r].pc \in {"countcategories", "countusers", "report"} =>
           req'[r].figures.repaired <= req'[r].figures.products
    <3>1. CASE Reply(r) \/ ~ReadStep(r)
      <4>1. req'[r].pc \notin StatsPCs
        BY <1>2, <3>1, SlotAfter, OtherStats DEF StepOf, Reply, IInv, TypeOK
      <4> QED BY <4>1 DEF StatsPCs
    <3>2. CASE ~Reply(r) /\ ReadStep(r)
      BY <3>2, FiguresStep DEF IInv
    <3> QED BY <3>1, <3>2
  <2> QED BY <2>1, <2>2 DEF FiguresOrdered
<1> QED BY <1>1, <1>2, StepCases DEF IInv

\* The figures of a statistics response agree, for any number of products and requests.
THEOREM FiguresAgreeAlways == Spec => []FiguresAgree
<1>1. Init => FiguresOrdered
  BY DEF Init, FiguresOrdered, Idle
<1>2. IInv /\ FiguresOrdered => FiguresAgree
  <2> SUFFICES ASSUME IInv, FiguresOrdered, NEW r \in Requests, req[r].pc = "report"
               PROVE  /\ req[r].figures.repaired <= req[r].figures.products
                      /\ Serial => req[r].figures =
                            [products |-> Cardinality(LiveProducts),
                             repaired |-> Cardinality(RepairedProducts),
                             categories |-> Cardinality(LiveCategories),
                             users |-> Cardinality(LiveAccounts)]
    BY DEF FiguresAgree, LiveCategories, LiveAccounts
  <2>1. req[r].figures \in Figures
    BY Slots DEF IInv, StatsPCs, StatsRequest
  <2>2. Serial => FreshStats(r)
    BY DEF IInv, Settled, Fresh
  <2>3. req[r].figures.repaired <= req[r].figures.products
    BY DEF FiguresOrdered
  <2> QED BY <2>1, <2>2, <2>3 DEF FreshStats, Figures
<1> QED BY <1>1, <1>2, FiguresKept, Invariants, PTL DEF Spec

-----------------------------------------------------------------------------
(***************************************************************************)
(* SKUs.                                                                   *)
(***************************************************************************)
\* Where requests come one at a time and no product is ever deleted: the rows have SKUs
\* that were drawn or their own, and the product about to be inserted one that no row has.
SkusFree ==
    Serial /\ "delete" \notin Ops =>
        /\ \A p \in Products : /\ product[p].st # "deleted"
                               /\ product[p].st # "absent" => product[p].sku \in Skus \cup {p}
        /\ \A r \in Requests : req[r].op = "create" => req[r].row.st = "live"
        /\ \A r \in Requests : req[r].pc = "insert" =>
              ~SkuTaken(req[r].row.sku) /\ req[r].row.sku \in Skus \cup {req[r].p}

\* What DrawSku finds then is what the unique index will say.
LEMMA DrawnFree ==
    ASSUME IInv, SkusFree, Serial, "delete" \notin Ops, NEW r \in Requests, req[r].pc = "drawsku"
    PROVE  /\ \A s : ~SkuSeen(s) => ~SkuTaken(s)
           /\ ~SkuTaken(req[r].p)
<1>1. \A p \in Products : product[p].st \in {"absent", "live"}
  BY DEF IInv, TypeOK, Product, RowStatus, SkusFree
<1>2. req[r].p \in Products /\ product[req[r].p].st = "absent"
  BY Slots DEF IInv, ProductPCs, ProductRequest, ProductsInHand, InHand, ProductOps
<1>3. \A q \in Products : product[q].st # "absent" => product[q].sku # req[r].p
  BY <1>2, CatalogueAssumption DEF SkusFree
<1> QED BY <1>1, <1>3 DEF SkuSeen, SkuTaken, Live

\* The row and the SKU of the slot after a step about a product.
LEMMA SkuAfter ==
    ASSUME IInv, SkusFree, Serial, "delete" \notin Ops, NEW r \in Requests, ProductStep(r),
           ~Reply(r)
    PROVE  /\ UNCHANGED product
           /\ req'[r].op = "create" => req'[r].row.st = "live"
           /\ req'[r].pc = "insert" => /\ ~SkuTaken(req'[r].row.sku)
                                       /\ req'[r].row.sku \in Skus \cup {req'[r].p}
<1>t. req \in [Requests -> Request]
  BY DEF IInv, TypeOK
<1>q. req[r].pc \in ProductPCs =>
         /\ req[r] \in ProductRequest /\ req[r].op \in ProductOps
         /\ InHand(req[r], product[req[r].p])
  BY Slots DEF IInv, ProductRequest, ProductOps, ProductsInHand
<1>u. ~(InsertProduct(r) \/ SaveProduct(r) \/ DeleteProduct(r))
  BY DEF InsertProduct, SaveProduct, DeleteProduct
<1>k. UNCHANGED product
  BY <1>u DEF ProductStep, ArriveProduct, HandleProduct, ArriveCreate, ArriveUpdate, ArriveDelete,
     FindProduct, Preload, CheckCategory, DrawSku
<1>1. CASE ArriveCreate(r)
  <2> DEFINE fresh(t, c, d, s) == [st |-> "live", sku |-> NoSku, cat |-> c, date |-> d,
                                   status |-> s, by |-> t.user]
  <2>0. \E t, p, c, d, s :
            Start(r, ProductSlot("create", IF c = NoCategory THEN "drawsku" ELSE "checkcategory",
                                 t, p, fresh(t, c, d, s), NoBody))
    BY <1>1 DEF ArriveCreate
  <2>f. \A t, c, d, s : fresh(t, c, d, s).st = "live"
    OBVIOUS
  <2> HIDE DEF fresh
  <2>1. PICK t, p, c, row :
            /\ row.st = "live"
            /\ Start(r, ProductSlot("create", IF c = NoCategory THEN "drawsku"
                                            ELSE "checkcategory", t, p, row, NoBody))
    BY <2>0, <2>f
  <2>2. req'[r].pc \in {"drawsku", "checkcategory"} /\ req'[r].row = row
    BY <1>t, <2>1 DEF Start, ProductSlot
  <2> QED BY <1>k, <2>1, <2>2
<1>2. CASE ArriveUpdate(r) \/ ArriveDelete(r)
  <2>1. \E op \in {"update", "delete"} : \E t, p, row, body :
            Start(r, ProductSlot(op, "find", t, p, row, body))
    BY <1>2 DEF ArriveUpdate, ArriveDelete
  <2>2. req'[r].pc = "find" /\ req'[r].op # "create"
    BY <1>t, <2>1 DEF Start, ProductSlot
  <2> QED BY <1>k, <2>2
<1>3. CASE FindProduct(r) \/ Preload(r)
  <2>1. req[r] \in ProductRequest /\ req[r].op # "create" /\ req[r].op \in {"update", "delete"}
    BY <1>3, <1>q DEF FindProduct, Preload, ProductPCs, ProductOps, InHand
  <2>2. req'[r].op = req[r].op /\ req'[r].pc # "insert"
    <3>1. CASE FindProduct(r)
      <4>1. \E row : req' = [req EXCEPT ![r] = [req[r] EXCEPT !.pc = "preload", !.row = row]]
        BY <3>1 DEF FindProduct, QueryFails
      <4> QED BY <1>t, <2>1, <4>1 DEF ProductRequest
    <3>2. CASE Preload(r)
      <4>1. \E c, v : req' = [req EXCEPT ![r] = [req[r] EXCEPT !.pc = AfterLoad(req[r]),
                                                              !.linked = c, !.spoken = v]]
        BY <3>2 DEF Preload, QueryFails
      <4>2. AfterLoad(req[r]) # "insert"
        BY DEF AfterLoad
      <4> QED BY <1>t, <2>1, <4>1, <4>2 DEF ProductRequest
    <3> QED BY <1>3, <3>1, <3>2
  <2> QED BY <1>k, <2>1, <2>2
<1>4. CASE CheckCategory(r)
  <2>1. req[r] \in ProductRequest
    BY <1>4, <1>q DEF CheckCategory, ProductPCs
  <2>2. \E pc \in {"drawsku", "save"} : req' = [req EXCEPT ![r] = [req[r] EXCEPT !.pc = pc]]
    BY <1>4 DEF CheckCategory, QueryFails, Goto
  <2>3. req'[r].op = req[r].op /\ req'[r].row = req[r].row /\ req'[r].pc # "insert"
    BY <1>t, <2>1, <2>2 DEF ProductRequest
  <2> QED BY <1>k, <2>3 DEF SkusFree
<1>5. CASE DrawSku(r)
  <2>1. /\ req[r] \in ProductRequest /\ req[r].pc = "drawsku" /\ req[r].row \in Product
        /\ req[r].op = "create" /\ req[r].row.st = "live"
    BY <1>5, <1>q DEF DrawSku, ProductPCs, ProductOps, InHand, ProductRequest, SkusFree
  <2> DEFINE with(s) == [req[r].row EXCEPT !.sku = s]
             drawn(s) == [req[r] EXCEPT !.pc = "insert", !.tries = 0, !.row = with(s)]
             again(n) == [req[r] EXCEPT !.tries = n]
  <2>2. \/ \E s : /\ (s \in Skus /\ ~SkuSeen(s)) \/ s = req[r].p
                  /\ req' = [req EXCEPT ![r] = drawn(s)]
        \/ \E n : req' = [req EXCEPT ![r] = again(n)]
    BY <1>5 DEF DrawSku, QueryFails
  <2>3. \A s : with(s).st = "live" /\ with(s).sku = s
    BY <2>1 DEF Product
  <2> HIDE DEF with
  <2>4. /\ \A s : drawn(s).row = with(s) /\ drawn(s).p = req[r].p
        /\ \A n : again(n).pc = "drawsku" /\ again(n).row = req[r].row
    BY <2>1 DEF ProductRequest
  <2> HIDE DEF drawn, again
  <2>5. CASE \E n : req' = [req EXCEPT ![r] = again(n)]
    <3>1. req'[r].pc = "drawsku" /\ req'[r].row.st = "live"
      BY <1>t, <2>1, <2>4, <2>5
    <3> QED BY <1>k, <3>1
  <2>6. ASSUME NEW s, (s \in Skus /\ ~SkuSeen(s)) \/ s = req[r].p,
               req' = [req EXCEPT ![r] = drawn(s)]
        PROVE  /\ req'[r].row.st = "live"
               /\ ~SkuTaken(req'[r].row.sku) /\ req'[r].row.sku \in Skus \cup {req'[r].p}
    <3>1. req'[r].row.st = "live" /\ req'[r].row.sku = s /\ req'[r].p = req[r].p
      BY <1>t, <2>3, <2>4, <2>6
    <3>2. ~SkuTaken(s)
      BY <2>1, <2>6, DrawnFree
    <3> QED BY <2>6, <3>1, <3>2
  <2> QED BY <1>k, <2>2, <2>5, <2>6
<1> QED BY <1>u, <1>1, <1>2, <1>3, <1>4, <1>5 DEF ProductStep, ArriveProduct, HandleProduct

\* The rows after a step about a product.
LEMMA SkuRows ==
    ASSUME IInv, Allowed, SkusFree, Serial, "delete" \notin Ops, NEW r \in Requests,
           ProductStep(r), NEW p \in Products
    PROVE  /\ product'[p].st # "deleted"
           /\ product'[p].st # "absent" => product'[p].sku \in Skus \cup {p}
<1>t. product \in [Products -> Product]
  BY DEF IInv, TypeOK
<1>o. /\ product[p].st # "deleted"
      /\ product[p].st # "absent" => product[p].sku \in Skus \cup {p}
  BY DEF SkusFree
<1>q. req[r].pc \in ProductPCs =>
         /\ req[r].p \in Products /\ req[r].op \in ProductOps /\ req[r].op \in Ops
         /\ InHand(req[r], product[req[r].p])
  BY Slots DEF IInv, ProductRequest, ProductOps, ProductsInHand, Allowed
<1>1. CASE InsertProduct(r)
  <2>1. product' = [product EXCEPT ![req[r].p] = req[r].row] \/ UNCHANGED product
    BY <1>1 DEF InsertProduct, Fails
  <2>2. /\ req[r].p \in Products /\ req[r].row.st = "live"
        /\ req[r].row.sku \in Skus \cup {req[r].p}
    BY <1>1, <1>q DEF InsertProduct, ProductPCs, InHand, ProductOps, SkusFree
  <2> QED BY <1>t, <1>o, <2>1, <2>2
<1>2. CASE SaveProduct(r)
  <2> DEFINE row == Relinked(Edited(req[r].row, req[r].body), req[r].linked)
  <2>1. product' = [product EXCEPT ![req[r].p] = row] \/ UNCHANGED product
    BY <1>2 DEF SaveProduct, Fails
  <2>2. /\ req[r].p \in Products /\ Live(req[r].p)
        /\ row.sku = product[req[r].p].sku
    BY <1>2, SavedRow DEF SaveProduct
  <2> HIDE DEF row
  <2>3. req[r].op # "create"
    BY <1>2, <1>q DEF SaveProduct, ProductPCs, InHand
  <2>4. product'[p] = product[p] \/ product'[p].st = "live"
    BY <1>2, <2>3, ProductRows DEF IInv, ProductStep, SaveProduct
  <2>5. product'[p].sku = product[p].sku /\ (product'[p] = product[p] \/ product[p].st = "live")
    BY <1>t, <2>1, <2>2 DEF Live
  <2> QED BY <1>o, <2>4, <2>5
<1>3. CASE DeleteProduct(r)
  BY <1>3, <1>q DEF DeleteProduct, ProductPCs, InHand, ProductOps
<1>4. CASE UNCHANGED product
  BY <1>o, <1>4
<1> QED BY <1>1, <1>2, <1>3, <1>4 DEF ProductStep, ArriveProduct, HandleProduct, ArriveCreate,
       ArriveUpdate, ArriveDelete, FindProduct, Preload, CheckCategory, DrawSku

\* Rows and slots stay so, whatever the requests of other kinds do.
LEMMA SkusKept == IInv /\ Allowed /\ SkusFree /\ [Next]_vars => SkusFree'
<1> SUFFICES ASSUME IInv, Allowed, SkusFree, [Next]_vars, Serial', "delete" \notin Ops'
             PROVE  SkusFree'
  BY DEF SkusFree
<1>e. Serial /\ "delete" \notin Ops
  BY StepCases DEF IInv, Serial, Ops
<1>1. CASE UNCHANGED <<tables, req>>
  BY <1>1, <1>e DEF tables, SkusFree, SkuTaken
<1>2. ASSUME NEW r \in Requests, StepOf(r) PROVE SkusFree'
  <2>1. \A q \in Requests \ {r} : req'[q].pc = "idle" /\ req'[q].op # "create"
    <3>1. \A q \in Requests \ {r} : req'[q] = req[q] /\ req[q].pc = "idle"
      BY <1>e, <1>2, Others DEF IInv
    <3>2. \A q \in Requests : req[q].pc = "idle" => req[q].op # "create"
      BY DEF IInv, ProductsInHand, InHand, ProductOps
    <3> QED BY <3>1, <3>2
  <2>2. ASSUME NEW p \in Products
        PROVE  /\ product'[p].st # "deleted"
               /\ product'[p].st # "absent" => product'[p].sku \in Skus \cup {p}
    <3>1. ProductStep(r) \/ UNCHANGED product
      BY <1>2, CategoryTypes DEF StepOf, CategoryStep, ContactStep, ArriveContact, HandleContact,
         FindOwner, Upsert, ReadBack, Answer, DropContact, AccountStep, ReadStep, tables, IInv
    <3>2. CASE UNCHANGED product
      BY <1>e, <3>2 DEF SkusFree
    <3> QED BY <1>e, <3>1, <3>2, SkuRows
  <2>3. /\ req'[r].op = "create" => req'[r].row.st = "live"
        /\ req'[r].pc = "insert" =>
              ~SkuTaken(req[r].row.sku)' /\ req'[r].row.sku \in Skus \cup {req'[r].p}
    <3>1. CASE Reply(r)
      <4>1. req'[r] = Idle
        BY <3>1 DEF Reply, IInv, TypeOK
      <4> QED BY <4>1 DEF Idle
    <3>2. CASE ProductStep(r) /\ ~Reply(r)
      BY <1>e, <3>2, SkuAfter DEF SkuTaken
    <3>3. CASE ~ProductStep(r)
      <4>1. req'[r] \in AccountRequest \cup CategoryRequest \cup ContactRequest \cup ListRequest
                            \cup StatsRequest \cup {Idle}
        BY <1>2, <3>3, SlotAfter DEF IInv, StepOf
      <4>2. req'[r].op \notin ProductOps /\ req'[r].pc \notin ProductPCs
        BY <4>1, NotOfProducts, OtherCounters
      <4> QED BY <4>2 DEF ProductOps, ProductPCs
    <3> QED BY <3>1, <3>2, <3>3
  <2> QED BY <2>1, <2>2, <2>3 DEF SkusFree
<1> QED BY <1>1, <1>2, StepCases DEF IInv

\* No creation is refused for its SKU where requests come one at a time and nothing is
\* deleted, however few SKUs there are to draw and however many products.
THEOREM SkusUnique == Spec => []SkuUnique
<1>1. Init => Allowed /\ SkusFree
  BY DEF Init, Allowed, SkusFree, Idle, ProductOps, CatalogueInit, NoRow
<1>2. IInv /\ SkusFree => SkuUnique
  BY DEF SkusFree, SkuUnique
<1>3. IInv /\ Allowed /\ [Next]_vars => Allowed'
  BY AllowedKept DEF IInv
<1> QED BY <1>1, <1>2, <1>3, SkusKept, Invariants, PTL DEF Spec
=============================================================================
