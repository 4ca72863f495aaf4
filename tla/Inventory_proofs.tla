-------------------------- MODULE Inventory_proofs --------------------------
(***************************************************************************)
(* Proofs about Inventory, for any users, products, categories, requests   *)
(* and environments.                                                       *)
(***************************************************************************)
EXTENDS Inventory, FiniteSetTheorems, TLAPS

AccountPCs == {"finduser", "deliver", "saveuser", "createuser", "deleteuser"}
ProductPCs == {"find", "preload", "checkcategory", "drawsku", "insert", "save", "dbdelete"}
CategoryPCs == {"insertcategory", "findcategory", "savecategory", "deletecategory"}
ContactPCs == {"findowner", "upsert", "readback", "answer", "dropcontact"}
StatsPCs == {"countproducts", "countcategories", "countusers", "report"}

\* TypeOK is not inductive: a row of users that is there has a role, and a request
\* about to write a role or to put it into a token has one.
RolesThere ==
    /\ \A u \in Users : account[u].st = "absent" \/ account[u].role \in Roles
    /\ \A r \in Requests :
          req[r].pc \in {"deliver", "saveuser", "createuser"} => req[r].role \in Roles

-----------------------------------------------------------------------------
(***************************************************************************)
(* Types of the request slots.                                             *)
(***************************************************************************)
\* What a slot is can be told from its program counter.
LEMMA Slots ==
    ASSUME TypeOK, NEW r \in Requests
    PROVE  /\ req[r] \in Request
           /\ req[r].pc \in AccountPCs => req[r] \in AccountRequest
           /\ req[r].pc \in ProductPCs => req[r] \in ProductRequest
           /\ req[r].pc \in CategoryPCs => req[r] \in CategoryRequest
           /\ req[r].pc \in ContactPCs => req[r] \in ContactRequest
           /\ req[r].pc \in {"count", "page"} => req[r] \in ListRequest
           /\ req[r].pc \in StatsPCs => req[r] \in StatsRequest
  BY DEF TypeOK, Request, Idle, AccountRequest, ProductRequest, CategoryRequest, ContactRequest,
         ListRequest, StatsRequest, AccountPCs, ProductPCs, CategoryPCs, ContactPCs, StatsPCs

\* A slot of each kind with some of its fields replaced.
LEMMA AccountFields ==
    ASSUME NEW q \in AccountRequest
    PROVE  /\ \A pc \in AccountPCs : [q EXCEPT !.pc = pc] \in AccountRequest
           /\ \A pc \in AccountPCs, role \in Roles \cup {"keep"} :
                 [q EXCEPT !.pc = pc, !.role = role] \in AccountRequest
  BY DEF AccountRequest, AccountPCs

LEMMA ProductFields ==
    ASSUME NEW q \in ProductRequest
    PROVE  /\ \A pc \in ProductPCs : [q EXCEPT !.pc = pc] \in ProductRequest
           /\ \A pc \in ProductPCs, row \in Product :
                 [q EXCEPT !.pc = pc, !.row = row] \in ProductRequest
           /\ \A pc \in ProductPCs, row \in Product, n \in 0..Attempts :
                 [q EXCEPT !.pc = pc, !.tries = n, !.row = row] \in ProductRequest
           /\ \A n \in 0..Attempts : [q EXCEPT !.tries = n] \in ProductRequest
           /\ \A pc \in ProductPCs, c \in Categories \cup {NoCategory},
                 v \in Values \cup {NoValue} :
                    [q EXCEPT !.pc = pc, !.linked = c, !.spoken = v] \in ProductRequest
  BY DEF ProductRequest, ProductPCs

LEMMA CategoryFields ==
    ASSUME NEW q \in CategoryRequest
    PROVE  \A pc \in CategoryPCs : [q EXCEPT !.pc = pc] \in CategoryRequest
  BY DEF CategoryRequest, CategoryPCs

LEMMA ContactFields ==
    ASSUME NEW q \in ContactRequest
    PROVE  /\ \A pc \in ContactPCs : [q EXCEPT !.pc = pc] \in ContactRequest
           /\ \A pc \in ContactPCs, v \in Values \cup {NoValue} :
                 [q EXCEPT !.pc = pc, !.said = v] \in ContactRequest
  BY DEF ContactRequest, ContactPCs

LEMMA ReadFields ==
    /\ \A q \in ListRequest, n \in Nat : [q EXCEPT !.pc = "page", !.total = n] \in ListRequest
    /\ \A q \in StatsRequest, pc \in StatsPCs, figures \in Figures :
          [q EXCEPT !.pc = pc, !.figures = figures] \in StatsRequest
  BY DEF ListRequest, StatsRequest, StatsPCs

\* One slot becomes another slot of its kind, or idle.
Becomes(r, kind) == \E q \in kind \cup {Idle} : req' = [req EXCEPT ![r] = q]

\* The other slots stay as they are, and the slot's counter is one of its kind's.
LEMMA Kinds ==
    ASSUME TypeOK, NEW r \in Requests, NEW kind, Becomes(r, kind)
    PROVE  /\ \A q \in Requests \ {r} : req'[q] = req[q]
           /\ req'[r] \in kind \cup {Idle}
           /\ kind = AccountRequest => req'[r].pc \in AccountPCs \cup {"idle"}
           /\ kind = ProductRequest => req'[r].pc \in ProductPCs \cup {"idle"}
           /\ kind = CategoryRequest => req'[r].pc \in CategoryPCs \cup {"idle"}
           /\ kind = ContactRequest => req'[r].pc \in ContactPCs \cup {"idle"}
           /\ kind = ListRequest \cup StatsRequest =>
                 req'[r].pc \in {"count", "page"} \cup StatsPCs \cup {"idle"}
<1>1. PICK q \in kind \cup {Idle} : req' = [req EXCEPT ![r] = q]
  BY DEF Becomes
<1>2. req \in [Requests -> Request]
  BY DEF TypeOK
<1>3. req'[r] = q /\ \A p \in Requests \ {r} : req'[p] = req[p]
  BY <1>1, <1>2
<1>i. Idle.pc = "idle"
  BY DEF Idle
<1>4. kind = AccountRequest => q.pc \in AccountPCs \cup {"idle"}
  BY <1>1, <1>i DEF AccountRequest, AccountPCs
<1>5. kind = ProductRequest => q.pc \in ProductPCs \cup {"idle"}
  BY <1>1, <1>i DEF ProductRequest, ProductPCs
<1>6. kind = CategoryRequest => q.pc \in CategoryPCs \cup {"idle"}
  BY <1>1, <1>i DEF CategoryRequest, CategoryPCs
<1>7. kind = ContactRequest => q.pc \in ContactPCs \cup {"idle"}
  BY <1>1, <1>i DEF ContactRequest, ContactPCs
<1>8. kind = ListRequest \cup StatsRequest =>
         q.pc \in {"count", "page"} \cup StatsPCs \cup {"idle"}
  BY <1>1, <1>i DEF ListRequest, StatsRequest, StatsPCs
<1> QED BY <1>1, <1>3, <1>4, <1>5, <1>6, <1>7, <1>8

LEMMA Replies ==
    ASSUME NEW r \in Requests, NEW kind, Reply(r)
    PROVE  Becomes(r, kind)
  BY DEF Reply, Becomes

\* Whoever makes a request that needs a token has one.
LEMMA CallersHold ==
    ASSUME TypeOK, NEW op, op \notin PublicOps
    PROVE  Callers(op) \subseteq Token
  BY DEF TypeOK, Callers

-----------------------------------------------------------------------------
\* Accounts.
LEMMA AccountTypes ==
    ASSUME TypeOK, RolesThere, NEW r \in Requests, ArriveAccount(r) \/ HandleAccount(r)
    PROVE  Becomes(r, AccountRequest) /\ account' \in [Users -> Account] /\ held' \subseteq Token
<1>t. /\ account \in [Users -> Account] /\ held \subseteq Token
      /\ env.vary \subseteq Columns
  BY TrafficAssumption DEF TypeOK, Environment
<1>s. ASSUME NEW q \in AccountRequest, Start(r, q) PROVE Becomes(r, AccountRequest)
  BY <1>s DEF Start, Becomes
<1>w. ASSUME NEW u \in Users, NEW role \in Roles, Write(u, role)
      PROVE  account' \in [Users -> Account]
  <2>1. [st |-> "live", role |-> role] \in Account
    BY DEF Account, RowStatus
  <2> QED BY <1>t, <1>w, <2>1 DEF Write
<1>1. CASE ArriveSignIn(r)
  <2>1. \A u \in Users : /\ AccountSlot("signin", "finduser", Nobody, u, "keep") \in AccountRequest
                         /\ AccountSlot("register", "createuser", Nobody, u, "viewer")
                                \in AccountRequest
    BY DEF AccountSlot, AccountRequest, AccountOps, Roles
  <2> QED BY <1>1, <1>s, <1>t, <2>1 DEF ArriveSignIn
<1>2. CASE ArriveUpdateMe(r)
  <2>1. PICK t \in Callers("updateme") :
            Start(r, AccountSlot("updateme", "finduser", t, t.user, "keep"))
    BY <1>2 DEF ArriveUpdateMe
  <2>2. t \in Token
    BY CallersHold DEF PublicOps
  <2>3. AccountSlot("updateme", "finduser", t, t.user, "keep") \in AccountRequest
    BY <2>2 DEF AccountSlot, AccountRequest, AccountOps, Token
  <2> QED BY <1>2, <1>s, <1>t, <2>1, <2>3 DEF ArriveUpdateMe
<1>3. CASE ArriveAdmin(r)
  <2>1. Callers("createuser") \subseteq Token
    BY CallersHold DEF PublicOps
  <2>2. Varies("role", Roles, "manager") \subseteq Roles
    BY DEF Varies, Roles
  <2>3. \A t \in Token, u \in Users, role \in Roles \cup {"keep"} :
           /\ AccountSlot("createuser", "createuser", t, u, role) \in AccountRequest
           /\ AccountSlot("setuser", "finduser", t, u, role) \in AccountRequest
           /\ AccountSlot("deluser", "deleteuser", t, u, "keep") \in AccountRequest
    BY DEF AccountSlot, AccountRequest, AccountOps
  <2>4. \E t \in Token, u \in Users, role \in Roles \cup {"keep"} :
           \/ Start(r, AccountSlot("createuser", "createuser", t, u, role))
           \/ Start(r, AccountSlot("setuser", "finduser", t, u, role))
           \/ Start(r, AccountSlot("deluser", "deleteuser", t, u, "keep"))
    BY <1>3, <2>1, <2>2 DEF ArriveAdmin
  <2>5. Becomes(r, AccountRequest)
    BY <1>s, <2>3, <2>4
  <2> QED BY <1>3, <1>t, <2>5 DEF ArriveAdmin
<1>4. CASE CreateAccount(r)
  <2>1. req[r] \in AccountRequest /\ req[r].role \in Roles /\ req[r].user \in Users
    BY <1>4, Slots DEF CreateAccount, AccountPCs, RolesThere, AccountRequest
  <2>2. [req[r] EXCEPT !.pc = "finduser", !.role = "keep"] \in AccountRequest
    BY <2>1, AccountFields DEF AccountPCs
  <2>3. Becomes(r, AccountRequest)
    BY <1>4, <2>2, Replies DEF CreateAccount, Becomes
  <2>4. Write(req[r].user, req[r].role) \/ UNCHANGED account
    BY <1>4 DEF CreateAccount, Fails
  <2> QED BY <1>4, <1>t, <1>w, <2>1, <2>3, <2>4 DEF CreateAccount
<1>5. CASE FindAccount(r)
  <2>1. req[r] \in AccountRequest
    BY <1>5, Slots DEF FindAccount, AccountPCs
  <2>2. ASSUME LiveAccount(req[r].user)
        PROVE  [req[r] EXCEPT !.pc = AfterUser(req[r].op), !.role = RoleInHand(r)]
                   \in AccountRequest
    <3>1. AfterUser(req[r].op) \in AccountPCs
      BY DEF AfterUser, AccountPCs
    <3>2. RoleInHand(r) \in Roles \cup {"keep"}
      BY <2>1, <2>2 DEF RoleInHand, LiveAccount, RolesThere, AccountRequest
    <3> QED BY <2>1, <3>1, <3>2, AccountFields
  <2>3. Becomes(r, AccountRequest)
    BY <1>5, <2>2, Replies DEF FindAccount, QueryFails, Becomes
  <2> QED BY <1>5, <1>t, <2>3 DEF FindAccount
<1>6. CASE Deliver(r)
  <2>1. req[r].role \in Roles /\ req[r].user \in Users
    BY <1>6, Slots DEF Deliver, RolesThere, AccountPCs, AccountRequest
  <2>2. [user |-> req[r].user, role |-> req[r].role] \in Token
    BY <2>1 DEF Token
  <2> QED BY <1>6, <1>t, <2>2, Replies DEF Deliver
<1>7. CASE SaveAccount(r)
  <2>1. req[r].role \in Roles /\ req[r].user \in Users
    BY <1>7, Slots DEF SaveAccount, RolesThere, AccountPCs, AccountRequest
  <2>2. Write(req[r].user, req[r].role) \/ UNCHANGED account
    BY <1>7 DEF SaveAccount, Fails
  <2> QED BY <1>7, <1>t, <1>w, <2>1, <2>2, Replies DEF SaveAccount
<1>8. CASE DeleteAccount(r)
  <2>1. req[r].user \in Users
    BY <1>8, Slots DEF DeleteAccount, AccountPCs, AccountRequest
  <2>2. SoftDeleted(account[req[r].user]) \in Account
    BY <1>t, <2>1 DEF SoftDeleted, Account, RowStatus
  <2>3. \/ account' = [account EXCEPT ![req[r].user] = SoftDeleted(@)]
        \/ UNCHANGED account
    BY <1>8 DEF DeleteAccount, Fails
  <2>4. account' \in [Users -> Account]
    BY <1>t, <2>1, <2>2, <2>3
  <2> QED BY <1>8, <1>t, <2>4, Replies DEF DeleteAccount
<1> QED BY <1>1, <1>2, <1>3, <1>4, <1>5, <1>6, <1>7, <1>8 DEF ArriveAccount, HandleAccount

-----------------------------------------------------------------------------
\* Products and categories.
LEMMA ProductTypes ==
    ASSUME TypeOK, NEW r \in Requests, ArriveProduct(r) \/ HandleProduct(r)
    PROVE  /\ Becomes(r, ProductRequest)
           /\ product' \in [Products -> Product]
           /\ category' \in [Categories -> Category]
           /\ contact' \in [Products -> Contact]
<1>t. /\ product \in [Products -> Product] /\ category \in [Categories -> Category]
      /\ contact \in [Products -> Contact]
  BY DEF TypeOK
<1>s. ASSUME NEW q \in ProductRequest, Start(r, q) PROVE Becomes(r, ProductRequest)
  BY <1>s DEF Start, Becomes
<1>f. ASSUME NEW q \in ProductRequest, req' = [req EXCEPT ![r] = q] PROVE Becomes(r, ProductRequest)
  BY <1>f DEF Becomes
<1>0. /\ NoRow \in Product /\ NoBody \in Body /\ NoField \in RawDate
      /\ Callers("create") \subseteq Token /\ Callers("update") \subseteq Token
      /\ Callers("delete") \subseteq Token
      /\ Named \subseteq Categories \cup {NoCategory}
      /\ Vacant \subseteq Products
  <2>1. NoRow \in Product /\ NoBody \in Body /\ NoField \in RawDate
    BY DEF NoRow, Product, RowStatus, AllSkus, Statuses, NoBody, Body, NoField, RawDate
  <2>2. /\ Callers("create") \subseteq Token /\ Callers("update") \subseteq Token
        /\ Callers("delete") \subseteq Token
    BY CallersHold DEF PublicOps
  <2>3. Named \subseteq Categories \cup {NoCategory} /\ Vacant \subseteq Products
    BY DEF Named, Varies, Vacant
  <2> QED BY <2>1, <2>2, <2>3
<1>k. ASSUME NEW op \in {"create", "update", "delete"}, NEW pc \in ProductPCs, NEW t \in Token,
             NEW p \in Products, NEW row \in Product, NEW body \in Body
      PROVE  ProductSlot(op, pc, t, p, row, body) \in ProductRequest
  <2>1. 0 \in 0..Attempts
    BY CatalogueAssumption
  <2> QED BY <2>1 DEF ProductSlot, ProductRequest, ProductPCs
<1>1. CASE ArriveCreate(r)
  <2>1. PICK t \in Callers("create"), p \in Vacant, c \in Named,
             d \in Varies("date", Dates \cup {NoDate}, NoDate),
             s \in Varies("status", Statuses, "en_progreso") :
             Start(r, ProductSlot("create",
                                  IF c = NoCategory THEN "drawsku" ELSE "checkcategory", t, p,
                                  [st |-> "live", sku |-> NoSku, cat |-> c, date |-> d,
                                   status |-> s, by |-> t.user], NoBody))
    BY <1>1 DEF ArriveCreate
  <2>2. d \in Dates \cup {NoDate} /\ s \in Statuses
    BY DEF Varies, Statuses
  <2>3. t.user \in Users
    BY <1>0 DEF Token
  <2>4. [st |-> "live", sku |-> NoSku, cat |-> c, date |-> d, status |-> s, by |-> t.user]
           \in Product
    BY <1>0, <2>2, <2>3 DEF Product, RowStatus, AllSkus
  <2>5. (IF c = NoCategory THEN "drawsku" ELSE "checkcategory") \in ProductPCs
    BY DEF ProductPCs
  <2> QED BY <1>0, <1>1, <1>k, <1>s, <1>t, <2>1, <2>4, <2>5 DEF ArriveCreate
<1>2. CASE ArriveUpdate(r)
  <2>1. PICK t \in Callers("update"), p \in Products, c \in Named,
             raw \in Varies("date", RawDates, NoField),
             s \in Varies("status", Statuses \cup {"keep"}, "keep") :
             Start(r, ProductSlot("update", "find", t, p, NoRow,
                                  [cat |-> c, date |-> raw, status |-> s]))
    BY <1>2 DEF ArriveUpdate
  <2>2. raw \in RawDate /\ s \in Statuses \cup {"keep"}
    BY <1>0 DEF Varies, RawDates
  <2>3. [cat |-> c, date |-> raw, status |-> s] \in Body
    BY <1>0, <2>2 DEF Body
  <2> QED BY <1>0, <1>2, <1>k, <1>s, <1>t, <2>1, <2>3 DEF ArriveUpdate, ProductPCs
<1>3. CASE ArriveDelete(r)
  <2>1. PICK t \in Callers("delete"), p \in Products :
            Start(r, ProductSlot("delete", "find", t, p, NoRow, NoBody))
    BY <1>3 DEF ArriveDelete
  <2> QED BY <1>0, <1>3, <1>k, <1>s, <1>t, <2>1 DEF ArriveDelete, ProductPCs
<1>q. req[r].pc \in ProductPCs =>
         /\ req[r] \in ProductRequest /\ req[r].p \in Products /\ req[r].row \in Product
         /\ req[r].row.cat \in Categories \cup {NoCategory}
         /\ req[r].linked \in Categories \cup {NoCategory} /\ req[r].body \in Body
         /\ req[r].tries \in 0..Attempts
  BY Slots DEF ProductRequest, Product
<1>4. CASE FindProduct(r)
  <2>1. req[r].pc = "find" /\ req[r].pc \in ProductPCs
    BY <1>4 DEF FindProduct, ProductPCs
  <2>2. [req[r] EXCEPT !.pc = "preload", !.row = product[req[r].p]] \in ProductRequest
    BY <1>q, <1>t, <2>1, ProductFields DEF ProductPCs
  <2>3. Becomes(r, ProductRequest)
    BY <1>4, <1>f, <2>2, Replies DEF FindProduct, QueryFails
  <2> QED BY <1>4, <1>t, <2>3 DEF FindProduct
<1>5. CASE Preload(r)
  <2>1. req[r].pc = "preload" /\ req[r].pc \in ProductPCs
    BY <1>5 DEF Preload, ProductPCs
  <2>2. contact[req[r].p].val \in Values \cup {NoValue}
    BY <1>q, <1>t, <2>1 DEF Contact
  <2>3. AfterLoad(req[r]) \in ProductPCs
    BY DEF AfterLoad, ProductPCs
  <2>4. \A c \in Categories \cup {NoCategory}, v \in Values \cup {NoValue} :
           [req[r] EXCEPT !.pc = AfterLoad(req[r]), !.linked = c, !.spoken = v]
               \in ProductRequest
    BY <1>q, <2>1, <2>3, ProductFields
  <2>5. Becomes(r, ProductRequest)
    BY <1>5, <1>f, <1>q, <2>1, <2>2, <2>4, Replies DEF Preload, QueryFails
  <2> QED BY <1>5, <1>t, <2>5 DEF Preload
<1>6. CASE CheckCategory(r)
  <2>1. req[r].pc = "checkcategory" /\ req[r].pc \in ProductPCs
    BY <1>6 DEF CheckCategory, ProductPCs
  <2>2. \A pc \in {"drawsku", "save"} : [req[r] EXCEPT !.pc = pc] \in ProductRequest
    BY <1>q, <2>1, ProductFields DEF ProductPCs
  <2>3. Becomes(r, ProductRequest)
    BY <1>6, <1>f, <2>2, Replies DEF CheckCategory, QueryFails, Goto
  <2> QED BY <1>6, <1>t, <2>3 DEF CheckCategory
<1>7. CASE DrawSku(r)
  <2>1. req[r].pc = "drawsku" /\ req[r].pc \in ProductPCs
    BY <1>7 DEF DrawSku, ProductPCs
  <2>2. 0 \in 0..Attempts
    BY CatalogueAssumption
  <2>3. \A s \in Skus \cup Products : [req[r].row EXCEPT !.sku = s] \in Product
    BY <1>q, <2>1 DEF Product, AllSkus
  <2>4. \A s \in Skus \cup Products :
           [req[r] EXCEPT !.pc = "insert", !.tries = 0, !.row = [req[r].row EXCEPT !.sku = s]]
               \in ProductRequest
    BY <1>q, <2>1, <2>2, <2>3, ProductFields DEF ProductPCs
  <2>5. req[r].tries + 1 < Attempts => req[r].tries + 1 \in 0..Attempts
    BY <1>q, <2>1, CatalogueAssumption
  <2>6. req[r].tries + 1 < Attempts =>
           [req[r] EXCEPT !.tries = req[r].tries + 1] \in ProductRequest
    BY <1>q, <2>1, <2>5, ProductFields
  <2>7. \/ \E s \in Skus \cup Products :
              req' = [req EXCEPT ![r] = [req[r] EXCEPT !.pc = "insert", !.tries = 0,
                                                       !.row = [req[r].row EXCEPT !.sku = s]]]
        \/ /\ req[r].tries + 1 < Attempts
           /\ req' = [req EXCEPT ![r] = [req[r] EXCEPT !.tries = req[r].tries + 1]]
        \/ Reply(r)
    BY <1>7, <1>q, <2>1 DEF DrawSku, QueryFails
  <2>8. Becomes(r, ProductRequest)
    BY <1>f, <2>4, <2>6, <2>7, Replies
  <2> QED BY <1>7, <1>t, <2>8 DEF DrawSku
<1>8. CASE InsertProduct(r)
  <2>1. req[r].pc = "insert" /\ req[r].pc \in ProductPCs
    BY <1>8 DEF InsertProduct, ProductPCs
  <2>2. product' = [product EXCEPT ![req[r].p] = req[r].row] \/ UNCHANGED product
    BY <1>8 DEF InsertProduct, Fails
  <2> QED BY <1>8, <1>q, <1>t, <2>1, <2>2, Replies DEF InsertProduct
<1>9. CASE SaveProduct(r)
  <2>1. req[r].pc = "save" /\ req[r].pc \in ProductPCs
    BY <1>9 DEF SaveProduct, ProductPCs
  <2>2. Edited(req[r].row, req[r].body) \in Product
    <3>1. /\ req[r].body.cat \in Categories \cup {NoCategory}
          /\ req[r].body.date.date \in Dates \cup {NoDate}
          /\ req[r].body.status \in Statuses \cup {"keep"}
      BY <1>q, <2>1 DEF Body, RawDate
    <3> QED BY <1>q, <2>1, <3>1 DEF Edited, ParseDateField, Product
  <2>3. Relinked(Edited(req[r].row, req[r].body), req[r].linked) \in Product
    BY <1>q, <2>1, <2>2 DEF Relinked, Product
  <2>4. \A row \in Category : InsertedUnlessThere(row) \in Category
    BY DEF InsertedUnlessThere, Category, RowStatus
  <2>5. \A row \in Contact : InsertedUnlessThere(row) \in Contact
    BY DEF InsertedUnlessThere, Contact, RowStatus
  <2>6. \/ UNCHANGED <<product, category, contact>>
        \/ /\ product' = [product EXCEPT ![req[r].p] =
                             Relinked(Edited(req[r].row, req[r].body), req[r].linked)]
           /\ category' = [c \in Categories |-> IF c = req[r].linked
                              THEN InsertedUnlessThere(category[c]) ELSE category[c]]
           /\ contact' = [contact EXCEPT ![req[r].p] = IF req[r].spoken = NoValue
                              THEN @ ELSE InsertedUnlessThere(@)]
    BY <1>9 DEF SaveProduct, Fails
  <2>7. product' \in [Products -> Product]
    BY <1>t, <2>3, <2>6
  <2>8. category' \in [Categories -> Category]
    BY <1>t, <2>4, <2>6
  <2>9. contact' \in [Products -> Contact]
    BY <1>t, <2>5, <2>6
  <2> QED BY <1>9, <2>7, <2>8, <2>9, Replies DEF SaveProduct
<1>10. CASE DeleteProduct(r)
  <2>1. req[r].pc = "dbdelete" /\ req[r].pc \in ProductPCs
    BY <1>10 DEF DeleteProduct, ProductPCs
  <2>2. SoftDeleted(product[req[r].p]) \in Product
    BY <1>q, <1>t, <2>1 DEF SoftDeleted, Product, RowStatus
  <2>3. product' = [product EXCEPT ![req[r].p] = SoftDeleted(@)] \/ UNCHANGED product
    BY <1>10 DEF DeleteProduct, Fails
  <2>4. product' \in [Products -> Product]
    BY <1>t, <2>2, <2>3
  <2> QED BY <1>10, <1>t, <2>4, Replies DEF DeleteProduct
<1> QED
  BY <1>1, <1>2, <1>3, <1>4, <1>5, <1>6, <1>7, <1>8, <1>9, <1>10
     DEF ArriveProduct, HandleProduct

LEMMA CategoryTypes ==
    ASSUME TypeOK, NEW r \in Requests, ArriveCategory(r) \/ HandleCategory(r)
    PROVE  /\ Becomes(r, CategoryRequest)
           /\ category' \in [Categories -> Category]
           /\ UNCHANGED <<product, contact>>
<1>t. category \in [Categories -> Category]
  BY DEF TypeOK
<1>f. ASSUME NEW q \in CategoryRequest, req' = [req EXCEPT ![r] = q]
      PROVE  Becomes(r, CategoryRequest)
  BY <1>f DEF Becomes
<1>q. req[r].pc \in CategoryPCs =>
         /\ req[r] \in CategoryRequest /\ req[r].cat \in Categories
         /\ \A pc \in CategoryPCs : [req[r] EXCEPT !.pc = pc] \in CategoryRequest
  BY Slots, CategoryFields DEF CategoryRequest
<1>1. CASE ArriveCategory(r)
  <2>1. /\ Callers("createcat") \subseteq Token
        /\ \A op \in {"updatecat", "delcat"} : Callers(op) \subseteq Token
    BY CallersHold DEF PublicOps
  <2>2. /\ \A t \in Token, c \in Categories :
              CategorySlot("createcat", "insertcategory", t, c) \in CategoryRequest
        /\ \A op \in {"updatecat", "delcat"}, t \in Token, c \in Categories :
              CategorySlot(op, "findcategory", t, c) \in CategoryRequest
    BY DEF CategorySlot, CategoryRequest
  <2>3. \E q \in CategoryRequest : Start(r, q)
    BY <1>1, <2>1, <2>2 DEF ArriveCategory
  <2> QED BY <1>1, <1>f, <1>t, <2>3 DEF ArriveCategory, Start
<1>2. CASE FindCategory(r)
  <2>1. req[r].pc \in CategoryPCs
    BY <1>2 DEF FindCategory, CategoryPCs
  <2>2. Goto(r, "savecategory") \/ Goto(r, "deletecategory") \/ Reply(r)
    BY <1>2 DEF FindCategory
  <2>3. Becomes(r, CategoryRequest)
    BY <1>f, <1>q, <2>1, <2>2, Replies DEF Goto, CategoryPCs
  <2> QED BY <1>2, <1>t, <2>3 DEF FindCategory
<1>3. CASE InsertCategory(r) \/ SaveCategory(r)
  <2>1. req[r].pc \in CategoryPCs
    BY <1>3 DEF InsertCategory, SaveCategory, CategoryPCs
  <2>2. [st |-> "live"] \in Category
    BY DEF Category, RowStatus
  <2>3. category' = [category EXCEPT ![req[r].cat] = [st |-> "live"]] \/ UNCHANGED category
    BY <1>3 DEF InsertCategory, SaveCategory, Fails
  <2>4. category' \in [Categories -> Category]
    BY <1>t, <2>2, <2>3
  <2> QED BY <1>3, <2>4, Replies DEF InsertCategory, SaveCategory
<1>4. CASE DeleteCategory(r)
  <2>1. req[r].pc \in CategoryPCs
    BY <1>4 DEF DeleteCategory, CategoryPCs
  <2>2. SoftDeleted(category[req[r].cat]) \in Category
    BY <1>q, <1>t, <2>1 DEF SoftDeleted, Category, RowStatus
  <2>3. category' = [category EXCEPT ![req[r].cat] = SoftDeleted(@)] \/ UNCHANGED category
    BY <1>4 DEF DeleteCategory, Fails
  <2>4. category' \in [Categories -> Category]
    BY <1>t, <2>2, <2>3
  <2> QED BY <1>4, <2>4, Replies DEF DeleteCategory
<1> QED BY <1>1, <1>2, <1>3, <1>4 DEF HandleCategory

\* Contacts.
LEMMA ContactTypes ==
    ASSUME TypeOK, NEW r \in Requests, ArriveContact(r) \/ HandleContact(r)
    PROVE  /\ Becomes(r, ContactRequest)
           /\ contact' \in [Products -> Contact]
           /\ UNCHANGED <<product, category>>
<1>t. contact \in [Products -> Contact]
  BY DEF TypeOK
<1>f. ASSUME NEW q \in ContactRequest, req' = [req EXCEPT ![r] = q] PROVE Becomes(r, ContactRequest)
  BY <1>f DEF Becomes
<1>q. req[r].pc \in ContactPCs =>
         /\ req[r] \in ContactRequest /\ req[r].p \in Products
         /\ req[r].val \in Values \cup {NoValue}
         /\ \A pc \in ContactPCs : [req[r] EXCEPT !.pc = pc] \in ContactRequest
         /\ \A v \in Values \cup {NoValue} :
               [req[r] EXCEPT !.pc = "answer", !.said = v] \in ContactRequest
  <2> SUFFICES ASSUME req[r] \in ContactRequest
               PROVE  /\ req[r].p \in Products /\ req[r].val \in Values \cup {NoValue}
                      /\ \A pc \in ContactPCs : [req[r] EXCEPT !.pc = pc] \in ContactRequest
                      /\ \A v \in Values \cup {NoValue} :
                            [req[r] EXCEPT !.pc = "answer", !.said = v] \in ContactRequest
    BY Slots
  <2>1. req[r].p \in Products /\ req[r].val \in Values \cup {NoValue}
    BY DEF ContactRequest
  <2>2. "answer" \in ContactPCs
    BY DEF ContactPCs
  <2> QED BY <2>1, <2>2, ContactFields
<1>1. CASE ArriveContact(r)
  <2>1. \A op \in ContactOps : Callers(op) \subseteq Token
    BY CallersHold DEF PublicOps, ContactOps
  <2>2. \A t \in Token, p \in Products, v \in Values :
           /\ ContactSlot("putcontact", "findowner", t, p, v) \in ContactRequest
           /\ ContactSlot("delcontact", "dropcontact", t, p, NoValue) \in ContactRequest
    BY DEF ContactSlot, ContactRequest, ContactOps
  <2>3. \E q \in ContactRequest : Start(r, q)
    BY <1>1, <2>1, <2>2 DEF ArriveContact, ContactOps
  <2> QED BY <1>1, <1>f, <1>t, <2>3 DEF ArriveContact, Start
<1>2. CASE FindOwner(r)
  <2>1. req[r].pc \in ContactPCs
    BY <1>2 DEF FindOwner, ContactPCs
  <2>2. Goto(r, "upsert") \/ Reply(r)
    BY <1>2 DEF FindOwner, QueryFails
  <2>3. Becomes(r, ContactRequest)
    BY <1>f, <1>q, <2>1, <2>2, Replies DEF Goto, ContactPCs
  <2> QED BY <1>2, <1>t, <2>3 DEF FindOwner
<1>3. CASE Upsert(r)
  <2>1. req[r].pc \in ContactPCs
    BY <1>3 DEF Upsert, ContactPCs
  <2>2. Upserted(contact[req[r].p], req[r].val) \in Contact
    BY <1>q, <1>t, <2>1 DEF Upserted, Contact, RowStatus
  <2>3. \/ contact' = [contact EXCEPT ![req[r].p] = Upserted(@, req[r].val)]
        \/ UNCHANGED contact
    BY <1>3 DEF Upsert, Fails
  <2>4. contact' \in [Products -> Contact]
    BY <1>t, <2>2, <2>3
  <2>5. Goto(r, "readback") \/ Reply(r)
    BY <1>3 DEF Upsert
  <2>6. Becomes(r, ContactRequest)
    BY <1>f, <1>q, <2>1, <2>5, Replies DEF Goto, ContactPCs
  <2> QED BY <1>3, <2>4, <2>6 DEF Upsert
<1>4. CASE ReadBack(r)
  <2>1. req[r].pc \in ContactPCs
    BY <1>4 DEF ReadBack, ContactPCs
  <2>2. contact[req[r].p].val \in Values \cup {NoValue}
    BY <1>q, <1>t, <2>1 DEF Contact
  <2>3. \E v \in Values \cup {NoValue} :
           req' = [req EXCEPT ![r] = [req[r] EXCEPT !.pc = "answer", !.said = v]]
    BY <1>4, <1>q, <2>1, <2>2 DEF ReadBack
  <2> QED BY <1>4, <1>f, <1>q, <1>t, <2>1, <2>3 DEF ReadBack
<1>5. CASE Answer(r)
  BY <1>5, <1>t, Replies DEF Answer
<1>6. CASE DropContact(r)
  <2>1. req[r].pc \in ContactPCs
    BY <1>6 DEF DropContact, ContactPCs
  <2>2. SoftDeleted(contact[req[r].p]) \in Contact
    BY <1>q, <1>t, <2>1 DEF SoftDeleted, Contact, RowStatus
  <2>3. contact' = [contact EXCEPT ![req[r].p] = SoftDeleted(@)] \/ UNCHANGED contact
    BY <1>6 DEF DropContact, Fails
  <2>4. contact' \in [Products -> Contact]
    BY <1>t, <2>2, <2>3
  <2> QED BY <1>6, <2>4, Replies DEF DropContact
<1> QED BY <1>1, <1>2, <1>3, <1>4, <1>5, <1>6 DEF HandleContact

-----------------------------------------------------------------------------
\* Reads.
LEMMA Counts ==
    /\ Cardinality(LiveProducts) \in Nat /\ Cardinality(RepairedProducts) \in Nat
    /\ Cardinality(RepairedProducts) <= Cardinality(LiveProducts)
    /\ Cardinality({c \in Categories : LiveCategory(c)}) \in Nat
    /\ Cardinality({u \in Users : LiveAccount(u)}) \in Nat
<1>1. /\ LiveProducts \subseteq Products /\ RepairedProducts \subseteq LiveProducts
      /\ {c \in Categories : LiveCategory(c)} \subseteq Categories
      /\ {u \in Users : LiveAccount(u)} \subseteq Users
  BY DEF LiveProducts, RepairedProducts
<1>2. IsFiniteSet(LiveProducts)
  BY <1>1, FS_Subset, CatalogueAssumption
<1>3. /\ IsFiniteSet({c \in Categories : LiveCategory(c)})
      /\ IsFiniteSet({u \in Users : LiveAccount(u)})
  BY <1>1, FS_Subset, CatalogueAssumption, TrafficAssumption
<1>4. /\ IsFiniteSet(RepairedProducts)
      /\ Cardinality(RepairedProducts) <= Cardinality(LiveProducts)
  BY <1>1, <1>2, FS_Subset
<1> QED BY <1>2, <1>3, <1>4, FS_CardinalityType

\* A page holds products that are there.
LEMMA Pages == \A s \in Sorted, n \in Nat : PageOf(s, n) \subseteq Products
<1> SUFFICES ASSUME NEW s \in Sorted, NEW n \in Nat PROVE PageOf(s, n) \subseteq Products
  OBVIOUS
<1>1. s \in [1..Cardinality(LiveProducts) -> LiveProducts]
  BY DEF Sorted, SetToSeqs
<1> QED BY <1>1 DEF PageOf, LiveProducts

LEMMA ReadTypes ==
    ASSUME TypeOK, NEW r \in Requests, ArriveRead(r) \/ HandleRead(r)
    PROVE  Becomes(r, ListRequest \cup StatsRequest) /\ walk' \in Walk
<1>t. walk \in Walk
  BY DEF TypeOK
<1>f. ASSUME NEW q \in ListRequest \cup StatsRequest, req' = [req EXCEPT ![r] = q]
      PROVE  Becomes(r, ListRequest \cup StatsRequest)
  BY <1>f DEF Becomes
<1>1. CASE ArriveList(r)
  <2>1. Callers("list") \subseteq Token
    BY CallersHold DEF PublicOps
  <2>2. \E q \in ListRequest : Start(r, q)
    BY <1>1, <2>1 DEF ArriveList, ListRequest
  <2>3. Becomes(r, ListRequest \cup StatsRequest)
    BY <1>f, <2>2 DEF Start
  <2>4. /\ NoWalk \in Walk /\ LiveProducts \in SUBSET Products
        /\ "asking" \in {"none", "between", "asking", "over"}
    BY DEF NoWalk, Walk, SortColumns, LiveProducts
  <2>5. \A column \in SortColumns, asc \in BOOLEAN :
           [NoWalk EXCEPT !.st = "asking", !.sort = column, !.asc = asc, !.start = LiveProducts]
               \in Walk
    BY <2>4 DEF Walk
  <2>6. [walk EXCEPT !.st = "asking"] \in Walk
    BY <1>t DEF Walk
  <2> QED BY <1>1, <2>3, <2>5, <2>6 DEF ArriveList
<1>2. CASE CountProducts(r)
  <2>1. req[r] \in ListRequest
    BY <1>2, Slots DEF CountProducts
  <2>2. Becomes(r, ListRequest \cup StatsRequest)
    BY <1>2, <1>f, <2>1, Counts, ReadFields, Replies DEF CountProducts, ListFails, QueryFails
  <2>3. [walk EXCEPT !.st = "between"] \in Walk
    BY <1>t DEF Walk
  <2> QED BY <1>2, <1>t, <2>2, <2>3 DEF CountProducts, ListFails
<1>3. CASE ReadPage(r)
  <2>1. req[r].total \in Nat
    BY <1>3, Slots DEF ReadPage, ListRequest
  <2>2. walk.page \in Nat /\ walk.page + 1 \in Nat /\ walk.seen \subseteq Products
        /\ walk.twice \in BOOLEAN
    BY <1>t DEF Walk
  <2>3. ASSUME NEW rows \in SUBSET Products, NEW st \in {"over", "between"}
        PROVE  [walk EXCEPT !.st = st, !.page = @ + 1, !.total = req[r].total,
                            !.seen = @ \cup rows, !.twice = @ \/ walk.seen \cap rows # {}] \in Walk
    <3>1. /\ walk.seen \cup rows \in SUBSET Products
          /\ (walk.twice \/ walk.seen \cap rows # {}) \in BOOLEAN
          /\ st \in {"none", "between", "asking", "over"}
      BY <2>2
    <3> QED BY <1>t, <2>1, <2>2, <3>1 DEF Walk
  <2>4. ASSUME NEW s \in Sorted,
               walk' = [walk EXCEPT !.st = IF PageOf(s, walk.page) = {} THEN "over" ELSE "between",
                                    !.page = @ + 1, !.total = req[r].total,
                                    !.seen = @ \cup PageOf(s, walk.page),
                                    !.twice = @ \/ walk.seen \cap PageOf(s, walk.page) # {}]
        PROVE  walk' \in Walk
    <3>1. PageOf(s, walk.page) \in SUBSET Products
      BY <2>2, Pages
    <3> QED BY <2>3, <2>4, <3>1
  <2>5. [walk EXCEPT !.st = "between"] \in Walk
    BY <1>t DEF Walk
  <2> QED BY <1>3, <2>4, <2>5, Replies DEF ReadPage, ListFails, QueryFails
<1>4. CASE ArriveStats(r)
  <2>1. Callers("stats") \subseteq Token
    BY CallersHold DEF PublicOps
  <2>2. \E q \in StatsRequest : Start(r, q)
    BY <1>4, <2>1 DEF ArriveStats, StatsRequest, Figures, NoFigures
  <2>3. Becomes(r, ListRequest \cup StatsRequest)
    BY <1>f, <2>2 DEF Start
  <2> QED BY <1>4, <1>t, <2>3 DEF ArriveStats
<1>5. CASE StatsProducts(r) \/ StatsCategories(r) \/ StatsUsers(r)
  <2>1. req[r] \in StatsRequest /\ req[r].figures \in Figures
    BY <1>5, Slots DEF StatsProducts, StatsCategories, StatsUsers, StatsPCs, StatsRequest
  <2>2. /\ [req[r].figures EXCEPT !.products = Cardinality(LiveProducts),
                                  !.repaired = Cardinality(RepairedProducts)] \in Figures
        /\ [req[r].figures EXCEPT !.categories =
               Cardinality({c \in Categories : LiveCategory(c)})] \in Figures
        /\ [req[r].figures EXCEPT !.users =
               Cardinality({u \in Users : LiveAccount(u)})] \in Figures
    BY <2>1, Counts DEF Figures
  <2>3. \A pc \in StatsPCs, figures \in Figures :
           [req[r] EXCEPT !.pc = pc, !.figures = figures] \in StatsRequest
    BY <2>1, ReadFields
  <2>4. {"countcategories", "countusers", "report"} \subseteq StatsPCs
    BY DEF StatsPCs
  <2>5. \/ \E pc \in StatsPCs, figures \in Figures : Record(r, pc, figures)
        \/ Reply(r)
    BY <1>5, <2>2, <2>4 DEF StatsProducts, StatsCategories, StatsUsers, QueryFails
  <2>6. Becomes(r, ListRequest \cup StatsRequest)
    BY <1>f, <2>3, <2>5, Replies DEF Record
  <2> QED BY <1>5, <1>t, <2>6 DEF StatsProducts, StatsCategories, StatsUsers
<1>6. CASE Report(r)
  BY <1>6, <1>t, Replies DEF Report
<1> QED BY <1>1, <1>2, <1>3, <1>4, <1>5, <1>6 DEF ArriveRead, HandleRead

-----------------------------------------------------------------------------
\* The types of Inventory, whatever happens in one step.
LEMMA TypesKept == TypeOK /\ RolesThere /\ [Next]_vars => TypeOK'
<1> SUFFICES ASSUME TypeOK, RolesThere, [Next]_vars PROVE TypeOK'
  OBVIOUS
<1>1. CASE UNCHANGED vars
  BY <1>1 DEF TypeOK, vars, tables
<1>b. ASSUME NEW r \in Requests, NEW kind \in SUBSET Request, Becomes(r, kind)
      PROVE  req' \in [Requests -> Request]
  BY <1>b DEF Becomes, TypeOK, Request
<1>k. /\ {AccountRequest, ProductRequest, CategoryRequest, ContactRequest} \subseteq SUBSET Request
      /\ ListRequest \cup StatsRequest \in SUBSET Request
  BY DEF Request
<1>2. CASE AccessNext /\ UNCHANGED env
  <2>1. CASE \E r \in Requests : ArriveAccount(r) \/ HandleAccount(r)
    BY <1>2, <1>b, <1>k, <2>1, AccountTypes DEF AccessNext, TypeOK, tables
  <2>2. CASE (\E t \in Token : AccessExpires(t)) /\ UNCHANGED account
    BY <1>2, <2>2 DEF AccessNext, AccessExpires, TypeOK, tables
  <2> QED BY <1>2, <2>1, <2>2 DEF AccessNext
<1>3. CASE CatalogueNext /\ UNCHANGED env
  <2>1. walk' \in Walk
    BY <1>3 DEF CatalogueNext, Noticed, TypeOK, Walk
  <2>2. PICK r \in Requests : \/ ArriveProduct(r) \/ HandleProduct(r)
                              \/ ArriveCategory(r) \/ HandleCategory(r)
                              \/ ArriveContact(r) \/ HandleContact(r)
    BY <1>3 DEF CatalogueNext
  <2>3. /\ req' \in [Requests -> Request]
        /\ product' \in [Products -> Product]
        /\ category' \in [Categories -> Category]
        /\ contact' \in [Products -> Contact]
    <3>1. CASE ArriveProduct(r) \/ HandleProduct(r)
      BY <1>b, <1>k, <3>1, ProductTypes
    <3>2. CASE ArriveCategory(r) \/ HandleCategory(r)
      BY <1>b, <1>k, <3>2, CategoryTypes DEF TypeOK
    <3>3. CASE ArriveContact(r) \/ HandleContact(r)
      BY <1>b, <1>k, <3>3, ContactTypes DEF TypeOK
    <3> QED BY <2>2, <3>1, <3>2, <3>3
  <2> QED BY <1>3, <2>1, <2>3 DEF CatalogueNext, TypeOK
<1>4. CASE ListingNext /\ UNCHANGED env
  BY <1>4, <1>b, <1>k, ReadTypes DEF ListingNext, TypeOK, tables
<1> QED BY <1>1, <1>2, <1>3, <1>4 DEF Next

\* A step of a handler of accounts leaves a role wherever there must be one.
LEMMA AccountRoles ==
    ASSUME TypeOK, RolesThere, NEW r \in Requests, ArriveAccount(r) \/ HandleAccount(r)
    PROVE  RolesThere'
<1>t. /\ account \in [Users -> Account] /\ req \in [Requests -> Request]
      /\ \A q \in Requests \ {r} : req'[q] = req[q]
  BY AccountTypes, Kinds DEF TypeOK
<1> DEFINE Ready == req'[r].pc \in {"deliver", "saveuser", "createuser"} => req'[r].role \in Roles
           Rows == \A u \in Users : account'[u].st = "absent" \/ account'[u].role \in Roles
<1> SUFFICES Ready /\ Rows
  BY <1>t DEF RolesThere
<1>r. Reply(r) => Ready
  BY <1>t DEF Reply, Idle
<1>u. UNCHANGED account => Rows
  BY DEF RolesThere
<1>w. \A u \in Users, role \in Roles : Write(u, role) => Rows
  BY <1>t DEF Write, RolesThere
<1>1. CASE ArriveAccount(r)
  <2>1. UNCHANGED account
    BY <1>1 DEF ArriveAccount, ArriveSignIn, ArriveUpdateMe, ArriveAdmin
  <2>2. Varies("role", Roles, "manager") \subseteq Roles /\ "viewer" \in Roles
    BY DEF Varies, Roles
  <2>3. \E op, pc, by, u, role :
            /\ Start(r, AccountSlot(op, pc, by, u, role))
            /\ pc \in {"finduser", "deleteuser"} \/ role \in Roles
    BY <1>1, <2>2 DEF ArriveAccount, ArriveSignIn, ArriveUpdateMe, ArriveAdmin
  <2>4. Ready
    BY <1>t, <2>3 DEF Start, AccountSlot
  <2> QED BY <1>u, <2>1, <2>4
<1>2. CASE CreateAccount(r)
  <2>1. req[r].role \in Roles /\ req[r].user \in Users /\ req[r] \in AccountRequest
    BY <1>2, Slots DEF CreateAccount, AccountPCs, RolesThere, AccountRequest
  <2>2. ASSUME req' = [req EXCEPT ![r] = [req[r] EXCEPT !.pc = "finduser", !.role = "keep"]]
        PROVE  Ready
    <3>1. req'[r] = [req[r] EXCEPT !.pc = "finduser", !.role = "keep"]
      BY <1>t, <2>2
    <3>2. req'[r].pc = "finduser"
      BY <2>1, <3>1 DEF AccountRequest
    <3> QED BY <3>2
  <2>3. \/ req' = [req EXCEPT ![r] = [req[r] EXCEPT !.pc = "finduser", !.role = "keep"]]
        \/ Reply(r)
    BY <1>2 DEF CreateAccount
  <2> HIDE DEF Ready, Rows
  <2>5. Ready
    BY <1>r, <2>2, <2>3
  <2>4. Write(req[r].user, req[r].role) \/ UNCHANGED account
    BY <1>2 DEF CreateAccount, Fails
  <2> QED BY <1>u, <1>w, <2>1, <2>4, <2>5
<1>3. CASE FindAccount(r)
  <2>1. req[r] \in AccountRequest
    BY <1>3, Slots DEF FindAccount, AccountPCs
  <2>2. ASSUME LiveAccount(req[r].user),
               req' = [req EXCEPT ![r] = [req[r] EXCEPT !.pc = AfterUser(req[r].op),
                                                       !.role = RoleInHand(r)]]
        PROVE  Ready
    <3>1. RoleInHand(r) \in Roles
      BY <2>1, <2>2 DEF RoleInHand, LiveAccount, RolesThere, AccountRequest
    <3>2. req'[r].role = RoleInHand(r)
      BY <1>t, <2>1, <2>2 DEF AccountRequest
    <3> QED BY <3>1, <3>2
  <2>3. Ready
    BY <1>3, <1>r, <2>2 DEF FindAccount, QueryFails
  <2> QED BY <1>3, <1>u, <2>3 DEF FindAccount
<1>4. CASE Deliver(r)
  BY <1>4, <1>r, <1>u DEF Deliver
<1>5. CASE SaveAccount(r)
  <2>1. req[r].role \in Roles /\ req[r].user \in Users
    BY <1>5, Slots DEF SaveAccount, RolesThere, AccountPCs, AccountRequest
  <2>2. Write(req[r].user, req[r].role) \/ UNCHANGED account
    BY <1>5 DEF SaveAccount, Fails
  <2> QED BY <1>5, <1>r, <1>u, <1>w, <2>1, <2>2 DEF SaveAccount
<1>6. CASE DeleteAccount(r)
  <2>1. req[r].user \in Users
    BY <1>6, Slots DEF DeleteAccount, AccountPCs, AccountRequest
  <2>2. \/ account' = [account EXCEPT ![req[r].user] = SoftDeleted(@)]
        \/ UNCHANGED account
    BY <1>6 DEF DeleteAccount, Fails
  <2>3. \A row \in Account :
           row.st = "absent" \/ row.role \in Roles =>
              SoftDeleted(row).st = "absent" \/ SoftDeleted(row).role \in Roles
    BY DEF SoftDeleted, Account
  <2>4. Rows
    BY <1>t, <1>u, <2>1, <2>2, <2>3 DEF RolesThere
  <2> QED BY <1>6, <1>r, <2>4 DEF DeleteAccount
<1> QED BY <1>1, <1>2, <1>3, <1>4, <1>5, <1>6 DEF HandleAccount

\* Which handlers move the slots, step by step: one of accounts, one of products,
\* categories or contacts, one of lists and statistics, or none.
LEMMA Steps ==
    ASSUME TypeOK, RolesThere, [Next]_vars
    PROVE  \/ UNCHANGED <<tables, account, req>> /\ held' \subseteq held
           \/ /\ UNCHANGED tables
              /\ \E r \in Requests : ArriveAccount(r) \/ HandleAccount(r)
           \/ /\ UNCHANGED <<account, held>>
              /\ \E r \in Requests :
                    \/ ArriveProduct(r) \/ HandleProduct(r)
                    \/ ArriveCategory(r) \/ HandleCategory(r)
                    \/ ArriveContact(r) \/ HandleContact(r)
           \/ /\ UNCHANGED <<tables, account, held>>
              /\ \E r \in Requests : ArriveRead(r) \/ HandleRead(r)
  BY DEF Next, AccessNext, CatalogueNext, ListingNext, AccessExpires, vars

\* ... and what kind of request it then is.
LEMMA StepKinds ==
    ASSUME TypeOK, RolesThere, [Next]_vars
    PROVE  \/ UNCHANGED <<tables, account, req>> /\ held' \subseteq held
           \/ /\ UNCHANGED tables
              /\ \E r \in Requests : /\ ArriveAccount(r) \/ HandleAccount(r)
                                     /\ Becomes(r, AccountRequest)
           \/ /\ UNCHANGED <<account, held>>
              /\ \E r \in Requests :
                    \/ (ArriveProduct(r) \/ HandleProduct(r)) /\ Becomes(r, ProductRequest)
                    \/ (ArriveCategory(r) \/ HandleCategory(r)) /\ Becomes(r, CategoryRequest)
                    \/ (ArriveContact(r) \/ HandleContact(r)) /\ Becomes(r, ContactRequest)
           \/ /\ UNCHANGED <<tables, account, held>>
              /\ \E r \in Requests : /\ ArriveRead(r) \/ HandleRead(r)
                                     /\ Becomes(r, ListRequest \cup StatsRequest)
<1>1. ASSUME NEW r \in Requests
      PROVE  /\ ArriveAccount(r) \/ HandleAccount(r) => Becomes(r, AccountRequest)
             /\ ArriveProduct(r) \/ HandleProduct(r) => Becomes(r, ProductRequest)
             /\ ArriveCategory(r) \/ HandleCategory(r) => Becomes(r, CategoryRequest)
             /\ ArriveContact(r) \/ HandleContact(r) => Becomes(r, ContactRequest)
             /\ ArriveRead(r) \/ HandleRead(r) => Becomes(r, ListRequest \cup StatsRequest)
  BY <1>1, AccountTypes, ProductTypes, CategoryTypes, ContactTypes, ReadTypes
<1> QED BY <1>1, Steps

LEMMA RolesKept == TypeOK /\ RolesThere /\ [Next]_vars => RolesThere'
<1> SUFFICES ASSUME TypeOK, RolesThere, [Next]_vars PROVE RolesThere'
  OBVIOUS
<1>1. CASE UNCHANGED <<account, req>>
  BY <1>1 DEF RolesThere
<1>2. CASE \E r \in Requests : ArriveAccount(r) \/ HandleAccount(r)
  BY <1>2, AccountRoles
<1>3. CASE UNCHANGED account /\ \E r \in Requests :
              \E kind \in {ProductRequest, CategoryRequest, ContactRequest,
                           ListRequest \cup StatsRequest} : Becomes(r, kind)
  <2>1. PICK r \in Requests :
            \E kind \in {ProductRequest, CategoryRequest, ContactRequest,
                         ListRequest \cup StatsRequest} : Becomes(r, kind)
    BY <1>3
  <2>2. /\ \A q \in Requests \ {r} : req'[q] = req[q]
        /\ req'[r].pc \notin {"deliver", "saveuser", "createuser"}
    BY <2>1, Kinds DEF ProductPCs, CategoryPCs, ContactPCs, StatsPCs
  <2> QED BY <1>3, <2>2 DEF RolesThere
<1> QED BY <1>1, <1>2, <1>3, StepKinds

LEMMA InitTypes == Init => TypeOK /\ RolesThere
<1> SUFFICES ASSUME Init PROVE TypeOK /\ RolesThere
  OBVIOUS
<1>1. /\ product \in [Products -> Product] /\ category \in [Categories -> Category]
      /\ contact \in [Products -> Contact]
  BY DEF Init, CatalogueInit, NoRow, Product, Category, Contact, RowStatus, AllSkus, Statuses
<1>2. account \in [Users -> Account] /\ held \subseteq Token
  BY AccessAssumption DEF Init, AccessInit, Account, RowStatus, Roles, Token
<1>3. walk \in Walk
  BY DEF Init, ListingInit, NoWalk, Walk, SortColumns
<1>4. req \in [Requests -> Request]
  BY DEF Init, Request
<1>5. RolesThere
  BY DEF Init, AccessInit, RolesThere, Idle, Roles
<1>6. env \in Environments
  BY DEF Init
<1> QED BY <1>1, <1>2, <1>3, <1>4, <1>5, <1>6 DEF TypeOK

LEMMA Invariant == Spec => [](TypeOK /\ RolesThere)
<1>1. TypeOK /\ RolesThere /\ [Next]_vars => (TypeOK /\ RolesThere)'
  BY TypesKept, RolesKept
<1> QED BY <1>1, InitTypes, PTL DEF Spec

\* The type invariant of Inventory.
THEOREM TypeCorrect == Spec => []TypeOK
BY Invariant, PTL

-----------------------------------------------------------------------------
(***************************************************************************)
(* Contacts.                                                               *)
(***************************************************************************)
\* A contact that was deleted comes back only by an upsert: not by saving a product that
\* was loaded with it, whatever overlaps and fails (SaveProduct, Upsert).
LEMMA DeletedContactStep ==
    ASSUME TypeOK, RolesThere, [Next]_vars, NEW p \in Products,
           contact[p].st = "deleted", contact'[p].st # "deleted"
    PROVE  \E r \in Requests : req[r].pc = "upsert" /\ req[r].p = p
<1>t. contact \in [Products -> Contact]
  BY DEF TypeOK
<1>k. /\ SoftDeleted(contact[p]) = contact[p]
      /\ InsertedUnlessThere(contact[p]) = contact[p]
  BY DEF SoftDeleted, InsertedUnlessThere
<1>n. \A q \in Products : contact' # [contact EXCEPT ![q] = SoftDeleted(@)]
  BY <1>t, <1>k
<1>1. CASE UNCHANGED contact
  BY <1>1
<1>2. ASSUME NEW r \in Requests, HandleProduct(r) \/ ArriveProduct(r) PROVE FALSE
  <2>1. CASE SaveProduct(r)
    <3>1. req[r].p \in Products
      BY <2>1, Slots DEF SaveProduct, ProductPCs, ProductRequest
    <3>2. \/ contact' = [contact EXCEPT ![req[r].p] = IF req[r].spoken = NoValue
                                THEN contact[req[r].p] ELSE InsertedUnlessThere(contact[req[r].p])]
          \/ UNCHANGED contact
      BY <2>1 DEF SaveProduct, Fails
    <3> QED BY <1>t, <1>k, <3>1, <3>2
  <2> QED BY <1>2, <2>1 DEF HandleProduct, ArriveProduct, ArriveCreate, ArriveUpdate, ArriveDelete,
         FindProduct, Preload, CheckCategory, DrawSku, InsertProduct, DeleteProduct
<1>3. ASSUME NEW r \in Requests, HandleCategory(r) \/ ArriveCategory(r) PROVE FALSE
  BY <1>3 DEF HandleCategory, ArriveCategory, InsertCategory, FindCategory, SaveCategory,
         DeleteCategory
<1>4. ASSUME NEW r \in Requests, HandleContact(r) \/ ArriveContact(r)
      PROVE  req[r].pc = "upsert" /\ req[r].p = p
  <2>1. CASE Upsert(r)
    <3>1. req[r].pc = "upsert" /\ req[r].p \in Products
      BY <2>1, Slots DEF Upsert, ContactPCs, ContactRequest
    <3>2. \/ contact' = [contact EXCEPT ![req[r].p] = Upserted(contact[req[r].p], req[r].val)]
          \/ UNCHANGED contact
      BY <2>1 DEF Upsert, Fails
    <3> QED BY <1>t, <3>1, <3>2
  <2>2. CASE DropContact(r)
    <3>1. req[r].p \in Products
      BY <2>2, Slots DEF DropContact, ContactPCs, ContactRequest
    <3> QED BY <1>n, <2>2, <3>1 DEF DropContact, Fails
  <2> QED BY <1>4, <2>1, <2>2 DEF HandleContact, ArriveContact, FindOwner, ReadBack, Answer
<1> QED BY <1>1, <1>2, <1>3, <1>4, Steps DEF tables

\* Deletion of a contact lasts until somebody writes a contact, for any number of
\* requests in any order.
THEOREM DeletedContactsStay == Spec => ContactReturnsByUpsert
<1>1. TypeOK /\ RolesThere /\ [Next]_vars =>
        [\A p \in Products : contact[p].st = "deleted" /\ contact'[p].st # "deleted" =>
            \E r \in Requests : req[r].pc = "upsert" /\ req[r].p = p]_vars
  BY DeletedContactStep
<1> QED BY <1>1, Invariant, PTL DEF Spec, ContactReturnsByUpsert

-----------------------------------------------------------------------------
(***************************************************************************)
(* Roles.                                                                  *)
(***************************************************************************)
\* A role that is gone from the account, the tokens and the requests under way stays
\* gone at a step of a handler of accounts, unless a request asks for it.
LEMMA RoleGone ==
    ASSUME TypeOK, RolesThere, NEW r \in Requests, ArriveAccount(r) \/ HandleAccount(r),
           NEW u \in Users, NEW role \in Roles, Without(u, role), ~AsksFor(r, u, role)
    PROVE  Without(u, role)'
<1>t. /\ account \in [Users -> Account] /\ req \in [Requests -> Request]
      /\ \A q \in Requests \ {r} : req'[q] = req[q]
  BY AccountTypes, Kinds DEF TypeOK
<1>o. /\ ~(account[u].st = "live" /\ account[u].role = role)
      /\ [user |-> u, role |-> role] \notin held
      /\ \A q \in Requests : ~Carries(q, u, role)
  BY DEF Without
<1> DEFINE Row == ~(account'[u].st = "live" /\ account'[u].role = role)
           Token2 == [user |-> u, role |-> role] \notin held'
           Slot == ~Carries(r, u, role)'
<1>s. ASSUME Row, Token2, Slot PROVE Without(u, role)'
  BY <1>s, <1>o, <1>t DEF Without, Carries
<1>i. Reply(r) => Slot
  BY <1>t DEF Reply, Idle, Carries
<1>h. UNCHANGED held => Token2
  BY <1>o
<1>a. UNCHANGED account => Row
  BY <1>o
<1>w. ASSUME NEW v \in Users, NEW new, Write(v, new), v # u \/ new # role PROVE Row
  BY <1>w, <1>t, <1>o DEF Write
<1> HIDE DEF Row, Token2, Slot
<1>1. CASE ArriveAccount(r)
  <2>1. UNCHANGED <<account, held>>
    BY <1>1 DEF ArriveAccount, ArriveSignIn, ArriveUpdateMe, ArriveAdmin
  <2>2. \E op, pc, by, v, new :
            /\ Start(r, AccountSlot(op, pc, by, v, new))
            /\ pc \in {"finduser", "deleteuser", "createuser"}
    BY <1>1 DEF ArriveAccount, ArriveSignIn, ArriveUpdateMe, ArriveAdmin
  <2>3. Slot
    BY <1>t, <2>2 DEF Start, AccountSlot, Slot, Carries
  <2> QED BY <1>s, <1>a, <1>h, <2>1, <2>3
<1>2. CASE CreateAccount(r)
  <2>1. req[r].pc = "createuser" /\ req[r].user \in Users /\ req[r] \in AccountRequest
    BY <1>2, Slots DEF CreateAccount, AccountPCs, AccountRequest
  <2>2. req[r].user # u \/ req[r].role # role
    BY <2>1 DEF AsksFor
  <2>3. Write(req[r].user, req[r].role) \/ UNCHANGED account
    BY <1>2 DEF CreateAccount, Fails
  <2>4. Row
    BY <1>a, <1>w, <2>1, <2>2, <2>3
  <2>5. \/ req' = [req EXCEPT ![r] = [req[r] EXCEPT !.pc = "finduser", !.role = "keep"]]
        \/ Reply(r)
    BY <1>2 DEF CreateAccount
  <2>6. ASSUME req' = [req EXCEPT ![r] = [req[r] EXCEPT !.pc = "finduser", !.role = "keep"]]
        PROVE  Slot
    <3>1. req'[r] = [req[r] EXCEPT !.pc = "finduser", !.role = "keep"]
      BY <1>t, <2>6
    <3>2. req'[r].pc = "finduser"
      BY <2>1, <3>1 DEF AccountRequest
    <3> QED BY <3>2 DEF Slot, Carries
  <2> QED BY <1>2, <1>s, <1>h, <1>i, <2>4, <2>5, <2>6 DEF CreateAccount
<1>3. CASE FindAccount(r)
  <2>1. req[r].pc = "finduser" /\ req[r] \in AccountRequest
    BY <1>3, Slots DEF FindAccount, AccountPCs
  <2>2. ASSUME LiveAccount(req[r].user),
               req' = [req EXCEPT ![r] = [req[r] EXCEPT !.pc = AfterUser(req[r].op),
                                                       !.role = RoleInHand(r)]]
        PROVE  Slot
    <3>1. req[r].user # u \/ RoleInHand(r) # role
      BY <1>o, <2>1, <2>2 DEF RoleInHand, LiveAccount, AsksFor
    <3>2. req'[r].role = RoleInHand(r) /\ req'[r].user = req[r].user
      BY <1>t, <2>1, <2>2 DEF AccountRequest
    <3> QED BY <3>1, <3>2 DEF Slot, Carries
  <2>3. Slot
    BY <1>3, <1>i, <2>2 DEF FindAccount, QueryFails
  <2> QED BY <1>3, <1>s, <1>a, <1>h, <2>3 DEF FindAccount
<1>4. CASE Deliver(r)
  <2>1. [user |-> req[r].user, role |-> req[r].role] # [user |-> u, role |-> role]
    BY <1>4, <1>o DEF Deliver, Carries
  <2>2. Token2
    BY <1>4, <1>o, <1>h, <2>1 DEF Deliver, Token2
  <2> QED BY <1>4, <1>s, <1>a, <1>i, <2>2 DEF Deliver
<1>5. CASE SaveAccount(r)
  <2>1. req[r].user \in Users
    BY <1>5, Slots DEF SaveAccount, AccountPCs, AccountRequest
  <2>2. req[r].user # u \/ req[r].role # role
    BY <1>5, <1>o DEF SaveAccount, Carries
  <2>3. Write(req[r].user, req[r].role) \/ UNCHANGED account
    BY <1>5 DEF SaveAccount, Fails
  <2>4. Row
    BY <1>a, <1>w, <2>1, <2>2, <2>3
  <2> QED BY <1>5, <1>s, <1>h, <1>i, <2>4 DEF SaveAccount
<1>6. CASE DeleteAccount(r)
  <2>1. req[r].user \in Users
    BY <1>6, Slots DEF DeleteAccount, AccountPCs, AccountRequest
  <2>2. \/ account' = [account EXCEPT ![req[r].user] = SoftDeleted(account[req[r].user])]
        \/ UNCHANGED account
    BY <1>6 DEF DeleteAccount, Fails
  <2>3. SoftDeleted(account[u]).st # "live"
    BY <1>t DEF SoftDeleted, Account
  <2>4. Row
    BY <1>t, <1>a, <1>o, <2>1, <2>2, <2>3 DEF Row
  <2> QED BY <1>6, <1>s, <1>h, <1>i, <2>4 DEF DeleteAccount
<1> QED BY <1>1, <1>2, <1>3, <1>4, <1>5, <1>6 DEF HandleAccount

\* Who has lost a role and every token of it gets it again only when somebody asks
\* for it, however sign-ins, updates and administrators' requests interleave.
LEMMA DemotionStep ==
    ASSUME TypeOK, RolesThere, [Next]_vars, NEW u \in Users, NEW role \in Roles,
           Without(u, role), \A r \in Requests : ~AsksFor(r, u, role)
    PROVE  Without(u, role)'
<1>1. CASE UNCHANGED <<account, req>> /\ held' \subseteq held
  BY <1>1 DEF Without, Carries
<1>2. CASE \E r \in Requests : ArriveAccount(r) \/ HandleAccount(r)
  BY <1>2, RoleGone
<1>3. CASE /\ UNCHANGED <<account, held>>
           /\ \E r \in Requests :
                 \E kind \in {ProductRequest, CategoryRequest, ContactRequest,
                              ListRequest \cup StatsRequest} : Becomes(r, kind)
  <2>1. PICK r \in Requests :
            \E kind \in {ProductRequest, CategoryRequest, ContactRequest,
                         ListRequest \cup StatsRequest} : Becomes(r, kind)
    BY <1>3
  <2>2. /\ \A q \in Requests \ {r} : req'[q] = req[q]
        /\ req'[r].pc \notin {"deliver", "saveuser"}
    BY <2>1, Kinds DEF ProductPCs, CategoryPCs, ContactPCs, StatsPCs
  <2>3. \A q \in Requests : ~Carries(q, u, role)'
    BY <2>2 DEF Without, Carries
  <2> QED BY <1>3, <2>3 DEF Without
<1> QED BY <1>1, <1>2, <1>3, StepKinds

\* A demotion holds, for any users and any number of requests in flight.
THEOREM DemotionsHold == Spec => DemotionHolds
<1>1. TypeOK /\ RolesThere /\ [Next]_vars =>
        [\A u \in Users, role \in Roles :
            Without(u, role) =>
                \/ Without(u, role)'
                \/ \E r \in Requests : AsksFor(r, u, role)]_vars
  BY DemotionStep
<1> QED BY <1>1, Invariant, PTL DEF Spec, DemotionHolds

-----------------------------------------------------------------------------
(***************************************************************************)
(* Deletions of products.                                                  *)
(***************************************************************************)
ProductOps == {"create", "update", "delete"}

\* What a request about a product relies on, where row is the product's row: the
\* product is not there yet, or it has been there and the one in memory has its
\* creator; and who is about to delete it may.
InHand(slot, row) ==
    /\ slot.op = "create" =>
          slot.pc \in {"checkcategory", "drawsku", "insert"} /\ row.st = "absent"
    /\ slot.op \in {"update", "delete"} =>
          /\ slot.pc \notin {"drawsku", "insert"}
          /\ row.st # "absent"
          /\ slot.pc # "find" => slot.row.by = row.by /\ slot.row.st = "live"
    /\ slot.op = "update" => slot.pc # "dbdelete"
    /\ slot.op = "delete" =>
          /\ slot.pc \in {"find", "preload", "dbdelete"}
          /\ slot.by.role \in {"admin", "manager"}
          /\ slot.pc = "dbdelete" => MayDelete(slot.by, slot.row)

ProductsInHand ==
    /\ \A r \in Requests : req[r].op \in ProductOps => InHand(req[r], product[req[r].p])
    /\ \A q, r \in Requests : q # r /\ req[q].op = "create" /\ req[r].op = "create" =>
          req[q].p # req[r].p

\* What a step does to the rows of products: the product of a creation is inserted,
\* or the one of an update or a deletion changes and keeps its creator.
LEMMA ProductRows ==
    ASSUME TypeOK, ProductsInHand, NEW r \in Requests, ArriveProduct(r) \/ HandleProduct(r),
           NEW p \in Products
    PROVE  \/ product'[p] = product[p]
           \/ req[r].op = "create" /\ req[r].p = p
           \/ /\ req[r].p = p /\ product[p].st # "absent"
              /\ product'[p].st # "absent" /\ product'[p].by = product[p].by
              /\ product'[p].st = "live" \/ req[r].pc = "dbdelete"
<1>t. product \in [Products -> Product]
  BY DEF TypeOK
<1>q. req[r].pc \in ProductPCs =>
         /\ req[r].p \in Products /\ req[r].row \in Product /\ req[r].op \in ProductOps
         /\ req[r].linked \in Categories \cup {NoCategory}
         /\ InHand(req[r], product[req[r].p])
  BY Slots DEF ProductRequest, ProductOps, ProductsInHand
<1>1. CASE InsertProduct(r)
  <2>1. req[r].op = "create" /\ req[r].p \in Products
    BY <1>1, <1>q DEF InsertProduct, ProductPCs, InHand, ProductOps
  <2>2. product' = [product EXCEPT ![req[r].p] = req[r].row] \/ UNCHANGED product
    BY <1>1 DEF InsertProduct, Fails
  <2> QED BY <1>t, <2>1, <2>2
<1>2. CASE SaveProduct(r)
  <2>1. /\ req[r].p \in Products /\ req[r].row \in Product /\ req[r].row.st = "live"
        /\ product[req[r].p].st # "absent" /\ req[r].row.by = product[req[r].p].by
    BY <1>2, <1>q DEF SaveProduct, ProductPCs, InHand, ProductOps
  <2> DEFINE row == Relinked(Edited(req[r].row, req[r].body), req[r].linked)
  <2>2. row.st = "live" /\ row.by = product[req[r].p].by
    <3>1. /\ Edited(req[r].row, req[r].body).st = "live"
          /\ Edited(req[r].row, req[r].body).by = product[req[r].p].by
      BY <2>1 DEF Edited, Product
    <3>2. \A c : LET e == Edited(req[r].row, req[r].body) IN
             [e EXCEPT !.cat = c].st = e.st /\ [e EXCEPT !.cat = c].by = e.by
      BY <2>1 DEF Edited, Product
    <3> QED BY <3>1, <3>2 DEF Relinked
  <2>3. product' = [product EXCEPT ![req[r].p] = row] \/ UNCHANGED product
    BY <1>2 DEF SaveProduct, Fails
  <2> HIDE DEF row
  <2>4. CASE req[r].p = p
    BY <1>t, <2>1, <2>2, <2>3, <2>4
  <2> QED BY <1>t, <2>1, <2>3, <2>4
<1>3. CASE DeleteProduct(r)
  <2>1. /\ req[r].p \in Products /\ req[r].pc = "dbdelete"
        /\ product[req[r].p].st # "absent"
    BY <1>3, <1>q DEF DeleteProduct, ProductPCs, InHand, ProductOps
  <2>2. \/ product' = [product EXCEPT ![req[r].p] = SoftDeleted(product[req[r].p])]
        \/ UNCHANGED product
    BY <1>3 DEF DeleteProduct, Fails
  <2>3. /\ SoftDeleted(product[req[r].p]).st # "absent"
        /\ SoftDeleted(product[req[r].p]).by = product[req[r].p].by
    BY <1>t, <2>1 DEF SoftDeleted, Product
  <2> QED BY <1>t, <2>1, <2>2, <2>3
<1> QED
  BY <1>1, <1>2, <1>3 DEF ArriveProduct, HandleProduct, ArriveCreate, ArriveUpdate, ArriveDelete,
     FindProduct, Preload, CheckCategory, DrawSku

\* A product is deleted only with the token of an administrator or of the manager who
\* created it, and keeps its creator.
LEMMA DeletionStep ==
    ASSUME TypeOK, RolesThere, ProductsInHand, [Next]_vars, NEW p \in Products
    PROVE  /\ Live(p) /\ product'[p].st # "live" =>
                  \E r \in Requests :
                     /\ req[r].pc = "dbdelete" /\ req[r].p = p
                     /\ \/ req[r].by.role = "admin"
                        \/ req[r].by = [user |-> product[p].by, role |-> "manager"]
           /\ product[p].st # "absent" => product'[p].by = product[p].by
<1>1. CASE UNCHANGED product
  BY <1>1 DEF Live
<1>2. ASSUME NEW r \in Requests, ArriveProduct(r) \/ HandleProduct(r)
      PROVE  /\ Live(p) /\ product'[p].st # "live" =>
                    /\ req[r].pc = "dbdelete" /\ req[r].p = p
                    /\ \/ req[r].by.role = "admin"
                       \/ req[r].by = [user |-> product[p].by, role |-> "manager"]
             /\ product[p].st # "absent" => product'[p].by = product[p].by
  <2>1. req[r].op = "create" /\ req[r].p = p => product[p].st = "absent"
    BY DEF ProductsInHand, ProductOps, InHand
  <2>2. ASSUME req[r].pc = "dbdelete", req[r].p = p
        PROVE  \/ req[r].by.role = "admin"
               \/ req[r].by = [user |-> product[p].by, role |-> "manager"]
    <3>1. req[r].by \in Token /\ req[r].op \in ProductOps
      BY <2>2, Slots DEF ProductPCs, ProductRequest, ProductOps
    <3>2. /\ req[r].op = "delete" /\ req[r].by.role \in {"admin", "manager"}
          /\ MayDelete(req[r].by, req[r].row) /\ req[r].row.by = product[p].by
      BY <2>2, <3>1 DEF ProductsInHand, ProductOps, InHand
    <3> QED BY <3>1, <3>2 DEF MayDelete, Token
  <2> QED BY <1>2, <2>1, <2>2, ProductRows DEF Live
<1>3. ASSUME NEW r \in Requests, ArriveCategory(r) \/ HandleCategory(r) PROVE UNCHANGED product
  BY <1>3, CategoryTypes
<1>4. ASSUME NEW r \in Requests, ArriveContact(r) \/ HandleContact(r) PROVE UNCHANGED product
  BY <1>4 DEF ArriveContact, HandleContact, FindOwner, Upsert, ReadBack, Answer, DropContact
<1> QED BY <1>1, <1>2, <1>3, <1>4, Steps DEF tables

\* A slot in hand, with no product another creation has.
Held(r, slot) ==
    /\ InHand(slot, product[slot.p])
    /\ slot.op = "create" => \/ slot.p \in Vacant
                             \/ req[r].op = "create" /\ slot.p = req[r].p

\* A step about a product frees its slot or leaves it in hand.
LEMMA ProductSlots ==
    ASSUME TypeOK, ProductsInHand, NEW r \in Requests, ArriveProduct(r) \/ HandleProduct(r)
    PROVE  \/ Reply(r)
           \/ UNCHANGED product /\ \E slot : req' = [req EXCEPT ![r] = slot] /\ Held(r, slot)
<1>t. product \in [Products -> Product]
  BY DEF TypeOK
<1>q. req[r].pc \in ProductPCs =>
         /\ req[r] \in ProductRequest /\ req[r].p \in Products /\ req[r].row \in Product
         /\ req[r].op \in ProductOps /\ InHand(req[r], product[req[r].p])
  BY Slots DEF ProductRequest, ProductOps, ProductsInHand
<1>1. CASE ArriveCreate(r)
  <2>1. \E t, row : \E p \in Vacant, pc \in {"drawsku", "checkcategory"} :
            Start(r, ProductSlot("create", pc, t, p, row, NoBody))
    BY <1>1 DEF ArriveCreate
  <2>2. \A t, row : \A p \in Vacant, pc \in {"drawsku", "checkcategory"} :
            Held(r, ProductSlot("create", pc, t, p, row, NoBody))
    BY DEF Held, ProductSlot, InHand, Vacant
  <2>3. PICK t, row : \E p \in Vacant, pc \in {"drawsku", "checkcategory"} :
            Start(r, ProductSlot("create", pc, t, p, row, NoBody))
    BY <2>1
  <2>4. PICK p \in Vacant, pc \in {"drawsku", "checkcategory"} :
            Start(r, ProductSlot("create", pc, t, p, row, NoBody))
    BY <2>3
  <2>5. Held(r, ProductSlot("create", pc, t, p, row, NoBody))
    BY <2>2
  <2> QED BY <1>1, <2>4, <2>5 DEF Start, ArriveCreate
<1>2. CASE ArriveUpdate(r)
  <2>1. \E t, body : \E p \in Products :
            /\ product[p].st # "absent"
            /\ Start(r, ProductSlot("update", "find", t, p, NoRow, body))
    BY <1>2 DEF ArriveUpdate
  <2>2. \A t, body : \A p \in Products : product[p].st # "absent" =>
            Held(r, ProductSlot("update", "find", t, p, NoRow, body))
    BY DEF Held, ProductSlot, InHand
  <2> QED BY <1>2, <2>1, <2>2 DEF Start, ArriveUpdate
<1>3. CASE ArriveDelete(r)
  <2>1. \E t \in Callers("delete"), p \in Products :
            /\ product[p].st # "absent"
            /\ Start(r, ProductSlot("delete", "find", t, p, NoRow, NoBody))
    BY <1>3 DEF ArriveDelete
  <2>2. \A t \in Callers("delete") : t.role \in {"admin", "manager"}
    BY DEF Callers, PublicOps, RolesFor, AdminOps, ManagerOps
  <2>3. \A t \in Callers("delete"), p \in Products : product[p].st # "absent" =>
            Held(r, ProductSlot("delete", "find", t, p, NoRow, NoBody))
    BY <2>2 DEF Held, ProductSlot, InHand
  <2> QED BY <1>3, <2>1, <2>3 DEF Start, ArriveDelete
<1>4. CASE FindProduct(r)
  <2>1. /\ req[r].pc = "find" /\ req[r].op \in {"update", "delete"} /\ req[r] \in ProductRequest
        /\ InHand(req[r], product[req[r].p])
    BY <1>4, <1>q DEF FindProduct, ProductPCs, InHand, ProductOps
  <2> DEFINE slot == [req[r] EXCEPT !.pc = "preload", !.row = product[req[r].p]]
  <2>2. /\ slot.op = req[r].op /\ slot.pc = "preload" /\ slot.p = req[r].p
        /\ slot.by = req[r].by /\ slot.row = product[req[r].p]
    BY <2>1 DEF ProductRequest
  <2> HIDE DEF slot
  <2>3. ASSUME Live(req[r].p) PROVE Held(r, slot)
    BY <2>1, <2>2, <2>3 DEF Held, InHand, Live
  <2>4. Reply(r) \/ (Live(req[r].p) /\ req' = [req EXCEPT ![r] = slot])
    BY <1>4 DEF FindProduct, QueryFails, slot
  <2> QED BY <1>4, <2>3, <2>4 DEF FindProduct
<1>5. CASE Preload(r)
  <2>1. /\ req[r].pc = "preload" /\ req[r].op \in {"update", "delete"}
        /\ req[r] \in ProductRequest /\ InHand(req[r], product[req[r].p])
    BY <1>5, <1>q DEF Preload, ProductPCs, InHand, ProductOps
  <2> DEFINE slot(c, v) == [req[r] EXCEPT !.pc = AfterLoad(req[r]), !.linked = c, !.spoken = v]
  <2>2. \A c, v : /\ slot(c, v).op = req[r].op /\ slot(c, v).pc = AfterLoad(req[r])
                  /\ slot(c, v).p = req[r].p /\ slot(c, v).by = req[r].by
                  /\ slot(c, v).row = req[r].row
    BY <2>1 DEF ProductRequest
  <2>3. \/ Reply(r)
        \/ /\ ~(req[r].op = "delete" /\ ~MayDelete(req[r].by, req[r].row))
           /\ \E c, v : req' = [req EXCEPT ![r] = slot(c, v)]
    BY <1>5 DEF Preload, QueryFails
  <2> HIDE DEF slot
  <2>4. /\ req[r].op = "delete" => AfterLoad(req[r]) = "dbdelete"
        /\ req[r].op = "update" => AfterLoad(req[r]) \in {"checkcategory", "save"}
    BY DEF AfterLoad
  <2>5. ASSUME NEW c, NEW v, ~(req[r].op = "delete" /\ ~MayDelete(req[r].by, req[r].row))
        PROVE  Held(r, slot(c, v))
    <3>1. slot(c, v).op # "create"
      BY <2>1, <2>2
    <3>2. InHand(slot(c, v), product[slot(c, v).p])
      BY <2>1, <2>2, <2>4, <2>5 DEF InHand
    <3> QED BY <3>1, <3>2 DEF Held
  <2> QED BY <1>5, <2>3, <2>5 DEF Preload
<1>6. CASE CheckCategory(r)
  <2>1. /\ req[r].pc = "checkcategory" /\ req[r].op \in {"create", "update"}
        /\ req[r] \in ProductRequest /\ InHand(req[r], product[req[r].p])
    BY <1>6, <1>q DEF CheckCategory, ProductPCs, InHand, ProductOps
  <2> DEFINE slot == [req[r] EXCEPT !.pc = IF req[r].op = "create" THEN "drawsku" ELSE "save"]
  <2>2. /\ slot.op = req[r].op /\ slot.p = req[r].p /\ slot.by = req[r].by
        /\ slot.row = req[r].row
        /\ slot.pc = IF req[r].op = "create" THEN "drawsku" ELSE "save"
    BY <2>1 DEF ProductRequest
  <2>3. Reply(r) \/ req' = [req EXCEPT ![r] = slot]
    BY <1>6 DEF CheckCategory, QueryFails, Goto
  <2> HIDE DEF slot
  <2>4. Held(r, slot)
    BY <2>1, <2>2 DEF Held, InHand
  <2> QED BY <1>6, <2>3, <2>4 DEF CheckCategory
<1>7. CASE DrawSku(r)
  <2>1. /\ req[r].pc = "drawsku" /\ req[r].op = "create"
        /\ req[r] \in ProductRequest /\ InHand(req[r], product[req[r].p])
    BY <1>7, <1>q DEF DrawSku, ProductPCs, InHand, ProductOps
  <2> DEFINE drawn(s) == [req[r] EXCEPT !.pc = "insert", !.tries = 0,
                                         !.row = [req[r].row EXCEPT !.sku = s]]
             again(n) == [req[r] EXCEPT !.tries = n]
  <2>2. /\ \A s : /\ drawn(s).op = "create" /\ drawn(s).pc = "insert"
                  /\ drawn(s).p = req[r].p
        /\ \A n : /\ again(n).op = "create" /\ again(n).pc = "drawsku"
                  /\ again(n).p = req[r].p
    BY <2>1 DEF ProductRequest
  <2>3. \/ Reply(r)
        \/ \E s : req' = [req EXCEPT ![r] = drawn(s)]
        \/ \E n : req' = [req EXCEPT ![r] = again(n)]
    BY <1>7 DEF DrawSku, QueryFails
  <2> HIDE DEF drawn, again
  <2>4. \A s : Held(r, drawn(s)) /\ Held(r, again(s))
    BY <2>1, <2>2 DEF Held, InHand
  <2> QED BY <1>7, <2>3, <2>4 DEF DrawSku
<1>8. CASE InsertProduct(r) \/ SaveProduct(r) \/ DeleteProduct(r)
  BY <1>8 DEF InsertProduct, SaveProduct, DeleteProduct
<1> QED BY <1>1, <1>2, <1>3, <1>4, <1>5, <1>6, <1>7, <1>8 DEF ArriveProduct, HandleProduct

LEMMA ProductsKept == TypeOK /\ RolesThere /\ ProductsInHand /\ [Next]_vars => ProductsInHand'
<1> SUFFICES ASSUME TypeOK, RolesThere, ProductsInHand, [Next]_vars PROVE ProductsInHand'
  OBVIOUS
<1>t. req \in [Requests -> Request]
  BY DEF TypeOK
<1>1. CASE UNCHANGED <<tables, req>>
  BY <1>1 DEF ProductsInHand, tables
<1>2. ASSUME NEW r \in Requests, ArriveProduct(r) \/ HandleProduct(r) PROVE ProductsInHand'
  <2>1. ASSUME NEW q \in Requests \ {r}, req[q].op \in ProductOps
        PROVE  InHand(req[q], product'[req[q].p])
    <3>1. InHand(req[q], product[req[q].p]) /\ req[q].p \in Products
      BY <2>1, Slots DEF ProductsInHand, Request, Idle, AccountRequest, AccountOps,
         ProductRequest, CategoryRequest, ContactRequest, ContactOps, ListRequest, StatsRequest,
         ProductOps
    <3>2. CASE product'[req[q].p] = product[req[q].p]
      BY <3>1, <3>2
    <3>3. CASE req[r].op = "create" /\ req[r].p = req[q].p
      <4>1. product[req[q].p].st = "absent" /\ req[q].op # "create"
        BY <2>1, <3>3 DEF ProductsInHand, InHand, ProductOps
      <4> QED BY <2>1, <3>1, <4>1 DEF InHand, ProductOps
    <3>4. CASE /\ product[req[q].p].st # "absent" /\ product'[req[q].p].st # "absent"
               /\ product'[req[q].p].by = product[req[q].p].by
      BY <2>1, <3>1, <3>4 DEF InHand, ProductOps
    <3> QED BY <1>2, <3>1, <3>2, <3>3, <3>4, ProductRows
  <2>2. CASE Reply(r)
    <3>1. req'[r] = Idle /\ \A q \in Requests \ {r} : req'[q] = req[q]
      BY <1>t, <2>2 DEF Reply
    <3>2. req'[r].op \notin ProductOps
      BY <3>1 DEF Idle, ProductOps
    <3>3. \A q \in Requests : req'[q].op \in ProductOps => q # r
      BY <3>2
    <3> QED BY <2>1, <3>1, <3>3 DEF ProductsInHand, ProductOps
  <2>3. CASE ~Reply(r)
    <3>1. UNCHANGED product
      BY <1>2, <2>3, ProductSlots
    <3>2. PICK slot : req' = [req EXCEPT ![r] = slot] /\ Held(r, slot)
      BY <1>2, <2>3, ProductSlots
    <3>3. req'[r] = slot /\ \A q \in Requests \ {r} : req'[q] = req[q]
      BY <1>t, <3>2
    <3>4. ASSUME NEW q \in Requests, req'[q].op \in ProductOps
          PROVE  InHand(req'[q], product'[req'[q].p])
      BY <3>1, <3>2, <3>3, <3>4 DEF Held, ProductsInHand
    <3>5. ASSUME NEW q \in Requests \ {r}, req[q].op = "create", slot.op = "create"
          PROVE  req[q].p # slot.p
      BY <3>2, <3>5 DEF Held, ProductsInHand, Vacant
    <3>6. ASSUME NEW q \in Requests, NEW p \in Requests, q # p,
                 req'[q].op = "create", req'[p].op = "create"
          PROVE  req'[q].p # req'[p].p
      BY <3>3, <3>5, <3>6 DEF ProductsInHand
    <3> QED BY <3>4, <3>6 DEF ProductsInHand
  <2> QED BY <2>2, <2>3
<1>3. CASE UNCHANGED product /\ \E r \in Requests :
              \E kind \in {AccountRequest, CategoryRequest, ContactRequest,
                           ListRequest \cup StatsRequest} : Becomes(r, kind)
  <2>1. PICK r \in Requests :
            \E kind \in {AccountRequest, CategoryRequest, ContactRequest,
                         ListRequest \cup StatsRequest} : Becomes(r, kind)
    BY <1>3
  <2>2. \A q \in Requests \ {r} : req'[q] = req[q]
    BY <2>1, Kinds
  <2>3. req'[r].op \notin ProductOps
    <3>1. PICK kind \in {AccountRequest, CategoryRequest, ContactRequest,
                         ListRequest \cup StatsRequest} : req'[r] \in kind \cup {Idle}
      BY <2>1, Kinds
    <3>2. CASE kind = ListRequest \cup StatsRequest
      BY <3>1, <3>2 DEF ProductOps, ListRequest, StatsRequest, Idle
    <3>3. CASE kind = AccountRequest
      BY <3>1, <3>3 DEF ProductOps, AccountRequest, AccountOps, Idle
    <3>4. CASE kind = CategoryRequest
      BY <3>1, <3>4 DEF ProductOps, CategoryRequest, Idle
    <3>5. CASE kind = ContactRequest
      BY <3>1, <3>5 DEF ProductOps, ContactRequest, ContactOps, Idle
    <3> QED BY <3>2, <3>3, <3>4, <3>5
  <2>4. \A q \in Requests : req'[q].op \in ProductOps => q # r
    BY <2>3
  <2> QED BY <1>3, <2>2, <2>4 DEF ProductsInHand, ProductOps
<1>4. ASSUME NEW r \in Requests, ArriveCategory(r) \/ HandleCategory(r) PROVE UNCHANGED product
  BY <1>4, CategoryTypes
<1>5. ASSUME NEW r \in Requests, ArriveContact(r) \/ HandleContact(r) PROVE UNCHANGED product
  BY <1>5 DEF ArriveContact, HandleContact, FindOwner, Upsert, ReadBack, Answer, DropContact
<1> QED BY <1>1, <1>2, <1>3, <1>4, <1>5, StepKinds DEF tables

\* The invariant the two parts of which the deletions need: products in hand are as
\* they were read in what matters, whoever writes them meanwhile.
LEMMA ProductsInvariant == Spec => [](TypeOK /\ RolesThere /\ ProductsInHand)
<1>1. Init => ProductsInHand
  BY DEF Init, ProductsInHand, Idle, ProductOps
<1> QED BY <1>1, Invariant, ProductsKept, PTL DEF Spec

\* Deletions are authorised, for any products, accounts and interleaving.
THEOREM DeletionsAuthorised == Spec => DeletesAuthorised
<1>1. TypeOK /\ RolesThere /\ ProductsInHand /\ [Next]_vars =>
        [\A p \in Products :
          /\ Live(p) /\ product'[p].st # "live" =>
                 \E r \in Requests :
                    /\ req[r].pc = "dbdelete" /\ req[r].p = p
                    /\ \/ req[r].by.role = "admin"
                       \/ req[r].by = [user |-> product[p].by, role |-> "manager"]
          /\ product[p].st # "absent" => product'[p].by = product[p].by]_vars
  BY DeletionStep
<1> QED BY <1>1, ProductsInvariant, PTL DEF Spec, DeletesAuthorised

-----------------------------------------------------------------------------
(***************************************************************************)
(* What requests about products are for.                                   *)
(***************************************************************************)
\* A request about a product is of an operation clients issue.
Allowed == \A r \in Requests : req[r].op \in ProductOps => req[r].op \in Ops

\* Slots of the other kinds are of other operations.
LEMMA NotOfProducts ==
    \A q : q \in AccountRequest \cup CategoryRequest \cup ContactRequest \cup ListRequest
               \cup StatsRequest \cup {Idle} => q.op \notin ProductOps
<1>1. \A q \in AccountRequest : q.op \notin ProductOps
  BY DEF AccountRequest, AccountOps, ProductOps
<1>2. \A q \in CategoryRequest \cup {Idle} : q.op \notin ProductOps
  BY DEF CategoryRequest, Idle, ProductOps
<1>3. \A q \in ContactRequest : q.op \notin ProductOps
  BY DEF ContactRequest, ContactOps, ProductOps
<1>4. \A q \in ListRequest \cup StatsRequest : q.op \notin ProductOps
  BY DEF ListRequest, StatsRequest, ProductOps
<1> QED BY <1>1, <1>2, <1>3, <1>4

\* A step about a product starts a request, ends one, or leaves its operation.
LEMMA ProductOp ==
    ASSUME TypeOK, NEW r \in Requests, ArriveProduct(r) \/ HandleProduct(r)
    PROVE  (\E slot : Start(r, slot)) \/ Reply(r) \/ req'[r].op = req[r].op
<1>t. req \in [Requests -> Request]
  BY DEF TypeOK
<1>q. req[r].pc \in ProductPCs => req[r] \in ProductRequest
  BY Slots
<1>1. CASE ArriveProduct(r)
  BY <1>1 DEF ArriveProduct, ArriveCreate, ArriveUpdate, ArriveDelete
<1>2. CASE FindProduct(r) \/ Preload(r) \/ CheckCategory(r) \/ DrawSku(r)
  <2>1. req[r] \in ProductRequest
    BY <1>2, <1>q DEF FindProduct, Preload, CheckCategory, DrawSku, ProductPCs
  <2>2. \/ Reply(r)
        \/ \E pc, row : req' = [req EXCEPT ![r] = [req[r] EXCEPT !.pc = pc, !.row = row]]
        \/ \E c, v : req' = [req EXCEPT ![r] = [req[r] EXCEPT !.pc = AfterLoad(req[r]),
                                                              !.linked = c, !.spoken = v]]
        \/ \E pc : req' = [req EXCEPT ![r] = [req[r] EXCEPT !.pc = pc]]
        \/ \E row : req' = [req EXCEPT ![r] = [req[r] EXCEPT !.pc = "insert", !.tries = 0,
                                                             !.row = row]]
        \/ \E n : req' = [req EXCEPT ![r] = [req[r] EXCEPT !.tries = n]]
    <3>1. CASE FindProduct(r)
      BY <3>1 DEF FindProduct, QueryFails
    <3>2. CASE Preload(r)
      BY <3>2 DEF Preload, QueryFails
    <3>3. CASE CheckCategory(r)
      BY <3>3 DEF CheckCategory, QueryFails, Goto
    <3>4. CASE DrawSku(r)
      BY <3>4 DEF DrawSku, QueryFails
    <3> QED BY <1>2, <3>1, <3>2, <3>3, <3>4
  <2> QED BY <1>t, <2>1, <2>2 DEF ProductRequest
<1>3. CASE InsertProduct(r) \/ SaveProduct(r) \/ DeleteProduct(r)
  BY <1>3 DEF InsertProduct, SaveProduct, DeleteProduct
<1> QED BY <1>1, <1>2, <1>3 DEF HandleProduct

LEMMA AllowedKept == TypeOK /\ RolesThere /\ Allowed /\ [Next]_vars => Allowed'
<1> SUFFICES ASSUME TypeOK, RolesThere, Allowed, [Next]_vars PROVE Allowed'
  OBVIOUS
<1>t. req \in [Requests -> Request] /\ Ops' = Ops
  BY DEF TypeOK, Next, vars, Ops
<1>1. CASE UNCHANGED req
  BY <1>1, <1>t DEF Allowed
<1>2. ASSUME NEW r \in Requests, ArriveProduct(r) \/ HandleProduct(r) PROVE Allowed'
  <2>1. \A q \in Requests \ {r} : req'[q] = req[q]
    BY <1>2, ProductTypes, Kinds
  <2>2. req'[r].op \in ProductOps => req'[r].op \in Ops
    <3>1. ASSUME NEW slot, Start(r, slot) PROVE req'[r].op \in Ops
      BY <1>t, <3>1 DEF Start
    <3>2. ASSUME Reply(r) PROVE req'[r].op \notin ProductOps
      BY <1>t, <3>2, NotOfProducts DEF Reply
    <3> QED BY <1>2, <3>1, <3>2, ProductOp DEF Allowed
  <2> QED BY <1>t, <2>1, <2>2 DEF Allowed
<1>3. ASSUME NEW r \in Requests,
             NEW kind \in {AccountRequest, CategoryRequest, ContactRequest,
                           ListRequest \cup StatsRequest}, Becomes(r, kind)
      PROVE  Allowed'
  <2>1. \A q \in Requests \ {r} : req'[q] = req[q]
    BY <1>3, Kinds
  <2>2. req'[r].op \notin ProductOps
    BY <1>3, Kinds, NotOfProducts
  <2> QED BY <1>t, <2>1, <2>2 DEF Allowed
<1> QED BY <1>1, <1>2, <1>3, StepKinds

-----------------------------------------------------------------------------
(***************************************************************************)
(* Lists, page by page.                                                    *)
(***************************************************************************)

\* How many products a list puts before this one.
Rank(p) == Cardinality({q \in LiveProducts : Before(q, p)})

\* The rows whose turn comes with this page, and those whose turn came earlier.
Ranked(page) == {p \in LiveProducts : Offset(page) <= Rank(p) /\ Rank(p) < Offset(page + 1)}
Earlier(page) == {p \in LiveProducts : Rank(p) < Offset(page)}

-----------------------------------------------------------------------------
\* Ranks are numbers.
LEMMA LiveFinite == IsFiniteSet(LiveProducts) /\ LiveProducts \subseteq Products
<1>1. LiveProducts \subseteq Products
  BY DEF LiveProducts
<1> QED BY <1>1, FS_Subset, CatalogueAssumption

LEMMA RankType ==
    ASSUME NEW p
    PROVE  Rank(p) \in Nat /\ Rank(p)' \in Nat
<1>1. /\ {q \in LiveProducts : Before(q, p)} \subseteq Products
      /\ {q \in LiveProducts : Before(q, p)}' \subseteq Products
  BY DEF LiveProducts
<1> QED BY <1>1, FS_Subset, FS_CardinalityType, CatalogueAssumption DEF Rank

\* There are n numbers from 1 to n.
LEMMA FirstNumbers ==
    ASSUME NEW n \in Nat
    PROVE  IsFiniteSet(1..n) /\ Cardinality(1..n) = n
  BY FS_Interval

\* Page numbers count from 1, offsets from 0.
LEMMA Offsets ==
    ASSUME NEW page \in Nat \ {0}
    PROVE  /\ Offset(page) \in Nat
           /\ Offset(page + 1) = Offset(page) + PageSize
           /\ Offset(1) = 0
<1>1. PageSize \in Nat /\ PageSize > 0
  BY ListingAssumption
<1>2. page - 1 \in Nat /\ page + 1 - 1 = page
  OBVIOUS
<1>3. \A m, n \in Nat : m * n \in Nat /\ (m + 1) * n = m * n + n
  OBVIOUS
<1>4. ((page - 1) + 1) * PageSize = (page - 1) * PageSize + PageSize
  BY <1>1, <1>2, <1>3
<1>5. (page - 1) + 1 = page
  OBVIOUS
<1>6. (1 - 1) * PageSize = 0
  BY <1>1
<1> QED BY <1>1, <1>2, <1>3, <1>4, <1>5, <1>6 DEF Offset

\* Where no two products compare equal, the order of a list is strict and total.
LEMMA BeforeOrder ==
    ASSUME TypeOK
    PROVE  /\ \A p \in Products : ~Before(p, p)
           /\ \A p, q \in Products : ~(Before(p, q) /\ Before(q, p))
           /\ Unambiguous => \A p, q \in LiveProducts : p # q => Before(p, q) \/ Before(q, p)
<1>1. /\ Products \subseteq Nat /\ Dates \subseteq Nat /\ NoDate \in Int
      /\ \A p \in Products : product[p].date \in Dates \cup {NoDate}
  BY CatalogueAssumption DEF TypeOK, Product
<1>2. walk.sort \in {"created_at", "entry_date"} /\ walk.asc \in BOOLEAN
  BY DEF TypeOK, Walk, SortColumns
<1>3. \A p, q \in Products : ~(Before(p, q) /\ Before(q, p))
  <2> SUFFICES ASSUME NEW p \in Products, NEW q \in Products, Before(p, q), Before(q, p)
               PROVE  FALSE
    OBVIOUS
  <2>0. \A d \in Dates \cup {NoDate} : d \in Int
    BY <1>1
  <2>d. product[p].date \in Dates \cup {NoDate} /\ product[q].date \in Dates \cup {NoDate}
    BY <1>1
  <2>p. p \in Int /\ q \in Int
    BY <1>1
  <2>e. product[p].date \in Int /\ product[q].date \in Int
    BY <2>0, <2>d
  <2>1. p \in Int /\ q \in Int /\ product[p].date \in Int /\ product[q].date \in Int
    BY <2>p, <2>e
  <2> QED BY <2>1 DEF Before
<1>4. \A p \in Products : ~Before(p, p)
  BY <1>3
<1>5. Unambiguous => \A p, q \in LiveProducts : p # q => Before(p, q) \/ Before(q, p)
  <2> SUFFICES ASSUME walk.sort = "created_at", NEW p \in LiveProducts, NEW q \in LiveProducts,
                      p # q
               PROVE  Before(p, q) \/ Before(q, p)
    BY DEF Unambiguous
  <2>1. p \in Nat /\ q \in Nat
    BY <1>1, LiveFinite
  <2> QED BY <2>1 DEF Before
<1> QED BY <1>3, <1>4, <1>5

\* A list then has each product at the place its rank says.
LEMMA SortedRanks ==
    ASSUME TypeOK, Unambiguous, NEW s \in Sorted
    PROVE  LET n == Cardinality(LiveProducts) IN
           /\ n \in Nat /\ DOMAIN s = 1..n
           /\ \A i \in 1..n : s[i] \in LiveProducts /\ Rank(s[i]) = i - 1
           /\ \A p \in LiveProducts : \E i \in 1..n : s[i] = p
<1> DEFINE n == Cardinality(LiveProducts)
<1>n. n \in Nat
  BY Counts
<1>s. /\ s \in [1..n -> LiveProducts]
      /\ \A i, j \in 1..n : i # j => s[i] # s[j]
      /\ \A i, j \in 1..n : i < j => ~Before(s[j], s[i])
  BY DEF Sorted, SetToSeqs
<1>c. IsFiniteSet(1..n) /\ Cardinality(1..n) = n
  BY <1>n, FirstNumbers
<1>i. s \in Injection(1..n, LiveProducts)
  BY <1>s DEF Injection, IsInjective
<1>j. s \in Surjection(1..n, LiveProducts)
  BY <1>i, <1>c, LiveFinite, FS_Injection
<1>1. \A p \in LiveProducts : \E i \in 1..n : s[i] = p
  BY <1>j DEF Surjection
<1>2. \A i, j \in 1..n : i < j => Before(s[i], s[j])
  BY <1>s, <1>n, BeforeOrder
<1>3. \A i, j \in 1..n : Before(s[j], s[i]) => j < i
  <2> SUFFICES ASSUME NEW i \in 1..n, NEW j \in 1..n, Before(s[j], s[i]) PROVE j < i
    OBVIOUS
  <2>1. s[i] \in Products /\ s[j] \in Products
    BY <1>s, LiveFinite
  <2>2. i # j
    BY <2>1, BeforeOrder
  <2>3. ~(i < j)
    BY <1>s
  <2> QED BY <2>2, <2>3, <1>n
<1>4. ASSUME NEW i \in 1..n PROVE Rank(s[i]) = i - 1
  <2> DEFINE T == {q \in LiveProducts : Before(q, s[i])}
             g == [j \in 1..(i - 1) |-> s[j]]
  <2>1. i - 1 \in Nat /\ \A j \in 1..(i - 1) : j \in 1..n /\ j < i
    BY <1>n, <1>4
  <2>2. g \in [1..(i - 1) -> T]
    BY <1>s, <1>2, <1>4, <2>1
  <2>3. \A a, b \in 1..(i - 1) : g[a] = g[b] => a = b
    BY <1>s, <2>1
  <2>4. \A t \in T : \E j \in 1..(i - 1) : g[j] = t
    <3> SUFFICES ASSUME NEW t \in T PROVE \E j \in 1..(i - 1) : g[j] = t
      OBVIOUS
    <3>1. PICK j \in 1..n : s[j] = t
      BY <1>1
    <3>2. j < i
      BY <1>3, <1>4, <3>1
    <3>3. j \in 1..(i - 1)
      BY <1>n, <1>4, <3>2
    <3> QED BY <3>1, <3>3
  <2> HIDE DEF g, T
  <2>5. g \in Bijection(1..(i - 1), T)
    BY <2>2, <2>3, <2>4 DEF Bijection, Injection, Surjection, IsInjective
  <2>6. IsFiniteSet(1..(i - 1)) /\ Cardinality(1..(i - 1)) = i - 1
    BY <2>1, FirstNumbers
  <2>7. Cardinality(T) = i - 1
    BY <2>5, <2>6, FS_Bijection DEF ExistsBijection
  <2> QED BY <2>7 DEF Rank, T
<1>5. DOMAIN s = 1..n
  BY <1>s
<1> QED BY <1>n, <1>s, <1>1, <1>4, <1>5

\* A page has the products whose rank is on it, however rows are put that compare equal,
\* and an empty one comes after them all.
LEMMA PageRanks ==
    ASSUME TypeOK, Unambiguous, NEW s \in Sorted, NEW page \in Nat \ {0}
    PROVE  /\ PageOf(s, page) = Ranked(page)
           /\ PageOf(s, page) = {} => \A p \in LiveProducts : Rank(p) < Offset(page)
<1> DEFINE n == Cardinality(LiveProducts)
<1>r. /\ n \in Nat /\ DOMAIN s = 1..n
      /\ \A i \in 1..n : s[i] \in LiveProducts /\ Rank(s[i]) = i - 1
      /\ \A p \in LiveProducts : \E i \in 1..n : s[i] = p
  BY SortedRanks
<1>o. /\ Offset(page) \in Nat /\ Offset(page + 1) = Offset(page) + PageSize
      /\ PageSize \in Nat /\ PageSize > 0
  BY Offsets, ListingAssumption
<1> HIDE DEF n
<1>1. ASSUME NEW i \in 1..n
      PROVE  /\ Offset(page) < i <=> Offset(page) <= i - 1
             /\ i <= Offset(page) + PageSize <=> i - 1 < Offset(page + 1)
  BY <1>r, <1>o
<1>2. PageOf(s, page) \subseteq Ranked(page)
  BY <1>r, <1>1 DEF PageOf, Ranked
<1>3. Ranked(page) \subseteq PageOf(s, page)
  <2> SUFFICES ASSUME NEW p \in Ranked(page) PROVE p \in PageOf(s, page)
    OBVIOUS
  <2>1. p \in LiveProducts /\ Offset(page) <= Rank(p) /\ Rank(p) < Offset(page + 1)
    BY DEF Ranked
  <2>2. PICK i \in 1..n : s[i] = p
    BY <1>r, <2>1
  <2>3. Rank(p) = i - 1
    BY <1>r, <2>2
  <2>4. Offset(page) < i /\ i <= Offset(page) + PageSize
    BY <1>1, <2>1, <2>3
  <2> QED BY <1>r, <2>2, <2>4 DEF PageOf
<1>4. ASSUME PageOf(s, page) = {}, NEW p \in LiveProducts, ~(Rank(p) < Offset(page))
      PROVE  FALSE
  <2>1. PICK i \in 1..n : s[i] = p
    BY <1>r
  <2>2. Rank(p) = i - 1
    BY <1>r, <2>1
  <2>3. Offset(page) + 1 \in 1..n
    BY <1>r, <1>o, <1>4, <2>2
  <2>4. PICK k \in 1..n : k = Offset(page) + 1
    BY <2>3
  <2>5. Offset(page) < k /\ k <= Offset(page) + PageSize
    BY <1>o, <2>4
  <2>6. s[k] \in PageOf(s, page)
    BY <1>r, <2>5 DEF PageOf
  <2> QED BY <1>4, <2>6
<1> QED BY <1>2, <1>3, <1>4

-----------------------------------------------------------------------------
\* A list request is a page of the walk that is being asked for, and there is one.
OneReader ==
    \A r \in Requests : req[r].pc \in {"count", "page"} =>
        /\ walk.st = "asking"
        /\ \A q \in Requests : req[q].pc \in {"count", "page"} => q = r

\* A step of anything else leaves the walk and the list request alone; a product that is
\* written meanwhile is noticed.
Elsewhere ==
    /\ /\ walk'.st = walk.st /\ walk'.sort = walk.sort /\ walk'.asc = walk.asc
       /\ walk'.page = walk.page /\ walk'.total = walk.total /\ walk'.start = walk.start
       /\ walk'.seen = walk.seen /\ walk'.twice = walk.twice
       /\ walk'.calm => walk.calm /\ (walk.st = "none" \/ product' = product)
    /\ \A q \in Requests : req'[q].pc \in {"count", "page"} => req'[q] = req[q]

ListStep(r) == ArriveList(r) \/ CountProducts(r) \/ ReadPage(r)

\* A step is one of the list request, or elsewhere.
LEMMA WalkSteps ==
    ASSUME TypeOK, RolesThere, [Next]_vars
    PROVE  \/ Elsewhere
           \/ UNCHANGED product /\ \E r \in Requests :
                 ListStep(r) /\ \A q \in Requests \ {r} : req'[q] = req[q]
<1>w. walk \in Walk
  BY DEF TypeOK
<1>n. /\ Noticed \/ UNCHANGED <<walk, product>> =>
            /\ walk'.st = walk.st /\ walk'.sort = walk.sort /\ walk'.asc = walk.asc
            /\ walk'.page = walk.page /\ walk'.total = walk.total /\ walk'.start = walk.start
            /\ walk'.seen = walk.seen /\ walk'.twice = walk.twice
            /\ walk'.calm => walk.calm /\ (walk.st = "none" \/ product' = product)
  BY <1>w DEF Noticed, Walk
<1>k. ASSUME NEW r \in Requests,
             NEW kind \in {AccountRequest, ProductRequest, CategoryRequest, ContactRequest},
             Becomes(r, kind)
      PROVE  \A q \in Requests : req'[q].pc \in {"count", "page"} => req'[q] = req[q]
  <2>1. req'[r].pc \notin {"count", "page"}
    BY <1>k, Kinds DEF AccountPCs, ProductPCs, CategoryPCs, ContactPCs
  <2> QED BY <1>k, <2>1, Kinds
<1>1. CASE UNCHANGED vars
  BY <1>1, <1>n DEF Elsewhere, vars, tables
<1>2. CASE AccessNext
  <2>1. UNCHANGED <<walk, product>>
    BY <1>2 DEF AccessNext, tables
  <2>2. UNCHANGED req \/ \E r \in Requests : ArriveAccount(r) \/ HandleAccount(r)
    BY <1>2 DEF AccessNext, AccessExpires
  <2>3. \A q \in Requests : req'[q].pc \in {"count", "page"} => req'[q] = req[q]
    BY <1>k, <2>2, AccountTypes
  <2> QED BY <1>n, <2>1, <2>3 DEF Elsewhere
<1>3. CASE CatalogueNext
  <2>1. Noticed
    BY <1>3 DEF CatalogueNext
  <2>2. \E r \in Requests : \/ ArriveProduct(r) \/ HandleProduct(r)
                            \/ ArriveCategory(r) \/ HandleCategory(r)
                            \/ ArriveContact(r) \/ HandleContact(r)
    BY <1>3 DEF CatalogueNext
  <2>3. \A q \in Requests : req'[q].pc \in {"count", "page"} => req'[q] = req[q]
    BY <1>k, <2>2, ProductTypes, CategoryTypes, ContactTypes
  <2> QED BY <1>n, <2>1, <2>3 DEF Elsewhere
<1>4. CASE ListingNext
  <2>1. PICK r \in Requests : ArriveRead(r) \/ HandleRead(r)
    BY <1>4 DEF ListingNext
  <2>2. UNCHANGED product
    BY <1>4 DEF ListingNext, tables
  <2>3. \A q \in Requests \ {r} : req'[q] = req[q]
    BY <2>1, ReadTypes, Kinds
  <2>4. CASE ListStep(r)
    BY <2>2, <2>3, <2>4
  <2>5. CASE ~ListStep(r)
    <3>1. UNCHANGED walk
      BY <2>1, <2>5 DEF ListStep, ArriveRead, HandleRead, ArriveStats, StatsProducts,
         StatsCategories, StatsUsers, Report
    <3>2. req'[r].pc \notin {"count", "page"}
      <4>t. req \in [Requests -> Request]
        BY DEF TypeOK
      <4>1. CASE ArriveStats(r)
        <5>1. \A t : [op |-> "stats", pc |-> "countproducts", by |-> t,
                      figures |-> NoFigures].pc = "countproducts"
          OBVIOUS
        <5> QED BY <4>t, <4>1, <5>1 DEF ArriveStats, Start
      <4>2. CASE Reply(r)
        BY <4>t, <4>2 DEF Reply, Idle
      <4>r. ASSUME NEW pc \in StatsPCs, NEW figures, req[r] \in StatsRequest,
                   Record(r, pc, figures)
            PROVE  req'[r].pc \notin {"count", "page"}
        <5>1. req'[r].pc = pc
          BY <4>t, <4>r DEF Record, StatsRequest
        <5> QED BY <5>1 DEF StatsPCs
      <4>3. CASE StatsProducts(r) \/ StatsCategories(r) \/ StatsUsers(r)
        <5>1. req[r] \in StatsRequest
          BY <4>3, Slots DEF StatsProducts, StatsCategories, StatsUsers, StatsPCs
        <5>2. {"countcategories", "countusers", "report"} \subseteq StatsPCs
          BY DEF StatsPCs
        <5>3. CASE StatsProducts(r)
          BY <4>2, <4>r, <5>1, <5>2, <5>3 DEF StatsProducts, QueryFails
        <5>4. CASE StatsCategories(r)
          BY <4>2, <4>r, <5>1, <5>2, <5>4 DEF StatsCategories, QueryFails
        <5>5. CASE StatsUsers(r)
          BY <4>2, <4>r, <5>1, <5>2, <5>5 DEF StatsUsers, QueryFails
        <5> QED BY <4>3, <5>3, <5>4, <5>5
      <4> QED BY <2>1, <2>5, <4>1, <4>2, <4>3 DEF ListStep, ArriveRead, HandleRead, Report
    <3> QED BY <1>n, <2>2, <2>3, <3>1, <3>2 DEF Elsewhere
  <2> QED BY <2>4, <2>5
<1> QED BY <1>1, <1>2, <1>3, <1>4 DEF Next

\* The slot and the walk after each step of a list.
LEMMA ListSlots ==
    ASSUME TypeOK, NEW r \in Requests, ListStep(r)
    PROVE  /\ ArriveList(r) => req'[r].pc = "count"
           /\ CountProducts(r) =>
                 /\ req[r].pc = "count"
                 /\ \/ /\ req'[r].pc = "page" /\ UNCHANGED walk
                       /\ req'[r].total = Cardinality(LiveProducts)
                    \/ req'[r].pc = "idle" /\ walk' = [walk EXCEPT !.st = "between"]
           /\ ReadPage(r) => req[r].pc = "page" /\ req'[r].pc = "idle"
<1>t. req \in [Requests -> Request]
  BY DEF TypeOK
<1>1. ASSUME ArriveList(r) PROVE req'[r].pc = "count"
  <2>1. \A t : [op |-> "list", pc |-> "count", by |-> t, total |-> 0].pc = "count"
    OBVIOUS
  <2> QED BY <1>t, <1>1, <2>1 DEF ArriveList, Start
<1>2. ASSUME CountProducts(r)
      PROVE  /\ req[r].pc = "count"
             /\ \/ /\ req'[r].pc = "page" /\ UNCHANGED walk
                   /\ req'[r].total = Cardinality(LiveProducts)
                \/ req'[r].pc = "idle" /\ walk' = [walk EXCEPT !.st = "between"]
  <2>1. req[r] \in ListRequest
    BY <1>2, Slots DEF CountProducts
  <2>2. CASE /\ req' = [req EXCEPT ![r] = [req[r] EXCEPT !.pc = "page",
                                                        !.total = Cardinality(LiveProducts)]]
             /\ UNCHANGED walk
    <3>1. req'[r].pc = "page" /\ req'[r].total = Cardinality(LiveProducts)
      BY <1>t, <2>1, <2>2 DEF ListRequest
    <3> QED BY <1>2, <2>2, <3>1 DEF CountProducts
  <2>3. CASE ListFails(r)
    <3>1. Reply(r) /\ walk' = [walk EXCEPT !.st = "between"]
      BY <2>3 DEF ListFails, QueryFails
    <3>2. req'[r].pc = "idle"
      BY <1>t, <3>1 DEF Reply, Idle
    <3> QED BY <1>2, <3>1, <3>2 DEF CountProducts
  <2> QED BY <1>2, <2>2, <2>3 DEF CountProducts
<1>3. ASSUME ReadPage(r) PROVE req[r].pc = "page" /\ req'[r].pc = "idle"
  <2>1. req[r].pc = "page" /\ Reply(r)
    BY <1>3 DEF ReadPage, ListFails, QueryFails
  <2> QED BY <1>t, <2>1 DEF Reply, Idle
<1> QED BY <1>1, <1>2, <1>3

\* A client asks for the next page when it has the one before.
LEMMA ReaderKept == TypeOK /\ RolesThere /\ OneReader /\ [Next]_vars => OneReader'
<1> SUFFICES ASSUME TypeOK, RolesThere, OneReader, [Next]_vars PROVE OneReader'
  OBVIOUS
<1>w. walk \in Walk
  BY DEF TypeOK
<1>1. CASE Elsewhere
  BY <1>1 DEF Elsewhere, OneReader
<1>2. ASSUME NEW r \in Requests, ListStep(r), \A q \in Requests \ {r} : req'[q] = req[q]
      PROVE  OneReader'
  <2>1. CASE ArriveList(r)
    <3>1. walk.st # "asking" /\ walk'.st = "asking"
      BY <1>w, <2>1 DEF ArriveList, NoWalk, Walk
    <3> QED BY <1>2, <2>1, <3>1, ListSlots DEF OneReader
  <2>2. CASE CountProducts(r)
    BY <1>2, <2>2, ListSlots DEF OneReader
  <2>3. CASE ReadPage(r)
    BY <1>2, <2>3, ListSlots DEF OneReader
  <2> QED BY <1>2, <2>1, <2>2, <2>3 DEF ListStep
<1> QED BY <1>1, <1>2, WalkSteps

-----------------------------------------------------------------------------
\* The first page is page 1.
Started == walk.page # 0

\* While products are only added: each product there was is still there, and has been
\* listed or comes on a later page.
NoneMissed ==
    OnlyGrows /\ Unambiguous =>
        /\ walk.start \subseteq LiveProducts
        /\ \A p \in walk.start : p \in walk.seen \/ Offset(walk.page) <= Rank(p)
        /\ walk.st = "over" => walk.start \subseteq walk.seen

\* While none is written: what has been listed are the products of the earlier pages,
\* each once, and the total said to be is that of the products.
Exact ==
    walk.calm /\ Unambiguous /\ walk.st # "none" =>
        /\ ~walk.twice
        /\ walk.seen = Earlier(walk.page)
        /\ walk.st = "over" =>
              walk.seen = LiveProducts /\ walk.total = Cardinality(LiveProducts)
        /\ \A r \in Requests : req[r].pc = "page" => req[r].total = Cardinality(LiveProducts)

WalkInv ==
    /\ TypeOK /\ RolesThere /\ ProductsInHand /\ Allowed
    /\ OneReader /\ Started /\ NoneMissed /\ Exact

\* The walk after each step of a list.
LEMMA WalkAfter ==
    ASSUME TypeOK, NEW r \in Requests
    PROVE  /\ ArriveList(r) =>
                 \/ /\ walk.st \in {"none", "over"} /\ walk'.st = "asking"
                    /\ walk'.page = 1 /\ walk'.start = LiveProducts /\ walk'.seen = {}
                    /\ ~walk'.twice
                 \/ walk.st = "between" /\ walk' = [walk EXCEPT !.st = "asking"]
           /\ ReadPage(r) =>
                 \/ \E s \in Sorted : LET rows == PageOf(s, walk.page) IN
                       /\ walk'.st = IF rows = {} THEN "over" ELSE "between"
                       /\ walk'.page = walk.page + 1 /\ walk'.total = req[r].total
                       /\ walk'.seen = walk.seen \cup rows
                       /\ walk'.twice <=> walk.twice \/ walk.seen \cap rows # {}
                       /\ walk'.sort = walk.sort /\ walk'.asc = walk.asc
                       /\ walk'.start = walk.start /\ walk'.calm = walk.calm
                 \/ walk' = [walk EXCEPT !.st = "between"]
<1>w. walk \in Walk
  BY DEF TypeOK
<1>1. ASSUME ArriveList(r)
      PROVE  \/ /\ walk.st \in {"none", "over"} /\ walk'.st = "asking"
                /\ walk'.page = 1 /\ walk'.start = LiveProducts /\ walk'.seen = {}
                /\ ~walk'.twice
             \/ walk.st = "between" /\ walk' = [walk EXCEPT !.st = "asking"]
  BY <1>1 DEF ArriveList, NoWalk
<1>2. ASSUME NEW s \in Sorted, NEW rows, rows = PageOf(s, walk.page), ReadPage(r),
             walk' = [walk EXCEPT !.st = IF rows = {} THEN "over" ELSE "between",
                                  !.page = @ + 1, !.total = req[r].total,
                                  !.seen = @ \cup rows,
                                  !.twice = @ \/ walk.seen \cap rows # {}]
      PROVE  /\ walk'.st = IF rows = {} THEN "over" ELSE "between"
             /\ walk'.page = walk.page + 1 /\ walk'.total = req[r].total
             /\ walk'.seen = walk.seen \cup rows
             /\ walk'.twice <=> walk.twice \/ walk.seen \cap rows # {}
             /\ walk'.sort = walk.sort /\ walk'.asc = walk.asc
             /\ walk'.start = walk.start /\ walk'.calm = walk.calm
  BY <1>w, <1>2 DEF Walk
<1>3. ASSUME ReadPage(r)
      PROVE  \/ \E s \in Sorted :
                   walk' = [walk EXCEPT !.st = IF PageOf(s, walk.page) = {} THEN "over"
                                               ELSE "between",
                                        !.page = @ + 1, !.total = req[r].total,
                                        !.seen = @ \cup PageOf(s, walk.page),
                                        !.twice = @ \/ walk.seen \cap PageOf(s, walk.page) # {}]
             \/ walk' = [walk EXCEPT !.st = "between"]
  BY <1>3 DEF ReadPage, ListFails
<1> QED BY <1>1, <1>2, <1>3

\* Pages only go up from 1.
LEMMA StartedKept == TypeOK /\ RolesThere /\ Started /\ [Next]_vars => Started'
<1> SUFFICES ASSUME TypeOK, RolesThere, Started, [Next]_vars PROVE Started'
  OBVIOUS
<1>w. walk \in Walk /\ walk.page \in Nat
  BY DEF TypeOK, Walk
<1>1. CASE Elsewhere
  BY <1>1 DEF Elsewhere, Started
<1>2. ASSUME NEW r \in Requests, ListStep(r) PROVE Started'
  <2>1. CASE ArriveList(r)
    BY <1>w, <2>1, WalkAfter DEF Started, Walk
  <2>2. CASE CountProducts(r)
    BY <1>w, <2>2 DEF CountProducts, ListFails, Started, Walk
  <2>3. CASE ReadPage(r)
    BY <1>w, <2>3, WalkAfter DEF Started, Walk
  <2> QED BY <1>2, <2>1, <2>2, <2>3 DEF ListStep
<1> QED BY <1>1, <1>2, WalkSteps

\* The order is the same where products and sort are.
LEMMA OrderSame ==
    ASSUME product' = product, walk'.sort = walk.sort, walk'.asc = walk.asc
    PROVE  /\ LiveProducts' = LiveProducts /\ (Unambiguous' <=> Unambiguous)
           /\ \A p : Rank(p)' = Rank(p)
           /\ \A n : Earlier(n)' = Earlier(n)
<1>1. LiveProducts' = LiveProducts
  BY DEF LiveProducts, Live
<1>2. \A p, q : Before(p, q)' <=> Before(p, q)
  BY DEF Before
<1>3. \A p : {q \in LiveProducts : Before(q, p)}' = {q \in LiveProducts : Before(q, p)}
  BY <1>1, <1>2
<1>4. \A p : Rank(p)' = Rank(p)
  BY <1>3 DEF Rank
<1>5. \A n : Earlier(n)' = Earlier(n)
  BY <1>1, <1>4 DEF Earlier, Offset
<1>6. Unambiguous' <=> Unambiguous
  BY <1>1, <1>2 DEF Unambiguous
<1> QED BY <1>1, <1>4, <1>5, <1>6

-----------------------------------------------------------------------------
\* While products are only added, each there is stays, with its place in the order.
LEMMA Stays ==
    ASSUME TypeOK, RolesThere, ProductsInHand, Allowed, [Next]_vars, OnlyGrows,
           NEW p \in LiveProducts
    PROVE  /\ p \in LiveProducts'
           /\ walk.sort = "created_at" \/ product'[p] = product[p]
<1>p. p \in Products /\ product[p].st = "live"
  BY DEF LiveProducts, Live
<1>1. CASE product'[p] = product[p]
  BY <1>1, <1>p DEF LiveProducts, Live
<1>2. CASE product'[p] # product[p]
  <2>1. PICK r \in Requests : ArriveProduct(r) \/ HandleProduct(r)
    <3>1. ASSUME NEW r \in Requests, ArriveCategory(r) \/ HandleCategory(r) PROVE UNCHANGED product
      BY <3>1, CategoryTypes
    <3>2. ASSUME NEW r \in Requests, ArriveContact(r) \/ HandleContact(r) PROVE UNCHANGED product
      BY <3>2 DEF ArriveContact, HandleContact, FindOwner, Upsert, ReadBack, Answer, DropContact
    <3> QED BY <1>2, <3>1, <3>2, Steps DEF tables
  <2>2. HandleProduct(r)
    BY <1>2, <2>1 DEF ArriveProduct, ArriveCreate, ArriveUpdate, ArriveDelete
  <2>3. req[r].pc \in ProductPCs
    BY <2>2 DEF HandleProduct, ProductPCs, FindProduct, Preload, CheckCategory, DrawSku,
       InsertProduct, SaveProduct, DeleteProduct
  <2>4. req[r].op \in ProductOps /\ req[r].op \in Ops /\ InHand(req[r], product[req[r].p])
    BY <2>3, Slots DEF ProductRequest, ProductOps, Allowed, ProductsInHand
  <2>5. /\ ~(req[r].op = "create" /\ req[r].p = p)
        /\ req[r].op # "delete" /\ req[r].pc # "dbdelete"
    BY <1>p, <2>4 DEF InHand, OnlyGrows, ProductOps
  <2>6. req[r].p = p /\ product'[p].st = "live"
    BY <1>2, <1>p, <2>1, <2>5, ProductRows
  <2>7. req[r].op = "update"
    BY <2>4, <2>5, <2>6 DEF ProductOps
  <2>8. walk.sort = "created_at"
    BY <2>4, <2>7 DEF OnlyGrows
  <2> QED BY <1>p, <2>6, <2>8 DEF LiveProducts, Live
<1> QED BY <1>1, <1>2

\* ... so that places are only taken before it.
LEMMA RanksGrow ==
    ASSUME TypeOK, RolesThere, ProductsInHand, Allowed, [Next]_vars, OnlyGrows,
           walk'.sort = walk.sort, walk'.asc = walk.asc
    PROVE  /\ LiveProducts \subseteq LiveProducts'
           /\ Unambiguous' => Unambiguous
           /\ \A p \in LiveProducts : Rank(p) <= Rank(p)'
<1>1. LiveProducts \subseteq LiveProducts'
  BY Stays
<1>2. ASSUME NEW p \in LiveProducts, NEW q \in LiveProducts
      PROVE  Before(p, q)' <=> Before(p, q)
  <2>1. walk.sort = "created_at" \/ (product'[p] = product[p] /\ product'[q] = product[q])
    BY Stays
  <2>2. walk.sort \in {"created_at", "entry_date"}
    BY DEF TypeOK, Walk, SortColumns
  <2> QED BY <2>1, <2>2 DEF Before
<1>3. Unambiguous' => Unambiguous
  BY <1>1, <1>2 DEF Unambiguous
<1>4. ASSUME NEW p \in LiveProducts PROVE Rank(p) <= Rank(p)'
  <2>1. {q \in LiveProducts : Before(q, p)} \subseteq {q \in LiveProducts : Before(q, p)}'
    BY <1>1, <1>2
  <2>2. {q \in LiveProducts : Before(q, p)}' \subseteq Products
    BY DEF LiveProducts
  <2>3. IsFiniteSet({q \in LiveProducts : Before(q, p)}')
    BY <2>2, FS_Subset, CatalogueAssumption
  <2>4. Cardinality({q \in LiveProducts : Before(q, p)})
            <= Cardinality({q \in LiveProducts : Before(q, p)}')
    BY <2>1, <2>3, FS_Subset
  <2> QED BY <2>4 DEF Rank
<1> QED BY <1>1, <1>3, <1>4

\* Creations push products to later pages, never to one the client has passed; and the
\* page it reads has all whose turn it is.
LEMMA MissedKept ==
    TypeOK /\ RolesThere /\ ProductsInHand /\ Allowed /\ Started /\ NoneMissed /\ [Next]_vars
        => NoneMissed'
<1> SUFFICES ASSUME TypeOK, RolesThere, ProductsInHand, Allowed, Started, NoneMissed, [Next]_vars,
                    OnlyGrows', Unambiguous'
             PROVE  /\ walk'.start \subseteq LiveProducts'
                    /\ \A p \in walk'.start : \/ p \in walk'.seen
                                              \/ Offset(walk'.page) <= Rank(p)'
                    /\ walk'.st = "over" => walk'.start \subseteq walk'.seen
  BY DEF NoneMissed, Offset
<1>w. /\ walk \in Walk /\ walk.page \in Nat \ {0} /\ walk.start \subseteq Products
      /\ walk.seen \subseteq Products
  BY DEF TypeOK, Walk, Started
<1>g. ASSUME walk'.sort = walk.sort PROVE OnlyGrows
  <2>1. UNCHANGED env
    BY DEF Next, vars
  <2> QED BY <1>g, <2>1 DEF OnlyGrows, Ops
<1>o. Offset(walk.page) \in Nat /\ Offset(walk.page + 1) = Offset(walk.page) + PageSize
  BY <1>w, Offsets
<1>1. CASE Elsewhere
  <2>1. /\ walk'.st = walk.st /\ walk'.sort = walk.sort /\ walk'.asc = walk.asc
        /\ walk'.page = walk.page /\ walk'.start = walk.start /\ walk'.seen = walk.seen
    BY <1>1 DEF Elsewhere
  <2>2. /\ LiveProducts \subseteq LiveProducts' /\ Unambiguous
        /\ \A p \in LiveProducts : Rank(p) <= Rank(p)'
    BY <1>g, <2>1, RanksGrow
  <2>3. /\ walk.start \subseteq LiveProducts
        /\ \A p \in walk.start : p \in walk.seen \/ Offset(walk.page) <= Rank(p)
        /\ walk.st = "over" => walk.start \subseteq walk.seen
    BY <1>g, <2>1, <2>2 DEF NoneMissed
  <2>4. \A p \in walk.start : p \in walk.seen \/ Offset(walk.page) <= Rank(p)'
    <3> SUFFICES ASSUME NEW p \in walk.start, Offset(walk.page) <= Rank(p)
                 PROVE  Offset(walk.page) <= Rank(p)'
      BY <2>3
    <3>1. Rank(p) <= Rank(p)'
      BY <2>2, <2>3
    <3>2. Rank(p) \in Nat /\ Rank(p)' \in Nat
      BY RankType
    <3> QED BY <1>o, <3>1, <3>2
  <2> QED BY <2>1, <2>2, <2>3, <2>4
<1>2. ASSUME NEW r \in Requests, ListStep(r), UNCHANGED product
      PROVE  /\ walk'.start \subseteq LiveProducts'
             /\ \A p \in walk'.start : p \in walk'.seen \/ Offset(walk'.page) <= Rank(p)'
             /\ walk'.st = "over" => walk'.start \subseteq walk'.seen
  <2>l. LiveProducts' = LiveProducts
    BY <1>2 DEF LiveProducts, Live
  <2>s. ASSUME walk'.sort = walk.sort, walk'.asc = walk.asc
        PROVE  /\ walk.start \subseteq LiveProducts
               /\ \A p \in walk.start : p \in walk.seen \/ Offset(walk.page) <= Rank(p)
               /\ walk.st = "over" => walk.start \subseteq walk.seen
               /\ \A p : Rank(p)' = Rank(p)
               /\ Unambiguous
    BY <1>2, <1>g, <2>s, OrderSame DEF NoneMissed
  <2>1. CASE /\ walk'.sort = walk.sort /\ walk'.asc = walk.asc /\ walk'.page = walk.page
             /\ walk'.start = walk.start /\ walk'.seen = walk.seen
             /\ walk'.st # "over" \/ walk'.st = walk.st
    BY <2>1, <2>s, <2>l
  <2>2. CASE ArriveList(r)
    <3>1. CASE walk' = [walk EXCEPT !.st = "asking"]
      BY <1>w, <2>1, <3>1 DEF Walk
    <3>2. CASE /\ walk'.st = "asking" /\ walk'.page = 1 /\ walk'.start = LiveProducts
      <4>1. \A p : Rank(p)' \in Nat
        BY RankType
      <4>2. Offset(walk'.page) = 0
        BY <3>2, Offsets
      <4> QED BY <2>l, <3>2, <4>1, <4>2
    <3> QED BY <2>2, <3>1, <3>2, WalkAfter
  <2>3. CASE CountProducts(r)
    <3>1. CASE UNCHANGED walk
      BY <2>1, <3>1
    <3>2. CASE walk' = [walk EXCEPT !.st = "between"]
      BY <1>w, <2>1, <3>2 DEF Walk
    <3> QED BY <2>3, <3>1, <3>2 DEF CountProducts, ListFails
  <2>4. CASE ReadPage(r)
    <3>1. CASE walk' = [walk EXCEPT !.st = "between"]
      BY <1>w, <2>1, <3>1 DEF Walk
    <3>2. ASSUME NEW s \in Sorted, NEW rows, rows = PageOf(s, walk.page),
                 /\ walk'.st = IF rows = {} THEN "over" ELSE "between"
                 /\ walk'.page = walk.page + 1
                 /\ walk'.seen = walk.seen \cup rows
                 /\ walk'.sort = walk.sort /\ walk'.asc = walk.asc
                 /\ walk'.start = walk.start
          PROVE  /\ walk'.start \subseteq LiveProducts'
                 /\ \A p \in walk'.start : p \in walk'.seen \/ Offset(walk'.page) <= Rank(p)'
                 /\ walk'.st = "over" => walk'.start \subseteq walk'.seen
      <4>1. /\ walk.start \subseteq LiveProducts /\ Unambiguous
            /\ \A p \in walk.start : p \in walk.seen \/ Offset(walk.page) <= Rank(p)
            /\ \A p : Rank(p)' = Rank(p)
        BY <3>2, <2>s
      <4>2. /\ rows = Ranked(walk.page)
            /\ rows = {} => \A p \in LiveProducts : Rank(p) < Offset(walk.page)
        BY <1>w, <3>2, <4>1, PageRanks
      <4>3. ASSUME NEW p \in walk.start, p \notin walk.seen
            PROVE  rows # {} /\ (p \in rows \/ Offset(walk.page + 1) <= Rank(p))
        <5>1. Offset(walk.page) <= Rank(p) /\ p \in LiveProducts /\ Rank(p) \in Nat
          BY <4>1, <4>3, RankType
        <5>2. ~(Rank(p) < Offset(walk.page))
          BY <1>o, <5>1
        <5>3. rows # {}
          BY <4>2, <5>1, <5>2
        <5>4. Rank(p) < Offset(walk.page + 1) \/ Offset(walk.page + 1) <= Rank(p)
          BY <1>o, <5>1, ListingAssumption
        <5> QED BY <4>2, <5>1, <5>3, <5>4 DEF Ranked
      <4>4. \A p \in walk.start : p \in walk'.seen \/ Offset(walk'.page) <= Rank(p)'
        BY <3>2, <4>1, <4>3
      <4>5. walk'.st = "over" => rows = {}
        BY <3>2
      <4> QED BY <2>l, <3>2, <4>1, <4>3, <4>4, <4>5
    <3> QED BY <2>4, <3>1, <3>2, WalkAfter
  <2> QED BY <1>2, <2>2, <2>3, <2>4 DEF ListStep
<1> QED BY <1>1, <1>2, WalkSteps

\* Where no product is written, a page adds those whose turn it is to the earlier ones,
\* and an empty page comes after them all.
LEMMA ExactKept ==
    TypeOK /\ RolesThere /\ OneReader /\ Started /\ Exact /\ [Next]_vars => Exact'
<1> SUFFICES ASSUME TypeOK, RolesThere, OneReader, Started, Exact, [Next]_vars,
                    walk'.calm, Unambiguous', walk'.st # "none"
             PROVE  /\ ~walk'.twice
                    /\ \A n : n = walk'.page => walk'.seen = Earlier(n)'
                    /\ walk'.st = "over" =>
                          walk'.seen = LiveProducts' /\ walk'.total = Cardinality(LiveProducts')
                    /\ \A r \in Requests : req'[r].pc = "page" =>
                          req'[r].total = Cardinality(LiveProducts')
  BY DEF Exact, Earlier, Offset
<1>w. walk \in Walk /\ walk.page \in Nat \ {0}
  BY DEF TypeOK, Walk, Started
<1>o. Offset(walk.page) \in Nat /\ Offset(walk.page + 1) = Offset(walk.page) + PageSize
  BY <1>w, Offsets
<1>s. ASSUME product' = product, walk'.sort = walk.sort, walk'.asc = walk.asc,
             walk.calm, walk.st # "none"
      PROVE  /\ ~walk.twice /\ walk.seen = Earlier(walk.page)
             /\ walk.st = "over" =>
                   walk.seen = LiveProducts /\ walk.total = Cardinality(LiveProducts)
             /\ \A r \in Requests : req[r].pc = "page" => req[r].total = Cardinality(LiveProducts)
             /\ LiveProducts' = LiveProducts /\ Unambiguous
             /\ \A n : Earlier(n)' = Earlier(n)
  BY <1>s, OrderSame DEF Exact
<1>1. CASE Elsewhere
  <2>1. /\ walk'.st = walk.st /\ walk'.sort = walk.sort /\ walk'.asc = walk.asc
        /\ walk'.page = walk.page /\ walk'.total = walk.total /\ walk'.seen = walk.seen
        /\ walk'.twice = walk.twice /\ walk.calm /\ product' = product
        /\ \A q \in Requests : req'[q].pc = "page" => req'[q] = req[q]
    BY <1>1 DEF Elsewhere
  <2> QED BY <1>s, <2>1
<1>2. ASSUME NEW r \in Requests, ListStep(r), UNCHANGED product,
             \A q \in Requests \ {r} : req'[q] = req[q]
      PROVE  /\ ~walk'.twice
             /\ \A n : n = walk'.page => walk'.seen = Earlier(n)'
             /\ walk'.st = "over" =>
                   walk'.seen = LiveProducts' /\ walk'.total = Cardinality(LiveProducts')
             /\ \A q \in Requests : req'[q].pc = "page" =>
                   req'[q].total = Cardinality(LiveProducts')
  \* A list that fails has shown nothing.
  <2>f. ASSUME walk.st = "asking", walk' = [walk EXCEPT !.st = "between"], req'[r].pc = "idle"
        PROVE  /\ ~walk'.twice
               /\ \A n : n = walk'.page => walk'.seen = Earlier(n)'
               /\ walk'.st = "over" =>
                     walk'.seen = LiveProducts' /\ walk'.total = Cardinality(LiveProducts')
               /\ \A q \in Requests : req'[q].pc = "page" =>
                     req'[q].total = Cardinality(LiveProducts')
    <3>1. /\ walk'.sort = walk.sort /\ walk'.asc = walk.asc /\ walk'.calm = walk.calm
          /\ walk'.page = walk.page /\ walk'.seen = walk.seen /\ walk'.twice = walk.twice
          /\ walk'.st = "between"
      BY <1>w, <2>f DEF Walk
    <3>2. /\ ~walk.twice /\ walk.seen = Earlier(walk.page)
          /\ \A q \in Requests : req[q].pc = "page" => req[q].total = Cardinality(LiveProducts)
          /\ LiveProducts' = LiveProducts
          /\ \A n : Earlier(n)' = Earlier(n)
      BY <1>2, <1>s, <2>f, <3>1
    <3> QED BY <1>2, <2>f, <3>1, <3>2
  <2>1. CASE ArriveList(r)
    <3>1. \A q \in Requests : req'[q].pc # "page"
      <4>1. walk.st # "asking"
        BY <2>1 DEF ArriveList
      <4> QED BY <1>2, <2>1, <4>1, ListSlots DEF OneReader
    <3>2. CASE walk.st = "between" /\ walk' = [walk EXCEPT !.st = "asking"]
      <4>1. /\ walk'.sort = walk.sort /\ walk'.asc = walk.asc /\ walk'.calm = walk.calm
            /\ walk'.page = walk.page /\ walk'.seen = walk.seen /\ walk'.twice = walk.twice
            /\ walk'.st = "asking"
        BY <1>w, <3>2 DEF Walk
      <4> QED BY <1>2, <1>s, <3>1, <3>2, <4>1
    <3>3. CASE walk'.st = "asking" /\ walk'.page = 1 /\ walk'.seen = {} /\ ~walk'.twice
      <4>1. Earlier(1)' = {}
        <5>1. \A p : Rank(p)' \in Nat
          BY RankType
        <5>2. Offset(1) = 0
          BY Offsets
        <5> QED BY <5>1, <5>2 DEF Earlier, Offset
      <4> QED BY <3>1, <3>3, <4>1
    <3> QED BY <2>1, <3>2, <3>3, WalkAfter
  <2>2. CASE CountProducts(r)
    <3>1. /\ req[r].pc = "count" /\ walk.st = "asking"
          /\ \/ UNCHANGED walk /\ req'[r].total = Cardinality(LiveProducts)
             \/ walk' = [walk EXCEPT !.st = "between"] /\ req'[r].pc = "idle"
      BY <1>2, <2>2, ListSlots DEF OneReader
    <3>2. CASE UNCHANGED walk /\ req'[r].total = Cardinality(LiveProducts)
      <4>1. /\ ~walk.twice /\ walk.seen = Earlier(walk.page)
            /\ walk.st = "over" =>
                  walk.seen = LiveProducts /\ walk.total = Cardinality(LiveProducts)
            /\ \A q \in Requests : req[q].pc = "page" =>
                  req[q].total = Cardinality(LiveProducts)
            /\ LiveProducts' = LiveProducts
            /\ \A n : Earlier(n)' = Earlier(n)
        BY <1>2, <1>s, <3>2
      <4> QED BY <1>2, <3>2, <4>1
    <3> QED BY <2>f, <3>1, <3>2
  <2>3. CASE ReadPage(r)
    <3>1. req[r].pc = "page" /\ req'[r].pc = "idle" /\ walk.st = "asking"
      BY <1>2, <2>3, ListSlots DEF OneReader
    <3>2. \A q \in Requests : req'[q].pc # "page"
      BY <1>2, <3>1 DEF OneReader
    <3>f. CASE walk' = [walk EXCEPT !.st = "between"]
      BY <2>f, <3>1, <3>f
    <3> SUFFICES ASSUME ~(walk' = [walk EXCEPT !.st = "between"])
                 PROVE  /\ ~walk'.twice
                        /\ \A n : n = walk'.page => walk'.seen = Earlier(n)'
                        /\ walk'.st = "over" =>
                              walk'.seen = LiveProducts' /\ walk'.total = Cardinality(LiveProducts')
                        /\ \A q \in Requests : req'[q].pc = "page" =>
                              req'[q].total = Cardinality(LiveProducts')
      BY <3>f
    <3>3. PICK s \in Sorted : LET rows == PageOf(s, walk.page) IN
             /\ walk'.st = IF rows = {} THEN "over" ELSE "between"
             /\ walk'.page = walk.page + 1 /\ walk'.total = req[r].total
             /\ walk'.seen = walk.seen \cup rows
             /\ walk'.twice <=> walk.twice \/ walk.seen \cap rows # {}
             /\ walk'.sort = walk.sort /\ walk'.asc = walk.asc
             /\ walk'.start = walk.start /\ walk'.calm = walk.calm
      BY <2>3, WalkAfter
    <3> DEFINE rows == PageOf(s, walk.page)
    <3>4. /\ ~walk.twice /\ walk.seen = Earlier(walk.page)
          /\ req[r].total = Cardinality(LiveProducts)
          /\ LiveProducts' = LiveProducts /\ Unambiguous
          /\ \A n : Earlier(n)' = Earlier(n)
      BY <1>2, <1>s, <3>1, <3>3
    <3>5. /\ rows = Ranked(walk.page)
          /\ rows = {} => \A p \in LiveProducts : Rank(p) < Offset(walk.page)
      BY <1>w, <3>4, PageRanks
    <3> HIDE DEF rows
    <3>6. /\ Earlier(walk.page) \cap Ranked(walk.page) = {}
          /\ Earlier(walk.page) \cup Ranked(walk.page) = Earlier(walk.page + 1)
      <4>1. \A p \in LiveProducts : Rank(p) \in Nat
        BY RankType
      <4> QED BY <1>o, <4>1, ListingAssumption DEF Earlier, Ranked
    <3>7. walk'.seen = Earlier(walk.page + 1) /\ ~walk'.twice
      BY <3>3, <3>4, <3>5, <3>6 DEF rows
    <3>8. walk'.st = "over" => walk'.seen = LiveProducts
      <4> SUFFICES ASSUME walk'.st = "over" PROVE walk'.seen = LiveProducts
        OBVIOUS
      <4>1. rows = {}
        BY <3>3 DEF rows
      <4>2. Earlier(walk.page) = LiveProducts
        BY <3>5, <4>1 DEF Earlier
      <4> QED BY <3>3, <3>4, <4>1, <4>2 DEF rows
    <3> QED BY <3>2, <3>3, <3>4, <3>7, <3>8
  <2> QED BY <1>2, <2>1, <2>2, <2>3 DEF ListStep
<1> QED BY <1>1, <1>2, WalkSteps

\* The invariant of the walk, for any environment.
LEMMA WalkInvariant == Spec => []WalkInv
<1>1. Init => WalkInv
  <2> SUFFICES ASSUME Init PROVE WalkInv
    OBVIOUS
  <2>1. /\ walk.page = 1 /\ walk.start = {} /\ walk.st = "none"
        /\ \A r \in Requests : req[r].pc = "idle" /\ req[r].op = "none"
    BY DEF Init, ListingInit, NoWalk, Idle
  <2>2. ProductsInHand /\ Allowed /\ OneReader /\ Started
    BY <2>1 DEF ProductsInHand, ProductOps, Allowed, OneReader, Started
  <2>3. NoneMissed /\ Exact
    BY <2>1 DEF NoneMissed, Exact
  <2> QED BY <2>2, <2>3, InitTypes DEF WalkInv
<1>2. WalkInv /\ [Next]_vars => WalkInv'
  BY TypesKept, RolesKept, ProductsKept, AllowedKept, ReaderKept, StartedKept, MissedKept, ExactKept
     DEF WalkInv
<1> QED BY <1>1, <1>2, PTL DEF Spec

\* A walk misses none of the products there were at its start, for any page size, any
\* number of products and any interleaving of its pages with creations.
THEOREM WalksMissNothing == Spec => []WalkMissesNothing
<1>1. WalkInv => WalkMissesNothing
  BY DEF WalkInv, NoneMissed, WalkMissesNothing
<1> QED BY <1>1, WalkInvariant, PTL

\* A walk during which no product is written is exact, for any page size and any other
\* requests.
THEOREM CalmWalksExact == Spec => []CalmWalkExact
<1>1. WalkInv => CalmWalkExact
  BY DEF WalkInv, Exact, CalmWalkExact
<1> QED BY <1>1, WalkInvariant, PTL
=============================================================================
