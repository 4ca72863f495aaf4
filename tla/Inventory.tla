----------------------------- MODULE Inventory -----------------------------
(***************************************************************************)
(* The API apart from images and sessions: accounts and their roles        *)
(* (Access), products and categories (Catalogue), contacts (Contacts), and *)
(* what is read from several queries (Listing), over shared tables, shared *)
(* request slots and the access tokens that let requests in (Traffic).     *)
(*                                                                         *)
(* A definition just before another one and named after it with a suffix   *)
(* (LiveCategoryUnscoped, LiveCategory) is a plausible slip in the same    *)
(* code; the mutants of PROJECT.json put it in the other's place.          *)
(***************************************************************************)
EXTENDS Contacts, Listing

tables == <<product, category, contact>>

vars == <<tables, account, walk, held, req, env>>

Request == {Idle} \cup AccountRequest \cup ProductRequest \cup CategoryRequest
           \cup ContactRequest \cup ListRequest \cup StatsRequest

TypeOK ==
    /\ product \in [Products -> Product]
    /\ category \in [Categories -> Category]
    /\ contact \in [Products -> Contact]
    /\ account \in [Users -> Account]
    /\ walk \in Walk
    /\ held \subseteq Token
    /\ req \in [Requests -> Request]
    /\ env \in Environments

Init ==
    /\ env \in Environments
    /\ req = [r \in Requests |-> Idle]
    /\ CatalogueInit
    /\ AccessInit
    /\ ListingInit

\* A client in the middle of a list may find that products were written.
Noticed == walk' = [walk EXCEPT !.calm = @ /\ (walk.st = "none" \/ product' = product)]

AccessNext ==
    /\ \/ \E r \in Requests : ArriveAccount(r) \/ HandleAccount(r)
       \/ (\E t \in Token : AccessExpires(t)) /\ UNCHANGED account
    /\ UNCHANGED <<tables, walk>>

CatalogueNext ==
    /\ \E r \in Requests : \/ ArriveProduct(r) \/ HandleProduct(r)
                           \/ ArriveCategory(r) \/ HandleCategory(r)
                           \/ ArriveContact(r) \/ HandleContact(r)
    /\ Noticed
    /\ UNCHANGED <<account, held>>

ListingNext ==
    /\ \E r \in Requests : ArriveRead(r) \/ HandleRead(r)
    /\ UNCHANGED <<tables, account, held>>

Next ==
    /\ AccessNext \/ CatalogueNext \/ ListingNext
    /\ UNCHANGED env

Spec == Init /\ [][Next]_vars

-----------------------------------------------------------------------------
(***************************************************************************)
(* Products and categories.                                                *)
(***************************************************************************)
\* "Auto-generate a unique SKU": where requests come one at a time and no product
\* is ever deleted, what is inserted has a SKU no row has, so that no creation is
\* refused, however few SKUs are left to draw.
SkuUnique ==
    Serial /\ "delete" \notin Ops =>
        \A r \in Requests : req[r].pc = "insert" => ~SkuTaken(req[r].row.sku)

\* A product is put into a category only while the category is there, and a
\* contact is written only for a product that is there, where no two requests
\* overlap.
ReferencesChecked ==
    [][Serial => \A p \in Products :
          /\ product'[p].cat \in {NoCategory, product[p].cat}
             \/ category[product'[p].cat].st = "live"
          /\ contact'[p].val # contact[p].val => Live(p)]_vars

\* An update follows its body, where no two requests overlap.  What the body does not
\* name stays: a date that is absent keeps its value, and only null clears it; so do the
\* SKU and the creator.  What it names takes effect if anything is written, but for the
\* category: a product found with a live category is put back into it.
UpdateFollowsBody ==
    [][Serial => \A r \in Requests : req[r].pc = "save" =>
          LET old == product[req[r].p]  new == product'[req[r].p]  body == req[r].body IN
          /\ new.date # old.date => body.date.field # "absent"
          /\ new.cat # old.cat => body.cat # NoCategory
          /\ new.status # old.status => body.status # "keep"
          /\ new.sku = old.sku /\ new.by = old.by
          /\ product' # product =>
                /\ body.date.field # "absent" => new.date = body.date.date
                /\ body.status # "keep" => new.status = body.status
                /\ body.cat # NoCategory =>
                      new.cat = body.cat \/ (new.cat = old.cat /\ LiveCategory(old.cat))]_vars

\* A deleted category comes back only by an update of the category itself that
\* found it before the deletion, and never one request after another: saving a product
\* that was loaded with it does not bring it back.
CategoryReturnsByUpdate ==
    [][\A c \in Categories : category[c].st = "deleted" /\ category'[c].st # "deleted" =>
          /\ ~Serial
          /\ \E r \in Requests : req[r].pc = "savecategory" /\ req[r].cat = c]_vars

-----------------------------------------------------------------------------
(***************************************************************************)
(* Contacts.                                                               *)
(***************************************************************************)
\* "Return the persisted record": when the 200 of an upsert is sent, the contact
\* in it is the one a Get finds, where requests come one at a time.
UpsertPersisted ==
    Serial => \A r \in Requests :
        req[r].pc = "answer" => contact[req[r].p] = [st |-> "live", val |-> req[r].said]

\* While nobody deletes contacts, an upsert's 200 means that the product has a
\* contact, whatever else is under way; when nothing is, that it is the one asked for
\* and the one in the response.
UpsertsKept ==
    "delcontact" \notin Ops =>
        /\ UpsertPersisted
        /\ \A r \in Requests : req[r].pc = "answer" =>
              /\ contact[req[r].p].st = "live"
              /\ Serial => req[r].said = req[r].val

\* A contact that was deleted comes back only by an upsert: not by saving a product that
\* was loaded with it before the deletion, whatever overlaps and fails.
ContactReturnsByUpsert ==
    [][\A p \in Products : contact[p].st = "deleted" /\ contact'[p].st # "deleted" =>
          \E r \in Requests : req[r].pc = "upsert" /\ req[r].p = p]_vars

-----------------------------------------------------------------------------
(***************************************************************************)
(* Reads.                                                                  *)
(***************************************************************************)
\* No two products compare equal.
Unambiguous ==
    walk.sort = "created_at" \/ \A p, q \in LiveProducts : p # q => Before(p, q) \/ Before(q, p)

\* Products neither disappear nor move in the order of the list.
OnlyGrows ==
    "delete" \notin Ops /\ (walk.sort = "created_at" \/ "update" \notin Ops)

\* A client that walks through the pages of a list sees every product there was
\* when it began, while products are only added, wherever in the order.
WalkMissesNothing ==
    walk.st = "over" /\ OnlyGrows /\ Unambiguous => walk.start \subseteq walk.seen

\* A walk during which no product was written lists each product once, and the
\* total is their number, though queries fail and the client asks again.
CalmWalkExact ==
    walk.st = "over" /\ walk.calm /\ Unambiguous =>
        /\ walk.seen = LiveProducts
        /\ ~walk.twice
        /\ walk.total = Cardinality(LiveProducts)

\* The product figures of a statistics response are of one moment, whatever is
\* written between its queries: never more repaired products than products.  One
\* request at a time, all its figures are those of the tables.
FiguresAgree ==
    \A r \in Requests : req[r].pc = "report" =>
        /\ req[r].figures.repaired <= req[r].figures.products
        /\ Serial => req[r].figures =
               [products |-> Cardinality(LiveProducts),
                repaired |-> Cardinality(RepairedProducts),
                categories |-> Cardinality({c \in Categories : LiveCategory(c)}),
                users |-> Cardinality({u \in Users : LiveAccount(u)})]

-----------------------------------------------------------------------------
(***************************************************************************)
(* Roles.                                                                  *)
(***************************************************************************)
\* A product is deleted only with the token of an administrator or with that of the manager
\* who created it, and it keeps its creator, whoever saves it and whatever
\* happens to the creator's account.  The handler says so; the API's description does not,
\* see DeletionNeedsAdmin.
DeletesAuthorised ==
    [][\A p \in Products :
          /\ Live(p) /\ product'[p].st # "live" =>
                 \E r \in Requests :
                    /\ req[r].pc = "dbdelete" /\ req[r].p = p
                    /\ \/ req[r].by.role = "admin"
                       \/ req[r].by = [user |-> product[p].by, role |-> "manager"]
          /\ product[p].st # "absent" => product'[p].by = product[p].by]_vars

\* "Requires admin role.": a product is deleted only with the token of an administrator.
DeletionNeedsAdmin ==
    [][\A p \in Products : Live(p) /\ product'[p].st # "live" =>
          \E r \in Requests :
             req[r].pc = "dbdelete" /\ req[r].p = p /\ req[r].by.role = "admin"]_vars

\* A request under way that has read this role of the user.
Carries(r, u, role) ==
    /\ req[r].pc \in {"deliver", "saveuser"}
    /\ req[r].user = u
    /\ req[r].role = role

\* The account does not have the role, no token does, and nothing under way that
\* may write it or put it into a token.
Without(u, role) ==
    /\ ~(account[u].st = "live" /\ account[u].role = role)
    /\ [user |-> u, role |-> role] \notin held
    /\ \A r \in Requests : ~Carries(r, u, role)

\* A request that asks for this role for the user: an administrator's, or the
\* registration of the user.
AsksFor(r, u, role) ==
    /\ req[r].pc \in {"finduser", "createuser"}
    /\ req[r].user = u
    /\ req[r].role = role

\* Who has lost a role and every token of it gets it again only when somebody
\* asks for it: no sign-in, no UpdateMe and no update that names no role brings it back.
DemotionHolds ==
    [][\A u \in Users, role \in Roles :
          Without(u, role) =>
              \/ Without(u, role)'
              \/ \E r \in Requests : AsksFor(r, u, role)]_vars

\* The role of an account changes only to one somebody asks for, where no two
\* requests overlap.
RoleDeliberate ==
    [][Serial => \A u \in Users : account[u].st # "absent" =>
          \/ account'[u].role = account[u].role
          \/ \E r \in Requests : req[r].op = "setuser" /\ req[r].user = u]_vars
=============================================================================
