--------------------------- MODULE ProductImages ---------------------------
(***************************************************************************)
(* Products, their cover image and gallery, and the objects in the MinIO   *)
(* bucket: internal/handlers/product_handler.go over                       *)
(* internal/repository/product_repository.go and                           *)
(* internal/services/minio_service.go.                                     *)
(*                                                                         *)
(* The database and the bucket are two stores with no common transaction.  *)
(* Every HTTP request runs on a goroutine of its own, so each call a       *)
(* handler makes to either store is one action here and the actions of     *)
(* different requests interleave.  A product row keeps the key of its      *)
(* cover; a gallery row is identified by the key of its object.            *)
(*                                                                         *)
(* A definition placed just before another one and named after it with a   *)
(* suffix (FoundUnscoped, Found) is a plausible slip in the same code; the *)
(* mutants of PROJECT.json put it in the other's place.                    *)
(***************************************************************************)
EXTENDS Integers, FiniteSets

CONSTANTS
    Products,   \* product ids (each names one row, for ever)
    Keys,       \* object keys: one fresh key per upload, so |Keys| bounds the uploads
    Requests,   \* slots for requests in flight at the same time
    NoProduct,  \* "no product"
    NoKey,      \* the empty image_key
    Environments   \* the environments to consider

AllOps == {"create", "get", "update", "delete", "upload", "addimage", "delimage"}

(***************************************************************************)
(* "badinput"  a body, a file or a caller the handler refuses              *)
(* "db"        a database call fails and has no effect                     *)
(* "commit"    a database write takes effect but is reported as failed     *)
(* "put"       PutObject fails and stores nothing                          *)
(* "putlost"   PutObject stores the object but is reported as failed       *)
(* "remove"    RemoveObject fails (it is logged and ignored)               *)
(* "restart"   the process dies and boots again                            *)
(* "nostorage" MinIO is unreachable when the process boots                 *)
(***************************************************************************)
AllEvents == {"badinput", "db", "commit", "put", "putlost", "remove",
              "restart", "nostorage"}

\* What surrounds the server: the operations clients issue, what may go wrong,
\* how many requests may be in flight at the same time, and how many uploads
\* clients try (a bound).
Environment == [ops : SUBSET AllOps, events : SUBSET AllEvents, load : Nat, uploads : Nat]

ASSUME ImagesAssumption ==
    /\ NoKey \notin Keys
    /\ NoProduct \notin Products
    /\ IsFiniteSet(Keys) /\ IsFiniteSet(Requests)
    /\ Environments \subseteq Environment

VARIABLES
    product,   \* rows of table products: status and image_key
    image,     \* rows of table product_images, by object key
    objects,   \* keys of the objects stored in the bucket
    minted,    \* keys uuid.New has produced
    storage,   \* FALSE iff NewMinIOService failed at boot: the service is a nil pointer
    req,       \* the state of each request slot
    env        \* the environment of this run

vars == <<product, image, objects, minted, storage, req, env>>

Ops == env.ops
Events == env.events

RowStatus == {"absent", "live", "deleted"}  \* deleted: deleted_at is set

Codes == {0, 200, 201, 400, 403, 404, 500, 503}

ProductRow == [st : RowStatus, key : Keys \cup {NoKey}]

ImageRow == [st : RowStatus, product : Products \cup {NoProduct}, pos : Nat]

PCs == {"idle", "find", "preload", "findimage", "remove", "put", "save",
        "rollback", "dbdelete", "dbdeleteimage", "present", "done"}

\* row: the image_key the handler read; keys: the keys it read and still deals
\* with; key: the key of the object it uploads; code: the HTTP status it replied.
Request == [op : AllOps \cup {"none"}, pc : PCs, p : Products \cup {NoProduct},
            row : Keys \cup {NoKey}, keys : SUBSET Keys, key : Keys \cup {NoKey},
            code : Codes]

Slot(op, pc, p, keys, key, code) ==
    [op |-> op, pc |-> pc, p |-> p, row |-> NoKey, keys |-> keys, key |-> key, code |-> code]

Idle == Slot("none", "idle", NoProduct, {}, NoKey, 0)

TypeOK ==
    /\ product \in [Products -> ProductRow]
    /\ image \in [Keys -> ImageRow]
    /\ objects \subseteq Keys
    /\ minted \subseteq Keys
    /\ storage \in BOOLEAN
    /\ req \in [Requests -> Request]
    /\ env \in Environments

Boot == IF "nostorage" \in Events THEN BOOLEAN ELSE {TRUE}

Init ==
    /\ env \in Environments
    /\ product = [p \in Products |-> [st |-> "absent", key |-> NoKey]]
    /\ image = [k \in Keys |-> [st |-> "absent", product |-> NoProduct, pos |-> 0]]
    /\ objects = {}
    /\ minted = {}
    /\ storage \in Boot
    /\ req = [r \in Requests |-> Idle]

-----------------------------------------------------------------------------
\* First and Preload see the rows whose deleted_at is null.
FoundUnscoped(p) == product[p].st # "absent"
Found(p) == product[p].st = "live"

Gallery(p) == {k \in Keys : image[k].st = "live" /\ image[k].product = p}

CoverForgotten(k) == {}
CoverUnchecked(k) == {k}
\* Handlers skip an empty image_key.
Cover(k) == {k} \ {NoKey}

FreshInBucket == Keys \ objects
\* uuid.New never repeats a key.
Fresh == Keys \ minted

Goto(r, pc) == req' = [req EXCEPT ![r].pc = pc]

\* The handler writes its response and returns.
Reply(r, code) ==
    req' = [req EXCEPT ![r] = Slot(req[r].op, "done", NoProduct, {}, NoKey, code)]

\* A method of the nil service dereferences it; gin.Recovery turns the panic into a 500.
Panics(r) == ~storage /\ Reply(r, 500)

(***************************************************************************)
(* Requests arrive.  An upload's key is picked here instead of at uuid.New *)
(* so that a run starts no upload it has no key left for.                  *)
(***************************************************************************)
CanStart(r, op) ==
    /\ req[r].pc = "idle"
    /\ op \in Ops
    /\ Cardinality({q \in Requests : req[q].pc # "idle"}) < env.load

Start(r, op, pc, p, k, keys) ==
    /\ CanStart(r, op)
    /\ req' = [req EXCEPT ![r] = Slot(op, pc, p, keys, k, 0)]

ArriveOnProduct(r) ==
    /\ \E op \in {"get", "update", "delete"}, p \in Products :
          /\ product[p].st # "absent"
          /\ Start(r, op, "find", p, NoKey, {})
    /\ UNCHANGED <<product, image, objects, minted, storage>>

ArriveUpload(r) ==
    /\ Cardinality(minted) < env.uploads
    /\ \E op \in {"upload", "addimage"}, p \in Products, k \in Fresh :
          /\ product[p].st # "absent"
          /\ Start(r, op, "find", p, k, {})
          /\ minted' = minted \cup {k}
    /\ UNCHANGED <<product, image, objects, storage>>

ArriveDeleteImage(r) ==
    /\ \E p \in Products, k \in Keys :
          /\ image[k].st # "absent"
          /\ Start(r, "delimage", "findimage", p, NoKey, {k})
    /\ UNCHANGED <<product, image, objects, minted, storage>>

\* Ids no row has, not even a deleted one: uuid.New never repeats one.
Vacant == {p \in Products : product[p].st = "absent"}

\* Create touches the database in one INSERT; the reload after it changes nothing.
CreateProduct(r) ==
    /\ CanStart(r, "create")
    /\ \E code \in {201} \cup (IF "badinput" \in Events THEN {400} ELSE {})
                         \cup (IF {"db", "commit"} \cap Events # {} THEN {500} ELSE {}) :
          /\ req' = [req EXCEPT ![r] = Slot("create", "done", NoProduct, {}, NoKey, code)]
          /\ \/ /\ code = 201 \/ (code = 500 /\ "commit" \in Events)
                /\ \E p \in Vacant :
                      product' = [product EXCEPT ![p] = [st |-> "live", key |-> NoKey]]
             \/ /\ code = 400 \/ (code = 500 /\ "db" \in Events)
                /\ UNCHANGED product
    /\ UNCHANGED <<image, objects, minted, storage>>

-----------------------------------------------------------------------------
(***************************************************************************)
(* FindByID reads the row and then, in a query of its own, the gallery.    *)
(***************************************************************************)
FindProduct(r) ==
    LET p == req[r].p IN
    /\ req[r].pc = "find"
    /\ \/ /\ Found(p)
          /\ req' = [req EXCEPT ![r] = [@ EXCEPT !.pc = "preload", !.row = product[p].key]]
       \/ ~Found(p) /\ Reply(r, 404)
       \/ "db" \in Events /\ Reply(r, 500)
    /\ UNCHANGED <<product, image, objects, minted, storage>>

LoadedNoPreload(r) == Cover(req[r].row)
LoadedWithGallery(r) == Cover(req[r].row) \cup Gallery(req[r].p)
\* What each handler keeps of the product it loaded.
Loaded(r) ==
    LET cover == Cover(req[r].row)
        gallery == Gallery(req[r].p) IN
    CASE req[r].op = "addimage" -> gallery        \* len(product.Images) is the position
      [] req[r].op = "upload"   -> cover          \* the old object, to be removed
      [] OTHER                  -> cover \cup gallery

\* Where it goes on; no object is removed when there is none.
AfterLoad(op, keys) ==
    CASE op = "get"      -> "present"
      [] op = "update"   -> "save"
      [] op = "addimage" -> "put"
      [] op = "upload"   -> IF keys = {} THEN "put" ELSE "remove"
      [] OTHER           -> IF keys = {} THEN "dbdelete" ELSE "remove"

LoadGallery(r) ==
    /\ req[r].pc = "preload"
    /\ req' = [req EXCEPT ![r] = [@ EXCEPT !.keys = Loaded(r),
                                           !.pc = AfterLoad(req[r].op, Loaded(r))]]
    /\ UNCHANGED <<product, image, objects, minted, storage>>

\* Invalid JSON, a missing file, or a manager deleting another user's product.
RefuseRequest(r) ==
    /\ req[r].pc = "preload"
    /\ "badinput" \in Events
    /\ req[r].op # "get"
    /\ Reply(r, IF req[r].op = "delete" THEN 403 ELSE 400)
    /\ UNCHANGED <<product, image, objects, minted, storage>>

FindImageOfAnyProduct(r) ==
    LET found == \A k \in req[r].keys : image[k].st = "live" IN
    /\ req[r].pc = "findimage"
    /\ \/ found /\ Goto(r, "remove")
       \/ ~found /\ Reply(r, 404)
       \/ "db" \in Events /\ Reply(r, 500)
    /\ UNCHANGED <<product, image, objects, minted, storage>>
\* DeleteImage looks the gallery row up by image and product id; that the
\* product itself is live is not checked.
FindImage(r) ==
    /\ req[r].pc = "findimage"
    /\ \/ req[r].keys \subseteq Gallery(req[r].p) /\ Goto(r, "remove")
       \/ ~(req[r].keys \subseteq Gallery(req[r].p)) /\ Reply(r, 404)
       \/ "db" \in Events /\ Reply(r, 500)
    /\ UNCHANGED <<product, image, objects, minted, storage>>

-----------------------------------------------------------------------------
(***************************************************************************)
(* The bucket.                                                             *)
(***************************************************************************)
DeleteAndSweep(k) ==
    objects' = {j \in objects \ {k} : \/ image[j].st = "live"
                                      \/ \E p \in Products : product[p].key = j}
\* DeleteObject: a failure is logged, and the caller is not told.
Delete(k) ==
    \/ objects' = objects \ {k}
    \/ "remove" \in Events /\ UNCHANGED objects

AfterRemove(op) ==
    CASE op = "upload"   -> "put"
      [] op = "delimage" -> "dbdeleteimage"
      [] OTHER           -> "dbdelete"

\* The slot once k is removed (DeleteImage still needs to know its row).
Removed(r, k) ==
    LET left == req[r].keys \ {k} IN
    [req[r] EXCEPT !.pc = IF left = {} THEN AfterRemove(req[r].op) ELSE "remove",
                   !.keys = IF req[r].op = "delimage" THEN req[r].keys ELSE left]

\* The cover goes first; the order of the gallery is left open.
NextKeys(r) == {k \in req[r].keys : req[r].row \in req[r].keys => k = req[r].row}

RemoveObject(r) ==
    /\ req[r].pc = "remove"
    /\ \/ /\ storage
          /\ \E k \in NextKeys(r) : Delete(k) /\ req' = [req EXCEPT ![r] = Removed(r, k)]
       \/ Panics(r) /\ UNCHANGED objects
    /\ UNCHANGED <<product, image, minted, storage>>

\* UploadProductImage validates the file and stores it under the fresh key.
PutObject(r) ==
    /\ req[r].pc = "put"
    /\ \/ storage /\ Goto(r, "save") /\ objects' = objects \cup {req[r].key}
       \/ /\ storage /\ {"badinput", "put"} \cap Events # {}
          /\ Reply(r, 400) /\ UNCHANGED objects
       \/ /\ storage /\ "putlost" \in Events
          /\ Reply(r, 400) /\ objects' = objects \cup {req[r].key}
       \/ Panics(r) /\ UNCHANGED objects
    /\ UNCHANGED <<product, image, minted, storage>>

-----------------------------------------------------------------------------
(***************************************************************************)
(* Database writes.  GORM's Save updates every column of the row from the  *)
(* value in memory; when the row has been soft deleted in the meantime the *)
(* UPDATE matches nothing and Save falls back to INSERT ... ON CONFLICT DO *)
(* UPDATE of all columns, deleted_at included: the row is live again.      *)
(***************************************************************************)
GormSave(p, k) == product' = [product EXCEPT ![p] = [st |-> "live", key |-> k]]

SoftDeleteForgotten(row) == row
\* DELETE of a model with a DeletedAt field sets deleted_at of the live row.
SoftDelete(row) == IF row.st = "live" THEN [row EXCEPT !.st = "deleted"] ELSE row

\* A write that is reported as failed.
Fails(write, nothing) ==
    \/ "db" \in Events /\ nothing
    \/ "commit" \in Events /\ write

SaveUpdateWithGallery(r) ==
    /\ req[r].pc = "save" /\ req[r].op = "update"
    /\ GormSave(req[r].p, req[r].row)
    /\ image' = [k \in Keys |-> IF image[k].product = req[r].p /\ k \in req[r].keys
                                THEN [image[k] EXCEPT !.st = "live"] ELSE image[k]]
    /\ Goto(r, "present")
    /\ UNCHANGED <<objects, minted, storage>>
\* Save of a product does not touch the columns of the gallery rows loaded with it.
SaveUpdate(r) ==
    LET write == GormSave(req[r].p, req[r].row) IN
    /\ req[r].pc = "save" /\ req[r].op = "update"
    /\ \/ write /\ Goto(r, "present")
       \/ Fails(write, UNCHANGED product) /\ Reply(r, 500)
    /\ UNCHANGED <<image, objects, minted, storage>>

SaveCover(r) ==
    LET write == GormSave(req[r].p, req[r].key) IN
    /\ req[r].pc = "save" /\ req[r].op = "upload"
    /\ \/ write /\ Reply(r, 200)
       \/ Fails(write, UNCHANGED product) /\ Goto(r, "rollback")
    /\ UNCHANGED <<image, objects, minted, storage>>

InsertImage(r) ==
    LET write == image' = [image EXCEPT ![req[r].key] =
                   [st |-> "live", product |-> req[r].p, pos |-> Cardinality(req[r].keys)]] IN
    /\ req[r].pc = "save" /\ req[r].op = "addimage"
    /\ \/ write /\ Reply(r, 201)
       \/ Fails(write, UNCHANGED image) /\ Goto(r, "rollback")
    /\ UNCHANGED <<product, objects, minted, storage>>

\* The reference could not be persisted: the new object is removed again.
Rollback(r) ==
    /\ req[r].pc = "rollback"
    /\ Delete(req[r].key)
    /\ Reply(r, 500)
    /\ UNCHANGED <<product, image, minted, storage>>

DeleteProduct(r) ==
    LET p == req[r].p
        write == product' = [product EXCEPT ![p] = SoftDelete(@)] IN
    /\ req[r].pc = "dbdelete"
    /\ \/ write /\ Reply(r, 200)
       \/ Fails(write, UNCHANGED product) /\ Reply(r, 500)
    /\ UNCHANGED <<image, objects, minted, storage>>

DeleteImageRow(r) ==
    LET write == image' = [k \in Keys |-> IF k \in req[r].keys
                                          THEN SoftDelete(image[k]) ELSE image[k]] IN
    /\ req[r].pc = "dbdeleteimage"
    /\ \/ write /\ Reply(r, 200)
       \/ Fails(write, UNCHANGED image) /\ Reply(r, 500)
    /\ UNCHANGED <<product, objects, minted, storage>>

\* enrichImageURLs asks the service for the URL of every key it finds.
Present(r) ==
    /\ req[r].pc = "present"
    /\ IF req[r].keys # {} /\ ~storage THEN Reply(r, 500) ELSE Reply(r, 200)
    /\ UNCHANGED <<product, image, objects, minted, storage>>

\* The client has the response; the slot is free again.
Receive(r) ==
    /\ req[r].pc = "done"
    /\ req' = [req EXCEPT ![r] = Idle]
    /\ UNCHANGED <<product, image, objects, minted, storage>>

\* The process dies; requests in flight are lost, the two stores are not.
Restart ==
    /\ "restart" \in Events
    /\ req' = [r \in Requests |-> Idle]
    /\ storage' \in Boot
    /\ UNCHANGED <<product, image, objects, minted>>

Step(r) ==
    \/ ArriveOnProduct(r) \/ ArriveUpload(r) \/ ArriveDeleteImage(r) \/ CreateProduct(r)
    \/ FindProduct(r) \/ LoadGallery(r) \/ RefuseRequest(r) \/ FindImage(r)
    \/ RemoveObject(r) \/ PutObject(r)
    \/ SaveUpdate(r) \/ SaveCover(r) \/ InsertImage(r) \/ Rollback(r)
    \/ DeleteProduct(r) \/ DeleteImageRow(r)
    \/ Present(r) \/ Receive(r)

Next == /\ Restart \/ \E r \in Requests : Step(r)
        /\ UNCHANGED env

Spec == Init /\ [][Next]_vars

-----------------------------------------------------------------------------
(***************************************************************************)
(* Properties.                                                             *)
(***************************************************************************)
Quiet == \A r \in Requests : req[r].pc \in {"idle", "done"}

\* Environments: one request at a time; no request that Saves a product row.
Serial == env.load = 1
NoSaves == Ops \cap {"update", "upload"} = {}

Referenced == {k \in Keys : \/ image[k].st # "absent"
                            \/ \E p \in Products : product[p].key = k}

\* The keys a client can still reach: covers and galleries of live products.
Reachable == {k \in Keys : \E p \in Products : /\ product[p].st = "live"
                                               /\ k = product[p].key \/ k \in Gallery(p)}

\* No object belongs to two rows: whatever requests interleave, a cover is the
\* cover of one product and no gallery image.  DeleteObject of one product's
\* keys would otherwise remove another product's image.
KeyOwnership ==
    \A k \in Keys :
        /\ \A p, q \in Products : product[p].key = k /\ product[q].key = k => p = q
        /\ \A p \in Products : product[p].key = k => image[k].st = "absent"

\* Between PutObject and the write that records its key, a new object stays in
\* the bucket and no row refers to it, whatever the requests running beside
\* this one remove or save: the row, once written, refers to a stored object.
PendingUploadSafe ==
    \A r \in Requests :
        req[r].pc = "save" /\ req[r].op \in {"upload", "addimage"} =>
            req[r].key \in objects \ Referenced

\* Whatever overlaps, fails or dies, what a removal can harm is one product: an object goes
\* only in the name of the product whose row refers to it, and a new cover takes no
\* gallery image with it.  (A rollback after a write that did take effect, and the old cover
\* another upload has replaced meanwhile, are removed on out-of-date knowledge.)
RemovalsContained ==
    [][\A k \in objects \ objects' : \E r \in Requests :
          /\ req[r].pc \in {"remove", "rollback"} /\ req'[r] # req[r]
          /\ \A p \in Products : product[p].key = k => p = req[r].p
          /\ image[k].st # "absent" => image[k].product = req[r].p /\ req[r].op # "upload"]_vars

\* A deleted gallery row never comes back and never changes, whatever Save of a
\* product loaded with that row runs later.
ImageDeletionFinal ==
    [][\A k \in Keys : image[k].st = "deleted" => image'[k] = image[k]]_vars

\* Where database calls do not fail and no product is deleted, a gallery image a
\* client can reach has its object, except while the DeleteImage that removes
\* both is between its two steps: covers replaced and products saved beside it
\* do it no harm.
GalleryIntact ==
    {"db", "commit", "restart"} \cap Events = {} /\ "delete" \notin Ops =>
        \A p \in Products : product[p].st = "live" =>
            \A k \in Gallery(p) \ objects :
                \E r \in Requests : req[r].pc = "dbdeleteimage" /\ k \in req[r].keys

\* "Appends it to the product's image gallery": where requests come one at a time
\* and no image is deleted, the positions of a gallery are 0, 1, 2..., one each,
\* and calls that fail leave no gap.  (With either they may repeat.)
GalleryAppends ==
    Serial /\ "delimage" \notin Ops =>
        \A p \in Products :
            {image[k].pos : k \in Gallery(p)} = 0..(Cardinality(Gallery(p)) - 1)

\* One request at a time, and no call of the bucket that fails to tell (an
\* ambiguous PutObject, a logged RemoveObject, a crash): once the request is
\* over, no object is left in the bucket that no live product refers to.
NoOrphan ==
    Serial /\ {"putlost", "remove", "restart"} \cap Events = {} =>
        (Quiet => objects \subseteq Reachable)

\* With no request in flight every key a client can reach is that of a stored
\* object, where requests come one at a time and only removals fail, and where
\* they overlap, uploads fail too, but none of them Saves a row.
NoDangling ==
    (Serial /\ Events \subseteq {"remove"})
      \/ (NoSaves /\ {"db", "commit", "restart"} \cap Events = {}) =>
        (Quiet => Reachable \subseteq objects)

\* "Product deleted": a deleted product stays deleted.
ProductDeleted ==
    [][\A p \in Products : product[p].st = "deleted" => product'[p].st = "deleted"]_vars

\* It does where requests come one at a time, whatever fails, and where none of
\* them Saves a row.
DeletedStaysDeleted ==
    [][Serial \/ NoSaves =>
          \A p \in Products : product[p].st = "deleted" => product'[p].st = "deleted"]_vars
=============================================================================
