--------------------- MODULE ProductImages_stores_proofs ---------------------
(***************************************************************************)
(* Proofs that the two stores of ProductImages agree: which objects may be *)
(* missing from the bucket, which may be left in it, and what holds where  *)
(* requests come one at a time.                                            *)
(***************************************************************************)
EXTENDS ProductImages_proofs

-----------------------------------------------------------------------------
(***************************************************************************)
(* What a step does to a slot and to the two stores.                       *)
(***************************************************************************)
\* The slot moves on: its request stays the same, what it has read may change.
Carries(r, pc, row, keys) ==
    /\ req'[r].pc = pc /\ req'[r].row = row /\ req'[r].keys = keys
    /\ req'[r].op = req[r].op /\ req'[r].p = req[r].p /\ req'[r].key = req[r].key

Arrived(r) ==
    /\ CanStart(r, req'[r].op)
    /\ req'[r].op \in {"get", "update", "delete", "upload", "addimage", "delimage"}
    /\ req'[r].pc = IF req'[r].op = "delimage" THEN "findimage" ELSE "find"
    /\ req'[r].row = NoKey
    /\ req'[r].op # "delimage" => product[req'[r].p].st # "absent"
    /\ req'[r].op = "delimage" =>
          \E k \in Keys : req'[r].keys = {k} /\ image[k].st # "absent"
    /\ UNCHANGED <<product, image, objects, storage>>

Finds(r) ==
    /\ req[r].pc = "find" /\ Found(req[r].p)
    /\ Carries(r, "preload", product[req[r].p].key, req[r].keys)
    /\ UNCHANGED <<product, image, objects, storage>>

Loads(r) ==
    /\ req[r].pc = "preload"
    /\ Carries(r, AfterLoad(req[r].op, Loaded(r)), req[r].row, Loaded(r))
    /\ UNCHANGED <<product, image, objects, storage>>

FindsImage(r) ==
    /\ req[r].pc = "findimage" /\ req[r].keys \subseteq Gallery(req[r].p)
    /\ Carries(r, "remove", req[r].row, req[r].keys)
    /\ UNCHANGED <<product, image, objects, storage>>

\* One object is removed, or its removal is logged as failed.
RemovesOne(r, k) ==
    /\ req[r].pc = "remove" /\ k \in req[r].keys /\ Delete(k)
    /\ Carries(r, IF req[r].keys \ {k} = {} THEN AfterRemove(req[r].op) ELSE "remove",
               req[r].row,
               IF req[r].op = "delimage" THEN req[r].keys ELSE req[r].keys \ {k})
    /\ UNCHANGED <<product, image, storage>>

Puts(r) ==
    /\ req[r].pc = "put" /\ storage
    /\ Carries(r, "save", req[r].row, req[r].keys)
    /\ objects' = objects \cup {req[r].key}
    /\ UNCHANGED <<product, image, storage>>

Saves(r) ==
    /\ req[r].pc = "save" /\ req[r].op = "update"
    /\ Carries(r, "present", req[r].row, req[r].keys)
    /\ GormSave(req[r].p, req[r].row)
    /\ UNCHANGED <<image, objects, storage>>

\* The key of the new object is not recorded, or so the database says.
Fumbles(r) ==
    /\ req[r].pc = "save" /\ req[r].op \in Uploads
    /\ {"db", "commit"} \cap Events # {}
    /\ Carries(r, "rollback", req[r].row, req[r].keys)
    /\ UNCHANGED <<objects, storage>>

Advances(r) ==
    \/ Arrived(r) \/ Finds(r) \/ Loads(r) \/ FindsImage(r)
    \/ (\E k \in Keys : RemovesOne(r, k))
    \/ Puts(r) \/ Saves(r) \/ Fumbles(r)

\* After a step of a slot its handler is over or it has moved on.
LEMMA StepOfSlot ==
    ASSUME TypeOK, Shape, NEW r \in Requests, Step(r)
    PROVE  ~Active(r)' \/ Advances(r)
<1>t. req \in [Requests -> Request] /\ req[r] \in Request
  BY DEF TypeOK
<1>r. ASSUME NEW code, Reply(r, code) PROVE ~Active(r)'
  BY <1>t, <1>r DEF Reply, Slot, Active
<1> USE <1>t
<1>1. CASE ArriveOnProduct(r)
  <2>1. PICK op \in {"get", "update", "delete"}, p \in Products :
          /\ product[p].st # "absent" /\ CanStart(r, op)
          /\ req' = [req EXCEPT ![r] = Slot(op, "find", p, {}, NoKey, 0)]
    BY <1>1 DEF ArriveOnProduct, Start
  <2>2. req'[r].op = op /\ req'[r].pc = "find" /\ req'[r].p = p /\ req'[r].row = NoKey
    BY <2>1 DEF Slot
  <2> QED BY <1>1, <2>1, <2>2 DEF ArriveOnProduct, Arrived, Advances
<1>2. CASE ArriveUpload(r)
  <2>1. PICK op \in {"upload", "addimage"}, p \in Products, k \in Fresh :
          /\ product[p].st # "absent" /\ CanStart(r, op)
          /\ req' = [req EXCEPT ![r] = Slot(op, "find", p, {}, k, 0)]
    BY <1>2 DEF ArriveUpload, Start
  <2>2. req'[r].op = op /\ req'[r].pc = "find" /\ req'[r].p = p /\ req'[r].row = NoKey
    BY <2>1 DEF Slot
  <2> QED BY <1>2, <2>1, <2>2 DEF ArriveUpload, Arrived, Advances
<1>3. CASE ArriveDeleteImage(r)
  <2>1. PICK p \in Products, k \in Keys :
          /\ image[k].st # "absent" /\ CanStart(r, "delimage")
          /\ req' = [req EXCEPT ![r] = Slot("delimage", "findimage", p, {k}, NoKey, 0)]
    BY <1>3 DEF ArriveDeleteImage, Start
  <2>2. /\ req'[r].op = "delimage" /\ req'[r].pc = "findimage" /\ req'[r].keys = {k}
        /\ req'[r].row = NoKey
    BY <2>1 DEF Slot
  <2> QED BY <1>3, <2>1, <2>2 DEF ArriveDeleteImage, Arrived, Advances
<1>4. CASE CreateProduct(r) \/ Receive(r)
  BY <1>4 DEF CreateProduct, Receive, Idle, Slot, Active
<1>5. CASE FindProduct(r)
  <2>1. CASE req' = [req EXCEPT ![r] = [@ EXCEPT !.pc = "preload", !.row = product[req[r].p].key]]
             /\ Found(req[r].p)
    BY <1>5, <2>1 DEF FindProduct, Finds, Carries, Advances, Request
  <2> QED BY <1>5, <1>r, <2>1 DEF FindProduct
<1>6. CASE LoadGallery(r)
  BY <1>6 DEF LoadGallery, Loads, Carries, Advances, Request
<1>7. CASE RefuseRequest(r) \/ DeleteProduct(r) \/ DeleteImageRow(r) \/ Present(r) \/ Rollback(r)
  BY <1>7, <1>r DEF RefuseRequest, DeleteProduct, DeleteImageRow, Present, Rollback
<1>8. CASE FindImage(r)
  <2>1. CASE Goto(r, "remove") /\ req[r].keys \subseteq Gallery(req[r].p)
    BY <1>8, <2>1 DEF FindImage, Goto, FindsImage, Carries, Advances, Request
  <2> QED BY <1>8, <1>r, <2>1 DEF FindImage
<1>9. CASE RemoveObject(r)
  <2>1. CASE Panics(r)
    BY <1>r, <2>1 DEF Panics
  <2>2. ASSUME NEW k \in NextKeys(r), Delete(k), req' = [req EXCEPT ![r] = Removed(r, k)]
        PROVE  Advances(r)
    <3>1. k \in req[r].keys /\ k \in Keys
      BY DEF NextKeys, Request
    <3>2. RemovesOne(r, k)
      BY <1>9, <2>2, <3>1 DEF RemoveObject, RemovesOne, Removed, Carries, Request
    <3> QED BY <3>1, <3>2 DEF Advances
  <2> QED BY <1>9, <2>1, <2>2 DEF RemoveObject
<1>10. CASE PutObject(r)
  <2>1. CASE storage /\ Goto(r, "save") /\ objects' = objects \cup {req[r].key}
    BY <1>10, <2>1 DEF PutObject, Goto, Puts, Carries, Advances, Request
  <2> QED BY <1>10, <1>r, <2>1 DEF PutObject, Panics
<1>11. CASE SaveUpdate(r)
  <2>1. CASE GormSave(req[r].p, req[r].row) /\ Goto(r, "present")
    BY <1>11, <2>1 DEF SaveUpdate, Goto, Saves, Carries, Advances, Request
  <2> QED BY <1>11, <1>r, <2>1 DEF SaveUpdate
<1>12. CASE SaveCover(r) \/ InsertImage(r)
  <2>1. CASE {"db", "commit"} \cap Events # {} /\ Goto(r, "rollback")
    BY <1>12, <2>1
       DEF SaveCover, InsertImage, Goto, Fumbles, Carries, Advances, Request, Uploads
  <2> QED BY <1>12, <1>r, <2>1 DEF SaveCover, InsertImage, Fails
<1> QED BY <1>1, <1>2, <1>3, <1>4, <1>5, <1>6, <1>7, <1>8, <1>9, <1>10, <1>11, <1>12 DEF Step

\* A step is of one slot, or changes none, or is a restart.
LEMMA StepCases ==
    ASSUME TypeOK, [Next]_vars
    PROVE  /\ env' = env
           /\ \/ UNCHANGED vars
              \/ Restart
              \/ \E r \in Requests : /\ Step(r)
                                     /\ \A q \in Requests : q # r => req'[q] = req[q]
<1>1. ASSUME NEW r \in Requests, Step(r) PROVE \A q \in Requests : q # r => req'[q] = req[q]
  <2>1. \E s : req' = [req EXCEPT ![r] = s]
    <3>1. CASE ArriveOnProduct(r) \/ ArriveUpload(r) \/ ArriveDeleteImage(r) \/ CreateProduct(r)
      BY <3>1 DEF ArriveOnProduct, ArriveUpload, ArriveDeleteImage, CreateProduct, Start
    <3>2. CASE RemoveObject(r) \/ PutObject(r)
      BY <3>2 DEF RemoveObject, PutObject, Panics, Reply, Goto
    <3>3. CASE ~(\/ ArriveOnProduct(r) \/ ArriveUpload(r) \/ ArriveDeleteImage(r)
                 \/ CreateProduct(r) \/ RemoveObject(r) \/ PutObject(r))
      BY <1>1, <3>3 DEF Step, FindProduct, LoadGallery, RefuseRequest, FindImage, SaveUpdate,
         SaveCover, InsertImage, Rollback, DeleteProduct, DeleteImageRow, Present, Receive,
         Reply, Goto
    <3> QED BY <3>1, <3>2, <3>3
  <2> QED BY <2>1 DEF TypeOK
<1> QED BY <1>1 DEF Next, vars

\* What may change a table or the bucket.
Writes(r) ==
    \/ CreateProduct(r) \/ SaveUpdate(r) \/ SaveCover(r) \/ DeleteProduct(r)
    \/ InsertImage(r) \/ DeleteImageRow(r)
    \/ RemoveObject(r) \/ PutObject(r) \/ Rollback(r)

LEMMA StoreStep ==
    ASSUME NEW r \in Requests, Step(r)
    PROVE  UNCHANGED storage /\ (UNCHANGED <<product, image, objects>> \/ Writes(r))
<1>1. CASE ArriveOnProduct(r) \/ ArriveUpload(r) \/ ArriveDeleteImage(r)
  BY <1>1 DEF ArriveOnProduct, ArriveUpload, ArriveDeleteImage
<1>2. CASE \/ FindProduct(r) \/ LoadGallery(r) \/ RefuseRequest(r) \/ FindImage(r)
           \/ Present(r) \/ Receive(r)
  BY <1>2 DEF FindProduct, LoadGallery, RefuseRequest, FindImage, Present, Receive
<1>3. CASE Writes(r)
  BY <1>3 DEF Writes, CreateProduct, SaveUpdate, SaveCover, DeleteProduct, InsertImage,
     DeleteImageRow, RemoveObject, PutObject, Rollback
<1> QED BY <1>1, <1>2, <1>3 DEF Step, Writes

\* Rows of table products: nothing, an INSERT, a Save or a soft delete.
ProductStep(r) ==
    \/ UNCHANGED product
    \/ /\ CanStart(r, "create") /\ ~Active(r)'
       /\ \E p \in Vacant : product' = [product EXCEPT ![p] = [st |-> "live", key |-> NoKey]]
    \/ /\ req[r].pc = "save" /\ req[r].op = "update" /\ GormSave(req[r].p, req[r].row)
    \/ /\ req[r].pc = "save" /\ req[r].op = "upload" /\ GormSave(req[r].p, req[r].key)
    \/ /\ req[r].pc = "dbdelete" /\ ~Active(r)'
       /\ product' = [product EXCEPT ![req[r].p] = SoftDelete(@)]

\* Rows of table product_images: nothing, an INSERT or a soft delete.
ImageStep(r) ==
    \/ UNCHANGED image
    \/ /\ req[r].pc = "save" /\ req[r].op = "addimage"
       /\ image' = [image EXCEPT ![req[r].key] =
             [st |-> "live", product |-> req[r].p, pos |-> Cardinality(req[r].keys)]]
    \/ /\ req[r].pc = "dbdeleteimage" /\ ~Active(r)'
       /\ image' = [k \in Keys |-> IF k \in req[r].keys THEN SoftDelete(image[k]) ELSE image[k]]

\* Objects: nothing, one is put, one of those to be removed is, one is rolled back.
ObjectStep(r) ==
    \/ UNCHANGED objects
    \/ /\ req[r].pc = "put" /\ storage
       /\ objects' = objects \cup {req[r].key}
       /\ req'[r].pc = "save" \/ ("putlost" \in Events /\ ~Active(r)')
    \/ \E k \in Keys : RemovesOne(r, k)
    \/ req[r].pc = "rollback" /\ ~Active(r)' /\ Delete(req[r].key)

LEMMA StoreSteps ==
    ASSUME TypeOK, NEW r \in Requests, Step(r)
    PROVE  UNCHANGED storage /\ ProductStep(r) /\ ImageStep(r) /\ ObjectStep(r)
<1>t. req \in [Requests -> Request] /\ req[r] \in Request
  BY DEF TypeOK
<1>r. ASSUME NEW code, Reply(r, code) PROVE ~Active(r)'
  BY <1>t, <1>r DEF Reply, Slot, Active
<1> USE <1>t
<1>0. CASE UNCHANGED <<product, image, objects>>
  BY <1>0, StoreStep DEF ProductStep, ImageStep, ObjectStep
<1>1. CASE CreateProduct(r)
  <2>1. ~Active(r)'
    BY <1>1 DEF CreateProduct, Slot, Active
  <2> QED BY <1>1, <2>1 DEF CreateProduct, ProductStep, ImageStep, ObjectStep
<1>2. CASE SaveUpdate(r) \/ SaveCover(r)
  BY <1>2 DEF SaveUpdate, SaveCover, Fails, ProductStep, ImageStep, ObjectStep
<1>3. CASE DeleteProduct(r)
  BY <1>3, <1>r DEF DeleteProduct, Fails, ProductStep, ImageStep, ObjectStep
<1>4. CASE InsertImage(r)
  BY <1>4 DEF InsertImage, Fails, ProductStep, ImageStep, ObjectStep
<1>5. CASE DeleteImageRow(r)
  BY <1>5, <1>r DEF DeleteImageRow, Fails, ProductStep, ImageStep, ObjectStep
<1>6. CASE RemoveObject(r)
  <2>1. CASE UNCHANGED objects
    BY <1>6, <2>1 DEF RemoveObject, ProductStep, ImageStep, ObjectStep
  <2>2. ASSUME NEW k \in NextKeys(r), Delete(k), req' = [req EXCEPT ![r] = Removed(r, k)]
        PROVE  \E j \in Keys : RemovesOne(r, j)
    <3>1. k \in req[r].keys /\ k \in Keys
      BY DEF NextKeys, Request
    <3>2. RemovesOne(r, k)
      BY <1>6, <2>2, <3>1 DEF RemoveObject, RemovesOne, Removed, Carries, Request
    <3> QED BY <3>1, <3>2
  <2> QED BY <1>6, <2>1, <2>2 DEF RemoveObject, ProductStep, ImageStep, ObjectStep
<1>7. CASE PutObject(r)
  <2>1. CASE Goto(r, "save") /\ storage /\ objects' = objects \cup {req[r].key}
    <3>1. req'[r].pc = "save"
      BY <2>1 DEF Goto, Request
    <3> QED BY <1>7, <2>1, <3>1 DEF PutObject, ProductStep, ImageStep, ObjectStep
  <2> QED BY <1>7, <1>r, <2>1 DEF PutObject, Panics, ProductStep, ImageStep, ObjectStep
<1>8. CASE Rollback(r)
  BY <1>8, <1>r DEF Rollback, ProductStep, ImageStep, ObjectStep
<1> QED BY StoreStep, <1>0, <1>1, <1>2, <1>3, <1>4, <1>5, <1>6, <1>7, <1>8 DEF Writes

-----------------------------------------------------------------------------
(***************************************************************************)
(* What a handler in flight is about, and how the rows hang together.      *)
(***************************************************************************)
\* The handler is at a line of its own, with the keys that line deals with, and
\* the rows it found are still there (soft deletion keeps them).
Errands(r) ==
    /\ req[r].op \in Ops \ {"create"}
    /\ req[r].op # "delimage" => product[req[r].p].st # "absent"
    /\ req[r].pc \in {"find", "preload"} => req[r].op # "delimage"
    /\ req[r].pc = "findimage" => req[r].op = "delimage"
    /\ req[r].pc = "remove" => req[r].op \in {"upload", "delete", "delimage"}
    /\ req[r].pc = "save" => req[r].op \in {"update", "upload", "addimage"}
    /\ req[r].pc = "dbdelete" => req[r].op = "delete" /\ req[r].keys = {}
    /\ req[r].pc = "dbdeleteimage" => req[r].op = "delimage"
    /\ req[r].pc = "rollback" => {"db", "commit"} \cap Events # {}
    /\ req[r].op = "delimage" => \E k \in Keys : req[r].keys = {k} /\ image[k].st # "absent"
    /\ req[r].op = "upload" /\ req[r].pc = "remove" => req[r].keys \subseteq {req[r].row}
    /\ req[r].op = "delete" /\ req[r].pc = "remove" =>
          \A k \in req[r].keys :
             k = req[r].row \/ (image[k].st # "absent" /\ image[k].product = req[r].p)

AllErrands == \A r \in Requests : Active(r) => Errands(r)

ImageRows == \A k \in Keys : image[k].st # "absent" =>
                image[k].product \in Products /\ product[image[k].product].st # "absent"

\* What no client asks for does not happen, and without a bucket there is no upload.
NotAsked ==
    /\ \A p \in Products : product[p].st = "absent" => product[p].key = NoKey
    /\ NoSaves => \A p \in Products : product[p].key = NoKey
    /\ "delete" \notin Ops => \A p \in Products : product[p].st # "deleted"
    /\ "nostorage" \notin Events => storage
    /\ "restart" \notin Events /\ ~storage =>
          objects = {} /\ \A k \in Keys : image[k].st = "absent"

Base == TypeOK /\ Shape /\ Ownership /\ AllErrands /\ ImageRows /\ NotAsked

\* A gallery row is written where there was none.
LEMMA InsertsNew ==
    ASSUME TypeOK, Shape, Ownership, NEW r \in Requests,
           req[r].pc = "save", req[r].op = "addimage"
    PROVE  /\ Active(r) /\ req[r].key \in Keys /\ req[r].key \in objects
           /\ image[req[r].key].st = "absent" /\ req[r].p \in Products
           /\ \A p \in Products : product[p].key # req[r].key
BY DEF Shape, Active, Uploads, Ownership, HeldUnknown, HeldStored, Held, Uploading, Known,
   Referenced

\* Rows never go away, and a gallery row stays its product's.
LEMMA RowsPersist ==
    ASSUME TypeOK, Shape, Ownership, NEW r \in Requests, Step(r)
    PROVE  /\ \A p \in Products : product[p].st # "absent" => product'[p].st # "absent"
           /\ \A k \in Keys : image[k].st # "absent" =>
                 image'[k].st # "absent" /\ image'[k].product = image[k].product
<1>1. ProductStep(r) /\ ImageStep(r)
  BY StoreSteps
<1>2. ASSUME NEW p \in Products, product[p].st # "absent" PROVE product'[p].st # "absent"
  BY <1>1, <1>2 DEF ProductStep, GormSave, SoftDelete, TypeOK, ProductRow
<1>3. ASSUME NEW k \in Keys, image[k].st # "absent"
      PROVE  image'[k].st # "absent" /\ image'[k].product = image[k].product
  <2>1. CASE UNCHANGED image
    BY <1>3, <2>1
  <2>2. CASE req[r].pc = "save" /\ req[r].op = "addimage"
    BY <1>1, <1>3, <2>2, InsertsNew DEF ImageStep, TypeOK
  <2>3. CASE req[r].pc = "dbdeleteimage"
    BY <1>1, <1>3, <2>3 DEF ImageStep, SoftDelete, TypeOK, ImageRow
  <2> QED BY <1>1, <2>1, <2>2, <2>3 DEF ImageStep
<1> QED BY <1>2, <1>3

\* A handler's own step leads from one line of it to the next.
LEMMA ErrandGoesOn ==
    ASSUME TypeOK, Shape, Ownership, AllErrands, TypeOK', Shape', NEW r \in Requests, Step(r),
           env' = env, Active(r)'
    PROVE  Errands(r)'
<1>t. req[r] \in Request /\ req'[r] \in Request /\ Ops' = Ops /\ Events' = Events
  BY DEF TypeOK, Ops, Events
<1>p. /\ \A p \in Products : product[p].st # "absent" => product'[p].st # "absent"
      /\ \A k \in Keys : image[k].st # "absent" =>
            image'[k].st # "absent" /\ image'[k].product = image[k].product
  BY RowsPersist
<1>a. Advances(r)
  BY StepOfSlot
<1>0. CASE Arrived(r)
  BY <1>0, <1>t, <1>p DEF Arrived, CanStart, Errands, Shape, Active
<1>1. ASSUME ~Arrived(r)
      PROVE  /\ Active(r) /\ Errands(r) /\ req[r].p \in Products
             /\ req'[r].op = req[r].op /\ req'[r].p = req[r].p
  BY <1>a, <1>1 DEF Advances, Finds, Loads, FindsImage, RemovesOne, Puts, Saves, Fumbles,
     Carries, Active, AllErrands, Shape
<1>2. CASE Finds(r)
  <2>1. /\ req'[r].pc = "preload" /\ req'[r].op # "delimage" /\ ~Arrived(r)
        /\ req'[r].op = req[r].op
    BY <1>1, <1>2 DEF Finds, Carries, Errands, Arrived, CanStart
  <2> QED BY <1>1, <1>p, <1>t, <2>1 DEF Errands
<1>6. CASE FindsImage(r)
  <2>1. /\ req'[r].pc = "remove" /\ req'[r].op = "delimage" /\ ~Arrived(r)
        /\ req'[r].keys = req[r].keys
    BY <1>1, <1>6 DEF FindsImage, Carries, Errands, Arrived, CanStart
  <2> QED BY <1>1, <1>p, <1>t, <2>1 DEF Errands
<1>3. CASE Loads(r)
  <2>1. req[r].op \in {"get", "update", "upload", "addimage", "delete"}
    <3>1. Active(r) /\ Errands(r) /\ req[r].pc = "preload"
      BY <1>1, <1>3 DEF Loads, Arrived, CanStart
    <3> QED BY <3>1 DEF Errands, Shape, AllOps
  <2>2. Loaded(r) \subseteq Keys
    BY <1>t DEF Loaded, Cover, Gallery, Request
  <2>3. /\ req'[r].pc = AfterLoad(req[r].op, Loaded(r)) /\ req'[r].keys = Loaded(r)
        /\ req'[r].row = req[r].row
    BY <1>3 DEF Loads, Carries
  <2>4. CASE req[r].op = "get" \/ req[r].op = "update" \/ req[r].op = "addimage"
    BY <1>1, <1>3, <1>t, <1>p, <2>3, <2>4 DEF Loads, AfterLoad, Errands, Arrived, CanStart
  <2>5. CASE req[r].op = "upload"
    BY <1>1, <1>3, <1>t, <1>p, <2>3, <2>5
    DEF Loads, AfterLoad, Errands, Loaded, Cover, Arrived, CanStart
  <2>6. CASE req[r].op = "delete"
    <3>1. \A k \in Loaded(r) :
             k = req[r].row \/ (image[k].st # "absent" /\ image[k].product = req[r].p)
      BY <2>6 DEF Loaded, Cover, Gallery
    <3>2. req'[r].pc = IF Loaded(r) = {} THEN "dbdelete" ELSE "remove"
      BY <2>3, <2>6 DEF AfterLoad
    <3> QED BY <1>1, <1>3, <1>t, <1>p, <2>2, <2>3, <2>6, <3>1, <3>2
        DEF Loads, Errands, Arrived, CanStart
  <2> QED BY <2>1, <2>4, <2>5, <2>6
<1>4. ASSUME NEW k \in Keys, RemovesOne(r, k) PROVE Errands(r)'
  <2>1. /\ req[r].op \in {"upload", "delete", "delimage"} /\ req'[r].row = req[r].row
        /\ req'[r].pc = IF req[r].keys \ {k} = {} THEN AfterRemove(req[r].op) ELSE "remove"
        /\ req'[r].keys = IF req[r].op = "delimage" THEN req[r].keys ELSE req[r].keys \ {k}
        /\ ~Arrived(r) /\ UNCHANGED <<product, image>>
    BY <1>4, <1>1 DEF RemovesOne, Carries, Errands, Arrived, CanStart
  <2>2. CASE req[r].op = "upload"
    BY <1>1, <1>4, <1>t, <1>p, <2>1, <2>2 DEF RemovesOne, AfterRemove, Errands
  <2>3. CASE req[r].op = "delete"
    BY <1>1, <1>4, <1>t, <1>p, <2>1, <2>3 DEF RemovesOne, AfterRemove, Errands
  <2>4. CASE req[r].op = "delimage"
    BY <1>1, <1>4, <1>t, <1>p, <2>1, <2>4 DEF RemovesOne, AfterRemove, Errands
  <2> QED BY <2>1, <2>2, <2>3, <2>4
<1>5. CASE Puts(r) \/ Saves(r) \/ Fumbles(r)
  BY <1>1, <1>5, <1>t, <1>p
  DEF Puts, Saves, Fumbles, Carries, Errands, Arrived, CanStart, Shape, Uploads
<1> QED BY <1>a, <1>0, <1>2, <1>3, <1>4, <1>5, <1>6 DEF Advances

\* Every step keeps what the handlers are about.
LEMMA ErrandsNext ==
    ASSUME TypeOK, Shape, Ownership, AllErrands, [Next]_vars, TypeOK', Shape'
    PROVE  AllErrands'
<1>0. env' = env
  BY StepCases
<1>1. CASE UNCHANGED vars
  BY <1>1 DEF vars, AllErrands, Errands, Active, Ops, Events
<1>2. CASE Restart
  BY <1>2 DEF Restart, AllErrands, Active, Idle, Slot
<1>3. ASSUME NEW r \in Requests, Step(r), \A q \in Requests : q # r => req'[q] = req[q],
             NEW q \in Requests, Active(q)'
      PROVE  Errands(q)'
  <2>1. CASE q = r
    BY <1>0, <1>3, <2>1, ErrandGoesOn
  <2>2. CASE q # r
    <3>1. Active(q) /\ Errands(q) /\ req'[q] = req[q] /\ req[q] \in Request
      BY <1>3, <2>2 DEF Active, AllErrands, TypeOK
    <3>2. req[q].p \in Products /\ Ops' = Ops /\ Events' = Events
      BY <1>0, <3>1 DEF Shape, Ops, Events
    <3> QED BY <1>3, <3>1, <3>2, RowsPersist DEF Errands, Request
  <2> QED BY <2>1, <2>2
<1> QED BY <1>1, <1>2, <1>3, StepCases DEF AllErrands

\* Every step keeps the rows together.
LEMMA RowsNext ==
    ASSUME Base, [Next]_vars, TypeOK', Shape', Ownership', AllErrands'
    PROVE  ImageRows' /\ NotAsked'
<1> USE DEF Base
<1>0. env' = env /\ Ops' = Ops /\ Events' = Events
  BY StepCases DEF Ops, Events
<1>1. CASE UNCHANGED vars
  BY <1>1 DEF vars, ImageRows, NotAsked, NoSaves, Ops, Events
<1>2. CASE Restart
  BY <1>0, <1>2 DEF Restart, ImageRows, NotAsked, NoSaves, Boot
<1>3. ASSUME NEW r \in Requests, Step(r)
      PROVE  ImageRows' /\ NotAsked'
  <2>1. UNCHANGED storage /\ ProductStep(r) /\ ImageStep(r) /\ ObjectStep(r)
    BY <1>3, StoreSteps
  <2>2. ImageRows'
    <3> SUFFICES ASSUME NEW k \in Keys, image'[k].st # "absent"
                 PROVE  image'[k].product \in Products /\ product'[image'[k].product].st # "absent"
      BY DEF ImageRows
    <3>1. CASE image[k].st # "absent"
      BY <1>3, <3>1, RowsPersist DEF ImageRows
    <3>2. CASE image[k].st = "absent"
      <4>1. req[r].pc = "save" /\ req[r].op = "addimage" /\ k = req[r].key
            /\ image'[k].product = req[r].p
        BY <2>1, <3>2, InsertsNew DEF ImageStep, SoftDelete, TypeOK
      <4>2. req[r].p \in Products /\ product[req[r].p].st # "absent"
        BY <4>1, InsertsNew DEF AllErrands, Errands
      <4> QED BY <1>3, <4>1, <4>2, RowsPersist
    <3> QED BY <3>1, <3>2
  <2>3. ASSUME NEW p \in Products, product'[p].st = "absent" PROVE product'[p].key = NoKey
    BY <2>1, <2>3 DEF ProductStep, GormSave, SoftDelete, TypeOK, ProductRow, NotAsked
  <2>4. ASSUME NoSaves, NEW p \in Products PROVE product'[p].key = NoKey
    <3>1. ~(req[r].pc = "save" /\ req[r].op \in {"update", "upload"})
      BY <2>4 DEF AllErrands, Errands, Active, NoSaves
    <3> QED BY <2>1, <2>4, <3>1 DEF ProductStep, SoftDelete, TypeOK, ProductRow, NotAsked
  <2>5. ASSUME "delete" \notin Ops, NEW p \in Products PROVE product'[p].st # "deleted"
    <3>1. req[r].pc # "dbdelete"
      BY <2>5 DEF AllErrands, Errands, Active
    <3> QED BY <2>1, <2>5, <3>1 DEF ProductStep, GormSave, TypeOK, ProductRow, NotAsked
  <2>6. ASSUME "restart" \notin Events, ~storage
        PROVE  objects' = {} /\ \A k \in Keys : image'[k].st = "absent"
    <3>1. ~(req[r].pc = "save" /\ req[r].op = "addimage")
      BY <2>6, InsertsNew DEF NotAsked
    <3>2. objects' = {}
      BY <2>1, <2>6 DEF ObjectStep, RemovesOne, Delete, NotAsked
    <3> QED BY <2>1, <2>6, <3>1, <3>2 DEF ImageStep, SoftDelete, TypeOK, NotAsked
  <2> QED BY <1>0, <2>1, <2>2, <2>3, <2>4, <2>5, <2>6 DEF NotAsked, NoSaves
<1> QED BY <1>1, <1>2, <1>3, StepCases

\* TypeOK, the shape of the slots, who knows a key, what the handlers are about and
\* how the rows hang together, in every reachable state.
LEMMA BaseInvariant == Spec => []Base
<1>1. ASSUME Init PROVE AllErrands /\ ImageRows /\ NotAsked
  <2>1. AllErrands /\ ImageRows
    BY <1>1 DEF Init, AllErrands, Active, Idle, Slot, ImageRows
  <2>2. NotAsked
    BY <1>1 DEF Init, NotAsked, Boot
  <2> QED BY <2>1, <2>2
<1>2. ASSUME Base, [Next]_vars, TypeOK', Shape', Ownership'
      PROVE  AllErrands' /\ ImageRows' /\ NotAsked'
  BY <1>2, ErrandsNext, RowsNext DEF Base
<1> QED BY <1>1, <1>2, OwnershipInvariant, PTL DEF Spec, Base

-----------------------------------------------------------------------------
(***************************************************************************)
(* What is removed in whose name.                                          *)
(***************************************************************************)
\* No row and no handler has the uploaded key for another product, or for another
\* purpose, than this upload.
OwnUpload(r) ==
    /\ \A p \in Products : product[p].key = req[r].key => req[r].op = "upload" /\ p = req[r].p
    /\ \A s \in Requests : Active(s) /\ req[s].row = req[r].key =>
          req[r].op = "upload" /\ req[s].p = req[r].p
    /\ image[req[r].key].st # "absent" =>
          req[r].op = "addimage" /\ image[req[r].key].product = req[r].p

\* The write that is rolled back may have taken effect, so its key may have been recorded,
\* read and saved again, but only for this product.
Targets ==
    \A r \in Requests :
        /\ req[r].pc = "remove" /\ req[r].op = "delimage" =>
              \A k \in req[r].keys : image[k].product = req[r].p
        /\ req[r].pc = "rollback" => OwnUpload(r)

\* The failing write makes the key known to its own row at most.
LEMMA FumbleOwn ==
    ASSUME Base, NEW r \in Requests, Step(r), Fumbles(r),
           \A q \in Requests : q # r => req'[q] = req[q]
    PROVE  OwnUpload(r)'
<1>1. /\ ProductStep(r) /\ ImageStep(r) /\ Active(r) /\ req[r].key \in Keys
      /\ req[r].p \in Products /\ req[r].op \in Uploads /\ req[r].pc = "save"
  BY StoreSteps DEF Base, Fumbles, Shape, Active
<1>2. ~Known(req[r].key)
  BY <1>1 DEF Base, Ownership, HeldUnknown, Held, Uploading
<1>3. /\ \A p \in Products : product[p].key # req[r].key
      /\ image[req[r].key].st = "absent"
      /\ \A s \in Requests : req[s].row # req[r].key
  BY <1>1, <1>2 DEF Known, Seen, Referenced
<1>4. /\ req'[r].key = req[r].key /\ req'[r].op = req[r].op /\ req'[r].p = req[r].p
      /\ req'[r].row = req[r].row /\ Active(r)'
  BY DEF Fumbles, Carries, Active
<1>5. \A p \in Products : product'[p].key = req[r].key => req[r].op = "upload" /\ p = req[r].p
  BY <1>1, <1>3, <1>4 DEF ProductStep, GormSave, Base, TypeOK, CanStart, Uploads
<1>6. image'[req[r].key].st # "absent" =>
         req[r].op = "addimage" /\ image'[req[r].key].product = req[r].p
  BY <1>1, <1>3 DEF ImageStep, Base, TypeOK
<1>7. \A s \in Requests : req'[s].row # req[r].key
  BY <1>3, <1>4
<1> QED BY <1>4, <1>5, <1>6, <1>7 DEF OwnUpload

\* A step of another slot makes no more of an upload's key than was made of it.
LEMMA OthersSpareUpload ==
    ASSUME Base, NEW r \in Requests, Step(r), NEW q \in Requests, q # r,
           \A s \in Requests : s # r => req'[s] = req[s],
           req[q].pc = "rollback", OwnUpload(q)
    PROVE  OwnUpload(q)'
<1>1. /\ Active(q) /\ Uploading(q) /\ req[q].key \in Keys /\ req[q].p \in Products
      /\ req'[q] = req[q] /\ ProductStep(r) /\ ImageStep(r)
  BY StoreSteps DEF Base, Shape, Active, Uploading
<1>2. Uploading(r) => req[r].key # req[q].key
  BY <1>1 DEF Base, Ownership, HeldDistinct
<1>3. ASSUME NEW p \in Products, product'[p].key = req[q].key
      PROVE  req[q].op = "upload" /\ p = req[q].p
  <2>1. CASE product[p].key = req[q].key
    BY <2>1 DEF OwnUpload
  <2>2. CASE req[r].pc = "save" /\ req[r].op = "update" /\ GormSave(req[r].p, req[r].row)
    BY <1>3, <2>1, <2>2 DEF OwnUpload, GormSave, Base, TypeOK, Active
  <2>3. CASE req[r].pc = "save" /\ req[r].op = "upload" /\ GormSave(req[r].p, req[r].key)
    <3>1. Uploading(r)
      BY <2>3 DEF Uploading, Active, Uploads
    <3> QED BY <1>2, <1>3, <2>1, <2>3, <3>1 DEF GormSave, Base, TypeOK
  <2>4. CASE \E v \in Vacant : product' = [product EXCEPT ![v] = [st |-> "live", key |-> NoKey]]
    BY <1>1, <1>3, <2>1, <2>4, ImagesAssumption DEF Base, TypeOK
  <2>5. CASE product' = [product EXCEPT ![req[r].p] = SoftDelete(@)]
    BY <1>3, <2>1, <2>5 DEF SoftDelete, Base, TypeOK, ProductRow
  <2> QED BY <1>1, <1>3, <2>1, <2>2, <2>3, <2>4, <2>5 DEF ProductStep
<1>4. ASSUME NEW s \in Requests, Active(s)', req'[s].row = req[q].key
      PROVE  req[q].op = "upload" /\ req'[s].p = req[q].p
  <2>1. CASE s # r
    BY <1>4, <2>1 DEF OwnUpload, Active
  <2>2. CASE s = r /\ req'[r].row = req[r].row /\ req'[r].p = req[r].p /\ Active(r)
    BY <1>4, <2>2 DEF OwnUpload
  <2>3. CASE s = r /\ Finds(r)
    <3>1. /\ req[r].p \in Products /\ product[req[r].p].key = req[q].key
          /\ req'[r].p = req[r].p
      BY <1>4, <2>3 DEF Finds, Carries, Base, Shape, Active
    <3> QED BY <2>3, <3>1 DEF OwnUpload
  <2>4. CASE s = r /\ Arrived(r)
    BY <1>1, <1>4, <2>4, ImagesAssumption DEF Arrived
  <2>5. s = r => Advances(r)
    BY <1>4, StepOfSlot DEF Base
  <2> QED BY <2>1, <2>2, <2>3, <2>4, <2>5
          DEF Advances, Loads, FindsImage, RemovesOne, Puts, Saves, Fumbles, Carries, Active
<1>5. image'[req[q].key].st # "absent" =>
         req[q].op = "addimage" /\ image'[req[q].key].product = req[q].p
  <2>1. CASE image[req[q].key].st # "absent"
    BY <1>1, <2>1, RowsPersist DEF OwnUpload, Base
  <2>2. CASE image[req[q].key].st = "absent"
    <3>1. req[r].pc = "save" /\ req[r].op = "addimage" => Uploading(r)
      BY DEF Uploading, Active, Uploads
    <3> QED BY <1>1, <1>2, <2>2, <3>1 DEF ImageStep, SoftDelete, Base, TypeOK
  <2> QED BY <2>1, <2>2
<1> QED BY <1>1, <1>3, <1>4, <1>5 DEF OwnUpload

LEMMA TargetsNext == Base /\ Targets /\ [Next]_vars => Targets'
<1> SUFFICES ASSUME Base, Targets, [Next]_vars PROVE Targets'
  OBVIOUS
<1>1. CASE UNCHANGED vars
  BY <1>1 DEF vars, Targets, OwnUpload, Active
<1>2. CASE Restart
  BY <1>2 DEF Restart, Targets, Idle, Slot
<1>3. ASSUME NEW r \in Requests, Step(r), \A s \in Requests : s # r => req'[s] = req[s],
             NEW q \in Requests
      PROVE  /\ req'[q].pc = "remove" /\ req'[q].op = "delimage" =>
                   \A k \in req'[q].keys : image'[k].product = req'[q].p
             /\ req'[q].pc = "rollback" => OwnUpload(q)'
  <2>1. CASE q # r
    <3>1. ASSUME req[q].pc = "remove", req[q].op = "delimage", NEW k \in req[q].keys
          PROVE  image'[k].product = req[q].p
      <4>1. k \in Keys /\ image[k].st # "absent" /\ image[k].product = req[q].p
        BY <3>1 DEF Base, AllErrands, Errands, Active, Targets
      <4> QED BY <1>3, <4>1, RowsPersist DEF Base
    <3> QED BY <1>3, <2>1, <3>1, OthersSpareUpload DEF Targets
  <2>2. CASE q = r /\ ~Advances(r)
    BY <1>3, <2>2, StepOfSlot DEF Base, Active
  <2>3. CASE q = r /\ Fumbles(r)
    BY <1>3, <2>3, FumbleOwn DEF Fumbles, Carries
  <2>4. CASE q = r /\ (Arrived(r) \/ Finds(r) \/ Puts(r) \/ Saves(r))
    BY <2>4 DEF Arrived, Finds, Puts, Saves, Carries
  <2>5. CASE q = r /\ Loads(r)
    <3>1. req[r].op # "delimage" /\ req[r].op \in AllOps
      BY <2>5 DEF Loads, Base, AllErrands, Errands, Active, Shape
    <3> QED BY <2>5, <3>1, AfterLoadType DEF Loads, Carries
  <2>6. CASE q = r /\ FindsImage(r)
    BY <2>6 DEF FindsImage, Carries, Gallery
  <2>7. ASSUME q = r, NEW k \in Keys, RemovesOne(r, k)
        PROVE  /\ req'[r].pc = "remove" /\ req'[r].op = "delimage" =>
                     \A j \in req'[r].keys : image'[j].product = req'[r].p
               /\ req'[r].pc # "rollback"
    <3>1. req[r].op \in AllOps
      BY <2>7 DEF RemovesOne, Base, Shape, Active
    <3> QED BY <2>7, <3>1, AfterRemoveType DEF RemovesOne, Carries, Targets
  <2> QED BY <2>1, <2>2, <2>3, <2>4, <2>5, <2>6, <2>7 DEF Advances
<1> QED BY <1>1, <1>2, <1>3, StepCases DEF Base, Targets

\* One step removes what belongs to the request's product, if to any.
LEMMA ContainedStep ==
    ASSUME Base, Targets, [Next]_vars, NEW k \in objects \ objects'
    PROVE  \E r \in Requests :
              /\ req[r].pc \in {"remove", "rollback"} /\ req'[r] # req[r]
              /\ \A p \in Products : product[p].key = k => p = req[r].p
              /\ image[k].st # "absent" => image[k].product = req[r].p /\ req[r].op # "upload"
<1>1. PICK r \in Requests : Step(r)
  BY StepCases DEF Base, vars, Restart
<1>2. ObjectStep(r) /\ k \in Keys
  BY <1>1, StoreSteps DEF Base, TypeOK
<1>3. CASE req[r].pc = "rollback"
  <2>1. k = req[r].key /\ req'[r] # req[r]
    BY <1>2, <1>3 DEF ObjectStep, RemovesOne, Delete, Active
  <2>2. OwnUpload(r)
    BY <1>3 DEF Targets
  <2> QED BY <1>3, <2>1, <2>2 DEF OwnUpload
<1>4. CASE req[r].pc = "remove"
  <2>1. /\ RemovesOne(r, k) /\ Active(r) /\ Errands(r) /\ req[r].p \in Products
        /\ req[r].op \in AllOps
    BY <1>2, <1>4 DEF ObjectStep, RemovesOne, Delete, Active, Base, AllErrands, Shape
  <2>2. \/ k = req[r].row
        \/ image[k].st # "absent" /\ image[k].product = req[r].p /\ req[r].op # "upload"
    BY <1>4, <2>1 DEF RemovesOne, Errands, Targets
  <2>3. req'[r] # req[r]
    BY <1>4, <2>1, AfterRemoveType DEF RemovesOne, Carries, Errands
  <2>4. CASE k = req[r].row
    <3>1. Claims(req[r].p, k)
      BY <2>4 DEF Claims
    <3> QED BY <1>2, <1>4, <2>1, <2>3, <3>1
            DEF Base, Ownership, ClaimUnique, ClaimNoImage, Claims
  <2>5. CASE image[k].st # "absent" /\ image[k].product = req[r].p /\ req[r].op # "upload"
    BY <1>2, <1>4, <2>3, <2>5 DEF Base, Ownership, ClaimNoImage, Claims
  <2> QED BY <2>2, <2>4, <2>5
<1> QED BY <1>2, <1>3, <1>4 DEF ObjectStep, RemovesOne

\* A removal harms no product but the one its request is about, and the upload of a
\* cover no gallery.
THEOREM RemovalsAreContained == Spec => RemovalsContained
<1>1. Init => Targets
  BY DEF Init, Targets, Idle, Slot
<1>2. Base /\ Targets /\ [Next]_vars => Targets'
  BY TargetsNext
<1>3. Base /\ Targets /\ [Next]_vars =>
        [\A k \in objects \ objects' : \E r \in Requests :
          /\ req[r].pc \in {"remove", "rollback"} /\ req'[r] # req[r]
          /\ \A p \in Products : product[p].key = k => p = req[r].p
          /\ image[k].st # "absent" => image[k].product = req[r].p /\ req[r].op # "upload"]_vars
  BY ContainedStep
<1> QED BY <1>1, <1>2, <1>3, BaseInvariant, PTL DEF Spec, RemovalsContained

-----------------------------------------------------------------------------
(***************************************************************************)
(* One request at a time.  The slot in use is then the only one, and what  *)
(* its handler has read is still what the tables say.                      *)
(***************************************************************************)
Alone == Serial => \A q, r \in Requests : q # r => req[q].pc = "idle" \/ req[r].pc = "idle"

FreshProduct(r) ==
    req[r].op # "delimage" /\ req[r].pc \in {"preload", "remove", "put", "save", "dbdelete"} =>
        /\ product[req[r].p].st = "live" /\ req[r].row = product[req[r].p].key
        /\ req[r].op = "addimage" /\ req[r].pc \in {"put", "save"} =>
              req[r].keys = Gallery(req[r].p)

Settled == Serial => \A r \in Requests : FreshProduct(r)

\* Where the load is one request, one starts only when all slots are idle.
LEMMA StartsAlone ==
    ASSUME Serial, NEW r \in Requests, NEW op, CanStart(r, op)
    PROVE  \A q \in Requests : req[q].pc = "idle"
<1> DEFINE Busy == {q \in Requests : req[q].pc # "idle"}
<1>1. IsFiniteSet(Busy) /\ Cardinality(Busy) \in Nat
  BY ImagesAssumption, FS_Subset, FS_CardinalityType
<1>2. Cardinality(Busy) < 1
  BY DEF CanStart, Serial
<1>3. Cardinality(Busy) = 0
  BY <1>1, <1>2
<1>4. Busy = {}
  BY <1>1, <1>3, FS_EmptySet
<1> QED BY <1>4

\* An idle slot does nothing but start.
LEMMA IdleStarts ==
    ASSUME NEW r \in Requests, Step(r), req[r].pc = "idle"
    PROVE  \E op : CanStart(r, op)
<1>1. \/ ArriveOnProduct(r) \/ ArriveUpload(r) \/ ArriveDeleteImage(r) \/ CreateProduct(r)
  BY DEF Step, FindProduct, LoadGallery, RefuseRequest, FindImage, RemoveObject, PutObject,
     SaveUpdate, SaveCover, InsertImage, Rollback, DeleteProduct, DeleteImageRow, Present, Receive
<1> QED BY <1>1 DEF ArriveOnProduct, ArriveUpload, ArriveDeleteImage, CreateProduct, Start

\* Every other slot is idle when one takes a step.
LEMMA OnlyActor ==
    ASSUME Serial, Alone, NEW r \in Requests, Step(r)
    PROVE  \A q \in Requests : q # r => req[q].pc = "idle"
<1>1. CASE req[r].pc = "idle"
  BY <1>1, IdleStarts, StartsAlone
<1>2. CASE req[r].pc # "idle"
  BY <1>2 DEF Alone
<1> QED BY <1>1, <1>2

\* Every step keeps the requests one at a time and what they have read true.
LEMMA SettledNext ==
    ASSUME Base, Alone, Settled, [Next]_vars, TypeOK', Shape'
    PROVE  Alone' /\ Settled'
<1> USE DEF Base
<1>0. Serial' <=> Serial
  BY StepCases DEF Serial
<1>1. CASE UNCHANGED vars
  BY <1>1 DEF vars, Alone, Settled, Serial, FreshProduct, Gallery
<1>2. CASE Restart
  BY <1>2 DEF Restart, Alone, Settled, FreshProduct, Idle, Slot
<1>3. ASSUME Serial, NEW r \in Requests, Step(r), \A q \in Requests : q # r => req'[q] = req[q]
      PROVE  Alone' /\ Settled'
  <2>1. \A q \in Requests : q # r => req'[q].pc = "idle"
    BY <1>3, OnlyActor
  <2>2. ASSUME Active(r)' PROVE FreshProduct(r)'
    <3>a. Advances(r)
      BY <1>3, <2>2, StepOfSlot
    <3>s. FreshProduct(r)
      BY <1>3 DEF Settled
    <3>t. req[r] \in Request /\ req'[r] \in Request
      BY DEF TypeOK
    <3>e. Active(r) => Errands(r)
      BY DEF AllErrands
    <3>1. CASE Arrived(r) \/ FindsImage(r) \/ Saves(r) \/ Fumbles(r)
      BY <3>1, <3>e DEF Arrived, FindsImage, Saves, Fumbles, Carries, FreshProduct, Errands, Active
    <3>2. CASE Finds(r)
      BY <3>2 DEF Finds, Carries, Found, FreshProduct
    <3>3. CASE Loads(r)
      <4>1. req[r].op = "addimage" => Loaded(r) = Gallery(req[r].p)
        BY DEF Loaded
      <4>2. Gallery(req[r].p)' = Gallery(req[r].p)
        BY <3>3 DEF Loads, Carries, Gallery
      <4> QED BY <3>3, <3>s, <4>1, <4>2 DEF Loads, Carries, FreshProduct
    <3>4. ASSUME NEW k \in Keys, RemovesOne(r, k) PROVE FreshProduct(r)'
      <4>1. req[r].op \in {"upload", "delete", "delimage"}
        BY <3>4, <3>e DEF RemovesOne, Errands, Active
      <4> QED BY <3>4, <3>s, <4>1 DEF RemovesOne, Carries, FreshProduct
    <3>5. CASE Puts(r)
      <4>1. Gallery(req[r].p)' = Gallery(req[r].p)
        BY <3>5 DEF Puts, Carries, Gallery
      <4> QED BY <3>5, <3>s, <4>1 DEF Puts, Carries, FreshProduct
    <3> QED BY <3>a, <3>1, <3>2, <3>3, <3>4, <3>5 DEF Advances
  <2>3. \A q \in Requests : ~Active(q)' => FreshProduct(q)'
    BY DEF FreshProduct, Active
  <2>4. \A q \in Requests : FreshProduct(q)'
    BY <2>1, <2>2, <2>3 DEF Active
  <2> QED BY <2>1, <2>4 DEF Alone, Settled
<1>4. CASE ~Serial
  BY <1>0, <1>4 DEF Alone, Settled
<1> QED BY <1>1, <1>2, <1>3, <1>4, StepCases

LEMMA SettledInvariant == Spec => [](Base /\ Alone /\ Settled)
<1>1. ASSUME Init PROVE Alone /\ Settled
  BY <1>1 DEF Init, Alone, Settled, FreshProduct, Idle, Slot
<1>2. Base /\ Alone /\ Settled /\ [Next]_vars /\ Base' => Alone' /\ Settled'
  BY SettledNext DEF Base
<1> QED BY <1>1, <1>2, BaseInvariant, PTL DEF Spec

-----------------------------------------------------------------------------
(***************************************************************************)
(* Deleted products.                                                       *)
(***************************************************************************)
Calm == Serial \/ NoSaves

\* Where requests do not overlap, or none Saves, only an INSERT makes a row live.
LEMMA LiveStep ==
    ASSUME Base, Settled, NEW r \in Requests, Step(r), Calm, NEW p \in Products,
           product[p].st # "live", product'[p].st = "live"
    PROVE  /\ product[p].st = "absent" /\ product'[p].key = NoKey
           /\ CanStart(r, "create") /\ UNCHANGED <<image, objects>>
<1> USE DEF Base
<1>0. ProductStep(r) /\ ImageStep(r) /\ ObjectStep(r)
  BY StoreSteps
<1>1. ~(req[r].pc = "save" /\ req[r].op \in {"update", "upload"} /\ req[r].p = p)
  <2> SUFFICES ASSUME req[r].pc = "save", req[r].op \in {"update", "upload"}, req[r].p = p
               PROVE FALSE
    OBVIOUS
  <2>1. ~NoSaves
    BY DEF AllErrands, Errands, Active, NoSaves
  <2>2. product[p].st = "live"
    BY <2>1 DEF Settled, FreshProduct, Calm
  <2> QED BY <2>2
<1>2. CASE /\ CanStart(r, "create")
           /\ \E q \in Vacant : product' = [product EXCEPT ![q] = [st |-> "live", key |-> NoKey]]
  <2>1. product[p].st = "absent" /\ product'[p].key = NoKey
    BY <1>2 DEF Vacant, TypeOK
  <2>2. UNCHANGED <<image, objects>>
    BY <1>0, <1>2 DEF CanStart, ImageStep, ObjectStep, RemovesOne
  <2> QED BY <1>2, <2>1, <2>2
<1>3. CASE ~(/\ CanStart(r, "create")
             /\ \E q \in Vacant : product' = [product EXCEPT ![q] = [st |-> "live", key |-> NoKey]])
  BY <1>0, <1>1, <1>3 DEF ProductStep, GormSave, SoftDelete, TypeOK, ProductRow
<1> QED BY <1>2, <1>3

\* Where requests come one at a time, whatever fails, and where none of them Saves a
\* row, a deleted product stays deleted.
THEOREM DeletionsLast == Spec => DeletedStaysDeleted
<1>1. ASSUME Base, Settled, [Next]_vars, Base'
      PROVE  Serial \/ NoSaves =>
                \A p \in Products : product[p].st = "deleted" => product'[p].st = "deleted"
  <2> SUFFICES ASSUME Calm, NEW p \in Products, product[p].st = "deleted"
               PROVE product'[p].st = "deleted"
    BY DEF Calm
  <2>1. CASE UNCHANGED product
    BY <2>1
  <2>2. ASSUME NEW r \in Requests, Step(r) PROVE product'[p].st = "deleted"
    <3>1. product'[p].st # "live"
      BY <1>1, <2>2, LiveStep
    <3>2. product'[p].st # "absent"
      BY <1>1, <2>2, RowsPersist DEF Base
    <3>3. product'[p].st \in RowStatus
      BY <1>1 DEF Base, TypeOK, ProductRow
    <3> QED BY <3>1, <3>2, <3>3 DEF RowStatus
  <2> QED BY <1>1, <2>1, <2>2, StepCases DEF Base, vars, Restart
<1>2. Base /\ Settled /\ [Next]_vars /\ Base' =>
         [Serial \/ NoSaves =>
             \A p \in Products : product[p].st = "deleted" => product'[p].st = "deleted"]_vars
  BY <1>1
<1> QED BY <1>2, SettledInvariant, PTL DEF Spec, DeletedStaysDeleted

-----------------------------------------------------------------------------
(***************************************************************************)
(* Missing objects.  A key a client can reach has its object, except while *)
(* the request that removed the object is about to remove the row, too.    *)
(***************************************************************************)
\* What a slot does at its line.
LEMMA AtLine ==
    ASSUME NEW r \in Requests, Step(r)
    PROVE  /\ req[r].pc = "remove" => RemoveObject(r)
           /\ req[r].pc = "put" => PutObject(r)
           /\ req[r].pc = "save" => SaveUpdate(r) \/ SaveCover(r) \/ InsertImage(r)
           /\ req[r].pc = "rollback" => Rollback(r)
           /\ req[r].pc = "dbdelete" => DeleteProduct(r)
           /\ req[r].pc = "dbdeleteimage" => DeleteImageRow(r)
<1>1. \/ ArriveOnProduct(r) \/ ArriveUpload(r) \/ ArriveDeleteImage(r) \/ CreateProduct(r)
         => req[r].pc = "idle"
  BY DEF ArriveOnProduct, ArriveUpload, ArriveDeleteImage, CreateProduct, Start, CanStart
<1>2. /\ FindProduct(r) => req[r].pc = "find"
      /\ LoadGallery(r) \/ RefuseRequest(r) => req[r].pc = "preload"
      /\ FindImage(r) => req[r].pc = "findimage"
      /\ Present(r) => req[r].pc = "present"
      /\ Receive(r) => req[r].pc = "done"
  BY DEF FindProduct, LoadGallery, RefuseRequest, FindImage, Present, Receive
<1>3. /\ RemoveObject(r) => req[r].pc = "remove"
      /\ PutObject(r) => req[r].pc = "put"
      /\ SaveUpdate(r) \/ SaveCover(r) \/ InsertImage(r) => req[r].pc = "save"
      /\ Rollback(r) => req[r].pc = "rollback"
      /\ DeleteProduct(r) => req[r].pc = "dbdelete"
      /\ DeleteImageRow(r) => req[r].pc = "dbdeleteimage"
  BY DEF RemoveObject, PutObject, SaveUpdate, SaveCover, InsertImage, Rollback, DeleteProduct,
     DeleteImageRow
<1> QED BY <1>1, <1>2, <1>3 DEF Step

\* With a bucket, a handler that removes objects goes on to remove or to its next line.
LEMMA RemovalGoesOn ==
    ASSUME TypeOK, NEW r \in Requests, Step(r), req[r].pc = "remove", storage
    PROVE  \E k \in Keys : RemovesOne(r, k)
<1>1. PICK k \in NextKeys(r) : Delete(k) /\ req' = [req EXCEPT ![r] = Removed(r, k)]
  BY AtLine DEF RemoveObject, Panics
<1>2. UNCHANGED <<product, image, storage>>
  BY AtLine DEF RemoveObject
<1>3. k \in req[r].keys /\ k \in Keys /\ req \in [Requests -> Request] /\ req[r] \in Request
  BY DEF NextKeys, TypeOK, Request
<1>4. RemovesOne(r, k)
  BY <1>1, <1>2, <1>3 DEF RemovesOne, Removed, Carries, Request
<1> QED BY <1>3, <1>4

\* A product with a row is live after a step only if it was before.
LEMMA StillLive ==
    ASSUME Base, Settled, NEW r \in Requests, Step(r), Calm \/ "delete" \notin Ops,
           NEW p \in Products, product[p].st # "absent", product'[p].st = "live"
    PROVE  product[p].st = "live"
<1>1. product[p].st \in RowStatus
  BY DEF Base, TypeOK, ProductRow
<1> QED BY <1>1, LiveStep DEF Base, NotAsked, RowStatus

\* A removed object is a cover its handler read, or a gallery image.
LEMMA RemovedIsOwn ==
    ASSUME Base, NEW r \in Requests, NEW k \in Keys, RemovesOne(r, k)
    PROVE  \/ /\ req[r].op = "upload" /\ k = req[r].row
              /\ req'[r].pc \in {"remove", "put"}
           \/ /\ req[r].op = "delete"
              /\ k = req[r].row \/ (image[k].st # "absent" /\ image[k].product = req[r].p)
              /\ req'[r].pc \in {"remove", "dbdelete"}
           \/ /\ req[r].op = "delimage" /\ req[r].keys = {k} /\ image[k].st # "absent"
              /\ req'[r].pc = "dbdeleteimage"
<1>1. Errands(r) /\ req[r].pc = "remove" /\ k \in req[r].keys
  BY DEF Base, AllErrands, Active, RemovesOne
<1>2. CASE req[r].op = "upload"
  BY <1>1, <1>2 DEF Errands, RemovesOne, Carries, AfterRemove
<1>3. CASE req[r].op = "delete"
  BY <1>1, <1>3 DEF Errands, RemovesOne, Carries, AfterRemove
<1>4. CASE req[r].op = "delimage"
  BY <1>1, <1>4 DEF Errands, RemovesOne, Carries, AfterRemove
<1> QED BY <1>1, <1>2, <1>3, <1>4 DEF Errands

Deleting(r, p, k) ==
    \/ req[r].pc = "dbdeleteimage" /\ k \in req[r].keys
    \/ req[r].op = "delete" /\ req[r].p = p /\ req[r].pc \in {"remove", "dbdelete"}

GalleryCalm == /\ {"db", "commit", "restart"} \cap Events = {}
               /\ Calm \/ "delete" \notin Ops

GalleryKept ==
    GalleryCalm =>
        \A p \in Products : product[p].st = "live" =>
            \A k \in Gallery(p) \ objects : \E r \in Requests : Deleting(r, p, k)

\* A gallery row that is live was so before the step, or its object is stored.
LEMMA GalleryGrows ==
    ASSUME Base, NEW r \in Requests, Step(r), NEW p \in Products, NEW k \in Keys,
           k \in Gallery(p)', k \notin objects'
    PROVE  k \in Gallery(p) /\ product[p].st # "absent"
<1> USE DEF Base
<1>1. ImageStep(r) /\ ObjectStep(r)
  BY StoreSteps
<1>2. image'[k].st = "live" /\ image'[k].product = p
  BY DEF Gallery
<1>3. CASE req[r].pc = "save" /\ req[r].op = "addimage"
  <2>1. UNCHANGED objects
    BY <1>1, <1>3 DEF ObjectStep, RemovesOne
  <2>2. k # req[r].key
    BY <1>3, <2>1, InsertsNew
  <2> QED BY <1>1, <1>2, <1>3, <2>2 DEF ImageStep, TypeOK, Gallery, ImageRows
<1>4. CASE ~(req[r].pc = "save" /\ req[r].op = "addimage")
  BY <1>1, <1>2, <1>4 DEF ImageStep, SoftDelete, TypeOK, ImageRow, Gallery, ImageRows
<1> QED BY <1>3, <1>4

\* The request about to remove the row stays so until it has.
LEMMA DeletingGoesOn ==
    ASSUME Base, NEW r \in Requests, Step(r), {"db", "commit", "restart"} \cap Events = {},
           NEW p \in Products, NEW k \in Keys, k \in Gallery(p), k \in Gallery(p)',
           product'[p].st = "live", Deleting(r, p, k)
    PROVE  Deleting(r, p, k)'
<1> USE DEF Base
<1>1. CASE req[r].pc = "dbdeleteimage" /\ k \in req[r].keys
  <2>1. image' = [j \in Keys |-> IF j \in req[r].keys THEN SoftDelete(image[j]) ELSE image[j]]
    BY <1>1, AtLine DEF DeleteImageRow, Fails
  <2>2. image'[k].st # "live"
    BY <1>1, <2>1 DEF SoftDelete, TypeOK, ImageRow
  <2> QED BY <2>2 DEF Gallery
<1>2. CASE req[r].op = "delete" /\ req[r].p = p /\ req[r].pc = "remove"
  <2>1. storage
    BY DEF NotAsked, Gallery
  <2>2. PICK j \in Keys : RemovesOne(r, j)
    BY <1>2, <2>1, RemovalGoesOn
  <2> QED BY <1>2, <2>2, RemovedIsOwn DEF RemovesOne, Carries, Deleting
<1>3. CASE req[r].op = "delete" /\ req[r].p = p /\ req[r].pc = "dbdelete"
  <2>1. product' = [product EXCEPT ![p] = SoftDelete(@)]
    BY <1>3, AtLine DEF DeleteProduct, Fails
  <2>2. product'[p].st # "live"
    BY <2>1 DEF SoftDelete, TypeOK, ProductRow
  <2> QED BY <2>2
<1> QED BY <1>1, <1>2, <1>3 DEF Deleting

\* The object of a live gallery row is removed by the request that deletes the row.
LEMMA GalleryRemoval ==
    ASSUME Base, NEW r \in Requests, Step(r), {"db", "commit"} \cap Events = {},
           NEW p \in Products, NEW k \in Keys, k \in Gallery(p), k \in objects, k \notin objects'
    PROVE  Deleting(r, p, k)'
<1> USE DEF Base
<1>1. ObjectStep(r)
  BY StoreSteps
<1>2. req[r].pc # "rollback"
  BY DEF AllErrands, Errands, Active
<1>3. PICK j \in Keys : RemovesOne(r, j)
  BY <1>1, <1>2 DEF ObjectStep
<1>4. k = j
  BY <1>3 DEF RemovesOne, Delete
<1>5. image[k].st = "live" /\ image[k].product = p /\ req[r].p \in Products
  BY <1>3 DEF Gallery, RemovesOne, Shape, Active
<1>6. k # req[r].row
  BY <1>5 DEF Ownership, ClaimNoImage, Claims
<1>7. CASE req[r].op = "delete"
  BY <1>3, <1>4, <1>5, <1>6, <1>7, RemovedIsOwn DEF RemovesOne, Carries, Deleting
<1>8. CASE req[r].op = "delimage"
  BY <1>3, <1>4, <1>8, RemovedIsOwn DEF RemovesOne, Carries, Deleting
<1> QED BY <1>3, <1>4, <1>6, <1>7, <1>8, RemovedIsOwn

LEMMA GalleryKeptNext ==
    ASSUME Base, Alone, Settled, GalleryKept, [Next]_vars
    PROVE  GalleryKept'
<1>0. GalleryCalm' <=> GalleryCalm
  BY StepCases DEF Base, GalleryCalm, Calm, Serial, NoSaves, Ops, Events
<1>1. CASE UNCHANGED vars
  BY <1>1 DEF vars, GalleryKept, GalleryCalm, Calm, Serial, NoSaves, Ops, Events, Gallery, Deleting
<1>2. CASE Restart
  BY <1>0, <1>2 DEF Restart, GalleryKept, GalleryCalm
<1>3. ASSUME GalleryCalm, NEW r \in Requests, Step(r),
             \A q \in Requests : q # r => req'[q] = req[q],
             NEW p \in Products, product'[p].st = "live", NEW k \in Gallery(p)', k \notin objects'
      PROVE  \E q \in Requests : Deleting(q, p, k)'
  <2>0. k \in Keys
    BY DEF Gallery
  <2>1. k \in Gallery(p) /\ product[p].st # "absent"
    BY <1>3, <2>0, GalleryGrows
  <2>2. product[p].st = "live"
    BY <1>3, <2>1, StillLive DEF GalleryCalm
  <2>3. CASE k \in objects
    BY <1>3, <2>0, <2>1, <2>3, GalleryRemoval DEF GalleryCalm
  <2>4. CASE k \notin objects
    <3>1. PICK q \in Requests : Deleting(q, p, k)
      BY <1>3, <2>1, <2>2, <2>4 DEF GalleryKept
    <3>2. CASE q = r
      BY <1>3, <2>0, <2>1, <3>1, <3>2, DeletingGoesOn DEF GalleryCalm
    <3>3. CASE q # r
      BY <1>3, <3>1, <3>3 DEF Deleting
    <3> QED BY <3>2, <3>3
  <2> QED BY <2>3, <2>4
<1> QED BY <1>0, <1>1, <1>2, <1>3, StepCases DEF Base, GalleryKept

LEMMA GalleryKeptInvariant == Spec => [](Base /\ Alone /\ Settled /\ GalleryKept)
<1>1. Init => GalleryKept
  BY DEF Init, GalleryKept
<1>2. Base /\ Alone /\ Settled /\ GalleryKept /\ [Next]_vars => GalleryKept'
  BY GalleryKeptNext
<1> QED BY <1>1, <1>2, SettledInvariant, PTL DEF Spec

\* Where database calls do not fail and no product is deleted, a reachable gallery image
\* has its object unless a DeleteImage is between its two steps.
THEOREM GalleriesIntact == Spec => []GalleryIntact
<1>1. ASSUME Base, GalleryKept PROVE GalleryIntact
  <2> SUFFICES ASSUME {"db", "commit", "restart"} \cap Events = {}, "delete" \notin Ops,
                      NEW p \in Products, product[p].st = "live", NEW k \in Gallery(p) \ objects
               PROVE  \E r \in Requests : req[r].pc = "dbdeleteimage" /\ k \in req[r].keys
    BY DEF GalleryIntact
  <2>1. PICK r \in Requests : Deleting(r, p, k)
    BY <1>1 DEF GalleryKept, GalleryCalm
  <2>2. ~(req[r].op = "delete" /\ req[r].pc \in {"remove", "dbdelete"})
    BY <1>1 DEF Base, AllErrands, Errands, Active
  <2> QED BY <2>1, <2>2 DEF Deleting
<1> QED BY <1>1, GalleryKeptInvariant, PTL

\* The request that replaces or deletes the cover of p, and its row.
Replacing(r, p) ==
    /\ req[r].p = p
    /\ \/ req[r].op = "delete" /\ req[r].pc \in {"remove", "dbdelete"}
       \/ req[r].op = "upload" /\ req[r].pc \in {"remove", "put", "save"}

CoverCalm == Serial /\ Events \subseteq {"remove"}

CoverKept ==
    CoverCalm =>
        \A p \in Products : product[p].st = "live" /\ product[p].key \notin objects \cup {NoKey} =>
            \E r \in Requests : Replacing(r, p)

\* Where requests come one at a time a row only gets a new cover from an upload, whose
\* object is stored.
LEMMA CoverChanges ==
    ASSUME Base, Settled, Serial, NEW r \in Requests, Step(r), NEW p \in Products,
           product'[p].st = "live", product'[p].key \notin objects' \cup {NoKey}
    PROVE  product[p].st = "live" /\ product'[p].key = product[p].key
<1> USE DEF Base
<1>1. ProductStep(r) /\ ObjectStep(r)
  BY StoreSteps
<1>2. product[p].st = "live"
  BY LiveStep DEF Calm
<1>3. CASE req[r].pc = "save" /\ req[r].op = "update"
  BY <1>1, <1>2, <1>3 DEF Settled, FreshProduct, ProductStep, GormSave, TypeOK, CanStart
<1>4. CASE req[r].pc = "save" /\ req[r].op = "upload"
  <2>1. UNCHANGED objects /\ req[r].key \in objects
    BY <1>1, <1>4
    DEF ObjectStep, RemovesOne, Ownership, HeldStored, Uploading, Active, Uploads
  <2> QED BY <1>1, <1>2, <1>4, <2>1 DEF ProductStep, GormSave, TypeOK, CanStart
<1>5. CASE ~(req[r].pc = "save" /\ req[r].op \in {"update", "upload"})
  BY <1>1, <1>2, <1>5 DEF ProductStep, SoftDelete, TypeOK, ProductRow, Vacant
<1> QED BY <1>2, <1>3, <1>4, <1>5

\* A cover's object is removed by the request that goes on to its row.
LEMMA CoverRemoval ==
    ASSUME Base, Settled, Serial, {"db", "commit"} \cap Events = {},
           NEW r \in Requests, Step(r), NEW p \in Products, NEW k \in Keys,
           product[p].key = k, k \in objects, k \notin objects'
    PROVE  Replacing(r, p)'
<1> USE DEF Base
<1>1. ObjectStep(r)
  BY StoreSteps
<1>2. req[r].pc # "rollback"
  BY DEF AllErrands, Errands, Active
<1>3. PICK j \in Keys : RemovesOne(r, j)
  BY <1>1, <1>2 DEF ObjectStep
<1>4. k = j
  BY <1>3 DEF RemovesOne, Delete
<1>5. Claims(p, k) /\ image[k].st = "absent"
  BY DEF Claims, Ownership, ClaimNoImage
<1>6. k = req[r].row /\ req[r].op \in {"upload", "delete"}
  BY <1>3, <1>4, <1>5, RemovedIsOwn
<1>7. req[r].p \in Products /\ Claims(req[r].p, k)
  BY <1>3, <1>6 DEF Claims, RemovesOne, Shape, Active
<1>8. req[r].p = p
  BY <1>5, <1>7 DEF Ownership, ClaimUnique
<1>9. req'[r].p = p /\ req'[r].op = req[r].op
  BY <1>3, <1>8 DEF RemovesOne, Carries
<1> QED BY <1>3, <1>4, <1>6, <1>9, RemovedIsOwn DEF Replacing

\* The request that replaces a cover stays at it until the row has the new one.
LEMMA ReplacingGoesOn ==
    ASSUME Base, CoverCalm, NEW r \in Requests, Step(r), NEW p \in Products,
           product'[p].st = "live", product'[p].key \notin objects', Replacing(r, p)
    PROVE  Replacing(r, p)'
<1> USE DEF Base
<1>1. storage /\ req \in [Requests -> Request]
  BY DEF CoverCalm, NotAsked, TypeOK
<1>2. CASE req[r].pc = "remove"
  <2>1. PICK j \in Keys : RemovesOne(r, j)
    BY <1>1, <1>2, RemovalGoesOn
  <2> QED BY <2>1, RemovedIsOwn DEF RemovesOne, Carries, Replacing
<1>3. CASE req[r].pc = "put"
  <2>1. req' = [req EXCEPT ![r].pc = "save"]
    BY <1>1, <1>3, AtLine DEF PutObject, CoverCalm, Panics, Goto
  <2>2. req'[r].pc = "save" /\ req'[r].p = req[r].p /\ req'[r].op = req[r].op
    BY <1>1, <2>1 DEF Request
  <2> QED BY <1>3, <2>2 DEF Replacing
<1>4. CASE req[r].pc = "save" /\ req[r].op = "upload" /\ req[r].p = p
  <2>1. GormSave(p, req[r].key) /\ UNCHANGED objects
    BY <1>4, AtLine DEF SaveCover, SaveUpdate, InsertImage, Fails, CoverCalm
  <2>2. req[r].key \in objects
    BY <1>4 DEF Ownership, HeldStored, Uploading, Active, Uploads
  <2> QED BY <2>1, <2>2 DEF GormSave, TypeOK
<1>5. CASE req[r].pc = "dbdelete" /\ req[r].p = p
  <2>1. product' = [product EXCEPT ![p] = SoftDelete(@)]
    BY <1>5, AtLine DEF DeleteProduct, Fails, CoverCalm
  <2>2. product'[p].st # "live"
    BY <2>1 DEF SoftDelete, TypeOK, ProductRow
  <2> QED BY <2>2
<1> QED BY <1>2, <1>3, <1>4, <1>5 DEF Replacing

LEMMA CoverKeptNext ==
    ASSUME Base, Alone, Settled, CoverKept, [Next]_vars
    PROVE  CoverKept'
<1>0. CoverCalm' <=> CoverCalm
  BY StepCases DEF Base, CoverCalm, Serial, Events
<1>1. CASE UNCHANGED vars
  BY <1>1 DEF vars, CoverKept, CoverCalm, Serial, Events, Replacing
<1>2. CASE Restart
  BY <1>0, <1>2 DEF Restart, CoverKept, CoverCalm
<1>3. ASSUME CoverCalm, NEW r \in Requests, Step(r),
             \A q \in Requests : q # r => req'[q] = req[q],
             NEW p \in Products, product'[p].st = "live",
             product'[p].key \notin objects' \cup {NoKey}
      PROVE  \E q \in Requests : Replacing(q, p)'
  <2>1. product[p].st = "live" /\ product'[p].key = product[p].key
    BY <1>3, CoverChanges DEF CoverCalm
  <2>2. product[p].key \in Keys
    BY <1>3, <2>1 DEF Base, TypeOK, ProductRow
  <2>3. CASE product[p].key \in objects
    BY <1>3, <2>1, <2>2, <2>3, CoverRemoval DEF CoverCalm
  <2>4. CASE product[p].key \notin objects
    <3>1. PICK q \in Requests : Replacing(q, p)
      BY <1>3, <2>1, <2>4 DEF CoverKept
    <3>2. CASE q = r
      BY <1>3, <2>1, <3>1, <3>2, ReplacingGoesOn
    <3>3. CASE q # r
      BY <1>3, <3>1, <3>3 DEF Replacing
    <3> QED BY <3>2, <3>3
  <2> QED BY <2>3, <2>4
<1> QED BY <1>0, <1>1, <1>2, <1>3, StepCases DEF Base, CoverKept

LEMMA CoverKeptInvariant == Spec => []CoverKept
<1>1. Init => CoverKept
  BY DEF Init, CoverKept
<1>2. Base /\ Alone /\ Settled /\ CoverKept /\ [Next]_vars => CoverKept'
  BY CoverKeptNext
<1> QED BY <1>1, <1>2, SettledInvariant, PTL DEF Spec

\* With no request in flight every reachable key is that of a stored object: where
\* requests come one at a time and only removals fail, and where they overlap, uploads
\* fail too, but none Saves a row.
THEOREM NothingDangles == Spec => []NoDangling
<1>1. ASSUME Base, GalleryKept, CoverKept PROVE NoDangling
  <2> SUFFICES ASSUME CoverCalm \/ (NoSaves /\ {"db", "commit", "restart"} \cap Events = {}),
                      Quiet, NEW p \in Products, product[p].st = "live", NEW k \in Keys,
                      k = product[p].key \/ k \in Gallery(p)
               PROVE  k \in objects
    BY DEF NoDangling, CoverCalm, Reachable
  <2>1. CASE k \in Gallery(p)
    <3>1. GalleryCalm
      BY DEF GalleryCalm, CoverCalm, Calm
    <3>2. ~\E r \in Requests : Deleting(r, p, k)
      BY DEF Quiet, Deleting
    <3> QED BY <1>1, <2>1, <3>1, <3>2 DEF GalleryKept
  <2>2. CASE k = product[p].key /\ CoverCalm
    <3>1. ~\E r \in Requests : Replacing(r, p)
      BY DEF Quiet, Replacing
    <3> QED BY <1>1, <2>2, <3>1, ImagesAssumption DEF CoverKept
  <2>3. CASE k = product[p].key /\ NoSaves
    BY <1>1, <2>3, ImagesAssumption DEF Base, NotAsked
  <2> QED BY <2>1, <2>2, <2>3
<1> QED BY <1>1, GalleryKeptInvariant, CoverKeptInvariant, PTL

-----------------------------------------------------------------------------
(***************************************************************************)
(* Left objects.  Where requests come one at a time and the bucket tells   *)
(* what it did, every object is a live product's or the one the request    *)
(* in flight is about to record; and a handler removes the objects of a    *)
(* row before the row.                                                     *)
(***************************************************************************)
Images(p) == Cover(product[p].key) \cup Gallery(p)

Cleared(r) ==
    /\ req[r].pc = "dbdeleteimage" => req[r].keys \cap objects = {}
    /\ req[r].op = "delete" /\ req[r].pc \in {"remove", "dbdelete"} =>
          Images(req[r].p) \cap objects \subseteq req[r].keys
    /\ req[r].op = "upload" /\ req[r].pc = "remove" =>
          Cover(product[req[r].p].key) \cap objects \subseteq req[r].keys
    /\ req[r].op = "upload" /\ req[r].pc \in {"put", "save"} =>
          product[req[r].p].key \notin objects

Recording(r, k) ==
    req[r].pc \in {"save", "rollback"} /\ req[r].op \in Uploads /\ req[r].key = k

BucketTells == Serial /\ {"putlost", "remove", "restart"} \cap Events = {}

Accounted ==
    BucketTells =>
        /\ \A r \in Requests : Cleared(r)
        /\ \A k \in objects : k \in Reachable \/ \E r \in Requests : Recording(r, k)

\* A handler that goes on has removed what it is about to forget.
LEMMA ClearedNext ==
    ASSUME Base, Settled, BucketTells, NEW r \in Requests, Step(r), Cleared(r), Active(r)'
    PROVE  Cleared(r)'
<1> USE DEF Base
<1>a. Advances(r)
  BY StepOfSlot
<1>s. FreshProduct(r)
  BY DEF Settled, BucketTells
<1>e. Active(r) => Errands(r) /\ req[r].p \in Products
  BY DEF AllErrands, Shape
<1>1. CASE Arrived(r) \/ Finds(r) \/ Saves(r) \/ Fumbles(r)
  BY <1>1 DEF Arrived, Finds, Saves, Fumbles, Carries, Cleared
<1>2. CASE FindsImage(r)
  BY <1>2, <1>e DEF FindsImage, Carries, Cleared, Errands, Active
<1>3. CASE Loads(r)
  <2>0. /\ req'[r].pc = AfterLoad(req[r].op, Loaded(r)) /\ req'[r].keys = Loaded(r)
        /\ req'[r].op = req[r].op /\ req'[r].p = req[r].p
        /\ UNCHANGED <<product, image, objects>> /\ req[r].p \in Products
        /\ req[r].op \in Ops \ {"create", "delimage"} /\ req[r].op \in AllOps
    BY <1>3, <1>e DEF Loads, Carries, Active, Errands, Shape
  <2>1. CASE req[r].op = "delete"
    <3>1. Images(req[r].p) \subseteq Loaded(r)
      BY <1>3, <1>s, <2>1 DEF Loads, FreshProduct, Images, Loaded
    <3>3. req'[r].pc \in {"dbdelete", "remove"}
      BY <2>0, <2>1 DEF AfterLoad
    <3>4. (Images(req[r].p) \cap objects \subseteq req[r].keys)'
      BY <2>0, <3>1 DEF Images, Gallery, Cover
    <3> QED BY <2>0, <2>1, <3>3, <3>4 DEF Cleared
  <2>2. CASE req[r].op = "upload"
    <3>1. Loaded(r) = Cover(product[req[r].p].key)
      BY <1>3, <1>s, <2>2 DEF Loads, FreshProduct, Loaded
    <3>2. CASE Loaded(r) = {}
      <4>1. product[req[r].p].key \notin objects
        BY <3>1, <3>2, ImagesAssumption DEF Cover, TypeOK, ProductRow
      <4>2. req'[r].pc = "put"
        BY <2>0, <2>2, <3>2 DEF AfterLoad
      <4> QED BY <2>0, <2>2, <4>1, <4>2 DEF Cleared
    <3>3. CASE Loaded(r) # {}
      <4>1. req'[r].pc = "remove"
        BY <2>0, <2>2, <3>3 DEF AfterLoad
      <4> QED BY <2>0, <2>2, <3>1, <4>1 DEF Cleared, Cover
    <3> QED BY <3>2, <3>3
  <2>3. CASE req[r].op \notin {"delete", "upload"}
    <3>1. req'[r].pc \in {"present", "save", "put"}
      BY <2>0, <2>3 DEF AfterLoad, AllOps
    <3> QED BY <2>0, <2>3, <3>1 DEF Cleared
  <2> QED BY <2>1, <2>2, <2>3
<1>4. ASSUME NEW k \in Keys, RemovesOne(r, k) PROVE Cleared(r)'
  <2>0. /\ req[r].pc = "remove" /\ k \in req[r].keys /\ objects' = objects \ {k}
        /\ req'[r].pc = IF req[r].keys \ {k} = {} THEN AfterRemove(req[r].op) ELSE "remove"
        /\ req'[r].keys = IF req[r].op = "delimage" THEN req[r].keys ELSE req[r].keys \ {k}
        /\ req'[r].op = req[r].op /\ req'[r].p = req[r].p /\ req[r].p \in Products
        /\ UNCHANGED <<product, image>>
    BY <1>4, <1>e DEF RemovesOne, Carries, Delete, BucketTells, Active
  <2>1. CASE req[r].op = "delete"
    <3>1. Images(req[r].p) \cap objects \subseteq req[r].keys
      BY <2>0, <2>1 DEF Cleared
    <3>2. (Images(req[r].p) \cap objects \subseteq req[r].keys)'
      BY <2>0, <2>1, <3>1 DEF Images, Gallery, Cover
    <3> QED BY <1>4, <2>1, <2>0, <3>2, RemovedIsOwn DEF Cleared
  <2>2. CASE req[r].op = "upload"
    <3>1. Cover(product[req[r].p].key) \cap objects \subseteq req[r].keys
      BY <2>0, <2>2 DEF Cleared
    <3>2. CASE req[r].keys \ {k} = {}
      <4>1. product[req[r].p].key \notin objects'
        BY <2>0, <2>2, <3>1, <3>2, ImagesAssumption DEF Cover, TypeOK
      <4>2. req'[r].pc = "put"
        BY <2>0, <2>2, <3>2 DEF AfterRemove
      <4> QED BY <2>0, <2>2, <4>1, <4>2 DEF Cleared
    <3>3. CASE req[r].keys \ {k} # {}
      <4>1. req'[r].pc = "remove"
        BY <2>0, <3>3
      <4> QED BY <2>0, <2>2, <3>1, <4>1 DEF Cleared, Cover
    <3> QED BY <3>2, <3>3
  <2>3. CASE req[r].op = "delimage"
    BY <1>4, <2>0, <2>3, RemovedIsOwn DEF Cleared
  <2> QED BY <1>4, <2>1, <2>2, <2>3, RemovedIsOwn
<1>5. CASE Puts(r)
  <2>1. CASE req[r].op = "upload"
    <3>1. product[req[r].p].key # req[r].key /\ req[r].p \in Products
      BY <1>5, <1>e, <2>1 DEF Puts, Ownership, HeldUnknown, Held, Uploading, Active, Uploads,
         Known, Referenced, Shape
    <3> QED BY <1>5, <2>1, <3>1 DEF Puts, Carries, Cleared
  <2>2. CASE req[r].op # "upload"
    BY <1>5, <2>2 DEF Puts, Carries, Cleared
  <2> QED BY <2>1, <2>2
<1> QED BY <1>a, <1>1, <1>2, <1>3, <1>4, <1>5 DEF Advances

\* An object that is there after a step and was there before stays a live product's.
LEMMA StaysReachable ==
    ASSUME Base, Settled, BucketTells, NEW r \in Requests, Step(r), Cleared(r),
           NEW k \in objects, k \in Reachable
    PROVE  k \in Reachable'
<1> USE DEF Base
<1>1. ProductStep(r) /\ ImageStep(r)
  BY StoreSteps
<1>2. PICK p \in Products : product[p].st = "live" /\ (k = product[p].key \/ k \in Gallery(p))
  BY DEF Reachable
<1>3. k \in Keys /\ k # NoKey
  BY ImagesAssumption DEF TypeOK
<1>i. k \in Images(p)
  BY <1>2, <1>3 DEF Images, Cover
<1>f. FreshProduct(r) /\ (Active(r) => Errands(r))
  BY DEF Settled, BucketTells, AllErrands
<1>4. ~(req[r].pc = "dbdelete" /\ req[r].p = p)
  BY <1>i, <1>f DEF Cleared, Errands, Active
<1>5. product'[p].st = "live"
  BY <1>1, <1>2, <1>4 DEF ProductStep, GormSave, TypeOK, Vacant
<1>6. ASSUME k = product[p].key PROVE product'[p].key = k
  <2>1. ~(req[r].pc = "save" /\ req[r].op = "upload" /\ req[r].p = p)
    BY <1>6 DEF Cleared
  <2>2. req[r].pc = "save" /\ req[r].op = "update" /\ req[r].p = p => req[r].row = k
    BY <1>6, <1>f DEF FreshProduct
  <2> QED BY <1>1, <1>2, <1>4, <1>6, <2>1, <2>2 DEF ProductStep, GormSave, TypeOK, Vacant
<1>7. ASSUME k \in Gallery(p) PROVE k \in Gallery(p)'
  <2>1. ~(req[r].pc = "dbdeleteimage" /\ k \in req[r].keys)
    BY DEF Cleared
  <2>2. req[r].pc = "save" /\ req[r].op = "addimage" => k # req[r].key
    BY <1>7, InsertsNew DEF Gallery
  <2> QED BY <1>1, <1>7, <2>1, <2>2 DEF ImageStep, Gallery, TypeOK
<1> QED BY <1>2, <1>3, <1>5, <1>6, <1>7 DEF Reachable

\* The object just put is recorded, or rolled back.
LEMMA StaysRecorded ==
    ASSUME Base, Settled, BucketTells, NEW r \in Requests, Step(r),
           NEW k \in objects, k \in objects', Recording(r, k)
    PROVE  k \in Reachable' \/ Recording(r, k)'
<1> USE DEF Base
<1>1. req \in [Requests -> Request] /\ req[r].p \in Products /\ k \in Keys
  BY DEF TypeOK, Recording, Shape, Active
<1>2. req[r].pc # "rollback"
  BY AtLine DEF Rollback, Delete, BucketTells, Recording
<1>3. req[r].pc = "save" /\ req[r].op \in Uploads /\ req[r].key = k
  BY <1>2 DEF Recording
<1>4. CASE Goto(r, "rollback")
  BY <1>1, <1>3, <1>4 DEF Goto, Request, Recording
<1>5. CASE SaveCover(r) /\ GormSave(req[r].p, k)
  BY <1>1, <1>5 DEF GormSave, TypeOK, Reachable
<1>6. CASE InsertImage(r) /\ ~Goto(r, "rollback")
  <2>1. image' = [image EXCEPT ![k] =
            [st |-> "live", product |-> req[r].p, pos |-> Cardinality(req[r].keys)]]
    BY <1>3, <1>6 DEF InsertImage
  <2>2. product'[req[r].p].st = "live"
    BY <1>6 DEF InsertImage, Settled, BucketTells, FreshProduct
  <2>3. image'[k].st = "live" /\ image'[k].product = req[r].p
    BY <1>1, <2>1 DEF TypeOK
  <2> QED BY <1>1, <2>2, <2>3 DEF Reachable, Gallery
<1> QED BY <1>3, <1>4, <1>5, <1>6, AtLine DEF SaveUpdate, SaveCover, Uploads

LEMMA AccountedNext ==
    ASSUME Base, Alone, Settled, Accounted, [Next]_vars, TypeOK'
    PROVE  Accounted'
<1>0. BucketTells' <=> BucketTells
  BY StepCases DEF Base, BucketTells, Serial, Events
<1>1. CASE UNCHANGED vars
  BY <1>1 DEF vars, Accounted, BucketTells, Serial, Events, Cleared, Images, Cover, Gallery,
     Reachable, Recording
<1>2. CASE Restart
  BY <1>0, <1>2 DEF Restart, Accounted, BucketTells
<1>3. ASSUME BucketTells, NEW r \in Requests, Step(r),
             \A q \in Requests : q # r => req'[q] = req[q]
      PROVE  /\ \A q \in Requests : Cleared(q)'
             /\ \A k \in objects' : k \in Reachable' \/ \E q \in Requests : Recording(q, k)'
  <2>1. \A q \in Requests : Cleared(q)
    BY <1>3 DEF Accounted
  <2>2. \A q \in Requests : ~Active(q)' => Cleared(q)'
    BY DEF Cleared, Active
  <2>3. \A q \in Requests : q # r => ~Active(q)'
    BY <1>3, OnlyActor DEF BucketTells, Active
  <2>4. \A q \in Requests : Cleared(q)'
    BY <1>3, <2>1, <2>2, <2>3, ClearedNext
  <2>5. ASSUME NEW k \in objects' PROVE k \in Reachable' \/ \E q \in Requests : Recording(q, k)'
    <3>1. CASE k \notin objects
      <4>1. ObjectStep(r)
        BY <1>3, StoreSteps DEF Base
      <4>2. req[r].pc = "put" /\ k = req[r].key /\ req'[r].pc = "save"
        BY <1>3, <2>5, <3>1, <4>1 DEF ObjectStep, RemovesOne, Delete, BucketTells
      <4>3. Active(r)'
        BY <4>2 DEF Active
      <4>4. req'[r].op = req[r].op /\ req'[r].key = req[r].key
        <5>1. Goto(r, "save")
          BY <1>3, <3>1, <4>2, AtLine, <2>5 DEF PutObject, Reply, Slot, Base, TypeOK, Panics
        <5> QED BY <5>1 DEF Goto, Base, TypeOK, Request
      <4>5. req[r].op \in Uploads
        BY <4>2 DEF Base, Shape
      <4>6. Recording(r, k)'
        BY <4>2, <4>4, <4>5 DEF Recording
      <4> QED BY <4>6
    <3>2. CASE k \in objects /\ k \in Reachable
      BY <1>3, <2>1, <2>5, <3>2, StaysReachable
    <3>3. CASE k \in objects /\ k \notin Reachable
      <4>1. PICK q \in Requests : Recording(q, k)
        BY <1>3, <3>3 DEF Accounted
      <4>2. CASE q = r
        BY <1>3, <2>5, <3>3, <4>1, <4>2, StaysRecorded
      <4>3. CASE q # r
        BY <1>3, <4>1, <4>3 DEF Recording
      <4> QED BY <4>2, <4>3
    <3> QED BY <3>1, <3>2, <3>3
  <2> QED BY <2>4, <2>5
<1> QED BY <1>0, <1>1, <1>2, <1>3, StepCases DEF Base, Accounted

\* One request at a time and a bucket that tells what it did: once the request is over,
\* no object is left that no live product refers to.
THEOREM NothingOrphaned == Spec => []NoOrphan
<1>1. Init => Accounted
  BY DEF Init, Accounted, Cleared, Idle, Slot
<1>2. Base /\ Alone /\ Settled /\ Accounted /\ [Next]_vars /\ Base' => Accounted'
  BY AccountedNext DEF Base
<1>3. ASSUME Accounted PROVE NoOrphan
  BY <1>3 DEF Accounted, BucketTells, NoOrphan, Quiet, Recording
<1> QED BY <1>1, <1>2, <1>3, SettledInvariant, PTL DEF Spec

-----------------------------------------------------------------------------
(***************************************************************************)
(* Positions.  The position of a new gallery image is the length of the    *)
(* gallery its handler read; one request at a time, that is its length.    *)
(***************************************************************************)
\* The only step that changes a gallery appends one image to it.
LEMMA GalleryStep ==
    ASSUME Base, Settled, Serial, "delimage" \notin Ops, NEW r \in Requests, Step(r),
           NEW p \in Products
    PROVE  \/ /\ Gallery(p)' = Gallery(p)
              /\ \A k \in Gallery(p) : image'[k] = image[k]
           \/ \E k \in Keys \ Gallery(p) :
                 /\ Gallery(p)' = Gallery(p) \cup {k}
                 /\ \A j \in Gallery(p) : image'[j] = image[j]
                 /\ image'[k].pos = Cardinality(Gallery(p))
<1> USE DEF Base
<1>1. ImageStep(r)
  BY StoreSteps
<1>2. req[r].pc # "dbdeleteimage"
  BY DEF AllErrands, Errands, Active
<1>3. CASE UNCHANGED image
  BY <1>3 DEF Gallery
<1>4. CASE /\ req[r].pc = "save" /\ req[r].op = "addimage"
           /\ image' = [image EXCEPT ![req[r].key] =
                 [st |-> "live", product |-> req[r].p, pos |-> Cardinality(req[r].keys)]]
  <2>1. req[r].key \in Keys /\ image[req[r].key].st = "absent"
    BY <1>4, InsertsNew
  <2>2. req[r].keys = Gallery(req[r].p)
    BY <1>4 DEF Settled, FreshProduct
  <2>3. image'[req[r].key] =
           [st |-> "live", product |-> req[r].p, pos |-> Cardinality(Gallery(req[r].p))]
    BY <1>4, <2>1, <2>2 DEF TypeOK
  <2>4. \A j \in Keys : j # req[r].key => image'[j] = image[j]
    BY <1>4 DEF TypeOK
  <2>5. req[r].key \notin Gallery(p)
    BY <2>1 DEF Gallery
  <2>6. CASE req[r].p = p
    <3>1. Gallery(p)' = Gallery(p) \cup {req[r].key}
      BY <2>1, <2>3, <2>4, <2>6 DEF Gallery
    <3>2. \A j \in Gallery(p) : image'[j] = image[j]
      BY <2>4, <2>5 DEF Gallery
    <3>3. image'[req[r].key].pos = Cardinality(Gallery(p))
      BY <2>3, <2>6
    <3> QED BY <2>1, <2>5, <3>1, <3>2, <3>3
  <2>7. CASE req[r].p # p
    BY <2>1, <2>3, <2>4, <2>7 DEF Gallery
  <2> QED BY <2>6, <2>7
<1> QED BY <1>1, <1>2, <1>3, <1>4 DEF ImageStep

LEMMA AppendsNext ==
    ASSUME Base, Settled, GalleryAppends, [Next]_vars
    PROVE  GalleryAppends'
<1> DEFINE Numbered(p) == {image[k].pos : k \in Gallery(p)} = 0..(Cardinality(Gallery(p)) - 1)
<1>0. env' = env /\ (Serial' <=> Serial) /\ Ops' = Ops
  BY StepCases DEF Base, Serial, Ops
<1>1. CASE UNCHANGED image
  BY <1>0, <1>1 DEF GalleryAppends, Gallery
<1>2. ASSUME Serial, "delimage" \notin Ops, NEW r \in Requests, Step(r), NEW p \in Products
      PROVE  Numbered(p)'
  <2>1. Numbered(p)
    BY <1>2 DEF GalleryAppends
  <2>2. CASE Gallery(p)' = Gallery(p) /\ \A k \in Gallery(p) : image'[k] = image[k]
    <3>1. {image'[k].pos : k \in Gallery(p)} = {image[k].pos : k \in Gallery(p)}
      BY <2>2
    <3> QED BY <2>1, <2>2, <3>1
  <2>3. ASSUME NEW k \in Keys \ Gallery(p), Gallery(p)' = Gallery(p) \cup {k},
               \A j \in Gallery(p) : image'[j] = image[j],
               image'[k].pos = Cardinality(Gallery(p))
        PROVE  Numbered(p)'
    <3> DEFINE n == Cardinality(Gallery(p))
    <3>1. IsFiniteSet(Gallery(p)) /\ n \in Nat
      BY ImagesAssumption, FS_Subset, FS_CardinalityType DEF Gallery
    <3>2. Cardinality(Gallery(p) \cup {k}) = n + 1
      BY <3>1, FS_AddElement
    <3>3. {image'[j].pos : j \in Gallery(p) \cup {k}} = {image[j].pos : j \in Gallery(p)} \cup {n}
      BY <2>3
    <3>4. {image[j].pos : j \in Gallery(p)} = 0..(n - 1)
      BY <2>1
    <3> HIDE DEF n
    <3>5. 0..(n - 1) \cup {n} = 0..((n + 1) - 1)
      BY <3>1
    <3>6. Numbered(p)' <=> {image'[j].pos : j \in Gallery(p)'} = 0..(Cardinality(Gallery(p)') - 1)
      OBVIOUS
    <3> QED BY <2>3, <3>2, <3>3, <3>4, <3>5, <3>6
  <2> QED BY <1>2, <2>2, <2>3, GalleryStep
<1> QED BY <1>0, <1>1, <1>2, StepCases DEF Base, GalleryAppends, vars, Restart

\* Where requests come one at a time and no image is deleted, the positions of a gallery
\* are 0, 1, 2..., one each.
THEOREM GalleriesAppend == Spec => []GalleryAppends
<1>1. ASSUME Init PROVE GalleryAppends
  <2>1. \A p \in Products : Gallery(p) = {}
    BY <1>1 DEF Init, Gallery
  <2>2. Cardinality({}) = 0
    BY FS_EmptySet
  <2>3. \A p \in Products :
           {image[k].pos : k \in Gallery(p)} = {} /\ 0..(Cardinality(Gallery(p)) - 1) = {}
    BY <2>1, <2>2
  <2> QED BY <2>3 DEF GalleryAppends
<1>2. Base /\ Settled /\ GalleryAppends /\ [Next]_vars => GalleryAppends'
  BY AppendsNext
<1> QED BY <1>1, <1>2, SettledInvariant, PTL DEF Spec
=============================================================================
