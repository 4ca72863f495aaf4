------------------------ MODULE ProductImages_proofs ------------------------
(***************************************************************************)
(* Proofs about ProductImages, for any number of products, keys and        *)
(* requests, every operation and every unlucky event.                      *)
(***************************************************************************)
EXTENDS ProductImages, FiniteSetTheorems, TLAPS

Uploads == {"upload", "addimage"}

Active(r) == req[r].pc \notin {"idle", "done"}

\* A slot in use names a product; uploads, and only they, have a fresh key.
Shape ==
    \A r \in Requests :
        /\ Active(r) => req[r].p \in Products /\ req[r].op \in AllOps
        /\ Active(r) /\ req[r].op \in Uploads => req[r].key \in Keys
        /\ req[r].pc \in {"put", "rollback"} => req[r].op \in Uploads

\* Case lemmas on the two dispatch functions.
LEMMA AfterLoadType ==
    ASSUME NEW op \in AllOps, NEW keys
    PROVE  /\ AfterLoad(op, keys) \in {"present", "save", "put", "remove", "dbdelete"}
           /\ AfterLoad(op, keys) = "put" => op \in Uploads
BY DEF AfterLoad, AllOps, Uploads

\* What a handler goes on to when it has removed its objects.
LEMMA AfterRemoveType ==
    ASSUME NEW op \in AllOps
    PROVE  /\ AfterRemove(op) \in {"put", "dbdeleteimage", "dbdelete"}
           /\ AfterRemove(op) = "put" => op \in Uploads
BY DEF AfterRemove, AllOps, Uploads

\* The reply leaves the slot well typed and inactive.
LEMMA ReplyType ==
    ASSUME TypeOK, Shape, NEW r \in Requests, NEW code \in Codes, Reply(r, code)
    PROVE  req' \in [Requests -> Request] /\ Shape'
BY DEF Reply, Slot, TypeOK, Shape, Request, Active, PCs

\* Moving on leaves the other fields of the slot, and the other slots, alone.
LEMMA GotoType ==
    ASSUME TypeOK, Shape, NEW r \in Requests, NEW pc \in PCs, Goto(r, pc), Active(r),
           pc \in {"put", "rollback"} => req[r].op \in Uploads
    PROVE  req' \in [Requests -> Request] /\ Shape'
BY DEF TypeOK, Shape, Goto, Request, Active, PCs

\* A handler's step that changes what it has read and where it is.
LEMMA MoveType ==
    ASSUME TypeOK, Shape, NEW r \in Requests, NEW s \in Request, Active(r),
           s.op = req[r].op, s.p = req[r].p, s.key = req[r].key,
           s.pc \in {"put", "rollback"} => s.op \in Uploads,
           req' = [req EXCEPT ![r] = s]
    PROVE  req' \in [Requests -> Request] /\ Shape'
BY DEF TypeOK, Shape, Active

\* TypeOK is not inductive alone: FindProduct reads the row of the product the
\* slot names and PutObject stores the key it carries, so a slot in use must
\* have both.
LEMMA TypeInvariant == Spec => [](TypeOK /\ Shape)
<1>1. ASSUME Init PROVE TypeOK /\ Shape
  <2>1. product \in [Products -> ProductRow] /\ image \in [Keys -> ImageRow]
    BY <1>1 DEF Init, ProductRow, ImageRow, RowStatus
  <2>2. req \in [Requests -> Request]
    BY <1>1 DEF Init, Idle, Slot, Request, PCs, Codes
  <2>3. Shape
    BY <1>1 DEF Init, Shape, Active, Idle, Slot
  <2> QED BY <1>1, <2>1, <2>2, <2>3 DEF Init, TypeOK, Boot
<1>2. TypeOK /\ Shape /\ [Next]_vars => TypeOK' /\ Shape'
  <2> SUFFICES ASSUME TypeOK, Shape, [Next]_vars PROVE TypeOK' /\ Shape'
    OBVIOUS
  <2>u. CASE UNCHANGED vars
    BY <2>u DEF vars, TypeOK, Shape, Active
  <2>e. env' \in Environments
    BY DEF Next, TypeOK, vars
  <2> USE <2>e
  <2>r. CASE Restart
    BY <2>r, ImagesAssumption
    DEF Restart, TypeOK, Shape, Boot, Idle, Slot, Request, Active, PCs, Codes
  <2>s. ASSUME NEW r \in Requests, Step(r) PROVE TypeOK' /\ Shape'
    <3>1. CASE ArriveOnProduct(r)
      BY <3>1, ImagesAssumption
      DEF ArriveOnProduct, Start, CanStart, TypeOK, Shape, Slot, Request, Active, PCs, AllOps, Codes, Uploads
    <3>2. CASE ArriveUpload(r)
      BY <3>2, ImagesAssumption
      DEF ArriveUpload, Start, CanStart, Fresh, TypeOK, Shape, Slot, Request, Active, PCs, AllOps, Codes, Uploads
    <3>3. CASE ArriveDeleteImage(r)
      BY <3>3, ImagesAssumption
      DEF ArriveDeleteImage, Start, CanStart, TypeOK, Shape, Slot, Request, Active, PCs, AllOps, Codes, Uploads
    <3>4. CASE CreateProduct(r)
      <4>1. req' \in [Requests -> Request] /\ Shape'
        BY <3>4 DEF CreateProduct, Vacant, TypeOK, Shape, Slot, Request, Active, PCs, AllOps, Codes
      <4>2. product' \in [Products -> ProductRow]
        BY <3>4 DEF CreateProduct, Vacant, TypeOK, ProductRow, RowStatus
      <4> QED BY <3>4, <4>1, <4>2 DEF CreateProduct, Vacant, TypeOK
    <3>5. CASE FindProduct(r)
      <4>1. CASE Reply(r, 404) \/ Reply(r, 500)
        BY <3>5, <4>1, ReplyType DEF FindProduct, TypeOK, Codes
      <4> DEFINE s == [req[r] EXCEPT !.pc = "preload", !.row = product[req[r].p].key]
      <4>2. CASE req' = [req EXCEPT ![r] = s]
        <5>1. Active(r) /\ req[r].p \in Products
          BY <3>5 DEF FindProduct, Shape, Active
        <5>2. /\ s \in Request /\ s.op = req[r].op /\ s.p = req[r].p /\ s.key = req[r].key
              /\ s.pc = "preload"
          BY <5>1 DEF TypeOK, Request, ProductRow, PCs
        <5> HIDE DEF s
        <5> QED BY <3>5, <4>2, <5>1, <5>2, MoveType DEF FindProduct, TypeOK
      <4> QED BY <3>5, <4>1, <4>2 DEF FindProduct
    <3>6. CASE LoadGallery(r)
      <4> DEFINE pc == AfterLoad(req[r].op, Loaded(r))
                 s  == [req[r] EXCEPT !.keys = Loaded(r), !.pc = pc]
      <4>1. Active(r) /\ req[r].op \in AllOps
        BY <3>6 DEF LoadGallery, Shape, Active
      <4>2. Loaded(r) \in SUBSET Keys
        BY DEF Loaded, Gallery, Cover, TypeOK, Request
      <4>3. pc \in PCs /\ (pc \in {"put", "rollback"} => req[r].op \in Uploads)
        BY <4>1, AfterLoadType DEF PCs
      <4>4. req' = [req EXCEPT ![r] = s]
        BY <3>6 DEF LoadGallery
      <4> HIDE DEF pc
      <4>5. /\ s \in Request /\ s.op = req[r].op /\ s.p = req[r].p /\ s.key = req[r].key
            /\ s.pc = pc
        BY <4>2, <4>3 DEF TypeOK, Request
      <4> HIDE DEF s
      <4> QED BY <3>6, <4>1, <4>3, <4>4, <4>5, MoveType DEF LoadGallery, TypeOK
    <3>7. CASE RefuseRequest(r)
      BY <3>7, ReplyType DEF RefuseRequest, TypeOK, Codes
    <3>8. CASE FindImage(r)
      BY <3>8, ReplyType, GotoType DEF FindImage, TypeOK, Codes, Active, PCs
    <3>9. CASE RemoveObject(r)
      <4>0. UNCHANGED <<product, image, minted, storage>>
        BY <3>9 DEF RemoveObject
      <4>1. CASE Reply(r, 500) /\ UNCHANGED objects
        BY <4>0, <4>1, ReplyType DEF TypeOK, Codes
      <4>2. ASSUME NEW k \in req[r].keys, Delete(k), req' = [req EXCEPT ![r] = Removed(r, k)]
            PROVE TypeOK' /\ Shape'
        <5> DEFINE pc == IF req[r].keys \ {k} = {} THEN AfterRemove(req[r].op) ELSE "remove"
                   keys == IF req[r].op = "delimage" THEN req[r].keys ELSE req[r].keys \ {k}
                   s == [req[r] EXCEPT !.pc = pc, !.keys = keys]
        <5>1. Active(r) /\ pc \in PCs /\ (pc \in {"put", "rollback"} => req[r].op \in Uploads)
          BY <3>9, AfterRemoveType DEF RemoveObject, Shape, Active, PCs
        <5>2. keys \in SUBSET Keys
          BY DEF TypeOK, Request
        <5>3. req' = [req EXCEPT ![r] = s]
          BY <4>2 DEF Removed
        <5>4. objects' \subseteq Keys
          BY <4>2 DEF Delete, TypeOK
        <5> HIDE DEF pc, keys
        <5>5. /\ s \in Request /\ s.op = req[r].op /\ s.p = req[r].p /\ s.key = req[r].key
              /\ s.pc = pc
          BY <5>1, <5>2 DEF TypeOK, Request
        <5> HIDE DEF s
        <5> QED BY <4>0, <5>1, <5>3, <5>4, <5>5, MoveType DEF TypeOK
      <4> QED BY <3>9, <4>1, <4>2 DEF RemoveObject, NextKeys, Panics
    <3>10. CASE PutObject(r)
      BY <3>10, ReplyType, GotoType
      DEF PutObject, Panics, TypeOK, Shape, Codes, Active, PCs
    <3>11. CASE SaveUpdate(r)
      <4>1. product' \in [Products -> ProductRow]
        BY <3>11 DEF SaveUpdate, GormSave, Fails, TypeOK, ProductRow, Request, RowStatus
      <4> QED BY <3>11, <4>1, ReplyType, GotoType
          DEF SaveUpdate, TypeOK, Codes, Active, PCs
    <3>12. CASE SaveCover(r)
      <4>1. product' \in [Products -> ProductRow]
        BY <3>12 DEF SaveCover, GormSave, Fails, TypeOK, ProductRow, Request, RowStatus
      <4> QED BY <3>12, <4>1, ReplyType, GotoType
          DEF SaveCover, TypeOK, Codes, Active, PCs, Uploads
    <3>13. CASE InsertImage(r)
      <4>1. Cardinality(req[r].keys) \in Nat
        BY ImagesAssumption, FS_Subset, FS_CardinalityType DEF TypeOK, Request
      <4>2. image' \in [Keys -> ImageRow]
        BY <3>13, <4>1 DEF InsertImage, Fails, TypeOK, ImageRow, Request, RowStatus
      <4> QED BY <3>13, <4>2, ReplyType, GotoType
          DEF InsertImage, TypeOK, Codes, Active, PCs, Uploads
    <3>14. CASE Rollback(r)
      BY <3>14, ReplyType DEF Rollback, Delete, TypeOK, Codes
    <3>15. CASE DeleteProduct(r)
      <4>1. product' \in [Products -> ProductRow]
        BY <3>15 DEF DeleteProduct, SoftDelete, Fails, TypeOK, ProductRow, RowStatus
      <4> QED BY <3>15, <4>1, ReplyType DEF DeleteProduct, TypeOK, Codes
    <3>16. CASE DeleteImageRow(r)
      <4>1. image' \in [Keys -> ImageRow]
        BY <3>16 DEF DeleteImageRow, SoftDelete, Fails, TypeOK, ImageRow, RowStatus
      <4> QED BY <3>16, <4>1, ReplyType DEF DeleteImageRow, TypeOK, Codes
    <3>17. CASE Present(r)
      BY <3>17, ReplyType DEF Present, TypeOK, Codes
    <3>18. CASE Receive(r)
      BY <3>18, ImagesAssumption
      DEF Receive, TypeOK, Shape, Idle, Slot, Request, Active, PCs, Codes
    <3> QED BY <2>s, <3>1, <3>2, <3>3, <3>4, <3>5, <3>6, <3>7, <3>8, <3>9, <3>10, <3>11,
               <3>12, <3>13, <3>14, <3>15, <3>16, <3>17, <3>18 DEF Step
  <2> QED BY <2>u, <2>r, <2>s DEF Next
<1> QED BY <1>1, <1>2, PTL DEF Spec

\* The two stores and the requests stay well-formed under every operation, every
\* interleaving and every unlucky event.
THEOREM TypeCorrect == Spec => []TypeOK
BY TypeInvariant, PTL

-----------------------------------------------------------------------------
(***************************************************************************)
(* Who knows a key.  A key is held from the arrival of the upload it was   *)
(* made for until the write that records it; nobody else has seen it.  It  *)
(* is claimed by the product whose row has it, or had it when a request    *)
(* now running read the row: that request may still Save it there.         *)
(***************************************************************************)
Uploading(r) == Active(r) /\ req[r].op \in Uploads

\* After an ambiguous failure the row may have been written: see "commit".
Held(r) == Uploading(r) /\ (req[r].pc # "rollback" \/ "commit" \notin Events)

Seen(k) == \E s \in Requests : req[s].row = k \/ k \in req[s].keys

Known(k) == k \in Referenced \/ Seen(k)

Claims(p, k) == \/ product[p].key = k
                \/ \E s \in Requests : req[s].p = p /\ req[s].row = k

KnownMinted == \A k \in Keys : Known(k) => k \in minted
HeldMinted == \A r \in Requests : Uploading(r) => req[r].key \in minted
HeldDistinct == \A r, s \in Requests :
                   Uploading(r) /\ Uploading(s) /\ req[r].key = req[s].key => r = s
HeldUnknown == \A r \in Requests : Held(r) => ~Known(req[r].key)
HeldStored == \A r \in Requests :
                 Uploading(r) /\ req[r].pc = "save" => req[r].key \in objects
ClaimUnique == \A k \in Keys, p, q \in Products : Claims(p, k) /\ Claims(q, k) => p = q
ClaimNoImage == \A k \in Keys, p \in Products : Claims(p, k) => image[k].st = "absent"

Ownership == /\ KnownMinted /\ HeldMinted /\ HeldDistinct /\ HeldUnknown
             /\ HeldStored /\ ClaimUnique /\ ClaimNoImage

\* What every step of a slot other than an upload's arrival respects: the new
\* key is the only one that may become referenced, it then is no longer held,
\* and the handler only learns keys that are known.
\* Rows come to refer to no key but the uploaded one.
WritesOnly(r) ==
    /\ \A k \in Keys : image'[k].st # "absent" =>
          image[k].st # "absent" \/ (Held(r) /\ req[r].op = "addimage" /\ k = req[r].key)
    /\ \A k \in Keys, p \in Products : product'[p].key = k =>
          Claims(p, k) \/ (Held(r) /\ req[r].op = "upload" /\ k = req[r].key /\ p = req[r].p)

Learns(s) == /\ \A k \in Keys : s.row = k => s.p \in Products /\ Claims(s.p, k)
             /\ \A k \in s.keys : Known(k)

Holds(r, s) == /\ Uploading(r)' => Uploading(r) /\ s.key = req[r].key
               /\ Held(r)' => Held(r) /\ s.key \notin Referenced'
               /\ s.pc = "save" /\ s.op \in Uploads => s.key \in objects'

RemovesOnly(r) ==
    \A k \in objects \ objects' : Known(k) \/ (Uploading(r) /\ k = req[r].key)

\* A step of one slot that writes at most its own upload keeps the ownership of
\* keys: no other slot can hold that upload.
LEMMA SlotStep ==
    ASSUME TypeOK, Shape, Ownership, TypeOK', Shape',
           NEW r \in Requests, NEW s \in Request, req' = [req EXCEPT ![r] = s],
           minted' = minted, env' = env,
           WritesOnly(r), Learns(s), Holds(r, s), RemovesOnly(r)
    PROVE  Ownership'
<1> USE DEF WritesOnly, Learns, Holds, RemovesOnly
<1>e. Events' = Events
  BY DEF Events
<1>1. /\ req'[r] = s
      /\ \A q \in Requests : q # r => req'[q] = req[q]
  BY DEF TypeOK
<1>2. \A q \in Requests : /\ Uploading(q)' => Uploading(q) /\ req'[q].key = req[q].key
                          /\ Held(q)' => Held(q)
                          /\ q # r /\ Held(q) => Held(q)'
  BY <1>e, <1>1 DEF Uploading, Held, Active
<1>3. \A q \in Requests : Uploading(q) => req[q].key \in Keys
  BY DEF Uploading, Shape
<1>4. \A k \in Keys, p \in Products : Claims(p, k)' =>
         Claims(p, k) \/ (Held(r) /\ req[r].op = "upload" /\ k = req[r].key /\ p = req[r].p)
  BY <1>1 DEF Claims
<1>5. \A k \in Keys : Seen(k)' => Known(k)
  <2> SUFFICES ASSUME NEW k \in Keys, NEW q \in Requests, req'[q].row = k \/ k \in req'[q].keys
               PROVE Known(k)
    BY DEF Seen
  <2>1. CASE q # r
    BY <2>1, <1>1 DEF Known, Seen
  <2>2. CASE q = r /\ req'[q].row = k
    BY <2>2, <1>1 DEF Known, Seen, Claims, Referenced
  <2>3. CASE q = r /\ k \in req'[q].keys
    BY <2>3, <1>1
  <2> QED BY <2>1, <2>2, <2>3
<1>6. \A k \in Keys : k \in Referenced' => Known(k) \/ (Held(r) /\ k = req[r].key)
  BY DEF Referenced, Known, Seen, Claims
<1>7. \A k \in Keys : Known(k)' => Known(k) \/ (Held(r) /\ k = req[r].key)
  BY <1>5, <1>6 DEF Known
<1>8. KnownMinted'
  BY <1>7 DEF Ownership, KnownMinted, HeldMinted, Held
<1>9. HeldMinted' /\ HeldDistinct'
  BY <1>2 DEF Ownership, HeldMinted, HeldDistinct
<1>10. HeldUnknown'
  <2> SUFFICES ASSUME NEW q \in Requests, Held(q)', NEW k \in Keys, k = req'[q].key, Known(k)'
               PROVE FALSE
    BY <1>2, <1>3 DEF HeldUnknown, Held, Known, Seen, Referenced
  <2>1. Held(q) /\ Uploading(q) /\ k = req[q].key /\ ~Known(k)
    BY <1>2 DEF Held, Ownership, HeldUnknown
  <2>2. Held(r) /\ k = req[r].key
    BY <2>1, <1>7
  <2>3. q = r
    BY <2>1, <2>2 DEF Ownership, HeldDistinct, Held
  <2>4. k \notin Referenced'
    BY <2>3, <1>1
  <2> QED BY <2>1, <2>4, <1>5 DEF Known
<1>11. HeldStored'
  <2> SUFFICES ASSUME NEW q \in Requests, Uploading(q)', req'[q].pc = "save"
               PROVE req'[q].key \in objects'
    BY DEF HeldStored
  <2>1. CASE q = r
    BY <2>1, <1>1 DEF Uploading
  <2>2. CASE q # r
    <3>1. /\ Uploading(q) /\ req[q].pc = "save" /\ Held(q)
          /\ req[q].key \in objects /\ req'[q].key = req[q].key
      BY <2>2, <1>1, <1>2 DEF Ownership, HeldStored, Held
    <3>2. ~Known(req[q].key) /\ ~(Uploading(r) /\ req[q].key = req[r].key)
      BY <2>2, <3>1 DEF Ownership, HeldUnknown, HeldDistinct
    <3> QED BY <3>1, <3>2
  <2> QED BY <2>1, <2>2
<1>12. \A k \in Keys, p \in Products : Claims(p, k) => Known(k)
  BY DEF Claims, Known, Seen, Referenced
<1>13. ~(Held(r) /\ Known(req[r].key))
  BY DEF Ownership, HeldUnknown
<1>14. ClaimUnique'
  BY <1>4, <1>12, <1>13 DEF Ownership, ClaimUnique
<1>15. ClaimNoImage'
  <2> SUFFICES ASSUME NEW k \in Keys, NEW p \in Products, Claims(p, k)', image'[k].st # "absent"
               PROVE FALSE
    BY DEF ClaimNoImage
  <2>1. CASE Claims(p, k)
    BY <2>1, <1>12, <1>13 DEF Ownership, ClaimNoImage
  <2>2. CASE Held(r) /\ req[r].op = "upload" /\ k = req[r].key
    <3>1. image[k].st # "absent"
      BY <2>2
    <3> QED BY <2>2, <3>1, <1>13 DEF Known, Referenced
  <2> QED BY <1>4, <2>1, <2>2
<1> QED BY <1>8, <1>9, <1>10, <1>11, <1>14, <1>15 DEF Ownership

\* A step that writes no row touches no key.
LEMMA WritesNothing ==
    ASSUME TypeOK, UNCHANGED <<product, image>>, NEW r \in Requests
    PROVE  WritesOnly(r)
BY DEF WritesOnly, Claims

AllKnown(keys) == \A k \in keys : Known(k)

\* A slot that is idle, done, or starts on what is no upload holds nothing.
LEMMA FreshSlot ==
    ASSUME TypeOK, Shape, Ownership, TypeOK', Shape',
           NEW r \in Requests, NEW op, NEW pc, NEW p, NEW keys, NEW code,
           pc \in {"idle", "done"} \/ op \notin Uploads,
           AllKnown(keys),
           req' = [req EXCEPT ![r] = Slot(op, pc, p, keys, NoKey, code)],
           minted' = minted, env' = env, WritesOnly(r), RemovesOnly(r)
    PROVE  Ownership'
<1> DEFINE s == Slot(op, pc, p, keys, NoKey, code)
<1>1. req'[r] = s /\ s \in Request
  BY DEF TypeOK
<1>2. s.row = NoKey /\ s.keys = keys /\ (s.pc \in {"idle", "done"} \/ s.op \notin Uploads)
  BY DEF Slot
<1> HIDE DEF s
<1>3. Learns(s)
  BY <1>2, ImagesAssumption DEF Learns, AllKnown
<1>4. Holds(r, s)
  BY <1>1, <1>2 DEF Holds, Uploading, Held, Active, Uploads
<1> QED BY <1>1, <1>3, <1>4, SlotStep DEF TypeOK

\* A handler that replies has written at most its own upload.
LEMMA ReplyStep ==
    ASSUME TypeOK, Shape, Ownership, TypeOK', Shape',
           NEW r \in Requests, NEW code \in Codes, Reply(r, code),
           minted' = minted, env' = env, WritesOnly(r), RemovesOnly(r)
    PROVE  Ownership'
<1>1. req' = [req EXCEPT ![r] = Slot(req[r].op, "done", NoProduct, {}, NoKey, code)]
  BY DEF Reply
<1>2. AllKnown({})
  BY DEF AllKnown
<1> QED BY <1>1, <1>2, FreshSlot

\* A handler that moves on with what it has.
LEMMA GotoStep ==
    ASSUME TypeOK, Shape, Ownership, TypeOK', Shape',
           NEW r \in Requests, NEW pc \in PCs, Goto(r, pc), Active(r),
           minted' = minted, env' = env, WritesOnly(r), RemovesOnly(r),
           Held(r)' => Held(r) /\ req[r].key \notin Referenced',
           pc = "save" /\ req[r].op \in Uploads => req[r].key \in objects'
    PROVE  Ownership'
<1> DEFINE s == [req[r] EXCEPT !.pc = pc]
<1>1. /\ req'[r] = s /\ s \in Request /\ req' = [req EXCEPT ![r] = s]
      /\ s.row = req[r].row /\ s.keys = req[r].keys /\ s.key = req[r].key
      /\ s.op = req[r].op /\ s.p = req[r].p /\ s.pc = pc
  BY DEF Goto, TypeOK, Request
<1> HIDE DEF s
<1>2. Learns(s)
  BY <1>1 DEF Learns, Claims, Known, Seen, Shape
<1>3. Holds(r, s)
  BY <1>1 DEF Holds, Uploading
<1> QED BY <1>1, <1>2, <1>3, SlotStep

\* Every step keeps the ownership of keys: one case per action.
LEMMA OwnershipNext ==
    ASSUME TypeOK, Shape, Ownership, [Next]_vars, TypeOK', Shape'
    PROVE  Ownership'
<1>1. CASE UNCHANGED vars
  BY <1>1 DEF vars, Ownership, KnownMinted, HeldMinted, HeldDistinct, HeldUnknown, HeldStored,
     ClaimUnique, ClaimNoImage, Claims, Known, Seen, Referenced, Held, Uploading, Active,
     Events
<1>2. CASE Restart
  <2>1. \A r \in Requests : req'[r].row = NoKey /\ req'[r].keys = {} /\ ~Active(r)'
    BY <1>2 DEF Restart, Idle, Slot, Active
  <2>2. \A k \in Keys : /\ Known(k)' => Known(k)
                       /\ \A p \in Products : Claims(p, k)' => Claims(p, k)
    BY <1>2, <2>1, ImagesAssumption DEF Restart, Claims, Known, Seen, Referenced
  <2>3. \A r \in Requests : ~Uploading(r)' /\ ~Held(r)'
    BY <2>1 DEF Uploading, Held
  <2>4. KnownMinted'
    BY <1>2, <2>2 DEF Restart, Ownership, KnownMinted
  <2>6. ClaimUnique' /\ ClaimNoImage'
    BY <1>2, <2>2 DEF Restart, Ownership, ClaimUnique, ClaimNoImage
  <2>5. HeldMinted' /\ HeldDistinct' /\ HeldUnknown' /\ HeldStored'
    BY <2>3 DEF HeldMinted, HeldDistinct, HeldUnknown, HeldStored
  <2> QED BY <2>4, <2>5, <2>6 DEF Ownership
<1>3. ASSUME NEW r \in Requests, Step(r), env' = env PROVE Ownership'
  <2>v. env' = env /\ Events' = Events
    BY <1>3 DEF Events
  <2> USE <2>v
  <2>w. UNCHANGED <<product, image>> => WritesOnly(r)
    BY WritesNothing DEF vars
  <2>m. UNCHANGED objects => RemovesOnly(r)
    BY DEF RemovesOnly
  <2>e. AllKnown({})
    BY DEF AllKnown
  <2>1. CASE ArriveOnProduct(r)
    <3>1. PICK op \in {"get", "update", "delete"}, p \in Products :
             req' = [req EXCEPT ![r] = Slot(op, "find", p, {}, NoKey, 0)]
      BY <2>1 DEF ArriveOnProduct, Start
    <3> QED BY <2>1, <2>w, <2>m, <2>e, <3>1, FreshSlot DEF ArriveOnProduct, Uploads
  <2>2. CASE ArriveUpload(r)
    <3>1. PICK op \in Uploads, p \in Products, key \in Keys \ minted :
             /\ req' = [req EXCEPT ![r] = Slot(op, "find", p, {}, key, 0)]
             /\ minted' = minted \cup {key}
             /\ req[r].pc = "idle"
      BY <2>2 DEF ArriveUpload, Start, CanStart, Fresh, Uploads
    <3>2. /\ req'[r] = Slot(op, "find", p, {}, key, 0)
          /\ \A q \in Requests : q # r => req'[q] = req[q]
      BY <3>1 DEF TypeOK
    <3>3. req'[r].row = NoKey /\ req'[r].keys = {} /\ req'[r].key = key /\ req'[r].pc = "find"
      BY <3>2 DEF Slot
    <3>4. \A k \in Keys : /\ Known(k)' => Known(k)
                         /\ \A q \in Products : Claims(q, k)' => Claims(q, k)
      BY <2>2, <3>2, <3>3, ImagesAssumption DEF ArriveUpload, Claims, Known, Seen, Referenced
    <3>5. ~Known(key) /\ \A q \in Requests : Uploading(q) => req[q].key # key
      BY <3>1 DEF Ownership, KnownMinted, HeldMinted
    <3>6. \A q \in Requests : q # r =>
             /\ Uploading(q)' <=> Uploading(q)
             /\ Held(q)' <=> Held(q)
      BY <3>2 DEF Uploading, Held, Active
    <3>7. KnownMinted' /\ HeldMinted' /\ HeldDistinct'
      BY <3>1, <3>2, <3>3, <3>4, <3>5, <3>6
      DEF Ownership, KnownMinted, HeldMinted, HeldDistinct
    <3>8. HeldUnknown'
      <4> SUFFICES ASSUME NEW q \in Requests, Held(q)', NEW k \in Keys, k = req'[q].key, Known(k)'
                   PROVE FALSE
        BY DEF HeldUnknown, Held, Uploading, Shape, Known, Seen, Referenced
      <4> QED BY <3>2, <3>3, <3>4, <3>5, <3>6 DEF Ownership, HeldUnknown
    <3>9. HeldStored' /\ ClaimUnique' /\ ClaimNoImage'
      BY <2>2, <3>2, <3>3, <3>4, <3>6
      DEF ArriveUpload, Ownership, HeldStored, ClaimUnique, ClaimNoImage
    <3> QED BY <3>7, <3>8, <3>9 DEF Ownership
  <2>3. CASE ArriveDeleteImage(r)
    <3>1. PICK p \in Products, k \in Keys :
             /\ image[k].st # "absent"
             /\ req' = [req EXCEPT ![r] = Slot("delimage", "findimage", p, {k}, NoKey, 0)]
      BY <2>3 DEF ArriveDeleteImage, Start
    <3>2. AllKnown({k})
      BY <3>1 DEF AllKnown, Known, Referenced
    <3> QED BY <2>3, <2>w, <2>m, <3>1, <3>2, FreshSlot DEF ArriveDeleteImage, Uploads
  <2>4. CASE CreateProduct(r)
    <3>1. PICK code : req' = [req EXCEPT ![r] = Slot("create", "done", NoProduct, {}, NoKey, code)]
      BY <2>4, ZenonT(60) DEF CreateProduct
    <3>2. WritesOnly(r)
      BY <2>4, ImagesAssumption DEF CreateProduct, Vacant, TypeOK, WritesOnly, Claims
    <3>3. UNCHANGED <<objects, minted>>
      BY <2>4 DEF CreateProduct
    <3> QED BY <2>m, <2>e, <3>1, <3>2, <3>3, FreshSlot
  <2>5. CASE FindProduct(r)
    <3>1. CASE Reply(r, 404) \/ Reply(r, 500)
      BY <2>5, <2>w, <2>m, <3>1, ReplyStep DEF FindProduct, Codes
    <3> DEFINE s == [req[r] EXCEPT !.pc = "preload", !.row = product[req[r].p].key]
    <3>2. CASE req' = [req EXCEPT ![r] = s]
      <4>1. /\ req'[r] = s /\ s \in Request /\ s.pc = "preload" /\ s.row = product[req[r].p].key
            /\ s.key = req[r].key /\ s.keys = req[r].keys /\ s.op = req[r].op /\ s.p = req[r].p
        BY <2>5, <3>2 DEF FindProduct, TypeOK, Request
      <4> HIDE DEF s
      <4>2. Learns(s)
        BY <2>5, <4>1 DEF FindProduct, Learns, Claims, Known, Seen, Shape, Active
      <4>3. Holds(r, s)
        BY <2>5, <4>1 DEF FindProduct, Holds, Uploading, Held, Active, Ownership, HeldUnknown,
           Known, Referenced
      <4> QED BY <2>5, <2>w, <2>m, <3>2, <4>1, <4>2, <4>3, SlotStep DEF FindProduct
    <3> QED BY <2>5, <3>1, <3>2 DEF FindProduct
  <2>6. CASE LoadGallery(r)
    <3> DEFINE pc == AfterLoad(req[r].op, Loaded(r))
               s  == [req[r] EXCEPT !.keys = Loaded(r), !.pc = pc]
    <3>1. req' = [req EXCEPT ![r] = s]
      BY <2>6 DEF LoadGallery
    <3>2. Active(r) /\ req[r].op \in AllOps
      BY <2>6 DEF LoadGallery, Shape, Active
    <3>3. pc \in {"present", "save", "put", "remove", "dbdelete"}
          /\ (pc = "save" => req[r].op = "update")
      BY <3>2 DEF AfterLoad, AllOps
    <3> HIDE DEF pc
    <3>4. /\ req'[r] = s /\ s \in Request /\ s.pc = pc /\ s.row = req[r].row
          /\ s.key = req[r].key /\ s.keys = Loaded(r) /\ s.op = req[r].op /\ s.p = req[r].p
      BY <3>1 DEF TypeOK, Request
    <3> HIDE DEF s
    <3>5. Learns(s)
      BY <3>2, <3>4
      DEF Learns, Claims, Known, Seen, Referenced, Shape, Loaded, Gallery, Cover
    <3>6. Holds(r, s)
      BY <2>6, <3>2, <3>3, <3>4 DEF LoadGallery, Holds, Uploading, Held, Active, Ownership,
         HeldUnknown, Known, Referenced, Uploads
    <3> QED BY <2>6, <2>w, <2>m, <3>1, <3>4, <3>5, <3>6, SlotStep DEF LoadGallery
  <2>7. CASE RefuseRequest(r)
    BY <2>7, <2>w, <2>m, ReplyStep DEF RefuseRequest, Codes
  <2>8. CASE FindImage(r)
    <3>1. CASE Goto(r, "remove")
      <4>1. Active(r) /\ (Held(r)' => Held(r) /\ req[r].key \notin Referenced')
        BY <2>8, <3>1 DEF FindImage, Goto, TypeOK, Uploading, Held, Active, Ownership,
           HeldUnknown, Known, Referenced
      <4> QED BY <2>8, <2>w, <2>m, <3>1, <4>1, GotoStep DEF FindImage, PCs
    <3> QED BY <2>8, <2>w, <2>m, <3>1, ReplyStep DEF FindImage, Codes
  <2>9. CASE RemoveObject(r)
    <3>1. CASE Reply(r, 500) /\ UNCHANGED objects
      BY <2>9, <2>w, <2>m, <3>1, ReplyStep DEF RemoveObject, Codes
    <3>2. ASSUME NEW k \in req[r].keys, Delete(k), req' = [req EXCEPT ![r] = Removed(r, k)]
          PROVE  Ownership'
      <4> DEFINE s == Removed(r, k)
      <4>0. Active(r) /\ req[r].op \in AllOps
        BY <2>9 DEF RemoveObject, Shape, Active
      <4>1. /\ req'[r] = s /\ s \in Request
        BY <3>2 DEF TypeOK
      <4>2. /\ s.row = req[r].row /\ s.key = req[r].key /\ s.keys \subseteq req[r].keys
            /\ s.op = req[r].op /\ s.p = req[r].p /\ s.pc # "save"
        BY <4>0, AfterRemoveType DEF Removed, TypeOK, Request
      <4> HIDE DEF s
      <4>3. Learns(s)
        BY <4>0, <4>2 DEF Learns, Claims, Known, Seen, Shape
      <4>4. Holds(r, s)
        BY <2>9, <4>1, <4>2 DEF RemoveObject, Holds, Uploading, Held, Active, Ownership,
           HeldUnknown, Known, Referenced
      <4>5. RemovesOnly(r)
        BY <3>2 DEF Delete, RemovesOnly, Known, Seen
      <4> QED BY <2>9, <2>w, <3>2, <4>1, <4>3, <4>4, <4>5, SlotStep DEF RemoveObject
    <3> QED BY <2>9, <3>1, <3>2 DEF RemoveObject, NextKeys, Panics
  <2>10. CASE PutObject(r)
    <3>1. RemovesOnly(r)
      BY <2>10 DEF PutObject, RemovesOnly
    <3>2. CASE Goto(r, "save") /\ objects' = objects \cup {req[r].key}
      <4>1. Active(r) /\ (Held(r)' => Held(r) /\ req[r].key \notin Referenced')
        BY <2>10, <3>2 DEF PutObject, Goto, TypeOK, Uploading, Held, Active, Ownership,
           HeldUnknown, Known, Referenced
      <4> QED BY <2>10, <2>w, <3>1, <3>2, <4>1, GotoStep DEF PutObject, PCs
    <3> QED BY <2>10, <2>w, <3>1, <3>2, ReplyStep DEF PutObject, Panics, Codes
  <2>11. CASE SaveUpdate(r)
    <3>0. Active(r) /\ req[r].p \in Products /\ ~Uploading(r)
      BY <2>11 DEF SaveUpdate, Shape, Active, Uploading, Uploads
    <3>1. WritesOnly(r)
      BY <2>11, <3>0 DEF SaveUpdate, GormSave, Fails, TypeOK, WritesOnly, Claims
    <3>2. CASE Goto(r, "present")
      <4>1. ~Held(r)'
        BY <3>0, <3>2 DEF Goto, TypeOK, Uploading, Held, Active
      <4> QED BY <2>11, <2>m, <3>0, <3>1, <3>2, <4>1, GotoStep DEF SaveUpdate, PCs
    <3> QED BY <2>11, <2>m, <3>1, <3>2, ReplyStep DEF SaveUpdate, Codes
  <2>12. CASE SaveCover(r)
    <3>0. Uploading(r) /\ Held(r) /\ req[r].p \in Products
      BY <2>12 DEF SaveCover, Shape, Active, Uploading, Uploads, Held
    <3>1. WritesOnly(r)
      BY <2>12, <3>0 DEF SaveCover, GormSave, Fails, TypeOK, WritesOnly, Claims
    <3>2. CASE Goto(r, "rollback") /\ Fails(GormSave(req[r].p, req[r].key), UNCHANGED product)
      <4>1. Held(r)' => UNCHANGED product
        BY <3>2 DEF Goto, Fails, Held, TypeOK
      <4>2. Held(r)' => req[r].key \notin Referenced'
        BY <2>12, <3>0, <4>1 DEF SaveCover, Ownership, HeldUnknown, Known, Referenced
      <4> QED BY <2>12, <2>m, <3>0, <3>1, <3>2, <4>2, GotoStep DEF SaveCover, PCs, Uploading
    <3> QED BY <2>12, <2>m, <3>1, <3>2, ReplyStep DEF SaveCover, Codes
  <2>13. CASE InsertImage(r)
    <3> DEFINE row == [st |-> "live", product |-> req[r].p, pos |-> Cardinality(req[r].keys)]
               write == image' = [image EXCEPT ![req[r].key] = row]
    <3>0. Uploading(r) /\ Held(r)
      BY <2>13 DEF InsertImage, Shape, Active, Uploading, Uploads, Held
    <3>1. WritesOnly(r)
      BY <2>13, <3>0 DEF InsertImage, Fails, TypeOK, WritesOnly, Claims
    <3>2. CASE Goto(r, "rollback") /\ Fails(write, UNCHANGED image)
      <4>1. Held(r)' => UNCHANGED image
        BY <3>2 DEF Goto, Fails, Held, TypeOK
      <4>2. Held(r)' => req[r].key \notin Referenced'
        BY <2>13, <3>0, <4>1 DEF InsertImage, Ownership, HeldUnknown, Known, Referenced
      <4> QED BY <2>13, <2>m, <3>0, <3>1, <3>2, <4>2, GotoStep DEF InsertImage, PCs, Uploading
    <3> QED BY <2>13, <2>m, <3>1, <3>2, ReplyStep DEF InsertImage, Codes
  <2>14. CASE Rollback(r)
    <3>1. RemovesOnly(r)
      BY <2>14 DEF Rollback, Delete, RemovesOnly, Uploading, Active, Shape
    <3> QED BY <2>14, <3>1, <2>w, ReplyStep DEF Rollback, Codes
  <2>15. CASE DeleteProduct(r)
    <3>1. WritesOnly(r)
      BY <2>15 DEF DeleteProduct, SoftDelete, Fails, TypeOK, ProductRow, WritesOnly, Claims
    <3> QED BY <2>15, <2>m, <3>1, ReplyStep DEF DeleteProduct, Codes
  <2>16. CASE DeleteImageRow(r)
    <3>1. WritesOnly(r)
      BY <2>16 DEF DeleteImageRow, SoftDelete, Fails, TypeOK, ImageRow, WritesOnly, Claims
    <3> QED BY <2>16, <2>m, <3>1, ReplyStep DEF DeleteImageRow, Codes
  <2>17. CASE Present(r)
    BY <2>17, <2>w, <2>m, ReplyStep DEF Present, Codes
  <2>18. CASE Receive(r)
    BY <2>18, <2>w, <2>m, <2>e, FreshSlot DEF Receive, Idle
  <2> QED BY <1>3, <2>1, <2>2, <2>3, <2>4, <2>5, <2>6, <2>7, <2>8, <2>9, <2>10, <2>11, <2>12,
             <2>13, <2>14, <2>15, <2>16, <2>17, <2>18 DEF Step
<1> QED BY <1>1, <1>2, <1>3 DEF Next

\* The inductive invariant behind the safety theorems.
LEMMA OwnershipInvariant == Spec => [](TypeOK /\ Shape /\ Ownership)
<1>1. ASSUME Init PROVE Ownership
  <2>1. /\ \A k \in Keys : ~Known(k)
        /\ \A p \in Products, k \in Keys : ~Claims(p, k)
        /\ \A r \in Requests : ~Uploading(r) /\ ~Held(r)
    BY <1>1, ImagesAssumption
    DEF Init, Known, Seen, Referenced, Claims, Uploading, Held, Active, Idle, Slot
  <2> QED BY <2>1 DEF Ownership, KnownMinted, HeldMinted, HeldDistinct, HeldUnknown, HeldStored,
      ClaimUnique, ClaimNoImage
<1>2. TypeOK /\ Shape /\ Ownership /\ [Next]_vars /\ TypeOK' /\ Shape' => Ownership'
  BY OwnershipNext
<1> QED BY <1>1, <1>2, TypeInvariant, PTL DEF Spec

\* No object belongs to two rows.
THEOREM KeysOwned == Spec => []KeyOwnership
<1>1. TypeOK /\ Ownership => KeyOwnership
  BY DEF Ownership, ClaimUnique, ClaimNoImage, Claims, KeyOwnership
<1> QED BY <1>1, OwnershipInvariant, PTL

\* An object that is uploaded and not yet recorded stays stored and unreferenced.
THEOREM PendingUploadsSafe == Spec => []PendingUploadSafe
<1>1. TypeOK /\ Ownership => PendingUploadSafe
  BY DEF Ownership, HeldStored, HeldUnknown, Known, Held, Uploading, Active, Uploads,
     PendingUploadSafe
<1> QED BY <1>1, OwnershipInvariant, PTL

\* A deleted gallery row never changes.
THEOREM ImageDeletionsFinal == Spec => ImageDeletionFinal
<1>1. ASSUME TypeOK, Shape, Ownership, [Next]_vars, NEW k \in Keys, image[k].st = "deleted"
      PROVE  image'[k] = image[k]
  <2>1. CASE UNCHANGED image
    BY <2>1
  <2>2. ASSUME NEW r \in Requests, InsertImage(r) PROVE image'[k] = image[k]
    <3>1. Held(r) /\ req[r].key \in Keys
      BY <1>1, <2>2 DEF InsertImage, Shape, Active, Uploading, Uploads, Held
    <3>2. req[r].key # k
      BY <1>1, <3>1 DEF Ownership, HeldUnknown, Known, Referenced
    <3> QED BY <1>1, <2>2, <3>1, <3>2 DEF InsertImage, Fails, TypeOK
  <2>3. ASSUME NEW r \in Requests, DeleteImageRow(r) PROVE image'[k] = image[k]
    BY <1>1, <2>3 DEF DeleteImageRow, Fails, SoftDelete, TypeOK
  <2> QED BY <1>1, <2>1, <2>2, <2>3 DEF Next, Step, vars, Restart, ArriveOnProduct, ArriveUpload,
      ArriveDeleteImage, CreateProduct, FindProduct, LoadGallery, RefuseRequest, FindImage,
      RemoveObject, PutObject, SaveUpdate, SaveCover, Rollback, DeleteProduct, Present, Receive
<1>2. TypeOK /\ Shape /\ Ownership /\ [Next]_vars =>
         [\A k \in Keys : image[k].st = "deleted" => image'[k] = image[k]]_vars
  BY <1>1
<1> QED BY <1>2, OwnershipInvariant, PTL DEF Spec, ImageDeletionFinal
=============================================================================
